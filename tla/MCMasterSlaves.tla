---------------------------- MODULE MCMasterSlaves ----------------------------
(* One master m, slaves in Client, one editor.  The names of the instances   *)
(* are the instances themselves.                                             *)
EXTENDS MasterSlaves

MCInstance == Client \cup {Master}
MCMasterOnly == {Master}
MCInstanceName == [i \in MCInstance |-> i]
=============================================================================
