-------------------------- MODULE MCMessageProperties --------------------------
(* Small instances of MessageProperties: one or two request threads. *)
EXTENDS MessageProperties
=============================================================================
