--------------------------- MODULE MCReplicaStream ---------------------------
(* Small instance of ReplicaStream for TLC. *)
EXTENDS ReplicaStream
=============================================================================
