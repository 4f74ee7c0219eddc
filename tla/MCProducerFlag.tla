---------------------------- MODULE MCProducerFlag ----------------------------
(* Three threads: the listener container, the start-up and one more caller. *)
EXTENDS ProducerFlag
=============================================================================
