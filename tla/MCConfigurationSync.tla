------------------------- MODULE MCConfigurationSync -------------------------
(* A part, a property whose name gets lost on its way to the slave, and the    *)
(* name of a service. No thread is told from another.                          *)
EXTENDS ConfigurationSync, TLC

Symmetric == Permutations(Thread)
=============================================================================
