-------------------------- MODULE MCStyleReplication --------------------------
(* Two styles, which may share one of two files.                               *)
EXTENDS StyleReplication, TLC
CONSTANTS roads, lakes, one, two
MCStyle == {roads, lakes}
MCFile == {one, two}

\* No name is told from another, and no thread.
Symmetric == Permutations(MCStyle) \cup Permutations(MCFile) \cup Permutations(Thread)
=============================================================================
