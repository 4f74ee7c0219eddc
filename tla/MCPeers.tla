------------------------------- MODULE MCPeers -------------------------------
(* Instances that are master and slave of each other: each publishes, each  *)
(* consumes, users change them all.                                         *)
EXTENDS CatalogReplication

MCInstanceName == [i \in Instance |-> i]
=============================================================================
