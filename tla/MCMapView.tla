------------------------------ MODULE MCMapView ------------------------------
(* A world of two views at zoom 0, and of four at zoom 1; an overlay of one    *)
(* tile that is drawn at zoom 1 only.  One centre lies outside of the world.   *)
EXTENDS MapView
CONSTANTS streets, aerial, states

MCLayer == {streets, aerial, states}
MCBase == {streets, aerial}
MCSingleTile == {states}
MCTileWidth == [z \in 0 .. MaxZoom |-> 4 * 2 ^ (MaxZoom - z)]
MCMinZoom == [l \in MCLayer |-> IF l = states THEN 1 ELSE AlwaysInRange]
MCLon == {5, 20}
MCSizes == {1, 2}
MCPages ==
    {[restrictedExtent |-> Unrestricted, size |-> 1,
      layers |-> <<streets, states>>, center |-> 5],
     [restrictedExtent |-> Unrestricted, size |-> 2,
      layers |-> <<streets, aerial>>, center |-> None],
     [restrictedExtent |-> [left |-> 2, right |-> 8], size |-> 1,
      layers |-> <<streets, aerial, states>>, center |-> None]}
=============================================================================
