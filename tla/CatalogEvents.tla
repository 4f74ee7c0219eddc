---------------------------- MODULE CatalogEvents ----------------------------
(***************************************************************************)
(* The catalog of one GeoServer instance and the events that describe its  *)
(* changes, as the JMS modules exchange them.  Pure definitions, shared by *)
(* the replication modules.                                                *)
(*                                                                         *)
(* A CatalogInfo (workspace, store, layer, style, ...) is identified by    *)
(* its name, which is what the handlers look it up by; the value stands    *)
(* for all its properties.                                                 *)
(***************************************************************************)
EXTENDS Integers, Sequences, SequencesExt

CONSTANTS
    Info,      \* the names of the CatalogInfo objects
    Value,     \* the values their properties may have
    Absent     \* what a catalog holds for a name it does not know

ASSUME AbsentAssumption == Absent \notin Value

Catalog == [Info -> Value \cup {Absent}]

(***************************************************************************)
(* CatalogAddEvent and CatalogModifyEvent carry the new value, a           *)
(* CatalogRemoveEvent only says which object is gone.                      *)
(***************************************************************************)
Event ==
    [type : {"add", "modify"}, info : Info, value : Value]
        \cup [type : {"remove"}, info : Info, value : {Absent}]

NoEvent == [type |-> "none"]

\* An addition is about an object that is not there, the others are about one
\* that is.
Fits(c, e) == (e.type = "add") = (c[e.info] = Absent)

-----------------------------------------------------------------------------
(***************************************************************************)
(* What the three handlers leave in a local catalog c.                     *)
(***************************************************************************)

\* CatalogUtils.localizeXXX returns the local object when the name is already
\* known, so adding it again keeps the local values and ignores the incoming.
Added(c, e) ==
    [c EXCEPT ![e.info] = IF @ = Absent THEN e.value ELSE @]

\* The object is searched by name: if it is not there nothing is changed.
Modified(c, e) ==
    [c EXCEPT ![e.info] = IF @ = Absent THEN Absent ELSE e.value]

\* Removing an object that is not there is harmless.
Removed(c, e) == [c EXCEPT ![e.info] = Absent]

Effect(c, e) ==
    CASE e.type = "add"    -> Added(c, e)
      [] e.type = "modify" -> Modified(c, e)
      [] e.type = "remove" -> Removed(c, e)

\* The catalog that a sequence of events turns c into.  (A fold, written as a
\* recursive function so that it can be proved about.)
EffectOfAll(c, events) ==
    LET after[k \in 0 .. Len(events)] ==
            IF k = 0 THEN c ELSE Effect(after[k - 1], events[k])
    IN  after[Len(events)]

=============================================================================
