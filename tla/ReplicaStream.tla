---------------------------- MODULE ReplicaStream ----------------------------
(***************************************************************************)
(* What catalog replication promises when one instance is changed by one   *)
(* user at a time and nothing fails: every change of the master reaches    *)
(* every slave once, in the order of the changes, and nothing else ever    *)
(* changes a slave.                                                        *)
(*                                                                         *)
(* The queues, the listener threads and the producer flag of               *)
(* CatalogReplication, which implements this module, do not appear.        *)
(***************************************************************************)
EXTENDS CatalogEvents, Naturals

CONSTANTS
    Slave,
    MaxLag       \* bound on the changes a slave may have still to see

ASSUME MaxLagAssumption == MaxLag \in Nat

VARIABLES
    primary,     \* the catalog of the master
    replica,     \* replica[s]: the catalog of slave s
    pending      \* pending[s]: the changes slave s has still to see

vars == <<primary, replica, pending>>

TypeOK ==
    /\ primary \in Catalog
    /\ replica \in [Slave -> Catalog]
    /\ pending \in [Slave -> Seq(Event)]

Init ==
    /\ primary \in Catalog
    /\ replica = [s \in Slave |-> primary]
    /\ pending = [s \in Slave |-> <<>>]

\* The user changes the master: creates an object, changes or removes one.
Change(e) ==
    /\ Fits(primary, e)
    /\ \A s \in Slave : Len(pending[s]) < MaxLag
    /\ primary' = Effect(primary, e)
    /\ pending' = [s \in Slave |-> Append(pending[s], e)]
    /\ UNCHANGED replica

\* Mutants of Deliver: the newest change first; the catalog
\* reduced to the object of the change.
DeliverNewest(s) ==
    /\ pending[s] # <<>>
    /\ replica' = [replica EXCEPT ![s] = Effect(@, Last(pending[s]))]
    /\ pending' = [pending EXCEPT ![s] = Front(@)]
    /\ UNCHANGED primary

DeliverAlone(s) ==
    /\ pending[s] # <<>>
    /\ replica' = [replica EXCEPT ![s] =
                     [n \in {Head(pending[s]).info} |->
                        Effect(@, Head(pending[s]))[n]]]
    /\ pending' = [pending EXCEPT ![s] = Tail(@)]
    /\ UNCHANGED primary

\* Slave s makes the oldest change it has not made yet.
Deliver(s) ==
    /\ pending[s] # <<>>
    /\ replica' = [replica EXCEPT ![s] = Effect(@, Head(pending[s]))]
    /\ pending' = [pending EXCEPT ![s] = Tail(@)]
    /\ UNCHANGED primary

Next ==
    \/ \E e \in Event : Change(e)
    \/ \E s \in Slave : Deliver(s)

Spec == Init /\ [][Next]_vars

-----------------------------------------------------------------------------
(***************************************************************************)
(* A slave differs from the master by the changes it has not seen, and by  *)
(* nothing else: applying them gives the catalog of the master.  This is   *)
(* what the replay by the three synchronize() methods is for.              *)
(***************************************************************************)
PendingExplainsLag ==
    \A s \in Slave : EffectOfAll(replica[s], pending[s]) = primary

(***************************************************************************)
(* The changes a slave has still to see fit, one after the other: none     *)
(* adds an object that will be there, none changes one that will not.      *)
(***************************************************************************)
PendingFits ==
    \A s \in Slave : \A k \in DOMAIN pending[s] :
        Fits(EffectOfAll(replica[s], SubSeq(pending[s], 1, k - 1)), pending[s][k])

=============================================================================
