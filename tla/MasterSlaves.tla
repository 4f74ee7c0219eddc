----------------------------- MODULE MasterSlaves -----------------------------
(***************************************************************************)
(* The deployment the modules were written for: one pure master, whose     *)
(* catalog one user at a time changes, and pure slaves, each with an       *)
(* instance name of its own.  It implements ReplicaStream as long as       *)
(* nothing fails.                                                          *)
(***************************************************************************)
EXTENDS CatalogReplication

CONSTANTS Master, Editor

ASSUME DeploymentAssumption ==
    /\ Instance = Client \cup {Master}
    /\ Master \notin Client
    /\ Server = {Master}
    /\ Edited = {Master}
    /\ User = {Editor}
    /\ \A i, j \in Instance : InstanceName[i] = InstanceName[j] => i = j

-----------------------------------------------------------------------------
(***************************************************************************)
(* The refinement mapping.                                                 *)
(***************************************************************************)

\* A modification counts as made when it is published: the slaves may have it
\* before the master does.
MasterCatalog ==
    IF pc[Master][Editor] = "commit"
        THEN Modified(catalog[Master], event[Master][Editor])
        ELSE catalog[Master]

\* What the listener of s has taken and not yet written to its catalog.
InHandler(s) ==
    IF \/ pc[s][Listener] \in {"disable", "call"}
       \/ /\ pc[s][Listener] \in {"notify", "publish", "commit"}
          /\ event[s][Listener].type = "modify"
        THEN <<event[s][Listener]>>
        ELSE <<>>

Events(messages) == [k \in DOMAIN messages |-> messages[k].event]

InQueue(s) == Events(queue[InstanceName[s]])

\* What the master has written and not yet published.
Unpublished ==
    IF /\ pc[Master][Editor] \in {"notify", "publish"}
       /\ event[Master][Editor].type # "modify"
        THEN <<event[Master][Editor]>>
        ELSE <<>>

InTransit(s) == InHandler(s) \o InQueue(s) \o Unpublished

Stream == INSTANCE ReplicaStream WITH
    Slave <- Client,
    MaxLag <- MaxRequests,
    primary <- MasterCatalog,
    replica <- [s \in Client |-> catalog[s]],
    pending <- [s \in Client |-> InTransit(s)]

-----------------------------------------------------------------------------
(***************************************************************************)
(* Until something fails the listener, the publisher, the queues and the   *)
(* handlers together repeat every change of the master on every slave,     *)
(* once and in order: each of their steps is one of the stream, or none.   *)
(***************************************************************************)
StreamStep == [Stream!Next]_Stream!vars
ImplementsStream == Stream!Init /\ [][faults' > 0 \/ StreamStep]_vars

(***************************************************************************)
(* A slave that will differ from its master has seen a failure: as long as *)
(* there was none, what is in transit leads it to the master's catalog.    *)
(***************************************************************************)
DivergenceNeedsFault ==
    faults = 0 =>
        \A s \in Client : EffectOfAll(catalog[s], InTransit(s)) = MasterCatalog

(***************************************************************************)
(* A handler never misses the object a modification is about, and never    *)
(* finds the one it has to add, unless something failed before.            *)
(***************************************************************************)
HandlerFindsObject ==
    \A s \in Client :
        faults = 0 /\ pc[s][Listener] = "call" =>
            Fits(catalog[s], event[s][Listener])

(***************************************************************************)
(* The users stop after MaxRequests changes at the latest; then the slaves *)
(* end up with the catalog of the master, unless something failed.         *)
(***************************************************************************)
SlavesConverge ==
    <>[](faults = 0 => \A s \in Client : catalog[s] = catalog[Master])

=============================================================================
