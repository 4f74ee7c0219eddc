-------------------------- MODULE MasterSlavesProofs --------------------------
(***************************************************************************)
(* Theorems about the replication protocol for any number of instances,    *)
(* users, objects and values, and about the deployment of MasterSlaves,    *)
(* which implements ReplicaStream as long as nothing fails, for any number *)
(* of slaves and requests.                                                 *)
(***************************************************************************)
EXTENDS MasterSlaves, SequenceTheorems, TLAPS

-----------------------------------------------------------------------------
(***************************************************************************)
(* Any deployment: CatalogReplication.                                     *)
(***************************************************************************)
\* A handler leaves a catalog.
LEMMA HandlersKeepType ==
    ASSUME NEW c \in Catalog, NEW e \in Event
    PROVE  Effect(c, e) \in Catalog /\ Modified(c, e) \in Catalog
  <1>1. e.type \in {"add", "modify", "remove"} /\ e.value \in Value \cup {Absent}
    BY DEF Event
  <1>2. Added(c, e) \in Catalog /\ Modified(c, e) \in Catalog /\ Removed(c, e) \in Catalog
    BY <1>1 DEF Added, Modified, Removed, Catalog
  <1> QED  BY <1>1, <1>2 DEF Effect

\* NoEvent is not an event a thread can work on.
LEMMA NoEventIsNone ==
    ASSUME NEW e \in Event
    PROVE  e # NoEvent
  BY DEF Event, NoEvent

\* A thread at work has an event.
LEMMA BusyThreadHasEvent ==
    ASSUME ThreadsOK, NEW i \in Instance, NEW t \in Thread, pc[i][t] # "idle"
    PROVE  event[i][t] \in Event
  <1>1. event[i][t] \in Event \cup {NoEvent}
    BY DEF ThreadsOK
  <1>2. event[i][t] # NoEvent
    BY DEF ThreadsOK
  <1> QED  BY <1>1, <1>2

\* A thread that is not idle goes on with the event it has.
LEMMA GotoThreads ==
    ASSUME ThreadsOK, NEW i \in Instance, NEW t \in Thread,
           pc[i][t] # "idle",
           NEW label \in Control \ {"idle"},
           Goto(i, t, label), UNCHANGED event
    PROVE  ThreadsOK'
  BY DEF ThreadsOK, Goto, Control

\* A thread that finishes drops its event.
LEMMA FinishThreads ==
    ASSUME ThreadsOK, NEW i \in Instance, NEW t \in Thread, Finish(i, t)
    PROVE  ThreadsOK'
  BY DEF ThreadsOK, Finish, Control

LEMMA LeaveThreads ==
    ASSUME ThreadsOK, NEW i \in Instance, NEW t \in Thread,
           pc[i][t] # "idle", Leave(i, t)
    PROVE  ThreadsOK'
  <1>1. CASE t = Listener
    BY <1>1, GotoThreads DEF Leave, Control
  <1>2. CASE t # Listener
    BY <1>2, FinishThreads DEF Leave
  <1> QED  BY <1>1, <1>2

LEMMA AfterEventThreads ==
    ASSUME ThreadsOK, NEW i \in Instance, NEW t \in Thread,
           pc[i][t] # "idle", AfterEvent(i, t)
    PROVE  ThreadsOK'
  <1>1. CASE event[i][t].type = "modify"
    BY <1>1, GotoThreads DEF AfterEvent, Control
  <1>2. CASE event[i][t].type # "modify"
    BY <1>2, LeaveThreads DEF AfterEvent
  <1> QED  BY <1>1, <1>2

\* What the virtual topic does to the queues.
LEMMA AppendToAll ==
    ASSUME NEW N, NEW M, NEW q \in [N -> Seq(M)], NEW m \in M
    PROVE  [n \in N |-> Append(q[n], m)] \in [N -> Seq(M)]
  OBVIOUS

\* What taking a message leaves and gives.
LEMMA TakeType ==
    ASSUME TypeOK, NEW i \in Instance, Take(i)
    PROVE  /\ i \in Client
           /\ queue' \in [QueueName -> Seq(Message)]
           /\ HeadOf(i) \in Message
  <1>1. InstanceName[i] \in QueueName
    BY DEF Take, QueueName
  <1>2. queue[InstanceName[i]] \in Seq(Message) /\ queue[InstanceName[i]] # <<>>
    BY <1>1 DEF Take, TypeOK
  <1>3. Head(queue[InstanceName[i]]) \in Message
    BY <1>2
  <1>4. Tail(queue[InstanceName[i]]) \in Seq(Message)
    BY <1>2
  <1> QED  BY <1>1, <1>3, <1>4 DEF Take, TypeOK, HeadOf

-----------------------------------------------------------------------------
LEMMA InitTypeOK == Init => TypeOK
  <1> SUFFICES ASSUME Init PROVE TypeOK
    OBVIOUS
  <1>1. ThreadsOK
    BY NoEventIsNone DEF Init, ThreadsOK, Control
  <1>2. queue \in [QueueName -> Seq(Message)]
    BY DEF Init
  <1>3. requests \in 0 .. MaxRequests /\ faults \in 0 .. MaxFaults
    BY ConfigurationAssumption DEF Init
  <1> QED  BY <1>1, <1>2, <1>3 DEF Init, TypeOK

\* The steps of a user, and of any thread inside the catalog.
LEMMA CatalogStepTypeOK ==
    ASSUME TypeOK, NEW i \in Instance, NEW t \in Thread,
           InCatalog(i, t) \/ (t \in User /\ Request(i, t))
    PROVE  TypeOK'
  <1>1. CASE Notify(i, t)
    <2>1. ThreadsOK'
      BY <1>1, GotoThreads, AfterEventThreads DEF Notify, TypeOK, Control
    <2> QED  BY <1>1, <2>1 DEF Notify, TypeOK
  <1>2. CASE Publish(i, t)
    <2>1. ThreadsOK'
      BY <1>2, AfterEventThreads DEF Publish, TypeOK
    <2>2. event[i][t] \in Event
      BY <1>2, BusyThreadHasEvent DEF Publish, TypeOK
    <2>3. [producer |-> InstanceName[i], event |-> event[i][t]] \in Message
      BY <2>2 DEF Message, Name
    <2>4. queue' \in [QueueName -> Seq(Message)]
      <3>1. queue \in [QueueName -> Seq(Message)]
        BY DEF TypeOK
      <3>2. queue' = [n \in QueueName |->
                        Append(queue[n], [producer |-> InstanceName[i],
                                          event |-> event[i][t]])]
        BY <1>2 DEF Publish
      <3> QED  BY <2>3, <3>1, <3>2, AppendToAll
    <2> QED  BY <1>2, <2>1, <2>4 DEF Publish, TypeOK
  <1>3. CASE Commit(i, t)
    <2>1. ThreadsOK'
      BY <1>3, LeaveThreads DEF Commit, TypeOK
    <2>2. event[i][t] \in Event
      BY <1>3, BusyThreadHasEvent DEF Commit, TypeOK
    <2>3. catalog' \in [Instance -> Catalog]
      BY <1>3, <2>2, HandlersKeepType DEF Commit, TypeOK
    <2> QED  BY <1>3, <2>1, <2>3 DEF Commit, TypeOK
  <1>4. CASE Request(i, t)
    <2>1. PICK e \in Event :
              /\ event' = [event EXCEPT ![i][t] = e]
              /\ catalog' = IF e.type = "modify"
                                THEN catalog
                                ELSE [catalog EXCEPT ![i] = Effect(@, e)]
      BY <1>4 DEF Request
    <2>2. ThreadsOK'
      BY <1>4, <2>1, NoEventIsNone DEF Request, Goto, TypeOK, ThreadsOK, Control
    <2>3. Effect(catalog[i], e) \in Catalog
      BY HandlersKeepType DEF TypeOK
    <2>4. catalog' \in [Instance -> Catalog]
      BY <2>1, <2>3 DEF TypeOK
    <2>5. requests' \in 0 .. MaxRequests
      BY <1>4, ConfigurationAssumption DEF Request, TypeOK
    <2> QED  BY <1>4, <2>2, <2>4, <2>5 DEF Request, TypeOK
  <1> QED  BY <1>1, <1>2, <1>3, <1>4 DEF InCatalog

\* The steps of the listener thread outside the catalog.
LEMMA OnMessageTypeOK ==
    ASSUME TypeOK, NEW i \in Instance, OnMessage(i)
    PROVE  TypeOK'
  <1>0. Listener \in Thread
    BY DEF Thread
  <1>1. CASE Discard(i)
    BY <1>1, TakeType DEF Discard, TypeOK, ThreadsOK
  <1>2. CASE Receive(i)
    <2>1. HeadOf(i).event \in Event /\ queue' \in [QueueName -> Seq(Message)]
      BY <1>2, TakeType DEF Receive, Message
    <2>2. ThreadsOK'
      BY <1>0, <1>2, <2>1, NoEventIsNone
      DEF Receive, Goto, TypeOK, ThreadsOK, Control
    <2> QED  BY <1>2, <2>1, <2>2 DEF Receive, TypeOK
  <1>3. CASE Disable(i)
    <2>1. ThreadsOK'
      BY <1>0, <1>3, GotoThreads DEF Disable, TypeOK, Control
    <2> QED  BY <1>3, <2>1 DEF Disable, SetProducerEnabled, TypeOK
  <1>4. CASE AddOrRemove(i)
    <2>1. ThreadsOK'
      BY <1>0, <1>4, GotoThreads DEF AddOrRemove, TypeOK, Control
    <2>2. event[i][Listener] \in Event
      BY <1>0, <1>4, BusyThreadHasEvent DEF AddOrRemove, TypeOK
    <2>3. catalog' \in [Instance -> Catalog]
      BY <1>4, <2>2, HandlersKeepType DEF AddOrRemove, TypeOK
    <2> QED  BY <1>4, <2>1, <2>3 DEF AddOrRemove, TypeOK
  <1>5. CASE Modify(i)
    <2>1. ThreadsOK'
      BY <1>0, <1>5, GotoThreads DEF Modify, TypeOK, Control
    <2> QED  BY <1>5, <2>1 DEF Modify, TypeOK
  <1>6. CASE Enable(i)
    <2>1. ThreadsOK'
      BY <1>0, <1>6, FinishThreads DEF Enable, TypeOK
    <2> QED  BY <1>6, <2>1 DEF Enable, SetProducerEnabled, TypeOK
  <1> QED  BY <1>1, <1>2, <1>3, <1>4, <1>5, <1>6 DEF OnMessage

LEMMA FaultType ==
    ASSUME TypeOK, Fault
    PROVE  faults' \in 0 .. MaxFaults
  BY ConfigurationAssumption DEF TypeOK, Fault

LEMMA FailureTypeOK ==
    ASSUME TypeOK, NEW i \in Instance, Failure(i)
    PROVE  TypeOK'
  <1>0. Listener \in Thread
    BY DEF Thread
  <1>1. CASE HandlerUnavailable(i)
    BY <1>1, FaultType, TakeType DEF HandlerUnavailable, TypeOK, ThreadsOK
  <1>2. CASE SynchronizeFails(i)
    <2>1. ThreadsOK'
      BY <1>0, <1>2, GotoThreads DEF SynchronizeFails, TypeOK, Control
    <2> QED  BY <1>2, <2>1, FaultType DEF SynchronizeFails, TypeOK
  <1>3. ASSUME NEW t \in Thread, PublishFails(i, t)
        PROVE  TypeOK'
    <2>1. ThreadsOK'
      BY <1>3, LeaveThreads DEF PublishFails, TypeOK
    <2> QED  BY <1>3, <2>1, FaultType DEF PublishFails, TypeOK
  <1>4. ASSUME NEW t \in Thread, MessageLost(i, t)
        PROVE  TypeOK'
    <2>1. ThreadsOK'
      BY <1>4, AfterEventThreads DEF MessageLost, TypeOK
    <2> QED  BY <1>4, <2>1, FaultType DEF MessageLost, TypeOK
  <1>5. CASE Crash(i)
    <2>1. ThreadsOK'
      BY <1>5 DEF Crash, TypeOK, ThreadsOK, Control
    <2> QED  BY <1>5, <2>1, FaultType DEF Crash, TypeOK
  <1> QED  BY <1>1, <1>2, <1>3, <1>4, <1>5 DEF Failure

LEMMA ContextLoadedTypeOK ==
    ASSUME TypeOK, NEW i \in Instance, ContextLoaded(i)
    PROVE  TypeOK'
  BY DEF ContextLoaded, SetProducerEnabled, TypeOK, ThreadsOK

LEMMA NextTypeOK == TypeOK /\ [Next]_vars => TypeOK'
  <1> SUFFICES ASSUME TypeOK, [Next]_vars PROVE TypeOK'
    OBVIOUS
  <1>1. CASE UNCHANGED vars
    BY <1>1 DEF vars, TypeOK, ThreadsOK
  <1>2. CASE Next
    BY <1>2, ContextLoadedTypeOK, CatalogStepTypeOK, OnMessageTypeOK,
       FailureTypeOK DEF Next, Thread
  <1> QED  BY <1>1, <1>2

(***************************************************************************)
(* Every variable keeps its type: in particular a thread inside the        *)
(* catalog or the listener always has an event to work on, and an idle one *)
(* none.                                                                   *)
(***************************************************************************)
THEOREM TypeCorrect == Spec => []TypeOK
  BY InitTypeOK, NextTypeOK, PTL DEF Spec

-----------------------------------------------------------------------------
\* One thread moves, the others stay where they are.
LEMMA GotoMoves ==
    ASSUME ThreadsOK, NEW i \in Instance, NEW t \in Thread, NEW label,
           Goto(i, t, label)
    PROVE  \A j \in Instance, s \in Thread :
              pc'[j][s] = IF j = i /\ s = t THEN label ELSE pc[j][s]
  BY DEF ThreadsOK, Goto

LEMMA LeaveMoves ==
    ASSUME ThreadsOK, NEW i \in Instance, NEW t \in Thread,
           Finish(i, t) \/ Leave(i, t) \/ AfterEvent(i, t)
    PROVE  /\ \A j \in Instance, s \in Thread :
                 j # i \/ s # t => pc'[j][s] = pc[j][s]
           /\ pc'[i][t] \in {"idle", "enable", "commit"}
           /\ Leave(i, t) /\ t = Listener => pc'[i][t] = "enable"
  <1>1. CASE Finish(i, t)
    BY <1>1 DEF Finish, Leave, Goto, ThreadsOK
  <1>2. CASE Leave(i, t)
    <2>1. CASE t = Listener
      BY <1>2, <2>1, GotoMoves DEF Leave
    <2>2. CASE t # Listener
      BY <1>2, <2>2 DEF Leave, Finish, ThreadsOK
    <2> QED  BY <2>1, <2>2
  <1>3. CASE AfterEvent(i, t) /\ ~Leave(i, t)
    BY <1>3, GotoMoves DEF AfterEvent
  <1> QED  BY <1>1, <1>2, <1>3

\* A step of a thread other than the listener leaves the listener where it is.
LEMMA UserStepOfListener ==
    ASSUME TypeOK, NEW i \in Instance, NEW t \in User,
           InCatalog(i, t) \/ Request(i, t)
           \/ PublishFails(i, t) \/ MessageLost(i, t)
    PROVE  /\ \A j \in Instance : pc'[j][Listener] = pc[j][Listener]
           /\ UNCHANGED <<producerEnabled, overtaken>>
  <1>0. Listener \in Thread /\ t \in Thread /\ t # Listener /\ ThreadsOK
    BY ConfigurationAssumption DEF Thread, TypeOK
  <1>1. CASE Notify(i, t)
    BY <1>0, <1>1, GotoMoves, LeaveMoves DEF Notify
  <1>2. CASE Publish(i, t) \/ PublishFails(i, t) \/ MessageLost(i, t)
    BY <1>0, <1>2, LeaveMoves DEF Publish, PublishFails, MessageLost
  <1>3. CASE Commit(i, t)
    BY <1>0, <1>3, LeaveMoves DEF Commit
  <1>4. CASE Request(i, t)
    BY <1>0, <1>4, GotoMoves DEF Request
  <1> QED  BY <1>1, <1>2, <1>3, <1>4 DEF InCatalog

(***************************************************************************)
(* The steps of the listener thread, and those that meet it.               *)
(***************************************************************************)
LEMMA ListenerStepDisabled ==
    ASSUME TypeOK, DisabledDuringCall, NEW i \in Instance,
           \/ ContextLoaded(i)
           \/ InCatalog(i, Listener)
           \/ OnMessage(i)
           \/ HandlerUnavailable(i)
           \/ SynchronizeFails(i)
           \/ PublishFails(i, Listener)
           \/ MessageLost(i, Listener)
           \/ Crash(i)
    PROVE  DisabledDuringCall'
  <1> USE DEF DisabledDuringCall
  <1>0. Listener \in Thread /\ ThreadsOK
    BY DEF Thread, TypeOK
  <1>1. CASE ContextLoaded(i)
    BY <1>0, <1>1 DEF ContextLoaded, SetProducerEnabled, TypeOK
  <1>2. CASE Notify(i, Listener)
    <2>1. CASE producerEnabled[i]
      BY <1>0, <1>2, <2>1, GotoMoves DEF Notify
    <2>2. CASE ~producerEnabled[i]
      BY <1>0, <1>2, <2>2, LeaveMoves DEF Notify
    <2> QED  BY <2>1, <2>2
  <1>3. CASE \/ Publish(i, Listener)
             \/ PublishFails(i, Listener)
             \/ MessageLost(i, Listener)
    <2>1. overtaken[i] /\ UNCHANGED <<producerEnabled, overtaken>>
      BY <1>3 DEF Publish, PublishFails, MessageLost
    <2>2. Leave(i, Listener) \/ AfterEvent(i, Listener)
      BY <1>3 DEF Publish, PublishFails, MessageLost
    <2> QED  BY <1>0, <2>1, <2>2, LeaveMoves
  <1>4. CASE Commit(i, Listener)
    <2>1. UNCHANGED <<producerEnabled, overtaken>> /\ Leave(i, Listener)
      BY <1>4 DEF Commit
    <2>2. pc'[i][Listener] = "enable"
      BY <1>0, <2>1, LeaveMoves
    <2> QED  BY <1>0, <2>1, <2>2, LeaveMoves
  <1>5. CASE Discard(i) \/ HandlerUnavailable(i)
    BY <1>5 DEF Discard, HandlerUnavailable
  <1>6. CASE Receive(i)
    BY <1>0, <1>6, GotoMoves DEF Receive
  <1>7. CASE Disable(i)
    BY <1>0, <1>7, GotoMoves DEF Disable, SetProducerEnabled, TypeOK
  <1>8. CASE AddOrRemove(i) \/ Modify(i) \/ SynchronizeFails(i)
    <2>1. /\ pc[i][Listener] = "call"
          /\ UNCHANGED <<producerEnabled, overtaken>>
          /\ Goto(i, Listener, "notify") \/ Goto(i, Listener, "enable")
      BY <1>8 DEF AddOrRemove, Modify, SynchronizeFails
    <2> QED  BY <1>0, <2>1, GotoMoves
  <1>9. CASE Enable(i)
    <2>1. /\ \A j \in Instance \ {i} :
                /\ producerEnabled'[j] = producerEnabled[j]
                /\ overtaken'[j] = overtaken[j]
                /\ pc'[j][Listener] = pc[j][Listener]
          /\ pc'[i][Listener] = "idle"
      BY <1>0, <1>9 DEF Enable, SetProducerEnabled, Finish, TypeOK, ThreadsOK
    <2> QED  BY <2>1
  <1>10. CASE Crash(i)
    BY <1>0, <1>10 DEF Crash, TypeOK, ThreadsOK
  <1> QED
    BY <1>1, <1>2, <1>3, <1>4, <1>5, <1>6, <1>7, <1>8, <1>9, <1>10
    DEF InCatalog, OnMessage

LEMMA NextDisabled ==
    TypeOK /\ DisabledDuringCall /\ [Next]_vars => DisabledDuringCall'
  <1> SUFFICES ASSUME TypeOK, DisabledDuringCall, [Next]_vars
               PROVE  DisabledDuringCall'
    OBVIOUS
  <1>1. CASE UNCHANGED vars
    BY <1>1 DEF vars, DisabledDuringCall
  <1>2. ASSUME NEW i \in Instance, NEW t \in User,
               InCatalog(i, t) \/ Request(i, t)
               \/ PublishFails(i, t) \/ MessageLost(i, t)
        PROVE  DisabledDuringCall'
    BY <1>2, UserStepOfListener DEF DisabledDuringCall
  <1>3. ASSUME NEW i \in Instance,
               \/ ContextLoaded(i)
               \/ InCatalog(i, Listener)
               \/ OnMessage(i)
               \/ HandlerUnavailable(i)
               \/ SynchronizeFails(i)
               \/ PublishFails(i, Listener)
               \/ MessageLost(i, Listener)
               \/ Crash(i)
        PROVE  DisabledDuringCall'
    BY <1>3, ListenerStepDisabled
  <1> QED  BY <1>1, <1>2, <1>3 DEF Next, Failure, Thread

(***************************************************************************)
(* While a handler is inside the catalog the producer of its instance is   *)
(* disabled, unless the ContextLoadedEvent has come in between.            *)
(***************************************************************************)
THEOREM ProducerDisabledDuringCall == Spec => []DisabledDuringCall
  <1>1. Init => DisabledDuringCall
    BY DEF Init, DisabledDuringCall, Thread
  <1> QED  BY <1>1, NextDisabled, TypeCorrect, PTL DEF Spec

(***************************************************************************)
(* An echo needs the overtaking: an instance, loaded or not, publishes     *)
(* again what it has received only if the ContextLoadedEvent came while    *)
(* its handler worked, and enabled the producer behind its back.           *)
(***************************************************************************)
THEOREM EchoNeedsOvertaking == Spec => []NoRecursion
  <1>1. DisabledDuringCall => NoRecursion
    BY DEF DisabledDuringCall, NoRecursion
  <1> QED  BY <1>1, ProducerDisabledDuringCall, PTL

-----------------------------------------------------------------------------
(***************************************************************************)
(* A master and its slaves: MasterSlaves.                                  *)
(***************************************************************************)
StreamProofs == INSTANCE ReplicaStreamProofs WITH
    Slave <- Client,
    MaxLag <- MaxRequests,
    primary <- MasterCatalog,
    replica <- [s \in Client |-> catalog[s]],
    pending <- [s \in Client |-> InTransit(s)]

-----------------------------------------------------------------------------
(***************************************************************************)
(* Sequences.                                                              *)
(***************************************************************************)
LEMMA AppendToTransit ==
    ASSUME NEW S, NEW h \in Seq(S), NEW q \in Seq(S), NEW e \in S
    PROVE  /\ h \o q \o <<e>> = Append(h \o q \o <<>>, e)
           /\ h \o Append(q, e) \o <<>> = h \o q \o <<e>>
           /\ h \o Append(q, e) \o <<>> = Append(h \o q \o <<>>, e)
  OBVIOUS

LEMMA HandlerTakes ==
    ASSUME NEW S, NEW q \in Seq(S), q # <<>>, NEW u \in Seq(S)
    PROVE  <<Head(q)>> \o Tail(q) \o u = <<>> \o q \o u
  OBVIOUS

LEMMA HandlerDelivers ==
    ASSUME NEW S, NEW q \in Seq(S), NEW u \in Seq(S), NEW e \in S
    PROVE  /\ <<e>> \o q \o u # <<>>
           /\ Head(<<e>> \o q \o u) = e
           /\ Tail(<<e>> \o q \o u) = <<>> \o q \o u
           /\ Len(<<e>> \o q \o u) = Len(<<>> \o q \o u) + 1
  OBVIOUS

LEMMA EventsOf ==
    ASSUME NEW q \in Seq(Message)
    PROVE  /\ Events(q) \in Seq(Event)
           /\ Len(Events(q)) = Len(q)
           /\ \A m \in Message : Events(Append(q, m)) = Append(Events(q), m.event)
           /\ q # <<>> => /\ Events(q) # <<>>
                          /\ Events(Tail(q)) = Tail(Events(q))
                          /\ Head(Events(q)) = Head(q).event
  <1>1. \A m \in Message : m.event \in Event
    BY DEF Message
  <1>2. Events(q) \in Seq(Event) /\ Len(Events(q)) = Len(q)
    BY <1>1 DEF Events
  <1>3. ASSUME NEW m \in Message
        PROVE  Events(Append(q, m)) = Append(Events(q), m.event)
    BY <1>1, <1>2 DEF Events
  <1>4. ASSUME q # <<>>
        PROVE  /\ Events(q) # <<>>
               /\ Events(Tail(q)) = Tail(Events(q))
               /\ Head(Events(q)) = Head(q).event
    BY <1>1, <1>2, <1>4 DEF Events
  <1> QED  BY <1>2, <1>3, <1>4

-----------------------------------------------------------------------------
(***************************************************************************)
(* The inductive invariant: what the deployment and the absence of         *)
(* failures exclude.                                                       *)
(***************************************************************************)
\* The master only publishes: its flag is raised when its context is loaded and
\* stays so, and what its user modifies is still there when it is published.
MasterOK ==
    /\ pc[Master][Listener] = "idle"
    /\ pc[Master][Editor] \in {"idle", "notify", "publish", "commit"}
    /\ pc[Master][Editor] # "idle" => phase[Master] = "loaded"
    /\ phase[Master] = "loaded" => producerEnabled[Master]
    /\ pc[Master][Editor] = "commit" => event[Master][Editor].type = "modify"
    /\ pc[Master][Editor] \in {"notify", "publish"}
       /\ event[Master][Editor].type = "modify"
          => Fits(catalog[Master], event[Master][Editor])

\* A slave only consumes.
SlaveOK(s) ==
    /\ pc[s][Editor] = "idle"
    /\ ~producerEnabled[s]
    /\ pc[s][Listener] # "publish"
    /\ pc[s][Listener] = "commit" => event[s][Listener].type = "modify"

\* Every message comes from the master.
QueueOK(s) ==
    \A k \in DOMAIN queue[InstanceName[s]] :
        queue[InstanceName[s]][k].producer = InstanceName[Master]

Deployed == MasterOK /\ \A s \in Client : SlaveOK(s) /\ QueueOK(s)

\* A modification that is asked for and not yet published.
Promised ==
    IF /\ pc[Master][Editor] \in {"notify", "publish"}
       /\ event[Master][Editor].type = "modify"
        THEN 1
        ELSE 0

LagBounded == \A s \in Client : Len(InTransit(s)) + Promised <= requests

Healthy == faults = 0 => Deployed /\ LagBounded

-----------------------------------------------------------------------------
(***************************************************************************)
(* The deployment and what it makes of the queues.                         *)
(***************************************************************************)
LEMMA Deployment ==
    /\ Thread = {Editor, Listener} /\ Editor # Listener
    /\ Master \in Instance /\ Master \notin Client
    /\ \A i \in Instance : i = Master \/ i \in Client
    /\ \A s \in Client :
          /\ s \in Instance
          /\ InstanceName[s] \in QueueName
          /\ InstanceName[s] # InstanceName[Master]
          /\ \A r \in Client : InstanceName[r] = InstanceName[s] => r = s
    /\ MaxRequests \in Nat
  BY DeploymentAssumption, ConfigurationAssumption DEF Thread, QueueName

\* The mapping gives a catalog and sequences of events.
LEMMA ViewType ==
    ASSUME TypeOK
    PROVE  /\ MasterCatalog \in Catalog
           /\ Unpublished \in Seq(Event)
           /\ \A s \in Client : /\ InHandler(s) \in Seq(Event)
                                /\ InQueue(s) \in Seq(Event)
                                /\ InTransit(s) \in Seq(Event)
  <1>1. ThreadsOK
    BY DEF TypeOK
  <1>2. \A i \in Instance, t \in Thread :
           pc[i][t] # "idle" => event[i][t] \in Event
    BY <1>1, BusyThreadHasEvent
  <1>3. Unpublished \in Seq(Event)
    <2>1. pc[Master][Editor] # "idle" => event[Master][Editor] \in Event
      BY <1>2, Deployment
    <2> QED  BY <2>1 DEF Unpublished
  <1>4. MasterCatalog \in Catalog
    <2>1. CASE pc[Master][Editor] = "commit"
      <3>1. event[Master][Editor] \in Event /\ catalog[Master] \in Catalog
        BY <1>2, <2>1, Deployment DEF TypeOK
      <3> QED  BY <2>1, <3>1, HandlersKeepType DEF MasterCatalog
    <2>2. CASE pc[Master][Editor] # "commit"
      BY <2>2, Deployment DEF MasterCatalog, TypeOK
    <2> QED  BY <2>1, <2>2
  <1>5. ASSUME NEW s \in Client
        PROVE  InHandler(s) \in Seq(Event) /\ InQueue(s) \in Seq(Event)
    <2>1. pc[s][Listener] # "idle" => event[s][Listener] \in Event
      BY <1>2, Deployment
    <2>2. InHandler(s) \in Seq(Event)
      BY <2>1 DEF InHandler
    <2>3. queue[InstanceName[s]] \in Seq(Message)
      BY Deployment DEF TypeOK
    <2> QED  BY <2>2, <2>3, EventsOf DEF InQueue
  <1> QED  BY <1>3, <1>4, <1>5 DEF InTransit

-----------------------------------------------------------------------------
(***************************************************************************)
(* The three kinds of steps the stream knows.                              *)
(***************************************************************************)
Unseen ==
    /\ UNCHANGED MasterCatalog
    /\ \A s \in Client : catalog'[s] = catalog[s] /\ InTransit(s)' = InTransit(s)

Changes(e) ==
    /\ Fits(MasterCatalog, e)
    /\ MasterCatalog' = Effect(MasterCatalog, e)
    /\ \A s \in Client :
          /\ catalog'[s] = catalog[s]
          /\ Len(InTransit(s)) < MaxRequests
          /\ InTransit(s)' = Append(InTransit(s), e)

Delivers(d) ==
    /\ UNCHANGED MasterCatalog
    /\ InTransit(d) # <<>>
    /\ catalog'[d] = Effect(catalog[d], Head(InTransit(d)))
    /\ InTransit(d)' = Tail(InTransit(d))
    /\ \A s \in Client \ {d} :
          catalog'[s] = catalog[s] /\ InTransit(s)' = InTransit(s)

InStream == \/ Unseen
            \/ \E e \in Event : Changes(e)
            \/ \E d \in Client : Delivers(d)

\* The definitions of the stream are those of this module.
LEMMA SameEvents ==
    /\ Stream!Event = Event
    /\ \A c, e : Stream!Fits(c, e) = Fits(c, e)
    /\ \A c, e : Stream!Effect(c, e) = Effect(c, e)
    /\ \A c, es : Stream!EffectOfAll(c, es) = EffectOfAll(c, es)
  <1>1. \A c, e : Stream!Effect(c, e) = Effect(c, e)
    BY Zenon DEF Stream!Effect, Stream!Added, Stream!Modified, Stream!Removed,
           Effect, Added, Modified, Removed
  <1>2. \A c, es : Stream!EffectOfAll(c, es) = EffectOfAll(c, es)
    BY Zenon, <1>1 DEF Stream!EffectOfAll, EffectOfAll
  <1> QED  BY <1>1, <1>2 DEF Stream!Event, Event, Stream!Fits, Fits

LEMMA InStreamIsStep == InStream => StreamStep
  <1>1. ASSUME Unseen PROVE UNCHANGED Stream!vars
    BY <1>1 DEF Unseen, Stream!vars
  <1>2. ASSUME NEW e \in Event, Changes(e) PROVE Stream!Change(e)
    BY <1>2, SameEvents DEF Changes, Stream!Change
  <1>3. ASSUME NEW d \in Client, Delivers(d) PROVE Stream!Deliver(d)
    BY <1>3, SameEvents DEF Delivers, Stream!Deliver
  <1> QED  BY <1>1, <1>2, <1>3, SameEvents DEF InStream, StreamStep, Stream!Next

-----------------------------------------------------------------------------
(***************************************************************************)
(* The steps of the master.                                                *)
(***************************************************************************)
\* The user of the master does nothing to the slaves but fill their queues.
LEMMA EditorMoves ==
    ASSUME TypeOK,
           Request(Master, Editor) \/ InCatalog(Master, Editor)
    PROVE  /\ \A s \in Client : /\ pc'[s] = pc[s] /\ event'[s] = event[s]
                                /\ catalog'[s] = catalog[s]
           /\ pc'[Master][Listener] = pc[Master][Listener]
           /\ UNCHANGED <<producerEnabled, phase, faults>>
  <1>1. ThreadsOK /\ Editor \in Thread /\ Listener \in Thread
    BY Deployment DEF TypeOK
  <1>2. ASSUME Goto(Master, Editor, "notify") \/ Goto(Master, Editor, "publish")
               \/ AfterEvent(Master, Editor) \/ Leave(Master, Editor)
        PROVE  /\ \A s \in Client : pc'[s] = pc[s]
               /\ pc'[Master][Listener] = pc[Master][Listener]
    BY <1>1, <1>2, Deployment DEF Goto, AfterEvent, Leave, Finish, ThreadsOK
  <1>3. ASSUME UNCHANGED event
               \/ AfterEvent(Master, Editor) \/ Leave(Master, Editor)
        PROVE  \A s \in Client : event'[s] = event[s]
    BY <1>1, <1>3, Deployment DEF AfterEvent, Leave, Finish, ThreadsOK
  <1>4. CASE Request(Master, Editor)
    BY <1>1, <1>2, <1>4, Deployment DEF Request, TypeOK, ThreadsOK
  <1>5. CASE Notify(Master, Editor)
    BY <1>2, <1>3, <1>5 DEF Notify
  <1>6. CASE Publish(Master, Editor)
    BY <1>2, <1>3, <1>6 DEF Publish
  <1>7. CASE Commit(Master, Editor)
    BY <1>2, <1>3, <1>7, Deployment DEF Commit, TypeOK
  <1> QED  BY <1>4, <1>5, <1>6, <1>7 DEF InCatalog

\* Where the user of the master is after the event of a change.
LEMMA EditorAfterEvent ==
    ASSUME TypeOK, AfterEvent(Master, Editor)
    PROVE  IF event[Master][Editor].type = "modify"
               THEN /\ pc'[Master][Editor] = "commit"
                    /\ event'[Master][Editor] = event[Master][Editor]
               ELSE pc'[Master][Editor] = "idle"
  BY Deployment DEF AfterEvent, Leave, Goto, Finish, TypeOK, ThreadsOK

\* What the slaves have taken stays what it is.
LEMMA HandlersUntouched ==
    ASSUME \A s \in Client : pc'[s] = pc[s] /\ event'[s] = event[s],
           UNCHANGED producerEnabled
    PROVE  /\ \A s \in Client : InHandler(s)' = InHandler(s)
           /\ \A s \in Client : SlaveOK(s) => SlaveOK(s)'
  BY DEF InHandler, SlaveOK

LEMMA RequestSeen ==
    ASSUME TypeOK, Deployed, LagBounded, Request(Master, Editor)
    PROVE  Deployed' /\ LagBounded' /\ InStream
  <1>1. PICK e \in Event :
           /\ Fits(catalog[Master], e)
           /\ event' = [event EXCEPT ![Master][Editor] = e]
           /\ catalog' = IF e.type = "modify"
                             THEN catalog
                             ELSE [catalog EXCEPT ![Master] = Effect(@, e)]
    BY DEF Request
  <1>2. /\ pc[Master][Editor] = "idle" /\ phase[Master] = "loaded"
        /\ requests \in Nat /\ requests < MaxRequests /\ requests' = requests + 1
        /\ UNCHANGED queue
        /\ pc'[Master][Editor] = "notify" /\ event'[Master][Editor] = e
    BY <1>1, Deployment DEF Request, Goto, TypeOK, ThreadsOK
  <1>3. /\ \A s \in Client : InHandler(s)' = InHandler(s) /\ SlaveOK(s)'
        /\ \A s \in Client : catalog'[s] = catalog[s]
        /\ pc'[Master][Listener] = "idle"
        /\ UNCHANGED <<producerEnabled, phase>>
    BY EditorMoves, HandlersUntouched DEF Deployed, MasterOK
  <1>4. \A s \in Client : InQueue(s)' = InQueue(s) /\ QueueOK(s)'
    BY <1>2 DEF Deployed, InQueue, QueueOK
  <1>5. MasterCatalog = catalog[Master] /\ Unpublished = <<>> /\ Promised = 0
    BY <1>2 DEF MasterCatalog, Unpublished, Promised
  <1>6. MasterCatalog' = catalog'[Master]
    BY <1>2 DEF MasterCatalog
  <1>7. Deployed'
    <2>1. e.type = "modify" => Fits(catalog'[Master], e)
      BY <1>1
    <2>2. MasterOK'
      BY <1>2, <1>3, <2>1 DEF Deployed, MasterOK
    <2> QED  BY <1>3, <1>4, <2>2 DEF Deployed
  <1>8. \A s \in Client : Len(InTransit(s)) \in Nat /\ Len(InTransit(s)) <= requests
    BY <1>5, ViewType DEF LagBounded
  <1>9. CASE e.type = "modify"
    <2>1. Unpublished' = <<>> /\ Promised' = 1
      BY <1>2, <1>9 DEF Unpublished, Promised
    <2>2. \A s \in Client : InTransit(s)' = InTransit(s)
      BY <1>3, <1>4, <1>5, <2>1 DEF InTransit
    <2>3. UNCHANGED MasterCatalog
      BY <1>1, <1>5, <1>6, <1>9
    <2>4. LagBounded'
      BY <1>2, <1>8, <2>1, <2>2 DEF LagBounded
    <2> QED  BY <1>3, <1>7, <2>2, <2>3, <2>4 DEF InStream, Unseen
  <1>10. CASE e.type # "modify"
    <2>1. Unpublished' = <<e>> /\ Promised' = 0
      BY <1>2, <1>10 DEF Unpublished, Promised
    <2>2. \A s \in Client : InTransit(s)' = Append(InTransit(s), e)
      BY <1>3, <1>4, <1>5, <2>1, ViewType, AppendToTransit DEF InTransit
    <2>3. MasterCatalog' = Effect(MasterCatalog, e)
      BY <1>1, <1>5, <1>6, <1>10, Deployment DEF TypeOK
    <2>4. LagBounded'
      BY <1>2, <1>8, <2>1, <2>2, ViewType DEF LagBounded
    <2>5. Changes(e)
      BY <1>1, <1>2, <1>3, <1>5, <1>8, <2>2, <2>3, Deployment DEF Changes
    <2> QED  BY <1>7, <2>4, <2>5 DEF InStream
  <1> QED  BY <1>9, <1>10

LEMMA NotifySeen ==
    ASSUME TypeOK, Deployed, LagBounded, Notify(Master, Editor)
    PROVE  Deployed' /\ LagBounded' /\ InStream
  <1>1. producerEnabled[Master]
    BY DEF Notify, Deployed, MasterOK
  <1>2. /\ pc[Master][Editor] = "notify" /\ pc'[Master][Editor] = "publish"
        /\ UNCHANGED <<event, catalog, queue, requests, producerEnabled, phase>>
    BY <1>1, Deployment DEF Notify, Goto, TypeOK, ThreadsOK
  <1>3. /\ \A s \in Client : InHandler(s)' = InHandler(s) /\ SlaveOK(s)'
        /\ pc'[Master][Listener] = "idle"
    BY EditorMoves, HandlersUntouched DEF Deployed, MasterOK, InCatalog
  <1>4. UNCHANGED <<MasterCatalog, Unpublished, Promised>>
    BY <1>2 DEF MasterCatalog, Unpublished, Promised
  <1>5. \A s \in Client : InQueue(s)' = InQueue(s) /\ QueueOK(s)'
    BY <1>2 DEF Deployed, InQueue, QueueOK
  <1>6. MasterOK'
    BY <1>2, <1>3 DEF Deployed, MasterOK
  <1>7. \A s \in Client : InTransit(s)' = InTransit(s)
    BY <1>3, <1>4, <1>5 DEF InTransit
  <1> QED  BY <1>2, <1>3, <1>4, <1>5, <1>6, <1>7
           DEF Deployed, LagBounded, InStream, Unseen

LEMMA PublishSeen ==
    ASSUME TypeOK, Deployed, LagBounded, Publish(Master, Editor)
    PROVE  Deployed' /\ LagBounded' /\ InStream
  <1> DEFINE e == event[Master][Editor]
             m == [producer |-> InstanceName[Master], event |-> e]
  <1>1. /\ pc[Master][Editor] = "publish"
        /\ queue' = [n \in QueueName |-> Append(queue[n], m)]
        /\ AfterEvent(Master, Editor)
        /\ UNCHANGED <<catalog, producerEnabled, phase, requests>>
    BY DEF Publish
  <1>2. e \in Event
    BY <1>1, BusyThreadHasEvent, Deployment DEF TypeOK
  <1>3. m \in Message /\ m.event = e /\ m.producer = InstanceName[Master]
    BY <1>2, Deployment DEF Message, Name
  <1>4. /\ \A s \in Client : InHandler(s)' = InHandler(s) /\ SlaveOK(s)'
        /\ \A s \in Client : catalog'[s] = catalog[s]
        /\ pc'[Master][Listener] = "idle"
    BY EditorMoves, HandlersUntouched DEF Deployed, MasterOK, InCatalog
  <1>5. /\ e.type = "modify" => /\ pc'[Master][Editor] = "commit"
                                /\ event'[Master][Editor] = e
        /\ e.type # "modify" => pc'[Master][Editor] = "idle"
    BY <1>1, EditorAfterEvent
  <1> HIDE DEF e, m
  <1>6. \A s \in Client :
           /\ queue[InstanceName[s]] \in Seq(Message)
           /\ queue'[InstanceName[s]] = Append(queue[InstanceName[s]], m)
    BY <1>1, Deployment DEF TypeOK
  <1>7. \A s \in Client : InQueue(s)' = Append(InQueue(s), e)
    <2>1. ASSUME NEW s \in Client
          PROVE  Events(Append(queue[InstanceName[s]], m))
                   = Append(Events(queue[InstanceName[s]]), e)
      BY <1>3, <1>6, EventsOf
    <2> QED  BY <1>6, <2>1 DEF InQueue
  <1>8. ASSUME NEW s \in Client
        PROVE  QueueOK(s)'
    <2> DEFINE q == queue[InstanceName[s]]
    <2>1. q \in Seq(Message) /\ queue'[InstanceName[s]] = Append(q, m)
      BY <1>6
    <2>2. \A k \in DOMAIN q : q[k].producer = InstanceName[Master]
      BY DEF Deployed, QueueOK
    <2> HIDE DEF q
    <2>3. \A k \in DOMAIN Append(q, m) :
             Append(q, m)[k].producer = InstanceName[Master]
      BY <1>3, <2>1, <2>2
    <2> QED  BY <2>1, <2>3 DEF QueueOK
  <1>9. MasterOK'
    BY <1>1, <1>4, <1>5 DEF Deployed, MasterOK
  <1>10. Deployed'
    BY <1>4, <1>8, <1>9 DEF Deployed
  <1>11. \A s \in Client :
            /\ InHandler(s) \in Seq(Event) /\ InQueue(s) \in Seq(Event)
            /\ InTransit(s) \in Seq(Event) /\ Len(InTransit(s)) \in Nat
    BY ViewType
  <1>12. requests \in Nat /\ requests <= MaxRequests
    BY Deployment DEF TypeOK
  <1>13. MasterCatalog = catalog[Master]
    BY <1>1 DEF MasterCatalog
  <1>14. Unpublished' = <<>> /\ Promised' = 0
    BY <1>5 DEF Unpublished, Promised
  <1>15. CASE e.type = "modify"
    <2>1. Unpublished = <<>> /\ Promised = 1
      BY <1>1, <1>15 DEF Unpublished, Promised, e
    <2>2. ASSUME NEW s \in Client
          PROVE  InTransit(s)' = Append(InTransit(s), e)
      <3>1. InHandler(s) \o Append(InQueue(s), e) \o <<>>
              = Append(InHandler(s) \o InQueue(s) \o <<>>, e)
        BY <1>2, <1>11, AppendToTransit
      <3> QED  BY <1>4, <1>7, <1>14, <2>1, <3>1 DEF InTransit
    <2>3. MasterCatalog' = Modified(catalog[Master], e)
      BY <1>1, <1>5, <1>15 DEF MasterCatalog
    <2>4. Fits(MasterCatalog, e)
      BY <1>1, <1>13, <1>15 DEF Deployed, MasterOK, e
    <2>5. Modified(catalog[Master], e) = Effect(catalog[Master], e)
      BY Zenon, <1>15 DEF Effect
    <2>6. \A s \in Client : Len(InTransit(s)) + 1 <= requests
      BY <2>1 DEF LagBounded
    <2>7. LagBounded'
      BY <1>1, <1>2, <1>11, <1>12, <1>14, <2>2, <2>6 DEF LagBounded
    <2>8. \A s \in Client : Len(InTransit(s)) < MaxRequests
      BY <1>11, <1>12, <2>6, Deployment
    <2>9. Changes(e)
      BY <1>4, <1>13, <2>2, <2>3, <2>4, <2>5, <2>8 DEF Changes
    <2> QED  BY <1>2, <1>10, <2>7, <2>9 DEF InStream
  <1>16. CASE e.type # "modify"
    <2>1. Unpublished = <<e>> /\ Promised = 0
      BY <1>1, <1>16 DEF Unpublished, Promised, e
    <2>2. ASSUME NEW s \in Client
          PROVE  InTransit(s)' = InTransit(s)
      <3>1. InHandler(s) \o Append(InQueue(s), e) \o <<>>
              = InHandler(s) \o InQueue(s) \o <<e>>
        BY <1>2, <1>11, AppendToTransit
      <3> QED  BY <1>4, <1>7, <1>14, <2>1, <3>1 DEF InTransit
    <2>3. MasterCatalog' = MasterCatalog
      BY <1>1, <1>5, <1>13, <1>16 DEF MasterCatalog
    <2>4. LagBounded'
      BY <1>1, <1>14, <2>1, <2>2 DEF LagBounded
    <2> QED  BY <1>4, <1>10, <2>2, <2>3, <2>4 DEF InStream, Unseen
  <1> QED  BY <1>15, <1>16

LEMMA CommitSeen ==
    ASSUME TypeOK, Deployed, LagBounded, Commit(Master, Editor)
    PROVE  Deployed' /\ LagBounded' /\ InStream
  <1>1. /\ pc[Master][Editor] = "commit"
        /\ catalog'[Master] = Modified(catalog[Master], event[Master][Editor])
        /\ Leave(Master, Editor)
        /\ UNCHANGED <<queue, producerEnabled, phase, requests>>
    BY Deployment DEF Commit, TypeOK
  <1>2. /\ \A s \in Client : InHandler(s)' = InHandler(s) /\ SlaveOK(s)'
        /\ \A s \in Client : catalog'[s] = catalog[s]
        /\ pc'[Master][Listener] = "idle"
    BY EditorMoves, HandlersUntouched DEF Deployed, MasterOK, InCatalog
  <1>3. pc'[Master][Editor] = "idle"
    BY <1>1, Deployment DEF Leave, Finish, TypeOK, ThreadsOK
  <1>4. MasterCatalog' = MasterCatalog
    BY <1>1, <1>3 DEF MasterCatalog
  <1>5. /\ Unpublished = <<>> /\ Unpublished' = <<>>
        /\ Promised = 0 /\ Promised' = 0
    BY <1>1, <1>3 DEF Unpublished, Promised
  <1>6. \A s \in Client : InQueue(s)' = InQueue(s) /\ QueueOK(s)'
    BY <1>1 DEF Deployed, InQueue, QueueOK
  <1>7. \A s \in Client : InTransit(s)' = InTransit(s)
    BY <1>2, <1>5, <1>6 DEF InTransit
  <1>8. MasterOK'
    BY <1>1, <1>2, <1>3 DEF Deployed, MasterOK
  <1>9. LagBounded'
    BY <1>1, <1>5, <1>7 DEF LagBounded
  <1> QED  BY <1>2, <1>4, <1>6, <1>7, <1>8, <1>9 DEF Deployed, InStream, Unseen

-----------------------------------------------------------------------------
(***************************************************************************)
(* The steps of the slaves.                                                *)
(***************************************************************************)
\* The listener of slave d moves, and nothing else but its catalog and queue.
OnlyListener(d) ==
    /\ \A j \in Instance \ {d} :
          /\ pc'[j] = pc[j] /\ event'[j] = event[j]
          /\ catalog'[j] = catalog[j] /\ producerEnabled'[j] = producerEnabled[j]
    /\ pc'[d][Editor] = pc[d][Editor]
    /\ ~producerEnabled'[d]
    /\ UNCHANGED <<phase, requests>>

LEMMA ListenerMoves ==
    ASSUME TypeOK, Deployed, NEW d \in Client,
           OnMessage(d) \/ InCatalog(d, Listener)
    PROVE  OnlyListener(d)
  <1>1. /\ ThreadsOK /\ Editor \in Thread /\ Listener \in Thread
        /\ Editor # Listener /\ d \in Instance /\ d \notin Server
        /\ ~producerEnabled[d]
    BY Deployment, DeploymentAssumption DEF TypeOK, Deployed, SlaveOK
  <1>2. ASSUME \/ \E label : Goto(d, Listener, label)
               \/ AfterEvent(d, Listener) \/ Leave(d, Listener)
               \/ Finish(d, Listener)
               \/ UNCHANGED pc
        PROVE  /\ \A j \in Instance \ {d} : pc'[j] = pc[j]
               /\ pc'[d][Editor] = pc[d][Editor]
    BY <1>1, <1>2 DEF Goto, AfterEvent, Leave, Finish, ThreadsOK
  <1>3. ASSUME \/ UNCHANGED event
               \/ AfterEvent(d, Listener) \/ Leave(d, Listener)
               \/ Finish(d, Listener)
               \/ \E e : event' = [event EXCEPT ![d][Listener] = e]
        PROVE  \A j \in Instance \ {d} : event'[j] = event[j]
    BY <1>1, <1>3 DEF AfterEvent, Leave, Finish, ThreadsOK
  <1>4. ASSUME \/ UNCHANGED producerEnabled
               \/ SetProducerEnabled(d, TRUE) \/ SetProducerEnabled(d, FALSE)
        PROVE  /\ \A j \in Instance \ {d} : producerEnabled'[j] = producerEnabled[j]
               /\ ~producerEnabled'[d]
    BY <1>1, <1>4 DEF SetProducerEnabled, TypeOK
  <1>5. ASSUME UNCHANGED catalog \/ \E c : catalog' = [catalog EXCEPT ![d] = c]
        PROVE  \A j \in Instance \ {d} : catalog'[j] = catalog[j]
    BY <1>5, <1>1 DEF TypeOK
  <1> USE DEF OnlyListener
  <1>6. CASE Discard(d)
    BY <1>2, <1>3, <1>4, <1>5, <1>6 DEF Discard
  <1>7. CASE Receive(d)
    BY <1>2, <1>3, <1>4, <1>5, <1>7 DEF Receive
  <1>8. CASE Disable(d)
    BY <1>2, <1>3, <1>4, <1>5, <1>8 DEF Disable
  <1>9. CASE AddOrRemove(d)
    BY <1>2, <1>3, <1>4, <1>5, <1>9 DEF AddOrRemove
  <1>10. CASE Modify(d)
    BY <1>2, <1>3, <1>4, <1>5, <1>10 DEF Modify
  <1>11. CASE Enable(d)
    BY <1>2, <1>3, <1>4, <1>5, <1>11 DEF Enable
  <1>12. CASE Notify(d, Listener)
    BY <1>2, <1>3, <1>4, <1>5, <1>12 DEF Notify
  <1>13. CASE Publish(d, Listener)
    BY <1>2, <1>3, <1>4, <1>5, <1>13 DEF Publish
  <1>14. CASE Commit(d, Listener)
    BY <1>2, <1>3, <1>4, <1>5, <1>14 DEF Commit
  <1> QED
    BY <1>6, <1>7, <1>8, <1>9, <1>10, <1>11, <1>12, <1>13, <1>14
    DEF OnMessage, InCatalog

\* What such a step leaves of the master and of the other slaves.
LEMMA OthersUntouched ==
    ASSUME Deployed, NEW d \in Client, OnlyListener(d)
    PROVE  /\ MasterOK'
           /\ UNCHANGED <<MasterCatalog, Unpublished, Promised>>
           /\ \A s \in Client \ {d} : /\ InHandler(s)' = InHandler(s)
                                      /\ SlaveOK(s)'
                                      /\ catalog'[s] = catalog[s]
  <1>1. /\ pc'[Master] = pc[Master] /\ event'[Master] = event[Master]
        /\ catalog'[Master] = catalog[Master] /\ UNCHANGED phase
        /\ producerEnabled'[Master] = producerEnabled[Master]
    BY Deployment DEF OnlyListener
  <1>2. MasterOK' /\ UNCHANGED <<MasterCatalog, Unpublished, Promised>>
    BY <1>1 DEF Deployed, MasterOK, MasterCatalog, Unpublished, Promised
  <1>3. ASSUME NEW s \in Client \ {d}
        PROVE  /\ InHandler(s)' = InHandler(s)
               /\ SlaveOK(s)'
               /\ catalog'[s] = catalog[s]
    <2>1. /\ pc'[s] = pc[s] /\ event'[s] = event[s] /\ catalog'[s] = catalog[s]
          /\ producerEnabled'[s] = producerEnabled[s]
      BY Deployment DEF OnlyListener
    <2> QED  BY <2>1 DEF Deployed, SlaveOK, InHandler
  <1> QED  BY <1>2, <1>3

\* The listener works on what it has taken: nothing is seen, or the oldest change
\* in transit is made.
LEMMA HandlerSeen ==
    ASSUME TypeOK, Deployed, LagBounded, NEW d \in Client,
           OnlyListener(d), UNCHANGED queue, SlaveOK(d)',
           \/ InHandler(d)' = InHandler(d) /\ catalog'[d] = catalog[d]
           \/ /\ InHandler(d) = <<event[d][Listener]>> /\ InHandler(d)' = <<>>
              /\ event[d][Listener] \in Event
              /\ catalog'[d] = Effect(catalog[d], event[d][Listener])
    PROVE  Deployed' /\ LagBounded' /\ InStream
  <1> DEFINE e == event[d][Listener]
  <1>1. /\ MasterOK'
        /\ UNCHANGED <<MasterCatalog, Unpublished, Promised, requests>>
        /\ \A s \in Client \ {d} : /\ InHandler(s)' = InHandler(s)
                                   /\ SlaveOK(s)'
                                   /\ catalog'[s] = catalog[s]
    BY OthersUntouched DEF OnlyListener
  <1>2. \A s \in Client : InQueue(s)' = InQueue(s) /\ QueueOK(s)'
    BY DEF Deployed, InQueue, QueueOK
  <1>3. Deployed'
    BY <1>1, <1>2 DEF Deployed
  <1>4. \A s \in Client \ {d} : InTransit(s)' = InTransit(s)
    BY <1>1, <1>2 DEF InTransit
  <1>5. CASE InHandler(d)' = InHandler(d) /\ catalog'[d] = catalog[d]
    <2>1. InTransit(d)' = InTransit(d)
      BY <1>1, <1>2, <1>5 DEF InTransit
    <2> QED  BY <1>1, <1>3, <1>4, <1>5, <2>1 DEF LagBounded, InStream, Unseen
  <1>6. CASE /\ InHandler(d) = <<e>> /\ InHandler(d)' = <<>>
             /\ e \in Event /\ catalog'[d] = Effect(catalog[d], e)
    <2>1. InQueue(d) \in Seq(Event) /\ Unpublished \in Seq(Event)
      BY ViewType
    <2>2. /\ InTransit(d) = <<e>> \o InQueue(d) \o Unpublished
          /\ InTransit(d)' = <<>> \o InQueue(d) \o Unpublished
      BY <1>1, <1>2, <1>6 DEF InTransit
    <2> HIDE DEF e
    <2>3. /\ InTransit(d) # <<>> /\ Head(InTransit(d)) = e
          /\ InTransit(d)' = Tail(InTransit(d))
          /\ Len(InTransit(d)) = Len(InTransit(d)') + 1
      <3>1. e \in Event
        BY <1>6
      <3>2. /\ <<e>> \o InQueue(d) \o Unpublished # <<>>
            /\ Head(<<e>> \o InQueue(d) \o Unpublished) = e
            /\ Tail(<<e>> \o InQueue(d) \o Unpublished) = <<>> \o InQueue(d) \o Unpublished
            /\ Len(<<e>> \o InQueue(d) \o Unpublished)
                 = Len(<<>> \o InQueue(d) \o Unpublished) + 1
        BY <2>1, <3>1, HandlerDelivers, Zenon
      <3> QED  BY <2>2, <3>2, Zenon
    <2>4. Len(InTransit(d)') \in Nat /\ requests \in Nat /\ Promised \in Nat
      BY <2>1, <2>2 DEF TypeOK, Promised
    <2>5. Len(InTransit(d)') + Promised <= requests
      BY <2>3, <2>4 DEF LagBounded
    <2>6. LagBounded'
      BY <1>1, <1>4, <2>5 DEF LagBounded
    <2>7. Delivers(d)
      BY <1>1, <1>4, <1>6, <2>3 DEF Delivers
    <2> QED  BY <1>3, <2>6, <2>7 DEF InStream
  <1> QED  BY <1>5, <1>6

LEMMA ReceiveSeen ==
    ASSUME TypeOK, Deployed, LagBounded, NEW d \in Client, Receive(d)
    PROVE  Deployed' /\ LagBounded' /\ InStream
  <1> DEFINE q == queue[InstanceName[d]]
  <1>1. /\ q \in Seq(Message) /\ q # <<>> /\ pc[d][Listener] = "idle"
        /\ queue'[InstanceName[d]] = Tail(q)
        /\ \A s \in Client \ {d} :
              queue'[InstanceName[s]] = queue[InstanceName[s]]
        /\ pc'[d][Listener] = "disable"
        /\ event'[d][Listener] = Head(q).event
        /\ UNCHANGED catalog
    BY Deployment DEF Receive, Take, Goto, HeadOf, TypeOK, ThreadsOK
  <1>2. OnlyListener(d)
    BY ListenerMoves DEF OnMessage
  <1>3. /\ MasterOK'
        /\ UNCHANGED <<MasterCatalog, Unpublished, Promised, requests>>
        /\ \A s \in Client \ {d} : InHandler(s)' = InHandler(s) /\ SlaveOK(s)'
    BY <1>2, OthersUntouched DEF OnlyListener
  <1>4. \A s \in Client \ {d} : InQueue(s)' = InQueue(s) /\ QueueOK(s)'
    BY <1>1 DEF Deployed, InQueue, QueueOK
  <1>5. SlaveOK(d)'
    BY <1>1, <1>2 DEF Deployed, SlaveOK, OnlyListener
  <1>6. QueueOK(d)'
    <2>1. \A k \in DOMAIN q : q[k].producer = InstanceName[Master]
      BY DEF Deployed, QueueOK
    <2> HIDE DEF q
    <2>2. \A k \in DOMAIN Tail(q) : k + 1 \in DOMAIN q /\ Tail(q)[k] = q[k + 1]
      BY <1>1
    <2> QED  BY <1>1, <2>1, <2>2 DEF QueueOK
  <1>7. Deployed'
    BY <1>3, <1>4, <1>5, <1>6 DEF Deployed
  <1>8. InTransit(d)' = InTransit(d)
    <2>1. /\ InHandler(d) = <<>> /\ InHandler(d)' = <<Head(q).event>>
          /\ InQueue(d) = Events(q) /\ InQueue(d)' = Events(Tail(q))
      BY <1>1 DEF InHandler, InQueue
    <2> HIDE DEF q
    <2>2. /\ Events(q) \in Seq(Event) /\ Events(q) # <<>>
          /\ Events(Tail(q)) = Tail(Events(q))
          /\ Head(Events(q)) = Head(q).event
          /\ Unpublished \in Seq(Event)
      BY <1>1, EventsOf, ViewType
    <2>3. <<Head(q).event>> \o Events(Tail(q)) \o Unpublished
            = <<>> \o Events(q) \o Unpublished
      BY <2>2, HandlerTakes
    <2> QED  BY <1>3, <2>1, <2>3 DEF InTransit
  <1>9. \A s \in Client : InTransit(s)' = InTransit(s)
    BY <1>3, <1>4, <1>8 DEF InTransit
  <1> QED  BY <1>1, <1>3, <1>7, <1>9 DEF LagBounded, InStream, Unseen

LEMMA ListenerSeen ==
    ASSUME TypeOK, Deployed, LagBounded, NEW d \in Client,
           OnMessage(d) \/ InCatalog(d, Listener)
    PROVE  Deployed' /\ LagBounded' /\ InStream
  <1>1. OnlyListener(d)
    BY ListenerMoves
  <1>2. /\ SlaveOK(d) /\ d \in Instance /\ Listener \in Thread /\ ThreadsOK
        /\ Listener # Editor
    BY Deployment DEF Deployed, TypeOK
  <1>3. pc[d][Listener] # "idle" => event[d][Listener] \in Event
    BY <1>2, BusyThreadHasEvent
  <1> DEFINE e     == event[d][Listener]
             pos   == pc[d][Listener]
             Keeps == InHandler(d)' = InHandler(d) /\ catalog'[d] = catalog[d]
             Makes == /\ InHandler(d) = <<e>> /\ InHandler(d)' = <<>>
                      /\ e \in Event
                      /\ catalog'[d] = Effect(catalog[d], e)
  <1>4. SUFFICES ~Receive(d) => UNCHANGED queue /\ SlaveOK(d)' /\ (Keeps \/ Makes)
    BY <1>1, HandlerSeen, ReceiveSeen
  <1>5. ASSUME NEW label, Goto(d, Listener, label), UNCHANGED event
        PROVE  pc'[d][Listener] = label /\ event'[d][Listener] = e
    BY <1>2, <1>5, GotoMoves
  <1>6. ASSUME pc'[d][Listener] \notin {"publish", "commit"}
               \/ (pc'[d][Listener] = "commit" /\ event'[d][Listener].type = "modify")
        PROVE  SlaveOK(d)'
    BY <1>1, <1>2, <1>6 DEF SlaveOK, OnlyListener
  <1>7. ~Discard(d)
    <2>1. ASSUME Discard(d) PROVE FALSE
      <3>1. /\ queue[InstanceName[d]] \in Seq(Message)
            /\ queue[InstanceName[d]] # <<>>
            /\ Head(queue[InstanceName[d]]).producer = InstanceName[d]
        BY <2>1, Deployment DEF Discard, Take, HeadOf, TypeOK
      <3>2. Head(queue[InstanceName[d]]).producer = InstanceName[Master]
        BY <3>1 DEF Deployed, QueueOK
      <3> QED  BY <3>1, <3>2, Deployment
    <2> QED  BY <2>1
  <1>8. CASE Disable(d)
    <2>1. /\ pos = "disable" /\ pc'[d][Listener] = "call" /\ event'[d][Listener] = e
          /\ UNCHANGED <<queue, catalog>>
      BY <1>5, <1>8 DEF Disable
    <2> QED  BY <1>6, <2>1 DEF InHandler
  <1>9. CASE AddOrRemove(d)
    <2>1. /\ pos = "call" /\ e.type # "modify"
          /\ pc'[d][Listener] \in {"notify", "enable"} /\ event'[d][Listener] = e
          /\ catalog'[d] = Effect(catalog[d], e)
          /\ UNCHANGED queue
      BY <1>2, <1>5, <1>9 DEF AddOrRemove, TypeOK
    <2>2. e \in Event
      BY <1>3, <2>1
    <2> QED  BY <1>6, <2>1, <2>2 DEF InHandler
  <1>10. CASE Modify(d)
    <2>1. /\ pos = "call" /\ e.type = "modify" /\ event'[d][Listener] = e
          /\ UNCHANGED <<queue, catalog>>
          /\ IF catalog[d][e.info] = Absent
                THEN pc'[d][Listener] = "enable"
                ELSE pc'[d][Listener] = "notify"
      BY <1>5, <1>10 DEF Modify
    <2>2. e \in Event
      BY <1>3, <2>1
    <2>3. CASE catalog[d][e.info] = Absent
      <3>1. Modified(catalog[d], e) = catalog[d]
        BY <1>2, <2>3 DEF Modified, TypeOK, Catalog
      <3>2. Effect(catalog[d], e) = Modified(catalog[d], e)
        BY Zenon, <2>1 DEF Effect
      <3>3. Makes
        BY <2>1, <2>2, <2>3, <3>1, <3>2 DEF InHandler
      <3> QED  BY <1>6, <2>1, <2>3, <3>3
    <2>4. CASE catalog[d][e.info] # Absent
      BY <1>6, <2>1, <2>4 DEF InHandler
    <2> QED  BY <2>3, <2>4
  <1>11. CASE Enable(d)
    <2>1. /\ pos = "enable" /\ pc'[d][Listener] = "idle"
          /\ UNCHANGED <<queue, catalog>>
      BY <1>2, <1>11 DEF Enable, Finish, ThreadsOK
    <2> QED  BY <1>6, <2>1 DEF InHandler
  <1>12. CASE Notify(d, Listener)
    <2>1. ~producerEnabled[d] /\ pos = "notify" /\ UNCHANGED <<queue, catalog>>
      BY <1>2, <1>12 DEF SlaveOK, Notify
    <2>2. AfterEvent(d, Listener)
      BY <1>12, <2>1 DEF Notify
    <2>3. /\ event'[d][Listener] = e
          /\ pc'[d][Listener] = IF e.type = "modify" THEN "commit" ELSE "enable"
      BY <1>5, <2>2 DEF AfterEvent, Leave
    <2> QED  BY <1>6, <2>1, <2>3 DEF InHandler
  <1>13. CASE Publish(d, Listener)
    BY <1>2, <1>13 DEF Publish, SlaveOK
  <1>14. CASE Commit(d, Listener)
    <2>1. /\ pos = "commit" /\ e.type = "modify" /\ UNCHANGED queue
          /\ catalog'[d] = Modified(catalog[d], e)
          /\ Leave(d, Listener)
      BY <1>2, <1>14 DEF Commit, SlaveOK, TypeOK
    <2>2. pc'[d][Listener] = "enable" /\ event'[d][Listener] = e /\ e \in Event
      BY <1>3, <1>5, <2>1 DEF Leave
    <2>3. Effect(catalog[d], e) = Modified(catalog[d], e)
      BY Zenon, <2>1 DEF Effect
    <2>4. Makes
      BY <2>1, <2>2, <2>3 DEF InHandler
    <2> QED  BY <1>6, <2>1, <2>2, <2>4
  <1> QED  BY <1>7, <1>8, <1>9, <1>10, <1>11, <1>12, <1>13, <1>14
           DEF OnMessage, InCatalog

LEMMA ContextLoadedSeen ==
    ASSUME TypeOK, Deployed, LagBounded, NEW i \in Instance, ContextLoaded(i)
    PROVE  Deployed' /\ LagBounded' /\ InStream
  <1>1. UNCHANGED <<catalog, pc, event, queue, requests>>
    BY DEF ContextLoaded
  <1>2. /\ UNCHANGED <<MasterCatalog, Unpublished, Promised>>
        /\ \A s \in Client : InTransit(s)' = InTransit(s) /\ QueueOK(s)'
    BY <1>1 DEF MasterCatalog, Unpublished, Promised, InTransit, InHandler,
                InQueue, Deployed, QueueOK
  <1>3. ASSUME NEW s \in Client
        PROVE  SlaveOK(s)'
    <2>1. s \in Instance /\ s \notin Server
      BY Deployment, DeploymentAssumption
    <2>2. ~producerEnabled'[s]
      BY <2>1 DEF ContextLoaded, SetProducerEnabled, TypeOK, Deployed, SlaveOK
    <2> QED  BY <1>1, <2>2 DEF Deployed, SlaveOK
  <1>4. phase'[Master] = "loaded" => producerEnabled'[Master]
    <2>1. Master \in Instance /\ Master \in Server
      BY Deployment, DeploymentAssumption
    <2> QED  BY <2>1 DEF ContextLoaded, SetProducerEnabled, TypeOK, Deployed, MasterOK
  <1>5. pc[Master][Editor] # "idle" => phase'[Master] = "loaded"
    BY Deployment DEF ContextLoaded, TypeOK, Deployed, MasterOK
  <1>6. MasterOK'
    BY <1>1, <1>4, <1>5 DEF Deployed, MasterOK
  <1> QED  BY <1>1, <1>2, <1>3, <1>6
           DEF Deployed, LagBounded, InStream, Unseen

-----------------------------------------------------------------------------
LEMMA InitHealthy == Init => Deployed /\ LagBounded /\ Stream!Init
  <1> SUFFICES ASSUME Init PROVE Deployed /\ LagBounded /\ Stream!Init
    OBVIOUS
  <1>1. \A i \in Instance, t \in Thread : pc[i][t] = "idle"
    BY DEF Init
  <1>2. \A s \in Client : queue[InstanceName[s]] = <<>>
    BY Deployment DEF Init
  <1>3. /\ MasterCatalog = catalog[Master] /\ Unpublished = <<>> /\ Promised = 0
        /\ \A s \in Client : InHandler(s) = <<>> /\ InQueue(s) = <<>>
    BY <1>1, <1>2, Deployment
    DEF MasterCatalog, Unpublished, Promised, InHandler, InQueue, Events
  <1>4. \A s \in Client : InTransit(s) = <<>>
    BY <1>3 DEF InTransit
  <1>5. LagBounded
    BY <1>3, <1>4 DEF LagBounded, Init
  <1>6. Deployed
    BY <1>1, <1>2, Deployment DEF Init, Deployed, MasterOK, SlaveOK, QueueOK
  <1>7. Stream!Init
    <2>1. PICK c \in Catalog : catalog = [i \in Instance |-> c]
      BY DEF Init
    <2>2. MasterCatalog = c /\ \A s \in Client : catalog[s] = c
      BY <1>3, <2>1, Deployment
    <2> QED  BY <1>4, <2>2 DEF Stream!Init, Stream!Catalog, Catalog
  <1> QED  BY <1>5, <1>6, <1>7

LEMMA NextHealthy ==
    ASSUME TypeOK, Deployed, LagBounded, [Next]_vars
    PROVE  faults' > 0 \/ (Deployed' /\ LagBounded' /\ InStream)
  <1>1. CASE UNCHANGED vars
    <2>1. Deployed' /\ LagBounded' /\ Unseen
      BY <1>1 DEF vars, Deployed, MasterOK, SlaveOK, QueueOK, LagBounded, Promised,
                  Unseen, MasterCatalog, InTransit, InHandler, InQueue, Unpublished
    <2> QED  BY <2>1 DEF InStream
  <1>2. ASSUME NEW i \in Instance, Failure(i)
        PROVE  faults' > 0
    <2>1. Fault
      BY <1>2 DEF Failure, HandlerUnavailable, SynchronizeFails, PublishFails,
                  MessageLost, Crash
    <2> QED  BY <2>1, ConfigurationAssumption DEF Fault, TypeOK
  <1>3. ASSUME NEW i \in Instance, i \in Edited, NEW u \in User, Request(i, u)
        PROVE  Deployed' /\ LagBounded' /\ InStream
    BY <1>3, RequestSeen, DeploymentAssumption
  <1>4. ASSUME InCatalog(Master, Editor)
        PROVE  Deployed' /\ LagBounded' /\ InStream
    BY <1>4, NotifySeen, PublishSeen, CommitSeen DEF InCatalog
  <1>5. ASSUME NEW d \in Client, InCatalog(d, Editor)
        PROVE  FALSE
    BY <1>5 DEF InCatalog, Notify, Publish, Commit, Deployed, SlaveOK
  <1>6. ASSUME InCatalog(Master, Listener) \/ OnMessage(Master)
        PROVE  FALSE
    BY <1>6, Deployment
    DEF InCatalog, Notify, Publish, Commit, OnMessage, Discard, Receive, Take,
        Disable, AddOrRemove, Modify, Enable, Deployed, MasterOK
  <1> QED
    BY <1>1, <1>2, <1>3, <1>4, <1>5, <1>6, ContextLoadedSeen, ListenerSeen,
       Deployment DEF Next

LEMMA NoEarlierFault == TypeOK /\ [Next]_vars => (faults' > 0 \/ faults = 0)
  <1> SUFFICES ASSUME TypeOK, [Next]_vars, faults # 0
               PROVE  faults' > 0
    OBVIOUS
  <1>1. faults \in Nat /\ faults > 0
    BY ConfigurationAssumption DEF TypeOK
  <1>2. faults' = faults \/ faults' = faults + 1
    BY DEF Next, vars, ContextLoaded, Request, InCatalog, Notify, Publish, Commit,
           OnMessage, Discard, Receive, Disable, AddOrRemove, Modify, Enable,
           Failure, HandlerUnavailable, SynchronizeFails, PublishFails,
           MessageLost, Crash, Fault
  <1> QED  BY <1>1, <1>2

(***************************************************************************)
(* Until something fails the master only publishes, each slave only        *)
(* consumes, and the messages of a slave stand for requests made.          *)
(***************************************************************************)
THEOREM HealthyUntilFault == Spec => []Healthy
  <1>1. Init => Healthy
    BY InitHealthy DEF Healthy
  <1>2. TypeOK /\ Healthy /\ [Next]_vars => Healthy'
    BY NextHealthy, NoEarlierFault DEF Healthy
  <1> QED  BY <1>1, <1>2, TypeCorrect, PTL DEF Spec

(***************************************************************************)
(* Until something fails, the listener, the publisher, the queues and the  *)
(* handlers together are the stream of ReplicaStream: the detailed         *)
(* specification implements the abstract one.                              *)
(***************************************************************************)
THEOREM DeploymentImplementsStream == Spec => ImplementsStream
  <1>1. Init => Stream!Init
    BY InitHealthy
  <1>2. TypeOK /\ Healthy /\ [Next]_vars => [faults' > 0 \/ StreamStep]_vars
    BY NextHealthy, NoEarlierFault, InStreamIsStep DEF Healthy
  <1> QED  BY <1>1, <1>2, TypeCorrect, HealthyUntilFault, PTL
           DEF Spec, ImplementsStream

-----------------------------------------------------------------------------
\* What is proved of the stream, about the catalogs and queues of this module.
Explained == \A s \in Client : EffectOfAll(catalog[s], InTransit(s)) = MasterCatalog

Fitting ==
    \A s \in Client : \A k \in DOMAIN InTransit(s) :
        Fits(EffectOfAll(catalog[s], SubSeq(InTransit(s), 1, k - 1)), InTransit(s)[k])

LEMMA SameStream ==
    /\ StreamProofs!Event = Event /\ StreamProofs!Catalog = Catalog
    /\ \A c, e : StreamProofs!Fits(c, e) = Fits(c, e)
    /\ \A c, es : StreamProofs!EffectOfAll(c, es) = EffectOfAll(c, es)
    /\ StreamProofs!Init = Stream!Init
    /\ [StreamProofs!Next]_StreamProofs!vars <=> StreamStep
  <1>1. \A c, e : StreamProofs!Effect(c, e) = Stream!Effect(c, e)
    BY Zenon DEF Stream!Effect, Stream!Added, Stream!Modified, Stream!Removed,
           StreamProofs!Effect, StreamProofs!Added, StreamProofs!Modified,
           StreamProofs!Removed
  <1>2. \A c, es : StreamProofs!EffectOfAll(c, es) = EffectOfAll(c, es)
    BY Zenon, <1>1, SameEvents DEF StreamProofs!EffectOfAll, EffectOfAll
  <1>3. /\ StreamProofs!Event = Stream!Event
        /\ \A c, e : StreamProofs!Fits(c, e) = Stream!Fits(c, e)
        /\ StreamProofs!Catalog = Catalog /\ Stream!Catalog = Catalog
    BY DEF StreamProofs!Event, Stream!Event, StreamProofs!Fits, Stream!Fits,
           StreamProofs!Catalog, Stream!Catalog, Catalog
  <1>4. StreamProofs!Init = Stream!Init
    BY <1>3 DEF StreamProofs!Init, Stream!Init
  <1>5. [StreamProofs!Next]_StreamProofs!vars <=> StreamStep
    <2>1. \A e : StreamProofs!Change(e) <=> Stream!Change(e)
      BY <1>1, <1>3 DEF StreamProofs!Change, Stream!Change
    <2>2. \A s : StreamProofs!Deliver(s) <=> Stream!Deliver(s)
      BY <1>1 DEF StreamProofs!Deliver, Stream!Deliver
    <2>3. StreamProofs!vars = Stream!vars /\ StreamProofs!vars' = Stream!vars'
      BY DEF StreamProofs!vars, Stream!vars
    <2> QED  BY <1>3, <2>1, <2>2, <2>3
             DEF StreamStep, StreamProofs!Next, Stream!Next
  <1> QED  BY <1>2, <1>3, <1>4, <1>5, SameEvents

LEMMA StreamOfThis ==
    /\ TypeOK => StreamProofs!TypeOK
    /\ StreamProofs!PendingExplainsLag <=> Explained
    /\ StreamProofs!PendingFits <=> Fitting
  <1>1. TypeOK => StreamProofs!TypeOK
    BY ViewType, SameStream, Deployment DEF TypeOK, StreamProofs!TypeOK
  <1>2. StreamProofs!PendingExplainsLag <=> Explained
    BY SameStream DEF StreamProofs!PendingExplainsLag, Explained
  <1>3. StreamProofs!PendingFits <=> Fitting
    BY SameStream DEF StreamProofs!PendingFits, Fitting
  <1> QED  BY <1>1, <1>2, <1>3

\* The theorems of the stream rest on the assumptions of its module.
LEMMA StreamInit ==
    Stream!Init => StreamProofs!PendingExplainsLag /\ StreamProofs!PendingFits
  BY StreamProofs!InitLag, SameStream, AbsentAssumption, ConfigurationAssumption

LEMMA StreamNext ==
    ASSUME StreamProofs!TypeOK, StreamProofs!PendingExplainsLag,
           StreamProofs!PendingFits, StreamStep
    PROVE  StreamProofs!PendingExplainsLag' /\ StreamProofs!PendingFits'
  BY StreamProofs!NextLag, StreamProofs!NextFits, SameStream, AbsentAssumption,
     ConfigurationAssumption

StreamHolds ==
    faults = 0 => StreamProofs!PendingExplainsLag /\ StreamProofs!PendingFits

LEMMA StreamUntilFault == Spec => []StreamHolds
  <1>1. Init => StreamHolds
    BY InitHealthy, StreamInit DEF StreamHolds
  <1>2. TypeOK /\ Healthy /\ StreamHolds /\ [Next]_vars => StreamHolds'
    <2> SUFFICES ASSUME TypeOK, Healthy, StreamHolds, [Next]_vars, ~(faults' > 0)
                 PROVE  StreamHolds'
      BY DEF StreamHolds
    <2>1. faults = 0 /\ Deployed /\ LagBounded
      BY NoEarlierFault DEF Healthy
    <2>2. StreamStep
      BY <2>1, NextHealthy, InStreamIsStep
    <2> QED  BY <2>1, <2>2, StreamOfThis, StreamNext DEF StreamHolds
  <1> QED  BY <1>1, <1>2, TypeCorrect, HealthyUntilFault, PTL DEF Spec

(***************************************************************************)
(* A slave that will differ from its master has seen a failure.            *)
(***************************************************************************)
THEOREM NoDivergenceWithoutFault == Spec => []DivergenceNeedsFault
  <1>1. StreamHolds => DivergenceNeedsFault
    BY StreamOfThis DEF StreamHolds, Explained, DivergenceNeedsFault
  <1> QED  BY <1>1, StreamUntilFault, PTL

LEMMA FirstFits ==
    ASSUME TypeOK, Fitting, NEW s \in Client, pc[s][Listener] = "call"
    PROVE  Fits(catalog[s], event[s][Listener])
  <1> DEFINE e == event[s][Listener]
             p == InTransit(s)
  <1>1. e \in Event
    BY BusyThreadHasEvent, Deployment DEF TypeOK
  <1>2. InHandler(s) = <<e>> /\ InQueue(s) \in Seq(Event) /\ Unpublished \in Seq(Event)
    BY ViewType DEF InHandler
  <1>3. p = <<e>> \o InQueue(s) \o Unpublished /\ p \in Seq(Event)
    BY <1>2, ViewType DEF InTransit
  <1> HIDE DEF e
  <1>4. p # <<>> /\ Head(p) = e
    BY <1>1, <1>2, <1>3, HandlerDelivers
  <1> HIDE DEF p
  <1>5. 1 \in DOMAIN p /\ p[1] = e /\ SubSeq(p, 1, 1 - 1) = <<>>
    BY <1>3, <1>4
  <1>6. Fits(EffectOfAll(catalog[s], SubSeq(p, 1, 1 - 1)), p[1])
    BY <1>5 DEF Fitting, p
  <1>7. EffectOfAll(catalog[s], <<>>) = catalog[s]
    <2>1. StreamProofs!EffectOfAll(catalog[s], <<>>) = catalog[s]
      BY StreamProofs!EffectOfNone, AbsentAssumption, ConfigurationAssumption
    <2> QED  BY <2>1, SameStream
  <1>8. Fits(catalog[s], e)
    BY <1>5, <1>6, <1>7
  <1> QED  BY <1>8 DEF e

(***************************************************************************)
(* Until something fails no handler misses the object of a modification,   *)
(* or finds the one it has to add.                                         *)
(***************************************************************************)
THEOREM HandlersFindTheirObjects == Spec => []HandlerFindsObject
  <1>1. TypeOK /\ StreamHolds => HandlerFindsObject
    BY StreamOfThis, FirstFits DEF StreamHolds, HandlerFindsObject
  <1> QED  BY <1>1, StreamUntilFault, TypeCorrect, PTL

=============================================================================
