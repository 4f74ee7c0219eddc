-------------------------- MODULE CatalogReplication --------------------------
(***************************************************************************)
(* Replication of the GeoServer catalog over JMS.                          *)
(*                                                                         *)
(* An instance with the jms-server modules listens to its own catalog and  *)
(* publishes every event on the virtual topic (JMSCatalogListener); the    *)
(* broker copies the message into the queue of every consumer name; an     *)
(* instance with jms-client takes the messages of its queue one at a time  *)
(* (JMSQueueListener) and repeats the change in its own catalog.  An       *)
(* instance that does both would publish what it has just received, so     *)
(* the handlers disable the producer around the local change.              *)
(*                                                                         *)
(* All threads of an instance go through the same catalog code, hence the  *)
(* control points are shared:                                              *)
(*                                                                         *)
(*   user      idle ------------> notify -> publish -> [commit] -> idle    *)
(*   listener  idle -> disable -> call -> notify -> publish -> [commit]    *)
(*                  -> enable -> idle                                      *)
(*                                                                         *)
(* Only a modification has the commit step: Catalog.save() raises its      *)
(* event before the new values are in the catalog, add() and remove()      *)
(* after.                                                                  *)
(***************************************************************************)
EXTENDS CatalogEvents, Naturals

CONSTANTS
    Instance,      \* the GeoServer instances
    Server,        \* those that publish (jms-server-impl is deployed)
    Client,        \* those that consume (jms-client is deployed)
    Edited,        \* those whose catalog users change
    User,          \* request threads of an edited instance
    Listener,      \* the single thread of a listener container
    InstanceName,  \* InstanceName[i]: the property instance.name of i
    MaxRequests,   \* bound on the changes users ask for
    MaxFaults      \* bound on the failures injected

ASSUME ConfigurationAssumption ==
    /\ Server \subseteq Instance
    /\ Client \subseteq Instance
    /\ Edited \subseteq Instance
    /\ Listener \notin User
    /\ MaxRequests \in Nat
    /\ MaxFaults \in Nat

VARIABLES
    catalog,          \* catalog[i]: the objects instance i serves
    producerEnabled,  \* producerEnabled[i]: the flag of its JMSCatalogListener
    phase,            \* phase[i]: "starting" until its ContextLoadedEvent
    pc,               \* pc[i][t]: where thread t of instance i is
    event,            \* event[i][t]: the catalog event t is working on
    overtaken,        \* the ContextLoadedEvent came while a handler was running
    queue,            \* queue[n]: messages the broker holds for consumer n
    requests,         \* how many changes users asked for
    faults            \* how many failures there were

vars == <<catalog, producerEnabled, phase, pc, event, overtaken, queue,
          requests, faults>>

Thread == User \cup {Listener}

Name == {InstanceName[i] : i \in Instance}

QueueName == {InstanceName[i] : i \in Client}

\* The object message and the properties every message has.
Message == [producer : Name, event : Event]

Control ==
    {"idle", "disable", "call", "notify", "publish", "commit", "enable"}

\* Exactly the idle threads have no event.
ThreadsOK ==
    /\ pc \in [Instance -> [Thread -> Control]]
    /\ event \in [Instance -> [Thread -> Event \cup {NoEvent}]]
    /\ \A i \in Instance, t \in Thread :
          (pc[i][t] = "idle") = (event[i][t] = NoEvent)

TypeOK ==
    /\ ThreadsOK
    /\ catalog \in [Instance -> Catalog]
    /\ producerEnabled \in [Instance -> BOOLEAN]
    /\ phase \in [Instance -> {"starting", "loaded"}]
    /\ overtaken \in [Instance -> BOOLEAN]
    /\ queue \in [QueueName -> Seq(Message)]
    /\ requests \in 0 .. MaxRequests
    /\ faults \in 0 .. MaxFaults

-----------------------------------------------------------------------------
\* Every instance starts from the same data directory content.
Init ==
    /\ \E c \in Catalog : catalog = [i \in Instance |-> c]
    /\ producerEnabled = [i \in Instance |-> FALSE]
    /\ phase = [i \in Instance |-> "starting"]
    /\ pc = [i \in Instance |-> [t \in Thread |-> "idle"]]
    /\ event = [i \in Instance |-> [t \in Thread |-> NoEvent]]
    /\ overtaken = [i \in Instance |-> FALSE]
    /\ queue = [n \in QueueName |-> <<>>]
    /\ requests = 0
    /\ faults = 0

\* Mutant: the test that avoids a needless write is the wrong way round, so that
\* the flag can only be raised.
SetProducerEnabledOnly(i, enabled) ==
    producerEnabled' =
        [producerEnabled EXCEPT ![i] = (@ \/ enabled) /\ i \in Server]

\* A ToggleEvent or ContextLoadedEvent is seen by the listener, if there is one.
SetProducerEnabled(i, enabled) ==
    producerEnabled' = [producerEnabled EXCEPT ![i] = enabled /\ i \in Server]

ContextLoaded(i) ==
    /\ phase[i] = "starting"
    /\ phase' = [phase EXCEPT ![i] = "loaded"]
    /\ SetProducerEnabled(i, TRUE)
    /\ overtaken' = [overtaken EXCEPT ![i] =
                        pc[i][Listener] \notin {"idle", "disable"}]
    /\ UNCHANGED <<catalog, pc, event, queue, requests, faults>>

-----------------------------------------------------------------------------
(***************************************************************************)
(* Moving a thread between control points.                                 *)
(***************************************************************************)
Goto(i, t, label) == pc' = [pc EXCEPT ![i][t] = label]

Finish(i, t) ==
    /\ pc' = [pc EXCEPT ![i][t] = "idle"]
    /\ event' = [event EXCEPT ![i][t] = NoEvent]

\* A listener thread that leaves the catalog reaches the finally clause of
\* synchronize(), a user thread is done.
Leave(i, t) ==
    IF t = Listener
        THEN Goto(i, t, "enable") /\ UNCHANGED event
        ELSE Finish(i, t)

\* After the event: save() commits, add() and remove() return.
AfterEvent(i, t) ==
    IF event[i][t].type = "modify"
        THEN Goto(i, t, "commit") /\ UNCHANGED event
        ELSE Leave(i, t)

-----------------------------------------------------------------------------
(***************************************************************************)
(* The user interface and the REST service: a user creates an object that  *)
(* is not there, changes or deletes one that is.  A removed or added       *)
(* object is in the catalog, or gone from it, when the event is raised.    *)
(***************************************************************************)
Request(i, u) ==
    /\ phase[i] = "loaded"
    /\ pc[i][u] = "idle"
    /\ requests < MaxRequests
    /\ requests' = requests + 1
    /\ \E e \in Event :
          /\ Fits(catalog[i], e)
          /\ event' = [event EXCEPT ![i][u] = e]
          /\ catalog' = IF e.type = "modify"
                            THEN catalog
                            ELSE [catalog EXCEPT ![i] = Effect(@, e)]
    /\ Goto(i, u, "notify")
    /\ UNCHANGED <<producerEnabled, phase, overtaken, queue, faults>>

\* handleAddEvent, handleRemoveEvent and handleModifyEvent of the listener:
\* return at once when the producer is not enabled.
Notify(i, t) ==
    /\ pc[i][t] = "notify"
    /\ IF producerEnabled[i]
          THEN Goto(i, t, "publish") /\ UNCHANGED event
          ELSE AfterEvent(i, t)
    /\ UNCHANGED <<catalog, producerEnabled, phase, overtaken, queue,
                   requests, faults>>

\* Mutant: the new message overtakes those in the queues.
PublishInFront(i, t) ==
    /\ pc[i][t] = "publish"
    /\ LET message == [producer |-> InstanceName[i], event |-> event[i][t]]
       IN  queue' = [n \in QueueName |-> <<message>> \o queue[n]]
    /\ AfterEvent(i, t)
    /\ UNCHANGED <<catalog, producerEnabled, phase, overtaken, requests, faults>>

\* JMSPublisher.publish: the virtual topic copies the message into the queue of
\* every consumer.
Publish(i, t) ==
    /\ pc[i][t] = "publish"
    /\ LET message == [producer |-> InstanceName[i], event |-> event[i][t]]
       IN  queue' = [n \in QueueName |-> Append(queue[n], message)]
    /\ AfterEvent(i, t)
    /\ UNCHANGED <<catalog, producerEnabled, phase, overtaken, requests, faults>>

\* DefaultCatalogFacade.saved: the new values reach the catalog, unless another
\* thread has removed the object meanwhile.
Commit(i, t) ==
    /\ pc[i][t] = "commit"
    /\ catalog' = [catalog EXCEPT ![i] = Modified(@, event[i][t])]
    /\ Leave(i, t)
    /\ UNCHANGED <<producerEnabled, phase, overtaken, queue, requests, faults>>

-----------------------------------------------------------------------------
(***************************************************************************)
(* JMSQueueListener.onMessage and the synchronize() of the handlers.  The  *)
(* container acknowledges a message when it is taken: whatever happens     *)
(* afterwards, it does not come back.                                      *)
(***************************************************************************)
\* Mutant: the message stays in the queue.
TakeUnacknowledged(i) ==
    /\ i \in Client
    /\ pc[i][Listener] = "idle"
    /\ queue[InstanceName[i]] # <<>>
    /\ UNCHANGED queue

HeadOf(i) == Head(queue[InstanceName[i]])

Take(i) ==
    /\ i \in Client
    /\ pc[i][Listener] = "idle"
    /\ queue[InstanceName[i]] # <<>>
    /\ queue' = [queue EXCEPT ![InstanceName[i]] = Tail(@)]

\* Mutant: the name of the producer is not compared.
DiscardAny(i) ==
    /\ Take(i)
    /\ UNCHANGED <<catalog, producerEnabled, phase, pc, event, overtaken,
                   requests, faults>>

Discard(i) ==
    /\ Take(i)
    /\ HeadOf(i).producer = InstanceName[i]
    /\ UNCHANGED <<catalog, producerEnabled, phase, pc, event, overtaken,
                   requests, faults>>

Receive(i) ==
    /\ Take(i)
    /\ HeadOf(i).producer # InstanceName[i]
    /\ Goto(i, Listener, "disable")
    /\ event' = [event EXCEPT ![i][Listener] = HeadOf(i).event]
    /\ UNCHANGED <<catalog, producerEnabled, phase, overtaken, requests, faults>>

\* Mutant: producer.disable() is missing.
DisableForgotten(i) ==
    /\ pc[i][Listener] = "disable"
    /\ Goto(i, Listener, "call")
    /\ UNCHANGED <<catalog, producerEnabled, phase, event, overtaken, queue,
                   requests, faults>>

Disable(i) ==
    /\ pc[i][Listener] = "disable"
    /\ SetProducerEnabled(i, FALSE)
    /\ Goto(i, Listener, "call")
    /\ UNCHANGED <<catalog, phase, event, overtaken, queue, requests, faults>>

\* Mutant: the object is localized, but not added or removed.
AddOrRemoveForgotten(i) ==
    /\ pc[i][Listener] = "call"
    /\ event[i][Listener].type # "modify"
    /\ Goto(i, Listener, "notify")
    /\ UNCHANGED <<catalog, producerEnabled, phase, event, overtaken, queue,
                   requests, faults>>

\* catalog.add() or catalog.remove() of the localized object.  Which of its
\* types the catalog validates is its own affair: it may refuse a known name.
AddOrRemove(i) ==
    /\ pc[i][Listener] = "call"
    /\ event[i][Listener].type # "modify"
    /\ catalog' = [catalog EXCEPT ![i] = Effect(@, event[i][Listener])]
    /\ \/ Goto(i, Listener, "notify")
       \/ /\ event[i][Listener].type = "add"
          /\ catalog[i][event[i][Listener].info] # Absent
          /\ Goto(i, Listener, "enable")
    /\ UNCHANGED <<producerEnabled, phase, event, overtaken, queue, requests,
                   faults>>

\* The local object is searched by name, updated through its proxy and saved;
\* a CatalogException if it is not there.
Modify(i) ==
    /\ pc[i][Listener] = "call"
    /\ event[i][Listener].type = "modify"
    /\ IF catalog[i][event[i][Listener].info] = Absent
          THEN Goto(i, Listener, "enable")
          ELSE Goto(i, Listener, "notify")
    /\ UNCHANGED <<catalog, producerEnabled, phase, event, overtaken, queue,
                   requests, faults>>

\* Mutant: the thread goes back to the container and keeps its event.
EnableKeepingEvent(i) ==
    /\ pc[i][Listener] = "enable"
    /\ SetProducerEnabled(i, TRUE)
    /\ overtaken' = [overtaken EXCEPT ![i] = FALSE]
    /\ Goto(i, Listener, "idle")
    /\ UNCHANGED <<catalog, event, phase, queue, requests, faults>>

Enable(i) ==
    /\ pc[i][Listener] = "enable"
    /\ SetProducerEnabled(i, TRUE)
    /\ overtaken' = [overtaken EXCEPT ![i] = FALSE]
    /\ Finish(i, Listener)
    /\ UNCHANGED <<catalog, phase, queue, requests, faults>>

-----------------------------------------------------------------------------
(***************************************************************************)
(* Failures.                                                               *)
(***************************************************************************)
Fault == faults < MaxFaults /\ faults' = faults + 1

\* The handler is not found, or the message cannot be deserialized: onMessage
\* throws before synchronize() is entered.
HandlerUnavailable(i) ==
    /\ Fault
    /\ Take(i)
    /\ HeadOf(i).producer # InstanceName[i]
    /\ UNCHANGED <<catalog, producerEnabled, phase, pc, event, overtaken,
                   requests>>

\* Mutant: producer.enable() after the call instead of in a finally clause.
SynchronizeFailsSilenced(i) ==
    /\ Fault
    /\ pc[i][Listener] = "call"
    /\ overtaken' = [overtaken EXCEPT ![i] = FALSE]
    /\ Finish(i, Listener)
    /\ UNCHANGED <<catalog, producerEnabled, phase, queue, requests>>

\* The local catalog refuses the change.
SynchronizeFails(i) ==
    /\ Fault
    /\ pc[i][Listener] = "call"
    /\ Goto(i, Listener, "enable")
    /\ UNCHANGED <<catalog, producerEnabled, phase, event, overtaken, queue,
                   requests>>

\* The listener turns the JMSException into a CatalogException: a modification
\* is not committed, an addition or a removal is already done.
PublishFails(i, t) ==
    /\ Fault
    /\ pc[i][t] = "publish"
    /\ Leave(i, t)
    /\ UNCHANGED <<catalog, producerEnabled, phase, overtaken, queue, requests>>

\* The connection sends asynchronously: the caller is not told of a failure.
MessageLost(i, t) ==
    /\ Fault
    /\ pc[i][t] = "publish"
    /\ AfterEvent(i, t)
    /\ UNCHANGED <<catalog, producerEnabled, phase, overtaken, queue, requests>>

\* The instance is killed and started again on its data directory.
Crash(i) ==
    /\ Fault
    /\ phase' = [phase EXCEPT ![i] = "starting"]
    /\ producerEnabled' = [producerEnabled EXCEPT ![i] = FALSE]
    /\ overtaken' = [overtaken EXCEPT ![i] = FALSE]
    /\ pc' = [pc EXCEPT ![i] = [t \in Thread |-> "idle"]]
    /\ event' = [event EXCEPT ![i] = [t \in Thread |-> NoEvent]]
    /\ UNCHANGED <<catalog, queue, requests>>

-----------------------------------------------------------------------------
InCatalog(i, t) == Notify(i, t) \/ Publish(i, t) \/ Commit(i, t)

OnMessage(i) ==
    Discard(i) \/ Receive(i) \/ Disable(i) \/ AddOrRemove(i) \/ Modify(i)
        \/ Enable(i)

Failure(i) ==
    \/ HandlerUnavailable(i)
    \/ SynchronizeFails(i)
    \/ \E t \in Thread : PublishFails(i, t) \/ MessageLost(i, t)
    \/ Crash(i)

Next ==
    \E i \in Instance :
        \/ ContextLoaded(i)
        \/ i \in Edited /\ \E u \in User : Request(i, u)
        \/ \E t \in Thread : InCatalog(i, t)
        \/ OnMessage(i)
        \/ Failure(i)

Spec == Init /\ [][Next]_vars

\* A start-up ends, a thread inside the catalog or the listener goes on, a
\* message in a queue is taken.  Users need not ask for anything.
Fairness ==
    \A i \in Instance :
        /\ WF_vars(ContextLoaded(i))
        /\ \A t \in Thread : WF_vars(InCatalog(i, t))
        /\ WF_vars(OnMessage(i))

FairSpec == Spec /\ Fairness

-----------------------------------------------------------------------------
(***************************************************************************)
(* What a handler guarantees once its instance is up: the change it makes  *)
(* is not published again.  The listener thread is about to publish only   *)
(* if the ContextLoadedEvent enabled the producer behind its back, between *)
(* producer.disable() and the end of the catalog call.                     *)
(***************************************************************************)
NoRecursion ==
    \A i \in Instance : pc[i][Listener] = "publish" => overtaken[i]

(***************************************************************************)
(* The inductive form: while the handler is in the catalog the producer    *)
(* stays disabled, whatever the users and the other instances do.          *)
(***************************************************************************)
DisabledDuringCall ==
    \A i \in Instance :
        /\ pc[i][Listener] \in {"call", "notify", "commit"} /\ ~overtaken[i]
              => ~producerEnabled[i]
        /\ pc[i][Listener] = "publish" => overtaken[i]

(***************************************************************************)
(* However a handler ends, with an exception included, its finally clause  *)
(* enables the producer again: no instance that publishes stays silent.    *)
(***************************************************************************)
ProducerComesBack == \A i \in Server : []<>producerEnabled[i]

(***************************************************************************)
(* A message that cannot be handled is lost, but never blocks the ones     *)
(* behind it.                                                              *)
(***************************************************************************)
QueuesDrain == \A n \in QueueName : []<>(queue[n] = <<>>)

-----------------------------------------------------------------------------
(***************************************************************************)
(* A statement of the comments that the code does not keep.                *)
(***************************************************************************)

\* JMSCatalogListener.java:162 and 192: "skip incoming events until context is
\* loaded": in a loaded instance the event of a user is published.
SkippedOnlyUntilLoaded ==
    [][\A i \in Server, u \in User :
          /\ pc[i][u] = "notify" /\ pc'[i][u] # "notify"
          /\ phase[i] = "loaded" /\ phase'[i] = "loaded"
          => pc'[i][u] = "publish"]_vars

=============================================================================
