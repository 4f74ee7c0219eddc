-------------------------- MODULE ConfigurationSync --------------------------
(***************************************************************************)
(* Replication of the configuration: the global settings, those of a       *)
(* service and those of the logging.  Each is replicated in another way:   *)
(*                                                                         *)
(*   global   the properties that change and, whatever changes, the parts  *)
(*            (contact, coverage access, JAI) as they are before           *)
(*   service  the properties that change, of the service with that name    *)
(*   logging  all properties, after they have changed                      *)
(*                                                                         *)
(* GeoServer.save() tells JMSConfigurationListener of a change first and   *)
(* then commits it:  serialize -> send -> commit.  A part may also be      *)
(* changed in place: then it has its new value when the listener is told.  *)
(*                                                                         *)
(* The flag of the producer is that of CatalogReplication: here the master *)
(* publishes and the slave does not.                                       *)
(***************************************************************************)
EXTENDS Integers, Sequences, SequencesExt

CONSTANTS
    Property,     \* properties of each of the three
    Parts,        \* those of the global settings that are objects of their own
    Known,        \* those that are found by the name a change reports (see Applied)
    Name,         \* the one a service is looked up by
    Thread,       \* request threads of the master
    MaxRequests,  \* bound on the changes users ask for
    MaxFaults     \* bound on the failures injected

ASSUME PropertyAssumption ==
    /\ Known \subseteq Property
    /\ Parts \subseteq Known
    /\ Name \in Known \ Parts
    /\ Thread # {}
    /\ MaxRequests \in Nat
    /\ MaxFaults \in Nat

Info == {"global", "service", "logging"}
Value == 0 .. MaxRequests
Settings == [Property -> Value]

VARIABLES
    config,    \* config[i][p]: the settings of the master
    local,     \* local[i][p]: those of the slave
    pc, job,   \* pc[t], job[t]: where a request thread is, and what it saves
    queue,     \* the messages on their way
    requests, faults,
    overlapped, \* whether two requests were under way at once
    stale      \* pairs <<i, p>> that may stay different

vars == <<config, local, pc, job, queue, requests, overlapped, faults, stale>>

\* Properties in the order in which they were set; two show what order can do.
Changes == {names \in UNION {[1 .. n -> Property] : n \in 0 .. 2} : IsInjective(names)}

\* A modification gives its properties one value.  source: the settings that go
\* with it, from the time it is serialized.
Message == [info : Info, names : Changes, value : Value, source : Settings]
NoJob == [info |-> "none"]

TypeOK ==
    /\ config \in [Info -> Settings]
    /\ local \in [Info -> Settings]
    /\ pc \in [Thread -> {"idle", "serialize", "send", "commit"}]
    /\ job \in [Thread -> Message \cup {NoJob}]
    /\ \A t \in Thread : (pc[t] = "idle") = (job[t] = NoJob)
    /\ queue \in Seq(Message)
    /\ requests \in 0 .. MaxRequests
    /\ faults \in 0 .. MaxFaults
    /\ overlapped \in BOOLEAN
    /\ stale \subseteq Info \X Property

Init ==
    /\ config = [i \in Info |-> [p \in Property |-> 0]]
    /\ local = config
    /\ pc = [t \in Thread |-> "idle"]
    /\ job = [t \in Thread |-> NoJob]
    /\ queue = <<>>
    /\ requests = 0
    /\ faults = 0
    /\ overlapped = FALSE
    /\ stale = {}

-----------------------------------------------------------------------------
With(settings, changed, value) ==
    [p \in Property |-> IF p \in changed THEN value ELSE settings[p]]

Overlaid(settings, changed, source) ==
    [p \in Property |-> IF p \in changed THEN source[p] ELSE settings[p]]

\* smartUpdate returns at the first property it does not find.  The names are
\* those ModificationProxy makes of the setters, which are not always those of
\* the properties (uRI, gMLPrefixing).
Applied(names) == {names[k] : k \in {k \in DOMAIN names : \A j \in 1 .. k : names[j] \in Known}}

\* What a message takes from the settings that go with it.
Copied(i) == CASE i = "global"  -> Parts
               [] i = "service" -> {}
               [] i = "logging" -> Property

\* Mutant: the service is looked up by the name it will have.
FoundByNewName(m) ==
    local["service"][Name] = IF Name \in Range(m.names) THEN m.value ELSE m.source[Name]

\* getLocalService: by the name before the change.
Found(m) == local["service"][Name] = m.source[Name]

-----------------------------------------------------------------------------
(***************************************************************************)
(* The master.                                                             *)
(***************************************************************************)
Request(t, i, names, inPlace) ==
    LET value == requests + 1
    IN  /\ pc[t] = "idle"
        /\ requests < MaxRequests
        /\ inPlace # {} => i = "global"
        /\ inPlace \cap Range(names) = {}
        /\ requests' = value
        /\ overlapped' = (overlapped \/ \E u \in Thread : pc[u] # "idle")
        /\ config' = [config EXCEPT ![i] = With(@, inPlace, value)]
        /\ job' = [job EXCEPT ![t] = [info |-> i, names |-> names, value |-> value,
                                      source |-> config[i]]]
        /\ pc' = [pc EXCEPT ![t] = "serialize"]
        /\ UNCHANGED <<local, queue, faults, stale>>

\* handleGlobalChange, handleServiceChange and handleLoggingChange; the last one
\* makes the change itself before.
Serialize(t) ==
    LET i == job[t].info
        changed == IF i = "logging" THEN Applied(job[t].names) ELSE {}
    IN  /\ pc[t] = "serialize"
        /\ config' = [config EXCEPT ![i] = With(@, changed, job[t].value)]
        /\ job' = [job EXCEPT ![t].source = config'[i]]
        /\ pc' = [pc EXCEPT ![t] = "send"]
        /\ UNCHANGED <<local, queue, requests, overlapped, faults, stale>>

\* What a message will bring to the slave, if nothing overtakes it, and what not.
\* A service whose name the slave may not have may not be found again.
Brought(m) ==
    IF m.info = "service" /\ <<"service", Name>> \in stale THEN {}
    ELSE {p \in Copied(m.info) : m.source[p] = config[m.info][p]}
           \cup (Applied(m.names) \ Copied(m.info))

Missed(m) == (Range(m.names) \cup Copied(m.info)) \ Brought(m)

Send(t) ==
    LET m == job[t]
    IN  /\ pc[t] = "send"
        /\ queue' = Append(queue, m)
        /\ stale' = (stale \ ({m.info} \X Brought(m))) \cup ({m.info} \X Missed(m))
        /\ pc' = [pc EXCEPT ![t] = "commit"]
        /\ UNCHANGED <<config, local, job, requests, overlapped, faults>>

\* What the slave does not have after a commit: what was copied when it had its
\* old value, and what another thread, whose message is sent, will commit as well.
Overtaken(t) ==
    LET m == job[t]
    IN  {p \in Range(m.names) :
           \/ p \in Copied(m.info) /\ config[m.info][p] # m.value
           \/ \E u \in Thread \ {t} :
                pc[u] = "commit" /\ job[u].info = m.info /\ p \in Range(job[u].names)}

Commit(t) ==
    LET m == job[t]
    IN  /\ pc[t] = "commit"
        /\ config' = [config EXCEPT ![m.info] = With(@, Range(m.names), m.value)]
        /\ stale' = stale \cup ({m.info} \X Overtaken(t))
        /\ pc' = [pc EXCEPT ![t] = "idle"]
        /\ job' = [job EXCEPT ![t] = NoJob]
        /\ UNCHANGED <<local, queue, requests, overlapped, faults>>

-----------------------------------------------------------------------------
(***************************************************************************)
(* The slave.                                                              *)
(***************************************************************************)
Handle(i) ==
    /\ queue # <<>>
    /\ Head(queue).info = i
    /\ queue' = Tail(queue)
    /\ UNCHANGED <<config, pc, job, requests, overlapped, faults>>

\* Mutant: the parts are taken for properties like any other.
ModifyGlobalOnly ==
    LET m == Head(queue)
    IN  /\ Handle("global")
        /\ local' = [local EXCEPT !["global"] = With(@, Applied(m.names), m.value)]
        /\ UNCHANGED stale

ModifyGlobal ==
    LET m == Head(queue)
    IN  /\ Handle("global")
        /\ local' = [local EXCEPT !["global"] =
                       Overlaid(With(@, Applied(m.names), m.value), Parts, m.source)]
        /\ UNCHANGED stale

\* Of a service that is not found the change is lost.
ModifyService ==
    LET m == Head(queue)
    IN  /\ Handle("service")
        /\ \/ /\ Found(m)
              /\ local' = [local EXCEPT !["service"] = With(@, Applied(m.names), m.value)]
              /\ UNCHANGED stale
           \/ /\ ~Found(m)
              /\ stale' = stale \cup ({"service"} \X Range(m.names))
              /\ UNCHANGED local

\* Mutant: what the change does not name is dropped.
ModifyLoggingNamed ==
    LET m == Head(queue)
    IN  /\ Handle("logging")
        /\ local' = [local EXCEPT !["logging"] = [p \in Applied(m.names) |-> m.source[p]]]
        /\ UNCHANGED stale

ModifyLogging ==
    LET m == Head(queue)
    IN  /\ Handle("logging")
        /\ local' = [local EXCEPT !["logging"] = m.source]
        /\ UNCHANGED stale

OnMessage == ModifyGlobal \/ ModifyService \/ ModifyLogging

-----------------------------------------------------------------------------
(***************************************************************************)
(* Failures.                                                               *)
(***************************************************************************)
Fault == faults < MaxFaults /\ faults' = faults + 1

\* The publication fails, or nobody notices that it did: the listener swallows
\* the exception and the change is committed.
MessageLost(t) ==
    LET m == job[t]
    IN  /\ Fault
        /\ pc[t] = "send"
        /\ stale' = stale \cup ({m.info} \X (Range(m.names) \cup Copied(m.info)))
        /\ pc' = [pc EXCEPT ![t] = "commit"]
        /\ UNCHANGED <<config, local, job, queue, requests, overlapped>>

\* The slave is killed, or its handler fails: the message does not come back.
HandlerFails ==
    LET m == Head(queue)
    IN  /\ Fault
        /\ queue # <<>>
        /\ queue' = Tail(queue)
        /\ stale' = stale \cup ({m.info} \X (Range(m.names) \cup Copied(m.info)))
        /\ UNCHANGED <<config, local, pc, job, requests, overlapped>>

-----------------------------------------------------------------------------
Proceed(t) == Serialize(t) \/ Send(t) \/ Commit(t) \/ MessageLost(t)

Next ==
    \/ \E t \in Thread :
         \/ \E i \in Info, names \in Changes, inPlace \in SUBSET Parts :
              Request(t, i, names, inPlace)
         \/ Proceed(t)
    \/ OnMessage
    \/ HandlerFails

Spec == Init /\ [][Next]_vars

-----------------------------------------------------------------------------
\* When nothing is on its way the slave has the settings of the master, but for
\* those that are known to lag: a part that was replaced and not changed in place
\* (until the next message about the global settings), the properties behind one
\* that is not found, all of a service whose name got lost, and what two threads
\* saved at the same time.
SettingsAlike ==
    queue = <<>> /\ (\A t \in Thread : pc[t] = "idle") =>
      \A i \in Info, p \in Property : <<i, p>> \notin stale => local[i][p] = config[i][p]

\* As long as no two requests overlap, and no change of the name went missing, the
\* slave finds the service a message is about, whatever became of the others.
FindsService ==
    /\ ~overlapped
    /\ <<"service", Name>> \notin stale
    /\ queue # <<>>
    /\ Head(queue).info = "service"
    => Found(Head(queue))

=============================================================================
