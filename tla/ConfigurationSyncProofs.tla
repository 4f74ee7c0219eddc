----------------------- MODULE ConfigurationSyncProofs -----------------------
(***************************************************************************)
(* Proofs about ConfigurationSync: types, that a slave finds the service a *)
(* message is about, and that in the end it has the settings of the        *)
(* master.  The invariant behind the former is a history of the name: the  *)
(* one the slave has, the one it will have after every message on its way, *)
(* and at last the one the master has.  The one behind the latter says the *)
(* same of every setting, but looks only at the last message about it.     *)
(***************************************************************************)
EXTENDS ConfigurationSync, SequenceTheorems, TLAPS

\* Settings stay settings when some of them change.
LEMMA SettingsChange ==
    ASSUME NEW s \in Settings, NEW changed, NEW v \in Value, NEW source \in Settings
    PROVE  With(s, changed, v) \in Settings /\ Overlaid(s, changed, source) \in Settings
BY DEF Settings, With, Overlaid

\* What smartUpdate applies is among what has changed.
LEMMA AppliedIsChanged ==
    ASSUME NEW names \in Changes
    PROVE  Applied(names) \subseteq Range(names)
BY DEF Applied, Range

\* The rest of a queue of messages, and one message more.
LEMMA QueueTypes ==
    ASSUME NEW q \in Seq(Message)
    PROVE  /\ \A m \in Message : Append(q, m) \in Seq(Message)
           /\ q # <<>> => Head(q) \in Message /\ Tail(q) \in Seq(Message)
BY HeadTailProperties, AppendProperties

\* The types are kept by the steps of a request thread.
LEMMA ThreadTypes ==
    ASSUME TypeOK, NEW t \in Thread, Proceed(t)
    PROVE  TypeOK'
<1>1. job[t] \in Message /\ pc[t] # "idle"
  BY DEF TypeOK, Proceed, Serialize, Send, Commit, MessageLost
<1>2. /\ job[t].info \in Info
      /\ job[t].value \in Value
      /\ job[t].source \in Settings
      /\ job[t].names \in Changes
  BY <1>1 DEF Message
<1>3. \A m \in Message : m # NoJob
  BY DEF Message, NoJob, Info
<1>4. CASE Serialize(t)
  <2> DEFINE i == job[t].info
             changed == IF i = "logging" THEN Applied(job[t].names) ELSE {}
  <2>1. With(config[i], changed, job[t].value) \in Settings
    <3>1. config[i] \in Settings
      BY <1>2 DEF TypeOK
    <3> QED BY <3>1, <1>2, SettingsChange
  <2>2. config' = [config EXCEPT ![i] = With(@, changed, job[t].value)]
    BY <1>4 DEF Serialize
  <2> HIDE DEF changed
  <2>3. config' \in [Info -> Settings]
    BY <2>1, <2>2, <1>2 DEF TypeOK
  <2>4. [job[t] EXCEPT !.source = config'[i]] \in Message
    BY <2>3, <1>1, <1>2 DEF Message
  <2>5. job' = [job EXCEPT ![t] = [job[t] EXCEPT !.source = config'[i]]]
    BY <1>4 DEF Serialize
  <2>6. job' \in [Thread -> Message \cup {NoJob}]
    BY <2>4, <2>5 DEF TypeOK
  <2>7. pc' = [pc EXCEPT ![t] = "send"]
    BY <1>4 DEF Serialize
  <2>8. \A u \in Thread : (pc'[u] = "idle") = (job'[u] = NoJob)
    BY <2>4, <2>5, <2>7, <1>3 DEF TypeOK
  <2> QED BY <1>4, <2>3, <2>6, <2>7, <2>8 DEF TypeOK, Serialize
<1>5. CASE Send(t)
  <2>1. Append(queue, job[t]) \in Seq(Message)
    BY <1>1, QueueTypes DEF TypeOK
  <2>2. stale' \subseteq Info \X Property
    <3>1. {job[t].info} \X Missed(job[t]) \subseteq Info \X Property
      BY <1>2, PropertyAssumption DEF Missed, Copied, Range, Changes, Info
    <3> QED BY <1>5, <3>1 DEF Send, TypeOK
  <2> QED BY <1>5, <1>1, <1>3, <2>1, <2>2 DEF TypeOK, Send
<1>6. CASE Commit(t)
  <2>1. With(config[job[t].info], Range(job[t].names), job[t].value) \in Settings
    <3>1. config[job[t].info] \in Settings
      BY <1>2 DEF TypeOK
    <3> QED BY <3>1, <1>2, SettingsChange
  <2>2. config' \in [Info -> Settings]
    BY <1>6, <2>1, <1>2 DEF TypeOK, Commit
  <2>3. stale' \subseteq Info \X Property
    <3>1. {job[t].info} \X Overtaken(t) \subseteq Info \X Property
      BY <1>2 DEF Overtaken, Range, Changes
    <3> QED BY <1>6, <3>1 DEF Commit, TypeOK
  <2> QED BY <1>6, <1>3, <2>2, <2>3 DEF TypeOK, Commit
<1>7. CASE MessageLost(t)
  <2>1. {job[t].info} \X (Range(job[t].names) \cup Copied(job[t].info)) \subseteq Info \X Property
    BY <1>2, PropertyAssumption DEF Copied, Range, Changes, Info
  <2>2. stale' \subseteq Info \X Property
    BY <1>7, <2>1 DEF MessageLost, TypeOK
  <2> QED BY <1>7, <1>1, <1>3, <2>2, PropertyAssumption DEF TypeOK, MessageLost, Fault
<1> QED BY <1>4, <1>5, <1>6, <1>7 DEF Proceed

\* They are kept by the steps of the slave.
LEMMA SlaveTypes ==
    ASSUME TypeOK, OnMessage \/ HandlerFails
    PROVE  TypeOK'
<1> DEFINE m == Head(queue)
<1>1. m \in Message /\ queue' = Tail(queue) /\ Tail(queue) \in Seq(Message)
  BY QueueTypes DEF TypeOK, OnMessage, ModifyGlobal, ModifyService, ModifyLogging, Handle,
                    HandlerFails
<1>2. /\ m.info \in Info
      /\ m.value \in Value
      /\ m.source \in Settings
      /\ m.names \in Changes
  BY <1>1 DEF Message
<1>3. {"service"} \X Range(m.names) \subseteq Info \X Property
  BY <1>2 DEF Range, Changes, Info
<1>4. {m.info} \X (Range(m.names) \cup Copied(m.info)) \subseteq Info \X Property
  BY <1>2, PropertyAssumption DEF Copied, Range, Changes, Info
<1>5. \A i \in Info : \A changed : With(local[i], changed, m.value) \in Settings
  <2>1. \A i \in Info : local[i] \in Settings
    BY DEF TypeOK
  <2> QED BY <1>2, <2>1, SettingsChange
<1>6. CASE ModifyGlobal
  <2>1. Overlaid(With(local["global"], Applied(m.names), m.value), Parts, m.source) \in Settings
    <3>1. With(local["global"], Applied(m.names), m.value) \in Settings
      BY <1>5 DEF Info
    <3> QED BY <1>2, <3>1, SettingsChange
  <2>2. local' \in [Info -> Settings]
    BY <1>6, <2>1 DEF TypeOK, ModifyGlobal
  <2> QED BY <1>6, <1>1, <2>2 DEF TypeOK, ModifyGlobal, Handle
<1>7. CASE ModifyService
  <2>1. With(local["service"], Applied(m.names), m.value) \in Settings
    BY <1>5 DEF Info
  <2>2. local' \in [Info -> Settings]
    BY <1>7, <2>1 DEF TypeOK, ModifyService
  <2>3. stale' \subseteq Info \X Property
    BY <1>7, <1>3 DEF TypeOK, ModifyService
  <2> QED BY <1>7, <1>1, <2>2, <2>3 DEF TypeOK, ModifyService, Handle
<1>8. CASE ModifyLogging
  <2>1. local' \in [Info -> Settings]
    BY <1>8, <1>2 DEF TypeOK, ModifyLogging
  <2> QED BY <1>8, <1>1, <2>1 DEF TypeOK, ModifyLogging, Handle
<1>9. CASE HandlerFails
  <2>1. stale' \subseteq Info \X Property
    BY <1>9, <1>4 DEF TypeOK, HandlerFails
  <2> QED BY <1>9, <1>1, <2>1, PropertyAssumption DEF TypeOK, HandlerFails, Fault
<1> QED BY <1>6, <1>7, <1>8, <1>9 DEF OnMessage

\* And by a request.
LEMMA RequestTypes ==
    ASSUME TypeOK, NEW t \in Thread, NEW i \in Info, NEW names \in Changes,
           NEW inPlace \in SUBSET Parts, Request(t, i, names, inPlace)
    PROVE  TypeOK'
<1>1. requests + 1 \in Value /\ requests' = requests + 1 /\ requests' \in 0 .. MaxRequests
  BY PropertyAssumption DEF TypeOK, Request, Value
<1>2. config[i] \in Settings
  BY DEF TypeOK
<1>3. With(config[i], inPlace, requests + 1) \in Settings
  BY <1>1, <1>2, SettingsChange
<1>4. config' \in [Info -> Settings]
  BY <1>3 DEF TypeOK, Request
<1> DEFINE m == [info |-> i, names |-> names, value |-> requests + 1, source |-> config[i]]
<1>5. m \in Message /\ m # NoJob
  BY <1>1, <1>2 DEF Message, NoJob, Info
<1>6. job' = [job EXCEPT ![t] = m] /\ pc' = [pc EXCEPT ![t] = "serialize"]
  BY DEF Request
<1> HIDE DEF m
<1> QED BY <1>1, <1>4, <1>5, <1>6 DEF TypeOK, Request

\* Types of settings, messages and requests, for any properties, threads and bounds;
\* a thread has a message exactly while it saves.
THEOREM ConfigurationTypeCorrect == Spec => []TypeOK
<1>1. Init => TypeOK
  <2> SUFFICES ASSUME Init PROVE TypeOK
    OBVIOUS
  <2>1. config \in [Info -> Settings] /\ local \in [Info -> Settings]
    BY PropertyAssumption DEF Init, Settings, Value
  <2>2. queue \in Seq(Message) /\ stale \subseteq Info \X Property
    BY DEF Init
  <2>3. requests \in 0 .. MaxRequests /\ faults \in 0 .. MaxFaults
    BY PropertyAssumption DEF Init
  <2>4. /\ pc \in [Thread -> {"idle", "serialize", "send", "commit"}]
        /\ job \in [Thread -> Message \cup {NoJob}]
        /\ \A t \in Thread : (pc[t] = "idle") = (job[t] = NoJob)
    BY DEF Init
  <2>5. overlapped \in BOOLEAN
    BY DEF Init
  <2> QED BY <2>1, <2>2, <2>3, <2>4, <2>5 DEF TypeOK
<1>2. TypeOK /\ [Next]_vars => TypeOK'
  <2> SUFFICES ASSUME TypeOK, [Next]_vars PROVE TypeOK'
    OBVIOUS
  <2>1. CASE UNCHANGED vars
    BY <2>1 DEF vars, TypeOK
  <2> QED BY <2>1, RequestTypes, ThreadTypes, SlaveTypes DEF Next
<1> QED BY <1>1, <1>2, PTL DEF Spec

-----------------------------------------------------------------------------
\* The name of the service after a message, if it finds it.
After(m) == IF Name \in Applied(m.names) THEN m.value ELSE m.source[Name]

\* h: the name the slave has, and those it will have after each message.
IsHistory(h, q) ==
    \A k \in 1 .. Len(q) :
      h[k + 1] = IF q[k].info = "service" THEN After(q[k]) ELSE h[k]

AreFound(h, q) ==
    \A k \in 1 .. Len(q) : q[k].info = "service" => q[k].source[Name] = h[k]

\* The name the slave has in the end: the one of the master, or the one that is
\* sent and not yet committed.
InTheEnd(t) ==
    IF pc[t] = "commit" /\ job[t].info = "service" THEN After(job[t])
    ELSE config["service"][Name]

\* A thread that is alone has the settings of the master with its message, and will
\* commit no name the message does not bring.
JobInStep(t) ==
    job[t].info = "service" =>
      /\ pc[t] \in {"send", "commit"} => job[t].source[Name] = config["service"][Name]
      /\ pc[t] = "commit" => (Name \in Range(job[t].names) => Name \in Applied(job[t].names))

Leads(q, from, to) ==
    \E h \in [1 .. Len(q) + 1 -> Value] :
      /\ h[1] = from
      /\ h[Len(q) + 1] = to
      /\ IsHistory(h, q)
      /\ AreFound(h, q)

Alone(t) == \A u \in Thread : pc[u] # "idle" => u = t

OneAtATime == ~overlapped => \A t \in Thread : pc[t] # "idle" => Alone(t)

NameInStep ==
    \A t \in Thread :
      ~overlapped /\ Alone(t) /\ <<"service", Name>> \notin stale =>
        JobInStep(t) /\ Leads(queue, local["service"][Name], InTheEnd(t))

\* A message more, which is about something else or starts from the last name.
LEMMA HistoryGrows ==
    ASSUME NEW q \in Seq(Message), NEW m \in Message, NEW from, NEW to, Leads(q, from, to),
           m.info = "service" => m.source[Name] = to
    PROVE  Leads(Append(q, m), from, IF m.info = "service" THEN After(m) ELSE to)
<1> DEFINE last == IF m.info = "service" THEN After(m) ELSE to
           n == Len(q)
<1>1. PICK h \in [1 .. n + 1 -> Value] :
        h[1] = from /\ h[n + 1] = to /\ IsHistory(h, q) /\ AreFound(h, q)
  BY DEF Leads
<1>2. n \in Nat /\ Len(Append(q, m)) = n + 1
  BY LenProperties, AppendProperties
<1>3. to \in Value /\ last \in Value
  <2>1. to \in Value
    BY <1>1, <1>2
  <2>2. m.value \in Value /\ m.source[Name] \in Value
    BY PropertyAssumption DEF Message, Settings
  <2> QED BY <2>1, <2>2 DEF After
<1> DEFINE g == [k \in 1 .. n + 2 |-> IF k = n + 2 THEN last ELSE h[k]]
<1>4. g \in [1 .. Len(Append(q, m)) + 1 -> Value]
  <2>1. \A k \in 1 .. n + 2 : k # n + 2 => k \in 1 .. n + 1
    BY <1>2
  <2> HIDE DEF last
  <2>2. g \in [1 .. n + 2 -> Value]
    BY <2>1, <1>1, <1>2, <1>3
  <2> QED BY <2>2, <1>2
<1>5. /\ \A k \in 1 .. n : Append(q, m)[k] = q[k]
      /\ Append(q, m)[n + 1] = m
  BY AppendProperties
<1>6. g[n + 2] = last /\ \A k \in 1 .. n + 1 : g[k] = h[k]
  BY <1>2
<1> HIDE DEF g, last
<1>7. g[1] = from /\ g[Len(Append(q, m)) + 1] = last
  BY <1>1, <1>2, <1>6
<1>8. IsHistory(g, Append(q, m))
  <2> SUFFICES ASSUME NEW k \in 1 .. n + 1
               PROVE  g[k + 1] = IF Append(q, m)[k].info = "service"
                                   THEN After(Append(q, m)[k]) ELSE g[k]
    BY <1>2 DEF IsHistory
  <2>1. CASE k = n + 1
    BY <2>1, <1>1, <1>2, <1>5, <1>6 DEF last
  <2>2. CASE k # n + 1
    <3>1. k \in 1 .. n /\ k + 1 \in 1 .. n + 1
      BY <2>2, <1>2
    <3>2. g[k + 1] = h[k + 1] /\ g[k] = h[k] /\ Append(q, m)[k] = q[k]
      BY <3>1, <1>5, <1>6
    <3> QED BY <3>1, <3>2, <1>1 DEF IsHistory
  <2> QED BY <2>1, <2>2
<1>9. AreFound(g, Append(q, m))
  <2> SUFFICES ASSUME NEW k \in 1 .. n + 1, Append(q, m)[k].info = "service"
               PROVE  Append(q, m)[k].source[Name] = g[k]
    BY <1>2 DEF AreFound
  <2>1. CASE k = n + 1
    BY <2>1, <1>1, <1>2, <1>5, <1>6
  <2>2. CASE k # n + 1
    <3>1. k \in 1 .. n
      BY <2>2, <1>2
    <3> QED BY <3>1, <1>1, <1>5, <1>6 DEF AreFound
  <2> QED BY <2>1, <2>2
<1> QED BY <1>4, <1>7, <1>8, <1>9 DEF Leads, last

\* A message less: the slave finds its service, and goes on from the next name.
LEMMA HistoryGoesOn ==
    ASSUME NEW q \in Seq(Message), q # <<>>, NEW from, NEW to, Leads(q, from, to)
    PROVE  /\ Head(q).info = "service" => Head(q).source[Name] = from
           /\ Leads(Tail(q), IF Head(q).info = "service" THEN After(Head(q)) ELSE from, to)
<1> DEFINE n == Len(q)
           next == IF Head(q).info = "service" THEN After(Head(q)) ELSE from
<1>1. PICK h \in [1 .. n + 1 -> Value] :
        h[1] = from /\ h[n + 1] = to /\ IsHistory(h, q) /\ AreFound(h, q)
  BY DEF Leads
<1>2. /\ n \in Nat \ {0} /\ Len(Tail(q)) = n - 1 /\ Head(q) = q[1]
      /\ \A k \in 1 .. n - 1 : Tail(q)[k] = q[k + 1]
  BY LenProperties, EmptySeq, HeadTailProperties
<1>3. h[2] = next /\ (Head(q).info = "service" => Head(q).source[Name] = from)
  <2>1. 1 \in 1 .. n
    BY <1>2
  <2> QED BY <2>1, <1>1, <1>2 DEF IsHistory, AreFound
<1> DEFINE g == [k \in 1 .. n |-> h[k + 1]]
<1>4. \A k \in 1 .. n : k + 1 \in 1 .. n + 1
  BY <1>2
<1>5. g \in [1 .. n -> Value]
  BY <1>1, <1>4
<1>6. \A k \in 1 .. n : g[k] = h[k + 1]
  OBVIOUS
<1> HIDE DEF g, next
<1>7. g[1] = next /\ g[Len(Tail(q)) + 1] = to /\ Len(Tail(q)) + 1 = n
  BY <1>1, <1>2, <1>3, <1>6
<1>8. ASSUME NEW k \in 1 .. n - 1
      PROVE  /\ k + 1 \in 1 .. n /\ Tail(q)[k] = q[k + 1]
             /\ g[k] = h[k + 1] /\ g[k + 1] = h[k + 1 + 1]
  <2>1. k \in 1 .. n /\ k + 1 \in 1 .. n
    BY <1>2
  <2> QED BY <2>1, <1>2, <1>6
<1>9. IsHistory(g, Tail(q)) /\ AreFound(g, Tail(q))
  BY <1>1, <1>2, <1>8 DEF IsHistory, AreFound
<1> QED BY <1>3, <1>5, <1>7, <1>9 DEF Leads, next

-----------------------------------------------------------------------------
\* One setting after some have changed.
LEMMA NameAfter ==
    ASSUME NEW s, NEW changed, NEW v
    PROVE  With(s, changed, v)[Name] = IF Name \in changed THEN v ELSE s[Name]
BY PropertyAssumption DEF With

\* A name that is stale stays so: nothing finds the service any more.
LEMMA NameStaysStale ==
    ASSUME TypeOK, [Next]_vars, <<"service", Name>> \in stale
    PROVE  <<"service", Name>> \in stale'
<1>1. ASSUME NEW t \in Thread, Send(t)
      PROVE  <<"service", Name>> \in stale'
  <2>1. job[t].info = "service" => Brought(job[t]) = {}
    BY DEF Brought
  <2> QED BY <1>1, <2>1 DEF Send
<1> QED BY <1>1 DEF Next, vars, Request, Proceed, Serialize, Commit, MessageLost,
                    OnMessage, ModifyGlobal, ModifyService, ModifyLogging, HandlerFails

\* The step of a thread that is alone: a request and what becomes of it.
LEMMA ThreadKeepsName ==
    ASSUME TypeOK, NameInStep, NEW t \in Thread, ~overlapped, Alone(t),
           <<"service", Name>> \notin stale, <<"service", Name>> \notin stale',
           \/ \E i \in Info, names \in Changes, inPlace \in SUBSET Parts :
                Request(t, i, names, inPlace)
           \/ Proceed(t)
    PROVE  JobInStep(t)' /\ Leads(queue, local["service"][Name], InTheEnd(t))'
<1> DEFINE m == job[t]
<1>1. JobInStep(t) /\ Leads(queue, local["service"][Name], InTheEnd(t))
  BY DEF NameInStep
<1>2. ASSUME NEW i \in Info, NEW names \in Changes, NEW inPlace \in SUBSET Parts,
             Request(t, i, names, inPlace)
      PROVE  JobInStep(t)' /\ Leads(queue, local["service"][Name], InTheEnd(t))'
  <2>1. config'["service"][Name] = config["service"][Name]
    <3>1. CASE i = "service"
      <4>1. config'["service"] = With(config["service"], inPlace, requests + 1) /\ inPlace = {}
        BY <1>2, <3>1 DEF Request, TypeOK
      <4> QED BY <4>1, NameAfter
    <3>2. CASE i # "service"
      BY <1>2, <3>2 DEF Request, TypeOK
    <3> QED BY <3>1, <3>2
  <2>2. pc[t] = "idle" /\ pc'[t] = "serialize" /\ queue' = queue /\ local' = local
    BY <1>2 DEF Request, TypeOK
  <2>3. InTheEnd(t)' = InTheEnd(t)
    BY <2>1, <2>2 DEF InTheEnd
  <2> QED BY <1>1, <2>2, <2>3 DEF JobInStep, Leads, IsHistory, AreFound
<1>3. ASSUME pc[t] # "idle"
      PROVE  m \in Message /\ m.names \in Changes /\ m.info \in Info
  BY <1>3 DEF TypeOK, Message
<1>4. CASE Serialize(t)
  <2>1. pc[t] = "serialize" /\ pc'[t] = "send" /\ queue' = queue /\ local' = local
    BY <1>4 DEF Serialize, TypeOK
  <2>2. job'[t].info = m.info /\ job'[t].source = config'[m.info]
    BY <1>4 DEF Serialize, TypeOK
  <2>3. config'["service"][Name] = config["service"][Name]
    <3>1. CASE m.info = "service"
      <4>1. config'["service"] = With(config["service"], {}, m.value)
        BY <1>3, <1>4, <2>1, <3>1 DEF Serialize, TypeOK
      <4> QED BY <4>1, NameAfter
    <3>2. CASE m.info # "service"
      BY <1>4, <3>2 DEF Serialize, TypeOK
    <3> QED BY <3>1, <3>2
  <2>4. InTheEnd(t)' = InTheEnd(t)
    BY <2>1, <2>3 DEF InTheEnd
  <2> QED BY <1>1, <2>1, <2>2, <2>4 DEF JobInStep, Leads, IsHistory, AreFound
<1>5. CASE Send(t)
  <2>1. /\ pc[t] = "send" /\ pc'[t] = "commit"
        /\ queue' = Append(queue, m) /\ UNCHANGED <<local, job, config>>
    BY <1>5 DEF Send, TypeOK
  <2>2. m.info = "service" => (Name \in Range(m.names) => Name \in Applied(m.names))
    <3> SUFFICES ASSUME m.info = "service", Name \in Range(m.names)
                 PROVE  Name \in Applied(m.names)
      OBVIOUS
    <3>1. Name \notin Missed(m)
      BY <1>5 DEF Send
    <3> QED BY <3>1 DEF Missed, Brought, Copied
  <2>3. InTheEnd(t) = config["service"][Name]
    BY <2>1 DEF InTheEnd
  <2>4. InTheEnd(t)' = IF m.info = "service" THEN After(m) ELSE InTheEnd(t)
    BY <2>1, <2>3 DEF InTheEnd, After
  <2>5. m.info = "service" => m.source[Name] = InTheEnd(t)
    BY <1>1, <2>1, <2>3 DEF JobInStep
  <2>6. Leads(Append(queue, m), local["service"][Name],
              IF m.info = "service" THEN After(m) ELSE InTheEnd(t))
    <3>1. queue \in Seq(Message) /\ m \in Message
      BY <1>3, <2>1 DEF TypeOK
    <3> HIDE DEF m
    <3> QED BY <1>1, <2>5, <3>1, HistoryGrows
  <2>7. Leads(queue, local["service"][Name], InTheEnd(t))'
    BY <2>1, <2>4, <2>6 DEF Leads, IsHistory, AreFound, After
  <2>8. JobInStep(t)'
    BY <1>1, <2>1, <2>2 DEF JobInStep, Applied
  <2> QED BY <2>7, <2>8
<1>6. CASE Commit(t)
  <2>1. /\ pc[t] = "commit" /\ pc'[t] = "idle" /\ UNCHANGED <<queue, local>>
        /\ job'[t] = NoJob
    BY <1>6 DEF Commit, TypeOK
  <2>2. config'["service"][Name] = InTheEnd(t)
    <3>1. CASE m.info = "service"
      <4>1. config'["service"] = With(config["service"], Range(m.names), m.value)
        BY <1>6, <3>1, <1>3, <2>1 DEF Commit, TypeOK
      <4>2. config'["service"][Name]
              = IF Name \in Range(m.names) THEN m.value ELSE config["service"][Name]
        BY <4>1, NameAfter
      <4>3. Name \in Range(m.names) <=> Name \in Applied(m.names)
        BY <1>1, <1>3, <2>1, <3>1, AppliedIsChanged DEF JobInStep
      <4>4. m.source[Name] = config["service"][Name]
        BY <1>1, <2>1, <3>1 DEF JobInStep
      <4> QED BY <2>1, <3>1, <4>2, <4>3, <4>4 DEF InTheEnd, After
    <3>2. CASE m.info # "service"
      <4>1. config'["service"] = config["service"]
        BY <1>6, <3>2 DEF Commit, TypeOK
      <4> QED BY <3>2, <4>1 DEF InTheEnd
    <3> QED BY <3>1, <3>2
  <2>3. InTheEnd(t)' = InTheEnd(t)
    BY <2>1, <2>2 DEF InTheEnd
  <2>4. JobInStep(t)'
    BY <2>1 DEF JobInStep, NoJob
  <2> QED BY <1>1, <2>1, <2>3, <2>4 DEF Leads, IsHistory, AreFound
<1>7. CASE MessageLost(t)
  <2>1. /\ pc[t] = "send" /\ pc'[t] = "commit" /\ UNCHANGED <<queue, local, job, config>>
    BY <1>7 DEF MessageLost, TypeOK
  <2>2. m.info = "service" => Name \notin Range(m.names)
    BY <1>7 DEF MessageLost
  <2>3. m.info = "service" => After(m) = config["service"][Name]
    BY <1>1, <1>3, <2>1, <2>2, AppliedIsChanged DEF JobInStep, After
  <2>4. InTheEnd(t)' = InTheEnd(t)
    BY <2>1, <2>3 DEF InTheEnd, After
  <2>5. JobInStep(t)'
    BY <1>1, <2>1, <2>2 DEF JobInStep
  <2> QED BY <1>1, <2>1, <2>4, <2>5 DEF Leads, IsHistory, AreFound
<1> QED BY <1>2, <1>4, <1>5, <1>6, <1>7 DEF Proceed

\* A step of the slave: it finds the service, or has lost a change that left the
\* name alone.
LEMMA SlaveKeepsName ==
    ASSUME TypeOK, NameInStep, NEW t \in Thread, ~overlapped, Alone(t),
           <<"service", Name>> \notin stale, <<"service", Name>> \notin stale', OnMessage \/ HandlerFails
    PROVE  JobInStep(t)' /\ Leads(queue, local["service"][Name], InTheEnd(t))'
<1> DEFINE m == Head(queue)
           next == IF m.info = "service" THEN After(m) ELSE local["service"][Name]
<1>1. JobInStep(t) /\ Leads(queue, local["service"][Name], InTheEnd(t))
  BY DEF NameInStep
<1>2. /\ queue # <<>> /\ queue' = Tail(queue) /\ UNCHANGED <<config, pc, job>>
  BY DEF OnMessage, ModifyGlobal, ModifyService, ModifyLogging, Handle, HandlerFails
<1>3. /\ m.info = "service" => m.source[Name] = local["service"][Name]
      /\ Leads(Tail(queue), next, InTheEnd(t))
  BY <1>1, <1>2, HistoryGoesOn DEF TypeOK
<1>4. m \in Message /\ m.names \in Changes
  <2>1. m \in Message
    BY <1>2, QueueTypes DEF TypeOK
  <2> QED BY <2>1 DEF Message
<1>5. local'["service"][Name] = next
  <2>1. CASE ModifyService
    <3>1. local' = [local EXCEPT !["service"] = With(@, Applied(m.names), m.value)]
          /\ m.info = "service"
      BY <2>1, <1>3 DEF ModifyService, Handle, Found
    <3>2. local'["service"] = With(local["service"], Applied(m.names), m.value)
      BY <3>1 DEF TypeOK, Info
    <3> QED BY <3>1, <3>2, <1>3, NameAfter DEF After
  <2>2. CASE ModifyGlobal \/ ModifyLogging
    <3>1. m.info # "service" /\ local'["service"] = local["service"]
      BY <2>2 DEF ModifyGlobal, ModifyLogging, Handle, TypeOK, Info
    <3> QED BY <3>1
  <2>3. CASE HandlerFails
    <3>1. m.info = "service" => Name \notin Range(m.names)
      BY <2>3 DEF HandlerFails
    <3>2. m.info = "service" => After(m) = local["service"][Name]
      BY <3>1, <1>3, <1>4, AppliedIsChanged DEF After
    <3> QED BY <2>3, <3>2 DEF HandlerFails
  <2> QED BY <2>1, <2>2, <2>3 DEF OnMessage
<1>6. InTheEnd(t)' = InTheEnd(t)
  BY <1>2 DEF InTheEnd, After, Applied
<1>7. Leads(queue, local["service"][Name], InTheEnd(t))'
  <2> HIDE DEF next
  <2> QED BY <1>2, <1>3, <1>5, <1>6 DEF Leads, IsHistory, AreFound, After
<1>8. JobInStep(t)'
  BY <1>1, <1>2 DEF JobInStep
<1> QED BY <1>7, <1>8

\* While no two requests overlap, the thread that is busy is alone.
LEMMA StaysAlone ==
    ASSUME TypeOK, OneAtATime, [Next]_vars, ~overlapped'
    PROVE  /\ ~overlapped
           /\ OneAtATime'
           /\ \A t \in Thread :
                \/ \E i \in Info, names \in Changes, inPlace \in SUBSET Parts :
                     Request(t, i, names, inPlace)
                \/ Proceed(t)
                => Alone(t) /\ \A u \in Thread : u # t => pc'[u] = pc[u] /\ job'[u] = job[u]
<1>1. ASSUME NEW t \in Thread, NEW i \in Info, NEW names \in Changes,
             NEW inPlace \in SUBSET Parts, Request(t, i, names, inPlace)
      PROVE  /\ ~overlapped /\ Alone(t) /\ Alone(t)'
             /\ \A u \in Thread : u # t => pc'[u] = pc[u] /\ job'[u] = job[u]
  <2>1. ~overlapped /\ \A u \in Thread : pc[u] = "idle"
    BY <1>1 DEF Request
  <2>2. \A u \in Thread : u # t => pc'[u] = pc[u] /\ job'[u] = job[u]
    BY <1>1 DEF Request, TypeOK
  <2> QED BY <2>1, <2>2 DEF Alone
<1>2. ASSUME NEW t \in Thread, Proceed(t)
      PROVE  /\ ~overlapped /\ Alone(t) /\ Alone(t)'
             /\ \A u \in Thread : u # t => pc'[u] = pc[u] /\ job'[u] = job[u]
  <2>1. pc[t] # "idle" /\ overlapped' = overlapped
    BY <1>2 DEF Proceed, Serialize, Send, Commit, MessageLost
  <2>2. \A u \in Thread : u # t => pc'[u] = pc[u] /\ job'[u] = job[u]
    BY <1>2 DEF Proceed, Serialize, Send, Commit, MessageLost, TypeOK
  <2> QED BY <2>1, <2>2 DEF Alone, OneAtATime
<1>3. ASSUME OnMessage \/ HandlerFails \/ UNCHANGED vars
      PROVE  UNCHANGED <<pc, overlapped>>
  BY <1>3 DEF OnMessage, ModifyGlobal, ModifyService, ModifyLogging, Handle, HandlerFails, vars
<1>4. ~overlapped
  BY <1>1, <1>2, <1>3 DEF Next
<1>5. OneAtATime'
  <2>1. ASSUME NEW t \in Thread, Alone(t)', NEW u \in Thread, pc'[u] # "idle"
        PROVE  Alone(u)'
    BY <2>1 DEF Alone
  <2> QED BY <1>1, <1>2, <1>3, <2>1 DEF Next, OneAtATime, Alone
<1> QED BY <1>1, <1>2, <1>4, <1>5

\* The invariant.
LEMMA NameInStepHolds == Spec => [](OneAtATime /\ NameInStep)
<1>1. Init => OneAtATime /\ NameInStep
  <2> SUFFICES ASSUME Init, NEW t \in Thread
               PROVE  JobInStep(t) /\ Leads(queue, local["service"][Name], InTheEnd(t))
    BY DEF NameInStep, OneAtATime, Init
  <2>1. JobInStep(t)
    BY DEF Init, JobInStep, NoJob
  <2>2. queue = <<>> /\ local["service"][Name] = 0 /\ InTheEnd(t) = 0
    BY PropertyAssumption DEF Init, InTheEnd, Info
  <2> DEFINE h == [k \in 1 .. Len(queue) + 1 |-> 0]
  <2>3. Len(queue) = 0
    BY <2>2, EmptySeq
  <2>4. h \in [1 .. Len(queue) + 1 -> Value] /\ h[1] = 0 /\ h[Len(queue) + 1] = 0
    BY <2>3, PropertyAssumption DEF Value
  <2>5. IsHistory(h, queue) /\ AreFound(h, queue)
    BY <2>3 DEF IsHistory, AreFound
  <2> HIDE DEF h
  <2>6. Leads(queue, local["service"][Name], InTheEnd(t))
    BY <2>2, <2>4, <2>5 DEF Leads
  <2> QED BY <2>1, <2>6
<1>2. TypeOK /\ OneAtATime /\ NameInStep /\ [Next]_vars => OneAtATime' /\ NameInStep'
  <2> SUFFICES ASSUME TypeOK, OneAtATime, NameInStep, [Next]_vars, ~overlapped',
                      NEW u \in Thread, Alone(u)', <<"service", Name>> \notin stale'
               PROVE  JobInStep(u)' /\ Leads(queue, local["service"][Name], InTheEnd(u))'
    BY StaysAlone DEF NameInStep, OneAtATime
  <2>1. <<"service", Name>> \notin stale /\ ~overlapped
    BY NameStaysStale, StaysAlone
  <2>2. CASE UNCHANGED vars
    <3>1. Alone(u)
      BY <2>2 DEF Alone, vars
    <3>2. JobInStep(u) /\ Leads(queue, local["service"][Name], InTheEnd(u))
      BY <2>1, <3>1 DEF NameInStep
    <3> QED BY <2>2, <3>2 DEF vars, JobInStep, InTheEnd, Leads, IsHistory, AreFound, After
  <2>3. CASE OnMessage \/ HandlerFails
    <3>1. pc' = pc
      BY <2>3 DEF OnMessage, ModifyGlobal, ModifyService, ModifyLogging, Handle, HandlerFails
    <3>2. Alone(u)
      BY <3>1 DEF Alone
    <3> QED BY <2>1, <2>3, <3>2, SlaveKeepsName
  <2>4. ASSUME NEW t \in Thread,
               \/ \E i \in Info, names \in Changes, inPlace \in SUBSET Parts :
                    Request(t, i, names, inPlace)
               \/ Proceed(t)
        PROVE  JobInStep(u)' /\ Leads(queue, local["service"][Name], InTheEnd(u))'
    <3>1. Alone(t) /\ \A v \in Thread : v # t => pc'[v] = pc[v] /\ job'[v] = job[v]
      BY <2>4, StaysAlone
    <3>2. JobInStep(t)' /\ Leads(queue, local["service"][Name], InTheEnd(t))'
      BY <2>1, <2>4, <3>1, ThreadKeepsName
    <3>3. CASE u # t
      <4>1. pc'[t] = "idle" /\ pc'[u] = "idle"
        BY <3>1, <3>3 DEF Alone
      <4>2. job'[u] = NoJob
        BY <3>1, <3>3, <4>1 DEF TypeOK
      <4>3. JobInStep(u)'
        BY <4>2 DEF JobInStep, NoJob
      <4>4. InTheEnd(u)' = InTheEnd(t)'
        BY <4>1 DEF InTheEnd
      <4> QED BY <3>2, <4>3, <4>4 DEF Leads, IsHistory, AreFound
    <3> QED BY <3>2, <3>3
  <2> QED BY <2>2, <2>3, <2>4 DEF Next
<1> QED BY <1>1, <1>2, ConfigurationTypeCorrect, PTL DEF Spec

\* While no two requests overlap, the slave finds the service of every message
\* whatever else is lost or fails, unless a change of the name itself went missing;
\* for any properties, threads and any number of messages on their way.
THEOREM ServicesAreFound == Spec => []FindsService
<1>1. TypeOK /\ OneAtATime /\ NameInStep => FindsService
  <2> SUFFICES ASSUME TypeOK, OneAtATime, NameInStep, queue # <<>>,
                      Head(queue).info = "service", <<"service", Name>> \notin stale, ~overlapped
               PROVE  Head(queue).source[Name] = local["service"][Name]
    BY DEF FindsService, Found
  <2>1. PICK t \in Thread : Alone(t)
    <3>1. CASE \E t \in Thread : pc[t] # "idle"
      BY <3>1 DEF OneAtATime
    <3>2. CASE \A t \in Thread : pc[t] = "idle"
      BY <3>2, PropertyAssumption DEF Alone
    <3> QED BY <3>1, <3>2
  <2>2. Leads(queue, local["service"][Name], InTheEnd(t))
    BY <2>1 DEF NameInStep
  <2> QED BY <2>2, HistoryGoesOn DEF TypeOK
<1> QED BY <1>1, ConfigurationTypeCorrect, NameInStepHolds, PTL

-----------------------------------------------------------------------------
\* A message sets property p of the settings i, and to what.
Touches(m, i, p) == m.info = i /\ p \in Applied(m.names) \cup Copied(i)

Brings(m, p) == IF p \in Copied(m.info) THEN m.source[p] ELSE m.value

\* After the messages q the property will have the value "to": the last one that
\* sets it does so, or none does and the slave has the value already.
Delivers(q, i, p, from, to) ==
    \/ from = to /\ \A k \in 1 .. Len(q) : ~Touches(q[k], i, p)
    \/ \E k \in 1 .. Len(q) :
         /\ Touches(q[k], i, p)
         /\ Brings(q[k], p) = to
         /\ \A l \in k + 1 .. Len(q) : ~Touches(q[l], i, p)

\* Threads that have told the slave of a change of p, and will make it.
Committing(i, p) ==
    {t \in Thread : pc[t] = "commit" /\ job[t].info = i /\ p \in Range(job[t].names)}

\* A message about i is to come, with all that is copied.
Preparing(i) == \E t \in Thread : pc[t] \in {"serialize", "send"} /\ job[t].info = i

\* What the slave will have of a property that does not lag.  A copied one may be
\* changed in place before its message is sent; any other one is changed by the one
\* thread whose message is sent, and if there are two, the first to commit gives it up.
InStep(i, p) ==
    IF p \in Copied(i)
      THEN ~Preparing(i) => Delivers(queue, i, p, local[i][p], config[i][p])
      ELSE /\ Committing(i, p) = {} => Delivers(queue, i, p, local[i][p], config[i][p])
           /\ \A t \in Thread :
                Committing(i, p) = {t} => Delivers(queue, i, p, local[i][p], job[t].value)

SettingsInStep == \A i \in Info, p \in Property : <<i, p>> \notin stale => InStep(i, p)

\* The same of the next state, with the values it is about.
LEMMA InStepNext ==
    ASSUME NEW i, NEW p
    PROVE  InStep(i, p)' =
             IF p \in Copied(i)
               THEN ~Preparing(i)' => Delivers(queue', i, p, local'[i][p], config'[i][p])
               ELSE /\ Committing(i, p)' = {}
                         => Delivers(queue', i, p, local'[i][p], config'[i][p])
                    /\ \A t \in Thread :
                         Committing(i, p)' = {t}
                           => Delivers(queue', i, p, local'[i][p], job'[t].value)
BY DEF InStep, Copied, Delivers, Touches, Brings, Applied

\* One message more sets the property anew, or leaves what is delivered.
LEMMA DeliversMore ==
    ASSUME NEW q \in Seq(Message), NEW m \in Message, NEW i, NEW p, NEW from, NEW to
    PROVE  /\ Touches(m, i, p) => Delivers(Append(q, m), i, p, from, Brings(m, p))
           /\ ~Touches(m, i, p) /\ Delivers(q, i, p, from, to)
                => Delivers(Append(q, m), i, p, from, to)
<1> DEFINE n == Len(q)
           r == Append(q, m)
<1>1. n \in Nat /\ Len(r) = n + 1 /\ r[n + 1] = m /\ \A k \in 1 .. n : r[k] = q[k]
  BY LenProperties, AppendProperties
<1> HIDE DEF n, r
<1>2. ASSUME Touches(m, i, p)
      PROVE  Delivers(r, i, p, from, Brings(m, p))
  <2>1. n + 1 \in 1 .. Len(r) /\ Touches(r[n + 1], i, p) /\ Brings(r[n + 1], p) = Brings(m, p)
    BY <1>1, <1>2
  <2>2. \A l \in (n + 1) + 1 .. Len(r) : ~Touches(r[l], i, p)
    BY <1>1
  <2> QED BY <2>1, <2>2 DEF Delivers
<1>3. ASSUME ~Touches(m, i, p), Delivers(q, i, p, from, to)
      PROVE  Delivers(r, i, p, from, to)
  <2>1. \A k \in 1 .. Len(r) : k \in 1 .. n \/ k = n + 1
    BY <1>1
  <2>2. CASE from = to /\ \A k \in 1 .. n : ~Touches(q[k], i, p)
    <3>1. \A k \in 1 .. Len(r) : ~Touches(r[k], i, p)
      BY <1>1, <1>3, <2>1, <2>2
    <3> QED BY <2>2, <3>1 DEF Delivers
  <2>3. ASSUME NEW k \in 1 .. n, Touches(q[k], i, p), Brings(q[k], p) = to,
               \A l \in k + 1 .. n : ~Touches(q[l], i, p)
        PROVE  Delivers(r, i, p, from, to)
    <3>1. k \in 1 .. Len(r) /\ r[k] = q[k]
      BY <1>1, <2>3
    <3>2. ASSUME NEW l \in k + 1 .. Len(r)
          PROVE  ~Touches(r[l], i, p)
      <4>1. CASE l = n + 1
        BY <1>1, <1>3, <4>1
      <4>2. CASE l # n + 1
        <5>1. l \in k + 1 .. n /\ l \in 1 .. n
          BY <1>1, <4>2
        <5> QED BY <1>1, <2>3, <5>1
      <4> QED BY <4>1, <4>2
    <3> QED BY <2>3, <3>1, <3>2 DEF Delivers
  <2> QED BY <1>3, <2>2, <2>3 DEF Delivers, n
<1> QED BY <1>2, <1>3 DEF r

\* The first message handled, the others deliver the same.
LEMMA DeliversRest ==
    ASSUME NEW q \in Seq(Message), q # <<>>, NEW i, NEW p, NEW from, NEW to,
           Delivers(q, i, p, from, to)
    PROVE  Delivers(Tail(q), i, p,
                    IF Touches(Head(q), i, p) THEN Brings(Head(q), p) ELSE from, to)
<1> DEFINE n == Len(q)
           r == Tail(q)
           next == IF Touches(Head(q), i, p) THEN Brings(Head(q), p) ELSE from
<1>1. n \in Nat \ {0} /\ Len(r) = n - 1 /\ Head(q) = q[1]
  BY LenProperties, HeadTailProperties, EmptySeq
<1>2. \A k \in 1 .. n - 1 : r[k] = q[k + 1]
  BY HeadTailProperties
<1> HIDE DEF n, r, next
<1>3. CASE from = to /\ \A k \in 1 .. n : ~Touches(q[k], i, p)
  <2>1. \A k \in 1 .. n - 1 : k + 1 \in 1 .. n
    BY <1>1
  <2>2. next = to
    BY <1>1, <1>3 DEF next
  <2>3. \A k \in 1 .. Len(r) : ~Touches(r[k], i, p)
    BY <1>1, <1>2, <1>3, <2>1
  <2> QED BY <2>2, <2>3 DEF Delivers, next, r
<1>4. ASSUME NEW k \in 1 .. n, Touches(q[k], i, p), Brings(q[k], p) = to,
             \A l \in k + 1 .. n : ~Touches(q[l], i, p)
      PROVE  Delivers(r, i, p, next, to)
  <2>1. \A l \in k .. n - 1 : ~Touches(r[l], i, p)
    <3>1. \A l \in k .. n - 1 : l \in 1 .. n - 1 /\ l + 1 \in k + 1 .. n
      BY <1>1, <1>4
    <3> QED BY <1>2, <1>4, <3>1
  <2>2. CASE k = 1
    <3>1. next = to
      BY <1>1, <1>4, <2>2 DEF next
    <3>2. \A l \in 1 .. Len(r) : ~Touches(r[l], i, p)
      BY <1>1, <2>1, <2>2
    <3> QED BY <3>1, <3>2 DEF Delivers
  <2>3. CASE k # 1
    <3>1. k - 1 \in 1 .. n - 1 /\ (k - 1) + 1 = k
      BY <1>1, <1>4, <2>3
    <3>2. r[k - 1] = q[k] /\ k - 1 \in 1 .. Len(r)
      BY <1>1, <1>2, <3>1
    <3>3. \A l \in (k - 1) + 1 .. Len(r) : ~Touches(r[l], i, p)
      BY <1>1, <2>1, <3>1
    <3> QED BY <1>4, <3>2, <3>3 DEF Delivers
  <2> QED BY <2>2, <2>3
<1> QED BY <1>3, <1>4 DEF Delivers, next, r, n

\* A step of the slave brings what the message says, or makes the property lag.
LEMMA SlaveBrings ==
    ASSUME TypeOK, OnMessage \/ HandlerFails, NEW i \in Info, NEW p \in Property,
           <<i, p>> \notin stale'
    PROVE  /\ <<i, p>> \notin stale
           /\ local'[i][p] = IF Touches(Head(queue), i, p) THEN Brings(Head(queue), p)
                                                           ELSE local[i][p]
<1> DEFINE m == Head(queue)
<1>1. m \in Message /\ queue # <<>>
  BY QueueTypes DEF TypeOK, OnMessage, ModifyGlobal, ModifyService, ModifyLogging, Handle,
                    HandlerFails
<1>2. m.names \in Changes /\ m.info \in Info /\ m.source \in Settings
  BY <1>1 DEF Message
<1>3. Applied(m.names) \subseteq Range(m.names)
  BY <1>2, AppliedIsChanged
<1>4. <<i, p>> \notin stale
  BY DEF OnMessage, ModifyGlobal, ModifyService, ModifyLogging, HandlerFails
<1>5. CASE ModifyGlobal
  <2>1. m.info = "global"
        /\ local' = [local EXCEPT !["global"] =
                       Overlaid(With(local["global"], Applied(m.names), m.value), Parts, m.source)]
    BY <1>5 DEF ModifyGlobal, Handle
  <2>2. CASE i # "global"
    <3>1. local'[i] = local[i]
      BY <2>1, <2>2 DEF TypeOK
    <3> QED BY <1>4, <2>1, <2>2, <3>1 DEF Touches
  <2>3. CASE i = "global"
    <3>1. local'[i] = Overlaid(With(local[i], Applied(m.names), m.value), Parts, m.source)
      BY <2>1, <2>3 DEF TypeOK
    <3>2. local'[i][p] = IF p \in Parts THEN m.source[p]
                         ELSE IF p \in Applied(m.names) THEN m.value ELSE local[i][p]
      BY <3>1 DEF Overlaid, With
    <3> QED BY <1>4, <2>1, <2>3, <3>2 DEF Touches, Brings, Copied
  <2> QED BY <2>2, <2>3
<1>6. CASE ModifyService
  <2>1. m.info = "service"
    BY <1>6 DEF ModifyService, Handle
  <2>2. CASE i # "service"
    <3>1. local'[i] = local[i]
      BY <1>6, <2>2 DEF TypeOK, ModifyService
    <3> QED BY <1>4, <2>1, <2>2, <3>1 DEF Touches
  <2>3. CASE i = "service" /\ Found(m)
    <3>1. local'[i] = With(local[i], Applied(m.names), m.value)
      BY <1>6, <2>3 DEF TypeOK, ModifyService
    <3>2. local'[i][p] = IF p \in Applied(m.names) THEN m.value ELSE local[i][p]
      BY <3>1 DEF With
    <3> QED BY <1>4, <2>1, <2>3, <3>2 DEF Touches, Brings, Copied
  <2>4. CASE i = "service" /\ ~Found(m)
    <3>1. p \notin Range(m.names) /\ local' = local
      BY <1>6, <2>4 DEF ModifyService
    <3>2. p \notin Applied(m.names)
      BY <1>3, <3>1
    <3> QED BY <1>4, <2>4, <3>1, <3>2 DEF Touches, Copied
  <2> QED BY <2>2, <2>3, <2>4
<1>7. CASE ModifyLogging
  <2>1. m.info = "logging" /\ local' = [local EXCEPT !["logging"] = m.source]
    BY <1>7 DEF ModifyLogging, Handle
  <2>2. CASE i # "logging"
    <3>1. local'[i] = local[i]
      BY <2>1, <2>2 DEF TypeOK
    <3> QED BY <1>4, <2>1, <2>2, <3>1 DEF Touches
  <2>3. CASE i = "logging"
    <3>1. local'[i] = m.source
      BY <2>1, <2>3 DEF TypeOK
    <3> QED BY <1>4, <2>1, <2>3, <3>1 DEF Touches, Brings, Copied
  <2> QED BY <2>2, <2>3
<1>8. CASE HandlerFails
  <2>1. local' = local /\ ~(m.info = i /\ p \in Range(m.names) \cup Copied(i))
    BY <1>8 DEF HandlerFails
  <2>2. ~Touches(m, i, p)
    BY <1>3, <2>1 DEF Touches
  <2> QED BY <1>4, <2>1, <2>2
<1> QED BY <1>5, <1>6, <1>7, <1>8 DEF OnMessage

\* The other threads stay where they are.
LEMMA OthersStay ==
    ASSUME TypeOK, NEW t \in Thread,
           \/ \E i \in Info, names \in Changes, inPlace \in SUBSET Parts :
                Request(t, i, names, inPlace)
           \/ Proceed(t)
    PROVE  \A u \in Thread : u # t => pc'[u] = pc[u] /\ job'[u] = job[u]
BY DEF TypeOK, Request, Proceed, Serialize, Send, Commit, MessageLost

\* A step of a thread that neither starts nor ends in the middle of the commit of p,
\* sends nothing that sets p and leaves the value of the master.
LEMMA StepAside ==
    ASSUME NEW t \in Thread, NEW i \in Info, NEW p \in Property, InStep(i, p), TypeOK,
           \A u \in Thread : u # t => pc'[u] = pc[u] /\ job'[u] = job[u],
           p \in Copied(i) /\ Preparing(i) => Preparing(i)',
           t \notin Committing(i, p), t \notin Committing(i, p)',
           config'[i][p] = config[i][p],
           local' = local,
           \/ queue' = queue
           \/ \E m \in Message : queue' = Append(queue, m) /\ ~Touches(m, i, p)
    PROVE  InStep(i, p)'
<1>1. ASSUME NEW to, Delivers(queue, i, p, local[i][p], to)
      PROVE  Delivers(queue', i, p, local'[i][p], to)
  <2>1. queue \in Seq(Message)
    BY DEF TypeOK
  <2> QED BY <1>1, <2>1, DeliversMore
<1>2. Committing(i, p)' = Committing(i, p)
  BY DEF Committing
<1>3. CASE p \in Copied(i)
  <2>1. ~Preparing(i)' => Delivers(queue', i, p, local'[i][p], config'[i][p])
    BY <1>1, <1>3 DEF InStep
  <2> QED BY <1>3, <2>1, InStepNext
<1>4. CASE p \notin Copied(i)
  <2>1. Committing(i, p)' = {} => Delivers(queue', i, p, local'[i][p], config'[i][p])
    BY <1>1, <1>2, <1>4 DEF InStep
  <2>2. ASSUME NEW u \in Thread, Committing(i, p)' = {u}
        PROVE  Delivers(queue', i, p, local'[i][p], job'[u].value)
    <3>1. u # t /\ Committing(i, p) = {u}
      BY <1>2, <2>2
    <3>2. job'[u] = job[u] /\ Delivers(queue, i, p, local[i][p], job[u].value)
      BY <1>4, <3>1 DEF InStep
    <3> QED BY <1>1, <3>2
  <2> QED BY <1>4, <2>1, <2>2, InStepNext
<1> QED BY <1>3, <1>4

\* The types of a message a thread has.
LEMMA JobTypes ==
    ASSUME TypeOK, NEW t \in Thread, pc[t] # "idle"
    PROVE  /\ job[t] \in Message /\ job[t].info \in Info /\ job[t].names \in Changes
           /\ Applied(job[t].names) \subseteq Range(job[t].names)
<1>1. job[t] \in Message
  BY DEF TypeOK
<1>2. job[t].info \in Info /\ job[t].names \in Changes
  BY <1>1 DEF Message
<1> QED BY <1>1, <1>2, AppliedIsChanged

\* A request changes in place only what its message copies.
LEMMA RequestInStep ==
    ASSUME TypeOK, SettingsInStep, NEW t \in Thread, NEW i0 \in Info, NEW names \in Changes,
           NEW inPlace \in SUBSET Parts, Request(t, i0, names, inPlace),
           NEW i \in Info, NEW p \in Property, <<i, p>> \notin stale'
    PROVE  InStep(i, p)'
<1>1. /\ pc[t] = "idle" /\ pc'[t] = "serialize" /\ job'[t].info = i0
      /\ stale' = stale /\ queue' = queue /\ local' = local
      /\ config'[i0] = With(config[i0], inPlace, requests + 1)
      /\ i # i0 => config'[i] = config[i]
      /\ inPlace # {} => i0 = "global"
  BY DEF Request, TypeOK
<1>2. InStep(i, p)
  BY <1>1 DEF SettingsInStep
<1>3. \A u \in Thread : u # t => pc'[u] = pc[u] /\ job'[u] = job[u]
  BY OthersStay
<1>4. CASE i = i0 /\ p \in Copied(i)
  <2>1. Preparing(i)'
    BY <1>1, <1>4 DEF Preparing
  <2> QED BY <1>4, <2>1, InStepNext
<1>5. CASE ~(i = i0 /\ p \in Copied(i))
  <2>1. config'[i][p] = config[i][p]
    <3>1. i = i0 => p \notin inPlace
      BY <1>1, <1>5 DEF Copied
    <3> QED BY <1>1, <3>1 DEF With
  <2>2. Preparing(i) => Preparing(i)'
    BY <1>1, <1>3 DEF Preparing
  <2>3. t \notin Committing(i, p) /\ t \notin Committing(i, p)'
    BY <1>1 DEF Committing
  <2> QED BY <1>1, <1>2, <1>3, <2>1, <2>2, <2>3, StepAside
<1> QED BY <1>4, <1>5

\* So does a message that is made.
LEMMA SerializeInStep ==
    ASSUME TypeOK, SettingsInStep, NEW t \in Thread, Serialize(t),
           NEW i \in Info, NEW p \in Property, <<i, p>> \notin stale'
    PROVE  InStep(i, p)'
<1> DEFINE m == job[t]
           changed == IF m.info = "logging" THEN Applied(m.names) ELSE {}
<1>1. /\ pc[t] = "serialize" /\ pc'[t] = "send" /\ job'[t].info = m.info
      /\ stale' = stale /\ queue' = queue /\ local' = local
  BY DEF Serialize, TypeOK
<1>2. m.info \in Info
  BY <1>1, JobTypes
<1>3. /\ config'[m.info] = With(config[m.info], changed, m.value)
      /\ i # m.info => config'[i] = config[i]
  BY <1>2 DEF Serialize, TypeOK
<1>4. InStep(i, p)
  BY <1>1 DEF SettingsInStep
<1>5. \A u \in Thread : u # t => pc'[u] = pc[u] /\ job'[u] = job[u]
  BY OthersStay DEF Proceed
<1>6. CASE i = m.info /\ p \in Copied(i)
  <2>1. Preparing(i)'
    BY <1>1, <1>6 DEF Preparing
  <2> QED BY <1>6, <2>1, InStepNext
<1>7. CASE ~(i = m.info /\ p \in Copied(i))
  <2>1. config'[i][p] = config[i][p]
    <3>1. i = m.info => changed = {}
      BY <1>7 DEF Copied
    <3> HIDE DEF changed
    <3> QED BY <1>3, <3>1 DEF With
  <2>2. Preparing(i) => Preparing(i)'
    BY <1>1, <1>5 DEF Preparing
  <2>3. t \notin Committing(i, p) /\ t \notin Committing(i, p)'
    BY <1>1 DEF Committing
  <2> QED BY <1>1, <1>4, <1>5, <2>1, <2>2, <2>3, StepAside
<1> QED BY <1>6, <1>7

\* A message that is sent delivers what the master has or will commit.
LEMMA SendInStep ==
    ASSUME TypeOK, SettingsInStep, NEW t \in Thread, Send(t),
           NEW i \in Info, NEW p \in Property, <<i, p>> \notin stale'
    PROVE  InStep(i, p)'
<1> DEFINE m == job[t]
<1>1. /\ pc[t] = "send" /\ pc'[t] = "commit" /\ job' = job
      /\ queue' = Append(queue, m) /\ local' = local /\ config' = config
      /\ stale' = (stale \ ({m.info} \X Brought(m))) \cup ({m.info} \X Missed(m))
  BY DEF Send, TypeOK
<1>2. /\ m \in Message /\ m.info \in Info /\ m.names \in Changes
      /\ Applied(m.names) \subseteq Range(m.names)
  BY <1>1, JobTypes
<1>3. \A u \in Thread : u # t => pc'[u] = pc[u] /\ job'[u] = job[u]
  BY OthersStay DEF Proceed
<1>4. i = m.info => p \notin Missed(m)
  BY <1>1
<1>5. queue \in Seq(Message)
  BY DEF TypeOK
<1>6. CASE i = m.info /\ p \in Copied(i)
  <2>1. m.source[p] = config[i][p]
    BY <1>4, <1>6 DEF Missed, Brought
  <2>2. Touches(m, i, p) /\ Brings(m, p) = config[i][p]
    BY <1>6, <2>1 DEF Touches, Brings
  <2>3. Delivers(Append(queue, m), i, p, local[i][p], config[i][p])
    BY <1>2, <1>5, <2>2, DeliversMore
  <2> QED BY <1>1, <1>6, <2>3, InStepNext
<1>7. CASE i = m.info /\ p \notin Copied(i) /\ p \in Range(m.names)
  <2>1. p \in Brought(m)
    BY <1>4, <1>7 DEF Missed
  <2>2. Touches(m, i, p) /\ Brings(m, p) = m.value
    BY <1>7, <2>1 DEF Touches, Brings, Brought
  <2>3. Delivers(Append(queue, m), i, p, local[i][p], m.value)
    BY <1>2, <1>5, <2>2, DeliversMore
  <2>4. t \in Committing(i, p)'
    BY <1>1, <1>7 DEF Committing
  <2>5. Committing(i, p)' # {} /\ \A u \in Thread : Committing(i, p)' = {u} => u = t
    BY <2>4
  <2> QED BY <1>1, <1>7, <2>3, <2>5, InStepNext
<1>8. CASE ~(i = m.info /\ p \in Range(m.names) \cup Copied(i))
  <2>1. ~Touches(m, i, p)
    BY <1>2, <1>8 DEF Touches
  <2>2. <<i, p>> \notin stale
    <3>1. i = m.info => p \notin Brought(m)
      BY <1>2, <1>8 DEF Brought
    <3> QED BY <1>1, <3>1
  <2>3. InStep(i, p)
    BY <2>2 DEF SettingsInStep
  <2>4. t \notin Committing(i, p) /\ t \notin Committing(i, p)'
    BY <1>1, <1>8 DEF Committing
  <2>5. p \in Copied(i) /\ Preparing(i) => Preparing(i)'
    BY <1>1, <1>3, <1>8 DEF Preparing
  <2> QED BY <1>1, <1>2, <1>3, <2>1, <2>3, <2>4, <2>5, StepAside
<1> QED BY <1>6, <1>7, <1>8

\* A commit makes the change that was delivered, or another thread has sent one.
LEMMA CommitInStep ==
    ASSUME TypeOK, SettingsInStep, NEW t \in Thread, Commit(t),
           NEW i \in Info, NEW p \in Property, <<i, p>> \notin stale'
    PROVE  InStep(i, p)'
<1> DEFINE m == job[t]
<1>1. /\ pc[t] = "commit" /\ pc'[t] = "idle" /\ queue' = queue /\ local' = local
      /\ stale' = stale \cup ({m.info} \X Overtaken(t))
  BY DEF Commit, TypeOK
<1>2. m.info \in Info /\ m.names \in Changes
  BY <1>1, JobTypes
<1>3. /\ config'[m.info] = With(config[m.info], Range(m.names), m.value)
      /\ i # m.info => config'[i] = config[i]
  BY <1>2 DEF Commit, TypeOK
<1>4. \A u \in Thread : u # t => pc'[u] = pc[u] /\ job'[u] = job[u]
  BY OthersStay DEF Proceed
<1>5. InStep(i, p)
  BY <1>1 DEF SettingsInStep
<1>6. i = m.info => p \notin Overtaken(t)
  BY <1>1
<1>7. t \notin Committing(i, p)'
  BY <1>1 DEF Committing
<1>8. CASE p \in Copied(i)
  <2>1. config'[i][p] = config[i][p]
    <3>1. CASE i = m.info /\ p \in Range(m.names)
      BY <1>3, <1>6, <1>8, <3>1 DEF Overtaken, With
    <3>2. CASE ~(i = m.info /\ p \in Range(m.names))
      BY <1>3, <3>2 DEF With
    <3> QED BY <3>1, <3>2
  <2>2. Preparing(i) => Preparing(i)'
    BY <1>1, <1>4 DEF Preparing
  <2>3. ~Preparing(i)' => Delivers(queue', i, p, local'[i][p], config'[i][p])
    BY <1>1, <1>5, <1>8, <2>1, <2>2 DEF InStep
  <2> QED BY <1>8, <2>3, InStepNext
<1>9. CASE p \notin Copied(i) /\ i = m.info /\ p \in Range(m.names)
  <2>1. \A u \in Thread : u # t => u \notin Committing(i, p)
    BY <1>6, <1>9 DEF Overtaken, Committing
  <2>2. Committing(i, p) = {t}
    BY <1>1, <1>9, <2>1 DEF Committing
  <2>3. Delivers(queue, i, p, local[i][p], m.value)
    BY <1>5, <1>9, <2>2 DEF InStep
  <2>4. config'[i][p] = m.value
    BY <1>3, <1>9 DEF With
  <2>5. \A u \in Thread : u \notin Committing(i, p)'
    BY <1>4, <1>7, <2>1 DEF Committing
  <2>6. Committing(i, p)' = {}
    BY <2>5 DEF Committing
  <2>7. Delivers(queue', i, p, local'[i][p], config'[i][p])
    BY <1>1, <2>3, <2>4
  <2>8. \A u \in Thread : Committing(i, p)' # {u}
    BY <2>6
  <2> QED BY <1>9, <2>7, <2>8, InStepNext
<1>10. CASE p \notin Copied(i) /\ ~(i = m.info /\ p \in Range(m.names))
  <2>1. config'[i][p] = config[i][p]
    BY <1>3, <1>10 DEF With
  <2>2. t \notin Committing(i, p)
    BY <1>10 DEF Committing
  <2> QED BY <1>1, <1>4, <1>5, <1>7, <1>10, <2>1, <2>2, StepAside
<1> QED BY <1>8, <1>9, <1>10

\* Of a message that is lost everything lags.
LEMMA LossInStep ==
    ASSUME TypeOK, SettingsInStep, NEW t \in Thread, MessageLost(t),
           NEW i \in Info, NEW p \in Property, <<i, p>> \notin stale'
    PROVE  InStep(i, p)'
<1> DEFINE m == job[t]
<1>1. /\ pc[t] = "send" /\ pc'[t] = "commit" /\ job' = job
      /\ queue' = queue /\ local' = local /\ config' = config
      /\ stale' = stale \cup ({m.info} \X (Range(m.names) \cup Copied(m.info)))
  BY DEF MessageLost, TypeOK
<1>2. \A u \in Thread : u # t => pc'[u] = pc[u] /\ job'[u] = job[u]
  BY OthersStay DEF Proceed
<1>3. InStep(i, p) /\ ~(i = m.info /\ p \in Range(m.names) \cup Copied(i))
  BY <1>1 DEF SettingsInStep
<1>4. t \notin Committing(i, p) /\ t \notin Committing(i, p)'
  BY <1>1, <1>3 DEF Committing
<1>5. p \in Copied(i) /\ Preparing(i) => Preparing(i)'
  BY <1>1, <1>2, <1>3 DEF Preparing
<1> QED BY <1>1, <1>2, <1>3, <1>4, <1>5, StepAside

\* The slave works off what was sent.
LEMMA SlaveInStep ==
    ASSUME TypeOK, SettingsInStep, OnMessage \/ HandlerFails,
           NEW i \in Info, NEW p \in Property, <<i, p>> \notin stale'
    PROVE  InStep(i, p)'
<1> DEFINE next == IF Touches(Head(queue), i, p) THEN Brings(Head(queue), p) ELSE local[i][p]
<1>1. queue # <<>> /\ queue' = Tail(queue) /\ UNCHANGED <<config, pc, job>>
  BY DEF OnMessage, ModifyGlobal, ModifyService, ModifyLogging, Handle, HandlerFails
<1>2. <<i, p>> \notin stale /\ local'[i][p] = next
  BY SlaveBrings
<1>3. InStep(i, p)
  BY <1>2 DEF SettingsInStep
<1>4. ASSUME NEW to, Delivers(queue, i, p, local[i][p], to)
      PROVE  Delivers(Tail(queue), i, p, next, to)
  BY <1>1, <1>4, DeliversRest DEF TypeOK
<1> HIDE DEF next
<1>5. ASSUME NEW to, Delivers(queue, i, p, local[i][p], to)
      PROVE  Delivers(queue', i, p, local'[i][p], to)
  BY <1>1, <1>2, <1>4, <1>5
<1>6. Committing(i, p)' = Committing(i, p) /\ Preparing(i)' = Preparing(i)
  BY <1>1 DEF Committing, Preparing
<1>7. /\ p \in Copied(i) /\ ~Preparing(i) => Delivers(queue', i, p, local'[i][p], config[i][p])
      /\ p \notin Copied(i) /\ Committing(i, p) = {}
           => Delivers(queue', i, p, local'[i][p], config[i][p])
      /\ \A t \in Thread : p \notin Copied(i) /\ Committing(i, p) = {t}
           => Delivers(queue', i, p, local'[i][p], job[t].value)
  BY <1>3, <1>5 DEF InStep
<1> QED BY <1>1, <1>6, <1>7, InStepNext

\* The invariant.
LEMMA SettingsInStepHolds == Spec => []SettingsInStep
<1>1. Init => SettingsInStep
  <2> SUFFICES ASSUME Init, NEW i \in Info, NEW p \in Property
               PROVE  InStep(i, p)
    BY DEF SettingsInStep
  <2>1. Len(queue) = 0 /\ local[i][p] = config[i][p]
    BY EmptySeq DEF Init
  <2>2. Delivers(queue, i, p, local[i][p], config[i][p])
    BY <2>1 DEF Delivers
  <2>3. Committing(i, p) = {}
    BY DEF Committing, Init
  <2> QED BY <2>2, <2>3 DEF InStep
<1>2. TypeOK /\ SettingsInStep /\ [Next]_vars => SettingsInStep'
  <2> SUFFICES ASSUME TypeOK, SettingsInStep, [Next]_vars,
                      NEW i \in Info, NEW p \in Property, <<i, p>> \notin stale'
               PROVE  InStep(i, p)'
    BY DEF SettingsInStep
  <2>1. CASE UNCHANGED vars
    <3>1. InStep(i, p)
      BY <2>1 DEF vars, SettingsInStep
    <3>2. Committing(i, p)' = Committing(i, p) /\ Preparing(i)' = Preparing(i)
      BY <2>1 DEF vars, Committing, Preparing
    <3>3. queue' = queue /\ local' = local /\ config' = config /\ job' = job
      BY <2>1 DEF vars
    <3> QED BY <3>1, <3>2, <3>3, InStepNext DEF InStep
  <2> QED BY <2>1, RequestInStep, SerializeInStep, SendInStep, CommitInStep, LossInStep,
             SlaveInStep DEF Next, Proceed
<1> QED BY <1>1, <1>2, ConfigurationTypeCorrect, PTL DEF Spec

\* When nothing is on its way the slave has every setting of the master, but for those
\* that lag, whatever threads overlap and whatever is lost; for any properties and
\* any number of threads and changes.
THEOREM SettingsSettleAlike == Spec => []SettingsAlike
<1>1. TypeOK /\ SettingsInStep => SettingsAlike
  <2> SUFFICES ASSUME TypeOK, SettingsInStep, queue = <<>>, \A t \in Thread : pc[t] = "idle",
                      NEW i \in Info, NEW p \in Property, <<i, p>> \notin stale
               PROVE  local[i][p] = config[i][p]
    BY DEF SettingsAlike
  <2>1. ~Preparing(i) /\ Committing(i, p) = {}
    BY DEF Preparing, Committing
  <2>2. Delivers(queue, i, p, local[i][p], config[i][p])
    BY <2>1 DEF SettingsInStep, InStep
  <2>3. Len(queue) = 0
    BY EmptySeq
  <2> QED BY <2>2, <2>3 DEF Delivers
<1> QED BY <1>1, ConfigurationTypeCorrect, SettingsInStepHolds, PTL

=============================================================================
