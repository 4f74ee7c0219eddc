----------------------- MODULE StyleReplicationProofs -----------------------
(***************************************************************************)
(* Proofs about StyleReplication: types, that in the end the slave has the *)
(* styles and the files of the master, and that without failure or overlap *)
(* the file of a style comes before the style.  Both invariants are about  *)
(* what is on its way: the messages in the queue and the one the slave     *)
(* works on.  "Leads" and "Delivers" say what they will make of a style    *)
(* and of a file; a step of a thread adds a message at the end, a step of  *)
(* the slave takes one from the front.                                     *)
(***************************************************************************)
EXTENDS StyleReplication, SequenceTheorems, TLAPS

Control == {"idle", "options", "notify", "file", "event", "commit", "purge"}

\* The part of the types that is about the request threads.
ThreadsOK ==
    /\ pc \in [Thread -> Control]
    /\ job \in [Thread -> Job \cup {NoJob}]
    /\ \A t \in Thread : (pc[t] = "idle") = (job[t] = NoJob)

LEMMA OptionValues == "unset" \in Option /\ "unset" # "true"
BY DEF Option

\* What is sent of a file was read of it before.
HasRead == \A t \in Thread : pc[t] = "file" => job[t].body \in Body

\* A thread that has something to do is told from one that has not.
LEMMA NoJobIsNone ==
    ASSUME NEW j \in Job
    PROVE  j # NoJob
BY DEF Job, NoJob

LEMMA NoMessageIsNone ==
    ASSUME NEW m \in Message
    PROVE  m # NoMessage
BY DEF Message, Event, NoMessage

\* What a busy thread works on.
LEMMA BusyThread ==
    ASSUME TypeOK, NEW t \in Thread, pc[t] # "idle"
    PROVE  /\ job[t] \in Job
           /\ job[t].event \in Event
           /\ job[t].event.type \in {"add", "edit", "modify", "remove"}
           /\ job[t].event.style \in Style
           /\ job[t].event.file \in File
           /\ job[t].event.purge \in Option
           /\ job[t].source \in File
           /\ job[t].body \in Body \cup {Absent}
<1>1. job[t] \in Job
  BY DEF TypeOK
<1>2. job[t].event \in Event /\ job[t].source \in File /\ job[t].body \in Body \cup {Absent}
  BY <1>1 DEF Job
<1> QED BY <1>1, <1>2 DEF Event

\* What a message is about.
LEMMA MessageParts ==
    ASSUME NEW m \in Message
    PROVE  /\ m.type \in {"file", "add", "edit", "modify", "remove"}
           /\ m.file \in File
           /\ m.type = "file" => m.body \in Body
           /\ m.type # "file" => m.style \in Style /\ m.purge \in Option
BY DEF Message, Event

\* The rest of a queue of messages, and one message more.
LEMMA QueueTypes ==
    ASSUME NEW q \in Seq(Message)
    PROVE  /\ \A m \in Message : Append(q, m) \in Seq(Message)
           /\ q # <<>> => Head(q) \in Message /\ Tail(q) \in Seq(Message)
BY HeadTailProperties, AppendProperties

\* A thread goes on or is finished.
LEMMA GotoTypes ==
    ASSUME TypeOK, NEW t \in Thread, pc[t] # "idle", NEW label \in Control \ {"idle"},
           Goto(t, label)
    PROVE  ThreadsOK'
BY DEF TypeOK, ThreadsOK, Goto, Control

LEMMA FinishTypes ==
    ASSUME TypeOK, NEW t \in Thread, Finish(t)
    PROVE  ThreadsOK'
BY DEF TypeOK, ThreadsOK, Finish, Control

LEMMA AfterEventTypes ==
    ASSUME TypeOK, NEW t \in Thread, pc[t] # "idle", AfterEvent(t)
    PROVE  ThreadsOK'
<1>1. CASE Goto(t, "commit") \/ Goto(t, "purge")
  <2>1. "commit" \in Control \ {"idle"} /\ "purge" \in Control \ {"idle"}
    BY DEF Control
  <2> QED BY <1>1, <2>1, GotoTypes
<1>2. CASE Finish(t)
  BY <1>2, FinishTypes
<1> QED BY <1>1, <1>2 DEF AfterEvent

-----------------------------------------------------------------------------
\* A request begins.
LEMMA BeginTypes ==
    ASSUME TypeOK, NEW t \in Thread, NEW type \in {"add", "edit", "modify", "remove"},
           NEW n \in Style, NEW f \in File, NEW purge \in Option, Begin(t, type, n, f, purge)
    PROVE  /\ ThreadsOK'
           /\ requests' \in 0 .. MaxInputs /\ requests + 2 \in Body
           /\ overlapped' \in BOOLEAN
           /\ UNCHANGED <<replica, copy, hand, queue, faults>>
           /\ properties' \in Option /\ parameters' \in [Thread -> Option]
<1> DEFINE e == [type |-> type, style |-> n, file |-> f, purge |-> purge]
           j == [event |-> e, source |-> IF style[n] = Absent THEN f ELSE style[n],
                 body |-> Absent]
<1>1. style[n] \in File \cup {Absent}
  BY DEF TypeOK
<1>2. e \in Event
  BY DEF Event
<1>3. j \in Job
  BY <1>1, <1>2 DEF Job
<1>4. pc' = [pc EXCEPT ![t] = "options"] /\ job' = [job EXCEPT ![t] = j]
  BY DEF Begin
<1>5. j # NoJob
  BY <1>3, NoJobIsNone
<1>6. ThreadsOK'
  <2> HIDE DEF j
  <2> QED BY <1>3, <1>4, <1>5 DEF TypeOK, ThreadsOK, Control
<1>7. requests' \in 0 .. MaxInputs /\ requests + 2 \in Body
  BY StyleAssumption DEF TypeOK, Begin, Body
<1>8. overlapped' \in BOOLEAN
  BY DEF TypeOK, Begin
<1>9. properties' \in Option /\ parameters' \in [Thread -> Option]
  BY DEF TypeOK, Begin
<1> QED BY <1>6, <1>7, <1>8, <1>9 DEF Begin, slave

LEMMA RequestTypes ==
    ASSUME TypeOK, NEW t \in Thread, Request(t)
    PROVE  TypeOK'
<1>1. ASSUME NEW f \in File, Write(f), requests + 2 \in Body
      PROVE  file' \in [File -> Body \cup {Absent}]
  BY <1>1 DEF Write, TypeOK
<1>2. ASSUME NEW n \in Style, NEW f \in File, RequestAdd(t, n, f)
      PROVE  TypeOK'
  <2>1. Begin(t, "add", n, f, "unset")
    BY <1>2 DEF RequestAdd
  <2>2. /\ ThreadsOK'
        /\ requests' \in 0 .. MaxInputs /\ requests + 2 \in Body
        /\ overlapped' \in BOOLEAN
        /\ UNCHANGED <<replica, copy, hand, queue, faults>>
        /\ properties' \in Option /\ parameters' \in [Thread -> Option]
    BY <2>1, OptionValues, BeginTypes
  <2>3. file' \in [File -> Body \cup {Absent}]
    BY <1>1, <1>2, <2>2 DEF RequestAdd, TypeOK
  <2>4. style' \in [Style -> File \cup {Absent}] /\ astray' = astray
    BY <1>2 DEF RequestAdd, TypeOK
  <2> QED BY <2>2, <2>3, <2>4 DEF TypeOK, ThreadsOK, Control
<1>3. ASSUME NEW n \in Style, RequestEdit(t, n)
      PROVE  TypeOK'
  <2>1. Begin(t, "edit", n, style[n], "unset") /\ style[n] \in File
    BY <1>3 DEF RequestEdit, TypeOK
  <2>2. /\ ThreadsOK'
        /\ requests' \in 0 .. MaxInputs /\ requests + 2 \in Body
        /\ overlapped' \in BOOLEAN
        /\ UNCHANGED <<replica, copy, hand, queue, faults>>
        /\ properties' \in Option /\ parameters' \in [Thread -> Option]
    BY <2>1, OptionValues, BeginTypes
  <2>3. file' \in [File -> Body \cup {Absent}]
    BY <1>1, <1>3, <2>1, <2>2 DEF RequestEdit
  <2>4. style' = style /\ astray' = astray
    BY <1>3 DEF RequestEdit
  <2> QED BY <2>2, <2>3, <2>4 DEF TypeOK, ThreadsOK, Control
<1>4. ASSUME NEW n \in Style, NEW f \in File, RequestFilename(t, n, f)
      PROVE  TypeOK'
  <2>1. Begin(t, "modify", n, f, "unset")
    BY <1>4 DEF RequestFilename
  <2>2. /\ ThreadsOK'
        /\ requests' \in 0 .. MaxInputs /\ requests + 2 \in Body
        /\ overlapped' \in BOOLEAN
        /\ UNCHANGED <<replica, copy, hand, queue, faults>>
        /\ properties' \in Option /\ parameters' \in [Thread -> Option]
    BY <2>1, OptionValues, BeginTypes
  <2>3. file' \in [File -> Body \cup {Absent}]
    BY <1>1, <1>4, <2>2 DEF RequestFilename, TypeOK
  <2>4. style' = style /\ astray' \subseteq Style \cup File
    BY <1>4 DEF RequestFilename, TypeOK
  <2> QED BY <2>2, <2>3, <2>4 DEF TypeOK, ThreadsOK, Control
<1>5. ASSUME NEW n \in Style, NEW purge \in Option, RequestRemove(t, n, purge)
      PROVE  TypeOK'
  <2>1. Begin(t, "remove", n, style[n], purge) /\ style[n] \in File
    BY <1>5 DEF RequestRemove, TypeOK
  <2>2. /\ ThreadsOK'
        /\ requests' \in 0 .. MaxInputs
        /\ overlapped' \in BOOLEAN
        /\ UNCHANGED <<replica, copy, hand, queue, faults>>
        /\ properties' \in Option /\ parameters' \in [Thread -> Option]
    BY <2>1, OptionValues, BeginTypes
  <2>3. style' \in [Style -> File \cup {Absent}] /\ astray' = astray /\ file' = file
    BY <1>5 DEF RequestRemove, TypeOK
  <2> QED BY <2>2, <2>3 DEF TypeOK, ThreadsOK, Control
<1> QED BY <1>2, <1>3, <1>4, <1>5 DEF Request

\* What may go astray are styles and files.
LEMMA AstrayTypes ==
    ASSUME TypeOK, NEW t \in Thread, pc[t] # "idle"
    PROVE  /\ Undone(t) \subseteq Style \cup File
           /\ Concerned(job[t].event) \subseteq Style \cup File
           /\ Mispurged(t) \subseteq Style \cup File
           /\ Settling(t) \subseteq Style \cup File
           /\ SourceFile(t) \in File
<1>1. job[t].event.type # "file"
  BY BusyThread
<1>2. style[job[t].event.style] \in File \cup {Absent}
  BY BusyThread DEF TypeOK
<1>3. Mispurged(t) \subseteq Style \cup File
  BY BusyThread DEF Mispurged
<1>4. Settling(t) \subseteq Style \cup File
  BY BusyThread DEF Settling, TypeOK
<1> QED BY <1>1, <1>2, <1>3, <1>4, BusyThread DEF Undone, Concerned, SourceFile

\* An event goes out with the option the properties hold.
LEMMA EventSent ==
    ASSUME TypeOK, NEW t \in Thread, PublishEvent(t)
    PROVE  \E m \in Message :
             /\ m.type = job[t].event.type /\ m.style = job[t].event.style
             /\ m.file = job[t].event.file /\ m.purge = properties
             /\ queue' = Append(queue, m)
<1> DEFINE m == [job[t].event EXCEPT !.purge = properties]
<1>1. job[t].event \in Event /\ properties \in Option
  BY BusyThread DEF PublishEvent, TypeOK
<1>2. m \in Event /\ m.type = job[t].event.type /\ m.style = job[t].event.style
      /\ m.file = job[t].event.file /\ m.purge = properties
  BY <1>1 DEF Event
<1>3. queue' = Append(queue, m)
  BY DEF PublishEvent
<1> HIDE DEF m
<1> QED BY <1>2, <1>3 DEF Message

\* The types are kept by the listener of the master.
LEMMA ProceedTypes ==
    ASSUME TypeOK, HasRead, NEW t \in Thread, Proceed(t)
    PROVE  TypeOK'
<1>1. pc[t] # "idle"
  BY DEF Proceed, UpdateProperties, Notify, PublishFile, PublishEvent, Commit, Purge
<1> USE <1>1
<1>2. CASE Notify(t)
  <2>1. CASE Goto(t, "event") /\ UNCHANGED astray
    <3>1. ThreadsOK'
      <4>1. "event" \in Control \ {"idle"}
        BY DEF Control
      <4> QED BY <2>1, <4>1, GotoTypes
    <3> QED BY <1>2, <2>1, <3>1 DEF Notify, TypeOK, ThreadsOK, Control, slave, options
  <2>2. CASE ReadFile(t) /\ file[SourceFile(t)] # Absent
    <3> DEFINE f == SourceFile(t)
               j == [job[t] EXCEPT !.source = f, !.body = file[f]]
    <3>1. f \in File /\ file[f] \in Body
      BY <2>2, AstrayTypes DEF TypeOK
    <3>2. pc' = [pc EXCEPT ![t] = "file"] /\ job' = [job EXCEPT ![t] = j]
      BY <2>2 DEF ReadFile
    <3>3. j \in Job
      BY <3>1, BusyThread DEF Job
    <3>4. astray' \subseteq Style \cup File
      BY <2>2, BusyThread DEF ReadFile, TypeOK
    <3>5. j # NoJob
      BY <3>3, NoJobIsNone
    <3> HIDE DEF j
    <3>6. ThreadsOK'
      BY <3>2, <3>3, <3>5 DEF TypeOK, ThreadsOK, Control
    <3> QED BY <1>2, <3>4, <3>6 DEF Notify, TypeOK, ThreadsOK, Control, slave, options
  <2>3. CASE Finish(t) /\ astray' = astray \cup Undone(t)
    BY <1>2, <2>3, FinishTypes, AstrayTypes DEF Notify, TypeOK, ThreadsOK, Control, slave, options
  <2> QED BY <1>2, <2>1, <2>2, <2>3 DEF Notify
<1>3. CASE PublishFile(t)
  <2> DEFINE m == [type |-> "file", file |-> job[t].source, body |-> job[t].body]
  <2>1. Goto(t, "event") /\ "event" \in Control \ {"idle"}
    BY <1>3 DEF PublishFile, Control
  <2>2. ThreadsOK'
    BY <2>1, GotoTypes
  <2>3. astray' \subseteq Style \cup File
    BY <1>3, BusyThread DEF PublishFile, TypeOK
  <2>4. m \in Message
    BY <1>3, BusyThread DEF Message, PublishFile, HasRead
  <2>5. queue' \in Seq(Message)
    BY <1>3, <2>4, QueueTypes DEF PublishFile, TypeOK
  <2> QED BY <1>3, <2>2, <2>3, <2>5 DEF PublishFile, TypeOK, ThreadsOK, Control, slave, options
<1>4. CASE PublishEvent(t)
  <2>1. ThreadsOK'
    BY <1>4, AfterEventTypes DEF PublishEvent
  <2>2. astray' \subseteq Style \cup File
    BY <1>4, AstrayTypes DEF PublishEvent
  <2>3. queue' \in Seq(Message)
    BY <1>4, EventSent, QueueTypes DEF TypeOK
  <2> QED BY <1>4, <2>1, <2>2, <2>3 DEF PublishEvent, TypeOK, ThreadsOK, Control, slave, options
<1>5. CASE Commit(t)
  <2>1. ThreadsOK'
    BY <1>5, FinishTypes DEF Commit
  <2>2. astray' \subseteq Style \cup File /\ style' \in [Style -> File \cup {Absent}]
    BY <1>5, BusyThread DEF Commit, TypeOK
  <2> QED BY <1>5, <2>1, <2>2 DEF Commit, TypeOK, ThreadsOK, Control, slave, options
<1>6. CASE Purge(t)
  <2>1. ThreadsOK'
    BY <1>6, FinishTypes DEF Purge
  <2> QED BY <1>6, <2>1 DEF Purge, TypeOK, ThreadsOK, Control, slave, options
<1>7. CASE UpdateProperties(t)
  <2>1. ThreadsOK'
    <3>1. "notify" \in Control \ {"idle"}
      BY DEF Control
    <3> QED BY <1>7, <3>1, GotoTypes DEF UpdateProperties
  <2>2. properties' \in Option
    BY <1>7 DEF UpdateProperties, TypeOK
  <2> QED BY <1>7, <2>1, <2>2 DEF UpdateProperties, TypeOK, ThreadsOK, Control, slave
<1> QED BY <1>2, <1>3, <1>4, <1>5, <1>6, <1>7 DEF Proceed

\* And by failures.
LEMMA FailureTypes ==
    ASSUME TypeOK, NEW t \in Thread, PublishFails(t) \/ MessageLost(t)
    PROVE  TypeOK'
<1>1. pc[t] # "idle" /\ faults' \in 0 .. MaxInputs
  BY StyleAssumption DEF PublishFails, MessageLost, Fault, TypeOK
<1>2. CASE PublishFails(t)
  <2>1. ThreadsOK'
    BY <1>2, FinishTypes DEF PublishFails
  <2>2. astray' \subseteq Style \cup File
    BY <1>1, <1>2, AstrayTypes DEF PublishFails, TypeOK
  <2> QED BY <1>1, <1>2, <2>1, <2>2 DEF PublishFails, TypeOK, ThreadsOK, Control, slave, options
<1>3. CASE MessageLost(t)
  <2>1. ThreadsOK'
    <3>1. CASE Goto(t, "event")
      <4>1. "event" \in Control \ {"idle"}
        BY DEF Control
      <4> QED BY <1>1, <3>1, <4>1, GotoTypes
    <3>2. CASE AfterEvent(t)
      BY <1>1, <3>2, AfterEventTypes
    <3> QED BY <1>3, <3>1, <3>2 DEF MessageLost
  <2>2. astray' \subseteq Style \cup File
    BY <1>1, <1>3, AstrayTypes, BusyThread DEF MessageLost, TypeOK
  <2> QED BY <1>1, <1>3, <2>1, <2>2 DEF MessageLost, TypeOK, ThreadsOK, Control, slave, options
<1> QED BY <1>2, <1>3

\* And by the slave.
LEMMA SlaveTypes ==
    ASSUME TypeOK, OnMessage \/ HandlerFails
    PROVE  TypeOK'
<1>1. hand.type \in {"file", "add", "edit", "modify", "remove"} => hand \in Message
  BY DEF TypeOK, NoMessage
<1>2. CASE Take
  BY <1>2, QueueTypes DEF Take, TypeOK, options
<1>3. CASE OpenFile
  BY <1>3 DEF OpenFile, TypeOK, options
<1>4. CASE WriteFile
  <2>1. hand.body \in Body
    BY <1>1, <1>4, MessageParts DEF WriteFile, Handled
  <2> QED BY <1>4, <2>1 DEF WriteFile, Handled, TypeOK, options
<1>5. CASE AddStyle
  <2>1. hand.file \in File
    BY <1>1, <1>5, MessageParts DEF AddStyle, Handled
  <2> QED BY <1>5, <2>1 DEF AddStyle, Handled, TypeOK, options
<1>6. CASE ModifyStyle
  <2>1. hand.file \in File
    BY <1>1, <1>6, MessageParts DEF ModifyStyle, Handled
  <2> QED BY <1>6, <2>1 DEF ModifyStyle, Handled, TypeOK, options
<1>7. CASE EditStyle
  BY <1>7 DEF EditStyle, Handled, TypeOK, options
<1>8. CASE RemoveStyle
  <2> DEFINE f == IF replica[hand.style] # Absent THEN replica[hand.style] ELSE hand.file
  <2>1. hand.file \in File /\ hand.style \in Style
    BY <1>1, <1>8, MessageParts DEF RemoveStyle, Handled
  <2>2. f \in File
    BY <2>1 DEF TypeOK
  <2>3. /\ copy' = IF hand.purge = "true" THEN [copy EXCEPT ![f] = Absent] ELSE copy
        /\ astray' = IF hand.purge = "true" /\ f # hand.file THEN astray \cup {f, hand.file} ELSE astray
        /\ replica' = [replica EXCEPT ![hand.style] = Absent]
    BY <1>8 DEF RemoveStyle
  <2> HIDE DEF f
  <2> QED BY <1>8, <2>1, <2>2, <2>3 DEF RemoveStyle, Handled, TypeOK, options
<1>9. CASE HandlerFails
  <2>1. hand \in Message
    BY <1>9 DEF HandlerFails, TypeOK, options
  <2>2. Concerned(hand) \subseteq Style \cup File
    BY <2>1, MessageParts DEF Concerned
  <2>3. faults' \in 0 .. MaxInputs
    BY <1>9, StyleAssumption DEF HandlerFails, Fault, TypeOK
  <2> QED BY <1>9, <2>2, <2>3 DEF HandlerFails, TypeOK, options
<1> QED BY <1>2, <1>3, <1>4, <1>5, <1>6, <1>7, <1>8, <1>9 DEF OnMessage

\* The other threads stay where they are.
LEMMA OthersStay ==
    ASSUME TypeOK, NEW t \in Thread,
           Request(t) \/ Proceed(t) \/ PublishFails(t) \/ MessageLost(t)
    PROVE  \A u \in Thread : u # t => pc'[u] = pc[u] /\ job'[u] = job[u]
<1>1. \A type, n, f, purge : Begin(t, type, n, f, purge) =>
        \A u \in Thread : u # t => pc'[u] = pc[u] /\ job'[u] = job[u]
  BY DEF Begin, TypeOK
<1>2. Request(t) => \A u \in Thread : u # t => pc'[u] = pc[u] /\ job'[u] = job[u]
  BY <1>1 DEF Request, RequestAdd, RequestEdit, RequestFilename, RequestRemove
<1>3. ASSUME (\E label : Goto(t, label)) \/ Finish(t) \/ ReadFile(t)
      PROVE  \A u \in Thread : u # t => pc'[u] = pc[u] /\ job'[u] = job[u]
  BY <1>3 DEF Goto, Finish, ReadFile, TypeOK
<1> QED BY <1>2, <1>3 DEF Proceed, UpdateProperties, Notify, PublishFile, PublishEvent, AfterEvent,
                          Commit, Purge, PublishFails, MessageLost

\* The slave leaves the threads of the master alone.
LEMMA ThreadsStay ==
    ASSUME OnMessage \/ HandlerFails
    PROVE  UNCHANGED <<pc, job, style, file, requests, overlapped>>
BY DEF OnMessage, Take, OpenFile, WriteFile, AddStyle, ModifyStyle, EditStyle, RemoveStyle,
       Handled, HandlerFails

LEMMA ReadBefore ==
    ASSUME TypeOK, HasRead, NEW t \in Thread,
           Request(t) \/ Proceed(t) \/ PublishFails(t) \/ MessageLost(t)
    PROVE  HasRead'
<1>1. pc'[t] = "file" => job'[t].body \in Body
  <2>1. ASSUME NEW type, NEW n, NEW f, NEW purge, Begin(t, type, n, f, purge)
        PROVE  pc'[t] # "file"
    BY <2>1 DEF Begin, TypeOK
  <2>2. Request(t) => pc'[t] # "file"
    BY <2>1 DEF Request, RequestAdd, RequestEdit, RequestFilename, RequestRemove
  <2>3. ASSUME NEW label \in {"notify", "event", "commit", "purge"}, Goto(t, label)
        PROVE  pc'[t] # "file"
    BY <2>3 DEF Goto, TypeOK
  <2>4. Finish(t) => pc'[t] # "file"
    BY DEF Finish, TypeOK
  <2>5. ASSUME ReadFile(t), file[SourceFile(t)] # Absent, pc[t] # "idle"
        PROVE  job'[t].body \in Body
    <3>1. file[SourceFile(t)] \in Body /\ job[t] \in Job
      BY <2>5, AstrayTypes, BusyThread DEF TypeOK
    <3>2. job'[t] = [job[t] EXCEPT !.source = SourceFile(t), !.body = file[SourceFile(t)]]
      BY <2>5 DEF ReadFile, TypeOK
    <3> QED BY <3>1, <3>2 DEF Job
  <2> QED BY <2>2, <2>3, <2>4, <2>5 DEF Proceed, UpdateProperties, Notify, PublishFile, PublishEvent,
                                        AfterEvent, Commit, Purge, PublishFails, MessageLost
<1> QED BY <1>1, OthersStay DEF HasRead

\* Types of styles, files, messages and requests, for any of them and any number of
\* threads; a thread has a job exactly while it is busy, and what it sends of a file is
\* what it has read.
LEMMA TypesHold == Spec => [](TypeOK /\ HasRead)
<1>1. Init => TypeOK /\ HasRead
  <2> SUFFICES ASSUME Init PROVE TypeOK /\ HasRead
    OBVIOUS
  <2>1. 1 \in Body
    BY StyleAssumption DEF Body
  <2>2. file \in [File -> Body \cup {Absent}] /\ copy \in [File -> Body \cup {Absent, Torn}]
    BY <2>1 DEF Init
  <2>3. requests \in 0 .. MaxInputs /\ faults \in 0 .. MaxInputs
    BY StyleAssumption DEF Init
  <2>4. overlapped \in BOOLEAN
    BY DEF Init
  <2>5. queue \in Seq(Message) /\ hand \in Message \cup {NoMessage} /\ astray \subseteq Style \cup File
    BY DEF Init
  <2>6. /\ pc \in [Thread -> {"idle", "options", "notify", "file", "event", "commit", "purge"}]
        /\ job \in [Thread -> Job \cup {NoJob}]
        /\ \A t \in Thread : (pc[t] = "idle") = (job[t] = NoJob)
    BY DEF Init
  <2>7. HasRead
    BY DEF Init, HasRead
  <2>8. properties \in Option /\ parameters \in [Thread -> Option]
    BY OptionValues DEF Init
  <2> QED BY <2>2, <2>3, <2>4, <2>5, <2>6, <2>7, <2>8 DEF Init, TypeOK
<1>2. TypeOK /\ HasRead /\ [Next]_vars => TypeOK' /\ HasRead'
  <2> SUFFICES ASSUME TypeOK, HasRead, [Next]_vars PROVE TypeOK' /\ HasRead'
    OBVIOUS
  <2>1. CASE UNCHANGED vars
    BY <2>1 DEF vars, options, TypeOK, HasRead
  <2>2. CASE OnMessage \/ HandlerFails
    BY <2>2, SlaveTypes, ThreadsStay DEF HasRead
  <2>3. ASSUME NEW t \in Thread, Request(t) \/ Proceed(t) \/ PublishFails(t) \/ MessageLost(t)
        PROVE  TypeOK' /\ HasRead'
    BY <2>3, RequestTypes, ProceedTypes, FailureTypes, ReadBefore
  <2> QED BY <2>1, <2>2, <2>3 DEF Next
<1> QED BY <1>1, <1>2, PTL DEF Spec

THEOREM StyleTypeCorrect == Spec => []TypeOK
BY TypesHold, PTL

-----------------------------------------------------------------------------
(***************************************************************************)
(* What is on its way to the slave, and what it will make of it.           *)
(***************************************************************************)
InTransit == (IF hand = NoMessage THEN <<>> ELSE <<hand>>) \o queue

\* The file of style n after a message, when it was f before.
Told(f, m, n) ==
    IF m.type \in {"file", "edit"} \/ m.style # n THEN f
    ELSE IF m.type = "remove" THEN Absent
    ELSE IF (m.type = "add") = (f = Absent) THEN m.file ELSE f

\* h[k]: the file of style n after k of the messages q, from the j-th on.
History(q, j) == [j .. Len(q) -> File \cup {Absent}]

IsHistory(h, q, j, n) == \A k \in j + 1 .. Len(q) : h[k] = Told(h[k - 1], q[k], n)

Removal(m, n) == m.type = "remove" /\ m.style = n

\* The messages make the file of style n, now "from", to "to".  What was before its
\* last removal does not matter.
Leads(q, n, from, to) ==
    \E j \in 0 .. Len(q) : \E h \in History(q, j) :
      /\ IF j = 0 THEN h[0] = from ELSE Removal(q[j], n) /\ h[j] = Absent
      /\ IsHistory(h, q, j, n)
      /\ h[Len(q)] = to

\* A message sets or deletes file f, and what it leaves.
Touches(m, f) == m.file = f /\ (m.type = "remove" => m.purge = "true") /\ m.type \in {"file", "remove"}

Brings(m) == IF m.type = "file" THEN m.body ELSE Absent

\* The same of a file: the last message that sets it counts.
Delivers(q, f, from, to) ==
    \/ from = to /\ \A k \in 1 .. Len(q) : ~Touches(q[k], f)
    \/ \E k \in 1 .. Len(q) :
         /\ Touches(q[k], f)
         /\ Brings(q[k]) = to
         /\ \A l \in k + 1 .. Len(q) : ~Touches(q[l], f)

\* The messages on their way are those in the queue and the one in the hand.
LEMMA TransitType ==
    ASSUME TypeOK
    PROVE  InTransit \in Seq(Message)
<1>1. hand # NoMessage => <<hand>> \in Seq(Message)
  BY DEF TypeOK
<1>2. <<>> \in Seq(Message) /\ queue \in Seq(Message)
  BY DEF TypeOK
<1> QED BY <1>1, <1>2, ConcatProperties DEF InTransit

LEMMA TransitGrows ==
    ASSUME TypeOK, NEW m \in Message, queue' = Append(queue, m), hand' = hand
    PROVE  InTransit' = Append(InTransit, m)
<1>1. \A h \in Message : <<h>> \o Append(queue, m) = Append(<<h>> \o queue, m)
  BY DEF TypeOK
<1>2. <<>> \o Append(queue, m) = Append(<<>> \o queue, m)
  BY DEF TypeOK
<1> QED BY <1>1, <1>2 DEF InTransit, TypeOK

LEMMA TransitTaken ==
    ASSUME TypeOK, Take
    PROVE  InTransit' = InTransit
<1>1. queue \in Seq(Message) /\ queue # <<>>
  BY DEF TypeOK, Take
<1>2. Head(queue) \in Message
  BY <1>1, QueueTypes
<1>3. Head(queue) # NoMessage
  BY <1>2, NoMessageIsNone
<1>4. InTransit' = <<Head(queue)>> \o Tail(queue) /\ InTransit = <<>> \o queue
  BY <1>3 DEF InTransit, Take
<1>5. <<Head(queue)>> \o Tail(queue) = queue /\ <<>> \o queue = queue
  BY <1>1
<1> QED BY <1>4, <1>5

LEMMA TransitHandled ==
    ASSUME TypeOK, hand # NoMessage
    PROVE  /\ InTransit # <<>>
           /\ Head(InTransit) = hand /\ Tail(InTransit) = queue
           /\ hand' = NoMessage /\ queue' = queue => InTransit' = Tail(InTransit)
<1>1. hand \in Message /\ queue \in Seq(Message)
  BY DEF TypeOK
<1>2. InTransit = <<hand>> \o queue
  BY DEF InTransit
<1>3. <<hand>> \o queue # <<>> /\ Head(<<hand>> \o queue) = hand /\ Tail(<<hand>> \o queue) = queue
  BY <1>1
<1>4. hand' = NoMessage /\ queue' = queue => InTransit' = <<>> \o queue
  BY DEF InTransit
<1>5. <<>> \o queue = queue
  BY <1>1
<1> QED BY <1>2, <1>3, <1>4, <1>5

\* A style has a file or none after a message.
LEMMA ToldType ==
    ASSUME NEW f \in File \cup {Absent}, NEW m \in Message, NEW n
    PROVE  Told(f, m, n) \in File \cup {Absent}
BY MessageParts DEF Told

\* A history goes on with one message more.
LEMMA HistoryGrows ==
    ASSUME NEW q \in Seq(Message), NEW m \in Message, NEW n, NEW j \in 0 .. Len(q),
           NEW h \in History(q, j), IsHistory(h, q, j, n)
    PROVE  \E g \in History(Append(q, m), j) :
             /\ \A k \in j .. Len(q) : g[k] = h[k]
             /\ g[Len(q) + 1] = Told(h[Len(q)], m, n)
             /\ IsHistory(g, Append(q, m), j, n)
<1> DEFINE l == Len(q)
           r == Append(q, m)
           last == Told(h[l], m, n)
           g == [k \in j .. l + 1 |-> IF k = l + 1 THEN last ELSE h[k]]
<1>1. l \in Nat /\ Len(r) = l + 1 /\ r[l + 1] = m /\ \A k \in 1 .. l : r[k] = q[k]
  BY LenProperties, AppendProperties
<1>2. h \in [j .. l -> File \cup {Absent}]
  BY DEF History
<1>3. last \in File \cup {Absent}
  <2>1. h[l] \in File \cup {Absent}
    BY <1>1, <1>2
  <2> QED BY <2>1, ToldType
<1> HIDE DEF last
<1>4. g \in [j .. l + 1 -> File \cup {Absent}]
  <2>1. \A k \in j .. l + 1 : k = l + 1 \/ k \in j .. l
    BY <1>1
  <2> QED BY <1>2, <1>3, <2>1
<1>5. (\A k \in j .. l : g[k] = h[k]) /\ g[l + 1] = last
  BY <1>1
<1> HIDE DEF g, l, r
<1>6. ASSUME NEW k \in j + 1 .. l + 1
      PROVE  g[k] = Told(g[k - 1], r[k], n)
  <2>1. k - 1 \in j .. l
    BY <1>1
  <2>2. CASE k = l + 1
    <3>1. g[k - 1] = h[l] /\ r[k] = m /\ g[k] = last
      BY <1>1, <1>5, <2>1, <2>2
    <3> QED BY <3>1 DEF last
  <2>3. CASE k # l + 1
    <3>1. k \in j + 1 .. l /\ k \in j .. l /\ k \in 1 .. l
      BY <1>1, <2>3
    <3>2. h[k] = Told(h[k - 1], q[k], n)
      BY <3>1 DEF IsHistory, l
    <3> QED BY <1>1, <1>5, <2>1, <3>1, <3>2
  <2> QED BY <2>2, <2>3
<1>7. g \in History(r, j) /\ IsHistory(g, r, j, n)
  BY <1>1, <1>4, <1>6 DEF History, IsHistory
<1> QED BY <1>5, <1>7 DEF l, r, last

\* And goes on without the first.
LEMMA HistoryGoesOn ==
    ASSUME NEW q \in Seq(Message), q # <<>>, NEW n, NEW i \in Nat, NEW j \in i .. i + 1,
           NEW h \in History(q, j), IsHistory(h, q, j, n), i < Len(q)
    PROVE  \E g \in History(Tail(q), i) :
             /\ \A k \in i .. Len(Tail(q)) : g[k] = h[k + 1]
             /\ IsHistory(g, Tail(q), i, n)
<1> DEFINE l == Len(q) - 1
           r == Tail(q)
           g == [k \in i .. l |-> h[k + 1]]
<1>1. Len(q) \in Nat \ {0} /\ l \in Nat /\ Len(r) = l /\ Len(q) = l + 1
  BY LenProperties, HeadTailProperties, EmptySeq
<1>2. \A k \in 1 .. l : r[k] = q[k + 1]
  BY HeadTailProperties
<1>3. h \in [j .. l + 1 -> File \cup {Absent}]
  BY <1>1 DEF History
<1>4. \A k \in i .. l : k + 1 \in j .. l + 1
  BY <1>1
<1>5. g \in [i .. l -> File \cup {Absent}] /\ \A k \in i .. l : g[k] = h[k + 1]
  BY <1>3, <1>4
<1> HIDE DEF g, l, r
<1>6. ASSUME NEW k \in i + 1 .. l
      PROVE  g[k] = Told(g[k - 1], r[k], n)
  <2>1. k \in i .. l /\ k - 1 \in i .. l /\ k \in 1 .. l /\ (k - 1) + 1 = k /\ (k + 1) - 1 = k
        /\ k + 1 \in j + 1 .. l + 1
    BY <1>1
  <2>2. h[k + 1] = Told(h[k], q[k + 1], n)
    BY <1>1, <2>1 DEF IsHistory
  <2>3. g[k] = h[k + 1] /\ g[k - 1] = h[k] /\ r[k] = q[k + 1]
    BY <1>2, <1>5, <2>1
  <2> QED BY <2>2, <2>3
<1>7. g \in History(r, i) /\ IsHistory(g, r, i, n)
  BY <1>1, <1>5, <1>6 DEF History, IsHistory
<1> QED BY <1>1, <1>5, <1>7 DEF r

\* A style will have the file the last message leaves.
LEMMA LeadsGrows ==
    ASSUME NEW q \in Seq(Message), NEW m \in Message, NEW n, NEW from, NEW to,
           Leads(q, n, from, to)
    PROVE  Leads(Append(q, m), n, from, Told(to, m, n))
<1> DEFINE r == Append(q, m)
<1>1. PICK j \in 0 .. Len(q) : \E h \in History(q, j) :
        /\ IF j = 0 THEN h[0] = from ELSE Removal(q[j], n) /\ h[j] = Absent
        /\ IsHistory(h, q, j, n)
        /\ h[Len(q)] = to
  BY DEF Leads
<1>2. PICK h \in History(q, j) :
        /\ IF j = 0 THEN h[0] = from ELSE Removal(q[j], n) /\ h[j] = Absent
        /\ IsHistory(h, q, j, n)
        /\ h[Len(q)] = to
  BY <1>1
<1>3. PICK g \in History(r, j) :
        /\ \A k \in j .. Len(q) : g[k] = h[k]
        /\ g[Len(q) + 1] = Told(h[Len(q)], m, n)
        /\ IsHistory(g, r, j, n)
  BY <1>2, HistoryGrows
<1>4. /\ Len(q) \in Nat /\ Len(r) = Len(q) + 1 /\ j \in 0 .. Len(r) /\ j \in j .. Len(q)
      /\ j # 0 => r[j] = q[j]
  BY LenProperties, AppendProperties
<1>5. /\ IF j = 0 THEN g[0] = from ELSE Removal(r[j], n) /\ g[j] = Absent
      /\ g[Len(r)] = Told(to, m, n)
  BY <1>2, <1>3, <1>4
<1> HIDE DEF r
<1> QED BY <1>3, <1>4, <1>5 DEF Leads, r

\* A removal leaves none, whatever was before.
LEMMA LeadsAfterRemoval ==
    ASSUME NEW q \in Seq(Message), NEW m \in Message, NEW n, NEW from, Removal(m, n)
    PROVE  Leads(Append(q, m), n, from, Absent)
<1> DEFINE l == Len(q) + 1
           r == Append(q, m)
           h == [k \in l .. l |-> Absent]
<1>1. Len(r) = l /\ l \in Nat \ {0} /\ r[l] = m
  BY LenProperties, AppendProperties
<1>2. h \in [l .. l -> File \cup {Absent}] /\ h[l] = Absent
  BY <1>1
<1> HIDE DEF h, l, r
<1>3. h \in History(r, l) /\ IsHistory(h, r, l, n)
  BY <1>1, <1>2 DEF History, IsHistory
<1>4. l \in 0 .. Len(r) /\ h[Len(r)] = Absent /\ l # 0
  BY <1>1, <1>2
<1> QED BY <1>1, <1>2, <1>3, <1>4 DEF Leads, r

\* The first message handled, the others lead to the same.
LEMMA LeadsGoesOn ==
    ASSUME NEW q \in Seq(Message), q # <<>>, NEW n, NEW from, NEW to, Leads(q, n, from, to)
    PROVE  Leads(Tail(q), n, Told(from, Head(q), n), to)
<1> DEFINE r == Tail(q)
           l == Len(q) - 1
<1>1. PICK j \in 0 .. Len(q) : \E h \in History(q, j) :
        /\ IF j = 0 THEN h[0] = from ELSE Removal(q[j], n) /\ h[j] = Absent
        /\ IsHistory(h, q, j, n)
        /\ h[Len(q)] = to
  BY DEF Leads
<1>2. PICK h \in History(q, j) :
        /\ IF j = 0 THEN h[0] = from ELSE Removal(q[j], n) /\ h[j] = Absent
        /\ IsHistory(h, q, j, n)
        /\ h[Len(q)] = to
  BY <1>1
<1>3. Len(q) = l + 1 /\ l \in Nat /\ Len(r) = l /\ Head(q) = q[1]
  BY LenProperties, HeadTailProperties, EmptySeq
<1>4. \A k \in 1 .. l : r[k] = q[k + 1]
  BY HeadTailProperties
<1> DEFINE i == IF j = 0 THEN 0 ELSE j - 1
<1>5. i \in 0 .. l /\ i \in Nat /\ j \in i .. i + 1 /\ i < Len(q) /\ (i # 0 => i + 1 = j)
  BY <1>3
<1>6. PICK g \in History(r, i) :
        /\ \A k \in i .. Len(r) : g[k] = h[k + 1]
        /\ IsHistory(g, r, i, n)
  <2> HIDE DEF i
  <2> QED BY <1>2, <1>5, HistoryGoesOn
<1>7. g[Len(r)] = to
  <2>1. Len(r) \in i .. Len(r) /\ Len(r) + 1 = Len(q)
    BY <1>3, <1>5
  <2> QED BY <1>2, <1>6, <2>1
<1>8. CASE i = 0
  <2>1. g[0] = h[1]
    BY <1>3, <1>6, <1>8
  <2>2. h[1] = Told(from, Head(q), n)
    <3>1. CASE j = 0
      <4>1. 1 \in j + 1 .. Len(q) /\ 1 - 1 = 0
        BY <1>3, <3>1
      <4>2. h[1] = Told(h[1 - 1], q[1], n)
        BY <1>2, <4>1 DEF IsHistory
      <4> QED BY <1>2, <1>3, <3>1, <4>1, <4>2
    <3>2. CASE j = 1
      BY <1>2, <1>3, <3>2 DEF Removal, Told
    <3> QED BY <1>8, <3>1, <3>2
  <2> HIDE DEF i
  <2>3. 0 \in 0 .. Len(r) /\ g \in History(r, 0) /\ IsHistory(g, r, 0, n)
    BY <1>3, <1>6, <1>8
  <2> HIDE DEF r
  <2>4. Leads(r, n, Told(from, Head(q), n), to)
    BY <1>7, <2>1, <2>2, <2>3 DEF Leads
  <2> QED BY <2>4 DEF r
<1>9. CASE i # 0
  <2>1. r[i] = q[j] /\ g[i] = h[j] /\ i \in 0 .. Len(r)
    BY <1>3, <1>4, <1>5, <1>6, <1>9
  <2>2. Removal(r[i], n) /\ g[i] = Absent
    BY <1>2, <1>9, <2>1
  <2> HIDE DEF i, r
  <2>3. Leads(r, n, Told(from, Head(q), n), to)
    BY <1>6, <1>7, <1>9, <2>1, <2>2 DEF Leads
  <2> QED BY <2>3 DEF r
<1> QED BY <1>8, <1>9

\* One message more sets a file anew, or leaves what is delivered.
LEMMA DeliversMore ==
    ASSUME NEW q \in Seq(Message), NEW m \in Message, NEW f, NEW from, NEW to
    PROVE  /\ Touches(m, f) => Delivers(Append(q, m), f, from, Brings(m))
           /\ ~Touches(m, f) /\ Delivers(q, f, from, to) => Delivers(Append(q, m), f, from, to)
<1> DEFINE n == Len(q)
           r == Append(q, m)
<1>1. n \in Nat /\ Len(r) = n + 1 /\ r[n + 1] = m /\ \A k \in 1 .. n : r[k] = q[k]
  BY LenProperties, AppendProperties
<1> HIDE DEF n, r
<1>2. ASSUME Touches(m, f)
      PROVE  Delivers(r, f, from, Brings(m))
  <2>1. n + 1 \in 1 .. Len(r) /\ Touches(r[n + 1], f) /\ Brings(r[n + 1]) = Brings(m)
    BY <1>1, <1>2
  <2>2. \A l \in (n + 1) + 1 .. Len(r) : ~Touches(r[l], f)
    BY <1>1
  <2> QED BY <2>1, <2>2 DEF Delivers
<1>3. ASSUME ~Touches(m, f), Delivers(q, f, from, to)
      PROVE  Delivers(r, f, from, to)
  <2>1. \A k \in 1 .. Len(r) : k \in 1 .. n \/ k = n + 1
    BY <1>1
  <2>2. CASE from = to /\ \A k \in 1 .. n : ~Touches(q[k], f)
    <3>1. \A k \in 1 .. Len(r) : ~Touches(r[k], f)
      BY <1>1, <1>3, <2>1, <2>2
    <3> QED BY <2>2, <3>1 DEF Delivers
  <2>3. ASSUME NEW k \in 1 .. n, Touches(q[k], f), Brings(q[k]) = to,
               \A l \in k + 1 .. n : ~Touches(q[l], f)
        PROVE  Delivers(r, f, from, to)
    <3>1. k \in 1 .. Len(r) /\ r[k] = q[k]
      BY <1>1, <2>3
    <3>2. ASSUME NEW l \in k + 1 .. Len(r)
          PROVE  ~Touches(r[l], f)
      <4>1. CASE l = n + 1
        BY <1>1, <1>3, <4>1
      <4>2. CASE l # n + 1
        <5>1. l \in k + 1 .. n /\ l \in 1 .. n
          BY <1>1, <4>2
        <5> QED BY <1>1, <2>3, <5>1
      <4> QED BY <4>1, <4>2
    <3> QED BY <2>3, <3>1, <3>2 DEF Delivers
  <2> QED BY <1>3, <2>2, <2>3 DEF Delivers, n
<1> QED BY <1>2, <1>3 DEF r

\* The first message handled, the others deliver the same.
LEMMA DeliversRest ==
    ASSUME NEW q \in Seq(Message), q # <<>>, NEW f, NEW from, NEW to, Delivers(q, f, from, to)
    PROVE  Delivers(Tail(q), f, IF Touches(Head(q), f) THEN Brings(Head(q)) ELSE from, to)
<1> DEFINE n == Len(q)
           r == Tail(q)
           next == IF Touches(Head(q), f) THEN Brings(Head(q)) ELSE from
<1>1. n \in Nat \ {0} /\ Len(r) = n - 1 /\ Head(q) = q[1]
  BY LenProperties, HeadTailProperties, EmptySeq
<1>2. \A k \in 1 .. n - 1 : r[k] = q[k + 1]
  BY HeadTailProperties
<1> HIDE DEF n, r, next
<1>3. CASE from = to /\ \A k \in 1 .. n : ~Touches(q[k], f)
  <2>1. \A k \in 1 .. n - 1 : k + 1 \in 1 .. n
    BY <1>1
  <2>2. next = to
    BY <1>1, <1>3 DEF next
  <2>3. \A k \in 1 .. Len(r) : ~Touches(r[k], f)
    BY <1>1, <1>2, <1>3, <2>1
  <2> QED BY <2>2, <2>3 DEF Delivers, next, r
<1>4. ASSUME NEW k \in 1 .. n, Touches(q[k], f), Brings(q[k]) = to,
             \A l \in k + 1 .. n : ~Touches(q[l], f)
      PROVE  Delivers(r, f, next, to)
  <2>1. \A l \in k .. n - 1 : ~Touches(r[l], f)
    <3>1. \A l \in k .. n - 1 : l \in 1 .. n - 1 /\ l + 1 \in k + 1 .. n
      BY <1>1, <1>4
    <3> QED BY <1>2, <1>4, <3>1
  <2>2. CASE k = 1
    <3>1. next = to
      BY <1>1, <1>4, <2>2 DEF next
    <3>2. \A l \in 1 .. Len(r) : ~Touches(r[l], f)
      BY <1>1, <2>1, <2>2
    <3> QED BY <3>1, <3>2 DEF Delivers
  <2>3. CASE k # 1
    <3>1. k - 1 \in 1 .. n - 1 /\ (k - 1) + 1 = k
      BY <1>1, <1>4, <2>3
    <3>2. r[k - 1] = q[k] /\ k - 1 \in 1 .. Len(r)
      BY <1>1, <1>2, <3>1
    <3>3. \A l \in (k - 1) + 1 .. Len(r) : ~Touches(r[l], f)
      BY <1>1, <2>1, <3>1
    <3> QED BY <1>4, <3>2, <3>3 DEF Delivers
  <2> QED BY <2>2, <2>3
<1> QED BY <1>3, <1>4 DEF Delivers, next, r, n

\* What a file holds now does not matter if the first message sets it.
LEMMA DeliversWhatever ==
    ASSUME NEW q \in Seq(Message), q # <<>>, NEW f, NEW from, NEW to, Delivers(q, f, from, to),
           Touches(Head(q), f), NEW torn
    PROVE  Delivers(q, f, torn, to)
<1>1. 1 \in 1 .. Len(q) /\ Head(q) = q[1]
  BY LenProperties, HeadTailProperties, EmptySeq
<1> QED BY <1>1 DEF Delivers

-----------------------------------------------------------------------------
(***************************************************************************)
(* The invariant.                                                          *)
(***************************************************************************)
\* What distinguishes the requests.
JobOK(t) ==
    pc[t] # "idle" =>
      /\ job[t].event.purge = "true" => job[t].event.type = "remove"
      /\ pc[t] = "commit" => job[t].event.type = "modify"
      /\ pc[t] \in {"options", "notify"} /\ job[t].event.type = "edit" => job[t].source = job[t].event.file

\* Threads that have added or removed style n and not yet told the slave.
Telling(n) ==
    {t \in Thread : /\ pc[t] \in {"options", "notify", "file", "event"}
                    /\ job[t].event.type \in {"add", "remove"}
                    /\ job[t].event.style = n}

\* Threads that have told the slave of a modification and will commit it.
Committing(n) == {t \in Thread : pc[t] = "commit" /\ job[t].event.style = n}

Arrives(n, f) == Leads(InTransit, n, replica[n], f)

\* What the slave will make of a style that is not astray.  Of several threads that
\* change it the first to tell the slave, or to commit, leads it astray, so that only
\* the last that is left has to be known.
StyleInStep(n) ==
    /\ Telling(n) = {} /\ Committing(n) = {} => Arrives(n, style[n])
    /\ \A t \in Committing(n) :
         /\ Committing(n) = {t}
         /\ Telling(n) = {}
              => Arrives(n, IF style[n] = Absent THEN Absent ELSE job[t].event.file)
    /\ \A t \in Telling(n) :
         Telling(n) = {t} =>
           IF job[t].event.type = "add"
             THEN Arrives(n, Absent) /\ style[n] = job[t].event.file
             ELSE style[n] = Absent

\* A thread has written file f, or given it to a style, and will send it.
Sending(f) ==
    \E t \in Thread : /\ pc[t] \in {"options", "notify", "file"}
                      /\ job[t].event.type \in {"add", "edit"}
                      /\ job[t].source = f

\* What the slave will make of a file that is not astray.
FileInStep(f) ==
    ~Sending(f) => Delivers(InTransit, f, copy[f], IF Doomed(f) THEN Absent ELSE file[f])

InStep ==
    /\ \A t \in Thread : JobOK(t)
    /\ \A n \in Style \ astray : StyleInStep(n)
    /\ \A f \in File \ astray : FileInStep(f)

\* The same of the next state, with the values it is about.
LEMMA StyleInStepNext ==
    ASSUME NEW n
    PROVE  StyleInStep(n)' =
             /\ Telling(n)' = {} /\ Committing(n)' = {}
                  => Leads(InTransit', n, replica'[n], style'[n])
             /\ \A t \in Committing(n)' :
                  /\ Committing(n)' = {t}
                  /\ Telling(n)' = {}
                       => Leads(InTransit', n, replica'[n],
                                IF style'[n] = Absent THEN Absent ELSE job'[t].event.file)
             /\ \A t \in Telling(n)' :
                  Telling(n)' = {t} =>
                    IF job'[t].event.type = "add"
                      THEN Leads(InTransit', n, replica'[n], Absent)
                             /\ style'[n] = job'[t].event.file
                      ELSE style'[n] = Absent
BY DEF StyleInStep, Arrives, Leads, History, IsHistory, Told, Removal

LEMMA FileInStepNext ==
    ASSUME NEW f
    PROVE  FileInStep(f)' =
             (~Sending(f)' =>
                Delivers(InTransit', f, copy'[f], IF Doomed(f)' THEN Absent ELSE file'[f]))
BY DEF FileInStep, Delivers, Touches, Brings

\* A step that leaves the threads at style n where they are, and what will become of
\* it as it is.
LEMMA StyleStays ==
    ASSUME NEW n, StyleInStep(n),
           Telling(n)' = Telling(n), Committing(n)' = Committing(n),
           \A t \in Thread : pc[t] # "idle" /\ pc'[t] # "idle" => job'[t].event = job[t].event,
           style'[n] = style[n],
           \A f : Leads(InTransit, n, replica[n], f) => Leads(InTransit', n, replica'[n], f)
    PROVE  StyleInStep(n)'
<1>1. \A t \in Telling(n) \cup Committing(n) : job'[t].event = job[t].event
  <2>1. \A t \in Telling(n) \cup Committing(n) : t \in Thread /\ pc[t] # "idle"
    BY DEF Telling, Committing
  <2>2. \A t \in Telling(n)' \cup Committing(n)' : pc'[t] # "idle"
    BY DEF Telling, Committing
  <2> QED BY <2>1, <2>2
<1>2. Telling(n) = {} /\ Committing(n) = {} => Leads(InTransit', n, replica'[n], style'[n])
  BY DEF StyleInStep, Arrives
<1>3. ASSUME NEW t \in Committing(n)
      PROVE  /\ Committing(n) = {t}
             /\ Telling(n) = {}
                  => Leads(InTransit', n, replica'[n],
                           IF style'[n] = Absent THEN Absent ELSE job'[t].event.file)
  BY <1>1, <1>3 DEF StyleInStep, Arrives
<1>4. ASSUME NEW t \in Telling(n), Telling(n) = {t}
      PROVE  IF job'[t].event.type = "add"
               THEN Leads(InTransit', n, replica'[n], Absent) /\ style'[n] = job'[t].event.file
               ELSE style'[n] = Absent
  BY <1>1, <1>4 DEF StyleInStep, Arrives
<1> QED BY <1>2, <1>3, <1>4, StyleInStepNext

\* And of a file.
LEMMA FileStays ==
    ASSUME NEW f, FileInStep(f), Sending(f) => Sending(f)',
           Doomed(f)' = Doomed(f), file'[f] = file[f],
           \A b : Delivers(InTransit, f, copy[f], b) => Delivers(InTransit', f, copy'[f], b)
    PROVE  FileInStep(f)'
BY FileInStepNext DEF FileInStep

-----------------------------------------------------------------------------
(***************************************************************************)
(* The steps of a thread.                                                  *)
(***************************************************************************)
\* A thread that stays away from style n leaves the others at it.
LEMMA AtStyle ==
    ASSUME TypeOK, NEW t \in Thread, NEW n,
           \A u \in Thread : u # t => pc'[u] = pc[u] /\ job'[u] = job[u]
    PROVE  /\ Telling(n)' \ {t} = Telling(n) \ {t}
           /\ Committing(n)' \ {t} = Committing(n) \ {t}
BY DEF Telling, Committing

\* The same of a file.
LEMMA AtFile ==
    ASSUME TypeOK, NEW t \in Thread, NEW f,
           \A u \in Thread : u # t => pc'[u] = pc[u] /\ job'[u] = job[u]
    PROVE  /\ Sending(f) =>
                \/ Sending(f)'
                \/ pc[t] \in {"options", "notify", "file"} /\ job[t].event.type \in {"add", "edit"}
                     /\ job[t].source = f
           /\ Doomed(f)' =>
                Doomed(f) \/ (pc'[t] = "purge" /\ job'[t].event.file = f)
           /\ Doomed(f) =>
                Doomed(f)' \/ (pc[t] = "purge" /\ job[t].event.file = f)
BY DEF Sending, Doomed

\* What is on its way stays, but for a message that is not about style n, or file f.
LEMMA OnItsWay ==
    ASSUME TypeOK, hand' = hand, replica' = replica, copy' = copy,
           queue' = queue \/ \E m \in Message : queue' = Append(queue, m)
    PROVE  /\ \A n, g :
                (\A m \in Message : queue' = Append(queue, m) => Told(g, m, n) = g) =>
                  (Leads(InTransit, n, replica[n], g) => Leads(InTransit', n, replica'[n], g))
           /\ \A f, b :
                (\A m \in Message : queue' = Append(queue, m) => ~Touches(m, f)) =>
                  (Delivers(InTransit, f, copy[f], b) => Delivers(InTransit', f, copy'[f], b))
<1>1. InTransit \in Seq(Message)
  BY TransitType
<1>2. ASSUME NEW n, NEW g, Leads(InTransit, n, replica[n], g),
             \A m \in Message : queue' = Append(queue, m) => Told(g, m, n) = g
      PROVE  Leads(InTransit', n, replica'[n], g)
  <2>1. CASE queue' = queue
    <3>1. InTransit' = InTransit
      BY <2>1 DEF InTransit
    <3> QED BY <1>2, <3>1
  <2>2. ASSUME NEW m \in Message, queue' = Append(queue, m)
        PROVE  Leads(InTransit', n, replica'[n], g)
    <3>1. Told(g, m, n) = g /\ InTransit' = Append(InTransit, m)
      BY <1>2, <2>2, TransitGrows
    <3>2. Leads(Append(InTransit, m), n, replica[n], Told(g, m, n))
      BY <1>1, <1>2, LeadsGrows
    <3> QED BY <3>1, <3>2
  <2> QED BY <2>1, <2>2
<1>3. ASSUME NEW f, NEW b, Delivers(InTransit, f, copy[f], b),
             \A m \in Message : queue' = Append(queue, m) => ~Touches(m, f)
      PROVE  Delivers(InTransit', f, copy'[f], b)
  <2>1. CASE queue' = queue
    <3>1. InTransit' = InTransit
      BY <2>1 DEF InTransit
    <3> QED BY <1>3, <3>1
  <2>2. ASSUME NEW m \in Message, queue' = Append(queue, m)
        PROVE  Delivers(InTransit', f, copy'[f], b)
    <3>1. ~Touches(m, f) /\ InTransit' = Append(InTransit, m)
      BY <1>3, <2>2, TransitGrows
    <3>2. Delivers(Append(InTransit, m), f, copy[f], b)
      BY <1>1, <1>3, <3>1, DeliversMore
    <3> QED BY <3>1, <3>2
  <2> QED BY <2>1, <2>2
<1> QED BY <1>2, <1>3

\* The event of a request stays the same until it is finished.
LEMMA EventStays ==
    ASSUME TypeOK, NEW t \in Thread, Proceed(t) \/ PublishFails(t) \/ MessageLost(t)
    PROVE  /\ pc[t] # "idle" /\ pc'[t] # "options"
           /\ pc'[t] = "notify" => pc[t] = "options" /\ job' = job
           /\ pc'[t] # "idle" => job'[t].event = job[t].event
           /\ pc'[t] = "commit" => job[t].event.type = "modify"
           /\ pc'[t] = "purge" => job[t].event.purge = "true"
<1>1. pc[t] # "idle"
  BY DEF Proceed, UpdateProperties, Notify, PublishFile, PublishEvent, Commit, Purge, PublishFails,
         MessageLost
<1>2. job[t] \in Job
  BY <1>1, BusyThread
<1>3. ASSUME Goto(t, "event") \/ Finish(t) \/ AfterEvent(t)
      PROVE  /\ pc'[t] \notin {"options", "notify"}
             /\ pc'[t] # "idle" => job'[t].event = job[t].event
             /\ pc'[t] = "commit" => job[t].event.type = "modify"
             /\ pc'[t] = "purge" => job[t].event.purge = "true"
  BY <1>3 DEF Goto, Finish, AfterEvent, TypeOK
<1>4. ASSUME ReadFile(t)
      PROVE  pc'[t] = "file" /\ job'[t].event = job[t].event
  <2>1. job'[t] = [job[t] EXCEPT !.source = SourceFile(t), !.body = file[SourceFile(t)]]
    BY <1>4 DEF ReadFile, TypeOK
  <2> QED BY <1>2, <1>4, <2>1 DEF ReadFile, TypeOK, Job
<1>5. ASSUME UpdateProperties(t)
      PROVE  pc[t] = "options" /\ pc'[t] = "notify" /\ job' = job
  BY <1>5 DEF UpdateProperties, Goto, TypeOK
<1> QED BY <1>1, <1>3, <1>4, <1>5 DEF Proceed, Notify, PublishFile, PublishEvent, Commit, Purge,
                                    PublishFails, MessageLost

\* What a request begins with.
LEMMA BeginJob ==
    ASSUME TypeOK, NEW t \in Thread, NEW type, NEW n, NEW f, NEW purge,
           Begin(t, type, n, f, purge)
    PROVE  /\ pc[t] = "idle" /\ pc'[t] = "options"
           /\ job'[t].event.type = type /\ job'[t].event.style = n
           /\ job'[t].event.file = f /\ job'[t].event.purge = purge
           /\ job'[t].source = IF style[n] = Absent THEN f ELSE style[n]
           /\ UNCHANGED <<replica, copy, hand, queue>>
BY DEF Begin, TypeOK, slave

\* The request of a thread.
LEMMA RequestBegins ==
    ASSUME NEW t \in Thread, Request(t)
    PROVE  \/ \E n \in Style, f \in File :
                RequestAdd(t, n, f) /\ Begin(t, "add", n, f, "unset")
           \/ \E n \in Style, f \in File :
                RequestFilename(t, n, f) /\ Begin(t, "modify", n, f, "unset")
           \/ \E n \in Style : RequestEdit(t, n) /\ Begin(t, "edit", n, style[n], "unset")
           \/ \E n \in Style, purge \in Option :
                RequestRemove(t, n, purge) /\ Begin(t, "remove", n, style[n], purge)
BY DEF Request, RequestAdd, RequestEdit, RequestFilename, RequestRemove

LEMMA RequestJob ==
    ASSUME TypeOK, NEW t \in Thread, Request(t)
    PROVE  /\ pc[t] = "idle" /\ pc'[t] = "options"
           /\ job'[t].event.purge = "true" => job'[t].event.type = "remove"
           /\ job'[t].event.type = "edit" => job'[t].source = job'[t].event.file
           /\ UNCHANGED <<replica, copy, hand, queue>>
<1>1. ASSUME NEW n, NEW f, Begin(t, "add", n, f, "unset") \/ Begin(t, "modify", n, f, "unset")
      PROVE  /\ pc[t] = "idle" /\ pc'[t] = "options"
             /\ job'[t].event.purge # "true" /\ job'[t].event.type # "edit"
             /\ UNCHANGED <<replica, copy, hand, queue>>
  <2>1. CASE Begin(t, "add", n, f, "unset")
    BY <2>1 DEF Begin, TypeOK, slave
  <2>2. CASE Begin(t, "modify", n, f, "unset")
    BY <2>2 DEF Begin, TypeOK, slave
  <2> QED BY <1>1, <2>1, <2>2
<1>2. ASSUME NEW n, Begin(t, "edit", n, style[n], "unset"), RequestEdit(t, n)
      PROVE  /\ pc[t] = "idle" /\ pc'[t] = "options"
             /\ job'[t].event.purge # "true" /\ job'[t].source = job'[t].event.file
             /\ UNCHANGED <<replica, copy, hand, queue>>
  BY <1>2 DEF RequestEdit, Begin, TypeOK, slave
<1>3. ASSUME NEW n, NEW purge, Begin(t, "remove", n, style[n], purge)
      PROVE  /\ pc[t] = "idle" /\ pc'[t] = "options"
             /\ job'[t].event.type = "remove"
             /\ UNCHANGED <<replica, copy, hand, queue>>
  BY <1>3, BeginJob
<1>4. CASE \E n \in Style, f \in File :
             Begin(t, "add", n, f, "unset") \/ Begin(t, "modify", n, f, "unset")
  BY <1>1, <1>4
<1>5. CASE \E n \in Style : RequestEdit(t, n) /\ Begin(t, "edit", n, style[n], "unset")
  BY <1>2, <1>5
<1>6. CASE \E n \in Style, purge \in Option : Begin(t, "remove", n, style[n], purge)
  <2>1. "remove" # "edit"
    OBVIOUS
  <2> QED BY <1>3, <1>6, <2>1
<1> QED BY <1>4, <1>5, <1>6, RequestBegins

LEMMA JobsStayOK ==
    ASSUME TypeOK, \A u \in Thread : JobOK(u), NEW t \in Thread,
           Request(t) \/ Proceed(t) \/ PublishFails(t) \/ MessageLost(t)
    PROVE  \A u \in Thread : JobOK(u)'
<1>1. CASE Request(t)
  <2>1. JobOK(t)'
    BY <1>1, RequestJob DEF JobOK
  <2> QED BY <2>1, OthersStay DEF JobOK
<1>2. CASE Proceed(t) \/ PublishFails(t) \/ MessageLost(t)
  <2>1. JobOK(t)'
    BY <1>2, EventStays DEF JobOK
  <2> QED BY <1>2, <2>1, OthersStay DEF JobOK
<1> QED BY <1>1, <1>2

\* A style that is added or removed at the master is to be told.
LEMMA RequestStyles ==
    ASSUME TypeOK, InStep, NEW t \in Thread, Request(t), NEW n \in Style \ astray'
    PROVE  StyleInStep(n)'
<1>1. /\ pc[t] = "idle" /\ pc'[t] = "options"
      /\ UNCHANGED <<replica, copy, hand, queue>>
  BY RequestJob
<1>2. n \notin astray
  BY DEF Request, RequestAdd, RequestEdit, RequestFilename, RequestRemove
<1>3. StyleInStep(n)
  BY <1>2 DEF InStep
<1>4. \A f : Leads(InTransit, n, replica[n], f) => Leads(InTransit', n, replica'[n], f)
  BY <1>1 DEF InTransit
<1>5. \A u \in Thread : u # t => pc'[u] = pc[u] /\ job'[u] = job[u]
  BY OthersStay
<1>6. /\ t \notin Telling(n) /\ t \notin Committing(n) /\ Committing(n)' = Committing(n)
      /\ Telling(n)' = Telling(n) \/ Telling(n)' = Telling(n) \cup {t}
  BY <1>1, <1>5, AtStyle DEF Telling, Committing
<1>7. CASE t \notin Telling(n)' /\ style'[n] = style[n]
  BY <1>1, <1>3, <1>4, <1>5, <1>6, <1>7, StyleStays
<1>8. ASSUME NEW f \in File, RequestAdd(t, n, f)
      PROVE  StyleInStep(n)'
  <2>1. style[n] = Absent /\ style'[n] = f
    BY <1>8 DEF RequestAdd, TypeOK
  <2>2. job'[t].event.type = "add" /\ job'[t].event.file = f /\ job'[t].event.style = n
    <3>1. Begin(t, "add", n, f, "unset")
      BY <1>8 DEF RequestAdd
    <3> QED BY <3>1 DEF Begin, TypeOK
  <2>3. t \in Telling(n)'
    BY <1>1, <2>2 DEF Telling
  <2>4. ASSUME Telling(n)' = {t}
        PROVE  Leads(InTransit', n, replica'[n], Absent)
    <3>1. Telling(n) = {}
      BY <1>6, <2>4
    <3>2. Arrives(n, Absent)
      BY <1>3, <2>1, <3>1 DEF StyleInStep
    <3> QED BY <1>4, <3>2 DEF Arrives
  <2>5. \A c \in Committing(n)' : Committing(n)' = {c}
    BY <1>3, <1>6 DEF StyleInStep
  <2>6. \A u \in Telling(n)' : Telling(n)' = {u} => u = t
    BY <2>3
  <2> QED BY <2>1, <2>2, <2>3, <2>4, <2>5, <2>6, StyleInStepNext
<1>9. ASSUME NEW purge \in Option, RequestRemove(t, n, purge)
      PROVE  StyleInStep(n)'
  <2>1. style'[n] = Absent
    BY <1>9 DEF RequestRemove, TypeOK
  <2>2. job'[t].event.type = "remove" /\ job'[t].event.style = n
    <3>1. Begin(t, "remove", n, style[n], purge)
      BY <1>9 DEF RequestRemove
    <3> QED BY <3>1 DEF Begin, TypeOK
  <2>3. t \in Telling(n)'
    BY <1>1, <2>2 DEF Telling
  <2>4. \A c \in Committing(n)' : Committing(n)' = {c}
    BY <1>3, <1>6 DEF StyleInStep
  <2>5. \A u \in Telling(n)' : Telling(n)' = {u} => u = t
    BY <2>3
  <2> QED BY <2>1, <2>2, <2>3, <2>4, <2>5, StyleInStepNext
<1>10. ASSUME NEW k \in Style, NEW f \in File, RequestAdd(t, k, f), k # n
       PROVE  t \notin Telling(n)' /\ style'[n] = style[n]
  <2>1. Begin(t, "add", k, f, "unset")
    BY <1>10 DEF RequestAdd
  <2>2. job'[t].event.style = k
    BY <2>1 DEF Begin, TypeOK
  <2> QED BY <1>10, <2>2 DEF RequestAdd, Telling, TypeOK
<1>11. ASSUME NEW k \in Style, NEW purge \in Option, RequestRemove(t, k, purge), k # n
       PROVE  t \notin Telling(n)' /\ style'[n] = style[n]
  <2>1. Begin(t, "remove", k, style[k], purge)
    BY <1>11 DEF RequestRemove
  <2>2. job'[t].event.style = k
    BY <2>1, BeginJob
  <2> QED BY <1>11, <2>2 DEF RequestRemove, Telling, TypeOK
<1>12. ASSUME NEW k \in Style, RequestEdit(t, k) \/ \E f \in File : RequestFilename(t, k, f)
       PROVE  t \notin Telling(n)' /\ style'[n] = style[n]
  <2>1. style'[n] = style[n]
    BY <1>12 DEF RequestEdit, RequestFilename
  <2>2. CASE RequestEdit(t, k)
    <3>1. Begin(t, "edit", k, style[k], "unset")
      BY <2>2 DEF RequestEdit
    <3>2. job'[t].event.type = "edit"
      BY <3>1, BeginJob
    <3> QED BY <2>1, <3>2 DEF Telling
  <2>3. ASSUME NEW f \in File, RequestFilename(t, k, f)
        PROVE  t \notin Telling(n)' /\ style'[n] = style[n]
    <3>1. Begin(t, "modify", k, f, "unset")
      BY <2>3 DEF RequestFilename
    <3>2. job'[t].event.type = "modify"
      BY <3>1, BeginJob
    <3> QED BY <2>1, <3>2 DEF Telling
  <2> QED BY <1>12, <2>2, <2>3
<1> QED BY <1>7, <1>8, <1>9, <1>10, <1>11, <1>12 DEF Request

\* A file that is written at the master is to be sent, or goes astray.
LEMMA RequestFiles ==
    ASSUME TypeOK, InStep, NEW t \in Thread, Request(t), NEW f \in File \ astray'
    PROVE  FileInStep(f)'
<1>1. /\ pc[t] = "idle" /\ pc'[t] = "options"
      /\ UNCHANGED <<replica, copy, hand, queue>>
  BY RequestJob
<1>2. f \notin astray
  BY DEF Request, RequestAdd, RequestEdit, RequestFilename, RequestRemove
<1>3. FileInStep(f)
  BY <1>2 DEF InStep
<1>4. \A u \in Thread : u # t => pc'[u] = pc[u] /\ job'[u] = job[u]
  BY OthersStay
<1>5. (Sending(f) => Sending(f)') /\ Doomed(f)' = Doomed(f)
  <2>1. Doomed(f)' <=> Doomed(f)
    BY <1>1, <1>4, AtFile
  <2> QED BY <1>1, <1>4, <2>1, AtFile DEF Doomed
<1>6. \A b : Delivers(InTransit, f, copy[f], b) => Delivers(InTransit', f, copy'[f], b)
  BY <1>1 DEF InTransit
<1>7. file'[f] = file[f] \/ Sending(f)'
  <2>1. ASSUME NEW n \in Style, NEW g \in File, RequestAdd(t, n, g)
        PROVE  file'[f] = file[f] \/ Sending(f)'
    <3>1. f # g => file'[f] = file[f]
      BY <2>1 DEF RequestAdd, Write, TypeOK
    <3>2. job'[t].event.type = "add" /\ job'[t].source = g
      <4>1. Begin(t, "add", n, g, "unset") /\ style[n] = Absent
        BY <2>1 DEF RequestAdd
      <4> QED BY <4>1 DEF Begin, TypeOK
    <3> QED BY <1>1, <3>1, <3>2 DEF Sending
  <2>2. ASSUME NEW n \in Style, RequestEdit(t, n)
        PROVE  file'[f] = file[f] \/ Sending(f)'
    <3>1. f # style[n] => file'[f] = file[f]
      BY <2>2 DEF RequestEdit, Write, TypeOK
    <3>2. job'[t].event.type = "edit" /\ job'[t].source = style[n]
      <4>1. Begin(t, "edit", n, style[n], "unset")
        BY <2>2 DEF RequestEdit
      <4> QED BY <4>1 DEF Begin, TypeOK
    <3> QED BY <1>1, <3>1, <3>2 DEF Sending
  <2>3. ASSUME NEW n \in Style, NEW g \in File, RequestFilename(t, n, g)
        PROVE  file'[f] = file[f]
    BY <2>3 DEF RequestFilename, Write, TypeOK
  <2>4. ASSUME NEW n \in Style, NEW purge \in Option, RequestRemove(t, n, purge)
        PROVE  file'[f] = file[f]
    BY <2>4 DEF RequestRemove
  <2> QED BY <2>1, <2>2, <2>3, <2>4 DEF Request
<1>8. CASE file'[f] = file[f]
  BY <1>3, <1>5, <1>6, <1>8, FileStays
<1>9. CASE Sending(f)'
  BY <1>9, FileInStepNext
<1> QED BY <1>7, <1>8, <1>9

\* A style that is not what the step of a thread is about.
LEMMA StyleAside ==
    ASSUME TypeOK, InStep, NEW t \in Thread,
           Proceed(t) \/ PublishFails(t) \/ MessageLost(t),
           NEW n, StyleInStep(n), style'[n] = style[n],
           t \in Telling(n)' <=> t \in Telling(n),
           t \in Committing(n)' <=> t \in Committing(n),
           \A f : Leads(InTransit, n, replica[n], f) => Leads(InTransit', n, replica'[n], f)
    PROVE  StyleInStep(n)'
<1>1. \A u \in Thread : u # t => pc'[u] = pc[u] /\ job'[u] = job[u]
  BY OthersStay
<1>2. Telling(n)' = Telling(n) /\ Committing(n)' = Committing(n)
  BY <1>1, AtStyle
<1>3. \A u \in Thread : pc[u] # "idle" /\ pc'[u] # "idle" => job'[u].event = job[u].event
  BY <1>1, EventStays
<1> QED BY <1>2, <1>3, StyleStays

\* A thread that works on another style, or on a file only.
LEMMA AwayFromStyle ==
    ASSUME TypeOK, InStep, NEW t \in Thread,
           Proceed(t) \/ PublishFails(t) \/ MessageLost(t),
           NEW n, job[t].event.style # n \/ job[t].event.type = "edit"
    PROVE  /\ t \notin Telling(n) /\ t \notin Telling(n)'
           /\ t \notin Committing(n) /\ t \notin Committing(n)'
<1>1. JobOK(t)
  BY DEF InStep
<1>2. /\ pc'[t] # "idle" => job'[t].event = job[t].event
      /\ pc'[t] = "commit" => job[t].event.type = "modify"
  BY EventStays
<1>3. t \notin Telling(n) /\ t \notin Telling(n)'
  BY <1>2 DEF Telling
<1>4. t \notin Committing(n) /\ t \notin Committing(n)'
  BY <1>1, <1>2 DEF Committing, JobOK
<1> QED BY <1>3, <1>4

\* A file that is not what the step of a thread is about.
LEMMA FileAside ==
    ASSUME TypeOK, NEW t \in Thread,
           Proceed(t) \/ PublishFails(t) \/ MessageLost(t),
           NEW f, FileInStep(f), file'[f] = file[f],
           pc[t] \in {"options", "notify", "file"} /\ job[t].event.type \in {"add", "edit"}
             /\ job[t].source = f => Sending(f)',
           pc[t] = "purge" => job[t].event.file # f,
           pc'[t] = "purge" => job'[t].event.file # f,
           \A b : Delivers(InTransit, f, copy[f], b) => Delivers(InTransit', f, copy'[f], b)
    PROVE  FileInStep(f)'
<1>1. \A u \in Thread : u # t => pc'[u] = pc[u] /\ job'[u] = job[u]
  BY OthersStay
<1>2. (Sending(f) => Sending(f)') /\ (Doomed(f)' <=> Doomed(f))
  BY <1>1, AtFile
<1>3. Doomed(f)' = Doomed(f)
  BY <1>2 DEF Doomed
<1> QED BY <1>2, <1>3, FileStays

\* Nothing is sent.
LEMMA NothingSent ==
    ASSUME UNCHANGED <<queue, slave>>
    PROVE  /\ \A n, f : Leads(InTransit, n, replica[n], f) => Leads(InTransit', n, replica'[n], f)
           /\ \A f, b : Delivers(InTransit, f, copy[f], b) => Delivers(InTransit', f, copy'[f], b)
BY DEF InTransit, slave

\* A request that ends with an exception leaves astray what was to be told.
LEMMA UndoneAstray ==
    ASSUME TypeOK, InStep, NEW t \in Thread, Notify(t) \/ PublishFails(t),
           pc[t] \in {"options", "notify", "file", "event"}, Finish(t), astray' = astray \cup Undone(t),
           UNCHANGED <<style, file, queue, slave>>
    PROVE  /\ \A n \in Style \ astray' : StyleInStep(n)'
           /\ \A f \in File \ astray' : FileInStep(f)'
<1>1. pc'[t] = "idle"
  BY DEF Finish, TypeOK
<1>2. Proceed(t) \/ PublishFails(t) \/ MessageLost(t)
  BY DEF Proceed
<1>3. ASSUME NEW n \in Style \ astray'
      PROVE  StyleInStep(n)'
  <2>1. StyleInStep(n) /\ n \notin Undone(t)
    BY <1>3 DEF InStep
  <2>2. t \notin Telling(n)
    BY <2>1 DEF Telling, Undone
  <2>3. t \notin Committing(n) /\ t \notin Committing(n)' /\ t \notin Telling(n)'
    BY <1>1 DEF Telling, Committing
  <2> QED BY <1>2, <2>1, <2>2, <2>3, StyleAside, NothingSent
<1>4. ASSUME NEW f \in File \ astray'
      PROVE  FileInStep(f)'
  <2>1. FileInStep(f) /\ f \notin Undone(t)
    BY <1>4 DEF InStep
  <2>2. ~(pc[t] \in {"options", "notify", "file"} /\ job[t].event.type \in {"add", "edit"}
            /\ job[t].source = f)
    BY <2>1 DEF Undone
  <2> QED BY <1>1, <1>2, <2>1, <2>2, FileAside, NothingSent
<1> QED BY <1>3, <1>4

\* The options are taken over: nothing is sent, and what is to be told remains.
LEMMA UpdatePropertiesInStep ==
    ASSUME TypeOK, InStep, NEW t \in Thread, UpdateProperties(t)
    PROVE  /\ \A n \in Style \ astray' : StyleInStep(n)'
           /\ \A f \in File \ astray' : FileInStep(f)'
<1>1. /\ pc[t] = "options" /\ pc'[t] = "notify" /\ job' = job
      /\ UNCHANGED <<style, file, queue, slave, astray>>
      /\ Proceed(t) \/ PublishFails(t) \/ MessageLost(t)
  BY DEF UpdateProperties, Goto, TypeOK, Proceed
<1>2. ASSUME NEW n \in Style \ astray'
      PROVE  StyleInStep(n)'
  <2>1. StyleInStep(n)
    BY <1>1, <1>2 DEF InStep
  <2>2. /\ t \in Telling(n)' <=> t \in Telling(n)
        /\ t \notin Committing(n) /\ t \notin Committing(n)'
    BY <1>1 DEF Telling, Committing
  <2> QED BY <1>1, <2>1, <2>2, StyleAside, NothingSent
<1>3. ASSUME NEW f \in File \ astray'
      PROVE  FileInStep(f)'
  <2>1. FileInStep(f)
    BY <1>1, <1>3 DEF InStep
  <2>2. job[t].event.type \in {"add", "edit"} /\ job[t].source = f => Sending(f)'
    BY <1>1 DEF Sending
  <2> QED BY <1>1, <2>1, <2>2, FileAside, NothingSent
<1> QED BY <1>2, <1>3

\* The file is read.
LEMMA NotifyInStep ==
    ASSUME TypeOK, InStep, NEW t \in Thread, Notify(t)
    PROVE  /\ \A n \in Style \ astray' : StyleInStep(n)'
           /\ \A f \in File \ astray' : FileInStep(f)'
<1>1. /\ pc[t] = "notify" /\ UNCHANGED <<style, file, queue, slave>>
      /\ Proceed(t) \/ PublishFails(t) \/ MessageLost(t)
  BY DEF Notify, Proceed
<1>2. CASE Goto(t, "event") \/ ReadFile(t)
  <2>1. pc'[t] \in {"event", "file"} /\ astray \subseteq astray'
    BY <1>2 DEF Notify, Goto, Finish, ReadFile, TypeOK
  <2>2. job'[t].event = job[t].event
    BY <1>1, <2>1, EventStays
  <2>3. ASSUME NEW n \in Style \ astray'
        PROVE  StyleInStep(n)'
    <3>1. StyleInStep(n)
      BY <2>1, <2>3 DEF InStep
    <3>2. /\ t \in Telling(n)' <=> t \in Telling(n)
          /\ t \notin Committing(n) /\ t \notin Committing(n)'
      BY <1>1, <2>1, <2>2 DEF Telling, Committing
    <3> QED BY <1>1, <3>1, <3>2, StyleAside, NothingSent
  <2>4. ASSUME NEW f \in File \ astray',
               job[t].event.type \in {"add", "edit"}, job[t].source = f
        PROVE  Sending(f)'
    <3>1. ReadFile(t) /\ pc'[t] = "file"
      BY <1>1, <1>2, <2>4 DEF Notify, Goto, Finish, ReadFile, TypeOK
    <3>2. job'[t].source = SourceFile(t)
      <4>1. job'[t] = [job[t] EXCEPT !.source = SourceFile(t), !.body = file[SourceFile(t)]]
        BY <3>1 DEF ReadFile, TypeOK
      <4>2. job[t] \in Job
        BY <1>1, BusyThread
      <4> QED BY <4>1, <4>2 DEF Job
    <3>3. SourceFile(t) = f
      <4>1. CASE job[t].event.type = "add"
        BY <2>4, <4>1 DEF SourceFile
      <4>2. CASE job[t].event.type = "edit"
        <5>1. job[t].event.file = f
          BY <1>1, <2>4, <4>2 DEF InStep, JobOK
        <5> QED BY <2>4, <3>1, <4>2, <5>1 DEF ReadFile
      <4> QED BY <2>4, <4>1, <4>2
    <3> QED BY <2>2, <2>4, <3>1, <3>2, <3>3 DEF Sending
  <2>5. ASSUME NEW f \in File \ astray'
        PROVE  FileInStep(f)'
    <3>1. FileInStep(f)
      BY <2>1, <2>5 DEF InStep
    <3> QED BY <1>1, <2>1, <2>4, <2>5, <3>1, FileAside, NothingSent
  <2> QED BY <2>3, <2>5
<1>3. CASE Finish(t) /\ astray' = astray \cup Undone(t)
  BY <1>1, <1>3, UndoneAstray
<1> QED BY <1>2, <1>3 DEF Notify

\* The file is sent, and is the last that was sent of it; unless it was written again
\* since it was read, or will be deleted.
LEMMA PublishFileInStep ==
    ASSUME TypeOK, HasRead, InStep, NEW t \in Thread, PublishFile(t)
    PROVE  /\ \A n \in Style \ astray' : StyleInStep(n)'
           /\ \A f \in File \ astray' : FileInStep(f)'
<1> DEFINE m == [type |-> "file", file |-> job[t].source, body |-> job[t].body]
<1>1. /\ pc[t] = "file" /\ pc'[t] = "event" /\ job' = job
      /\ queue' = Append(queue, m)
      /\ UNCHANGED <<style, file, slave>>
      /\ Proceed(t) \/ PublishFails(t) \/ MessageLost(t)
  BY DEF PublishFile, Goto, TypeOK, Proceed
<1>2. m \in Message /\ job[t].source \in File
  BY <1>1, BusyThread DEF Message, HasRead
<1>3. m.type = "file" /\ m.file = job[t].source /\ m.body = job[t].body
  OBVIOUS
<1> HIDE DEF m
<1>4. hand' = hand /\ replica' = replica /\ copy' = copy
  BY <1>1 DEF slave
<1>5. \A k : queue' = Append(queue, k) => k = m
  <2> SUFFICES ASSUME NEW k, queue' = Append(queue, k) PROVE k = m
    OBVIOUS
  <2>1. Append(queue, k)[Len(queue) + 1] = k /\ Append(queue, m)[Len(queue) + 1] = m
    BY DEF TypeOK
  <2> QED BY <1>1, <2>1
<1>6. ASSUME NEW n \in Style \ astray'
      PROVE  StyleInStep(n)'
  <2>1. n \notin astray
    BY <1>2, <1>6, StyleAssumption DEF PublishFile
  <2>2. StyleInStep(n)
    BY <1>6, <2>1 DEF InStep
  <2>3. /\ t \in Telling(n)' <=> t \in Telling(n)
        /\ t \notin Committing(n) /\ t \notin Committing(n)'
    BY <1>1 DEF Telling, Committing
  <2>4. \A f : Told(f, m, n) = f
    BY <1>3 DEF Told
  <2>5. \A f : Leads(InTransit, n, replica[n], f) => Leads(InTransit', n, replica'[n], f)
    BY <1>1, <1>2, <1>4, <1>5, <2>4, OnItsWay
  <2> QED BY <1>1, <2>2, <2>3, <2>5, StyleAside
<1>7. ASSUME NEW f \in File \ astray'
      PROVE  FileInStep(f)'
  <2>1. CASE f = job[t].source
    <3>1. file[f] = job[t].body /\ ~Doomed(f)
      BY <1>7, <2>1 DEF PublishFile
    <3>2. ~Doomed(f)'
      BY <1>1, <3>1, OthersStay, AtFile
    <3>3. Touches(m, f) /\ Brings(m) = file[f]
      BY <1>3, <2>1, <3>1 DEF Touches, Brings
    <3>4. InTransit \in Seq(Message) /\ InTransit' = Append(InTransit, m)
      BY <1>1, <1>2, <1>4, TransitType, TransitGrows
    <3>5. Delivers(InTransit', f, copy'[f], file'[f])
      BY <1>1, <1>2, <3>3, <3>4, DeliversMore
    <3> QED BY <3>2, <3>5, FileInStepNext
  <2>2. CASE f # job[t].source
    <3>1. FileInStep(f)
      BY <1>7, <2>2 DEF PublishFile, InStep
    <3>2. ~Touches(m, f)
      BY <1>3, <2>2 DEF Touches
    <3>3. \A b : Delivers(InTransit, f, copy[f], b) => Delivers(InTransit', f, copy'[f], b)
      BY <1>1, <1>2, <1>4, <1>5, <3>2, OnItsWay
    <3> QED BY <1>1, <2>2, <3>1, <3>3, FileAside
  <2> QED BY <2>1, <2>2
<1> QED BY <1>6, <1>7

\* Nobody else is about to tell the slave of the style.
LEMMA NotContended ==
    ASSUME InStep, NEW t \in Thread, ~Contended(t)
    PROVE  /\ Telling(job[t].event.style) \subseteq {t}
           /\ Committing(job[t].event.style) \subseteq {t}
<1> DEFINE n == job[t].event.style
<1>1. Telling(n) \subseteq {t}
  BY DEF Telling, Contended
<1>2. \A u \in Committing(n) : job[u].event.type = "modify"
  BY DEF Committing, InStep, JobOK
<1>3. Committing(n) \subseteq {t}
  BY <1>2 DEF Committing, Contended
<1> QED BY <1>1, <1>3

\* The event is sent.
LEMMA PublishEventStyles ==
    ASSUME TypeOK, InStep, NEW t \in Thread, PublishEvent(t), NEW n \in Style \ astray'
    PROVE  StyleInStep(n)'
<1> DEFINE e == job[t].event
<1>1. /\ pc[t] = "event" /\ AfterEvent(t)
      /\ hand' = hand /\ replica' = replica /\ copy' = copy /\ style' = style
      /\ Proceed(t) \/ PublishFails(t) \/ MessageLost(t)
  BY DEF PublishEvent, slave, Proceed
<1> PICK m \in Message : /\ m.type = e.type /\ m.style = e.style /\ m.file = e.file
                         /\ queue' = Append(queue, m)
  BY EventSent
<1>2. e.type \in {"add", "edit", "modify", "remove"} /\ e.style \in Style /\ e.file \in File
  BY <1>1, BusyThread
<1>3. InTransit \in Seq(Message) /\ InTransit' = Append(InTransit, m)
  BY <1>1, <1>2, TransitType, TransitGrows
<1>4. /\ e.type = "modify" => pc'[t] = "commit" /\ job' = job
      /\ e.type # "modify" => pc'[t] \in {"idle", "purge"}
  BY <1>1 DEF AfterEvent, Goto, Finish, TypeOK
<1>5. \A u \in Thread : u # t => pc'[u] = pc[u] /\ job'[u] = job[u]
  BY <1>1, OthersStay
<1>6. CASE e.style # n \/ e.type = "edit"
  <2>1. StyleInStep(n)
    BY <1>6 DEF PublishEvent, Settling, InStep
  <2>2. \A f : Told(f, m, n) = f
    BY <1>6 DEF Told
  <2>3. \A f : Leads(InTransit, n, replica[n], f) => Leads(InTransit', n, replica'[n], f)
    <3> HIDE DEF e
    <3>1. ASSUME NEW f, Leads(InTransit, n, replica[n], f)
          PROVE  Leads(InTransit', n, replica'[n], f)
      <4>1. Leads(Append(InTransit, m), n, replica[n], Told(f, m, n))
        BY <1>2, <1>3, <3>1, LeadsGrows
      <4>2. Told(f, m, n) = f
        BY <2>2
      <4> QED BY <1>1, <1>3, <4>1, <4>2
    <3> QED BY <3>1
  <2>4. /\ t \notin Telling(n) /\ t \notin Telling(n)'
        /\ t \notin Committing(n) /\ t \notin Committing(n)'
    BY <1>1, <1>6, AwayFromStyle
  <2> QED BY <1>1, <2>1, <2>3, <2>4, StyleAside
<1>7. CASE e.style = n /\ e.type # "edit"
  <2>1. /\ ~Contended(t)
        /\ n \in astray => e.type = "remove" /\ style[n] = Absent
    <3>1. n \notin Settling(t)
      BY DEF PublishEvent
    <3> QED BY <1>7, <3>1 DEF Settling
  <2>2. Telling(n) \subseteq {t} /\ Committing(n) = {}
    <3>1. t \notin Committing(n)
      BY <1>1 DEF Committing
    <3>2. Telling(e.style) \subseteq {t} /\ Committing(e.style) \subseteq {t}
      BY <2>1, NotContended
    <3> HIDE DEF e
    <3> QED BY <1>7, <3>1, <3>2
  <2>3. Telling(n)' = {}
    <3>1. t \notin Telling(n)'
      BY <1>4 DEF Telling
    <3> QED BY <1>5, <2>2, <3>1, AtStyle
  <2>4. t \in Telling(n) <=> e.type # "modify"
    BY <1>1, <1>2, <1>7 DEF Telling
  <2>5. n \notin astray => StyleInStep(n)
    BY DEF InStep
  <2>6. CASE e.type = "modify"
    <3> DEFINE new == IF style[n] = Absent THEN Absent ELSE e.file
    <3>1. Leads(InTransit, n, replica[n], style[n])
      BY <2>1, <2>2, <2>4, <2>5, <2>6 DEF StyleInStep, Arrives
    <3>2. Told(style[n], m, n) = new
      BY <1>7, <2>6 DEF Told
    <3>3. Leads(Append(InTransit, m), n, replica[n], Told(style[n], m, n))
      BY <1>2, <1>3, <3>1, LeadsGrows
    <3>4. Leads(InTransit', n, replica'[n], new)
      BY <1>1, <1>3, <3>2, <3>3
    <3>5. Committing(n)' = {t}
      <4>1. t \in Committing(n)'
        BY <1>4, <1>7, <2>6 DEF Committing
      <4> QED BY <1>5, <2>2, <4>1, AtStyle
    <3>6. new = IF style'[n] = Absent THEN Absent ELSE job'[t].event.file
      BY <1>1, <1>4, <2>6
    <3> HIDE DEF new
    <3> QED BY <2>3, <3>4, <3>5, <3>6, StyleInStepNext
  <2>7. CASE e.type # "modify"
    <3>1. Telling(n) = {t}
      BY <2>2, <2>4, <2>7
    <3>2. Committing(n)' = {}
      <4>1. t \notin Committing(n)'
        BY <1>4, <2>7 DEF Committing
      <4> QED BY <1>5, <2>2, <4>1, AtStyle
    <3>3. Leads(InTransit', n, replica'[n], style'[n])
      <4>1. CASE e.type = "add"
        <5>1. Leads(InTransit, n, replica[n], Absent) /\ style[n] = e.file
          BY <2>1, <2>5, <3>1, <4>1 DEF StyleInStep, Arrives
        <5>2. Leads(Append(InTransit, m), n, replica[n], Told(Absent, m, n))
          BY <1>2, <1>3, <5>1, LeadsGrows
        <5>3. Told(Absent, m, n) = e.file
          BY <1>7, <4>1 DEF Told
        <5> QED BY <1>1, <1>3, <5>1, <5>2, <5>3
      <4>2. CASE e.type = "remove"
        <5>1. style[n] = Absent
          BY <2>1, <2>5, <3>1, <4>2 DEF StyleInStep
        <5>2. Leads(Append(InTransit, m), n, replica[n], Absent)
          BY <1>2, <1>3, <1>7, <4>2, LeadsAfterRemoval DEF Removal
        <5> QED BY <1>1, <1>3, <5>1, <5>2
      <4> QED BY <1>2, <1>7, <2>7, <4>1, <4>2
    <3> QED BY <2>3, <3>2, <3>3, StyleInStepNext
  <2> QED BY <2>6, <2>7
<1> QED BY <1>6, <1>7

LEMMA PublishEventFiles ==
    ASSUME TypeOK, InStep, NEW t \in Thread, PublishEvent(t), NEW f \in File \ astray'
    PROVE  FileInStep(f)'
<1> DEFINE e == job[t].event
<1>1. /\ pc[t] = "event" /\ AfterEvent(t)
      /\ hand' = hand /\ replica' = replica /\ copy' = copy /\ file' = file
      /\ Proceed(t) \/ PublishFails(t) \/ MessageLost(t)
  BY DEF PublishEvent, slave, Proceed
<1> PICK m \in Message : /\ m.type = e.type /\ m.file = e.file /\ m.purge = properties
                         /\ queue' = Append(queue, m)
  BY EventSent
<1>2. /\ e.type \in {"add", "edit", "modify", "remove"} /\ e.style \in Style
      /\ e.purge = "true" => e.type = "remove"
  BY <1>1, BusyThread DEF InStep, JobOK
<1>3. InTransit \in Seq(Message) /\ InTransit' = Append(InTransit, m)
  BY <1>1, TransitType, TransitGrows
<1>4. astray' = Settling(t) \cup Mispurged(t)
  BY DEF PublishEvent
<1>5. FileInStep(f)
  <2>1. f # e.style
    BY <1>2, StyleAssumption
  <2>2. f \notin astray
    BY <1>4, <2>1 DEF Settling
  <2> QED BY <2>2 DEF InStep
\* What goes out is the option of the request, if the file is at stake.
<1>6. e.type = "remove" /\ e.file = f => (m.purge = "true" <=> e.purge = "true")
  BY <1>4 DEF Mispurged
<1>7. CASE e.purge = "true" /\ e.file = f
  <2>1. pc'[t] = "purge" /\ job' = job
    BY <1>1, <1>2, <1>7 DEF AfterEvent, Goto, TypeOK
  <2>2. Doomed(f)'
    BY <1>7, <2>1 DEF Doomed
  <2>3. Touches(m, f) /\ Brings(m) = Absent
    BY <1>2, <1>6, <1>7 DEF Touches, Brings
  <2>4. Delivers(Append(InTransit, m), f, copy[f], Brings(m))
    BY <1>3, <2>3, DeliversMore
  <2>5. Delivers(InTransit', f, copy'[f], Absent)
    BY <1>1, <1>3, <2>3, <2>4
  <2> QED BY <2>2, <2>5, FileInStepNext
<1>8. CASE ~(e.purge = "true" /\ e.file = f)
  <2>1. ~Touches(m, f)
    BY <1>2, <1>6, <1>8 DEF Touches
  <2>2. \A b : Delivers(InTransit, f, copy[f], b) => Delivers(InTransit', f, copy'[f], b)
    BY <1>1, <1>3, <2>1, DeliversMore
  <2>3. pc'[t] = "purge" => job'[t].event.file # f
    BY <1>1, <1>8, EventStays
  <2> QED BY <1>1, <1>5, <2>2, <2>3, FileAside
<1> QED BY <1>7, <1>8

\* A modification is there.
LEMMA CommitInStep ==
    ASSUME TypeOK, InStep, NEW t \in Thread, Commit(t)
    PROVE  /\ \A n \in Style \ astray' : StyleInStep(n)'
           /\ \A f \in File \ astray' : FileInStep(f)'
<1> DEFINE e == job[t].event
<1>1. /\ pc[t] = "commit" /\ pc'[t] = "idle"
      /\ UNCHANGED <<file, queue, slave>> /\ astray \subseteq astray'
      /\ Proceed(t) \/ PublishFails(t) \/ MessageLost(t)
  BY DEF Commit, Finish, TypeOK, Proceed
<1>2. replica' = replica /\ e.style \in Style
  BY <1>1, BusyThread DEF slave
<1>3. \A k \in Style :
        style'[k] = IF k # e.style THEN style[k]
                    ELSE IF style[k] = Absent THEN Absent ELSE e.file
  BY DEF Commit, TypeOK
<1>4. ASSUME NEW n \in Style \ astray'
      PROVE  StyleInStep(n)'
  <2>1. StyleInStep(n)
    BY <1>1, <1>4 DEF InStep
  <2>2. CASE e.style # n
    <3>1. /\ t \notin Telling(n) /\ t \notin Telling(n)'
          /\ t \notin Committing(n) /\ t \notin Committing(n)'
      BY <1>1, <2>2, AwayFromStyle
    <3> QED BY <1>1, <1>3, <2>1, <2>2, <3>1, StyleAside, NothingSent
  <2>3. CASE e.style = n
    <3>1. ~Contended(t)
      BY <1>4, <2>3 DEF Commit
    <3>2. t \in Committing(n) /\ t \notin Telling(n)
      BY <1>1, <2>3 DEF Committing, Telling
    <3>3. Committing(n) = {t} /\ Telling(n) = {}
      BY <2>3, <3>1, <3>2, NotContended
    <3>4. Leads(InTransit, n, replica[n], style'[n])
      BY <1>3, <2>1, <2>3, <3>3 DEF StyleInStep, Arrives
    <3>5. t \notin Committing(n)' /\ t \notin Telling(n)'
      BY <1>1 DEF Committing, Telling
    <3>6. Committing(n)' = {} /\ Telling(n)' = {}
      BY <1>1, <3>3, <3>5, OthersStay, AtStyle
    <3>7. Leads(InTransit', n, replica'[n], style'[n])
      BY <1>1, <3>4, NothingSent
    <3> QED BY <3>6, <3>7, StyleInStepNext
  <2> QED BY <2>2, <2>3
<1>5. ASSUME NEW f \in File \ astray'
      PROVE  FileInStep(f)'
  <2>1. FileInStep(f)
    BY <1>1, <1>5 DEF InStep
  <2> QED BY <1>1, <2>1, FileAside, NothingSent
<1> QED BY <1>4, <1>5

\* The file of a style that was removed is deleted.
LEMMA PurgeInStep ==
    ASSUME TypeOK, InStep, NEW t \in Thread, Purge(t)
    PROVE  /\ \A n \in Style \ astray' : StyleInStep(n)'
           /\ \A f \in File \ astray' : FileInStep(f)'
<1>1. /\ pc[t] = "purge" /\ pc'[t] = "idle"
      /\ UNCHANGED <<style, queue, slave, astray>>
      /\ Proceed(t) \/ PublishFails(t) \/ MessageLost(t)
  BY DEF Purge, Finish, TypeOK, Proceed
<1>2. ASSUME NEW n \in Style \ astray'
      PROVE  StyleInStep(n)'
  <2>1. StyleInStep(n)
    BY <1>1, <1>2 DEF InStep
  <2>2. /\ t \notin Telling(n) /\ t \notin Telling(n)'
        /\ t \notin Committing(n) /\ t \notin Committing(n)'
    BY <1>1 DEF Telling, Committing
  <2> QED BY <1>1, <2>1, <2>2, StyleAside, NothingSent
<1>3. ASSUME NEW f \in File \ astray'
      PROVE  FileInStep(f)'
  <2>1. FileInStep(f)
    BY <1>1, <1>3 DEF InStep
  <2>2. CASE f # job[t].event.file
    <3>1. file'[f] = file[f]
      BY <1>3, <2>2 DEF Purge, TypeOK
    <3> QED BY <1>1, <2>1, <2>2, <3>1, FileAside, NothingSent
  <2>3. CASE f = job[t].event.file
    <3>1. file'[f] = Absent
      BY <1>3, <2>3 DEF Purge, TypeOK
    <3>2. Doomed(f)
      BY <1>1, <2>3 DEF Doomed
    <3>3. Sending(f) => Sending(f)'
      BY <1>1, OthersStay, AtFile
    <3>4. ~Sending(f)' => Delivers(InTransit, f, copy[f], Absent)
      BY <2>1, <3>2, <3>3 DEF FileInStep
    <3>5. ~Sending(f)' => Delivers(InTransit', f, copy'[f], Absent)
      BY <1>1, <3>4, NothingSent
    <3> QED BY <3>1, <3>5, FileInStepNext
  <2> QED BY <2>2, <2>3
<1> QED BY <1>2, <1>3

\* A message is lost on the way to the broker.
LEMMA LossInStep ==
    ASSUME TypeOK, InStep, NEW t \in Thread, MessageLost(t)
    PROVE  /\ \A n \in Style \ astray' : StyleInStep(n)'
           /\ \A f \in File \ astray' : FileInStep(f)'
<1>1. /\ UNCHANGED <<style, file, queue, slave>> /\ astray \subseteq astray'
      /\ Proceed(t) \/ PublishFails(t) \/ MessageLost(t)
  BY DEF MessageLost
<1>2. pc[t] \in {"file", "event"}
  BY DEF MessageLost
<1>3. CASE pc[t] = "file"
  <2>1. pc'[t] = "event" /\ job' = job /\ job[t].source \in astray'
    BY <1>3 DEF MessageLost, Goto, TypeOK
  <2>2. ASSUME NEW n \in Style \ astray'
        PROVE  StyleInStep(n)'
    <3>1. StyleInStep(n)
      BY <1>1, <2>2 DEF InStep
    <3>2. /\ t \in Telling(n)' <=> t \in Telling(n)
          /\ t \notin Committing(n) /\ t \notin Committing(n)'
      BY <1>3, <2>1 DEF Telling, Committing
    <3> QED BY <1>1, <3>1, <3>2, StyleAside, NothingSent
  <2>3. ASSUME NEW f \in File \ astray'
        PROVE  FileInStep(f)'
    <3>1. FileInStep(f) /\ job[t].source # f
      BY <1>1, <2>1, <2>3 DEF InStep
    <3> QED BY <1>1, <1>3, <2>1, <3>1, FileAside, NothingSent
  <2> QED BY <2>2, <2>3
<1>4. CASE pc[t] = "event"
  <2>1. Concerned(job[t].event) \subseteq astray'
    BY <1>4 DEF MessageLost
  <2>2. /\ job[t].event.type # "file"
        /\ job[t].event.purge = "true" => job[t].event.type = "remove"
    BY <1>4, BusyThread DEF InStep, JobOK
  <2>3. ASSUME NEW n \in Style \ astray'
        PROVE  StyleInStep(n)'
    <3>1. StyleInStep(n) /\ n \notin Concerned(job[t].event)
      BY <1>1, <2>1, <2>3 DEF InStep
    <3>2. job[t].event.style # n \/ job[t].event.type = "edit"
      BY <2>2, <3>1 DEF Concerned
    <3>3. /\ t \notin Telling(n) /\ t \notin Telling(n)'
          /\ t \notin Committing(n) /\ t \notin Committing(n)'
      BY <1>1, <3>2, AwayFromStyle
    <3> QED BY <1>1, <3>1, <3>3, StyleAside, NothingSent
  <2>4. ASSUME NEW f \in File \ astray'
        PROVE  FileInStep(f)'
    <3>1. FileInStep(f) /\ f \notin Concerned(job[t].event)
      BY <1>1, <2>1, <2>4 DEF InStep
    <3>2. job[t].event.purge = "true" => job[t].event.file # f
      BY <2>2, <3>1 DEF Concerned
    <3>3. pc'[t] = "purge" => job'[t].event.file # f
      BY <1>1, <3>2, EventStays
    <3> QED BY <1>1, <1>4, <3>1, <3>3, FileAside, NothingSent
  <2> QED BY <2>3, <2>4
<1> QED BY <1>2, <1>3, <1>4

-----------------------------------------------------------------------------
(***************************************************************************)
(* The steps of the slave.                                                 *)
(***************************************************************************)
LEMMA MasterStays ==
    ASSUME OnMessage \/ HandlerFails
    PROVE  /\ \A n : StyleInStep(n)
                       /\ (\A f : Leads(InTransit, n, replica[n], f)
                                    => Leads(InTransit', n, replica'[n], f))
                     => StyleInStep(n)'
           /\ \A f : FileInStep(f)
                       /\ (\A b : Delivers(InTransit, f, copy[f], b)
                                    => Delivers(InTransit', f, copy'[f], b))
                     => FileInStep(f)'
<1>1. pc' = pc /\ job' = job /\ style' = style /\ file' = file
  BY ThreadsStay
<1>2. /\ \A n : Telling(n)' = Telling(n) /\ Committing(n)' = Committing(n)
      /\ \A f : (Sending(f) => Sending(f)') /\ Doomed(f)' = Doomed(f)
  BY <1>1 DEF Telling, Committing, Sending, Doomed
<1>3. \A t \in Thread : pc[t] # "idle" /\ pc'[t] # "idle" => job'[t].event = job[t].event
  BY <1>1
<1> QED BY <1>1, <1>2, <1>3, StyleStays, FileStays

\* The message the slave works on has its effect on a style, or a file.
LEMMA MessageDone ==
    ASSUME TypeOK, hand # NoMessage, hand' = NoMessage, queue' = queue
    PROVE  /\ \A n : replica'[n] = Told(replica[n], hand, n) =>
                \A f : Leads(InTransit, n, replica[n], f) => Leads(InTransit', n, replica'[n], f)
           /\ \A f : copy'[f] = (IF Touches(hand, f) THEN Brings(hand) ELSE copy[f]) =>
                \A b : Delivers(InTransit, f, copy[f], b) => Delivers(InTransit', f, copy'[f], b)
<1>1. /\ InTransit \in Seq(Message) /\ InTransit # <<>>
      /\ Head(InTransit) = hand /\ InTransit' = Tail(InTransit)
  BY TransitType, TransitHandled
<1>2. ASSUME NEW n, replica'[n] = Told(replica[n], hand, n), NEW f,
             Leads(InTransit, n, replica[n], f)
      PROVE  Leads(InTransit', n, replica'[n], f)
  <2>1. Leads(Tail(InTransit), n, Told(replica[n], Head(InTransit), n), f)
    BY <1>1, <1>2, LeadsGoesOn
  <2> QED BY <1>1, <1>2, <2>1
<1>3. ASSUME NEW f, copy'[f] = (IF Touches(hand, f) THEN Brings(hand) ELSE copy[f]), NEW b,
             Delivers(InTransit, f, copy[f], b)
      PROVE  Delivers(InTransit', f, copy'[f], b)
  <2>1. Delivers(Tail(InTransit), f,
                 IF Touches(Head(InTransit), f) THEN Brings(Head(InTransit)) ELSE copy[f], b)
    BY <1>1, <1>3, DeliversRest
  <2> QED BY <1>1, <1>3, <2>1
<1> QED BY <1>2, <1>3

\* What the slave makes of a message, except that the file it deletes may be another.
LEMMA EffectOfMessage ==
    ASSUME TypeOK, WriteFile \/ AddStyle \/ ModifyStyle \/ EditStyle \/ RemoveStyle
    PROVE  /\ hand # NoMessage /\ hand' = NoMessage /\ queue' = queue
           /\ \A n \in Style : replica'[n] = Told(replica[n], hand, n)
           /\ \A f \in File \ astray' :
                copy'[f] = (IF Touches(hand, f) THEN Brings(hand) ELSE copy[f])
           /\ astray \subseteq astray'
<1>1. hand \in Message /\ hand # NoMessage /\ hand' = NoMessage /\ queue' = queue
  BY DEF TypeOK, NoMessage, WriteFile, AddStyle, ModifyStyle, EditStyle, RemoveStyle, Handled
<1>2. CASE WriteFile
  <2>1. hand.type = "file" /\ replica' = replica /\ astray' = astray
        /\ copy' = [copy EXCEPT ![hand.file] = hand.body]
    BY <1>2 DEF WriteFile, Handled
  <2> QED BY <1>1, <2>1 DEF Told, Touches, Brings, TypeOK
<1>3. CASE AddStyle
  <2>1. hand.type = "add" /\ copy' = copy /\ astray' = astray
        /\ replica' = [replica EXCEPT ![hand.style] = IF @ = Absent THEN hand.file ELSE @]
    BY <1>3 DEF AddStyle, Handled
  <2> QED BY <1>1, <2>1 DEF Told, Touches, TypeOK
<1>4. CASE ModifyStyle
  <2>1. hand.type = "modify" /\ copy' = copy /\ astray' = astray
        /\ replica' = [replica EXCEPT ![hand.style] = IF @ = Absent THEN Absent ELSE hand.file]
    BY <1>4 DEF ModifyStyle, Handled
  <2> QED BY <1>1, <2>1 DEF Told, Touches, TypeOK
<1>5. CASE EditStyle
  <2>1. hand.type = "edit" /\ UNCHANGED <<replica, copy, astray>>
    BY <1>5 DEF EditStyle, Handled
  <2> QED BY <1>1, <2>1 DEF Told, Touches
<1>6. CASE RemoveStyle
  <2> DEFINE f == IF replica[hand.style] # Absent THEN replica[hand.style] ELSE hand.file
  <2>1. /\ hand.type = "remove"
        /\ replica' = [replica EXCEPT ![hand.style] = Absent]
        /\ copy' = IF hand.purge = "true" THEN [copy EXCEPT ![f] = Absent] ELSE copy
        /\ astray' = IF hand.purge = "true" /\ f # hand.file THEN astray \cup {f, hand.file} ELSE astray
    BY <1>6 DEF RemoveStyle, Handled
  <2> HIDE DEF f
  <2>2. \A n \in Style : replica'[n] = Told(replica[n], hand, n)
    BY <2>1 DEF Told, TypeOK
  <2>3. ASSUME NEW g \in File \ astray'
        PROVE  copy'[g] = (IF Touches(hand, g) THEN Brings(hand) ELSE copy[g])
    BY <2>1, <2>3 DEF Touches, Brings, TypeOK
  <2> QED BY <1>1, <2>1, <2>2, <2>3
<1> QED BY <1>2, <1>3, <1>4, <1>5, <1>6

LEMMA SlaveInStep ==
    ASSUME TypeOK, InStep, OnMessage \/ HandlerFails
    PROVE  /\ \A n \in Style \ astray' : StyleInStep(n)'
           /\ \A f \in File \ astray' : FileInStep(f)'
<1>1. astray \subseteq astray'
  BY EffectOfMessage DEF OnMessage, Take, OpenFile, HandlerFails
<1>2. /\ \A n \in Style \ astray' : StyleInStep(n)
      /\ \A f \in File \ astray' : FileInStep(f)
  BY <1>1 DEF InStep
<1>3. CASE Take
  <2>1. InTransit' = InTransit /\ replica' = replica /\ copy' = copy
    BY <1>3, TransitTaken DEF Take
  <2> QED BY <1>2, <2>1, MasterStays
<1>4. CASE OpenFile
  <2>1. InTransit' = InTransit /\ replica' = replica /\ hand.type = "file"
        /\ copy' = [copy EXCEPT ![hand.file] = Torn]
    BY <1>4 DEF OpenFile, InTransit
  <2>2. hand # NoMessage
    BY <2>1 DEF NoMessage
  <2>3. /\ InTransit \in Seq(Message) /\ InTransit # <<>> /\ Head(InTransit) = hand
    BY <2>2, TransitType, TransitHandled
  <2>4. ASSUME NEW f \in File, NEW b, Delivers(InTransit, f, copy[f], b)
        PROVE  Delivers(InTransit', f, copy'[f], b)
    <3>1. CASE f = hand.file
      <4>1. Touches(Head(InTransit), f)
        BY <2>1, <2>3, <3>1 DEF Touches
      <4> QED BY <2>1, <2>3, <2>4, <4>1, DeliversWhatever
    <3>2. CASE f # hand.file
      <4>1. copy'[f] = copy[f]
        BY <2>1, <3>2 DEF TypeOK
      <4> QED BY <2>1, <2>4, <4>1
    <3> QED BY <3>1, <3>2
  <2> QED BY <1>2, <2>1, <2>4, MasterStays
<1>5. CASE WriteFile \/ AddStyle \/ ModifyStyle \/ EditStyle \/ RemoveStyle
  BY <1>2, <1>5, EffectOfMessage, MessageDone, MasterStays
<1>6. CASE HandlerFails
  <2>1. /\ hand # NoMessage /\ hand' = NoMessage
        /\ UNCHANGED <<queue, replica, copy>>
        /\ Concerned(hand) \subseteq astray'
    BY <1>6 DEF HandlerFails
  <2>2. hand \in Message
    BY <2>1 DEF TypeOK
  <2>3. \A n \in Style \ astray' : Told(replica[n], hand, n) = replica[n]
    BY <2>1 DEF Told, Concerned
  <2>4. \A f \in File \ astray' : ~Touches(hand, f)
    BY <2>1, <2>2, MessageParts DEF Touches, Concerned
  <2> QED BY <1>2, <2>1, <2>3, <2>4, MessageDone, MasterStays
<1> QED BY <1>3, <1>4, <1>5, <1>6 DEF OnMessage

-----------------------------------------------------------------------------
\* Whatever is on its way, the styles and files that are not astray will be those of the
\* master.
LEMMA InStepHolds == Spec => []InStep
<1>1. Init => InStep
  <2> SUFFICES ASSUME Init PROVE InStep
    OBVIOUS
  <2>1. InTransit = <<>> /\ Len(InTransit) = 0 /\ \A t \in Thread : pc[t] = "idle"
    BY DEF Init, InTransit
  <2>2. \A n : Telling(n) = {} /\ Committing(n) = {}
    BY <2>1 DEF Telling, Committing
  <2>3. ASSUME NEW n \in Style
        PROVE  StyleInStep(n)
    <3> DEFINE h == [k \in 0 .. 0 |-> style[n]]
    <3>1. style[n] \in File \cup {Absent} /\ replica[n] = style[n]
      BY DEF Init
    <3>2. h \in [0 .. 0 -> File \cup {Absent}] /\ h[0] = style[n]
      BY <3>1
    <3> HIDE DEF h
    <3>3. h \in History(InTransit, 0) /\ IsHistory(h, InTransit, 0, n)
      BY <2>1, <3>2 DEF History, IsHistory
    <3>4. 0 \in 0 .. Len(InTransit) /\ h[Len(InTransit)] = style[n] /\ h[0] = replica[n]
      BY <2>1, <3>1, <3>2
    <3>5. Leads(InTransit, n, replica[n], style[n])
      BY <3>3, <3>4 DEF Leads
    <3> QED BY <2>2, <3>5 DEF StyleInStep, Arrives
  <2>4. \A f \in File : FileInStep(f)
    <3>1. \A f : ~Doomed(f)
      BY <2>1 DEF Doomed
    <3>2. copy = file
      BY DEF Init
    <3> QED BY <2>1, <3>1, <3>2 DEF FileInStep, Delivers
  <2> QED BY <2>1, <2>3, <2>4 DEF InStep, JobOK
<1>2. TypeOK /\ HasRead /\ InStep /\ [Next]_vars => InStep'
  <2> SUFFICES ASSUME TypeOK, HasRead, InStep, [Next]_vars PROVE InStep'
    OBVIOUS
  <2>1. CASE UNCHANGED vars
    <3>1. \A t \in Thread : JobOK(t)'
      BY <2>1 DEF vars, InStep, JobOK
    <3>2. pc' = pc /\ job' = job /\ style' = style /\ file' = file /\ astray' = astray
          /\ InTransit' = InTransit /\ replica' = replica /\ copy' = copy
      BY <2>1 DEF vars, InTransit
    <3>3. \A n \in Style \ astray' : StyleInStep(n)'
      <4>1. \A n : Telling(n)' = Telling(n) /\ Committing(n)' = Committing(n)
        BY <3>2 DEF Telling, Committing
      <4> QED BY <3>2, <4>1, StyleStays DEF InStep
    <3>4. \A f \in File \ astray' : FileInStep(f)'
      <4>1. \A f : (Sending(f) => Sending(f)') /\ Doomed(f)' = Doomed(f)
        BY <3>2 DEF Sending, Doomed
      <4> QED BY <3>2, <4>1, FileStays DEF InStep
    <3> QED BY <3>1, <3>3, <3>4 DEF InStep
  <2>2. CASE OnMessage \/ HandlerFails
    <3>1. \A t \in Thread : JobOK(t)'
      BY <2>2, ThreadsStay DEF InStep, JobOK
    <3> QED BY <2>2, <3>1, SlaveInStep DEF InStep
  <2>3. ASSUME NEW t \in Thread, Request(t) \/ Proceed(t) \/ PublishFails(t) \/ MessageLost(t)
        PROVE  InStep'
    <3>1. \A u \in Thread : JobOK(u)'
      BY <2>3, JobsStayOK DEF InStep
    <3>2. PublishEvent(t) => /\ \A n \in Style \ astray' : StyleInStep(n)'
                             /\ \A f \in File \ astray' : FileInStep(f)'
      BY PublishEventStyles, PublishEventFiles
    <3>3. Request(t) => /\ \A n \in Style \ astray' : StyleInStep(n)'
                        /\ \A f \in File \ astray' : FileInStep(f)'
      BY RequestStyles, RequestFiles
    <3>4. PublishFails(t) => /\ \A n \in Style \ astray' : StyleInStep(n)'
                             /\ \A f \in File \ astray' : FileInStep(f)'
      BY UndoneAstray DEF PublishFails
    <3>5. /\ \A n \in Style \ astray' : StyleInStep(n)'
          /\ \A f \in File \ astray' : FileInStep(f)'
      BY <2>3, <3>2, <3>3, <3>4, UpdatePropertiesInStep, NotifyInStep, PublishFileInStep,
         CommitInStep, PurgeInStep, LossInStep DEF Proceed
    <3> QED BY <3>1, <3>5 DEF InStep
  <2> QED BY <2>1, <2>2, <2>3 DEF Next
<1> QED BY <1>1, <1>2, TypesHold, PTL DEF Spec

\* When nothing is on its way the slave has the styles and the files of the master but for
\* those that went astray, for any number of threads and messages.
THEOREM StylesSettleAlike == Spec => []SettledAlike
<1>1. InStep => SettledAlike
  <2> SUFFICES ASSUME InStep, Settled PROVE /\ \A n \in Style \ astray : replica[n] = style[n]
                                            /\ \A f \in File \ astray : copy[f] = file[f]
    BY DEF SettledAlike
  <2>1. InTransit = <<>> /\ Len(InTransit) = 0 /\ \A t \in Thread : pc[t] = "idle"
    BY DEF Settled, InTransit
  <2>2. ASSUME NEW n \in Style \ astray
        PROVE  replica[n] = style[n]
    <3>1. Telling(n) = {} /\ Committing(n) = {}
      BY <2>1 DEF Telling, Committing
    <3>2. Leads(InTransit, n, replica[n], style[n])
      BY <2>2, <3>1 DEF InStep, StyleInStep, Arrives
    <3> QED BY <2>1, <3>2 DEF Leads
  <2>3. ASSUME NEW f \in File \ astray
        PROVE  copy[f] = file[f]
    <3>1. ~Sending(f) /\ ~Doomed(f)
      BY <2>1 DEF Sending, Doomed
    <3>2. Delivers(InTransit, f, copy[f], file[f])
      BY <2>3, <3>1 DEF InStep, FileInStep
    <3> QED BY <2>1, <3>2 DEF Delivers
  <2> QED BY <2>2, <2>3
<1> QED BY <1>1, InStepHolds, PTL

-----------------------------------------------------------------------------
(***************************************************************************)
(* The file before the style.  As long as nothing fails and no two         *)
(* requests overlap, an event that needs a file comes right behind it.     *)
(***************************************************************************)
Undisturbed == ~overlapped /\ faults = 0

Alone == \A t, u \in Thread : pc[t] # "idle" /\ pc[u] # "idle" => t = u

\* When the slave has handled k of the messages q, file f is there, which holds "body"
\* now.
Ready(q, k, f, body) ==
    IF k = 0 THEN body \in Body ELSE q[k].type = "file" /\ q[k].file = f

InOrder ==
    \A k \in 1 .. Len(InTransit) :
      InTransit[k].type \in {"add", "edit"} =>
        Ready(InTransit, k - 1, InTransit[k].file, copy[InTransit[k].file])

\* A thread sends the file of its style, and then the event.
Prepared(t) ==
    pc[t] # "idle" /\ job[t].event.type \in {"add", "edit"} =>
      /\ job[t].source = job[t].event.file
      /\ style[job[t].event.style] = job[t].event.file
      /\ pc[t] = "event" =>
           Ready(InTransit, Len(InTransit), job[t].event.file, copy[job[t].event.file])

\* The messages make the file of style n one of S, and an edit finds it with the file
\* that was sent, or not at all.
Expected(q, n, from, S) ==
    \E h \in History(q, 0) :
      /\ h[0] = from
      /\ IsHistory(h, q, 0, n)
      /\ \A k \in 1 .. Len(q) :
           q[k].type = "edit" /\ q[k].style = n => h[k - 1] \in {Absent, q[k].file}
      /\ h[Len(q)] \in S

\* An addition may fail unnoticed, so that the slave has the style of the master or none.
StyleExpected(n) ==
    /\ Telling(n) = {} /\ Committing(n) = {} =>
         Expected(InTransit, n, replica[n], {Absent, style[n]})
    /\ \A t \in Telling(n) :
         Expected(InTransit, n, replica[n],
                  IF job[t].event.type = "add" THEN {Absent} ELSE File \cup {Absent})
    /\ \A t \in Committing(n) :
         Expected(InTransit, n, replica[n],
                  {Absent, IF style[n] = Absent THEN Absent ELSE job[t].event.file})

InTurn ==
    Undisturbed =>
      /\ Alone
      /\ \A t \in Thread : Prepared(t)
      /\ InOrder
      /\ \A n \in Style : StyleExpected(n)

\* The same of the next state.
LEMMA InOrderNext ==
    ASSUME NEW q, q = InTransit', NEW c, c = copy'
    PROVE  InOrder' = \A k \in 1 .. Len(q) :
                        q[k].type \in {"add", "edit"} =>
                          Ready(q, k - 1, q[k].file, c[q[k].file])
BY DEF InOrder, Ready

LEMMA PreparedNext ==
    ASSUME NEW t
    PROVE  Prepared(t)' =
             (pc'[t] # "idle" /\ job'[t].event.type \in {"add", "edit"} =>
                /\ job'[t].source = job'[t].event.file
                /\ style'[job'[t].event.style] = job'[t].event.file
                /\ pc'[t] = "event" =>
                     Ready(InTransit', Len(InTransit'), job'[t].event.file,
                           copy'[job'[t].event.file]))
BY DEF Prepared, Ready

LEMMA StyleExpectedNext ==
    ASSUME NEW n
    PROVE  StyleExpected(n)' =
             /\ Telling(n)' = {} /\ Committing(n)' = {} =>
                  Expected(InTransit', n, replica'[n], {Absent, style'[n]})
             /\ \A t \in Telling(n)' :
                  Expected(InTransit', n, replica'[n],
                           IF job'[t].event.type = "add" THEN {Absent} ELSE File \cup {Absent})
             /\ \A t \in Committing(n)' :
                  Expected(InTransit', n, replica'[n],
                           {Absent, IF style'[n] = Absent THEN Absent ELSE job'[t].event.file})
BY DEF StyleExpected, Expected, History, IsHistory, Told

\* One message more, and one less.
LEMMA ExpectedGrows ==
    ASSUME NEW q \in Seq(Message), NEW m \in Message, NEW n, NEW from, NEW S, NEW T,
           Expected(q, n, from, S),
           \A f \in S : /\ m.type = "edit" /\ m.style = n => f \in {Absent, m.file}
                        /\ Told(f, m, n) \in T
    PROVE  Expected(Append(q, m), n, from, T)
<1> DEFINE r == Append(q, m)
<1>1. PICK h \in History(q, 0) :
        /\ h[0] = from
        /\ IsHistory(h, q, 0, n)
        /\ \A k \in 1 .. Len(q) :
             q[k].type = "edit" /\ q[k].style = n => h[k - 1] \in {Absent, q[k].file}
        /\ h[Len(q)] \in S
  BY DEF Expected
<1>2. /\ Len(q) \in Nat /\ Len(r) = Len(q) + 1 /\ r[Len(q) + 1] = m
      /\ \A k \in 1 .. Len(q) : r[k] = q[k]
  BY LenProperties, AppendProperties
<1>3. 0 \in 0 .. Len(q)
  BY <1>2
<1>4. PICK g \in History(r, 0) :
        /\ \A k \in 0 .. Len(q) : g[k] = h[k]
        /\ g[Len(q) + 1] = Told(h[Len(q)], m, n)
        /\ IsHistory(g, r, 0, n)
  BY <1>1, <1>3, HistoryGrows
<1> HIDE DEF r
<1>5. ASSUME NEW k \in 1 .. Len(r), r[k].type = "edit", r[k].style = n
      PROVE  g[k - 1] \in {Absent, r[k].file}
  <2>1. k - 1 \in 0 .. Len(q)
    BY <1>2
  <2>2. g[k - 1] = h[k - 1]
    BY <1>4, <2>1
  <2>3. CASE k = Len(q) + 1
    <3>1. k - 1 = Len(q) /\ r[k] = m
      BY <1>2, <2>3
    <3>2. g[k - 1] \in S
      BY <1>1, <2>2, <3>1
    <3> QED BY <1>5, <3>1, <3>2
  <2>4. CASE k # Len(q) + 1
    <3>1. k \in 1 .. Len(q)
      BY <1>2, <2>4
    <3> QED BY <1>1, <1>2, <1>5, <2>2, <3>1
  <2> QED BY <2>3, <2>4
<1>6. g[Len(r)] \in T /\ g[0] = from
  BY <1>1, <1>2, <1>3, <1>4
<1> QED BY <1>4, <1>5, <1>6 DEF Expected, r

LEMMA ExpectedGoesOn ==
    ASSUME NEW q \in Seq(Message), q # <<>>, NEW n, NEW from, NEW S, Expected(q, n, from, S)
    PROVE  /\ Expected(Tail(q), n, Told(from, Head(q), n), S)
           /\ Head(q).type = "edit" /\ Head(q).style = n => from \in {Absent, Head(q).file}
<1> DEFINE r == Tail(q)
<1>1. PICK h \in History(q, 0) :
        /\ h[0] = from
        /\ IsHistory(h, q, 0, n)
        /\ \A k \in 1 .. Len(q) :
             q[k].type = "edit" /\ q[k].style = n => h[k - 1] \in {Absent, q[k].file}
        /\ h[Len(q)] \in S
  BY DEF Expected
<1>2. /\ Len(q) \in Nat \ {0} /\ Len(r) = Len(q) - 1 /\ Head(q) = q[1]
      /\ 1 \in 1 .. Len(q) /\ 1 - 1 = 0 /\ 0 \in 0 .. Len(r)
  BY LenProperties, HeadTailProperties, EmptySeq
<1>3. \A k \in 1 .. Len(r) : r[k] = q[k + 1]
  BY <1>2, HeadTailProperties
<1>4. PICK g \in History(r, 0) :
        /\ \A k \in 0 .. Len(r) : g[k] = h[k + 1]
        /\ IsHistory(g, r, 0, n)
  <2>1. 0 \in 0 .. 0 + 1 /\ 0 < Len(q) /\ 0 \in Nat
    BY <1>2
  <2> QED BY <1>1, <2>1, HistoryGoesOn
<1> HIDE DEF r
<1>5. g[0] = Told(from, Head(q), n)
  <2>1. h[1] = Told(h[1 - 1], q[1], n)
    BY <1>1, <1>2 DEF IsHistory
  <2> QED BY <1>1, <1>2, <1>4, <2>1
<1>6. g[Len(r)] \in S
  <2>1. Len(r) \in 0 .. Len(r) /\ Len(r) + 1 = Len(q)
    BY <1>2
  <2> QED BY <1>1, <1>4, <2>1
<1>7. ASSUME NEW k \in 1 .. Len(r), r[k].type = "edit", r[k].style = n
      PROVE  g[k - 1] \in {Absent, r[k].file}
  <2>1. k - 1 \in 0 .. Len(r) /\ k + 1 \in 1 .. Len(q) /\ (k + 1) - 1 = (k - 1) + 1
    BY <1>2
  <2>2. h[(k + 1) - 1] \in {Absent, r[k].file}
    BY <1>1, <1>3, <1>7, <2>1
  <2> QED BY <1>4, <2>1, <2>2
<1>8. Head(q).type = "edit" /\ Head(q).style = n => from \in {Absent, Head(q).file}
  BY <1>1, <1>2
<1> QED BY <1>4, <1>5, <1>6, <1>7, <1>8 DEF Expected, r

LEMMA ExpectedMore ==
    ASSUME NEW q, NEW n, NEW from, NEW S, NEW T, Expected(q, n, from, S), S \subseteq T
    PROVE  Expected(q, n, from, T)
BY DEF Expected

\* As long as nothing was disturbed only one thread is busy.
LEMMA OnlyThread ==
    ASSUME TypeOK, InTurn, NEW t \in Thread, Request(t) \/ Proceed(t), Undisturbed'
    PROVE  /\ Undisturbed /\ InOrder /\ Prepared(t) /\ \A n \in Style : StyleExpected(n)
           /\ \A u \in Thread : u # t => pc[u] = "idle" /\ pc'[u] = "idle"
<1>1. CASE Request(t)
  <2>1. /\ pc[t] = "idle" /\ faults' = faults
        /\ overlapped' = (overlapped \/ \E u \in Thread : pc[u] # "idle")
    BY <1>1, RequestBegins DEF Begin
  <2>2. Undisturbed /\ \A u \in Thread : pc[u] = "idle"
    BY <2>1 DEF Undisturbed
  <2> QED BY <1>1, <2>2, OthersStay DEF InTurn
<1>2. CASE Proceed(t)
  <2>1. overlapped' = overlapped /\ faults' = faults
    BY <1>2 DEF Proceed, UpdateProperties, Notify, PublishFile, PublishEvent, Commit, Purge
  <2>2. Undisturbed /\ pc[t] # "idle"
    BY <1>2, <2>1, EventStays DEF Undisturbed
  <2>3. \A u \in Thread : u # t => pc[u] = "idle"
    BY <2>2 DEF InTurn, Alone
  <2> QED BY <1>2, <2>2, <2>3, OthersStay DEF InTurn
<1> QED BY <1>1, <1>2

\* Nothing is sent, and the messages are in order.
LEMMA UnsentInOrder ==
    ASSUME UNCHANGED <<queue, slave>>
    PROVE  /\ InOrder => InOrder'
           /\ \A n, S : Expected(InTransit, n, replica[n], S)
                          => Expected(InTransit', n, replica'[n], S)
<1>1. InTransit' = InTransit /\ replica' = replica /\ copy' = copy
  BY DEF InTransit, slave
<1> QED BY <1>1, InOrderNext DEF InOrder

\* A style that is not what the step of a thread is about.
LEMMA ExpectedAside ==
    ASSUME TypeOK, NEW t \in Thread, Proceed(t),
           NEW n, StyleExpected(n), style'[n] = style[n],
           t \in Telling(n)' <=> t \in Telling(n),
           t \in Committing(n)' <=> t \in Committing(n),
           \A S : Expected(InTransit, n, replica[n], S) => Expected(InTransit', n, replica'[n], S)
    PROVE  StyleExpected(n)'
<1>1. \A u \in Thread : u # t => pc'[u] = pc[u] /\ job'[u] = job[u]
  BY OthersStay
<1>2. Telling(n)' = Telling(n) /\ Committing(n)' = Committing(n)
  BY <1>1, AtStyle
<1>3. \A u \in Telling(n) \cup Committing(n) : job'[u].event = job[u].event
  <2>1. \A u \in Thread : pc[u] # "idle" /\ pc'[u] # "idle" => job'[u].event = job[u].event
    BY <1>1, EventStays
  <2>2. \A u \in Telling(n) \cup Committing(n) : u \in Thread /\ pc[u] # "idle"
    BY DEF Telling, Committing
  <2>3. \A u \in Telling(n)' \cup Committing(n)' : pc'[u] # "idle"
    BY DEF Telling, Committing
  <2> QED BY <1>2, <2>1, <2>2, <2>3
<1>4. Telling(n) = {} /\ Committing(n) = {} =>
        Expected(InTransit', n, replica'[n], {Absent, style'[n]})
  BY DEF StyleExpected
<1>5. ASSUME NEW u \in Telling(n)
      PROVE  Expected(InTransit', n, replica'[n],
                      IF job'[u].event.type = "add" THEN {Absent} ELSE File \cup {Absent})
  BY <1>3, <1>5 DEF StyleExpected
<1>6. ASSUME NEW u \in Committing(n)
      PROVE  Expected(InTransit', n, replica'[n],
                      {Absent, IF style'[n] = Absent THEN Absent ELSE job'[u].event.file})
  BY <1>3, <1>6 DEF StyleExpected
<1> QED BY <1>2, <1>4, <1>5, <1>6, StyleExpectedNext

\* A request begins, alone.
LEMMA RequestInTurn ==
    ASSUME TypeOK, InTurn, NEW t \in Thread, Request(t), Undisturbed'
    PROVE  /\ InOrder' /\ Prepared(t)'
           /\ \A n \in Style : StyleExpected(n)'
<1>1. /\ InOrder /\ \A n \in Style : StyleExpected(n)
      /\ \A u \in Thread : u # t => pc[u] = "idle" /\ pc'[u] = "idle"
  BY OnlyThread
<1>2. pc[t] = "idle" /\ pc'[t] = "options" /\ UNCHANGED <<queue, slave>>
  BY RequestJob DEF slave
<1>3. /\ InOrder'
      /\ \A n, S : Expected(InTransit, n, replica[n], S)
                     => Expected(InTransit', n, replica'[n], S)
  BY <1>1, <1>2, UnsentInOrder
<1>4. \A n : Committing(n)' = {} /\ Telling(n)' \subseteq {t}
  BY <1>1, <1>2 DEF Committing, Telling
<1>5. \A n \in Style : Expected(InTransit', n, replica'[n], {Absent, style[n]})
  <2>1. \A n \in Style : Telling(n) = {} /\ Committing(n) = {}
    BY <1>1, <1>2 DEF Telling, Committing
  <2> QED BY <1>1, <1>3, <2>1 DEF StyleExpected
<1>6. ASSUME NEW n \in Style, style'[n] = style[n], t \notin Telling(n)'
      PROVE  StyleExpected(n)'
  BY <1>4, <1>5, <1>6, StyleExpectedNext
<1>7. ASSUME NEW k \in Style, NEW f \in File, RequestAdd(t, k, f), Begin(t, "add", k, f, "unset")
      PROVE  Prepared(t)' /\ \A n \in Style : StyleExpected(n)'
  <2>1. /\ job'[t].event.type = "add" /\ job'[t].event.style = k /\ job'[t].event.file = f
        /\ job'[t].source = IF style[k] = Absent THEN f ELSE style[k]
    BY <1>7 DEF Begin, TypeOK
  <2>2. style[k] = Absent /\ style' = [style EXCEPT ![k] = f]
    BY <1>7 DEF RequestAdd
  <2>3. style'[k] = f /\ \A n \in Style : n # k => style'[n] = style[n]
    BY <2>2 DEF TypeOK
  <2>4. Prepared(t)'
    BY <1>2, <2>1, <2>2, <2>3, PreparedNext
  <2>5. ASSUME NEW n \in Style
        PROVE  StyleExpected(n)'
    <3>1. CASE n # k
      BY <1>6, <2>1, <2>3, <3>1 DEF Telling
    <3>2. CASE n = k
      <4>1. Telling(n)' = {t}
        BY <1>2, <1>4, <2>1, <3>2 DEF Telling
      <4>2. Expected(InTransit', n, replica'[n], {Absent})
        BY <1>5, <2>2, <3>2, ExpectedMore
      <4> QED BY <1>4, <2>1, <4>1, <4>2, StyleExpectedNext
    <3> QED BY <3>1, <3>2
  <2> QED BY <2>4, <2>5
<1>8. ASSUME NEW k \in Style, NEW purge \in Option, RequestRemove(t, k, purge),
             Begin(t, "remove", k, style[k], purge)
      PROVE  Prepared(t)' /\ \A n \in Style : StyleExpected(n)'
  <2>1. job'[t].event.type = "remove" /\ job'[t].event.style = k
    BY <1>8 DEF Begin, TypeOK
  <2>2. Prepared(t)'
    BY <2>1, PreparedNext
  <2>3. \A n \in Style : n # k => style'[n] = style[n]
    BY <1>8 DEF RequestRemove, TypeOK
  <2>4. ASSUME NEW n \in Style
        PROVE  StyleExpected(n)'
    <3>1. CASE n # k
      BY <1>6, <2>1, <2>3, <3>1 DEF Telling
    <3>2. CASE n = k
      <4>1. Telling(n)' = {t}
        BY <1>2, <1>4, <2>1, <3>2 DEF Telling
      <4>2. {Absent, style[n]} \subseteq File \cup {Absent}
        BY DEF TypeOK
      <4>3. Expected(InTransit', n, replica'[n], File \cup {Absent})
        BY <1>5, <4>2, ExpectedMore
      <4> QED BY <1>4, <2>1, <4>1, <4>3, StyleExpectedNext
    <3> QED BY <3>1, <3>2
  <2> QED BY <2>2, <2>4
<1>9. ASSUME NEW k \in Style, RequestEdit(t, k), Begin(t, "edit", k, style[k], "unset")
      PROVE  Prepared(t)' /\ \A n \in Style : StyleExpected(n)'
  <2>1. /\ job'[t].event.type = "edit" /\ job'[t].event.style = k
        /\ job'[t].event.file = style[k]
        /\ job'[t].source = IF style[k] = Absent THEN style[k] ELSE style[k]
        /\ style' = style
    BY <1>9 DEF RequestEdit, Begin, TypeOK
  <2>2. Prepared(t)'
    BY <1>2, <2>1, PreparedNext
  <2> QED BY <1>6, <2>1, <2>2 DEF Telling
<1>10. ASSUME NEW k \in Style, NEW f \in File, RequestFilename(t, k, f),
              Begin(t, "modify", k, f, "unset")
       PROVE  Prepared(t)' /\ \A n \in Style : StyleExpected(n)'
  <2>1. job'[t].event.type = "modify" /\ style' = style
    BY <1>10 DEF RequestFilename, Begin, TypeOK
  <2>2. Prepared(t)'
    BY <2>1, PreparedNext
  <2> QED BY <1>6, <2>1, <2>2 DEF Telling
<1> QED BY <1>3, <1>7, <1>8, <1>9, <1>10, RequestBegins

\* The options are taken over.
LEMMA UpdatePropertiesInTurn ==
    ASSUME TypeOK, InTurn, NEW t \in Thread, UpdateProperties(t), Undisturbed'
    PROVE  /\ InOrder' /\ Prepared(t)'
           /\ \A n \in Style : StyleExpected(n)'
<1>1. /\ Proceed(t) /\ pc[t] = "options" /\ pc'[t] = "notify" /\ job' = job /\ style' = style
      /\ UNCHANGED <<queue, slave>>
  BY DEF UpdateProperties, Goto, TypeOK, Proceed
<1>2. InOrder /\ Prepared(t) /\ \A n \in Style : StyleExpected(n)
  BY <1>1, OnlyThread
<1>3. /\ InOrder'
      /\ \A n, S : Expected(InTransit, n, replica[n], S)
                     => Expected(InTransit', n, replica'[n], S)
  BY <1>1, <1>2, UnsentInOrder
<1>4. Prepared(t)'
  BY <1>1, <1>2, PreparedNext DEF Prepared
<1>5. \A n : /\ t \in Telling(n)' <=> t \in Telling(n)
             /\ t \notin Committing(n) /\ t \notin Committing(n)'
  BY <1>1 DEF Telling, Committing
<1>6. \A n \in Style : StyleExpected(n)'
  BY <1>1, <1>2, <1>3, <1>5, ExpectedAside
<1> QED BY <1>3, <1>4, <1>6

\* The file of the style is read, and sent.
LEMMA NotifyInTurn ==
    ASSUME TypeOK, InTurn, NEW t \in Thread, Notify(t), Undisturbed'
    PROVE  /\ InOrder' /\ Prepared(t)'
           /\ \A n \in Style : StyleExpected(n)'
<1>1. /\ Proceed(t) /\ pc[t] = "notify" /\ style' = style /\ UNCHANGED <<queue, slave>>
  BY DEF Notify, Proceed
<1>2. /\ InOrder /\ Prepared(t) /\ \A n \in Style : StyleExpected(n)
      /\ \A u \in Thread : u # t => pc[u] = "idle" /\ pc'[u] = "idle"
  BY <1>1, OnlyThread
<1>3. /\ InOrder'
      /\ \A n, S : Expected(InTransit, n, replica[n], S)
                     => Expected(InTransit', n, replica'[n], S)
  BY <1>1, <1>2, UnsentInOrder
<1>4. CASE Goto(t, "event") \/ ReadFile(t)
  <2>1. pc'[t] \in {"event", "file"}
    BY <1>4 DEF Goto, ReadFile, TypeOK
  <2>2. job'[t].event = job[t].event
    BY <1>1, <2>1, EventStays
  <2>3. \A n \in Style : StyleExpected(n)'
    <3>1. \A n : /\ t \in Telling(n)' <=> t \in Telling(n)
                 /\ t \notin Committing(n) /\ t \notin Committing(n)'
      BY <1>1, <2>1, <2>2 DEF Telling, Committing
    <3> QED BY <1>1, <1>2, <1>3, <3>1, ExpectedAside
  <2>4. Prepared(t)'
    <3> SUFFICES ASSUME job[t].event.type \in {"add", "edit"}
                 PROVE  /\ job'[t].source = job[t].event.file
                        /\ style[job[t].event.style] = job[t].event.file
                        /\ pc'[t] # "event"
      BY <1>1, <2>2, PreparedNext
    <3>1. ReadFile(t) /\ pc'[t] = "file"
      BY <1>1, <1>4 DEF Notify, Goto, Finish, ReadFile, TypeOK
    <3>2. /\ job[t].source = job[t].event.file
          /\ style[job[t].event.style] = job[t].event.file
      BY <1>1, <1>2 DEF Prepared
    <3>3. job'[t].source = SourceFile(t)
      <4>1. job'[t] = [job[t] EXCEPT !.source = SourceFile(t), !.body = file[SourceFile(t)]]
        BY <3>1 DEF ReadFile, TypeOK
      <4>2. job[t] \in Job
        BY <1>1, BusyThread
      <4> QED BY <4>1, <4>2 DEF Job
    <3> QED BY <3>1, <3>2, <3>3 DEF SourceFile
  <2> QED BY <1>3, <2>3, <2>4
<1>5. CASE Finish(t)
  <2>1. pc'[t] = "idle" /\ \A n : Telling(n)' = {} /\ Committing(n)' = {}
    BY <1>2, <1>5 DEF Finish, TypeOK, Telling, Committing
  <2>2. Prepared(t)'
    BY <2>1, PreparedNext
  <2>3. job[t].event.type # "remove"
    BY <1>1, <1>5, <2>1 DEF Notify, Goto, ReadFile, TypeOK
  <2>4. ASSUME NEW n \in Style
        PROVE  StyleExpected(n)'
    <3>1. Committing(n) = {} /\ Telling(n) \subseteq {t}
      BY <1>1, <1>2 DEF Committing, Telling
    <3>2. t \in Telling(n) => job[t].event.type = "add"
      BY <2>3 DEF Telling
    <3>3. \/ Expected(InTransit, n, replica[n], {Absent, style[n]})
          \/ Expected(InTransit, n, replica[n], {Absent})
      BY <1>2, <3>1, <3>2 DEF StyleExpected
    <3>4. Expected(InTransit', n, replica'[n], {Absent, style'[n]})
      BY <1>1, <1>3, <3>3, ExpectedMore
    <3> QED BY <2>1, <3>4, StyleExpectedNext
  <2> QED BY <1>3, <2>2, <2>4
<1> QED BY <1>4, <1>5 DEF Notify

\* A message of a thread comes last.
LEMMA OrderGrows ==
    ASSUME TypeOK, NEW m \in Message, queue' = Append(queue, m), hand' = hand, copy' = copy,
           InOrder,
           m.type \in {"add", "edit"} =>
             Ready(InTransit, Len(InTransit), m.file, copy[m.file])
    PROVE  InOrder'
<1> DEFINE q == InTransit
           r == InTransit'
<1>1. q \in Seq(Message) /\ r = Append(q, m)
  BY TransitType, TransitGrows
<1>2. Len(q) \in Nat /\ Len(r) = Len(q) + 1 /\ r[Len(q) + 1] = m
      /\ \A k \in 1 .. Len(q) : r[k] = q[k]
  BY <1>1, LenProperties, AppendProperties
<1>3. \A k \in 1 .. Len(q) :
        q[k].type \in {"add", "edit"} => Ready(q, k - 1, q[k].file, copy[q[k].file])
  BY DEF InOrder
<1> HIDE DEF q, r
<1>4. ASSUME NEW k \in 1 .. Len(r), r[k].type \in {"add", "edit"}
      PROVE  Ready(r, k - 1, r[k].file, copy[r[k].file])
  <2>1. Ready(q, k - 1, r[k].file, copy[r[k].file])
    <3>1. CASE k = Len(q) + 1
      <4>1. r[k] = m /\ k - 1 = Len(q)
        BY <1>2, <3>1
      <4>2. Ready(q, Len(q), m.file, copy[m.file])
        BY <1>4, <4>1 DEF q
      <4> QED BY <4>1, <4>2
    <3>2. CASE k # Len(q) + 1
      <4>1. k \in 1 .. Len(q)
        BY <1>2, <3>2
      <4> QED BY <1>2, <1>3, <1>4, <4>1
    <3> QED BY <3>1, <3>2
  <2>2. k - 1 = 0 \/ k - 1 \in 1 .. Len(q)
    BY <1>2
  <2> QED BY <1>2, <2>1, <2>2 DEF Ready
<1>5. \A k \in 1 .. Len(r) :
        r[k].type \in {"add", "edit"} => Ready(r, k - 1, r[k].file, copy'[r[k].file])
  BY <1>4
<1> QED BY <1>5, InOrderNext DEF r

\* What is sent of a thread leads a style from one of S to one of T.
LEMMA SentExpected ==
    ASSUME TypeOK, NEW m \in Message, queue' = Append(queue, m), hand' = hand,
           replica' = replica, NEW n, NEW S, NEW T,
           Expected(InTransit, n, replica[n], S),
           \A f \in S : /\ m.type = "edit" /\ m.style = n => f \in {Absent, m.file}
                        /\ Told(f, m, n) \in T
    PROVE  Expected(InTransit', n, replica'[n], T)
<1>1. InTransit \in Seq(Message) /\ InTransit' = Append(InTransit, m)
  BY TransitType, TransitGrows
<1>2. Expected(Append(InTransit, m), n, replica[n], T)
  BY <1>1, ExpectedGrows
<1> QED BY <1>1, <1>2

LEMMA PublishFileInTurn ==
    ASSUME TypeOK, HasRead, InTurn, NEW t \in Thread, PublishFile(t), Undisturbed'
    PROVE  /\ InOrder' /\ Prepared(t)'
           /\ \A n \in Style : StyleExpected(n)'
<1> DEFINE m == [type |-> "file", file |-> job[t].source, body |-> job[t].body]
<1>1. /\ pc[t] = "file" /\ pc'[t] = "event" /\ job' = job /\ Proceed(t)
      /\ queue' = Append(queue, m)
      /\ style' = style /\ hand' = hand /\ replica' = replica /\ copy' = copy
  BY DEF PublishFile, Goto, TypeOK, Proceed, slave
<1>2. m \in Message
  BY <1>1, BusyThread DEF Message, HasRead
<1>3. m.type = "file" /\ m.file = job[t].source
  OBVIOUS
<1> HIDE DEF m
<1>4. InOrder /\ Prepared(t) /\ \A n \in Style : StyleExpected(n)
  BY <1>1, OnlyThread
<1>5. InOrder'
  BY <1>1, <1>2, <1>3, <1>4, OrderGrows
<1>6. Prepared(t)'
  <2>1. InTransit \in Seq(Message) /\ InTransit' = Append(InTransit, m)
    BY <1>1, <1>2, TransitType, TransitGrows
  <2>2. Len(InTransit') # 0 /\ InTransit'[Len(InTransit')] = m
    BY <1>2, <2>1, LenProperties, AppendProperties
  <2>3. job[t].source = job[t].event.file =>
          Ready(InTransit', Len(InTransit'), job[t].event.file, copy'[job[t].event.file])
    BY <1>3, <2>2 DEF Ready
  <2> QED BY <1>1, <1>4, <2>3, PreparedNext DEF Prepared
<1>7. ASSUME NEW n \in Style
      PROVE  StyleExpected(n)'
  <2>1. /\ t \in Telling(n)' <=> t \in Telling(n)
        /\ t \notin Committing(n) /\ t \notin Committing(n)'
    BY <1>1 DEF Telling, Committing
  <2>2. ASSUME NEW S, Expected(InTransit, n, replica[n], S)
        PROVE  Expected(InTransit', n, replica'[n], S)
    <3>1. \A f \in S : /\ m.type = "edit" /\ m.style = n => f \in {Absent, m.file}
                       /\ Told(f, m, n) \in S
      BY <1>3 DEF Told
    <3> QED BY <1>1, <1>2, <2>2, <3>1, SentExpected
  <2> QED BY <1>1, <1>4, <2>1, <2>2, ExpectedAside
<1> QED BY <1>5, <1>6, <1>7

\* The event of a style follows its file.
LEMMA PublishEventInTurn ==
    ASSUME TypeOK, InStep, InTurn, NEW t \in Thread, PublishEvent(t), Undisturbed'
    PROVE  /\ InOrder' /\ Prepared(t)'
           /\ \A n \in Style : StyleExpected(n)'
<1> DEFINE e == job[t].event
<1>1. /\ pc[t] = "event" /\ Proceed(t) /\ AfterEvent(t)
      /\ style' = style /\ hand' = hand /\ replica' = replica /\ copy' = copy
  BY DEF PublishEvent, Proceed, slave
<1> PICK m \in Message : /\ m.type = e.type /\ m.style = e.style /\ m.file = e.file
                         /\ queue' = Append(queue, m)
  BY EventSent
<1>2. e.type \in {"add", "edit", "modify", "remove"} /\ e.style \in Style
  BY <1>1, BusyThread
<1>3. /\ InOrder /\ Prepared(t) /\ \A n \in Style : StyleExpected(n)
      /\ \A u \in Thread : u # t => pc[u] = "idle" /\ pc'[u] = "idle"
  BY <1>1, OnlyThread
<1>4. e.purge = "true" => e.type = "remove"
  BY <1>1 DEF InStep, JobOK
<1>5. /\ e.type = "modify" => pc'[t] = "commit" /\ job' = job
      /\ e.type # "modify" => pc'[t] \in {"idle", "purge"}
      /\ e.type \in {"add", "edit"} => pc'[t] = "idle"
  BY <1>1, <1>4 DEF AfterEvent, Goto, Finish, TypeOK
<1>6. InOrder'
  <2>1. e.type \in {"add", "edit"} => Ready(InTransit, Len(InTransit), e.file, copy[e.file])
    BY <1>1, <1>3 DEF Prepared
  <2> HIDE DEF e
  <2> QED BY <1>1, <1>2, <1>3, <2>1, OrderGrows
<1>7. Prepared(t)'
  <2>1. pc'[t] # "idle" => job'[t].event.type = e.type
    BY <1>1, EventStays
  <2> QED BY <1>5, <2>1, PreparedNext
<1>8. ASSUME NEW n \in Style
      PROVE  StyleExpected(n)'
  <2>1. /\ Telling(n) \subseteq {t} /\ Committing(n) = {}
        /\ Telling(n)' = {} /\ Committing(n)' \subseteq {t}
    BY <1>1, <1>2, <1>3, <1>5 DEF Telling, Committing
  <2>2. t \in Telling(n) <=> e.type \in {"add", "remove"} /\ e.style = n
    BY <1>1 DEF Telling
  <2>3. t \in Committing(n)' <=> e.type = "modify" /\ e.style = n
    <3>1. e.type = "modify" => job'[t].event = e /\ pc'[t] = "commit"
      BY <1>5
    <3>2. e.type # "modify" => pc'[t] # "commit"
      BY <1>5
    <3> QED BY <3>1, <3>2 DEF Committing
  <2>4. CASE e.style # n \/ e.type = "edit"
    <3>1. Expected(InTransit, n, replica[n], {Absent, style[n]})
      BY <1>3, <2>1, <2>2, <2>4 DEF StyleExpected
    <3>2. \A f \in {Absent, style[n]} :
            /\ m.type = "edit" /\ m.style = n => f \in {Absent, m.file}
            /\ Told(f, m, n) \in {Absent, style[n]}
      BY <1>1, <1>3, <2>4 DEF Told, Prepared
    <3>3. Expected(InTransit', n, replica'[n], {Absent, style[n]})
      <4> HIDE DEF e
      <4> QED BY <1>1, <3>1, <3>2, SentExpected
    <3>4. Committing(n)' = {}
      BY <2>1, <2>3, <2>4
    <3> QED BY <1>1, <2>1, <3>3, <3>4, StyleExpectedNext
  <2>5. CASE e.style = n /\ e.type = "add"
    <3>1. Expected(InTransit, n, replica[n], {Absent})
      BY <1>3, <2>1, <2>2, <2>5 DEF StyleExpected
    <3>2. style[n] = e.file
      BY <1>1, <1>3, <2>5 DEF Prepared
    <3>3. \A f \in {Absent} :
            /\ m.type = "edit" /\ m.style = n => f \in {Absent, m.file}
            /\ Told(f, m, n) \in {Absent, style[n]}
      BY <2>5, <3>2 DEF Told
    <3>4. Expected(InTransit', n, replica'[n], {Absent, style[n]})
      <4> HIDE DEF e
      <4> QED BY <1>1, <3>1, <3>3, SentExpected
    <3>5. Committing(n)' = {}
      BY <2>1, <2>3, <2>5
    <3> QED BY <1>1, <2>1, <3>4, <3>5, StyleExpectedNext
  <2>6. CASE e.style = n /\ e.type = "remove"
    <3>1. Expected(InTransit, n, replica[n], File \cup {Absent})
      BY <1>3, <2>1, <2>2, <2>6 DEF StyleExpected
    <3>2. \A f \in File \cup {Absent} :
            /\ m.type = "edit" /\ m.style = n => f \in {Absent, m.file}
            /\ Told(f, m, n) \in {Absent, style[n]}
      BY <2>6 DEF Told
    <3>3. Expected(InTransit', n, replica'[n], {Absent, style[n]})
      <4> HIDE DEF e
      <4> QED BY <1>1, <3>1, <3>2, SentExpected
    <3>4. Committing(n)' = {}
      BY <2>1, <2>3, <2>6
    <3> QED BY <1>1, <2>1, <3>3, <3>4, StyleExpectedNext
  <2>7. CASE e.style = n /\ e.type = "modify"
    <3> DEFINE new == IF style[n] = Absent THEN Absent ELSE e.file
    <3>1. Expected(InTransit, n, replica[n], {Absent, style[n]})
      BY <1>3, <2>1, <2>2, <2>7 DEF StyleExpected
    <3>2. \A f \in {Absent, style[n]} :
            /\ m.type = "edit" /\ m.style = n => f \in {Absent, m.file}
            /\ Told(f, m, n) \in {Absent, new}
      BY <2>7 DEF Told
    <3>3. Expected(InTransit', n, replica'[n], {Absent, new})
      <4> HIDE DEF e, new
      <4> QED BY <1>1, <1>2, <3>1, <3>2, SentExpected
    <3>4. Committing(n)' = {t}
      BY <2>1, <2>3, <2>7
    <3>5. new = IF style'[n] = Absent THEN Absent ELSE job'[t].event.file
      BY <1>1, <1>5, <2>7
    <3> HIDE DEF new
    <3> QED BY <2>1, <3>3, <3>4, <3>5, StyleExpectedNext
  <2> QED BY <1>2, <2>4, <2>5, <2>6, <2>7
<1> QED BY <1>6, <1>7, <1>8

\* A modification is there, or a file deleted, and the request done.
LEMMA DoneInTurn ==
    ASSUME TypeOK, InStep, InTurn, NEW t \in Thread, Commit(t) \/ Purge(t), Undisturbed'
    PROVE  /\ InOrder' /\ Prepared(t)'
           /\ \A n \in Style : StyleExpected(n)'
<1>1. /\ pc[t] \in {"commit", "purge"} /\ pc'[t] = "idle" /\ Proceed(t)
      /\ UNCHANGED <<queue, slave>>
  BY DEF Commit, Purge, Finish, TypeOK, Proceed
<1>2. /\ InOrder /\ \A n \in Style : StyleExpected(n)
      /\ \A u \in Thread : u # t => pc[u] = "idle" /\ pc'[u] = "idle"
  BY <1>1, OnlyThread
<1>3. /\ InOrder'
      /\ \A n, S : Expected(InTransit, n, replica[n], S)
                     => Expected(InTransit', n, replica'[n], S)
  BY <1>1, <1>2, UnsentInOrder
<1>4. Prepared(t)'
  BY <1>1, PreparedNext
<1>5. ASSUME NEW n \in Style
      PROVE  StyleExpected(n)'
  <2>1. /\ Telling(n) = {} /\ Committing(n) \subseteq {t}
        /\ Telling(n)' = {} /\ Committing(n)' = {}
    BY <1>1, <1>2 DEF Telling, Committing
  <2>2. CASE Committing(n) = {}
    <3>1. style'[n] = style[n]
      <4>1. Commit(t) => job[t].event.style # n
        BY <2>2 DEF Commit, Committing
      <4> QED BY <4>1 DEF Commit, Purge, TypeOK
    <3>2. Expected(InTransit, n, replica[n], {Absent, style[n]})
      BY <1>2, <2>1, <2>2 DEF StyleExpected
    <3> QED BY <1>3, <2>1, <3>1, <3>2, StyleExpectedNext
  <2>3. CASE Committing(n) = {t}
    <3>1. Commit(t) /\ job[t].event.style = n
      BY <2>3 DEF Committing, Purge
    <3>2. style'[n] = IF style[n] = Absent THEN Absent ELSE job[t].event.file
      BY <3>1 DEF Commit, TypeOK
    <3>3. Expected(InTransit, n, replica[n], {Absent, style'[n]})
      BY <1>2, <2>3, <3>2 DEF StyleExpected
    <3> QED BY <1>3, <2>1, <3>3, StyleExpectedNext
  <2> QED BY <2>1, <2>2, <2>3
<1> QED BY <1>3, <1>4, <1>5

\* A file that was sent is there when its message is handled.
LEMMA ReadyGoesOn ==
    ASSUME TypeOK, hand # NoMessage, hand' = NoMessage, queue' = queue,
           hand.type = "file" => copy'[hand.file] \in Body,
           NEW k \in 1 .. Len(InTransit), NEW f, NEW body, NEW c, c = copy'[f],
           Ready(InTransit, k, f, body)
    PROVE  Ready(InTransit', k - 1, f, c)
<1> DEFINE q == InTransit
           r == InTransit'
<1>1. q \in Seq(Message) /\ q # <<>> /\ Head(q) = hand /\ r = Tail(q)
  BY TransitType, TransitHandled
<1>2. /\ Len(q) \in Nat \ {0} /\ Len(r) = Len(q) - 1 /\ q[1] = hand
      /\ \A i \in 1 .. Len(q) - 1 : r[i] = q[i + 1]
  BY <1>1, LenProperties, HeadTailProperties, EmptySeq
<1>3. q[k].type = "file" /\ q[k].file = f
  BY DEF Ready
<1> HIDE DEF q, r
<1>4. CASE k = 1
  <2>1. k - 1 = 0 /\ c \in Body
    BY <1>2, <1>3, <1>4
  <2> QED BY <2>1 DEF Ready
<1>5. CASE k # 1
  <2>1. k - 1 \in 1 .. Len(q) - 1 /\ (k - 1) + 1 = k /\ k - 1 # 0
    BY <1>2, <1>5 DEF q
  <2>2. r[k - 1] = q[k]
    BY <1>2, <2>1
  <2> QED BY <1>3, <2>1, <2>2 DEF Ready, r
<1> QED BY <1>4, <1>5

\* The slave repeats the messages in order.
LEMMA SlaveInTurn ==
    ASSUME TypeOK, OnMessage, InOrder, \A t \in Thread : Prepared(t),
           \A n \in Style : StyleExpected(n)
    PROVE  /\ InOrder' /\ \A t \in Thread : Prepared(t)'
           /\ \A n \in Style : StyleExpected(n)'
<1> DEFINE q == InTransit
           r == InTransit'
<1>1. pc' = pc /\ job' = job /\ style' = style
  BY ThreadsStay
<1>2. \A n : Telling(n)' = Telling(n) /\ Committing(n)' = Committing(n)
  BY <1>1 DEF Telling, Committing
<1>3. q \in Seq(Message) /\ Len(q) \in Nat
  BY TransitType, LenProperties
<1>4. CASE Take \/ OpenFile
  <2>1. r = q /\ replica' = replica
    BY <1>4, TransitTaken DEF Take, OpenFile, InTransit
  <2>2. ASSUME NEW k \in 0 .. Len(q), NEW f, Ready(q, k, f, copy[f]),
               q # <<>> /\ k = 0 => q[1].type # "file"
        PROVE  Ready(r, k, f, copy'[f]) \/ (q = <<>> /\ k = 0)
    <3>1. CASE k # 0
      BY <2>1, <2>2, <3>1 DEF Ready
    <3>2. CASE k = 0 /\ q # <<>>
      <4>1. Take
        <5> SUFFICES ASSUME OpenFile PROVE FALSE
          BY <1>4
        <5>1. hand # NoMessage /\ hand.type = "file"
          BY DEF OpenFile, NoMessage
        <5>2. Head(q) = hand /\ Head(q) = q[1]
          BY <1>3, <3>2, <5>1, TransitHandled
        <5> QED BY <2>2, <3>2, <5>1, <5>2
      <4>2. copy' = copy
        BY <4>1 DEF Take
      <4> QED BY <2>1, <2>2, <4>2
    <3> QED BY <3>1, <3>2
  <2>3. q # <<>>
    <3>1. Take => q # <<>>
      <4>1. Take => q = <<>> \o queue /\ queue # <<>>
        BY DEF Take, InTransit
      <4> QED BY <4>1 DEF TypeOK
    <3>2. OpenFile => q # <<>>
      <4>1. OpenFile => hand # NoMessage
        BY DEF OpenFile, NoMessage
      <4> QED BY <4>1, TransitHandled
    <3> QED BY <1>4, <3>1, <3>2
  <2> HIDE DEF q, r
  <2>4. InOrder'
    <3>1. ASSUME NEW k \in 1 .. Len(q), q[k].type \in {"add", "edit"}
          PROVE  Ready(r, k - 1, q[k].file, copy'[q[k].file])
      <4>1. Ready(q, k - 1, q[k].file, copy[q[k].file])
        BY <3>1 DEF InOrder, q
      <4>2. k - 1 \in 0 .. Len(q) /\ (k - 1 = 0 => k = 1)
        BY <1>3, <3>1
      <4> QED BY <2>2, <2>3, <3>1, <4>1, <4>2
    <3> QED BY <2>1, <3>1, InOrderNext DEF q, r
  <2>5. ASSUME NEW t \in Thread
        PROVE  Prepared(t)'
    <3>1. Len(q) \in 0 .. Len(q) /\ Len(q) # 0
      BY <1>3, <2>3, EmptySeq
    <3>2. \A f : Ready(q, Len(q), f, copy[f]) => Ready(r, Len(r), f, copy'[f])
      BY <2>1, <2>2, <2>3, <3>1
    <3>3. Prepared(t)
      OBVIOUS
    <3> QED BY <1>1, <3>2, <3>3, PreparedNext DEF Prepared, q, r
  <2>6. \A n \in Style : StyleExpected(n)'
    BY <1>1, <1>2, <2>1, StyleExpectedNext DEF StyleExpected, q, r
  <2> QED BY <2>4, <2>5, <2>6
<1>5. CASE WriteFile \/ AddStyle \/ ModifyStyle \/ EditStyle \/ RemoveStyle
  <2>1. /\ hand # NoMessage /\ hand' = NoMessage /\ queue' = queue
        /\ \A n \in Style : replica'[n] = Told(replica[n], hand, n)
    BY <1>5, EffectOfMessage
  <2>2. hand.type = "file" => copy'[hand.file] \in Body
    <3>1. hand.type = "file" => WriteFile
      BY <1>5 DEF AddStyle, ModifyStyle, EditStyle, RemoveStyle, Handled
    <3>2. hand \in Message
      BY <2>1 DEF TypeOK
    <3>3. hand.type = "file" => hand.body \in Body /\ hand.file \in File
      BY <3>2, MessageParts
    <3> QED BY <3>1, <3>3 DEF WriteFile, TypeOK
  <2>3. q # <<>> /\ Head(q) = hand /\ r = Tail(q)
    BY <2>1, TransitHandled
  <2>4. /\ Len(q) # 0 /\ Len(r) = Len(q) - 1
        /\ \A i \in 1 .. Len(q) - 1 : r[i] = q[i + 1]
    BY <1>3, <2>3, LenProperties, HeadTailProperties, EmptySeq
  <2>5. \A k \in 1 .. Len(q) : \A f :
          Ready(q, k, f, copy[f]) => Ready(r, k - 1, f, copy'[f])
    BY <2>1, <2>2, ReadyGoesOn
  <2> HIDE DEF q, r
  <2>6. InOrder'
    <3>1. ASSUME NEW k \in 1 .. Len(r), r[k].type \in {"add", "edit"}
          PROVE  Ready(r, k - 1, r[k].file, copy'[r[k].file])
      <4>1. k \in 1 .. Len(q) /\ k + 1 \in 1 .. Len(q) /\ (k + 1) - 1 = k /\ r[k] = q[k + 1]
        BY <1>3, <2>4
      <4>2. Ready(q, (k + 1) - 1, q[k + 1].file, copy[q[k + 1].file])
        BY <3>1, <4>1 DEF InOrder, q
      <4> QED BY <2>5, <4>1, <4>2
    <3> QED BY <3>1, InOrderNext DEF r
  <2>7. ASSUME NEW t \in Thread
        PROVE  Prepared(t)'
    <3>1. Len(q) \in 1 .. Len(q)
      BY <1>3, <2>4
    <3>2. \A f : Ready(q, Len(q), f, copy[f]) => Ready(r, Len(r), f, copy'[f])
      BY <2>4, <2>5, <3>1
    <3>3. Prepared(t)
      OBVIOUS
    <3> QED BY <1>1, <3>2, <3>3, PreparedNext DEF Prepared, q, r
  <2>8. ASSUME NEW n \in Style
        PROVE  StyleExpected(n)'
    <3>1. \A S : Expected(q, n, replica[n], S) => Expected(r, n, replica'[n], S)
      BY <1>3, <2>1, <2>3, ExpectedGoesOn
    <3>2. StyleExpected(n)
      OBVIOUS
    <3> QED BY <1>1, <1>2, <3>1, <3>2, StyleExpectedNext DEF StyleExpected, q, r
  <2> QED BY <2>6, <2>7, <2>8
<1> QED BY <1>4, <1>5 DEF OnMessage

\* The file of a style is sent before the style, and nothing comes between.
LEMMA InTurnHolds == Spec => []InTurn
<1>1. Init => InTurn
  <2> SUFFICES ASSUME Init PROVE InTurn
    OBVIOUS
  <2>1. InTransit = <<>> /\ Len(InTransit) = 0 /\ \A t \in Thread : pc[t] = "idle"
    BY DEF Init, InTransit
  <2>2. \A n : Telling(n) = {} /\ Committing(n) = {}
    BY <2>1 DEF Telling, Committing
  <2>3. ASSUME NEW n \in Style
        PROVE  StyleExpected(n)
    <3> DEFINE h == [k \in 0 .. 0 |-> style[n]]
    <3>1. style[n] \in File \cup {Absent} /\ replica[n] = style[n]
      BY DEF Init
    <3>2. h \in [0 .. 0 -> File \cup {Absent}] /\ h[0] = style[n]
      BY <3>1
    <3> HIDE DEF h
    <3>3. h \in History(InTransit, 0) /\ IsHistory(h, InTransit, 0, n)
      BY <2>1, <3>2 DEF History, IsHistory
    <3>4. h[Len(InTransit)] \in {Absent, style[n]} /\ h[0] = replica[n]
      BY <2>1, <3>1, <3>2
    <3>5. \A k \in 1 .. Len(InTransit) : FALSE
      BY <2>1
    <3>6. Expected(InTransit, n, replica[n], {Absent, style[n]})
      BY <3>3, <3>4, <3>5 DEF Expected
    <3> QED BY <2>2, <3>6 DEF StyleExpected
  <2>4. InOrder
    BY <2>1 DEF InOrder
  <2> QED BY <2>1, <2>3, <2>4 DEF InTurn, Alone, Prepared
<1>2. TypeOK /\ HasRead /\ InStep /\ InTurn /\ [Next]_vars => InTurn'
  <2> SUFFICES ASSUME TypeOK, HasRead, InStep, InTurn, [Next]_vars, Undisturbed'
               PROVE  /\ Alone' /\ InOrder'
                      /\ \A t \in Thread : Prepared(t)'
                      /\ \A n \in Style : StyleExpected(n)'
    BY DEF InTurn
  <2>1. CASE UNCHANGED vars
    <3>1. pc' = pc /\ job' = job /\ style' = style /\ UNCHANGED <<queue, slave>>
          /\ Undisturbed /\ InTransit' = InTransit /\ replica' = replica /\ copy' = copy
      BY <2>1 DEF vars, Undisturbed, slave, InTransit
    <3>2. \A n : Telling(n)' = Telling(n) /\ Committing(n)' = Committing(n)
      BY <3>1 DEF Telling, Committing
    <3>3. Alone' /\ InOrder'
      BY <3>1, UnsentInOrder DEF InTurn, Alone
    <3>4. \A t \in Thread : Prepared(t)'
      BY <3>1, PreparedNext DEF InTurn, Prepared
    <3>5. \A n \in Style : StyleExpected(n)'
      BY <3>1, <3>2, StyleExpectedNext DEF InTurn, StyleExpected
    <3> QED BY <3>3, <3>4, <3>5
  <2>2. CASE OnMessage
    <3>1. Undisturbed /\ pc' = pc
      BY <2>2, ThreadsStay DEF OnMessage, Take, OpenFile, WriteFile, AddStyle, ModifyStyle,
                              EditStyle, RemoveStyle, Handled, Undisturbed
    <3>2. Alone'
      BY <3>1 DEF InTurn, Alone
    <3> QED BY <2>2, <3>1, <3>2, SlaveInTurn DEF InTurn
  <2>3. ASSUME Fault
        PROVE  FALSE
    <3>1. faults' = faults + 1 /\ faults \in Nat
      BY <2>3, StyleAssumption DEF Fault, TypeOK
    <3> QED BY <3>1 DEF Undisturbed
  <2>4. ASSUME NEW t \in Thread, Request(t) \/ Proceed(t)
        PROVE  /\ Alone' /\ InOrder'
               /\ \A u \in Thread : Prepared(u)'
               /\ \A n \in Style : StyleExpected(n)'
    <3>1. \A u \in Thread : u # t => pc'[u] = "idle"
      BY <2>4, OnlyThread
    <3>2. Alone'
      BY <3>1 DEF Alone
    <3>3. InOrder' /\ Prepared(t)' /\ \A n \in Style : StyleExpected(n)'
      BY <2>4, RequestInTurn, UpdatePropertiesInTurn, NotifyInTurn, PublishFileInTurn,
         PublishEventInTurn, DoneInTurn DEF Proceed
    <3>4. \A u \in Thread : u # t => Prepared(u)'
      BY <3>1, PreparedNext
    <3> QED BY <3>2, <3>3, <3>4
  <2> QED BY <2>1, <2>2, <2>3, <2>4 DEF Next, PublishFails, MessageLost, HandlerFails
<1> QED BY <1>1, <1>2, TypesHold, InStepHolds, PTL DEF Spec

\* As long as nothing fails and no two requests overlap, a style that the slave shows in
\* the end is the master's, with the same file: by any number of requests, and whatever
\* went astray.
THEOREM StylesMatchInStep == Spec => []AloneInStep
<1>1. InTurn => AloneInStep
  <2> SUFFICES ASSUME InTurn, Settled, Undisturbed, NEW n \in Style
               PROVE  replica[n] \in {style[n], Absent}
    BY DEF AloneInStep, Undisturbed
  <2>1. InTransit = <<>> /\ Len(InTransit) = 0 /\ \A t \in Thread : pc[t] = "idle"
    BY DEF Settled, InTransit
  <2>2. Telling(n) = {} /\ Committing(n) = {}
    BY <2>1 DEF Telling, Committing
  <2>3. Expected(InTransit, n, replica[n], {Absent, style[n]})
    BY <2>2 DEF InTurn, StyleExpected
  <2> QED BY <2>1, <2>3 DEF Expected
<1> QED BY <1>1, InTurnHolds, PTL

\* As long as nothing fails and no two requests overlap, the file of a style is there
\* before the slave hears of the style, and again when it is told that the file has
\* changed.
THEOREM FileComesFirst == Spec => []FileBeforeStyle
<1>1. TypeOK /\ InTurn => FileBeforeStyle
  <2> SUFFICES ASSUME TypeOK, InTurn, hand.type \in {"add", "edit"}, Undisturbed,
                      NEW f, f = (IF hand.type = "add" THEN hand.file ELSE replica[hand.style]),
                      f # Absent
               PROVE  copy[f] \in Body
    BY DEF FileBeforeStyle, Undisturbed
  <2>1. hand # NoMessage /\ hand \in Message
    BY DEF NoMessage, TypeOK
  <2>2. InTransit \in Seq(Message) /\ InTransit # <<>> /\ Head(InTransit) = hand
    BY <2>1, TransitType, TransitHandled
  <2>3. 1 \in 1 .. Len(InTransit) /\ InTransit[1] = hand /\ 1 - 1 = 0
    BY <2>2, LenProperties, HeadTailProperties, EmptySeq
  <2>4. copy[hand.file] \in Body
    <3>1. Ready(InTransit, 1 - 1, hand.file, copy[hand.file])
      BY <2>3 DEF InTurn, InOrder
    <3> QED BY <2>3, <3>1 DEF Ready
  <2>5. CASE hand.type = "add"
    BY <2>4, <2>5
  <2>6. CASE hand.type = "edit"
    <3>1. hand.style \in Style
      BY <2>1, <2>6, MessageParts
    <3>2. StyleExpected(hand.style)
      BY <3>1 DEF InTurn
    <3>3. \E S : Expected(InTransit, hand.style, replica[hand.style], S)
      <4> DEFINE n == hand.style
      <4>1. CASE Telling(n) = {} /\ Committing(n) = {}
        BY <3>2, <4>1 DEF StyleExpected
      <4>2. ASSUME NEW t \in Telling(n)
            PROVE  \E S : Expected(InTransit, n, replica[n], S)
        BY <3>2, <4>2 DEF StyleExpected
      <4>3. ASSUME NEW t \in Committing(n)
            PROVE  \E S : Expected(InTransit, n, replica[n], S)
        BY <3>2, <4>3 DEF StyleExpected
      <4> QED BY <4>1, <4>2, <4>3
    <3>4. replica[hand.style] \in {Absent, hand.file}
      BY <2>2, <2>6, <3>3, ExpectedGoesOn
    <3> QED BY <2>4, <2>6, <3>4
  <2> QED BY <2>5, <2>6
<1> QED BY <1>1, TypesHold, InTurnHolds, PTL

=============================================================================
