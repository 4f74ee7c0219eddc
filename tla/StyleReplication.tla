--------------------------- MODULE StyleReplication ---------------------------
(***************************************************************************)
(* Replication of the styles, which are an object of the catalog and a     *)
(* file of the data directory.  JMSCatalogListener sends the file of a     *)
(* style in a message of its own before the event; the slave writes the    *)
(* one (JMSCatalogStylesFileHandler) and repeats the other.  Either of the *)
(* two can get lost, and several request threads can be between the two:   *)
(*                                                                         *)
(*   options -> notify (read the file) -> file (send it)                   *)
(*       -> event (send it) -> commit, of a modification; purge, of a      *)
(*                             removal                                     *)
(*                                                                         *)
(* The option "purge" of a removal travels in the JMSProperties that all   *)
(* threads share: what one request put there goes out with every message   *)
(* until another request gives another value (MessageProperties).          *)
(*                                                                         *)
(* The flag of the producer is that of CatalogReplication: here the master *)
(* publishes and the slave does not.                                       *)
(***************************************************************************)
EXTENDS Integers, Sequences

CONSTANTS
    Style,        \* names of styles
    File,         \* names of files in the directory "styles"
    Thread,       \* request threads of the master
    MaxInputs,    \* bound on the changes users ask for and the failures, together
    Absent        \* no such style, or no such file

Body == 1 .. MaxInputs + 1
Torn == 0       \* what a file holds while it is written

ASSUME StyleAssumption ==
    /\ MaxInputs \in Nat
    /\ Absent \notin File \cup Body \cup {Torn}
    /\ Style \cap File = {}

VARIABLES
    style, file,     \* the master: the file of a style, the content of a file
    replica, copy,   \* the slave: the same
    pc, job,         \* pc[t], job[t]: where a request thread is, and with what
    properties,      \* the option "purge" in the shared java.util.Properties
    parameters,      \* parameters[t]: the same in the thread local of RestDispatcherCallback
    queue, hand,     \* the messages on their way, and the one the slave works on
    requests, faults,
    overlapped, \* whether two requests were under way at once
    astray           \* the styles and files that may stay different

options == <<properties, parameters>>
vars == <<style, file, replica, copy, pc, job, options, queue, hand, requests, overlapped, faults,
          astray>>
slave == <<replica, copy, hand>>

NoJob == [body |-> Absent]
NoMessage == [type |-> "none"]

\* What the option "purge" may be; for Boolean.parseBoolean two of them are the same.
Option == {"unset", "false", "true"}

\* file: the file of the style that is added or removed, the new file of one that
\* is modified.  An edit changes the file, and of the style nothing.
\* purge: in a job the option of the request, in a message the one that goes out.
Event == [type : {"add", "edit", "modify", "remove"}, style : Style, file : File, purge : Option]

Message == [type : {"file"}, file : File, body : Body] \cup Event

\* source and body: the file that is sent with the event, and what was read of it.
Job == [event : Event, source : File, body : Body \cup {Absent}]

TypeOK ==
    /\ style \in [Style -> File \cup {Absent}]
    /\ file \in [File -> Body \cup {Absent}]
    /\ replica \in [Style -> File \cup {Absent}]
    /\ copy \in [File -> Body \cup {Absent, Torn}]
    /\ properties \in Option
    /\ parameters \in [Thread -> Option]
    /\ pc \in [Thread -> {"idle", "options", "notify", "file", "event", "commit", "purge"}]
    /\ job \in [Thread -> Job \cup {NoJob}]
    /\ \A t \in Thread : (pc[t] = "idle") = (job[t] = NoJob)
    /\ queue \in Seq(Message)
    /\ hand \in Message \cup {NoMessage}
    /\ requests \in 0 .. MaxInputs
    /\ faults \in 0 .. MaxInputs
    /\ overlapped \in BOOLEAN
    /\ astray \subseteq Style \cup File

-----------------------------------------------------------------------------
\* Both start with the same data directory.
Init ==
    /\ style \in [Style -> File \cup {Absent}]
    /\ file \in [File -> {1, Absent}]
    /\ \A n \in Style : style[n] # Absent => file[style[n]] # Absent
    /\ replica = style
    /\ copy = file
    /\ pc = [t \in Thread |-> "idle"]
    /\ job = [t \in Thread |-> NoJob]
    /\ properties = "unset"
    /\ parameters = [t \in Thread |-> "unset"]
    /\ queue = <<>>
    /\ hand = NoMessage
    /\ requests = 0
    /\ faults = 0
    /\ overlapped = FALSE
    /\ astray = {}

(***************************************************************************)
(* What users ask for.  A style is added with its file or before it (the   *)
(* REST service knows both), its file is rewritten, it gets another file,  *)
(* or it is removed, with or without the file.  A REST request leaves its  *)
(* parameters with the thread (RestDispatcherCallback.init), and nothing   *)
(* takes them away; the user interface has none and leaves none.           *)
(***************************************************************************)
Begin(t, type, n, f, purge) ==
    LET event == [type |-> type, style |-> n, file |-> f, purge |-> purge]
    IN  /\ pc[t] = "idle"
        /\ requests + faults < MaxInputs
        /\ requests' = requests + 1
        /\ overlapped' = (overlapped \/ \E u \in Thread : pc[u] # "idle")
        /\ \/ parameters' = [parameters EXCEPT ![t] = purge]
           \/ purge = "unset" /\ UNCHANGED parameters
        /\ pc' = [pc EXCEPT ![t] = "options"]
        /\ job' = [job EXCEPT ![t] =
                     [event |-> event, source |-> IF style[n] = Absent THEN f ELSE style[n],
                      body |-> Absent]]
        /\ UNCHANGED <<slave, properties, queue, faults>>

Write(f) == file' = [file EXCEPT ![f] = requests + 2]

RequestAdd(t, n, f) ==
    /\ style[n] = Absent
    /\ Begin(t, "add", n, f, "unset")
    /\ style' = [style EXCEPT ![n] = f]
    /\ Write(f) \/ UNCHANGED file
    /\ UNCHANGED astray

RequestEdit(t, n) ==
    /\ style[n] # Absent
    /\ Begin(t, "edit", n, style[n], "unset")
    /\ Write(style[n])
    /\ UNCHANGED <<style, astray>>

\* The listener will send the file the style has now, and not the new one.
RequestFilename(t, n, f) ==
    /\ style[n] \notin {f, Absent}
    /\ Begin(t, "modify", n, f, "unset")
    /\ \/ Write(f) /\ astray' = astray \cup {f}
       \/ UNCHANGED <<file, astray>>
    /\ UNCHANGED style

RequestRemove(t, n, purge) ==
    /\ style[n] # Absent
    /\ Begin(t, "remove", n, style[n], purge)
    /\ style' = [style EXCEPT ![n] = Absent]
    /\ UNCHANGED <<file, astray>>

-----------------------------------------------------------------------------
(***************************************************************************)
(* The listener: handleAddEvent, handleModifyEvent and handleRemoveEvent.  *)
(***************************************************************************)
Goto(t, label) == pc' = [pc EXCEPT ![t] = label] /\ UNCHANGED job

\* Mutant: the request is not forgotten.
FinishLate(t) == pc' = [pc EXCEPT ![t] = "idle"] /\ UNCHANGED job

Finish(t) ==
    /\ pc' = [pc EXCEPT ![t] = "idle"]
    /\ job' = [job EXCEPT ![t] = NoJob]

\* updateProperties: the "copy" of the properties shares them.
UpdateProperties(t) ==
    /\ pc[t] = "options"
    /\ properties' = IF parameters[t] = "unset" THEN properties ELSE parameters[t]
    /\ Goto(t, "notify")
    /\ UNCHANGED <<style, file, parameters, queue, slave, requests, overlapped, faults, astray>>

\* What the slave never hears of when a request ends with an exception: a
\* modification is not committed, the rest is done.
Undone(t) ==
    LET e == job[t].event
    IN  {x \in {e.style} : e.type \in {"add", "remove"}}
          \cup {x \in {job[t].source} : e.type \in {"add", "edit"} /\ pc[t] # "event"}

\* The source of an event is the style before the modification.
SourceFile(t) ==
    LET e == job[t].event
    IN  IF e.type = "add" \/ style[e.style] = Absent THEN job[t].source ELSE style[e.style]

ReadFile(t) ==
    LET e == job[t].event
        f == SourceFile(t)
    IN  /\ pc' = [pc EXCEPT ![t] = "file"]
        /\ job' = [job EXCEPT ![t].source = f, ![t].body = file[f]]
        /\ astray' = IF e.type = "edit" /\ f # e.file THEN astray \cup {e.file} ELSE astray

\* Mutant: a file that is not there is not sent, but the event is.
NotifyAnyway(t) ==
    /\ pc[t] = "notify"
    /\ IF job[t].event.type = "remove" \/ file[SourceFile(t)] = Absent
         THEN Goto(t, "event") /\ UNCHANGED astray
         ELSE ReadFile(t)
    /\ UNCHANGED <<style, file, options, queue, slave, requests, overlapped, faults>>

\* DocumentFile throws if the file is not there.
Notify(t) ==
    /\ pc[t] = "notify"
    /\ \/ job[t].event.type = "remove" /\ Goto(t, "event") /\ UNCHANGED astray
       \/ /\ job[t].event.type # "remove" /\ file[SourceFile(t)] # Absent
          /\ ReadFile(t)
       \/ /\ job[t].event.type # "remove" /\ file[SourceFile(t)] = Absent
          /\ Finish(t)
          /\ astray' = astray \cup Undone(t)
    /\ UNCHANGED <<style, file, options, queue, slave, requests, overlapped, faults>>

\* Another thread has told the slave to delete f, and will do so itself.
Doomed(f) == \E t \in Thread : pc[t] = "purge" /\ job[t].event.file = f

\* What is sent is the file, or was the file when it was read.
PublishFile(t) ==
    LET f == job[t].source
    IN  /\ pc[t] = "file"
        /\ queue' = Append(queue, [type |-> "file", file |-> f, body |-> job[t].body])
        /\ astray' = IF file[f] = job[t].body /\ ~Doomed(f)
                       THEN astray \ {f} ELSE astray \cup {f}
        /\ Goto(t, "event")
        /\ UNCHANGED <<style, file, options, slave, requests, overlapped, faults>>

AfterEvent(t) ==
    IF job[t].event.type = "modify" THEN Goto(t, "commit")
    ELSE IF job[t].event.purge = "true" THEN Goto(t, "purge")
    ELSE Finish(t)

\* Another thread changes the same style: one of the two may be told first, and
\* the other may come last.
Contended(t) ==
    \E u \in Thread \ {t} : /\ pc[u] # "idle"
                            /\ job[u].event.style = job[t].event.style
                            /\ job[u].event.type # "edit"

\* The option that goes out is not that of the request: the slave will delete a
\* file that the master keeps, or keep one that the master deletes.
Mispurged(t) ==
    LET e == job[t].event
    IN  {f \in {e.file} : e.type = "remove" /\ (properties = "true") # (e.purge = "true")}

\* After a removal the slave has no such style, whatever went wrong before.
Settling(t) ==
    LET e == job[t].event
    IN  IF e.type = "edit" THEN astray
        ELSE IF Contended(t) THEN astray \cup {e.style}
        ELSE IF e.type = "remove" /\ style[e.style] = Absent THEN astray \ {e.style}
        ELSE astray

\* Mutant: a modification is sent with the file the style has now.
PublishSource(t) ==
    LET e == job[t].event
    IN  /\ pc[t] = "event"
        /\ queue' = Append(queue, [e EXCEPT !.purge = properties, !.file = job[t].source])
        /\ astray' = Settling(t) \cup Mispurged(t)
        /\ AfterEvent(t)
        /\ UNCHANGED <<style, file, options, slave, requests, overlapped, faults>>

\* createMessage copies what the properties hold by now.
PublishEvent(t) ==
    LET e == job[t].event
    IN  /\ pc[t] = "event"
        /\ queue' = Append(queue, [e EXCEPT !.purge = properties])
        /\ astray' = Settling(t) \cup Mispurged(t)
        /\ AfterEvent(t)
        /\ UNCHANGED <<style, file, options, slave, requests, overlapped, faults>>

\* DefaultCatalogFacade.saved
Commit(t) ==
    LET e == job[t].event
    IN  /\ pc[t] = "commit"
        /\ style' = [style EXCEPT ![e.style] = IF @ = Absent THEN Absent ELSE e.file]
        /\ astray' = IF Contended(t) THEN astray \cup {e.style} ELSE astray
        /\ Finish(t)
        /\ UNCHANGED <<file, options, queue, slave, requests, overlapped, faults>>

\* deleteStyle(style, true) of the REST service, after the removal.
Purge(t) ==
    /\ pc[t] = "purge"
    /\ file' = [file EXCEPT ![job[t].event.file] = Absent]
    /\ Finish(t)
    /\ UNCHANGED <<style, options, queue, slave, requests, overlapped, faults, astray>>

-----------------------------------------------------------------------------
(***************************************************************************)
(* The slave.                                                              *)
(***************************************************************************)
Take ==
    /\ hand = NoMessage
    /\ queue # <<>>
    /\ hand' = Head(queue)
    /\ queue' = Tail(queue)
    /\ UNCHANGED <<style, file, replica, copy, pc, job, options, requests, overlapped, faults, astray>>

Handled(type) ==
    /\ hand.type = type
    /\ hand' = NoMessage
    /\ UNCHANGED <<style, file, pc, job, options, queue, requests, overlapped, faults>>

\* writeTo: the FileWriter empties the file first.
OpenFile ==
    /\ hand.type = "file"
    /\ copy[hand.file] # Torn
    /\ copy' = [copy EXCEPT ![hand.file] = Torn]
    /\ UNCHANGED <<style, file, replica, pc, job, options, queue, hand, requests, overlapped, faults,
                   astray>>

WriteFile ==
    /\ Handled("file")
    /\ copy[hand.file] = Torn
    /\ copy' = [copy EXCEPT ![hand.file] = hand.body]
    /\ UNCHANGED <<replica, astray>>

\* A style that is there keeps its file.
AddStyle ==
    /\ Handled("add")
    /\ replica' = [replica EXCEPT ![hand.style] = IF @ = Absent THEN hand.file ELSE @]
    /\ UNCHANGED <<copy, astray>>

ModifyStyle ==
    /\ Handled("modify")
    /\ replica' = [replica EXCEPT ![hand.style] = IF @ = Absent THEN Absent ELSE hand.file]
    /\ UNCHANGED <<copy, astray>>

\* Nothing of the style is changed; saving it is enough to drop it from caches.
EditStyle == Handled("edit") /\ UNCHANGED <<replica, copy, astray>>

\* Mutant: the options of the message are not looked at.
RemoveStyleOnly ==
    /\ Handled("remove")
    /\ replica' = [replica EXCEPT ![hand.style] = Absent]
    /\ UNCHANGED <<copy, astray>>

\* The file that is deleted is that of the local style, if there is one.
RemoveStyle ==
    LET f == IF replica[hand.style] # Absent THEN replica[hand.style] ELSE hand.file
    IN  /\ Handled("remove")
        /\ replica' = [replica EXCEPT ![hand.style] = Absent]
        /\ copy' = IF hand.purge = "true" THEN [copy EXCEPT ![f] = Absent] ELSE copy
        /\ astray' = IF hand.purge = "true" /\ f # hand.file THEN astray \cup {f, hand.file}
                     ELSE astray

-----------------------------------------------------------------------------
(***************************************************************************)
(* Failures.                                                               *)
(***************************************************************************)
Fault == requests + faults < MaxInputs /\ faults' = faults + 1

\* What a message that is lost would have changed.
Concerned(m) ==
    IF m.type = "file" THEN {m.file}
    ELSE {x \in {m.style} : m.type # "edit"}
           \cup {x \in {m.file} : m.type = "remove" /\ m.purge = "true"}

\* The request ends with a CatalogException.
PublishFails(t) ==
    /\ Fault
    /\ pc[t] \in {"file", "event"}
    /\ astray' = astray \cup Undone(t)
    /\ Finish(t)
    /\ UNCHANGED <<style, file, options, queue, slave, requests, overlapped>>

\* Nobody is told that a message did not reach the broker.
MessageLost(t) ==
    /\ Fault
    /\ \/ /\ pc[t] = "file" /\ Goto(t, "event")
          /\ astray' = astray \cup {job[t].source}
       \/ /\ pc[t] = "event" /\ AfterEvent(t)
          /\ astray' = astray \cup Concerned(job[t].event)
    /\ UNCHANGED <<style, file, options, queue, slave, requests, overlapped>>

\* The slave is killed, or its handler fails: the message does not come back.
HandlerFails ==
    /\ Fault
    /\ hand # NoMessage
    /\ hand' = NoMessage
    /\ astray' = astray \cup Concerned(hand)
    /\ UNCHANGED <<style, file, replica, copy, pc, job, options, queue, requests, overlapped>>

-----------------------------------------------------------------------------
Request(t) ==
    \E n \in Style :
        \/ \E f \in File : RequestAdd(t, n, f) \/ RequestFilename(t, n, f)
        \/ RequestEdit(t, n)
        \/ \E purge \in Option : RequestRemove(t, n, purge)

Proceed(t) ==
    UpdateProperties(t) \/ Notify(t) \/ PublishFile(t) \/ PublishEvent(t) \/ Commit(t) \/ Purge(t)

OnMessage ==
    Take \/ OpenFile \/ WriteFile \/ AddStyle \/ ModifyStyle \/ EditStyle \/ RemoveStyle

Next ==
    \/ \E t \in Thread : Request(t) \/ Proceed(t) \/ PublishFails(t) \/ MessageLost(t)
    \/ OnMessage
    \/ HandlerFails

Spec == Init /\ [][Next]_vars

-----------------------------------------------------------------------------
Settled == hand = NoMessage /\ queue = <<>> /\ \A t \in Thread : pc[t] = "idle"

\* When nothing is on its way the slave has the styles and the files of the
\* master, but for those that went astray: by a failure, by being overtaken by
\* another thread, because a style got a file that is not sent, or because the
\* removal of a style went out with the option "purge" of another request.
SettledAlike ==
    Settled => /\ \A n \in Style \ astray : replica[n] = style[n]
               /\ \A f \in File \ astray : copy[f] = file[f]

\* As long as nothing fails and no two requests overlap, a style that the slave
\* shows in the end is the master's, with the same file; one that was added without
\* its file it may lack.  Nothing is excused: astray is not looked at.
AloneInStep ==
    Settled /\ faults = 0 /\ ~overlapped =>
      \A n \in Style : replica[n] \in {style[n], Absent}

\* As long as nothing fails and no two requests overlap, the file of a style is
\* there before the slave hears of the style, and again when it is told that the
\* file has changed.
FileBeforeStyle ==
    hand.type \in {"add", "edit"} /\ faults = 0 /\ ~overlapped =>
      LET f == IF hand.type = "add" THEN hand.file ELSE replica[hand.style]
      IN  f # Absent => copy[f] \in Body

=============================================================================
