----------------------------- MODULE ProducerFlag -----------------------------
(***************************************************************************)
(* JMSListener.setProducerEnabled step by step.                            *)
(*                                                                         *)
(* The flag is a volatile Boolean; the method tests it, enters a block     *)
(* synchronized on the Boolean object the flag refers to at that moment,   *)
(* tests it again and writes.  Auto-boxing makes Boolean.TRUE and          *)
(* Boolean.FALSE the only two such objects, so there are two monitors, and *)
(* threads that find different values do not exclude each other.           *)
(***************************************************************************)
EXTENDS Naturals

CONSTANTS
    Thread,   \* the threads that deliver ToggleEvent and ContextLoadedEvent
    Nobody    \* the owner of a free monitor

ASSUME NobodyAssumption == Nobody \notin Thread

VARIABLES
    producerEnabled,  \* the volatile field
    owner,            \* owner[b]: the thread in the monitor of Boolean b
    pc,               \* pc[t]: where t is in setProducerEnabled
    want,             \* want[t]: the argument of the call
    monitor           \* monitor[t]: the Boolean t synchronizes on

vars == <<producerEnabled, owner, pc, want, monitor>>

Control == {"idle", "test", "synchronize", "acquire", "retest", "write",
            "release", "return"}

TypeOK ==
    /\ producerEnabled \in BOOLEAN
    /\ owner \in [BOOLEAN -> Thread \cup {Nobody}]
    /\ pc \in [Thread -> Control]
    /\ want \in [Thread -> BOOLEAN]
    /\ monitor \in [Thread -> BOOLEAN]

Init ==
    /\ producerEnabled = FALSE
    /\ owner = [b \in BOOLEAN |-> Nobody]
    /\ pc = [t \in Thread |-> "idle"]
    /\ want = [t \in Thread |-> FALSE]
    /\ monitor = [t \in Thread |-> FALSE]

Goto(t, label) == pc' = [pc EXCEPT ![t] = label]

\* onApplicationEvent
Call(t, enabled) ==
    /\ pc[t] = "idle"
    /\ want' = [want EXCEPT ![t] = enabled]
    /\ Goto(t, "test")
    /\ UNCHANGED <<producerEnabled, owner, monitor>>

Test(t) ==
    /\ pc[t] = "test"
    /\ Goto(t, IF producerEnabled = want[t] THEN "return" ELSE "synchronize")
    /\ UNCHANGED <<producerEnabled, owner, want, monitor>>

\* Mutant of Synchronize: the block is guarded by the thread itself.
SynchronizeOnThread(t) ==
    /\ pc[t] = "synchronize"
    /\ monitor' = [monitor EXCEPT ![t] = t]
    /\ Goto(t, "acquire")
    /\ UNCHANGED <<producerEnabled, owner, want>>

\* The expression of the synchronized statement is evaluated ...
Synchronize(t) ==
    /\ pc[t] = "synchronize"
    /\ monitor' = [monitor EXCEPT ![t] = producerEnabled]
    /\ Goto(t, "acquire")
    /\ UNCHANGED <<producerEnabled, owner, want>>

\* ... before the thread waits for the monitor of the object it found.
Acquire(t) ==
    /\ pc[t] = "acquire"
    /\ owner[monitor[t]] = Nobody
    /\ owner' = [owner EXCEPT ![monitor[t]] = t]
    /\ Goto(t, "retest")
    /\ UNCHANGED <<producerEnabled, want, monitor>>

\* Mutant of Retest: the inner test is inverted.
RetestInverted(t) ==
    /\ pc[t] = "retest"
    /\ Goto(t, IF producerEnabled = want[t] THEN "write" ELSE "release")
    /\ UNCHANGED <<producerEnabled, owner, want, monitor>>

\* Mutant of Retest: a thread that was forestalled spins inside the block until the
\* value changes again.
RetestSpinning(t) ==
    /\ pc[t] = "retest"
    /\ Goto(t, IF producerEnabled = want[t] THEN "retest" ELSE "write")
    /\ UNCHANGED <<producerEnabled, owner, want, monitor>>

Retest(t) ==
    /\ pc[t] = "retest"
    /\ Goto(t, IF producerEnabled = want[t] THEN "release" ELSE "write")
    /\ UNCHANGED <<producerEnabled, owner, want, monitor>>

Write(t) ==
    /\ pc[t] = "write"
    /\ producerEnabled' = want[t]
    /\ Goto(t, "release")
    /\ UNCHANGED <<owner, want, monitor>>

Release(t) ==
    /\ pc[t] = "release"
    /\ owner' = [owner EXCEPT ![monitor[t]] = Nobody]
    /\ Goto(t, "return")
    /\ UNCHANGED <<producerEnabled, want, monitor>>

Return(t) ==
    /\ pc[t] = "return"
    /\ Goto(t, "idle")
    /\ UNCHANGED <<producerEnabled, owner, want, monitor>>

Step(t) ==
    \/ Test(t)
    \/ Synchronize(t)
    \/ Acquire(t)
    \/ Retest(t)
    \/ Write(t)
    \/ Release(t)
    \/ Return(t)

Next ==
    \E t \in Thread :
        \/ \E enabled \in BOOLEAN : Call(t, enabled)
        \/ Step(t)

Spec == Init /\ [][Next]_vars

\* A thread inside the method keeps running.  Nobody has to call, and a thread
\* that waits for a monitor may always be passed over.
Fairness == \A t \in Thread : WF_vars(Step(t))

FairSpec == Spec /\ Fairness

-----------------------------------------------------------------------------
(***************************************************************************)
(* The javadoc of setProducerEnabled says "thread safe".  It is, although  *)
(* the monitors do not exclude the threads that matter: a call that writes *)
(* takes effect when it writes, one that does not takes effect when it     *)
(* finds the value it wants.                                               *)
(***************************************************************************)
Phase(label) ==
    CASE label = "idle" -> "idle"
      [] label \in {"release", "return"} -> "done"
      [] OTHER -> "invoked"

Atomic == INSTANCE AtomicFlag WITH
    flag <- producerEnabled,
    call <- [t \in Thread |-> Phase(pc[t])]

ImplementsAtomicFlag == Atomic!Spec

(***************************************************************************)
(* When calls are under way, some call returns: whoever waits for a        *)
(* monitor waits for a thread that waits for nothing.                      *)
(***************************************************************************)
SomeCallReturns ==
    (\E t \in Thread : pc[t] # "idle") ~> (\E t \in Thread : pc[t] = "return")

=============================================================================
