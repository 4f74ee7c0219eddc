------------------------------ MODULE AtomicFlag ------------------------------
(***************************************************************************)
(* What "thread safe" promises of a flag that several threads set: every   *)
(* call takes effect at one instant between its invocation and its return. *)
(***************************************************************************)
CONSTANT Thread

VARIABLES
    flag,    \* the value of the flag
    want,    \* want[t]: the value t is, or was last, asked to set
    call     \* call[t]: how far the call of t is

vars == <<flag, want, call>>

TypeOK ==
    /\ flag \in BOOLEAN
    /\ want \in [Thread -> BOOLEAN]
    /\ call \in [Thread -> {"idle", "invoked", "done"}]

Init ==
    /\ flag = FALSE
    /\ want = [t \in Thread |-> FALSE]
    /\ call = [t \in Thread |-> "idle"]

Invoke(t, b) ==
    /\ call[t] = "idle"
    /\ call' = [call EXCEPT ![t] = "invoked"]
    /\ want' = [want EXCEPT ![t] = b]
    /\ UNCHANGED flag

TakeEffect(t) ==
    /\ call[t] = "invoked"
    /\ call' = [call EXCEPT ![t] = "done"]
    /\ flag' = want[t]
    /\ UNCHANGED want

Return(t) ==
    /\ call[t] = "done"
    /\ call' = [call EXCEPT ![t] = "idle"]
    /\ UNCHANGED <<flag, want>>

Next ==
    \E t \in Thread :
        \/ \E b \in BOOLEAN : Invoke(t, b)
        \/ TakeEffect(t)
        \/ Return(t)

Spec == Init /\ [][Next]_vars

=============================================================================
