-------------------------- MODULE ProducerFlagProofs --------------------------
(***************************************************************************)
(* setProducerEnabled is linearizable for any number of threads.           *)
(***************************************************************************)
EXTENDS ProducerFlag, TLAPS

LEMMA PhaseOf ==
    /\ Phase("idle") = "idle"
    /\ Phase("release") = "done" /\ Phase("return") = "done"
    /\ \A label \in {"test", "synchronize", "acquire", "retest", "write"} :
          Phase(label) = "invoked"
  BY Zenon DEF Phase

(***************************************************************************)
(* Every variable keeps its type.                                          *)
(***************************************************************************)
THEOREM FlagTypeCorrect == Spec => []TypeOK
  <1>1. Init => TypeOK
    BY DEF Init, TypeOK, Control
  <1>2. TypeOK /\ [Next]_vars => TypeOK'
    <2> SUFFICES ASSUME TypeOK, [Next]_vars PROVE TypeOK'
      OBVIOUS
    <2> USE DEF TypeOK, Control, Goto
    <2>1. ASSUME NEW t \in Thread, NEW enabled \in BOOLEAN, Call(t, enabled)
          PROVE  TypeOK'
      BY <2>1 DEF Call
    <2>2. ASSUME NEW t \in Thread, Test(t) \/ Retest(t) \/ Return(t)
          PROVE  TypeOK'
      BY <2>2 DEF Test, Retest, Return
    <2>3. ASSUME NEW t \in Thread, Synchronize(t)
          PROVE  TypeOK'
      BY <2>3 DEF Synchronize
    <2>4. ASSUME NEW t \in Thread, Acquire(t) \/ Release(t)
          PROVE  TypeOK'
      BY <2>4 DEF Acquire, Release
    <2>5. ASSUME NEW t \in Thread, Write(t)
          PROVE  TypeOK'
      BY <2>5 DEF Write
    <2>6. CASE UNCHANGED vars
      BY <2>6 DEF vars
    <2> QED
      BY <2>1, <2>2, <2>3, <2>4, <2>5, <2>6 DEF Next, Step
  <1> QED  BY <1>1, <1>2, PTL DEF Spec

(***************************************************************************)
(* The calls of setProducerEnabled take effect one at a time, each between *)
(* its invocation and its return, whichever monitors the threads hold.     *)
(***************************************************************************)
THEOREM FlagIsAtomic == Spec => ImplementsAtomicFlag
  <1> DEFINE phases == [t \in Thread |-> Phase(pc[t])]
  <1>1. Init => Atomic!Init
    BY PhaseOf DEF Init, Atomic!Init
  <1>2. TypeOK /\ [Next]_vars => [Atomic!Next]_(Atomic!vars)
    <2> SUFFICES ASSUME TypeOK, [Next]_vars
                 PROVE  [Atomic!Next]_(Atomic!vars)
      OBVIOUS
    <2>0. ASSUME NEW t \in Thread, NEW label, Goto(t, label)
          PROVE  phases' = [phases EXCEPT ![t] = Phase(label)]
      BY <2>0 DEF Goto, TypeOK
    <2> HIDE DEF phases
    <2>1. ASSUME NEW t \in Thread, NEW enabled \in BOOLEAN, Call(t, enabled)
          PROVE  Atomic!Invoke(t, enabled)
      <3>1. phases[t] = "idle" /\ phases' = [phases EXCEPT ![t] = "invoked"]
        BY <2>0, <2>1, PhaseOf DEF Call, phases
      <3> QED  BY <2>1, <3>1 DEF Call, Atomic!Invoke, phases
    <2>2. ASSUME NEW t \in Thread,
                 \/ Test(t) /\ producerEnabled # want[t]
                 \/ Synchronize(t)
                 \/ Acquire(t)
                 \/ Retest(t) /\ producerEnabled # want[t]
                 \/ Release(t)
          PROVE  UNCHANGED Atomic!vars
      <3>1. PICK label \in Control :
                Goto(t, label) /\ Phase(label) = phases[t]
        BY <2>2, PhaseOf
        DEF Test, Synchronize, Acquire, Retest, Release, phases, Control
      <3>2. phases' = [phases EXCEPT ![t] = phases[t]]
        BY <2>0, <3>1
      <3>3. phases' = phases
        BY <3>2 DEF phases
      <3> QED
        BY <2>2, <3>3
        DEF Test, Synchronize, Acquire, Retest, Release, Atomic!vars, phases
    <2>3. ASSUME NEW t \in Thread,
                 \/ Test(t) /\ producerEnabled = want[t]
                 \/ Retest(t) /\ producerEnabled = want[t]
                 \/ Write(t)
          PROVE  Atomic!TakeEffect(t)
      <3>1. phases[t] = "invoked" /\ phases' = [phases EXCEPT ![t] = "done"]
        BY <2>0, <2>3, PhaseOf DEF Test, Retest, Write, phases
      <3>2. producerEnabled' = want[t] /\ UNCHANGED want
        BY <2>3 DEF Test, Retest, Write
      <3> QED  BY <3>1, <3>2 DEF Atomic!TakeEffect, phases
    <2>4. ASSUME NEW t \in Thread, Return(t)
          PROVE  Atomic!Return(t)
      <3>1. phases[t] = "done" /\ phases' = [phases EXCEPT ![t] = "idle"]
        BY <2>0, <2>4, PhaseOf DEF Return, phases
      <3> QED  BY <2>4, <3>1 DEF Return, Atomic!Return, phases
    <2>5. CASE UNCHANGED vars
      BY <2>5 DEF vars, Atomic!vars
    <2> QED
      BY <2>1, <2>2, <2>3, <2>4, <2>5 DEF Next, Step, Atomic!Next
  <1> QED
    BY <1>1, <1>2, FlagTypeCorrect, PTL
    DEF Spec, ImplementsAtomicFlag, Atomic!Spec

=============================================================================
