------------------------ MODULE MessagePropertiesProofs ------------------------
(***************************************************************************)
(* Proofs about MessageProperties: its types for any number of threads,    *)
(* and that a single publishing thread never confuses tags or options.     *)
(* With two threads TLC finds the confusion.                               *)
(***************************************************************************)
EXTENDS MessageProperties, SequenceTheorems, TLAPS

OneThread == \A t, u \in Thread : t = u

\* What is in the shared properties when a thread is about to use them.
Prepared(t) ==
    /\ pc[t] = "send" => properties.spi = Head(todo[t])
    /\ pc[t] = "options" /\ asked[t] # Unset => parameters[t] = asked[t]
    /\ pc[t] \in {"tag", "send"} /\ asked[t] # Unset =>
          properties.purge = asked[t]

SingleThreadInv ==
    /\ TypeOK
    /\ \A t \in Thread : Prepared(t)
    /\ TagMatchesPayload
    /\ PurgeReachesSlaves

-----------------------------------------------------------------------------
\* A job has one or two messages, each with the name of its handler.
LEMMA JobType ==
    ASSUME NEW job \in Job
    PROVE  job \in Seq(Spi) /\ job # <<>>
  <1> DEFINE S == Spi
  <1>1. /\ AddSPI \in S
        /\ ModifySPI \in S
        /\ RemoveSPI \in S
        /\ StylesFileSPI \in S
        /\ ConfigurationSPI \in S
    BY DEF Spi
  <1>2. \A a, b \in S : /\ <<a>> \in Seq(S) /\ <<a>> # <<>>
                       /\ <<a, b>> \in Seq(S) /\ <<a, b>> # <<>>
    <2> HIDE DEF S
    <2> QED  OBVIOUS
  <1> HIDE DEF S
  <1>3. job \in Seq(S) /\ job # <<>>
    BY <1>1, <1>2 DEF Job
  <1> QED  BY <1>3 DEF S

\* A busy thread has a message left; sending it leaves a shorter list.
LEMMA TodoOfBusy ==
    ASSUME TypeOK, NEW t \in Thread, pc[t] # "idle"
    PROVE  /\ Head(todo[t]) \in Spi
           /\ Tail(todo[t]) \in Seq(Spi)
           /\ (Tail(todo[t]) = <<>>) <=> ~(Len(todo[t]) > 1)
  <1>1. todo[t] \in Seq(Spi) /\ todo[t] # <<>>
    BY DEF TypeOK
  <1>2. Head(todo[t]) \in Spi
    BY <1>1
  <1>3. /\ Tail(todo[t]) \in Seq(Spi)
        /\ Len(Tail(todo[t])) = Len(todo[t]) - 1
        /\ Len(todo[t]) \in Nat \ {0}
    BY <1>1
  <1>4. (Tail(todo[t]) = <<>>) <=> (Len(Tail(todo[t])) = 0)
    BY <1>3, EmptySeq
  <1>5. \A n \in Nat \ {0} : (n - 1 = 0) <=> ~(n > 1)
    OBVIOUS
  <1>6. (Tail(todo[t]) = <<>>) <=> ~(Len(todo[t]) > 1)
    BY <1>3, <1>4, <1>5
  <1> QED  BY <1>2, <1>3, <1>6

LEMMA BeginType ==
    ASSUME TypeOK, NEW t \in Thread, NEW job \in Job, NEW purge \in Option,
           Begin(t, job, purge), parameters' \in [Thread -> Option]
    PROVE  TypeOK'
  <1>1. job \in Seq(Spi) /\ job # <<>>
    BY JobType
  <1>2. Unset \in Option
    BY DEF Option
  <1>3. asked' \in [Thread -> Option]
    BY <1>2 DEF Begin, TypeOK
  <1>4. \A u \in Thread : (pc'[u] = "idle") = (todo'[u] = <<>>)
    BY <1>1 DEF Begin, TypeOK
  <1>5. /\ todo' \in [Thread -> Seq(Spi)]
        /\ pc' \in [Thread -> {"idle", "options", "tag", "send"}]
    BY <1>1 DEF Begin, TypeOK
  <1> QED  BY <1>3, <1>4, <1>5 DEF Begin, TypeOK

LEMMA SendType ==
    ASSUME TypeOK, NEW t \in Thread, Send(t)
    PROVE  TypeOK'
  <1>1. /\ Head(todo[t]) \in Spi
        /\ Tail(todo[t]) \in Seq(Spi)
        /\ (Tail(todo[t]) = <<>>) <=> ~(Len(todo[t]) > 1)
    BY TodoOfBusy DEF Send
  <1>2. message' \in Message
    BY <1>1 DEF Send, TypeOK, Message
  <1>3. \A u \in Thread : (pc'[u] = "idle") = (todo'[u] = <<>>)
    BY <1>1 DEF Send, TypeOK
  <1>4. /\ todo' \in [Thread -> Seq(Spi)]
        /\ pc' \in [Thread -> {"idle", "options", "tag", "send"}]
    BY <1>1 DEF Send, TypeOK
  <1> QED  BY <1>2, <1>3, <1>4 DEF Send, TypeOK

LEMMA InitType ==
    ASSUME Init
    PROVE  TypeOK
  BY DEF Init, TypeOK, Option

LEMMA StepType ==
    ASSUME TypeOK, [Next]_vars
    PROVE  TypeOK'
  <1>1. ASSUME NEW t \in Thread, NEW job \in Job, NEW purge \in Option,
               RestRequest(t, job, purge)
        PROVE  TypeOK'
    <2>1. parameters' \in [Thread -> Option]
      BY <1>1 DEF RestRequest, TypeOK
    <2> QED  BY <1>1, <2>1, BeginType DEF RestRequest
  <1>2. ASSUME NEW t \in Thread, NEW job \in Job, GuiRequest(t, job)
        PROVE  TypeOK'
    <2>1. parameters' \in [Thread -> Option] /\ Unset \in Option
      BY <1>2 DEF GuiRequest, TypeOK, Option
    <2> QED  BY <1>2, <2>1, BeginType DEF GuiRequest
  <1>3. ASSUME NEW t \in Thread, UpdateProperties(t)
        PROVE  TypeOK'
    BY <1>3 DEF UpdateProperties, TypeOK
  <1>4. ASSUME NEW t \in Thread, Tag(t)
        PROVE  TypeOK'
    <2>1. Head(todo[t]) \in Spi
      BY <1>4, TodoOfBusy DEF Tag
    <2> QED  BY <1>4, <2>1 DEF Tag, TypeOK
  <1>5. ASSUME NEW t \in Thread, Send(t)
        PROVE  TypeOK'
    BY <1>5, SendType
  <1>6. CASE UNCHANGED vars
    BY <1>6 DEF vars, TypeOK
  <1> QED  BY <1>1, <1>2, <1>3, <1>4, <1>5, <1>6 DEF Next

(***************************************************************************)
(* Types, for any number of threads: a thread is idle in JMSPublisher      *)
(* exactly when it has sent all the messages of its change.                *)
(***************************************************************************)
THEOREM PropertiesTypeCorrect == Spec => []TypeOK
  <1> QED  BY InitType, StepType, PTL DEF Spec

-----------------------------------------------------------------------------
\* A new request: what its thread local holds is what it asked for.
LEMMA BeginPrepares ==
    ASSUME TypeOK, OneThread, NEW t \in Thread, NEW job, NEW purge,
           Begin(t, job, purge),
           purge = Unset \/ parameters' = [parameters EXCEPT ![t] = purge]
    PROVE  /\ \A u \in Thread : Prepared(u)'
           /\ UNCHANGED message
  <1>1. /\ pc'[t] \in {"options", "tag"}
        /\ pc'[t] = "tag" => asked'[t] = Unset
        /\ pc'[t] = "options" => asked'[t] = purge
    BY DEF Begin, TypeOK
  <1>2. asked'[t] # Unset => parameters'[t] = purge
    BY <1>1 DEF TypeOK
  <1>3. Prepared(t)'
    BY <1>1, <1>2 DEF Prepared
  <1> QED  BY <1>3 DEF OneThread, Begin

LEMMA InitPrepared ==
    ASSUME Init
    PROVE  SingleThreadInv
  <1>1. TypeOK
    BY InitType
  <1> QED  BY <1>1 DEF Init, SingleThreadInv, Prepared, TagMatchesPayload,
                     PurgeReachesSlaves

LEMMA SendMatches ==
    ASSUME SingleThreadInv, OneThread, NEW t \in Thread, Send(t)
    PROVE  /\ \A u \in Thread : Prepared(u)'
           /\ TagMatchesPayload'
           /\ PurgeReachesSlaves'
  <1>1. Prepared(t) /\ pc[t] = "send"
    BY DEF SingleThreadInv, Send
  <1>2. message' = [payload |-> Head(todo[t]), spi |-> properties.spi,
                    purge |-> properties.purge, asked |-> asked[t]]
    BY DEF Send
  <1>3. TagMatchesPayload' /\ PurgeReachesSlaves'
    BY <1>1, <1>2 DEF Prepared, TagMatchesPayload, PurgeReachesSlaves
  <1>4. pc'[t] \in {"tag", "idle"}
    BY DEF Send, SingleThreadInv, TypeOK
  <1>5. Prepared(t)'
    BY <1>1, <1>4 DEF Prepared, Send
  <1> QED  BY <1>3, <1>5 DEF OneThread

LEMMA StepMatches ==
    ASSUME SingleThreadInv, OneThread, [Next]_vars
    PROVE  /\ \A u \in Thread : Prepared(u)'
           /\ TagMatchesPayload'
           /\ PurgeReachesSlaves'
  <1>0. /\ TypeOK
        /\ TagMatchesPayload
        /\ PurgeReachesSlaves
        /\ \A u \in Thread : Prepared(u)
    BY DEF SingleThreadInv
  <1>1. ASSUME UNCHANGED message
        PROVE  TagMatchesPayload' /\ PurgeReachesSlaves'
    BY <1>0, <1>1 DEF TagMatchesPayload, PurgeReachesSlaves
  <1>2. ASSUME NEW t \in Thread, NEW job \in Job,
               \/ \E purge \in Option : RestRequest(t, job, purge)
               \/ GuiRequest(t, job)
        PROVE  (\A u \in Thread : Prepared(u)') /\ UNCHANGED message
    BY <1>0, <1>2, BeginPrepares DEF RestRequest, GuiRequest
  <1>3. ASSUME NEW t \in Thread, UpdateProperties(t)
        PROVE  (\A u \in Thread : Prepared(u)') /\ UNCHANGED message
    <2>1. pc'[t] = "tag" /\ (asked'[t] # Unset => properties'.purge = asked'[t])
      BY <1>0, <1>3 DEF UpdateProperties, Prepared, TypeOK
    <2>2. Prepared(t)'
      BY <2>1 DEF Prepared
    <2> QED  BY <1>3, <2>2 DEF OneThread, UpdateProperties
  <1>4. ASSUME NEW t \in Thread, Tag(t)
        PROVE  (\A u \in Thread : Prepared(u)') /\ UNCHANGED message
    <2>1. /\ pc'[t] = "send"
          /\ properties'.spi = Head(todo'[t])
          /\ properties'.purge = properties.purge
      BY <1>0, <1>4 DEF Tag, TypeOK
    <2>2. Prepared(t)'
      BY <1>0, <1>4, <2>1 DEF Prepared, Tag
    <2> QED  BY <1>4, <2>2 DEF OneThread, Tag
  <1>5. CASE UNCHANGED vars
    BY <1>0, <1>5, <1>1 DEF vars, Prepared
  <1> QED  BY <1>1, <1>2, <1>3, <1>4, <1>5, SendMatches DEF Next

LEMMA SingleThread ==
    ASSUME OneThread
    PROVE  Spec => []SingleThreadInv
  <1>1. Init => SingleThreadInv
    BY InitPrepared
  <1>2. SingleThreadInv /\ [Next]_vars => SingleThreadInv'
    BY StepType, StepMatches DEF SingleThreadInv
  <1> QED  BY <1>1, <1>2, PTL DEF Spec

(***************************************************************************)
(* With one publishing thread the tag of every message names the handler   *)
(* that made its payload: between props.put and the callback of the        *)
(* template nobody else writes the shared Properties.                      *)
(***************************************************************************)
THEOREM OneThreadTags ==
    ASSUME OneThread
    PROVE  Spec => []TagMatchesPayload
  <1>1. SingleThreadInv => TagMatchesPayload
    BY DEF SingleThreadInv
  <1> QED  BY <1>1, SingleThread, PTL

(***************************************************************************)
(* With one publishing thread what a REST request says about "purge" is    *)
(* what the slaves are told, although earlier values stay in the shared    *)
(* Properties: updateProperties overwrites them first.                     *)
(***************************************************************************)
THEOREM OneThreadOptions ==
    ASSUME OneThread
    PROVE  Spec => []PurgeReachesSlaves
  <1>1. SingleThreadInv => PurgeReachesSlaves
    BY DEF SingleThreadInv
  <1> QED  BY <1>1, SingleThread, PTL

=============================================================================
