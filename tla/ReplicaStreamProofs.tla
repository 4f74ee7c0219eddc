-------------------------- MODULE ReplicaStreamProofs --------------------------
(***************************************************************************)
(* The promise of ReplicaStream holds for any number of slaves, objects    *)
(* and values, and any lag.  It rests on what a sequence of events makes   *)
(* of a catalog; induction over its length is by the least number for      *)
(* which a statement fails.                                                *)
(***************************************************************************)
EXTENDS ReplicaStream, WellFoundedInduction, TLAPS

\* A handler turns a catalog into a catalog.
LEMMA EffectType ==
    ASSUME NEW c \in Catalog, NEW e \in Event
    PROVE  /\ Effect(c, e) \in Catalog
           /\ Modified(c, e) \in Catalog
  <1>1. /\ e.type \in {"add", "modify", "remove"}
        /\ e.info \in Info
        /\ e.value \in Value \cup {Absent}
    BY DEF Event
  <1>2. CASE e.type = "add"
    <2>1. e.value \in Value \cup {Absent} /\ Effect(c, e) = Added(c, e)
      BY <1>1, <1>2 DEF Effect
    <2> QED  BY <1>1, <2>1 DEF Added, Modified, Catalog
  <1>3. CASE e.type = "modify"
    <2>1. Effect(c, e) = Modified(c, e)
      BY <1>1, <1>3 DEF Effect
    <2> QED  BY <1>1, <2>1 DEF Modified, Catalog
  <1>4. CASE e.type = "remove"
    <2>1. Effect(c, e) = Removed(c, e)
      BY <1>1, <1>4 DEF Effect
    <2> QED  BY <1>1, <2>1 DEF Removed, Modified, Catalog
  <1> QED  BY <1>1, <1>2, <1>3, <1>4

\* The order of the natural numbers, as a relation.
NatOrder == {p \in Nat \X Nat : p[1] < p[2]}

LEMMA NatOrderWellFounded == IsWellFoundedOn(NatOrder, Nat)
  BY NatLessThanWellFounded, Zenon DEF OpToRel, NatOrder

\* A set of numbers that is not empty has a least one.
LEMMA LeastNumber ==
    ASSUME NEW S, S \subseteq Nat, S # {}
    PROVE  \E m \in S : \A n \in S : m <= n
  <1>1. \A m, n \in Nat : n < m => <<n, m>> \in NatOrder
    BY DEF NatOrder
  <1>2. PICK m \in S : \A n \in S : ~(<<n, m>> \in NatOrder)
    BY NatOrderWellFounded, WFMin
  <1>3. \A n \in S : m \in Nat /\ n \in Nat /\ ~(n < m)
    BY <1>1, <1>2
  <1>4. \A n \in S : m <= n
    BY <1>3
  <1> QED  BY <1>4

-----------------------------------------------------------------------------
\* The catalogs that the events lead to, one after the other.
IsReplay(f, c, events) ==
    f = [k \in 0 .. Len(events) |->
            IF k = 0 THEN c ELSE Effect(f[k - 1], events[k])]

LEMMA EffectOfAllReplays ==
    ASSUME NEW c, NEW events
    PROVE  EffectOfAll(c, events) = (CHOOSE f : IsReplay(f, c, events))[Len(events)]
  BY DEF EffectOfAll, IsReplay

LEMMA ReplayExists ==
    ASSUME NEW c, NEW events \in Seq(Event)
    PROVE  \E f : IsReplay(f, c, events)
  <1> DEFINE Upto(f, n) == f = [k \in 0 .. n |->
                                  IF k = 0 THEN c ELSE Effect(f[k - 1], events[k])]
             Bad == {n \in 0 .. Len(events) : ~ \E f : Upto(f, n)}
  <1>1. SUFFICES ASSUME Bad # {} PROVE FALSE
    <2>1. Len(events) \in 0 .. Len(events)
      OBVIOUS
    <2> QED  BY <2>1, <1>1 DEF IsReplay
  <1>2. PICK m \in Bad : \A n \in Bad : m <= n
    <2>1. Bad \subseteq Nat
      OBVIOUS
    <2> HIDE DEF Bad
    <2> QED  BY <1>1, <2>1, LeastNumber
  <1>3. m # 0
    <2>1. Upto([k \in 0 .. 0 |-> c], 0)
      OBVIOUS
    <2> QED  BY <2>1
  <1>4. m - 1 \in 0 .. Len(events) /\ m - 1 \notin Bad
    BY <1>2, <1>3
  <1>5. PICK f : Upto(f, m - 1)
    BY <1>4
  <1> DEFINE g == [k \in 0 .. m |-> IF k = m THEN Effect(f[m - 1], events[m]) ELSE f[k]]
  <1>6. Upto(g, m)
    <2>1. ASSUME NEW k \in 0 .. m
          PROVE  g[k] = IF k = 0 THEN c ELSE Effect(g[k - 1], events[k])
      <3>1. CASE k = m
        BY <1>3, <3>1
      <3>2. CASE k # m
        <4>1. k \in 0 .. m - 1 /\ g[k] = f[k]
          BY <3>2
        <4>2. k # 0 => k - 1 \in 0 .. m /\ k - 1 # m /\ g[k - 1] = f[k - 1]
          BY <3>2
        <4> QED  BY <1>5, <4>1, <4>2
      <3> QED  BY <3>1, <3>2
    <2> QED  BY <2>1
  <1> QED  BY <1>2, <1>6

\* Two sequences that begin alike lead from one catalog to the same.
LEMMA ReplayUnique ==
    ASSUME NEW c, NEW events \in Seq(Event), NEW others \in Seq(Event),
           NEW f, NEW g, IsReplay(f, c, events), IsReplay(g, c, others),
           NEW n \in 0 .. Len(events), n <= Len(others),
           \A k \in 1 .. n : events[k] = others[k]
    PROVE  f[n] = g[n]
  <1> DEFINE Bad == {k \in 0 .. n : f[k] # g[k]}
  <1>1. SUFFICES ASSUME Bad # {} PROVE FALSE
    BY <1>1
  <1>2. PICK m \in Bad : \A k \in Bad : m <= k
    <2>1. Bad \subseteq Nat
      OBVIOUS
    <2> HIDE DEF Bad
    <2> QED  BY <1>1, <2>1, LeastNumber
  <1>3. m # 0
    BY DEF IsReplay
  <1>4. f[m - 1] = g[m - 1]
    BY <1>2, <1>3
  <1>5. m \in 1 .. n /\ m \in 0 .. Len(events) /\ m \in 0 .. Len(others)
    BY <1>3
  <1>6. f[m] = Effect(f[m - 1], events[m])
    BY <1>3, <1>5 DEF IsReplay
  <1>7. g[m] = Effect(g[m - 1], others[m])
    BY <1>3, <1>5 DEF IsReplay
  <1> QED  BY <1>4, <1>5, <1>6, <1>7

LEMMA EffectOfAllIs ==
    ASSUME NEW c, NEW events \in Seq(Event), NEW f, IsReplay(f, c, events)
    PROVE  EffectOfAll(c, events) = f[Len(events)]
  <1> DEFINE g == CHOOSE h : IsReplay(h, c, events)
  <1>1. IsReplay(g, c, events)
    OBVIOUS
  <1>2. Len(events) \in 0 .. Len(events)
    OBVIOUS
  <1> HIDE DEF g
  <1>3. g[Len(events)] = f[Len(events)]
    BY <1>1, <1>2, ReplayUnique
  <1> QED  BY <1>3, EffectOfAllReplays DEF g

-----------------------------------------------------------------------------
(***************************************************************************)
(* What is needed of EffectOfAll: no event changes nothing, and an event   *)
(* may be taken off at either end.                                         *)
(***************************************************************************)
LEMMA EffectOfNone ==
    ASSUME NEW c
    PROVE  EffectOfAll(c, <<>>) = c
  <1>1. <<>> \in Seq(Event) /\ Len(<<>>) = 0
    OBVIOUS
  <1>2. PICK f : IsReplay(f, c, <<>>)
    BY <1>1, ReplayExists
  <1>3. f[0] = c
    BY <1>1, <1>2 DEF IsReplay
  <1> QED  BY <1>1, <1>2, <1>3, EffectOfAllIs

LEMMA EffectOfLast ==
    ASSUME NEW c, NEW events \in Seq(Event), NEW e \in Event
    PROVE  EffectOfAll(c, Append(events, e)) = Effect(EffectOfAll(c, events), e)
  <1> DEFINE all == Append(events, e)
             n   == Len(events)
  <1>1. /\ all \in Seq(Event) /\ Len(all) = n + 1 /\ n \in Nat
        /\ all[n + 1] = e /\ \A k \in 1 .. n : events[k] = all[k]
    OBVIOUS
  <1> HIDE DEF all, n
  <1>2. PICK f : IsReplay(f, c, events)
    BY ReplayExists
  <1>3. PICK g : IsReplay(g, c, all)
    BY <1>1, ReplayExists
  <1>4. g[n + 1] = Effect(g[n], e)
    BY <1>1, <1>3 DEF IsReplay
  <1>5. g[n] = f[n]
    <2>1. n \in 0 .. Len(events) /\ n <= Len(all)
      BY <1>1 DEF n
    <2>2. all \in Seq(Event) /\ \A k \in 1 .. n : events[k] = all[k]
      BY <1>1
    <2>3. f[n] = g[n]
      BY <1>2, <1>3, <2>1, <2>2, ReplayUnique
    <2> QED  BY <2>3
  <1>6. EffectOfAll(c, all) = g[n + 1] /\ EffectOfAll(c, events) = f[n]
    BY <1>1, <1>2, <1>3, EffectOfAllIs DEF n
  <1> QED  BY <1>4, <1>5, <1>6 DEF all

LEMMA EffectOfFirst ==
    ASSUME NEW c, NEW events \in Seq(Event), events # <<>>
    PROVE  EffectOfAll(Effect(c, Head(events)), Tail(events)) = EffectOfAll(c, events)
  <1> DEFINE rest == Tail(events)
             n    == Len(events)
  <1>1. /\ rest \in Seq(Event) /\ n \in Nat /\ n # 0 /\ Len(rest) = n - 1
        /\ Head(events) = events[1]
        /\ \A k \in 1 .. n - 1 : rest[k] = events[k + 1]
    OBVIOUS
  <1> HIDE DEF rest, n
  <1>2. PICK f : IsReplay(f, c, events)
    BY ReplayExists
  <1> DEFINE g == [k \in 0 .. n - 1 |-> f[k + 1]]
  <1>3. f[1] = Effect(c, Head(events))
    <2>1. f[0] = c /\ f[1] = Effect(f[0], events[1])
      BY <1>1, <1>2 DEF IsReplay, n
    <2> QED  BY <1>1, <2>1
  <1>4. ASSUME NEW k \in 1 .. n - 1
        PROVE  g[k] = Effect(g[k - 1], rest[k])
    <2>1. /\ k \in 0 .. n - 1 /\ k - 1 \in 0 .. n - 1
          /\ k + 1 \in 0 .. n /\ k + 1 # 0 /\ (k + 1) - 1 = k /\ (k - 1) + 1 = k
      BY <1>1
    <2>2. f[k + 1] = Effect(f[k], events[k + 1])
      BY <1>2, <2>1 DEF IsReplay, n
    <2> QED  BY <1>1, <2>1, <2>2
  <1>5. g = [k \in 0 .. n - 1 |->
               IF k = 0 THEN f[1] ELSE Effect(g[k - 1], rest[k])]
    <2>1. ASSUME NEW k \in 0 .. n - 1
          PROVE  g[k] = IF k = 0 THEN f[1] ELSE Effect(g[k - 1], rest[k])
      <3>1. CASE k = 0
        BY <3>1
      <3>2. CASE k # 0
        <4>1. k \in 1 .. n - 1
          BY <3>2
        <4> HIDE DEF g
        <4> QED  BY <1>4, <3>2, <4>1
      <3> QED  BY <3>1, <3>2
    <2> QED  BY <2>1
  <1>6. g[n - 1] = f[n]
    BY <1>1
  <1> HIDE DEF g
  <1>7. IsReplay(g, f[1], rest)
    BY <1>1, <1>5 DEF IsReplay
  <1>8. EffectOfAll(f[1], rest) = g[n - 1] /\ EffectOfAll(c, events) = f[n]
    BY <1>1, <1>2, <1>7, EffectOfAllIs DEF n
  <1> QED  BY <1>3, <1>6, <1>8 DEF rest

-----------------------------------------------------------------------------
\* The parts of a sequence that a change or a delivery leaves.
LEMMA SubSeqOfAppend ==
    ASSUME NEW S, NEW seq \in Seq(S), NEW e \in S, NEW k \in 0 .. Len(seq)
    PROVE  SubSeq(Append(seq, e), 1, k) = SubSeq(seq, 1, k)
  OBVIOUS

LEMMA SubSeqOfTail ==
    ASSUME NEW S, NEW seq \in Seq(S), NEW k \in 1 .. Len(seq)
    PROVE  /\ SubSeq(seq, 1, k) \in Seq(S) /\ SubSeq(seq, 1, k) # <<>>
           /\ Head(SubSeq(seq, 1, k)) = Head(seq)
           /\ Tail(SubSeq(seq, 1, k)) = SubSeq(Tail(seq), 1, k - 1)
  OBVIOUS

-----------------------------------------------------------------------------
LEMMA NextType == TypeOK /\ [Next]_vars => TypeOK'
  <1> SUFFICES ASSUME TypeOK, [Next]_vars PROVE TypeOK'
    OBVIOUS
  <1> USE DEF TypeOK
  <1>1. ASSUME NEW e \in Event, Change(e)
        PROVE  TypeOK'
    <2>1. primary' \in Catalog
      BY <1>1, EffectType DEF Change
    <2> QED  BY <1>1, <2>1 DEF Change
  <1>2. ASSUME NEW s \in Slave, Deliver(s)
        PROVE  TypeOK'
    <2>1. Head(pending[s]) \in Event /\ Tail(pending[s]) \in Seq(Event)
      BY <1>2 DEF Deliver
    <2>2. Effect(replica[s], Head(pending[s])) \in Catalog
      BY <2>1, EffectType
    <2> QED  BY <1>2, <2>1, <2>2 DEF Deliver
  <1>3. CASE UNCHANGED vars
    BY <1>3 DEF vars
  <1> QED  BY <1>1, <1>2, <1>3 DEF Next

(***************************************************************************)
(* Every variable keeps its type.                                          *)
(***************************************************************************)
THEOREM StreamTypeCorrect == Spec => []TypeOK
  <1>1. Init => TypeOK
    BY DEF Init, TypeOK
  <1> QED  BY <1>1, NextType, PTL DEF Spec

-----------------------------------------------------------------------------
LEMMA InitLag == Init => PendingExplainsLag /\ PendingFits
  BY EffectOfNone DEF Init, PendingExplainsLag, PendingFits

LEMMA NextLag ==
    TypeOK /\ PendingExplainsLag /\ [Next]_vars => PendingExplainsLag'
  <1> SUFFICES ASSUME TypeOK, PendingExplainsLag, [Next]_vars
               PROVE  PendingExplainsLag'
    OBVIOUS
  <1> USE DEF TypeOK, PendingExplainsLag
  <1>1. ASSUME NEW e \in Event, Change(e), NEW s \in Slave
        PROVE  EffectOfAll(replica[s], pending[s])' = primary'
    <2>1. pending'[s] = Append(pending[s], e) /\ primary' = Effect(primary, e)
          /\ replica' = replica
      BY <1>1 DEF Change
    <2>2. pending[s] \in Seq(Event)
      OBVIOUS
    <2>3. EffectOfAll(replica[s], Append(pending[s], e)) = Effect(primary, e)
      BY <2>2, EffectOfLast
    <2> QED  BY <2>1, <2>3
  <1>2. ASSUME NEW s \in Slave, Deliver(s), NEW r \in Slave
        PROVE  EffectOfAll(replica[r], pending[r])' = primary'
    <2>1. CASE r = s
      <3>1. /\ pending[s] \in Seq(Event) /\ pending[s] # <<>> /\ primary' = primary
            /\ pending'[s] = Tail(pending[s])
            /\ replica'[s] = Effect(replica[s], Head(pending[s]))
        BY <1>2 DEF Deliver
      <3>2. EffectOfAll(replica'[s], pending'[s]) = EffectOfAll(replica[s], pending[s])
        BY <3>1, EffectOfFirst
      <3> QED  BY <2>1, <3>1, <3>2
    <2>2. CASE r # s
      BY <1>2, <2>2 DEF Deliver
    <2> QED  BY <2>1, <2>2
  <1>3. CASE UNCHANGED vars
    BY <1>3 DEF vars
  <1> QED  BY <1>1, <1>2, <1>3 DEF Next

(***************************************************************************)
(* A slave differs from the master by the changes it has not seen, and by  *)
(* nothing else.                                                           *)
(***************************************************************************)
THEOREM LagExplained == Spec => []PendingExplainsLag
  BY InitLag, NextLag, StreamTypeCorrect, PTL DEF Spec

-----------------------------------------------------------------------------
LEMMA ChangeFits ==
    ASSUME TypeOK, PendingExplainsLag, PendingFits, NEW e \in Event, Change(e)
    PROVE  PendingFits'
  <1> SUFFICES ASSUME NEW s \in Slave, NEW k \in DOMAIN pending'[s]
               PROVE  Fits(EffectOfAll(replica'[s], SubSeq(pending'[s], 1, k - 1)),
                           pending'[s][k])
    BY DEF PendingFits
  <1> DEFINE p == pending[s]
  <1>1. /\ pending'[s] = Append(p, e) /\ replica' = replica /\ Fits(primary, e)
        /\ p \in Seq(Event)
    BY DEF Change, TypeOK
  <1>2. EffectOfAll(replica[s], p) = primary
    BY DEF PendingExplainsLag
  <1>3. \A j \in DOMAIN p : Fits(EffectOfAll(replica[s], SubSeq(p, 1, j - 1)), p[j])
    BY DEF PendingFits
  <1> HIDE DEF p
  <1>4. k \in 1 .. Len(p) + 1 /\ k - 1 \in 0 .. Len(p)
    BY <1>1
  <1>5. SubSeq(Append(p, e), 1, k - 1) = SubSeq(p, 1, k - 1)
    BY <1>1, <1>4, SubSeqOfAppend
  <1>6. CASE k = Len(p) + 1
    <2>1. SubSeq(p, 1, k - 1) = p /\ Append(p, e)[k] = e
      BY <1>1, <1>6
    <2> QED  BY <1>1, <1>2, <1>5, <2>1
  <1>7. CASE k # Len(p) + 1
    <2>1. k \in DOMAIN p /\ Append(p, e)[k] = p[k]
      BY <1>1, <1>4, <1>7
    <2> QED  BY <1>1, <1>3, <1>5, <2>1
  <1> QED  BY <1>6, <1>7

LEMMA DeliverFits ==
    ASSUME TypeOK, PendingFits, NEW d \in Slave, Deliver(d)
    PROVE  PendingFits'
  <1> SUFFICES ASSUME NEW s \in Slave, NEW k \in DOMAIN pending'[s]
               PROVE  Fits(EffectOfAll(replica'[s], SubSeq(pending'[s], 1, k - 1)),
                           pending'[s][k])
    BY DEF PendingFits
  <1> DEFINE p == pending[s]
  <1>1. p \in Seq(Event)
    BY DEF TypeOK
  <1>2. \A j \in DOMAIN p : Fits(EffectOfAll(replica[s], SubSeq(p, 1, j - 1)), p[j])
    BY DEF PendingFits
  <1>3. CASE s # d
    BY <1>2, <1>3 DEF Deliver, TypeOK
  <1>4. CASE s = d
    <2>1. /\ pending'[s] = Tail(p) /\ p # <<>>
          /\ replica'[s] = Effect(replica[s], Head(p))
      BY <1>4 DEF Deliver, TypeOK
    <2> HIDE DEF p
    <2>2. k \in 1 .. Len(p) /\ k + 1 \in DOMAIN p /\ (k + 1) - 1 = k
          /\ Tail(p)[k] = p[k + 1]
      BY <1>1, <2>1
    <2>3. Fits(EffectOfAll(replica[s], SubSeq(p, 1, k)), p[k + 1])
      BY <1>2, <2>2
    <2>4. EffectOfAll(replica[s], SubSeq(p, 1, k))
            = EffectOfAll(Effect(replica[s], Head(p)), SubSeq(Tail(p), 1, k - 1))
      BY <1>1, <2>2, SubSeqOfTail, EffectOfFirst
    <2> QED  BY <2>1, <2>2, <2>3, <2>4
  <1> QED  BY <1>3, <1>4

LEMMA NextFits ==
    TypeOK /\ PendingExplainsLag /\ PendingFits /\ [Next]_vars => PendingFits'
  <1>1. UNCHANGED vars /\ PendingFits => PendingFits'
    BY DEF vars, PendingFits
  <1> QED  BY <1>1, ChangeFits, DeliverFits DEF Next

(***************************************************************************)
(* What a slave has still to see fits: no handler will miss the object of  *)
(* a modification or find the one it has to add.                           *)
(***************************************************************************)
THEOREM ChangesWillFit == Spec => []PendingFits
  BY InitLag, NextLag, NextFits, StreamTypeCorrect, PTL DEF Spec

=============================================================================
