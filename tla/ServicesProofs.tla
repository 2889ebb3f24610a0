---------------------------- MODULE ServicesProofs ----------------------------
(***************************************************************************)
(* Proofs about Services, for any number of callers, units and systemd     *)
(* jobs: the end of a call's job is never missed, a call nobody interfered *)
(* with is answered by the end of its own job, the feed of unit states     *)
(* comes in order and ends with the truth, and a client that pages gets    *)
(* the list, whatever its glob and the names of the units.                 *)
(***************************************************************************)
EXTENDS Services, TLAPS, FiniteSetTheorems, SequenceTheorems, WellFoundedInduction

-----------------------------------------------------------------------------
(* Induction.                                                              *)

Less == {p \in Nat \X Nat : p[1] < p[2]}

\* A set of numbers has a least one.
LEMMA Least ==
    ASSUME NEW T \in SUBSET Nat, T # {}
    PROVE  \E x \in T : \A y \in T : x <= y
<1>1. Less = OpToRel(<, Nat)
  BY DEF Less, OpToRel
<1>2. PICK x \in T : \A y \in T : <<y, x>> \notin Less
  BY <1>1, NatLessThanWellFounded, WFMin
<1>3. \A y \in T : y \in Nat /\ x \in Nat /\ ~ (y < x)
  BY <1>2 DEF Less
<1> QED
  BY <1>3

\* A set with 0, and with every number's successor, has all numbers.
LEMMA Climb ==
    ASSUME NEW T, 0 \in T, \A n \in Nat : n \in T => n + 1 \in T
    PROVE  Nat \subseteq T
<1> SUFFICES ASSUME Nat \ T # {} PROVE FALSE
  OBVIOUS
<1>1. PICK x \in Nat \ T : \A y \in Nat \ T : x <= y
  BY Least
<1>2. x # 0 /\ x \in Nat /\ x - 1 \in Nat /\ (x - 1) + 1 = x
  OBVIOUS
<1>3. x - 1 \notin Nat \ T
  BY <1>1, <1>2
<1> QED
  BY <1>1, <1>2, <1>3

\* A set of numbers in order.
LEMMA InOrderExists ==
    ASSUME NEW n \in Nat, NEW S \in SUBSET (1..n)
    PROVE  \E s \in [1..Cardinality(S) -> S] : InOrder(s) /\ ToSet(s) = S
<1> DEFINE Good(R) == \E s \in [1..Cardinality(R) -> R] : InOrder(s) /\ ToSet(s) = R
           T == {k \in Nat : \A R \in SUBSET (1..k) : Good(R)}
<1>1. 0 \in T
  <2>1. \A R \in SUBSET (1..0) : R = {}
    OBVIOUS
  <2>2. Cardinality({}) = 0
    BY FS_EmptySet
  <2>3. PICK s : s = [i \in 1..0 |-> 0]
    OBVIOUS
  <2>4. s \in [1..0 -> {}] /\ InOrder(s) /\ ToSet(s) = {}
    BY <2>3 DEF InOrder, ToSet
  <2>5. Good({})
    BY <2>2, <2>4
  <2> HIDE DEF Good
  <2> QED
    BY <2>1, <2>5
<1>2. ASSUME NEW k \in Nat, k \in T PROVE k + 1 \in T
  <2>0. k + 1 \in Nat
    OBVIOUS
  <2> SUFFICES ASSUME NEW R \in SUBSET (1..k + 1) PROVE Good(R)
    BY <2>0
  <2>1. CASE k + 1 \notin R
    <3>1. R \in SUBSET (1..k)
      BY <2>1
    <3> QED
      BY <1>2, <3>1
  <2>2. CASE k + 1 \in R
    <3> DEFINE Q == R \ {k + 1}
    <3>1. Q \in SUBSET (1..k) /\ R = Q \cup {k + 1} /\ k + 1 \notin Q
      BY <2>2
    <3> HIDE DEF Q
    <3>2. IsFiniteSet(Q)
      <4>1. IsFiniteSet(1..k)
        BY FS_Interval
      <4> QED
        BY <3>1, <4>1, FS_Subset
    <3>3. PICK m \in Nat : m = Cardinality(Q) /\ Cardinality(R) = m + 1
      <4>1. Cardinality(Q) \in Nat
        BY <3>2, FS_CardinalityType
      <4>2. Cardinality(Q \cup {k + 1}) = Cardinality(Q) + 1
        BY <3>1, <3>2, FS_AddElement
      <4> QED
        BY <3>1, <4>1, <4>2
    <3>4. PICK s \in [1..m -> Q] : InOrder(s) /\ ToSet(s) = Q
      BY <1>2, <3>1, <3>3
    <3>5. PICK g : g = [i \in 1..m + 1 |-> IF i <= m THEN s[i] ELSE k + 1]
      OBVIOUS
    <3>6. g \in [1..m + 1 -> R]
      BY <3>1, <3>5
    <3>7. InOrder(g)
      <4> SUFFICES ASSUME NEW i \in 1..m + 1, NEW j \in 1..m + 1, i < j PROVE g[i] < g[j]
        BY <3>5 DEF InOrder
      <4>1. i \in 1..m /\ g[i] = s[i] /\ s[i] \in 1..k
        <5>1. i \in 1..m
          OBVIOUS
        <5>2. s[i] \in Q
          BY <5>1
        <5>3. g[i] = s[i]
          BY <3>5, <5>1
        <5>4. s[i] \in 1..k
          BY <3>1, <5>2
        <5> QED
          BY <5>1, <5>3, <5>4
      <4>2. CASE j \in 1..m
        BY <3>4, <3>5, <4>1, <4>2 DEF InOrder
      <4>3. CASE j = m + 1
        BY <3>5, <4>1, <4>3
      <4> QED
        BY <4>2, <4>3
    <3>8. ToSet(g) = R
      <4>1. \A i \in 1..m + 1 : g[i] \in R
        BY <3>6
      <4>2. ASSUME NEW x \in R PROVE \E i \in 1..m + 1 : g[i] = x
        <5>1. CASE x = k + 1
          BY <3>5, <5>1
        <5>2. CASE x \in Q
          <6>1. PICK i \in 1..m : s[i] = x
            BY <3>4, <5>2 DEF ToSet
          <6> QED
            BY <3>5, <6>1
        <5> QED
          BY <3>1, <5>1, <5>2
      <4> QED
        BY <3>5, <4>1, <4>2 DEF ToSet
    <3> QED
      BY <3>3, <3>6, <3>7, <3>8
  <2> QED
    BY <2>1, <2>2
<1>3. n \in T
  <2> HIDE DEF T
  <2> QED
    BY <1>1, <1>2, Climb
<1> QED
  BY <1>3

LEMMA AscendingRule ==
    ASSUME NEW n \in Nat, NEW S \in SUBSET (1..n), NEW s, s = Ascending(S)
    PROVE  s \in Seq(S) /\ InOrder(s) /\ ToSet(s) = S
<1>1. s \in [1..Cardinality(S) -> S] /\ InOrder(s) /\ ToSet(s) = S
  BY InOrderExists DEF Ascending
<1>2. Cardinality(S) \in Nat
  <2>1. IsFiniteSet(1..n)
    BY FS_Interval
  <2>2. IsFiniteSet(S)
    BY <2>1, FS_Subset
  <2> QED
    BY <2>2, FS_CardinalityType
<1> QED
  BY <1>1, <1>2

-----------------------------------------------------------------------------
(* The invariant of the calls.                                             *)

Subscribed == {"sent", "reply", "wait"}

\* What a stream of signals says of a job or a unit.
Holds(s, j)       == \E i \in 1..Len(s) : s[i].job = j
Silent(s, u)      == \A i \in 1..Len(s) : s[i].unit # u
OwnFirst(s, u, j) == \A i \in 1..Len(s) : s[i].unit = u => \E k \in 1..i : s[k].job = j

\* Along a call: before it is submitted nothing happens to its unit, or it is
\* not alone; afterwards its own signal precedes every other of the unit.
Ok(r, s) ==
    /\ r.pc \notin Subscribed => s = << >>
    /\ r.pc \notin {"query", "answered"} => r.cause = 0
    /\ r.pc \in {"reply", "wait"} =>
          /\ r.job # 0
          /\ bus => job[r.unit].id = r.job \/ Holds(s, r.job)
          /\ r.alone => OwnFirst(s, r.unit, r.job)
    /\ r.pc = "sent" /\ r.alone => job[r.unit].id = 0 /\ Silent(s, r.unit)
    /\ r.cause # 0 /\ r.alone => r.cause = r.job

CallInv(c) == Ok(call[c], stream[c])

\* What TypeOK leaves out: the fields of the client, and panics to come.
Shape ==
    /\ DOMAIN lister = {"pc", "glob", "state", "page", "got", "all", "steady"}
    /\ ~ pump.up => pump.life <= MaxPanics

ServicesInv == TypeOK /\ Shape /\ \A c \in Callers : CallInv(c)

-----------------------------------------------------------------------------
(* The pump of a topic, whatever is sent on its channel.                   *)

LEMMA LargerSet ==
    ASSUME NEW A, NEW B, \A x \in A : x \in B, NEW s \in Seq(A)
    PROVE  s \in Seq(B)
<1>1. s \in [1..Len(s) -> A] /\ Len(s) \in Nat
  OBVIOUS
<1>2. s \in [1..Len(s) -> B]
  BY <1>1
<1> QED
  BY <1>1, <1>2

PumpSteps(first) == Forward \/ SkipLagged \/ PumpStarts(first) \/ PumpPanics

PumpShape ==
    /\ PumpTypeOK /\ Len(ring) \in Nat
    /\ ~ pump.up => pump.life <= MaxPanics

\* The subscribers' view rises through what was sent, and what it lacks was
\* skipped.
Rising  == \A i, j \in 1..Len(feed) : i < j => feed[i].at < feed[j].at
Covered == {feed[i].at : i \in 1..Len(feed)} \cup skipped = 1..pump.pos

LEMMA PumpFacts ==
    ASSUME PumpShape
    PROVE  /\ Len(feed) \in Nat
           /\ \A i \in 1..Len(feed) : /\ feed[i].at \in 1..Len(ring)
                                      /\ feed[i].life \in Nat /\ feed[i].seq \in Nat
           /\ pump = [up |-> pump.up, pos |-> pump.pos, seq |-> pump.seq, life |-> pump.life]
           /\ pump.up \in BOOLEAN /\ pump.pos \in Nat /\ pump.seq \in Nat /\ pump.life \in Nat
           /\ pump.pos <= Len(ring) /\ pump.life \in 0..MaxPanics + 1
<1>1. feed \in Seq([life : 0..MaxPanics + 1, seq : Nat, at : 1..Len(ring)])
  BY DEF PumpShape, PumpTypeOK
<1>2. \A i \in 1..Len(feed) : feed[i] \in [life : 0..MaxPanics + 1, seq : Nat, at : 1..Len(ring)]
  <2> DEFINE S == [life : 0..MaxPanics + 1, seq : Nat, at : 1..Len(ring)]
  <2>1. feed \in Seq(S)
    BY <1>1
  <2> HIDE DEF S
  <2>2. \A i \in 1..Len(feed) : feed[i] \in S
    BY <2>1
  <2> QED
    BY <2>2 DEF S
<1>3. pump \in [up : BOOLEAN, pos : 0..Len(ring), seq : Nat, life : 0..MaxPanics + 1]
  BY DEF PumpShape, PumpTypeOK
<1>4. Len(ring) \in Nat
  BY DEF PumpShape
<1>5. Len(feed) \in Nat
  BY <1>1
<1>6. \A i \in 1..Len(feed) : /\ feed[i].at \in 1..Len(ring)
                              /\ feed[i].life \in Nat /\ feed[i].seq \in Nat
  BY <1>2, PumpAssumption
<1>7. /\ pump = [up |-> pump.up, pos |-> pump.pos, seq |-> pump.seq, life |-> pump.life]
      /\ pump.up \in BOOLEAN /\ pump.pos \in 0..Len(ring) /\ pump.seq \in Nat
      /\ pump.life \in 0..MaxPanics + 1
  BY <1>3
<1>8. pump.life \in Nat /\ pump.pos \in Nat /\ pump.pos <= Len(ring)
  BY <1>4, <1>7, PumpAssumption
<1> QED
  BY <1>5, <1>6, <1>7, <1>8

\* What is sent on the channel leaves the pump where it is.
LEMMA RingGrows ==
    ASSUME PumpShape, Len(ring') \in Nat, Len(ring) <= Len(ring'), feed' = feed, skipped' = skipped,
           pump'.up = pump.up, pump'.life = pump.life,
           pump' \in [up : BOOLEAN, pos : 0..Len(ring), seq : Nat, life : 0..MaxPanics + 1]
    PROVE  PumpShape'
<1>1. PICK a \in Nat, b \in Nat : a = Len(ring) /\ b = Len(ring') /\ a <= b
  BY DEF PumpShape
<1>2. pump' \in [up : BOOLEAN, pos : 0..b, seq : Nat, life : 0..MaxPanics + 1]
  BY <1>1
<1>3. feed' \in Seq([life : 0..MaxPanics + 1, seq : Nat, at : 1..b])
  <2>1. PICK A, B : /\ A = [life : 0..MaxPanics + 1, seq : Nat, at : 1..a]
                    /\ B = [life : 0..MaxPanics + 1, seq : Nat, at : 1..b]
    OBVIOUS
  <2>2. feed' \in Seq(A)
    BY <1>1, <2>1 DEF PumpShape, PumpTypeOK
  <2>3. \A f \in A : f \in B
    BY <1>1, <2>1
  <2>4. feed' \in Seq(B)
    BY <2>2, <2>3, LargerSet
  <2> QED
    BY <2>1, <2>4
<1>4. skipped' \subseteq 1..b
  <2>1. skipped \subseteq 1..a
    BY <1>1 DEF PumpShape, PumpTypeOK
  <2> QED
    BY <1>1, <2>1
<1> QED
  BY <1>1, <1>2, <1>3, <1>4 DEF PumpShape, PumpTypeOK

LEMMA PumpKeepsShape ==
    ASSUME PumpShape, NEW first \in Nat, PumpSteps(first)
    PROVE  PumpShape'
<1>1. ring' = ring
  BY DEF PumpSteps, Forward, SkipLagged, PumpStarts, PumpPanics
<1>2. /\ pump \in [up : BOOLEAN, pos : 0..Len(ring), seq : Nat, life : 0..MaxPanics + 1]
      /\ feed \in Seq([life : 0..MaxPanics + 1, seq : Nat, at : 1..Len(ring)])
      /\ skipped \subseteq 1..Len(ring) /\ Len(ring) \in Nat
      /\ ~ pump.up => pump.life <= MaxPanics
  BY DEF PumpShape, PumpTypeOK
<1>3. PumpTypeOK' /\ (~ pump'.up => pump'.life <= MaxPanics)
  <2> USE PumpAssumption
  <2>1. CASE Forward
    <3>1. [life |-> pump.life, seq |-> pump.seq, at |-> pump.pos + 1]
            \in [life : 0..MaxPanics + 1, seq : Nat, at : 1..Len(ring)]
      BY <1>2, <2>1 DEF Forward, Behind
    <3>2. feed' \in Seq([life : 0..MaxPanics + 1, seq : Nat, at : 1..Len(ring)])
      BY <1>2, <2>1, <3>1 DEF Forward
    <3>3. pump' \in [up : BOOLEAN, pos : 0..Len(ring), seq : Nat, life : 0..MaxPanics + 1] /\ pump'.up
      <4>1. pump.up /\ pump' = [pump EXCEPT !.pos = pump.pos + 1, !.seq = pump.seq + 1]
        BY <2>1 DEF Forward
      <4>2. pump.pos + 1 \in 0..Len(ring) /\ pump.seq + 1 \in Nat
        BY <1>2, <2>1 DEF Forward, Behind
      <4> QED
        BY <1>2, <4>1, <4>2
    <3> QED
      BY <1>1, <1>2, <2>1, <3>2, <3>3 DEF Forward, PumpTypeOK
  <2>2. CASE SkipLagged
    <3>1. /\ pump.up /\ Len(ring) - pump.pos > Lag /\ feed' = feed
          /\ pump' = [pump EXCEPT !.pos = Len(ring) - Lag]
          /\ skipped' = skipped \cup (pump.pos + 1 .. Len(ring) - Lag)
      BY <2>2 DEF SkipLagged, Behind
    <3>2. pump.pos \in 0..Len(ring) /\ Len(ring) - Lag \in 0..Len(ring)
      BY <1>2, <3>1
    <3>3. pump' \in [up : BOOLEAN, pos : 0..Len(ring), seq : Nat, life : 0..MaxPanics + 1] /\ pump'.up
      BY <1>2, <3>1, <3>2
    <3>4. pump.pos + 1 .. Len(ring) - Lag \subseteq 1..Len(ring)
      BY <1>2, <3>2
    <3> QED
      BY <1>1, <1>2, <3>1, <3>3, <3>4 DEF PumpTypeOK
  <2>3. CASE PumpStarts(first)
    <3>1. /\ ~ pump.up /\ feed' = feed
          /\ pump' = [up |-> TRUE, pos |-> Len(ring), seq |-> first, life |-> pump.life + 1]
          /\ skipped' = skipped \cup (pump.pos + 1 .. Len(ring))
      BY <2>3 DEF PumpStarts
    <3>2. pump' \in [up : BOOLEAN, pos : 0..Len(ring), seq : Nat, life : 0..MaxPanics + 1] /\ pump'.up
      BY <1>2, <3>1
    <3>3. skipped' \subseteq 1..Len(ring)
      <4>1. pump.pos \in Nat /\ skipped \subseteq 1..Len(ring) /\ Len(ring) \in Nat
        BY <1>2
      <4>2. \A n, m \in Nat : n + 1 .. m \subseteq 1..m
        OBVIOUS
      <4>3. skipped' = skipped \cup (pump.pos + 1 .. Len(ring))
        BY <3>1
      <4> QED
        BY <4>1, <4>2, <4>3
    <3> QED
      BY <1>1, <1>2, <3>1, <3>2, <3>3 DEF PumpTypeOK
  <2>4. CASE PumpPanics
    BY <1>1, <1>2, <2>4 DEF PumpPanics, PumpTypeOK
  <2> QED
    BY <2>1, <2>2, <2>3, <2>4 DEF PumpSteps
<1> QED
  BY <1>1, <1>2, <1>3 DEF PumpShape

\* A message that is forwarded is behind all the earlier ones.
LEMMA ForwardEffect ==
    ASSUME PumpShape, Forward
    PROVE  /\ Len(feed') = Len(feed) + 1
           /\ \A i \in 1..Len(feed) : feed'[i] = feed[i]
           /\ feed'[Len(feed) + 1] = [life |-> pump.life, seq |-> pump.seq, at |-> pump.pos + 1]
           /\ pump'.pos = pump.pos + 1 /\ pump'.seq = pump.seq + 1 /\ pump'.life = pump.life
           /\ skipped' = skipped
<1>1. /\ feed' = Append(feed, [life |-> pump.life, seq |-> pump.seq, at |-> pump.pos + 1])
      /\ pump' = [pump EXCEPT !.pos = pump.pos + 1, !.seq = pump.seq + 1] /\ skipped' = skipped
  BY DEF Forward
<1>2. feed \in Seq([life : 0..MaxPanics + 1, seq : Nat, at : 1..Len(ring)])
  BY DEF PumpShape, PumpTypeOK
<1>3. PICK x : x = [life |-> pump.life, seq |-> pump.seq, at |-> pump.pos + 1]
  OBVIOUS
<1>4. /\ Len(feed') = Len(feed) + 1 /\ feed'[Len(feed) + 1] = x
      /\ \A i \in 1..Len(feed) : feed'[i] = feed[i]
  BY <1>1, <1>2, <1>3
<1>5. pump'.pos = pump.pos + 1 /\ pump'.seq = pump.seq + 1 /\ pump'.life = pump.life
  BY <1>1, PumpFacts
<1> QED
  BY <1>1, <1>3, <1>4, <1>5

LEMMA ForwardOrder ==
    ASSUME PumpShape, Rising, Covered, Forward
    PROVE  Rising' /\ Covered'
<1>1. PICK n \in Nat, p \in Nat : n = Len(feed) /\ p = pump.pos
  BY PumpFacts
<1>2. /\ Len(feed') = n + 1 /\ feed'[n + 1].at = p + 1
      /\ \A i \in 1..n : feed'[i] = feed[i]
      /\ pump'.pos = p + 1 /\ skipped' = skipped
  BY <1>1, ForwardEffect
<1>3. \A i \in 1..n : feed[i].at \in 1..p
  BY <1>1 DEF Covered
<1>4. Rising'
  <2> SUFFICES ASSUME NEW i \in 1..n + 1, NEW j \in 1..n + 1, i < j
               PROVE  feed'[i].at < feed'[j].at
    BY <1>2 DEF Rising
  <2>1. i \in 1..n /\ (j \in 1..n \/ j = n + 1)
    OBVIOUS
  <2>2. CASE j \in 1..n
    BY <1>1, <1>2, <2>1, <2>2 DEF Rising
  <2>3. CASE j = n + 1
    <3>1. feed'[i].at \in 1..p /\ feed'[j].at = p + 1
      BY <1>2, <1>3, <2>1, <2>3
    <3> QED
      BY <3>1
  <2> QED
    BY <2>1, <2>2, <2>3
<1>5. Covered'
  <2>1. {feed'[i].at : i \in 1..n + 1} = {feed[i].at : i \in 1..n} \cup {p + 1}
    BY <1>2
  <2>2. 1..p + 1 = (1..p) \cup {p + 1}
    OBVIOUS
  <2> QED
    BY <1>1, <1>2, <2>1, <2>2 DEF Covered
<1> QED
  BY <1>4, <1>5

\* A receiver that moves on without forwarding: what it passes is skipped.
LEMMA MoveOrder ==
    ASSUME PumpShape, Rising, Covered, NEW to \in Nat, pump.pos <= to, feed' = feed,
           pump'.pos = to, skipped' = skipped \cup (pump.pos + 1 .. to)
    PROVE  Rising' /\ Covered'
<1>1. 1..to = (1..pump.pos) \cup (pump.pos + 1 .. to)
  BY PumpFacts
<1> QED
  BY <1>1 DEF Rising, Covered

LEMMA PumpOrder ==
    ASSUME PumpShape, Rising, Covered, NEW first \in Nat, PumpSteps(first)
    PROVE  Rising' /\ Covered'
<1>1. PICK n \in Nat : n = Len(ring) /\ pump.pos <= n /\ pump.pos \in Nat /\ Lag \in Nat
  BY PumpAssumption, PumpFacts DEF PumpShape
<1>2. CASE Forward
  BY <1>2, ForwardOrder
<1>3. CASE SkipLagged
  <2>1. /\ feed' = feed /\ pump' = [pump EXCEPT !.pos = n - Lag]
        /\ skipped' = skipped \cup (pump.pos + 1 .. n - Lag)
        /\ n - pump.pos > Lag
    BY <1>1, <1>3 DEF SkipLagged, Behind
  <2>2. n - Lag \in Nat /\ pump.pos <= n - Lag
    BY <1>1, <2>1
  <2>3. pump'.pos = n - Lag
    BY <2>1, PumpFacts
  <2> QED
    BY <2>1, <2>2, <2>3, MoveOrder
<1>4. CASE PumpStarts(first)
  <2>1. feed' = feed /\ skipped' = skipped \cup (pump.pos + 1 .. n) /\ pump'.pos = n
    BY <1>1, <1>4 DEF PumpStarts
  <2> QED
    BY <1>1, <2>1, MoveOrder
<1>5. CASE PumpPanics
  BY <1>1, <1>5, PumpFacts DEF PumpPanics, Rising, Covered
<1> QED
  BY <1>2, <1>3, <1>4, <1>5 DEF PumpSteps

\* What the properties say of the feed.
LEMMA RisingTells ==
    ASSUME PumpShape, Rising, Covered
    PROVE  ForwardsInOrder
<1>1. \A i \in 1..Len(feed) - 1 : i \in 1..Len(feed) /\ i + 1 \in 1..Len(feed) /\ i < i + 1
  BY PumpFacts
<1> QED
  BY <1>1 DEF Rising, Covered, ForwardsInOrder

-----------------------------------------------------------------------------
(* Streams of signals.                                                     *)

LEMMA StreamGrows ==
    ASSUME NEW s \in Seq(Signals), NEW sig \in Signals
    PROVE  /\ Append(s, sig) \in Seq(Signals)
           /\ Holds(Append(s, sig), sig.job)
           /\ \A j : Holds(s, j) => Holds(Append(s, sig), j)
           /\ \A u : Silent(s, u) /\ sig.unit # u => Silent(Append(s, sig), u)
           /\ \A u, j : OwnFirst(s, u, j) /\ (sig.unit = u => sig.job = j \/ Holds(s, j))
                            => OwnFirst(Append(s, sig), u, j)
<1> DEFINE t == Append(s, sig)
<1>1. /\ t \in Seq(Signals) /\ Len(t) = Len(s) + 1 /\ Len(s) \in Nat
      /\ \A i \in 1..Len(s) : t[i] = s[i]
      /\ t[Len(s) + 1] = sig
  OBVIOUS
<1> HIDE DEF t
<1>2. Holds(t, sig.job) /\ \A j : Holds(s, j) => Holds(t, j)
  BY <1>1 DEF Holds
<1>3. \A u : Silent(s, u) /\ sig.unit # u => Silent(t, u)
  BY <1>1 DEF Silent
<1>4. ASSUME NEW u, NEW j, OwnFirst(s, u, j), sig.unit = u => sig.job = j \/ Holds(s, j)
      PROVE  OwnFirst(t, u, j)
  <2> SUFFICES ASSUME NEW i \in 1..Len(t), t[i].unit = u PROVE \E k \in 1..i : t[k].job = j
    BY DEF OwnFirst
  <2>1. CASE i \in 1..Len(s)
    <3>1. PICK k \in 1..i : s[k].job = j
      BY <1>1, <1>4, <2>1 DEF OwnFirst
    <3> QED
      BY <1>1, <2>1, <3>1
  <2>2. CASE i = Len(s) + 1
    BY <1>1, <1>4, <2>2 DEF Holds
  <2> QED
    BY <1>1, <2>1, <2>2
<1> QED
  BY <1>1, <1>2, <1>3, <1>4 DEF t

LEMMA StreamShrinks ==
    ASSUME NEW s \in Seq(Signals), s # << >>
    PROVE  /\ Tail(s) \in Seq(Signals) /\ Head(s) \in Signals
           /\ \A j : Holds(s, j) /\ Head(s).job # j => Holds(Tail(s), j)
           /\ \A u, j : OwnFirst(s, u, j) /\ Head(s).job # j => OwnFirst(Tail(s), u, j)
           /\ \A u, j : OwnFirst(s, u, j) /\ Head(s).unit = u => Head(s).job = j
<1> DEFINE t == Tail(s)
<1>1. /\ t \in Seq(Signals) /\ Len(s) \in Nat \ {0} /\ Len(t) = Len(s) - 1
      /\ \A i \in 1..Len(t) : t[i] = s[i + 1]
      /\ Head(s) = s[1] /\ Head(s) \in Signals
  OBVIOUS
<1> HIDE DEF t
<1>2. ASSUME NEW j, Holds(s, j), Head(s).job # j PROVE Holds(t, j)
  <2>1. PICK i \in 1..Len(s) : s[i].job = j
    BY <1>2 DEF Holds
  <2>2. i - 1 \in 1..Len(t) /\ t[i - 1] = s[i]
    BY <1>1, <1>2, <2>1
  <2> QED
    BY <2>1, <2>2 DEF Holds
<1>3. ASSUME NEW u, NEW j, OwnFirst(s, u, j), Head(s).job # j PROVE OwnFirst(t, u, j)
  <2> SUFFICES ASSUME NEW i \in 1..Len(t), t[i].unit = u PROVE \E k \in 1..i : t[k].job = j
    BY DEF OwnFirst
  <2>1. i + 1 \in 1..Len(s) /\ s[i + 1].unit = u
    BY <1>1
  <2>2. PICK k \in 1..i + 1 : s[k].job = j
    BY <1>3, <2>1 DEF OwnFirst
  <2>3. k - 1 \in 1..i /\ t[k - 1] = s[k]
    BY <1>1, <1>3, <2>2
  <2> QED
    BY <2>2, <2>3
<1>4. ASSUME NEW u, NEW j, OwnFirst(s, u, j), Head(s).unit = u PROVE Head(s).job = j
  BY <1>1, <1>4 DEF OwnFirst
<1> QED
  BY <1>1, <1>2, <1>3, <1>4 DEF t

LEMMA SilentStream ==
    /\ \A u : Silent(<< >>, u)
    /\ \A s, u, j : Silent(s, u) => OwnFirst(s, u, j)
  BY DEF Silent, OwnFirst

-----------------------------------------------------------------------------
(* The steps of one call.                                                  *)

\* A step that changes a call and its stream only.
LEMMA CallerFrame ==
    ASSUME ServicesInv, NEW c \in Callers, NEW r \in Calls, NEW s \in Seq(Signals), Ok(r, s),
           call' = [call EXCEPT ![c] = r], stream' = [stream EXCEPT ![c] = s],
           UNCHANGED <<systemd, bus, feedVars, removed, lister>>
    PROVE  ServicesInv'
<1> USE DEF ServicesInv, systemd, feedVars, pumpVars
<1>1. call' \in [Callers -> Calls] /\ stream' \in [Callers \cup {Watcher} -> Seq(Signals)]
  BY DEF TypeOK
<1>2. TypeOK' /\ Shape'
  BY <1>1 DEF TypeOK, Shape, PumpTypeOK
<1>3. ASSUME NEW d \in Callers PROVE CallInv(d)'
  <2>1. call'[d] = (IF d = c THEN r ELSE call[d]) /\ stream'[d] = (IF d = c THEN s ELSE stream[d])
    BY DEF TypeOK
  <2>2. Ok(call'[d], stream'[d])
    BY <2>1 DEF CallInv
  <2>3. job' = job /\ bus' = bus
    OBVIOUS
  <2> QED
    BY <2>2, <2>3 DEF CallInv, Ok
<1> QED
  BY <1>2, <1>3

\* A call that is answered leaves its stream.
LEMMA AnswerKeeps ==
    ASSUME ServicesInv, NEW c \in Callers, NEW out \in {"ok", "err", "timeout"},
           NEW st \in ShownState, Answer(c, out, st), stream' = [stream EXCEPT ![c] = << >>],
           UNCHANGED <<systemd, bus, feedVars, removed, lister>>
    PROVE  ServicesInv'
<1> DEFINE r == [call[c] EXCEPT !.pc = "answered", !.outcome = out, !.state = st]
<1>1. call[c] \in Calls /\ call' = [call EXCEPT ![c] = r]
  BY DEF ServicesInv, TypeOK, Answer
<1>2. r \in Calls /\ r.pc = "answered" /\ r.cause = call[c].cause /\ r.job = call[c].job
      /\ r.alone = call[c].alone
  BY <1>1 DEF Calls
<1> HIDE DEF r
<1>3. Ok(r, << >>)
  BY <1>2 DEF ServicesInv, CallInv, Ok, Subscribed
<1>4. << >> \in Seq(Signals)
  OBVIOUS
<1> QED
  BY <1>1, <1>2, <1>3, <1>4, CallerFrame

LEMMA NoStream ==
    ASSUME ServicesInv, NEW c \in Callers, call[c].pc \notin Subscribed
    PROVE  stream[c] = << >> /\ stream = [stream EXCEPT ![c] = << >>]
<1>1. stream[c] = << >>
  BY DEF ServicesInv, CallInv, Ok
<1> QED
  BY <1>1 DEF ServicesInv, TypeOK

LEMMA EndingsKeep ==
    ASSUME ServicesInv, NEW c \in Callers,
           Refused(c) \/ CallFails(c) \/ StreamEnds(c) \/ Query(c) \/ WaitTimeout(c) \/ Timeout(c)
    PROVE  ServicesInv'
<1>1. CASE Refused(c)
  BY <1>1, NoStream, AnswerKeeps DEF Refused, ShownState, Subscribed
<1>2. CASE CallFails(c) \/ WaitTimeout(c) \/ Timeout(c)
  BY <1>2, AnswerKeeps DEF CallFails, WaitTimeout, Timeout, ShownState
<1>3. CASE StreamEnds(c)
  <2>1. stream = [stream EXCEPT ![c] = << >>]
    BY <1>3 DEF StreamEnds, ServicesInv, TypeOK
  <2> QED
    BY <1>3, <2>1, AnswerKeeps DEF StreamEnds, ShownState
<1>4. CASE Query(c)
  <2>1. Seen(call[c].unit) \subseteq ShownState
    BY DEF Seen, ShownState, ServicesInv, TypeOK, Calls
  <2> QED
    BY <1>4, <2>1, NoStream, AnswerKeeps DEF Query, Subscribed
<1> QED
  BY <1>1, <1>2, <1>3, <1>4

LEMMA RequestKeeps ==
    ASSUME ServicesInv, NEW c \in Callers, NEW u \in Units, NEW v \in Verbs, Request(c, u, v)
    PROVE  ServicesInv'
<1> DEFINE r == [call[c] EXCEPT !.pc = "connect", !.unit = u, !.verb = v]
<1>1. /\ call[c] \in Calls /\ call' = [call EXCEPT ![c] = r] /\ stream[c] \in Seq(Signals)
      /\ stream' = [stream EXCEPT ![c] = stream[c]]
  BY DEF ServicesInv, TypeOK, Request
<1>2. r \in Calls /\ r.pc = "connect" /\ r.cause = call[c].cause
  BY <1>1 DEF Calls
<1>3. Ok(r, stream[c])
  BY <1>2 DEF ServicesInv, CallInv, Ok, Subscribed, Request
<1> QED
  BY <1>1, <1>2, <1>3, CallerFrame DEF Request

LEMMA SubscribeKeeps ==
    ASSUME ServicesInv, NEW c \in Callers, Subscribe(c)
    PROVE  ServicesInv'
<1> DEFINE r == [call[c] EXCEPT !.pc = "sent", !.alone = (job[call[c].unit].id = 0)]
<1>1. /\ call[c] \in Calls /\ call' = [call EXCEPT ![c] = r] /\ stream[c] \in Seq(Signals)
      /\ stream' = [stream EXCEPT ![c] = stream[c]]
  BY DEF ServicesInv, TypeOK, Subscribe
<1>2. r \in Calls /\ r.pc = "sent" /\ r.cause = call[c].cause /\ r.unit = call[c].unit
      /\ r.alone = (job[call[c].unit].id = 0)
  BY <1>1 DEF Calls
<1>3. stream[c] = << >> /\ call[c].cause = 0
  BY DEF ServicesInv, CallInv, Ok, Subscribed, Subscribe
<1> HIDE DEF r
<1>4. Ok(r, stream[c])
  BY <1>2, <1>3, SilentStream DEF Ok, Subscribed
<1> QED
  BY <1>1, <1>2, <1>4, CallerFrame DEF Subscribe

LEMMA ReplyKeeps ==
    ASSUME ServicesInv, NEW c \in Callers, Reply(c)
    PROVE  ServicesInv'
<1> DEFINE r == [call[c] EXCEPT !.pc = "wait"]
<1>1. /\ call[c] \in Calls /\ call' = [call EXCEPT ![c] = r] /\ stream[c] \in Seq(Signals)
      /\ stream' = [stream EXCEPT ![c] = stream[c]]
  BY DEF ServicesInv, TypeOK, Reply, Step
<1>2. r \in Calls /\ r.pc = "wait" /\ r.cause = call[c].cause /\ r.unit = call[c].unit
      /\ r.alone = call[c].alone /\ r.job = call[c].job
  BY <1>1 DEF Calls
<1> HIDE DEF r
<1>3. Ok(r, stream[c])
  BY <1>2 DEF ServicesInv, CallInv, Ok, Subscribed, Reply
<1> QED
  BY <1>1, <1>2, <1>3, CallerFrame DEF Reply

LEMMA ConsumeKeeps ==
    ASSUME ServicesInv, NEW c \in Callers, Consume(c)
    PROVE  ServicesInv'
<1> DEFINE s == stream[c]
           sig == Head(s)
<1>1. /\ call[c] \in Calls /\ s \in Seq(Signals) /\ s # << >> /\ call[c].pc = "wait"
      /\ Ok(call[c], s) /\ UNCHANGED <<systemd, bus, feedVars, removed, lister>>
  BY DEF ServicesInv, TypeOK, CallInv, Consume
<1> HIDE DEF s
<1>2. /\ sig \in Signals /\ Tail(s) \in Seq(Signals) /\ << >> \in Seq(Signals)
      /\ \A j : Holds(s, j) /\ sig.job # j => Holds(Tail(s), j)
      /\ \A u, j : OwnFirst(s, u, j) /\ sig.job # j => OwnFirst(Tail(s), u, j)
      /\ \A u, j : OwnFirst(s, u, j) /\ sig.unit = u => sig.job = j
  BY <1>1, StreamShrinks
<1>3. CASE ~ Matches(c, sig)
  <2>1. call' = [call EXCEPT ![c] = call[c]] /\ stream' = [stream EXCEPT ![c] = Tail(s)]
    BY <1>1, <1>3 DEF Consume, ServicesInv, TypeOK, s
  <2>2. sig.job # call[c].job
    BY <1>3 DEF Matches
  <2> HIDE DEF sig
  <2>3. Ok(call[c], Tail(s))
    BY <1>1, <1>2, <2>2 DEF Ok, Subscribed
  <2> QED
    BY <1>1, <1>2, <2>1, <2>3, CallerFrame
<1>4. CASE Matches(c, sig)
  <2>1. PICK pc \in {"query", "answered"}, out \in {"none", "ok", "err"}, st \in {"failed", "unknown"} :
          call' = [call EXCEPT ![c].pc = pc, ![c].cause = sig.job, ![c].outcome = out, ![c].state = st]
    BY <1>4 DEF Consume, s
  <2>2. stream' = [stream EXCEPT ![c] = << >>]
    BY <1>4 DEF Consume, s
  <2> DEFINE r == [call[c] EXCEPT !.pc = pc, !.cause = sig.job, !.outcome = out, !.state = st]
  <2>3. call' = [call EXCEPT ![c] = r]
    BY <1>1, <2>1 DEF ServicesInv, TypeOK
  <2>4. sig.job \in 0..MaxJobs
    BY <1>2, ServicesAssumption DEF Signals
  <2>5. r \in Calls /\ r.pc \in {"query", "answered"} /\ r.cause = sig.job
        /\ r.job = call[c].job /\ r.alone = call[c].alone
    BY <1>1, <2>1, <2>4 DEF Calls, ShownState, UnitState
  <2>6. sig.job = call[c].job \/ sig.unit = call[c].unit
    BY <1>4 DEF Matches
  <2> HIDE DEF r, sig
  <2>7. call[c].alone => sig.job = call[c].job
    BY <1>1, <1>2, <2>6 DEF Ok
  <2>8. Ok(r, << >>)
    BY <2>5, <2>7 DEF Ok, Subscribed
  <2> QED
    BY <1>1, <1>2, <2>2, <2>3, <2>5, <2>8, CallerFrame
<1> QED
  BY <1>3, <1>4

-----------------------------------------------------------------------------
(* Jobs that end or enter.                                                 *)

LEMMA RemovedEffect ==
    ASSUME ServicesInv, NEW sig \in Signals, Removed(sig)
    PROVE  /\ stream' \in [Callers \cup {Watcher} -> Seq(Signals)] /\ removed' \in Nat
           /\ \A c \in Callers : stream'[c] = IF bus /\ call[c].pc \in Subscribed
                                              THEN Append(stream[c], sig) ELSE stream[c]
<1>1. \A x \in Callers \cup {Watcher} : stream[x] \in Seq(Signals) /\ Append(stream[x], sig) \in Seq(Signals)
  <2> SUFFICES ASSUME NEW x \in Callers \cup {Watcher}
               PROVE  stream[x] \in Seq(Signals) /\ Append(stream[x], sig) \in Seq(Signals)
    OBVIOUS
  <2>1. stream[x] \in Seq(Signals)
    BY DEF ServicesInv, TypeOK
  <2> QED
    BY <2>1, StreamGrows
<1>2. DOMAIN stream = Callers \cup {Watcher}
  BY DEF ServicesInv, TypeOK
<1>3. stream' = [x \in Callers \cup {Watcher} |->
                   IF bus /\ x \in Listening THEN Append(stream[x], sig) ELSE stream[x]]
  BY <1>2 DEF Removed
<1>4. \A c \in Callers : c \in Listening <=> call[c].pc \in Subscribed
  BY WatcherAssumption DEF Listening, Subscribed
<1>5. removed' \in Nat
  BY DEF Removed, ServicesInv, TypeOK
<1> QED
  BY <1>1, <1>3, <1>4, <1>5

\* A job leaves its unit, and those who listen are told.
LEMMA SignalOk ==
    ASSUME ServicesInv, NEW r \in Calls, NEW s \in Seq(Signals), NEW sig \in Signals, Ok(r, s),
           job[sig.unit].id = sig.job, \A w \in Units \ {sig.unit} : job'[w] = job[w], bus' = bus,
           NEW t, t = IF bus /\ r.pc \in Subscribed THEN Append(s, sig) ELSE s
    PROVE  Ok(r, t)'
<1>0. sig.job # 0 /\ r.unit \in Units
  BY ServicesAssumption DEF Signals, Calls
<1>1. CASE ~ bus \/ r.pc \notin Subscribed
  BY <1>0, <1>1 DEF Ok, Subscribed
<1>2. CASE bus /\ r.pc \in Subscribed
  <2>1. /\ Holds(t, sig.job)
        /\ \A j : Holds(s, j) => Holds(t, j)
        /\ \A u : Silent(s, u) /\ sig.unit # u => Silent(t, u)
        /\ \A u, j : OwnFirst(s, u, j) /\ (sig.unit = u => sig.job = j \/ Holds(s, j)) => OwnFirst(t, u, j)
    BY <1>2, StreamGrows
  <2>2. r.pc \in {"reply", "wait"} => Holds(t, r.job) \/ job'[r.unit].id = r.job
    BY <1>0, <1>2, <2>1 DEF Ok
  <2>3. r.pc \in {"reply", "wait"} /\ r.alone => OwnFirst(t, r.unit, r.job)
    BY <1>0, <1>2, <2>1 DEF Ok
  <2>4. r.pc = "sent" /\ r.alone => job'[r.unit].id = 0 /\ Silent(t, r.unit)
    BY <1>0, <2>1 DEF Ok
  <2> QED
    BY <1>2, <2>2, <2>3, <2>4 DEF Ok, Subscribed
<1> QED
  BY <1>1, <1>2

LEMMA JobEndsKeeps ==
    ASSUME ServicesInv, NEW u \in Units, NEW result \in Ends, JobEnds(u, result)
    PROVE  ServicesInv'
<1>1. job[u].id \in 1..MaxJobs /\ job' = [job EXCEPT ![u] = NoJob] /\ job \in [Units -> [id : 0..MaxJobs, verb : Verbs]]
  BY ServicesAssumption DEF ServicesInv, TypeOK, JobEnds
<1>2. PICK sig \in Signals : sig = [job |-> job[u].id, unit |-> u, result |-> result]
  BY <1>1 DEF Signals
<1>3. Removed(sig) /\ UNCHANGED <<jobs, bus, call, feedVars, lister>>
  BY <1>2 DEF JobEnds
<1>4. /\ stream' \in [Callers \cup {Watcher} -> Seq(Signals)] /\ removed' \in Nat
      /\ \A c \in Callers : stream'[c] = IF bus /\ call[c].pc \in Subscribed
                                         THEN Append(stream[c], sig) ELSE stream[c]
  BY <1>2, <1>3, RemovedEffect
<1>5. NoJob \in [id : 0..MaxJobs, verb : Verbs]
  BY <1>1, ServicesAssumption DEF NoJob
<1>6. active' \in [Units -> UnitState]
  <2>1. After(u, result) \in UnitState
    BY DEF After, UnitState, ServicesInv, TypeOK
  <2> QED
    BY <2>1 DEF JobEnds, ServicesInv, TypeOK
<1>7. job' \in [Units -> [id : 0..MaxJobs, verb : Verbs]] /\ byJob' \in [Units -> BOOLEAN]
  BY <1>1, <1>5 DEF JobEnds, ServicesInv, TypeOK
<1>8. TypeOK' /\ Shape'
  BY <1>3, <1>4, <1>6, <1>7 DEF ServicesInv, TypeOK, Shape, PumpTypeOK, feedVars, pumpVars
<1>9. ASSUME NEW c \in Callers PROVE CallInv(c)'
  <2>1. /\ call[c] \in Calls /\ stream[c] \in Seq(Signals) /\ Ok(call[c], stream[c])
        /\ call'[c] = call[c] /\ bus' = bus
    BY <1>3 DEF ServicesInv, TypeOK, CallInv
  <2>2. \A w \in Units \ {sig.unit} : job'[w] = job[w]
    BY <1>1, <1>2
  <2>3. PICK r \in Calls, s \in Seq(Signals) : r = call[c] /\ s = stream[c]
    BY <2>1
  <2>4. PICK t : t = IF bus /\ r.pc \in Subscribed THEN Append(s, sig) ELSE s
    OBVIOUS
  <2>5. Ok(r, t)'
    BY <1>2, <2>1, <2>2, <2>3, <2>4, SignalOk
  <2>6. call'[c] = r /\ stream'[c] = t
    BY <1>4, <2>1, <2>3, <2>4
  <2> QED
    BY <2>5, <2>6 DEF CallInv, Ok
<1> QED
  BY <1>8, <1>9 DEF ServicesInv

\* What systemd does with a request: it merges it into the unit's job, takes
\* it as a new job, or cancels the unit's job for it.
LEMMA QueueEffect ==
    ASSUME ServicesInv, NEW u \in Units, NEW v \in Verbs, Queue(u, v)
    PROVE  /\ job' \in [Units -> [id : 0..MaxJobs, verb : Verbs]] /\ jobs' \in 0..MaxJobs
           /\ stream' \in [Callers \cup {Watcher} -> Seq(Signals)] /\ removed' \in Nat
           /\ job'[u].id \in 1..MaxJobs
           /\ \A w \in Units \ {u} : job'[w] = job[w]
           /\ \/ stream' = stream /\ (job[u].id = 0 \/ job'[u].id = job[u].id)
              \/ \E sig \in Signals :
                    /\ sig.unit = u /\ sig.job = job[u].id
                    /\ \A c \in Callers : stream'[c] = IF bus /\ call[c].pc \in Subscribed
                                                       THEN Append(stream[c], sig) ELSE stream[c]
<1>1. /\ job \in [Units -> [id : 0..MaxJobs, verb : Verbs]] /\ jobs \in 0..MaxJobs /\ removed \in Nat
      /\ stream \in [Callers \cup {Watcher} -> Seq(Signals)] /\ MaxJobs \in Nat
  BY ServicesAssumption DEF ServicesInv, TypeOK
<1>2. CASE job[u].id # 0 /\ ~ Opposite(v, job[u].verb)
  <2>1. /\ job' = [job EXCEPT ![u].verb = IF v = "start" THEN @ ELSE v]
        /\ UNCHANGED <<jobs, stream, removed>>
    BY <1>2 DEF Queue
  <2>2. job'[u].id = job[u].id /\ job' \in [Units -> [id : 0..MaxJobs, verb : Verbs]]
    BY <1>1, <2>1
  <2>3. \A w \in Units \ {u} : job'[w] = job[w]
    BY <1>1, <2>1
  <2> QED
    BY <1>1, <1>2, <2>1, <2>2, <2>3
<1>3. CASE ~ (job[u].id # 0 /\ ~ Opposite(v, job[u].verb))
  <2>1. /\ jobs < MaxJobs /\ jobs' = jobs + 1
        /\ job' = [job EXCEPT ![u] = [id |-> jobs + 1, verb |-> v]]
        /\ IF job[u].id = 0 THEN UNCHANGED <<stream, removed>>
           ELSE Removed([job |-> job[u].id, unit |-> u, result |-> "canceled"])
    BY <1>3 DEF Queue
  <2>2. /\ job'[u].id \in 1..MaxJobs /\ job' \in [Units -> [id : 0..MaxJobs, verb : Verbs]]
        /\ jobs' \in 0..MaxJobs /\ \A w \in Units \ {u} : job'[w] = job[w]
    BY <1>1, <2>1
  <2>3. CASE job[u].id = 0
    BY <1>1, <2>1, <2>2, <2>3
  <2>4. CASE job[u].id # 0
    <3>1. PICK sig \in Signals : sig = [job |-> job[u].id, unit |-> u, result |-> "canceled"]
      <4>1. job[u].id \in 1..MaxJobs
        BY <1>1, <2>4
      <4> QED
        BY <4>1 DEF Signals
    <3>2. Removed(sig)
      BY <2>1, <2>4, <3>1
    <3> QED
      BY <2>2, <3>1, <3>2, RemovedEffect
  <2> QED
    BY <2>3, <2>4
<1> QED
  BY <1>2, <1>3

\* What a request to systemd means for a call that did not make it: on the
\* same unit, not yet submitted, it is no longer alone.
LEMMA QueueOk ==
    ASSUME ServicesInv, NEW u \in Units, NEW v \in Verbs, Queue(u, v), bus' = bus,
           NEW c \in Callers,
           call'[c] = IF call[c].pc = "sent" /\ call[c].unit = u
                      THEN [call[c] EXCEPT !.alone = FALSE] ELSE call[c]
    PROVE  CallInv(c)' /\ call'[c] \in Calls
<1>1. PICK r \in Calls, s \in Seq(Signals) : r = call[c] /\ s = stream[c] /\ Ok(r, s)
  BY DEF ServicesInv, TypeOK, CallInv
<1>2. PICK q : q = call'[c]
  OBVIOUS
<1>3. /\ q \in Calls /\ q.pc = r.pc /\ q.unit = r.unit /\ q.job = r.job /\ q.cause = r.cause
      /\ q.alone => r.alone /\ ~ (r.pc = "sent" /\ r.unit = u)
  BY <1>1, <1>2 DEF Calls
<1>4. Ok(q, s)
  BY <1>1, <1>3 DEF Ok
<1>5. /\ job'[u].id \in 1..MaxJobs
      /\ \A w \in Units \ {u} : job'[w] = job[w]
  BY QueueEffect
<1>6. CASE stream' = stream /\ (job[u].id = 0 \/ job'[u].id = job[u].id)
  <2>1. r.unit \in Units
    BY DEF Calls
  <2>2. Ok(q, s)'
    BY <1>3, <1>4, <1>5, <1>6, <2>1 DEF Ok
  <2> QED
    BY <1>1, <1>2, <1>3, <1>6, <2>2 DEF CallInv, Ok
<1>7. ASSUME NEW sig \in Signals, sig.unit = u, sig.job = job[u].id,
             \A d \in Callers : stream'[d] = IF bus /\ call[d].pc \in Subscribed
                                             THEN Append(stream[d], sig) ELSE stream[d]
      PROVE  CallInv(c)' /\ call'[c] \in Calls
  <2>1. PICK t : t = IF bus /\ q.pc \in Subscribed THEN Append(s, sig) ELSE s
    OBVIOUS
  <2>2. Ok(q, t)'
    BY <1>3, <1>4, <1>5, <1>7, <2>1, SignalOk
  <2>3. stream'[c] = t
    BY <1>1, <1>3, <1>7, <2>1
  <2> QED
    BY <1>2, <1>3, <2>2, <2>3 DEF CallInv, Ok
<1> QED
  BY <1>6, <1>7, QueueEffect

LEMMA ForeignJobKeeps ==
    ASSUME ServicesInv, NEW u \in Units, NEW v \in Verbs, ForeignJob(u, v)
    PROVE  ServicesInv'
<1>1. /\ Queue(u, v) /\ UNCHANGED <<active, byJob, bus, feedVars, lister>>
      /\ call' = [c \in Callers |-> IF call[c].pc = "sent" /\ call[c].unit = u
                                    THEN [call[c] EXCEPT !.alone = FALSE] ELSE call[c]]
  BY DEF ForeignJob
<1>2. \A c \in Callers : CallInv(c)' /\ call'[c] \in Calls
  BY <1>1, QueueOk
<1>3. call' \in [Callers -> Calls]
  BY <1>1, <1>2
<1>4. TypeOK' /\ Shape'
  BY <1>1, <1>3, QueueEffect DEF ServicesInv, TypeOK, Shape, PumpTypeOK, feedVars, pumpVars
<1> QED
  BY <1>2, <1>4 DEF ServicesInv

LEMMA SubmitKeeps ==
    ASSUME ServicesInv, NEW c \in Callers, Submit(c)
    PROVE  ServicesInv'
<1> DEFINE u == call[c].unit
<1>1. /\ call[c] \in Calls /\ u \in Units /\ call[c].verb \in Verbs /\ call[c].pc = "sent" /\ bus
      /\ Queue(u, call[c].verb) /\ UNCHANGED <<active, byJob, bus, feedVars, lister>>
      /\ call' = [d \in Callers |->
                    CASE d = c -> [call[c] EXCEPT !.pc = "reply", !.job = job'[u].id]
                      [] d # c /\ call[d].pc = "sent" /\ call[d].unit = u ->
                           [call[d] EXCEPT !.alone = FALSE]
                      [] OTHER -> call[d]]
  BY DEF Submit, ServicesInv, TypeOK, Calls
<1>2. ASSUME NEW d \in Callers \ {c} PROVE CallInv(d)' /\ call'[d] \in Calls
  <2>1. call'[d] = IF call[d].pc = "sent" /\ call[d].unit = u
                   THEN [call[d] EXCEPT !.alone = FALSE] ELSE call[d]
    BY <1>1
  <2> QED
    BY <1>1, <2>1, QueueOk
<1>3. CallInv(c)' /\ call'[c] \in Calls
  <2>1. job'[u].id \in 1..MaxJobs
    BY <1>1, QueueEffect
  <2>2. call'[c] = [call[c] EXCEPT !.pc = "reply", !.job = job'[u].id]
    BY <1>1
  <2>3. /\ call'[c] \in Calls /\ call'[c].pc = "reply" /\ call'[c].job = job'[u].id
        /\ call'[c].unit = u /\ call'[c].cause = call[c].cause /\ call'[c].alone = call[c].alone
    <3>1. PICK r \in Calls, n \in 0..MaxJobs : r = call[c] /\ n = job'[u].id
      BY <1>1, <2>1
    <3>2. call'[c] = [r EXCEPT !.pc = "reply", !.job = n] /\ r.unit = u
      BY <2>2, <3>1
    <3> HIDE DEF u
    <3> QED
      BY <3>1, <3>2 DEF Calls
  <2>4. call[c].cause = 0 /\ (call[c].alone => job[u].id = 0 /\ Silent(stream[c], u))
    BY <1>1 DEF ServicesInv, CallInv, Ok
  <2>5. call[c].alone => stream' = stream
    <3>1. ASSUME NEW sig \in Signals, sig.job = job[u].id PROVE job[u].id # 0
      BY <3>1, ServicesAssumption DEF Signals
    <3> QED
      BY <1>1, <2>4, <3>1, QueueEffect
  <2>6. call[c].alone => OwnFirst(stream'[c], u, job'[u].id)
    BY <2>4, <2>5, SilentStream
  <2> HIDE DEF u
  <2>7. CallInv(c)'
    BY <2>1, <2>3, <2>4, <2>6 DEF CallInv, Ok, Subscribed
  <2> QED
    BY <2>3, <2>7
<1>4. call' \in [Callers -> Calls]
  <2>1. DOMAIN call' = Callers /\ call' = [d \in Callers |-> call'[d]]
    BY <1>1
  <2> QED
    BY <1>2, <1>3, <2>1
<1>5. TypeOK' /\ Shape'
  BY <1>1, <1>4, QueueEffect DEF ServicesInv, TypeOK, Shape, PumpTypeOK, feedVars, pumpVars
<1> QED
  BY <1>2, <1>3, <1>5 DEF ServicesInv

-----------------------------------------------------------------------------
(* Steps that concern no call.                                             *)

\* Nothing a call depends on changes, but that the connection may be lost.
LEMMA CallsUntouched ==
    ASSUME ServicesInv, TypeOK', Shape', UNCHANGED <<job, call>>, bus' => bus,
           \A c \in Callers : stream'[c] = stream[c]
    PROVE  ServicesInv'
<1>1. ASSUME NEW c \in Callers PROVE CallInv(c)'
  BY DEF ServicesInv, CallInv, Ok
<1> QED
  BY <1>1 DEF ServicesInv

LEMMA SystemdKeeps ==
    ASSUME ServicesInv, BusLost \/ \E u \in Units : UnitChanges(u)
    PROVE  ServicesInv'
<1>1. CASE BusLost
  <2>1. TypeOK' /\ Shape'
    BY <1>1 DEF BusLost, systemd, ServicesInv, TypeOK, Shape, PumpTypeOK, feedVars, pumpVars
  <2> QED
    BY <1>1, <2>1, CallsUntouched DEF BusLost, systemd
<1>2. ASSUME NEW u \in Units, UnitChanges(u) PROVE ServicesInv'
  <2>1. active' \in [Units -> UnitState] /\ byJob' \in [Units -> BOOLEAN]
    BY <1>2 DEF UnitChanges, ServicesInv, TypeOK, UnitState
  <2>2. TypeOK' /\ Shape'
    BY <1>2, <2>1 DEF UnitChanges, ServicesInv, TypeOK, Shape, PumpTypeOK, feedVars, pumpVars
  <2> QED
    BY <1>2, <2>2, CallsUntouched DEF UnitChanges
<1> QED
  BY <1>1, <1>2

LEMMA ListerKeeps ==
    ASSUME ServicesInv, Lister
    PROVE  ServicesInv'
<1>1. /\ UNCHANGED <<systemd, bus, call, stream, feedVars, removed>>
      /\ DOMAIN lister' = DOMAIN lister
      /\ lister'.pc \in {"idle", "list", "end"} /\ lister'.glob \in Globs
      /\ lister'.steady \in BOOLEAN
  <2>1. CASE \E glob \in Globs, state \in {AnyState, "active", "failed"} : ListRequest(glob, state)
    BY <2>1 DEF ListRequest, ServicesInv, TypeOK, Shape
  <2>2. CASE ListFails
    BY <2>2 DEF ListFails, ServicesInv, TypeOK, Shape
  <2>3. CASE ListPage
    <3>1. PICK all : LET first == lister.page = NoPage
                         cut   == Paginate(ListFilter(all, lister.state, lister.glob),
                                           CursorToIdx(lister.page), PAGE_SIZE)
                     IN  lister' = [lister EXCEPT
                             !.got = @ \o cut.page, !.page = cut.next,
                             !.pc = IF cut.next = NoPage THEN "end" ELSE "list",
                             !.all = IF first THEN all ELSE @,
                             !.steady = first \/ (@ /\ all = lister.all)]
      BY <2>3 DEF ListPage
    <3> QED
      BY <2>3, <3>1 DEF ListPage, ServicesInv, TypeOK, Shape
  <2> QED
    BY <2>1, <2>2, <2>3 DEF Lister
<1>2. TypeOK' /\ Shape'
  BY <1>1 DEF ServicesInv, TypeOK, Shape, systemd, feedVars, pumpVars, PumpTypeOK
<1> QED
  BY <1>1, <1>2, CallsUntouched DEF systemd

\* The feed: the watch task has a stream of its own.
LEMMA FeedFrame ==
    ASSUME ServicesInv, PumpTypeOK', Shape', UNCHANGED <<systemd, bus, call, removed, lister>>,
           watch' \in [pc : {"next", "fetch", "send", "ended"}, unit : Units, state : ShownState],
           ring' \in Seq([unit : Units, state : ShownState]),
           stream' \in [Callers \cup {Watcher} -> Seq(Signals)],
           \A c \in Callers : stream'[c] = stream[c]
    PROVE  ServicesInv'
<1>1. TypeOK'
  BY DEF ServicesInv, TypeOK, systemd
<1> QED
  BY <1>1, CallsUntouched DEF systemd

LEMMA WatchKeeps ==
    ASSUME ServicesInv, Watch
    PROVE  ServicesInv'
<1>1. /\ PumpTypeOK /\ Shape
      /\ watch \in [pc : {"next", "fetch", "send", "ended"}, unit : Units, state : ShownState]
      /\ ring \in Seq([unit : Units, state : ShownState])
      /\ stream \in [Callers \cup {Watcher} -> Seq(Signals)]
  BY DEF ServicesInv, TypeOK
<1>2. CASE TakeSignal
  <2>1. /\ watch.pc = "next" /\ stream[Watcher] # << >>
        /\ watch' = [watch EXCEPT !.pc = "fetch", !.unit = Head(stream[Watcher]).unit]
        /\ stream' = [stream EXCEPT ![Watcher] = Tail(stream[Watcher])]
        /\ UNCHANGED <<systemd, bus, call, ring, pump, feed, skipped, removed, lister>>
    BY <1>2 DEF TakeSignal, pumpVars
  <2>2. stream[Watcher] \in Seq(Signals)
    BY <1>1
  <2>3. Head(stream[Watcher]) \in Signals /\ Tail(stream[Watcher]) \in Seq(Signals)
    BY <2>1, <2>2, StreamShrinks
  <2>4. /\ stream' \in [Callers \cup {Watcher} -> Seq(Signals)]
        /\ \A c \in Callers : stream'[c] = stream[c]
    BY <1>1, <2>1, <2>3, WatcherAssumption
  <2>5. watch' \in [pc : {"next", "fetch", "send", "ended"}, unit : Units, state : ShownState]
    BY <1>1, <2>1, <2>3 DEF Signals
  <2>6. PumpTypeOK' /\ Shape'
    BY <1>1, <2>1 DEF PumpTypeOK, Shape
  <2> QED
    BY <1>1, <2>1, <2>4, <2>5, <2>6, FeedFrame
<1>3. CASE FetchState
  <2>1. Seen(watch.unit) \subseteq ShownState
    BY <1>1 DEF Seen, ShownState, ServicesInv, TypeOK
  <2>2. watch' \in [pc : {"next", "fetch", "send", "ended"}, unit : Units, state : ShownState]
    BY <1>1, <1>3, <2>1 DEF FetchState
  <2>3. PumpTypeOK' /\ Shape'
    BY <1>1, <1>3 DEF FetchState, pumpVars, PumpTypeOK, Shape
  <2> QED
    BY <1>1, <1>3, <2>2, <2>3, FeedFrame DEF FetchState, pumpVars
<1>4. CASE SendStatus
  <2>1. PICK x \in [unit : Units, state : ShownState] :
          /\ ring' = Append(ring, x)
          /\ watch' = [watch EXCEPT !.pc = "next", !.unit = Idle.unit, !.state = "unknown"]
          /\ UNCHANGED <<systemd, bus, call, stream, pump, feed, skipped, removed, lister>>
    BY <1>1, <1>4 DEF SendStatus, Broadcast, pumpVars
  <2>2. ring' \in Seq([unit : Units, state : ShownState]) /\ Len(ring') = Len(ring) + 1 /\ Len(ring) \in Nat
    BY <1>1, <2>1
  <2>3. watch' \in [pc : {"next", "fetch", "send", "ended"}, unit : Units, state : ShownState]
    <3>1. Idle.unit \in Units
      BY ServicesAssumption DEF Idle
    <3> QED
      BY <1>1, <2>1, <3>1 DEF ShownState
  <2>4. PumpTypeOK'
    <3>1. pump \in [up : BOOLEAN, pos : 0..Len(ring), seq : Nat, life : 0..MaxPanics + 1] /\ pump' = pump
      BY <1>1, <2>1 DEF PumpTypeOK
    <3>2. pump' \in [up : BOOLEAN, pos : 0..Len(ring'), seq : Nat, life : 0..MaxPanics + 1]
      BY <2>2, <3>1
    <3>3. feed' \in Seq([life : 0..MaxPanics + 1, seq : Nat, at : 1..Len(ring')])
      <4>1. feed \in Seq([life : 0..MaxPanics + 1, seq : Nat, at : 1..Len(ring)]) /\ feed' = feed
        BY <1>1, <2>1 DEF PumpTypeOK
      <4>2. \A f \in [life : 0..MaxPanics + 1, seq : Nat, at : 1..Len(ring)] :
              f \in [life : 0..MaxPanics + 1, seq : Nat, at : 1..Len(ring')]
        BY <2>2
      <4> QED
        BY <4>1, <4>2, LargerSet
    <3> QED
      BY <1>1, <2>1, <2>2, <3>2, <3>3 DEF PumpTypeOK
  <2>5. Shape'
    BY <1>1, <2>1 DEF Shape
  <2> QED
    BY <1>1, <2>1, <2>2, <2>3, <2>4, <2>5, FeedFrame
<1>5. CASE WatchEnds
  <2>1. watch' \in [pc : {"next", "fetch", "send", "ended"}, unit : Units, state : ShownState]
    BY <1>1, <1>5 DEF WatchEnds
  <2>2. PumpTypeOK' /\ Shape'
    BY <1>1, <1>5 DEF WatchEnds, pumpVars, PumpTypeOK, Shape
  <2> QED
    BY <1>1, <1>5, <2>1, <2>2, FeedFrame DEF WatchEnds, pumpVars
<1> QED
  BY <1>2, <1>3, <1>4, <1>5 DEF Watch

LEMMA PumpOf ==
    ASSUME ServicesInv
    PROVE  PumpShape
<1>1. ring \in Seq([unit : Units, state : ShownState])
  BY DEF ServicesInv, TypeOK
<1> QED
  BY <1>1 DEF ServicesInv, TypeOK, Shape, PumpShape

LEMMA PumpKeeps ==
    ASSUME ServicesInv, StatusPump \/ StatusPumpPanics
    PROVE  ServicesInv'
<1>1. UNCHANGED <<systemd, bus, call, stream, watch, removed, lister, ring>>
  BY DEF StatusPump, StatusPumpPanics, Forward, SkipLagged, PumpStarts, PumpPanics
<1>2. PumpSteps(0)
  BY DEF StatusPump, StatusPumpPanics, PumpSteps
<1>3. PumpShape'
  BY <1>2, PumpOf, PumpKeepsShape
<1>4. PumpTypeOK' /\ Shape'
  BY <1>1, <1>3 DEF ServicesInv, Shape, PumpShape
<1> QED
  BY <1>1, <1>4, FeedFrame DEF ServicesInv, TypeOK

-----------------------------------------------------------------------------
(* The feed.                                                               *)

\* Numbers are consecutive within a life of the pump.
Numbered ==
    /\ \A i \in 1..Len(feed) : feed[i].life <= pump.life
    /\ pump.seq = IF feed # << >> /\ feed[Len(feed)].life = pump.life
                  THEN feed[Len(feed)].seq + 1 ELSE 0
    /\ \A i \in 1..Len(feed) - 1 :
        feed[i+1].seq = IF feed[i].life = feed[i+1].life THEN feed[i].seq + 1 ELSE 0

OrderInv == Rising /\ Covered /\ Numbered

\* A unit that has no job since the last one ended: unless the signal of that
\* end still waits, the watch task is about to read its state, has read it, or
\* has sent it and nothing about the unit since.
Current(s, u) == s \in {active[u], "unknown"}

LatestIsTrue(u) ==
    \E n \in 1..Len(ring) :
        /\ ring[n].unit = u /\ Current(ring[n].state, u)
        /\ \A m \in n+1..Len(ring) : ring[m].unit # u

TruthInv(u) ==
    bus /\ byJob[u] /\ job[u].id = 0 /\ watch.pc # "ended" /\ Silent(stream[Watcher], u) =>
        \/ watch.pc = "fetch" /\ watch.unit = u
        \/ watch.pc = "send" /\ watch.unit = u /\ Current(watch.state, u)
        \/ ~ (watch.pc = "send" /\ watch.unit = u) /\ LatestIsTrue(u)

FeedInv == OrderInv /\ \A u \in Units : TruthInv(u)

LEMMA FeedType ==
    ASSUME ServicesInv
    PROVE  /\ Len(ring) \in Nat /\ Len(feed) \in Nat
           /\ \A i \in 1..Len(feed) : /\ feed[i].at \in 1..Len(ring)
                                      /\ feed[i].life \in Nat /\ feed[i].seq \in Nat
           /\ pump.pos \in Nat /\ pump.seq \in Nat /\ pump.life \in Nat /\ pump.pos <= Len(ring)
  BY PumpOf, PumpFacts DEF PumpShape

\* A forwarded message takes the pump's number.
LEMMA ForwardNumbers ==
    ASSUME ServicesInv, Numbered, Forward
    PROVE  Numbered'
<1>1. PICK n \in Nat : n = Len(feed)
  BY FeedType
<1>2. /\ Len(feed') = n + 1 /\ \A i \in 1..n : feed'[i] = feed[i]
      /\ feed'[n + 1].life = pump.life /\ feed'[n + 1].seq = pump.seq
      /\ pump'.seq = pump.seq + 1 /\ pump'.life = pump.life
  BY <1>1, PumpOf, ForwardEffect
<1>3. feed' # << >>
  BY <1>2
<1>4. n > 0 => feed # << >>
  BY <1>1
<1>5. \A i \in 1..n + 1 : feed'[i].life <= pump'.life
  <2>1. \A i \in 1..n : feed[i].life <= pump.life
    BY <1>1 DEF Numbered
  <2>2. \A i \in 1..n + 1 : i \in 1..n \/ i = n + 1
    OBVIOUS
  <2> QED
    BY <1>2, <2>1, <2>2, FeedType
<1>6. ASSUME NEW i \in 1..(n + 1) - 1
      PROVE  feed'[i+1].seq = IF feed'[i].life = feed'[i+1].life THEN feed'[i].seq + 1 ELSE 0
  <2>1. CASE i < n
    <3>1. i \in 1..n - 1 /\ i \in 1..n /\ i + 1 \in 1..n
      BY <2>1
    <3> QED
      BY <1>1, <1>2, <3>1 DEF Numbered
  <2>2. CASE i = n
    BY <1>1, <1>2, <1>4, <2>2 DEF Numbered
  <2> QED
    BY <2>1, <2>2
<1> QED
  BY <1>2, <1>3, <1>5, <1>6 DEF Numbered

\* A new life begins with 0; without one nothing is numbered.
LEMMA OtherNumbers ==
    ASSUME ServicesInv, Numbered, feed' = feed,
           \/ pump'.life = pump.life /\ pump'.seq = pump.seq
           \/ pump'.life = pump.life + 1 /\ pump'.seq = 0
    PROVE  Numbered'
<1>1. CASE pump'.life = pump.life /\ pump'.seq = pump.seq
  BY <1>1 DEF Numbered
<1>2. CASE pump'.life = pump.life + 1 /\ pump'.seq = 0
  <2>1. \A i \in 1..Len(feed) : feed[i].life <= pump.life /\ feed[i].life \in Nat
    BY FeedType DEF Numbered
  <2>2. pump.life \in Nat /\ Len(feed) \in Nat
    BY FeedType
  <2>3. \A i \in 1..Len(feed) : feed[i].life # pump.life + 1 /\ feed[i].life <= pump.life + 1
    BY <2>1, <2>2
  <2>4. feed # << >> => Len(feed) \in 1..Len(feed)
    <3>1. feed \in Seq([life : 0..MaxPanics + 1, seq : Nat, at : 1..Len(ring)])
      BY DEF ServicesInv, TypeOK, PumpTypeOK
    <3> QED
      BY <3>1
  <2> QED
    BY <1>2, <2>3, <2>4 DEF Numbered
<1> QED
  BY <1>1, <1>2

LEMMA StatusPumpOrder ==
    ASSUME ServicesInv, OrderInv, StatusPump \/ StatusPumpPanics
    PROVE  OrderInv'
<1>1. PumpSteps(0)
  BY DEF StatusPump, StatusPumpPanics, PumpSteps
<1>2. Rising' /\ Covered'
  BY <1>1, PumpOf, PumpOrder DEF OrderInv
<1>3. CASE Forward
  BY <1>2, <1>3, ForwardNumbers DEF OrderInv
<1>4. CASE SkipLagged \/ PumpStarts(0) \/ PumpPanics
  <2>1. /\ feed' = feed
        /\ \/ pump'.life = pump.life /\ pump'.seq = pump.seq
           \/ pump'.life = pump.life + 1 /\ pump'.seq = 0
    BY <1>4, PumpOf, PumpFacts DEF SkipLagged, PumpStarts, PumpPanics
  <2> QED
    BY <1>2, <2>1, OtherNumbers DEF OrderInv
<1> QED
  BY <1>1, <1>3, <1>4 DEF PumpSteps

\* No step of another task touches what the pump has done.
LEMMA OrderStands ==
    ASSUME OrderInv, UNCHANGED pumpVars
    PROVE  OrderInv'
  BY DEF OrderInv, Rising, Covered, Numbered, pumpVars

-----------------------------------------------------------------------------
(* What the watch task knows.                                              *)

LEMMA ToldOf ==
    ASSUME NEW s \in Seq(Signals), NEW sig \in Signals
    PROVE  /\ ~ Silent(Append(s, sig), sig.unit)
           /\ \A u : Silent(Append(s, sig), u) => Silent(s, u)
<1> DEFINE t == Append(s, sig)
<1>1. /\ Len(t) = Len(s) + 1 /\ Len(s) \in Nat /\ t[Len(s) + 1] = sig
      /\ \A i \in 1..Len(s) : t[i] = s[i]
  OBVIOUS
<1> HIDE DEF t
<1>2. Len(s) + 1 \in 1..Len(t) /\ \A i \in 1..Len(s) : i \in 1..Len(t)
  BY <1>1
<1>3. ~ Silent(t, sig.unit) /\ \A u : Silent(t, u) => Silent(s, u)
  BY <1>1, <1>2 DEF Silent
<1> QED
  BY <1>3 DEF t

LEMMA StreamSpeaks ==
    ASSUME NEW s \in Seq(Signals), s # << >>, NEW u, Silent(Tail(s), u), Head(s).unit # u
    PROVE  Silent(s, u)
<1>1. /\ Len(s) \in Nat \ {0} /\ Len(Tail(s)) = Len(s) - 1 /\ Head(s) = s[1]
      /\ \A i \in 1..Len(Tail(s)) : Tail(s)[i] = s[i + 1]
  OBVIOUS
<1>2. ASSUME NEW i \in 1..Len(s), i # 1 PROVE s[i].unit # u
  <2>1. i - 1 \in 1..Len(Tail(s)) /\ (i - 1) + 1 = i
    BY <1>1, <1>2
  <2> QED
    BY <1>1, <2>1 DEF Silent
<1> QED
  BY <1>1, <1>2 DEF Silent

LEMMA WatcherTold ==
    ASSUME ServicesInv, NEW sig \in Signals, Removed(sig)
    PROVE  /\ bus /\ watch.pc # "ended" => ~ Silent(stream'[Watcher], sig.unit)
           /\ \A u : Silent(stream'[Watcher], u) => Silent(stream[Watcher], u)
<1>1. stream'[Watcher] = IF bus /\ Watcher \in Listening
                         THEN Append(stream[Watcher], sig) ELSE stream[Watcher]
  BY DEF Removed, ServicesInv, TypeOK
<1>2. watch.pc # "ended" => Watcher \in Listening
  BY DEF Listening
<1>3. stream[Watcher] \in Seq(Signals)
  BY DEF ServicesInv, TypeOK
<1> QED
  BY <1>1, <1>2, <1>3, ToldOf

\* A step of another task, at which nothing about u is lost.
LEMMA TruthStands ==
    ASSUME NEW u, TruthInv(u), bus' => bus, active'[u] = active[u], byJob'[u] = byJob[u],
           job'[u].id = 0 => job[u].id = 0, UNCHANGED <<watch, ring>>,
           Silent(stream'[Watcher], u) => Silent(stream[Watcher], u)
    PROVE  TruthInv(u)'
  BY DEF TruthInv, LatestIsTrue, Current

\* A request to systemd: a new job that takes the place of another is told.
LEMMA QueueTruth ==
    ASSUME ServicesInv, NEW u \in Units, NEW v \in Verbs, Queue(u, v),
           UNCHANGED <<active, byJob, bus, watch, ring>>, \A w \in Units : TruthInv(w)
    PROVE  \A w \in Units : TruthInv(w)'
<1>1. \A w : Silent(stream'[Watcher], w) => Silent(stream[Watcher], w)
  <2>1. CASE stream' = stream
    BY <2>1
  <2>2. CASE stream' # stream
    <3>1. job[u].id # 0 /\ Removed([job |-> job[u].id, unit |-> u, result |-> "canceled"])
      BY <2>2 DEF Queue
    <3>2. job[u].id \in 1..MaxJobs
      BY <3>1, ServicesAssumption DEF ServicesInv, TypeOK
    <3>3. [job |-> job[u].id, unit |-> u, result |-> "canceled"] \in Signals
      BY <3>2 DEF Signals
    <3> QED
      BY <3>1, <3>3, WatcherTold
  <2> QED
    BY <2>1, <2>2
<1>2. job'[u].id # 0 /\ \A w \in Units \ {u} : job'[w] = job[w]
  <2>1. job'[u].id \in 1..MaxJobs /\ \A w \in Units \ {u} : job'[w] = job[w]
    BY QueueEffect
  <2> QED
    BY <2>1, ServicesAssumption
<1>3. TruthInv(u)'
  BY <1>2 DEF TruthInv
<1>4. ASSUME NEW w \in Units \ {u} PROVE TruthInv(w)'
  BY <1>1, <1>2, TruthStands
<1> QED
  BY <1>3, <1>4

LEMMA CallerTruth ==
    ASSUME ServicesInv, FeedInv, NEW c \in Callers, Caller(c)
    PROVE  FeedInv'
<1>1. UNCHANGED <<active, byJob, bus, watch, ring, pumpVars>>
  BY DEF Caller, Request, Refused, Subscribe, Submit, Reply, CallFails, Consume, StreamEnds, Query,
         WaitTimeout, Timeout, systemd, feedVars
<1>2. CASE ~ Submit(c)
  <2>1. job' = job
    BY <1>2 DEF Caller, Request, Refused, Subscribe, Reply, CallFails, Consume, StreamEnds, Query,
                WaitTimeout, Timeout, systemd
  <2>2. \/ stream' = stream \/ stream' = [stream EXCEPT ![c] = << >>]
        \/ stream' = [stream EXCEPT ![c] = Tail(stream[c])]
    BY <1>2 DEF Caller, Request, Refused, Subscribe, Reply, CallFails, Consume, StreamEnds, Query,
                WaitTimeout, Timeout
  <2>3. stream'[Watcher] = stream[Watcher]
    BY <2>2, WatcherAssumption DEF ServicesInv, TypeOK
  <2> QED
    BY <1>1, <2>1, <2>3, TruthStands, OrderStands DEF FeedInv
<1>3. CASE Submit(c)
  <2>1. PICK u \in Units, v \in Verbs : Queue(u, v)
    BY <1>3 DEF Submit, ServicesInv, TypeOK, Calls
  <2> QED
    BY <1>1, <2>1, QueueTruth, OrderStands DEF FeedInv
<1> QED
  BY <1>2, <1>3

\* The end of a unit's job: the watch task is told of it.
LEMMA JobEndsTruth ==
    ASSUME ServicesInv, FeedInv, NEW u \in Units, NEW result \in Ends, JobEnds(u, result)
    PROVE  FeedInv'
<1>1. job[u].id \in 1..MaxJobs
  BY ServicesAssumption DEF ServicesInv, TypeOK, JobEnds
<1>2. PICK sig \in Signals : sig = [job |-> job[u].id, unit |-> u, result |-> result]
  BY <1>1 DEF Signals
<1>3. Removed(sig) /\ UNCHANGED <<bus, watch, ring, pumpVars>>
  BY <1>2 DEF JobEnds, feedVars
<1>4. ASSUME NEW w \in Units \ {u} PROVE TruthInv(w)'
  <2>1. active'[w] = active[w] /\ byJob'[w] = byJob[w] /\ job'[w] = job[w]
    BY DEF JobEnds, ServicesInv, TypeOK
  <2> QED
    BY <1>3, <2>1, WatcherTold, TruthStands DEF FeedInv
<1>5. TruthInv(u)'
  BY <1>2, <1>3, WatcherTold DEF TruthInv
<1> QED
  BY <1>3, <1>4, <1>5, OrderStands DEF FeedInv

LEMMA SystemdTruth ==
    ASSUME ServicesInv, FeedInv,
           \/ BusLost
           \/ \E u \in Units : UnitChanges(u) \/ \E v \in Verbs : ForeignJob(u, v)
    PROVE  FeedInv'
<1>1. CASE BusLost
  BY <1>1, TruthStands, OrderStands DEF BusLost, FeedInv, systemd, feedVars
<1>2. ASSUME NEW u \in Units, UnitChanges(u) PROVE FeedInv'
  <2>1. UNCHANGED <<job, bus, stream, watch, ring, pumpVars>> /\ ~ byJob'[u]
    BY <1>2 DEF UnitChanges, feedVars, ServicesInv, TypeOK
  <2>2. ASSUME NEW w \in Units \ {u} PROVE active'[w] = active[w] /\ byJob'[w] = byJob[w]
    BY <1>2 DEF UnitChanges, ServicesInv, TypeOK
  <2>3. TruthInv(u)'
    BY <2>1 DEF TruthInv
  <2> QED
    BY <2>1, <2>2, <2>3, TruthStands, OrderStands DEF FeedInv
<1>3. ASSUME NEW u \in Units, NEW v \in Verbs, ForeignJob(u, v) PROVE FeedInv'
  <2>1. Queue(u, v) /\ UNCHANGED <<active, byJob, bus, watch, ring, pumpVars>>
    BY <1>3 DEF ForeignJob, feedVars
  <2> QED
    BY <2>1, QueueTruth, OrderStands DEF FeedInv
<1> QED
  BY <1>1, <1>2, <1>3

\* Takes a signal, reads the state of its unit, sends it.
LEMMA WatchTruth ==
    ASSUME ServicesInv, FeedInv, Watch
    PROVE  FeedInv'
<1>1. UNCHANGED <<active, byJob, job, bus, pumpVars>>
  BY DEF Watch, TakeSignal, FetchState, SendStatus, WatchEnds, systemd
<1>2. /\ watch \in [pc : {"next", "fetch", "send", "ended"}, unit : Units, state : ShownState]
      /\ ring \in Seq([unit : Units, state : ShownState]) /\ stream[Watcher] \in Seq(Signals)
      /\ DOMAIN stream = Callers \cup {Watcher}
  BY DEF ServicesInv, TypeOK
<1>3. ASSUME NEW u \in Units PROVE TruthInv(u)'
  <2>1. CASE TakeSignal
    <3>1. /\ watch.pc = "next" /\ stream[Watcher] # << >> /\ ring' = ring
          /\ watch'.pc = "fetch" /\ watch'.unit = Head(stream[Watcher]).unit
          /\ stream'[Watcher] = Tail(stream[Watcher])
      BY <1>2, <2>1 DEF TakeSignal
    <3>2. Silent(Tail(stream[Watcher]), u) /\ Head(stream[Watcher]).unit # u
            => Silent(stream[Watcher], u)
      BY <1>2, <3>1, StreamSpeaks
    <3> QED
      BY <1>1, <1>3, <3>1, <3>2 DEF FeedInv, TruthInv, LatestIsTrue, Current
  <2>2. CASE FetchState
    <3>1. PICK s \in Seen(watch.unit) : watch' = [watch EXCEPT !.pc = "send", !.state = s]
      BY <2>2 DEF FetchState
    <3>2. /\ watch.pc = "fetch" /\ watch'.pc = "send" /\ watch'.unit = watch.unit /\ watch'.state = s
          /\ ring' = ring /\ stream' = stream
      BY <1>2, <2>2, <3>1 DEF FetchState
    <3>3. bus /\ job[u].id = 0 /\ watch.unit = u => Current(s, u)
      BY <3>1 DEF Seen, Current
    <3> QED
      BY <1>1, <3>2, <3>3 DEF FeedInv, TruthInv, LatestIsTrue, Current
  <2>3. CASE SendStatus
    <3>1. /\ watch.pc = "send" /\ watch'.pc = "next" /\ stream' = stream
          /\ ring' = Append(ring, [unit |-> watch.unit, state |-> watch.state])
      BY <1>2, <2>3 DEF SendStatus, Broadcast
    <3>2. /\ Len(ring') = Len(ring) + 1 /\ Len(ring) \in Nat
          /\ \A n \in 1..Len(ring) : ring'[n] = ring[n]
          /\ ring'[Len(ring) + 1].unit = watch.unit /\ ring'[Len(ring) + 1].state = watch.state
      BY <1>2, <3>1
    <3>3. CASE watch.unit = u /\ Current(watch.state, u)
      <4>1. Len(ring) + 1 \in 1..Len(ring') /\ \A m \in Len(ring) + 2..Len(ring') : FALSE
        BY <3>2
      <4>2. LatestIsTrue(u)'
        BY <1>1, <3>2, <3>3, <4>1 DEF LatestIsTrue, Current
      <4> QED
        BY <3>1, <4>2 DEF TruthInv
    <3>4. CASE watch.unit # u /\ LatestIsTrue(u)
      <4>1. PICK n \in 1..Len(ring) : /\ ring[n].unit = u /\ Current(ring[n].state, u)
                                      /\ \A m \in n+1..Len(ring) : ring[m].unit # u
        BY <3>4 DEF LatestIsTrue
      <4>2. \A m \in n+1..Len(ring') : ring'[m].unit # u
        BY <3>2, <3>4, <4>1
      <4>3. LatestIsTrue(u)'
        BY <1>1, <3>2, <4>1, <4>2 DEF LatestIsTrue, Current
      <4> QED
        BY <3>1, <4>3 DEF TruthInv
    <3> QED
      BY <1>1, <3>1, <3>3, <3>4 DEF FeedInv, TruthInv
  <2>4. CASE WatchEnds
    BY <1>1, <2>4 DEF WatchEnds, TruthInv
  <2> QED
    BY <2>1, <2>2, <2>3, <2>4 DEF Watch
<1> QED
  BY <1>1, <1>3, OrderStands DEF FeedInv

LEMMA FeedStep == ServicesInv /\ FeedInv /\ [Next]_vars => FeedInv'
<1> SUFFICES ASSUME ServicesInv, FeedInv, [Next]_vars PROVE FeedInv'
  OBVIOUS
<1>1. CASE StatusPump \/ StatusPumpPanics
  <2>1. UNCHANGED <<active, byJob, job, bus, stream, watch, ring>>
    BY <1>1 DEF StatusPump, StatusPumpPanics, systemd, Forward, SkipLagged, PumpStarts, PumpPanics
  <2> QED
    BY <1>1, <2>1, StatusPumpOrder, TruthStands DEF FeedInv
<1>2. CASE Lister \/ Finished \/ UNCHANGED vars
  <2>1. UNCHANGED <<active, byJob, job, bus, stream, watch, ring, pumpVars>>
    BY <1>2 DEF Lister, ListRequest, ListPage, ListFails, Finished, vars, systemd, feedVars
  <2> QED
    BY <2>1, OrderStands, TruthStands DEF FeedInv
<1> QED
  BY <1>1, <1>2, CallerTruth, JobEndsTruth, SystemdTruth, WatchTruth DEF Next

LEMMA FeedInit == Init => FeedInv
<1> SUFFICES ASSUME Init PROVE FeedInv
  OBVIOUS
<1>1. /\ feed = << >> /\ skipped = {} /\ pump.pos = 0 /\ pump.seq = 0 /\ pump.life = 0
      /\ \A u \in Units : byJob[u] = FALSE
  BY DEF Init, InitTasks, PumpInit
<1>2. Len(<< >>) = 0
  OBVIOUS
<1>3. OrderInv
  BY <1>1, <1>2 DEF OrderInv, Rising, Covered, Numbered
<1> QED
  BY <1>1, <1>3 DEF FeedInv, TruthInv

\* At rest the newest message about a unit is true of it, and it was skipped
\* or is the last that subscribers saw of the unit.
LEMMA AtRest == ServicesInv /\ FeedInv => FeedSettles
<1> SUFFICES ASSUME ServicesInv, FeedInv, NEW u \in Units,
                    bus, byJob[u], job[u].id = 0, stream[Watcher] = << >>, watch.pc = "next",
                    pump.pos = Len(ring)
             PROVE  LET about == {n \in 1..Len(ring) : ring[n].unit = u}
                        last  == CHOOSE n \in about : \A m \in about : m <= n
                    IN  /\ about # {}
                        /\ last \notin skipped => \E i \in 1..Len(feed) :
                             /\ feed[i].at = last
                             /\ \A j \in i+1..Len(feed) : ring[feed[j].at].unit # u
                             /\ ring[last].state \in {active[u], "unknown"}
  BY DEF FeedSettles
<1> DEFINE about == {n \in 1..Len(ring) : ring[n].unit = u}
           last  == CHOOSE n \in about : \A m \in about : m <= n
<1>1. PICK n \in 1..Len(ring) : /\ ring[n].unit = u /\ Current(ring[n].state, u)
                                /\ \A m \in n+1..Len(ring) : ring[m].unit # u
  BY SilentStream DEF FeedInv, TruthInv, LatestIsTrue
<1>2. n \in about /\ \A m \in about : m <= n
  BY <1>1, FeedType
<1>3. last \in about /\ \A m \in about : m <= last
  BY <1>2
<1>4. \A m \in about : m \in Nat
  BY FeedType
<1> HIDE DEF last, about
<1>5. last = n
  <2>1. last <= n /\ n <= last /\ last \in Nat /\ n \in Nat
    BY <1>2, <1>3, <1>4
  <2> QED
    BY <2>1
<1>6. ASSUME n \notin skipped
      PROVE  \E i \in 1..Len(feed) : /\ feed[i].at = n
                                     /\ \A j \in i+1..Len(feed) : ring[feed[j].at].unit # u
  <2>1. PICK i \in 1..Len(feed) : feed[i].at = n
    BY <1>6 DEF FeedInv, OrderInv, Covered
  <2>2. ASSUME NEW j \in i+1..Len(feed) PROVE feed[j].at \in n+1..Len(ring)
    <3>1. j \in 1..Len(feed) /\ i < j
      BY FeedType
    <3>2. feed[i].at < feed[j].at /\ feed[j].at \in 1..Len(ring)
      BY <3>1, FeedType DEF FeedInv, OrderInv, Rising
    <3> QED
      BY <2>1, <3>2, FeedType
  <2> QED
    BY <1>1, <2>1, <2>2
<1>7. about # {} /\ (last \notin skipped => \E i \in 1..Len(feed) :
                        /\ feed[i].at = last
                        /\ \A j \in i+1..Len(feed) : ring[feed[j].at].unit # u
                        /\ ring[last].state \in {active[u], "unknown"})
  BY <1>1, <1>2, <1>5, <1>6 DEF Current
<1> QED
  BY <1>7 DEF about, last

-----------------------------------------------------------------------------
(* The invariant and what it says of the runs' properties.                 *)

LEMMA InitInv == Init => ServicesInv
<1> SUFFICES ASSUME Init PROVE ServicesInv
  OBVIOUS
<1> USE ServicesAssumption, PumpAssumption DEF Init, InitTasks, InitLister, PumpInit
<1>1. Idle.unit \in Units /\ NoJob.verb \in Verbs
  BY DEF Idle, NoJob
<1>2. NoJob \in [id : 0..MaxJobs, verb : Verbs] /\ NoJob.id = 0
  BY <1>1 DEF NoJob
<1>3. /\ Idle \in Calls /\ Idle.pc = "idle" /\ Idle.cause = 0
  BY <1>1 DEF Idle, Calls, ShownState, NoJob
<1>4. << >> \in Seq(Signals) /\ Len(<< >>) = 0
  OBVIOUS
<1>5. /\ active \in [Units -> UnitState] /\ job \in [Units -> [id : 0..MaxJobs, verb : Verbs]]
      /\ byJob \in [Units -> BOOLEAN] /\ jobs \in 0..MaxJobs /\ removed \in Nat /\ bus \in BOOLEAN
  BY <1>2 DEF UnitState
<1>6. call \in [Callers -> Calls] /\ stream \in [Callers \cup {Watcher} -> Seq(Signals)]
  BY <1>3, <1>4
<1>7. watch \in [pc : {"next", "fetch", "send", "ended"}, unit : Units, state : ShownState]
  BY <1>1 DEF ShownState
<1>8. PumpTypeOK /\ ring \in Seq([unit : Units, state : ShownState])
  <2>1. ring = << >> /\ feed = << >> /\ skipped = {}
        /\ pump = [up |-> FALSE, pos |-> 0, seq |-> 0, life |-> 0]
    OBVIOUS
  <2> QED
    BY <2>1 DEF PumpTypeOK
<1>9. TypeOK /\ Shape
  BY <1>5, <1>6, <1>7, <1>8 DEF TypeOK, Shape
<1>10. \A c \in Callers : CallInv(c)
  BY <1>3 DEF CallInv, Ok, Subscribed
<1> QED
  BY <1>9, <1>10 DEF ServicesInv

LEMMA StutterKeeps == ServicesInv /\ UNCHANGED vars => ServicesInv'
<1> SUFFICES ASSUME ServicesInv, UNCHANGED vars PROVE ServicesInv'
  OBVIOUS
<1>1. TypeOK' /\ Shape'
  BY DEF ServicesInv, TypeOK, Shape, PumpTypeOK, vars, systemd, feedVars, pumpVars
<1> QED
  BY <1>1, CallsUntouched DEF vars, systemd

LEMMA StepInv == ServicesInv /\ [Next]_vars => ServicesInv'
<1> SUFFICES ASSUME ServicesInv, [Next]_vars PROVE ServicesInv'
  OBVIOUS
<1>1. ASSUME NEW u \in Units,
             \/ UnitChanges(u)
             \/ \E r \in Ends : JobEnds(u, r)
             \/ \E v \in Verbs : ForeignJob(u, v)
      PROVE  ServicesInv'
  BY <1>1, SystemdKeeps, JobEndsKeeps, ForeignJobKeeps
<1>2. CASE BusLost
  BY <1>2, SystemdKeeps
<1>3. ASSUME NEW c \in Callers, Caller(c) PROVE ServicesInv'
  BY <1>3, RequestKeeps, SubscribeKeeps, SubmitKeeps, ReplyKeeps, ConsumeKeeps, EndingsKeep DEF Caller
<1>4. CASE Watch \/ StatusPump \/ StatusPumpPanics \/ Lister
  BY <1>4, WatchKeeps, PumpKeeps, ListerKeeps
<1>5. CASE Finished \/ UNCHANGED vars
  BY <1>5, StutterKeeps DEF Finished
<1> QED
  BY <1>1, <1>2, <1>3, <1>4, <1>5 DEF Next

LEMMA Invariance == Spec => []ServicesInv
<1> QED
  BY InitInv, StepInv, PTL DEF Spec

\* The end of a job is not missed, although it may come before the answer that
\* names the job: it is still queued, or its signal is in the call's stream.
THEOREM WakeupNotLost == Spec => []NoLostWakeup
<1>1. ServicesInv => NoLostWakeup
  BY DEF ServicesInv, CallInv, Ok, Holds, NoLostWakeup
<1> QED
  BY <1>1, Invariance, PTL

\* A call that found no job of its unit, and had none put before its own, is
\* answered by the end of its own job.
THEOREM AnsweredByOwnJob == Spec => []OwnJobAnswers
<1>1. ServicesInv => OwnJobAnswers
  BY DEF ServicesInv, CallInv, Ok, OwnJobAnswers
<1> QED
  BY <1>1, Invariance, PTL

\* What subscribers get of the unit states: in the order the watch task sent
\* them, each at most once and numbered without a gap in each life of the
\* pump; and when all is quiet, the last of a unit is its state.
THEOREM FeedIsTrue == Spec => []FeedTellsTruth
<1>1. ServicesInv /\ FeedInv => FeedInOrder
  BY PumpOf, RisingTells DEF FeedInv, OrderInv, Numbered, FeedInOrder
<1>2. ServicesInv /\ FeedInv => FeedTellsTruth
  BY <1>1, AtRest DEF FeedTellsTruth
<1> QED
  BY <1>2, Invariance, FeedInit, FeedStep, PTL DEF Spec

-----------------------------------------------------------------------------
(* The matcher of globs.                                                   *)

\* A loop that moves on by turn until it is over: there is a function that tells
\* where it ends.
Loops(S, Over, turn, f) == f = [at \in S |-> IF at \in Over THEN at ELSE f[turn[at]]]

\* From where the loop leads to X, if it leads there at all.
Leads(S, Over, turn, X) == \A at \in S \ Over : turn[at] \in X => at \in X

LEMMA LoopExists ==
    ASSUME NEW S, NEW Over \in SUBSET S, NEW turn \in [S \ Over -> S]
    PROVE  \E f : Loops(S, Over, turn, f)
<1> DEFINE Before(e) == {at \in S : \A X \in SUBSET S : e \in X /\ Leads(S, Over, turn, X) => at \in X}
           Exits(at) == {e \in Over : at \in Before(e)}
<1>1. PICK f : f = [at \in S |-> CHOOSE e : e \in Exits(at)]
  OBVIOUS
<1>2. ASSUME NEW at \in Over PROVE Exits(at) = {at}
  <2>1. at \in Exits(at)
    OBVIOUS
  <2>2. ASSUME NEW e \in Over, e # at PROVE at \notin Before(e)
    <3>1. Leads(S, Over, turn, S \ {at}) /\ e \in S \ {at}
      BY <2>2 DEF Leads
    <3> QED
      BY <3>1
  <2> HIDE DEF Before
  <2> QED
    BY <2>1, <2>2
<1>3. ASSUME NEW at \in S \ Over PROVE Exits(at) = Exits(turn[at])
  <2>1. turn[at] \in S
    OBVIOUS
  <2>2. ASSUME NEW e \in Over, turn[at] \in Before(e) PROVE at \in Before(e)
    BY <2>2 DEF Leads
  <2>3. ASSUME NEW e \in Over, at \in Before(e) PROVE turn[at] \in Before(e)
    <3> SUFFICES ASSUME NEW X \in SUBSET S, e \in X, Leads(S, Over, turn, X), turn[at] \notin X
                 PROVE  FALSE
      BY <2>1
    <3>1. Leads(S, Over, turn, X \ {at}) /\ e \in X \ {at} /\ X \ {at} \in SUBSET S
      BY DEF Leads
    <3> QED
      BY <2>3, <3>1
  <2> HIDE DEF Before
  <2> QED
    BY <2>2, <2>3
<1> HIDE DEF Exits
<1>4. ASSUME NEW at \in S PROVE f[at] = IF at \in Over THEN at ELSE f[turn[at]]
  <2>1. CASE at \in Over
    BY <1>1, <1>2, <2>1
  <2>2. CASE at \notin Over
    <3>1. turn[at] \in S /\ Exits(at) = Exits(turn[at])
      BY <1>3, <2>2
    <3> QED
      BY <1>1, <2>2, <3>1
  <2> QED
    BY <2>1, <2>2
<1>5. f = [at \in S |-> f[at]]
  BY <1>1
<1>6. Loops(S, Over, turn, f)
  BY <1>4, <1>5 DEF Loops
<1> QED
  BY <1>6

\* The cut of text from t on into pieces for the pattern from p on.
Piece(pattern, text, cut, i) ==
    \/ pattern[i] = "*" /\ cut[i] >= cut[i - 1]
    \/ cut[i] = cut[i - 1] + 1 /\ pattern[i] \in {"?", text[cut[i]]}
Rest(pattern, text, p, t) ==
    \E cut \in [p - 1..Len(pattern) -> 0..Len(text)] :
        /\ cut[p - 1] = t - 1 /\ cut[Len(pattern)] = Len(text)
        /\ \A i \in p..Len(pattern) : Piece(pattern, text, cut, i)

Given(pattern, text) ==
    Len(pattern) \in Nat /\ Len(text) \in Nat /\ \A i \in 1..Len(text) : text[i] # "*"

LEMMA RestEnd ==
    ASSUME NEW pattern, NEW text, Given(pattern, text), NEW t \in 1..Len(text) + 1
    PROVE  Rest(pattern, text, Len(pattern) + 1, t) <=> t = Len(text) + 1
<1>1. PICK P \in Nat, T \in Nat : P = Len(pattern) /\ T = Len(text)
  BY DEF Given
<1>2. ASSUME t = T + 1 PROVE Rest(pattern, text, P + 1, t)
  <2>1. PICK cut : cut = [i \in P..P |-> T]
    OBVIOUS
  <2>2. cut \in [(P + 1) - 1..P -> 0..T] /\ cut[(P + 1) - 1] = t - 1 /\ cut[P] = T
    BY <1>2, <2>1
  <2>3. \A i \in P + 1..P : FALSE
    OBVIOUS
  <2> QED
    BY <1>1, <2>2, <2>3 DEF Rest
<1>3. ASSUME Rest(pattern, text, P + 1, t) PROVE t = T + 1
  <2>1. PICK cut : cut[(P + 1) - 1] = t - 1 /\ cut[P] = T
    BY <1>1, <1>3 DEF Rest
  <2>2. (P + 1) - 1 = P
    OBVIOUS
  <2> QED
    BY <1>1, <2>1, <2>2
<1> QED
  BY <1>1, <1>2, <1>3

\* One piece more at the front, and one less.
LEMMA RestGrows ==
    ASSUME NEW pattern, NEW text, Given(pattern, text), NEW p \in 1..Len(pattern),
           NEW t \in 1..Len(text) + 1, NEW m \in 1..Len(text) + 1, Rest(pattern, text, p + 1, m),
           \/ pattern[p] = "*" /\ m >= t
           \/ m = t + 1 /\ pattern[p] \in {"?", text[t]}
    PROVE  Rest(pattern, text, p, t)
<1>1. PICK P \in Nat, T \in Nat : P = Len(pattern) /\ T = Len(text)
  BY DEF Given
<1>2. PICK cut \in [(p + 1) - 1..P -> 0..T] :
         /\ cut[(p + 1) - 1] = m - 1 /\ cut[P] = T
         /\ \A i \in p + 1..P : Piece(pattern, text, cut, i)
  BY <1>1 DEF Rest
<1>3. (p + 1) - 1 = p /\ p \in 1..P
  BY <1>1
<1>4. PICK g : g = [i \in p - 1..P |-> IF i = p - 1 THEN t - 1 ELSE cut[i]]
  OBVIOUS
<1>5. g \in [p - 1..P -> 0..T]
  BY <1>1, <1>2, <1>3, <1>4
<1>6. g[p - 1] = t - 1 /\ g[p] = m - 1 /\ \A i \in p..P : g[i] = cut[i]
  BY <1>2, <1>3, <1>4
<1>7. ASSUME NEW i \in p..P PROVE Piece(pattern, text, g, i)
  <2>1. CASE i = p
    <3>1. (m - 1) = (t - 1) + 1 <=> m = t + 1
      BY <1>1
    <3>2. m = t + 1 => m - 1 = t
      BY <1>1
    <3> QED
      BY <1>1, <1>6, <2>1, <3>1, <3>2 DEF Piece
  <2>2. CASE i # p
    <3>1. i \in p + 1..P /\ i - 1 \in p..P
      BY <1>3, <2>2
    <3> QED
      BY <1>2, <1>6, <3>1 DEF Piece
  <2> QED
    BY <2>1, <2>2
<1>8. P \in p..P
  BY <1>3
<1> QED
  BY <1>1, <1>2, <1>5, <1>6, <1>7, <1>8 DEF Rest

LEMMA RestShrinks ==
    ASSUME NEW pattern, NEW text, Given(pattern, text), NEW p \in 1..Len(pattern),
           NEW t \in 1..Len(text) + 1, Rest(pattern, text, p, t)
    PROVE  \E m \in 1..Len(text) + 1 :
              /\ Rest(pattern, text, p + 1, m)
              /\ \/ pattern[p] = "*" /\ m >= t
                 \/ m = t + 1 /\ pattern[p] \in {"?", text[t]}
<1>1. PICK P \in Nat, T \in Nat : P = Len(pattern) /\ T = Len(text)
  BY DEF Given
<1>2. PICK cut \in [p - 1..P -> 0..T] :
         /\ cut[p - 1] = t - 1 /\ cut[P] = T
         /\ \A i \in p..P : Piece(pattern, text, cut, i)
  BY <1>1 DEF Rest
<1>3. p \in 1..P /\ (p + 1) - 1 = p
  BY <1>1
<1>4. PICK m \in 1..T + 1 : cut[p] = m - 1
  <2>1. cut[p] \in 0..T
    BY <1>2, <1>3
  <2>2. cut[p] + 1 \in 1..T + 1 /\ cut[p] = (cut[p] + 1) - 1
    BY <1>1, <2>1
  <2> QED
    BY <2>2
<1>5. PICK g : g = [i \in p..P |-> cut[i]]
  OBVIOUS
<1>6. g \in [(p + 1) - 1..P -> 0..T] /\ g[(p + 1) - 1] = m - 1 /\ g[P] = T
  BY <1>2, <1>3, <1>4, <1>5
<1>7. ASSUME NEW i \in p + 1..P PROVE Piece(pattern, text, g, i)
  <2>1. i \in p..P /\ i - 1 \in p..P
    BY <1>3
  <2> QED
    BY <1>2, <1>5, <2>1 DEF Piece
<1>8. Rest(pattern, text, p + 1, m)
  BY <1>1, <1>6, <1>7 DEF Rest
<1>9. \/ pattern[p] = "*" /\ m >= t
      \/ m = t + 1 /\ pattern[p] \in {"?", text[t]}
  <2>1. Piece(pattern, text, cut, p)
    BY <1>2, <1>3
  <2>2. m - 1 >= t - 1 <=> m >= t
    BY <1>1
  <2>3. m - 1 = (t - 1) + 1 => m = t + 1 /\ m - 1 = t
    BY <1>1
  <2> QED
    BY <1>2, <1>4, <2>1, <2>2, <2>3 DEF Piece
<1> QED
  BY <1>1, <1>8, <1>9

\* A character of the pattern that is no "*" takes one of the text, "*" any number.
LEMMA RestChar ==
    ASSUME NEW pattern, NEW text, Given(pattern, text), NEW p \in 1..Len(pattern),
           NEW t \in 1..Len(text) + 1, pattern[p] # "*"
    PROVE  Rest(pattern, text, p, t) <=>
              t <= Len(text) /\ pattern[p] \in {"?", text[t]} /\ Rest(pattern, text, p + 1, t + 1)
<1>1. Len(text) \in Nat
  BY DEF Given
<1>2. ASSUME Rest(pattern, text, p, t)
      PROVE  t <= Len(text) /\ pattern[p] \in {"?", text[t]} /\ Rest(pattern, text, p + 1, t + 1)
  <2>1. PICK m \in 1..Len(text) + 1 :
           Rest(pattern, text, p + 1, m) /\ m = t + 1 /\ pattern[p] \in {"?", text[t]}
    BY <1>2, RestShrinks
  <2>2. t <= Len(text)
    BY <1>1, <2>1
  <2> QED
    BY <2>1, <2>2
<1>3. ASSUME t <= Len(text), pattern[p] \in {"?", text[t]}, Rest(pattern, text, p + 1, t + 1)
      PROVE  Rest(pattern, text, p, t)
  <2>1. t + 1 \in 1..Len(text) + 1
    BY <1>1, <1>3
  <2> QED
    BY <1>3, <2>1, RestGrows
<1> QED
  BY <1>2, <1>3

LEMMA RestStar ==
    ASSUME NEW pattern, NEW text, Given(pattern, text), NEW p \in 1..Len(pattern),
           NEW t \in 1..Len(text) + 1, pattern[p] = "*"
    PROVE  Rest(pattern, text, p, t) <=>
              \E m \in 1..Len(text) + 1 : m >= t /\ Rest(pattern, text, p + 1, m)
<1>1. ASSUME Rest(pattern, text, p, t)
      PROVE  \E m \in 1..Len(text) + 1 : m >= t /\ Rest(pattern, text, p + 1, m)
  <2>1. t \in Int /\ Len(text) \in Nat
    BY DEF Given
  <2>2. PICK m \in 1..Len(text) + 1 : Rest(pattern, text, p + 1, m) /\ (m >= t \/ m = t + 1)
    BY <1>1, RestShrinks
  <2>3. m >= t
    BY <2>1, <2>2
  <2> QED
    BY <2>2, <2>3
<1>2. ASSUME NEW m \in 1..Len(text) + 1, m >= t, Rest(pattern, text, p + 1, m)
      PROVE  Rest(pattern, text, p, t)
  BY <1>2, RestGrows
<1> QED
  BY <1>1, <1>2

\* Where the text is over only "*" may be left of the pattern.
LEMMA RestOver ==
    ASSUME NEW pattern, NEW text, Given(pattern, text), NEW p \in 1..Len(pattern) + 1
    PROVE  Rest(pattern, text, p, Len(text) + 1) <=> \A i \in p..Len(pattern) : pattern[i] = "*"
<1>1. PICK P \in Nat, T \in Nat : P = Len(pattern) /\ T = Len(text)
  BY DEF Given
<1> DEFINE Right(q) == Rest(pattern, text, q, T + 1) <=> \A i \in q..P : pattern[i] = "*"
           N == {n \in Nat : n <= P => Right(P + 1 - n)}
<1>2. 0 \in N
  <2>1. Rest(pattern, text, P + 1, T + 1)
    BY <1>1, RestEnd
  <2>2. \A i \in P + 1..P : FALSE
    OBVIOUS
  <2>3. P + 1 - 0 = P + 1
    OBVIOUS
  <2>4. Right(P + 1)
    BY <2>1, <2>2
  <2> HIDE DEF Right
  <2> QED
    BY <2>3, <2>4
<1>3. ASSUME NEW n \in Nat, n \in N PROVE n + 1 \in N
  <2> SUFFICES ASSUME n + 1 <= P PROVE Right(P + 1 - (n + 1))
    OBVIOUS
  <2>1. PICK q \in 1..P : q = P + 1 - (n + 1) /\ q + 1 = P + 1 - n
    <3>1. P - n \in 1..P /\ P - n = P + 1 - (n + 1) /\ (P - n) + 1 = P + 1 - n
      OBVIOUS
    <3> QED
      BY <3>1
  <2>2. Right(q + 1)
    <3> HIDE DEF Right
    <3> QED
      BY <1>3, <2>1
  <2>3. (\A i \in q..P : pattern[i] = "*") <=> pattern[q] = "*" /\ \A i \in q + 1..P : pattern[i] = "*"
    <3>1. \A i \in q..P : i = q \/ i \in q + 1..P
      OBVIOUS
    <3>2. q \in q..P /\ \A i \in q + 1..P : i \in q..P
      OBVIOUS
    <3> QED
      BY <3>1, <3>2
  <2>4. T + 1 \in 1..T + 1
    OBVIOUS
  <2>5. CASE pattern[q] = "*"
    <3>1. Rest(pattern, text, q, T + 1) <=>
             \E m \in 1..T + 1 : m >= T + 1 /\ Rest(pattern, text, q + 1, m)
      BY <1>1, <2>4, <2>5, RestStar
    <3>2. \A m \in 1..T + 1 : m >= T + 1 <=> m = T + 1
      OBVIOUS
    <3>3. Rest(pattern, text, q, T + 1) <=> Rest(pattern, text, q + 1, T + 1)
      BY <2>4, <3>1, <3>2
    <3> QED
      BY <2>1, <2>2, <2>3, <2>5, <3>3
  <2>6. CASE pattern[q] # "*"
    <3>1. ~ Rest(pattern, text, q, T + 1)
      <4>1. ~ (T + 1 <= T)
        OBVIOUS
      <4> QED
        BY <1>1, <2>4, <2>6, <4>1, RestChar
    <3> QED
      BY <2>1, <2>3, <2>6, <3>1
  <2> QED
    BY <2>5, <2>6
<1>4. Nat \subseteq N
  <2> HIDE DEF N
  <2> QED
    BY <1>2, <1>3, Climb
<1>5. P + 1 - p \in Nat /\ P + 1 - p <= P /\ P + 1 - (P + 1 - p) = p
  BY <1>1
<1>6. Right(p)
  <2> HIDE DEF Right
  <2> QED
    BY <1>4, <1>5
<1> QED
  BY <1>1, <1>6

\* Without a "*" as much is taken of the text as of the pattern.
LEMMA RestAcross ==
    ASSUME NEW pattern, NEW text, Given(pattern, text), NEW q \in 1..Len(pattern) + 1,
           NEW p \in 1..Len(pattern) + 1, q <= p, \A i \in q..p - 1 : pattern[i] # "*",
           NEW m \in 1..Len(text) + 1, Rest(pattern, text, q, m)
    PROVE  m + (p - q) <= Len(text) + 1 /\ Rest(pattern, text, p, m + (p - q))
<1>1. PICK P \in Nat, T \in Nat : P = Len(pattern) /\ T = Len(text)
  BY DEF Given
<1> DEFINE There(n) == m + n <= T + 1 /\ Rest(pattern, text, q + n, m + n)
           N == {n \in Nat : n <= p - q => There(n)}
<1>2. 0 \in N
  <2>1. q + 0 = q /\ m + 0 = m /\ m <= T + 1
    BY <1>1
  <2> QED
    BY <2>1
<1>3. ASSUME NEW n \in Nat, n \in N PROVE n + 1 \in N
  <2> SUFFICES ASSUME n + 1 <= p - q PROVE There(n + 1)
    OBVIOUS
  <2>1. There(n)
    BY <1>1, <1>3
  <2>2. PICK a \in 1..P, b \in 1..T + 1 : a = q + n /\ b = m + n
    BY <1>1, <2>1
  <2>3. pattern[a] # "*"
    <3>1. a \in q..p - 1
      BY <1>1, <2>2
    <3> QED
      BY <3>1
  <2>4. b <= T /\ Rest(pattern, text, a + 1, b + 1)
    BY <1>1, <2>1, <2>2, <2>3, RestChar
  <2>5. a + 1 = q + (n + 1) /\ b + 1 = m + (n + 1) /\ b + 1 <= T + 1
    BY <1>1, <2>2, <2>4
  <2> QED
    BY <2>4, <2>5
<1>4. p - q \in N
  <2>1. p - q \in Nat
    BY <1>1
  <2> HIDE DEF N
  <2> QED
    BY <1>2, <1>3, <2>1, Climb
<1>5. There(p - q)
  <2>1. p - q <= p - q
    BY <1>1
  <2> HIDE DEF There
  <2> QED
    BY <1>4, <2>1
<1>6. q + (p - q) = p
  BY <1>1
<1> QED
  BY <1>1, <1>5, <1>6

-----------------------------------------------------------------------------
\* A turn of the loop, where it is over, and what it keeps: since the last "*" as
\* much was taken of the text as of the pattern.
Takes(pattern, text, at) == at.p <= Len(pattern) /\ pattern[at.p] \in {"?", text[at.t]}
Wild(pattern, at)        == at.p <= Len(pattern) /\ pattern[at.p] = "*"
Over(pattern, text, at) ==
    at.t > Len(text) \/ (~ Takes(pattern, text, at) /\ ~ Wild(pattern, at) /\ at.star = 0)
Turn(pattern, text, at) ==
    IF Takes(pattern, text, at) THEN [at EXCEPT !.p = @ + 1, !.t = @ + 1]
    ELSE IF Wild(pattern, at) THEN [at EXCEPT !.p = @ + 1, !.star = at.p + 1, !.mark = at.t]
    ELSE [at EXCEPT !.p = at.star, !.t = at.mark + 1, !.mark = @ + 1]
Won(pattern, text, at) == at.t > Len(text) /\ \A i \in at.p..Len(pattern) : pattern[i] = "*"

Level(pattern, p, t, star, mark) ==
    star # 0 => /\ star <= p /\ mark >= 1 /\ t = mark + (p - star)
                /\ \A i \in star..p - 1 : pattern[i] # "*"
Sound(pattern, at) == Level(pattern, at.p, at.t, at.star, at.mark)

\* A match the loop can still find: from here on, or after another turn of the last "*".
Hope(pattern, text, at) ==
    \/ Rest(pattern, text, at.p, at.t)
    \/ at.star # 0 /\ \E m \in 1..Len(text) + 1 : m > at.mark /\ Rest(pattern, text, at.star, m)

LEMMA HopeOver ==
    ASSUME NEW pattern, NEW text, Given(pattern, text), NEW at \in Spots(pattern, text),
           Sound(pattern, at), Over(pattern, text, at)
    PROVE  Won(pattern, text, at) <=> Hope(pattern, text, at)
<1>1. PICK P \in Nat, T \in Nat : P = Len(pattern) /\ T = Len(text)
  BY DEF Given
<1>2. /\ at.p \in 1..P + 1 /\ at.t \in 1..T + 1 /\ at.star \in 0..P + 1 /\ at.mark \in 0..T + 1
      /\ at.mark <= at.t
  BY <1>1 DEF Spots
<1>3. CASE at.t > T
  <2>1. at.t = T + 1
    BY <1>2, <1>3
  <2>2. Won(pattern, text, at) <=> Rest(pattern, text, at.p, at.t)
    BY <1>1, <1>2, <1>3, <2>1, RestOver DEF Won
  <2>3. ASSUME at.star # 0, NEW m \in 1..T + 1, m > at.mark, Rest(pattern, text, at.star, m)
        PROVE  FALSE
    <3>1. at.star \in 1..P + 1 /\ at.star <= at.p
      BY <1>2, <2>3 DEF Sound, Level
    <3>2. m + (at.p - at.star) <= T + 1
      BY <1>1, <1>2, <2>3, <3>1, RestAcross DEF Sound, Level
    <3>3. at.t = at.mark + (at.p - at.star)
      BY <2>3 DEF Sound, Level
    <3> QED
      BY <1>2, <2>1, <2>3, <3>1, <3>2, <3>3
  <2> QED
    BY <1>1, <2>2, <2>3 DEF Hope
<1>4. CASE ~ (at.t > T)
  <2>1. ~ Won(pattern, text, at) /\ at.star = 0 /\ ~ Takes(pattern, text, at) /\ ~ Wild(pattern, at)
    BY <1>1, <1>4 DEF Over, Won
  <2>2. ~ Rest(pattern, text, at.p, at.t)
    <3>1. CASE at.p = P + 1
      BY <1>1, <1>2, <1>4, <3>1, RestEnd
    <3>2. CASE at.p \in 1..P
      <4>1. pattern[at.p] # "*" /\ pattern[at.p] \notin {"?", text[at.t]}
        BY <1>1, <2>1, <3>2 DEF Takes, Wild
      <4> QED
        BY <1>1, <1>2, <3>2, <4>1, RestChar
    <3> QED
      BY <1>2, <3>1, <3>2
  <2> QED
    BY <2>1, <2>2 DEF Hope
<1> QED
  BY <1>3, <1>4

LEMMA SpotRule ==
    ASSUME NEW pattern, NEW text, NEW p \in 1..Len(pattern) + 1, NEW t \in 1..Len(text) + 1,
           NEW star \in 0..Len(pattern) + 1, NEW mark \in 0..Len(text) + 1, mark <= t
    PROVE  [p |-> p, t |-> t, star |-> star, mark |-> mark] \in Spots(pattern, text)
  BY DEF Spots

LEMMA LevelStart ==
    ASSUME NEW pattern, NEW p \in Nat, NEW t \in Nat, t >= 1
    PROVE  Level(pattern, p, t, p, t)
<1>1. \A i \in p..p - 1 : FALSE
  OBVIOUS
<1> QED
  BY <1>1 DEF Level

LEMMA LevelNext ==
    ASSUME NEW pattern, NEW p \in Nat, NEW t \in Nat, NEW star \in Nat, NEW mark \in Nat,
           Level(pattern, p, t, star, mark), pattern[p] # "*"
    PROVE  Level(pattern, p + 1, t + 1, star, mark)
<1> SUFFICES ASSUME star # 0
             PROVE  /\ star <= p + 1 /\ mark >= 1 /\ t + 1 = mark + ((p + 1) - star)
                    /\ \A i \in star..(p + 1) - 1 : pattern[i] # "*"
  BY DEF Level
<1>1. /\ star <= p /\ mark >= 1 /\ t = mark + (p - star)
      /\ \A i \in star..p - 1 : pattern[i] # "*"
  BY DEF Level
<1>2. \A i \in star..(p + 1) - 1 : i = p \/ i \in star..p - 1
  OBVIOUS
<1> QED
  BY <1>1, <1>2

LEMMA TurnStays ==
    ASSUME NEW pattern, NEW text, Given(pattern, text), NEW at \in Spots(pattern, text),
           ~ Over(pattern, text, at)
    PROVE  Turn(pattern, text, at) \in Spots(pattern, text)
<1>0. PICK to : to = Turn(pattern, text, at)
  OBVIOUS
<1>1. PICK P \in Nat, T \in Nat : P = Len(pattern) /\ T = Len(text)
  BY DEF Given
<1>2. /\ at \in [p : 1..P + 1, t : 1..T + 1, star : 0..P + 1, mark : 0..T + 1]
      /\ at.p \in 1..P + 1 /\ at.t \in 1..T + 1 /\ at.star \in 0..P + 1 /\ at.mark \in 0..T + 1
      /\ at.mark <= at.t
  BY <1>1 DEF Spots
<1>3. at.t \in 1..T
  BY <1>1, <1>2 DEF Over
<1>4. CASE Takes(pattern, text, at)
  <2>1. to = [at EXCEPT !.p = @ + 1, !.t = @ + 1]
    BY <1>0, <1>4 DEF Turn
  <2>3. at.p \in 1..P /\ pattern[at.p] \in {"?", text[at.t]}
    BY <1>1, <1>2, <1>4 DEF Takes
  <2>5. to \in Spots(pattern, text)
    <3>1. to = [p |-> at.p + 1, t |-> at.t + 1, star |-> at.star, mark |-> at.mark]
      BY <1>2, <2>1
    <3>2. /\ at.p + 1 \in 1..P + 1 /\ at.t + 1 \in 1..T + 1
          /\ at.star \in 0..P + 1 /\ at.mark \in 0..T + 1 /\ at.mark <= at.t + 1
      BY <1>2, <1>3, <2>3
    <3> QED
      BY <1>1, <3>1, <3>2, SpotRule
  <2> QED
    BY <1>0, <2>5
<1>5. CASE ~ Takes(pattern, text, at) /\ Wild(pattern, at)
  <2>1. to = [at EXCEPT !.p = @ + 1, !.star = at.p + 1, !.mark = at.t]
    BY <1>0, <1>5 DEF Turn
  <2>3. at.p \in 1..P /\ pattern[at.p] = "*"
    BY <1>1, <1>2, <1>5 DEF Wild
  <2>4. to \in Spots(pattern, text)
    <3>1. to = [p |-> at.p + 1, t |-> at.t, star |-> at.p + 1, mark |-> at.t]
      BY <1>2, <2>1
    <3>2. /\ at.p + 1 \in 1..P + 1 /\ at.t \in 1..T + 1
          /\ at.p + 1 \in 0..P + 1 /\ at.t \in 0..T + 1 /\ at.t <= at.t
      BY <1>2, <1>3, <2>3
    <3> QED
      BY <1>1, <3>1, <3>2, SpotRule
  <2> QED
    BY <1>0, <2>4
<1>6. CASE ~ Takes(pattern, text, at) /\ ~ Wild(pattern, at)
  <2>1. to = [at EXCEPT !.p = at.star, !.t = at.mark + 1, !.mark = @ + 1]
    BY <1>0, <1>6 DEF Turn
  <2>3. at.star \in 1..P + 1 /\ at.mark \in 0..T
    BY <1>1, <1>2, <1>3, <1>6 DEF Over
  <2>4. to \in Spots(pattern, text)
    <3>1. to = [p |-> at.star, t |-> at.mark + 1, star |-> at.star, mark |-> at.mark + 1]
      BY <1>2, <2>1
    <3>2. /\ at.star \in 1..P + 1 /\ at.mark + 1 \in 1..T + 1
          /\ at.star \in 0..P + 1 /\ at.mark + 1 \in 0..T + 1 /\ at.mark + 1 <= at.mark + 1
      BY <1>2, <1>3, <2>3
    <3> QED
      BY <1>1, <3>1, <3>2, SpotRule
  <2> QED
    BY <1>0, <2>4
<1> QED
  BY <1>4, <1>5, <1>6

\* A turn keeps what the loop may find.
LEMMA HopeTurns ==
    ASSUME NEW pattern, NEW text, Given(pattern, text), NEW at \in Spots(pattern, text),
           Sound(pattern, at), ~ Over(pattern, text, at),
           NEW to, to = Turn(pattern, text, at)
    PROVE  /\ to \in Spots(pattern, text) /\ Sound(pattern, to)
           /\ Hope(pattern, text, to) <=> Hope(pattern, text, at)
           /\ \/ to.mark = at.mark /\ to.p = at.p + 1 /\ to.t >= at.t
              \/ to.mark > at.mark
<1>1. PICK P \in Nat, T \in Nat : P = Len(pattern) /\ T = Len(text)
  BY DEF Given
<1>2. /\ at \in [p : 1..P + 1, t : 1..T + 1, star : 0..P + 1, mark : 0..T + 1]
      /\ at.p \in 1..P + 1 /\ at.t \in 1..T + 1 /\ at.star \in 0..P + 1 /\ at.mark \in 0..T + 1
      /\ at.mark <= at.t
  BY <1>1 DEF Spots
<1>3. at.t \in 1..T
  BY <1>1, <1>2 DEF Over
<1>4. CASE Takes(pattern, text, at)
  <2>1. to = [at EXCEPT !.p = @ + 1, !.t = @ + 1]
    BY <1>4 DEF Turn
  <2>2. to.p = at.p + 1 /\ to.t = at.t + 1 /\ to.star = at.star /\ to.mark = at.mark
    BY <1>2, <2>1
  <2>3. at.p \in 1..P /\ pattern[at.p] \in {"?", text[at.t]}
    BY <1>1, <1>2, <1>4 DEF Takes
  <2>4. pattern[at.p] # "*"
    BY <1>1, <1>3, <2>3 DEF Given
  <2>5. to \in Spots(pattern, text)
    BY TurnStays
  <2>6. Sound(pattern, to)
    <3>1. at.p \in Nat /\ at.t \in Nat /\ at.star \in Nat /\ at.mark \in Nat
      BY <1>2
    <3>2. Level(pattern, at.p + 1, at.t + 1, at.star, at.mark)
      BY <2>4, <3>1, LevelNext DEF Sound
    <3> QED
      BY <2>2, <3>2 DEF Sound
  <2>7. Rest(pattern, text, at.p, at.t) <=> Rest(pattern, text, to.p, to.t)
    BY <1>1, <1>2, <1>3, <2>2, <2>3, <2>4, RestChar
  <2> QED
    BY <1>2, <2>2, <2>5, <2>6, <2>7 DEF Hope
<1>5. CASE ~ Takes(pattern, text, at) /\ Wild(pattern, at)
  <2>1. to = [at EXCEPT !.p = @ + 1, !.star = at.p + 1, !.mark = at.t]
    BY <1>5 DEF Turn
  <2>2. to.p = at.p + 1 /\ to.t = at.t /\ to.star = at.p + 1 /\ to.mark = at.t
    BY <1>2, <2>1
  <2>3. at.p \in 1..P /\ pattern[at.p] = "*"
    BY <1>1, <1>2, <1>5 DEF Wild
  <2>4. to \in Spots(pattern, text)
    BY TurnStays
  <2>5. Sound(pattern, to)
    <3>1. at.p + 1 \in Nat /\ at.t \in Nat /\ at.t >= 1
      BY <1>2
    <3>2. Level(pattern, at.p + 1, at.t, at.p + 1, at.t)
      BY <3>1, LevelStart
    <3> QED
      BY <2>2, <3>2 DEF Sound
  <2>6. Rest(pattern, text, at.p, at.t) <=>
           \E m \in 1..T + 1 : m >= at.t /\ Rest(pattern, text, at.p + 1, m)
    BY <1>1, <1>2, <2>3, RestStar
  <2>7. ASSUME at.star # 0, NEW m \in 1..T + 1, m > at.mark, Rest(pattern, text, at.star, m)
        PROVE  Rest(pattern, text, at.p, at.t)
    <3>1. at.star \in 1..P + 1 /\ at.star <= at.p /\ at.t = at.mark + (at.p - at.star)
      BY <1>2, <2>7 DEF Sound, Level
    <3>2. PICK b \in 1..T + 1 : b = m + (at.p - at.star) /\ Rest(pattern, text, at.p, b)
      <4>1. m + (at.p - at.star) <= T + 1 /\ Rest(pattern, text, at.p, m + (at.p - at.star))
        BY <1>1, <1>2, <2>7, <3>1, RestAcross DEF Sound, Level
      <4>2. m + (at.p - at.star) \in 1..T + 1
        BY <1>2, <3>1, <4>1
      <4> QED
        BY <4>1, <4>2
    <3>3. PICK c \in 1..T + 1 : c >= b /\ Rest(pattern, text, at.p + 1, c)
      BY <1>1, <2>3, <3>2, RestStar
    <3>4. c >= at.t
      BY <1>2, <2>7, <3>1, <3>2, <3>3
    <3> QED
      BY <2>6, <3>3, <3>4
  <2>8. Hope(pattern, text, at) <=> Rest(pattern, text, at.p, at.t)
    BY <1>1, <2>7 DEF Hope
  <2>9. Hope(pattern, text, to) <=>
           \E m \in 1..T + 1 : m >= at.t /\ Rest(pattern, text, at.p + 1, m)
    <3>1. \A m \in 1..T + 1 : m >= at.t <=> m = at.t \/ m > at.t
      BY <1>2
    <3>2. at.p + 1 # 0
      BY <1>2
    <3> QED
      BY <1>1, <1>2, <2>2, <3>1, <3>2 DEF Hope
  <2> QED
    BY <1>2, <2>2, <2>4, <2>5, <2>6, <2>8, <2>9
<1>6. CASE ~ Takes(pattern, text, at) /\ ~ Wild(pattern, at)
  <2>1. to = [at EXCEPT !.p = at.star, !.t = at.mark + 1, !.mark = @ + 1]
    BY <1>6 DEF Turn
  <2>2. to.p = at.star /\ to.t = at.mark + 1 /\ to.star = at.star /\ to.mark = at.mark + 1
    BY <1>2, <2>1
  <2>3. at.star \in 1..P + 1 /\ at.mark \in 1..T
    BY <1>1, <1>2, <1>3, <1>6 DEF Over, Sound, Level
  <2>4. to \in Spots(pattern, text)
    BY TurnStays
  <2>5. Sound(pattern, to)
    <3>1. at.star \in Nat /\ at.mark + 1 \in Nat /\ at.mark + 1 >= 1
      BY <1>2
    <3>2. Level(pattern, at.star, at.mark + 1, at.star, at.mark + 1)
      BY <3>1, LevelStart
    <3> QED
      BY <2>2, <3>2 DEF Sound
  <2>6. ~ Rest(pattern, text, at.p, at.t)
    <3>1. CASE at.p = P + 1
      BY <1>1, <1>2, <1>3, <3>1, RestEnd
    <3>2. CASE at.p \in 1..P
      <4>1. pattern[at.p] # "*" /\ pattern[at.p] \notin {"?", text[at.t]}
        BY <1>1, <1>6, <3>2 DEF Takes, Wild
      <4> QED
        BY <1>1, <1>2, <3>2, <4>1, RestChar
    <3> QED
      BY <1>2, <3>1, <3>2
  <2>7. \A m \in 1..T + 1 : m > at.mark <=> m = at.mark + 1 \/ m > at.mark + 1
    BY <1>2
  <2>8. at.mark + 1 \in 1..T + 1
    BY <2>3
  <2>9. at.star # 0
    BY <2>3
  <2>10. Hope(pattern, text, at) <=>
            \E m \in 1..T + 1 : m > at.mark /\ Rest(pattern, text, at.star, m)
    BY <1>1, <2>6, <2>9 DEF Hope
  <2>11. Hope(pattern, text, to) <=>
            \/ Rest(pattern, text, at.star, at.mark + 1)
            \/ \E m \in 1..T + 1 : m > at.mark + 1 /\ Rest(pattern, text, at.star, m)
    BY <1>1, <2>2, <2>9 DEF Hope
  <2>12. to.mark > at.mark
    BY <1>2, <2>2
  <2> QED
    BY <2>4, <2>5, <2>7, <2>8, <2>10, <2>11, <2>12
<1> QED
  BY <1>4, <1>5, <1>6

LEMMA Multiply == ASSUME NEW a \in Nat, NEW b \in Nat, NEW k \in Nat, a < b PROVE a * k + k <= b * k
<1>1. PICK d \in Nat : b = a + 1 + d
  <2>1. b - a - 1 \in Nat /\ b = a + 1 + (b - a - 1)
    OBVIOUS
  <2> QED
    BY <2>1
<1>2. d * k \in Nat
  OBVIOUS
<1>3. (a + 1 + d) * k = a * k + k + d * k
  OBVIOUS
<1> QED
  BY <1>1, <1>2, <1>3

\* How far the loop still is from its end.
Left(pattern, text, at) ==
    (Len(text) + 1 - at.mark) * (Len(pattern) + Len(text) + 3)
        + ((Len(pattern) + 1 - at.p) + (Len(text) + 1 - at.t))

LEMMA LeftFalls ==
    ASSUME NEW pattern, NEW text, Given(pattern, text), NEW at \in Spots(pattern, text),
           NEW to \in Spots(pattern, text),
           \/ to.mark = at.mark /\ to.p = at.p + 1 /\ to.t >= at.t
           \/ to.mark > at.mark
    PROVE  /\ Left(pattern, text, at) \in Nat /\ Left(pattern, text, to) \in Nat
           /\ Left(pattern, text, to) < Left(pattern, text, at)
<1>1. PICK P \in Nat, T \in Nat : P = Len(pattern) /\ T = Len(text)
  BY DEF Given
<1>2. PICK p \in 1..P + 1, t \in 1..T + 1, m \in 0..T + 1 : p = at.p /\ t = at.t /\ m = at.mark
  BY <1>1 DEF Spots
<1>3. PICK q \in 1..P + 1, u \in 1..T + 1, n \in 0..T + 1 : q = to.p /\ u = to.t /\ n = to.mark
  BY <1>1 DEF Spots
<1>4. PICK a \in Nat, b \in Nat, k \in Nat : a = T + 1 - m /\ b = T + 1 - n /\ k = P + T + 3
  <2>1. T + 1 - m \in Nat /\ T + 1 - n \in Nat /\ P + T + 3 \in Nat
    OBVIOUS
  <2> QED
    BY <2>1
<1>5. PICK x \in Nat, y \in Nat : x = a * k /\ y = b * k
  OBVIOUS
<1>6. /\ Left(pattern, text, at) = x + ((P + 1 - p) + (T + 1 - t))
      /\ Left(pattern, text, to) = y + ((P + 1 - q) + (T + 1 - u))
  BY <1>1, <1>2, <1>3, <1>4, <1>5 DEF Left
<1>7. CASE n = m /\ q = p + 1 /\ u >= t
  BY <1>4, <1>5, <1>6, <1>7
<1>8. CASE n > m
  <2>1. b < a
    BY <1>4, <1>8
  <2>2. y + k <= x
    BY <1>5, <2>1, Multiply
  <2> QED
    BY <1>4, <1>6, <2>2
<1> QED
  BY <1>2, <1>3, <1>7, <1>8

LEMMA HopeEnds ==
    ASSUME NEW pattern, NEW text, Given(pattern, text),
           NEW f, f = [at \in Spots(pattern, text) |->
                         IF Over(pattern, text, at) THEN at ELSE f[Turn(pattern, text, at)]],
           NEW at \in Spots(pattern, text), Sound(pattern, at)
    PROVE  Won(pattern, text, f[at]) <=> Hope(pattern, text, at)
<1> DEFINE Bad(x) == Sound(pattern, x) /\ ~ (Won(pattern, text, f[x]) <=> Hope(pattern, text, x))
           B == {x \in Spots(pattern, text) : Bad(x)}
           N == {Left(pattern, text, x) : x \in B}
<1>1. \A x \in Spots(pattern, text) : Left(pattern, text, x) \in Nat
  <2> SUFFICES ASSUME NEW x \in Spots(pattern, text) PROVE Left(pattern, text, x) \in Nat
    OBVIOUS
  <2>1. PICK P \in Nat, T \in Nat : P = Len(pattern) /\ T = Len(text)
    BY DEF Given
  <2>2. PICK p \in 1..P + 1, t \in 1..T + 1, m \in 0..T + 1 : p = x.p /\ t = x.t /\ m = x.mark
    BY <2>1 DEF Spots
  <2>3. PICK a \in Nat, k \in Nat : a = T + 1 - m /\ k = P + T + 3
    <3>1. T + 1 - m \in Nat /\ P + T + 3 \in Nat
      OBVIOUS
    <3> QED
      BY <3>1
  <2>4. PICK n \in Nat : n = a * k
    OBVIOUS
  <2>5. Left(pattern, text, x) = n + ((P + 1 - p) + (T + 1 - t))
    BY <2>1, <2>2, <2>3, <2>4 DEF Left
  <2> QED
    BY <2>5
<1> SUFFICES ASSUME B # {} PROVE FALSE
  OBVIOUS
<1>2. PICK x \in B : \A y \in B : Left(pattern, text, x) <= Left(pattern, text, y)
  <2>1. N \in SUBSET Nat /\ N # {}
    BY <1>1
  <2>2. PICK n \in N : \A k \in N : n <= k
    <3> HIDE DEF N
    <3> QED
      BY <2>1, Least
  <2> HIDE DEF B
  <2> QED
    BY <2>2
<1>3. x \in Spots(pattern, text) /\ Sound(pattern, x)
  OBVIOUS
<1>4. f[x] = IF Over(pattern, text, x) THEN x ELSE f[Turn(pattern, text, x)]
  BY <1>3
<1>5. CASE Over(pattern, text, x)
  BY <1>3, <1>4, <1>5, HopeOver
<1>6. CASE ~ Over(pattern, text, x)
  <2>1. PICK to : to = Turn(pattern, text, x)
    OBVIOUS
  <2>2. /\ to \in Spots(pattern, text) /\ Sound(pattern, to)
        /\ Hope(pattern, text, to) <=> Hope(pattern, text, x)
        /\ \/ to.mark = x.mark /\ to.p = x.p + 1 /\ to.t >= x.t
           \/ to.mark > x.mark
    BY <1>3, <1>6, <2>1, HopeTurns
  <2>3. /\ Left(pattern, text, x) \in Nat /\ Left(pattern, text, to) \in Nat
        /\ Left(pattern, text, to) < Left(pattern, text, x)
    BY <1>3, <2>2, LeftFalls
  <2>4. to \notin B
    <3>1. ~ (Left(pattern, text, x) <= Left(pattern, text, to))
      BY <2>3
    <3> HIDE DEF B
    <3> QED
      BY <1>2, <3>1
  <2>5. Won(pattern, text, f[to]) <=> Hope(pattern, text, to)
    BY <2>2, <2>4
  <2>6. f[x] = f[to]
    BY <1>4, <1>6, <2>1
  <2> QED
    BY <2>2, <2>5, <2>6
<1> QED
  BY <1>5, <1>6

\* glob_matches, which scans from left to right and comes back to the last "*" alone,
\* finds a match if and only if there is one, for every pattern and every text without
\* a "*".
THEOREM GlobIsRight ==
    ASSUME NEW Chars, NEW pattern \in Seq(Chars), NEW text \in Seq(Chars), "*" \notin ToSet(text)
    PROVE  GlobMatches(pattern, text) <=> Glob(pattern, text)
<1>0. Given(pattern, text)
  BY DEF Given, ToSet
<1>1. PICK P \in Nat, T \in Nat : P = Len(pattern) /\ T = Len(text)
  BY <1>0 DEF Given
<1> DEFINE S     == Spots(pattern, text)
           O     == {at \in S : Over(pattern, text, at)}
           turn  == [at \in S \ O |-> Turn(pattern, text, at)]
           start == [p |-> 1, t |-> 1, star |-> 0, mark |-> 0]
           Goes(f, at) == IF at.t > Len(text) THEN at
                          ELSE IF at.p <= Len(pattern) /\ pattern[at.p] \in {"?", text[at.t]}
                          THEN f[[at EXCEPT !.p = @ + 1, !.t = @ + 1]]
                          ELSE IF at.p <= Len(pattern) /\ pattern[at.p] = "*"
                          THEN f[[at EXCEPT !.p = @ + 1, !.star = at.p + 1, !.mark = at.t]]
                          ELSE IF at.star # 0
                          THEN f[[at EXCEPT !.p = at.star, !.t = at.mark + 1, !.mark = @ + 1]]
                          ELSE at
           Turned(f, at) == IF Over(pattern, text, at) THEN at ELSE f[Turn(pattern, text, at)]
           Loop(f)  == f = [at \in S |-> Goes(f, at)]
           Turns(f) == f = [at \in S |-> Turned(f, at)]
<1>2. ASSUME NEW f PROVE Loop(f) <=> Turns(f)
  <2>1. ASSUME NEW at \in S PROVE Goes(f, at) = Turned(f, at)
    BY DEF Over, Turn, Takes, Wild
  <2> HIDE DEF S, Goes, Turned
  <2>2. [at \in S |-> Goes(f, at)] = [at \in S |-> Turned(f, at)]
    BY <2>1
  <2> QED
    BY <2>2
<1> HIDE DEF Loop
<1>3. \E f : Turns(f)
  <2>1. turn \in [S \ O -> S]
    <3>1. ASSUME NEW at \in S, ~ Over(pattern, text, at) PROVE Turn(pattern, text, at) \in S
      BY <1>0, <3>1, TurnStays
    <3> HIDE DEF S
    <3> QED
      BY <3>1
  <2>2. PICK f : Loops(S, O, turn, f)
    <3>1. O \in SUBSET S
      OBVIOUS
    <3> HIDE DEF S, O, turn
    <3> QED
      BY <2>1, <3>1, LoopExists
  <2>3. ASSUME NEW at \in S
        PROVE  (IF at \in O THEN at ELSE f[turn[at]])
                  = IF Over(pattern, text, at) THEN at ELSE f[Turn(pattern, text, at)]
    <3> HIDE DEF S
    <3> QED
      OBVIOUS
  <2>4. f = [at \in S |-> IF at \in O THEN at ELSE f[turn[at]]]
    BY <2>2 DEF Loops
  <2>5. Turns(f)
    <3> HIDE DEF S, O, turn
    <3> QED
      BY <2>3, <2>4
  <2> QED
    BY <2>5
<1>4. PICK loop : loop = CHOOSE f : Loop(f)
  OBVIOUS
<1>5. Turns(loop)
  <2> HIDE DEF Turns
  <2>1. \E f : Loop(f)
    BY <1>2, <1>3
  <2>2. Loop(CHOOSE f : Loop(f))
    BY <2>1
  <2> QED
    BY <1>2, <1>4, <2>2
<1>6. start \in S /\ Sound(pattern, start)
  <2>1. 1 \in 1..P + 1 /\ 1 \in 1..T + 1 /\ 0 \in 0..P + 1 /\ 0 \in 0..T + 1 /\ 0 <= 1
    OBVIOUS
  <2>2. start \in S
    BY <1>1, <2>1, SpotRule
  <2> QED
    BY <2>2 DEF Sound, Level
<1>7. Won(pattern, text, loop[start]) <=> Hope(pattern, text, start)
  <2> HIDE DEF start
  <2> QED
    BY <1>0, <1>5, <1>6, HopeEnds
<1>8. Hope(pattern, text, start) <=> Rest(pattern, text, 1, 1)
  BY DEF Hope
<1>9. Rest(pattern, text, 1, 1) <=> Glob(pattern, text)
  <2>1. 1 - 1 = 0
    OBVIOUS
  <2> QED
    BY <1>1, <2>1 DEF Rest, Glob, Piece
<1>10. GlobMatches(pattern, text) <=> Won(pattern, text, loop[start])
  BY <1>4 DEF GlobMatches, Won, Loop
<1> QED
  BY <1>7, <1>8, <1>9, <1>10

-----------------------------------------------------------------------------
(* The client that pages.                                                  *)

LEMMA KeptType ==
    ASSUME NEW S, NEW s \in Seq(S), NEW I \in SUBSET (1..Len(s))
    PROVE  Kept(s, I) \in Seq(S)
<1>1. PICK n \in Nat : n = Len(s)
  OBVIOUS
<1>2. PICK at : at = Ascending(I)
  OBVIOUS
<1>3. at \in Seq(I)
  BY <1>1, <1>2, AscendingRule
<1>4. \A i \in 1..Len(at) : s[at[i]] \in S
  <2>1. \A i \in 1..Len(at) : at[i] \in I
    BY <1>3
  <2>2. \A k \in I : k \in 1..Len(s)
    OBVIOUS
  <2>3. \A k \in 1..Len(s) : s[k] \in S
    OBVIOUS
  <2> QED
    BY <2>1, <2>2, <2>3
<1>5. Kept(s, I) = [i \in 1..Len(at) |-> s[at[i]]]
  BY <1>2, <1>3 DEF Kept
<1>6. Len(at) \in Nat
  BY <1>3
<1> QED
  BY <1>4, <1>5, <1>6

\* What systemd lists: units of the table under their names.
Rows == [name : {NameOf[x] : x \in ToSet(Table)}, state : ShownState]

LEMMA ListingsType == \A all \in Listings : all \in Seq(Rows)
<1> SUFFICES ASSUME NEW all \in Listings PROVE all \in Seq(Rows)
  OBVIOUS
<1>1. PICK shown \in [ToSet(Table) -> ShownState] :
         all = LET known == Kept(Table, {i \in DOMAIN Table : shown[Table[i]] # "unknown"})
               IN  [i \in 1..Len(known) |-> [name |-> NameOf[known[i]], state |-> shown[known[i]]]]
  BY DEF Listings
<1>2. PICK known : known = Kept(Table, {i \in DOMAIN Table : shown[Table[i]] # "unknown"})
  OBVIOUS
<1>3. known \in Seq(ToSet(Table))
  <2>1. Table \in Seq(ToSet(Table)) /\ DOMAIN Table = 1..Len(Table)
    BY TextAssumption
  <2>2. {i \in DOMAIN Table : shown[Table[i]] # "unknown"} \in SUBSET (1..Len(Table))
    BY <2>1
  <2> QED
    BY <1>2, <2>1, <2>2, KeptType
<1>4. all = [i \in 1..Len(known) |-> [name |-> NameOf[known[i]], state |-> shown[known[i]]]]
  BY <1>1, <1>2
<1>5. \A i \in 1..Len(known) : known[i] \in ToSet(Table)
  BY <1>3
<1>6. \A i \in 1..Len(known) : [name |-> NameOf[known[i]], state |-> shown[known[i]]] \in Rows
  BY <1>1, <1>5 DEF Rows
<1>7. Len(known) \in Nat
  BY <1>3
<1> QED
  BY <1>4, <1>6, <1>7

\* The list that the client pages through.
Selection(l) == ListFilter(l.all, l.state, l.glob)

\* As long as systemd's answer is the same, the client has what comes before its cursor.
PagesOf(l) ==
    /\ l.page \in Nat \cup {NoPage} /\ l.all \in Seq(Rows)
    /\ l.pc = "idle" => l.page = NoPage
    /\ l.pc # "end" /\ l.page = NoPage => l.got = << >>
    /\ l.pc = "list" /\ l.page # NoPage /\ l.steady =>
          l.page <= Len(Selection(l)) /\ l.got = SubSeq(Selection(l), 1, l.page)
    /\ l.pc = "end" /\ l.steady => l.got = Selection(l)

ListerInv == PagesOf(lister)

LEMMA SelectionType ==
    ASSUME NEW all \in Seq(Rows), NEW state, NEW glob
    PROVE  ListFilter(all, state, glob) \in Seq(Rows)
<1>1. DOMAIN all = 1..Len(all)
  OBVIOUS
<1> QED
  BY <1>1, KeptType DEF ListFilter

LEMMA PageCut ==
    ASSUME NEW S, NEW items \in Seq(S), NEW n \in Nat, n <= Len(items)
    PROVE  LET cut == Paginate(items, n, PAGE_SIZE) IN
           /\ cut.next = NoPage => SubSeq(items, 1, n) \o cut.page = items
           /\ cut.next # NoPage => /\ cut.next \in Nat /\ cut.next <= Len(items)
                                   /\ SubSeq(items, 1, n) \o cut.page = SubSeq(items, 1, cut.next)
<1>0. PICK cut, got : cut = Paginate(items, n, PAGE_SIZE) /\ got = SubSeq(items, 1, n)
  OBVIOUS
<1>1. PICK len \in Nat, size \in Nat : len = Len(items) /\ size = PAGE_SIZE
  BY ServicesAssumption
<1>2. PICK end \in n..len : end = IF n + size < len THEN n + size ELSE len
  <2>1. (IF n + size < len THEN n + size ELSE len) \in n..len
    BY <1>1
  <2> QED
    BY <2>1
<1>3. (IF n < Len(items) THEN n ELSE Len(items)) = n
  BY <1>1
<1>4. cut = [page |-> SubSeq(items, n + 1, end), next |-> IF end < len THEN end ELSE NoPage]
  BY <1>0, <1>1, <1>2, <1>3 DEF Paginate
<1>5. got \o SubSeq(items, n + 1, end) = SubSeq(items, 1, end)
  <2>1. 1 \in 1..Len(items) + 1 /\ n \in 1 - 1..Len(items) /\ end \in n..Len(items)
    BY <1>1, <1>2
  <2> QED
    BY <1>0, <2>1, ConcatAdjacentSubSeq
<1>6. end = len => SubSeq(items, 1, end) = items
  BY <1>1, SubSeqFull
<1>7. cut.page = SubSeq(items, n + 1, end) /\ cut.next = IF end < len THEN end ELSE NoPage
  BY <1>4
<1>8. end \in Nat /\ end <= Len(items) /\ end # NoPage /\ (end < len \/ end = len)
  BY <1>1, <1>2 DEF NoPage
<1>9. CASE end < len
  BY <1>0, <1>5, <1>7, <1>8, <1>9
<1>10. CASE end = len
  <2>1. cut.next = NoPage
    BY <1>1, <1>7, <1>10
  <2> QED
    BY <1>0, <1>5, <1>6, <1>7, <1>10, <2>1
<1> QED
  BY <1>8, <1>9, <1>10

LEMMA ListerPages ==
    ASSUME ListerInv, Lister, Shape
    PROVE  ListerInv'
<1>1. \A l : PagesOf(l) => l.page \in Nat \cup {NoPage} /\ l.all \in Seq(Rows)
  BY DEF PagesOf
<1>2. ASSUME NEW glob, NEW state, ListRequest(glob, state) PROVE ListerInv'
  <2>1. /\ lister.pc = "idle" /\ lister'.pc = "list" /\ lister'.page = lister.page
        /\ lister'.got = lister.got /\ lister'.all = lister.all
    BY <1>2 DEF ListRequest, Shape
  <2> QED
    BY <2>1 DEF ListerInv, PagesOf
<1>3. CASE ListFails
  <2>1. /\ lister.pc = "list" /\ lister'.pc = "end" /\ lister'.page = lister.page
        /\ lister'.all = lister.all /\ lister'.steady = FALSE
    BY <1>3 DEF ListFails, Shape
  <2> QED
    BY <2>1 DEF ListerInv, PagesOf
<1>4. CASE ListPage
  <2>1. PICK all \in Listings :
           LET cut == Paginate(ListFilter(all, lister.state, lister.glob),
                               CursorToIdx(lister.page), PAGE_SIZE)
           IN  lister' = [lister EXCEPT
                   !.got = @ \o cut.page, !.page = cut.next,
                   !.pc = IF cut.next = NoPage THEN "end" ELSE "list",
                   !.all = IF lister.page = NoPage THEN all ELSE @,
                   !.steady = lister.page = NoPage \/ (@ /\ all = lister.all)]
    BY <1>4 DEF ListPage
  <2>2. PICK cut : cut = Paginate(ListFilter(all, lister.state, lister.glob),
                                   CursorToIdx(lister.page), PAGE_SIZE)
    OBVIOUS
  <2>3. /\ lister'.got = lister.got \o cut.page /\ lister'.page = cut.next
        /\ lister'.pc = IF cut.next = NoPage THEN "end" ELSE "list"
        /\ lister'.all = IF lister.page = NoPage THEN all ELSE lister.all
        /\ lister'.steady => lister.page = NoPage \/ (lister.steady /\ all = lister.all)
        /\ lister'.glob = lister.glob /\ lister'.state = lister.state
    BY <2>1, <2>2 DEF Shape
  <2>4. lister.pc = "list" /\ PagesOf(lister) /\ all \in Seq(Rows)
    BY <1>4, <2>1, ListingsType DEF ListPage, ListerInv
  <2>5. lister'.all \in Seq(Rows)
    BY <1>1, <2>3, <2>4
  <2>6. PICK items \in Seq(Rows) : items = ListFilter(all, lister.state, lister.glob)
    BY <2>4, SelectionType
  <2>7. PICK n \in Nat : n = CursorToIdx(lister.page) /\ (lister.page # NoPage => n = lister.page)
    <3>1. lister.page \in Nat \cup {NoPage}
      BY <1>1, <2>4
    <3> QED
      BY <3>1 DEF CursorToIdx, NoPage
  <2>8. cut = Paginate(items, n, PAGE_SIZE)
    BY <2>2, <2>6, <2>7
  <2>9. lister'.steady => Selection(lister)' = items
    BY <2>3, <2>6 DEF Selection
  <2>10. lister'.steady => n <= Len(items) /\ lister.got = SubSeq(items, 1, n)
    <3>1. CASE lister.page = NoPage
      <4>1. n = 0
        BY <2>7, <3>1 DEF CursorToIdx, NoPage
      <4>2. lister.got = << >>
        BY <2>4, <3>1 DEF PagesOf
      <4>3. SubSeq(items, 1, 0) = << >>
        BY SubSeqEmpty
      <4>4. Len(items) \in Nat
        BY <2>6
      <4> QED
        BY <4>1, <4>2, <4>3, <4>4
    <3>2. CASE lister.page # NoPage
      BY <2>3, <2>4, <2>6, <2>7, <3>2 DEF PagesOf, Selection
    <3> QED
      BY <3>1, <3>2
  <2>11. cut.next \in Nat \cup {NoPage}
    <3>1. Len(items) \in Nat /\ PAGE_SIZE \in Nat
      BY <2>6, ServicesAssumption
    <3> QED
      BY <2>8, <3>1 DEF Paginate
  <2>12. lister'.steady =>
            /\ cut.next = NoPage => lister.got \o cut.page = items
            /\ cut.next # NoPage => /\ cut.next <= Len(items)
                                    /\ lister.got \o cut.page = SubSeq(items, 1, cut.next)
    <3> SUFFICES ASSUME lister'.steady
                 PROVE  /\ cut.next = NoPage => lister.got \o cut.page = items
                        /\ cut.next # NoPage =>
                              /\ cut.next <= Len(items)
                              /\ lister.got \o cut.page = SubSeq(items, 1, cut.next)
      OBVIOUS
    <3>1. n <= Len(items) /\ lister.got = SubSeq(items, 1, n)
      BY <2>10
    <3>2. /\ cut.next = NoPage => SubSeq(items, 1, n) \o cut.page = items
          /\ cut.next # NoPage => /\ cut.next \in Nat /\ cut.next <= Len(items)
                                  /\ SubSeq(items, 1, n) \o cut.page = SubSeq(items, 1, cut.next)
      <4>1. items \in Seq(Rows) /\ n \in Nat
        BY <2>6, <2>7
      <4> QED
        BY <2>8, <3>1, <4>1, PageCut
    <3> QED
      BY <3>1, <3>2
  <2>13. CASE cut.next = NoPage
    <3>1. lister'.pc = "end"
      BY <2>3, <2>13
    <3> QED
      BY <2>3, <2>5, <2>9, <2>11, <2>12, <2>13, <3>1 DEF ListerInv, PagesOf
  <2>14. CASE cut.next # NoPage
    <3>1. lister'.pc = "list"
      BY <2>3, <2>14
    <3> QED
      BY <2>3, <2>5, <2>9, <2>11, <2>12, <2>14, <3>1 DEF ListerInv, PagesOf
  <2> QED
    BY <2>13, <2>14
<1> QED
  BY <1>2, <1>3, <1>4 DEF Lister

LEMMA OnlyListerPages == [Next]_vars => Lister \/ UNCHANGED lister
<1>1. ASSUME NEW u \in Units,
             UnitChanges(u) \/ (\E r \in Ends : JobEnds(u, r)) \/ (\E v \in Verbs : ForeignJob(u, v))
      PROVE  UNCHANGED lister
  BY <1>1 DEF UnitChanges, JobEnds, ForeignJob
<1>2. ASSUME NEW c \in Callers, Caller(c) PROVE UNCHANGED lister
  BY <1>2 DEF Caller, Request, Refused, Subscribe, Submit, Reply, CallFails, Consume, StreamEnds,
              Query, WaitTimeout, Timeout
<1>3. CASE Watch \/ StatusPump \/ StatusPumpPanics
  BY <1>3 DEF Watch, TakeSignal, FetchState, SendStatus, WatchEnds, StatusPump, StatusPumpPanics
<1>4. CASE BusLost \/ Finished \/ UNCHANGED vars
  BY <1>4 DEF BusLost, Finished, vars
<1> QED
  BY <1>1, <1>2, <1>3, <1>4 DEF Next

LEMMA PagesInit == Init => ListerInv
<1> SUFFICES ASSUME Init PROVE ListerInv
  OBVIOUS
<1>1. /\ lister.page = NoPage /\ lister.all = << >> /\ lister.pc = "idle" /\ lister.got = << >>
  BY DEF Init, InitLister
<1>2. << >> \in Seq(Rows)
  OBVIOUS
<1> QED
  BY <1>1, <1>2 DEF ListerInv, PagesOf

LEMMA PagesStep == ListerInv /\ ServicesInv /\ [Next]_vars => ListerInv'
<1> SUFFICES ASSUME ListerInv, ServicesInv, [Next]_vars PROVE ListerInv'
  OBVIOUS
<1>1. CASE Lister
  BY <1>1, ListerPages DEF ServicesInv
<1>2. CASE UNCHANGED lister
  BY <1>2 DEF ListerInv
<1> QED
  BY <1>1, <1>2, OnlyListerPages

LEMMA TextsType ==
    ASSUME NEW chars, NEW n \in Nat, NEW x \in Texts(chars, n)
    PROVE  x \in Seq(chars)
<1>1. PICK k \in 0..n : x \in [1..k -> chars]
  BY DEF Texts
<1> QED
  BY <1>1

LEMMA Matcher == GlobAgrees
<1> SUFFICES ASSUME NEW pattern \in Texts({"a", "b", "?", "*"}, 4), NEW text \in Texts({"a", "b"}, 4)
             PROVE  GlobMatches(pattern, text) <=> Glob(pattern, text)
  BY DEF GlobAgrees
<1> DEFINE C == {"a", "b", "?", "*"}
           D == {"a", "b"}
<1>1. pattern \in Seq(C) /\ text \in Seq(D)
  BY TextsType
<1>2. text \in Seq(C)
  BY <1>1
<1>3. "*" \notin ToSet(text)
  BY <1>1 DEF ToSet
<1> QED
  <2> HIDE DEF C
  <2> QED
    BY <1>1, <1>2, <1>3, GlobIsRight

\* A client that pages through the list of units with its cursors to the end has, if
\* systemd answered the same each time, what list_filter is to select: every unit of the
\* state and the glob once and in order, whatever the size of a page.
THEOREM PagesAreTheList == Spec => []PagesTellTheList
<1>1. ServicesInv /\ ListerInv => PagesTellTheList
  <2> SUFFICES ASSUME ServicesInv, ListerInv, lister.pc = "end", lister.steady
               PROVE  lister.got = Kept(lister.all, {i \in DOMAIN lister.all :
                          /\ lister.glob # << >> => Glob(lister.glob[1], lister.all[i].name)
                          /\ lister.state # AnyState => lister.state = lister.all[i].state})
    BY Matcher DEF PagesTellTheList
  <2>1. lister.all \in Seq(Rows) /\ lister.got = Selection(lister)
    BY DEF ListerInv, PagesOf
  <2>2. lister.glob \in Globs
    BY DEF ServicesInv, TypeOK
  <2>3. ASSUME NEW i \in DOMAIN lister.all, lister.glob # << >>
        PROVE  GlobMatches(lister.glob[1], lister.all[i].name)
                  <=> Glob(lister.glob[1], lister.all[i].name)
    <3>1. lister.all[i] \in Rows
      BY <2>1
    <3>2. PICK x \in ToSet(Table) : lister.all[i].name = NameOf[x]
      BY <3>1 DEF Rows
    <3>3. PICK text : text = NameOf[x] /\ text \in Seq(STRING) /\ "*" \notin ToSet(text)
      BY TextAssumption
    <3>5. lister.glob[1] \in Seq(STRING)
      <4>1. lister.glob \in Seq(Seq(STRING)) /\ 1 \in 1..Len(lister.glob)
        BY <2>2, <2>3, TextAssumption
      <4> QED
        BY <4>1
    <3> QED
      BY <3>2, <3>3, <3>5, GlobIsRight
  <2>4. {i \in DOMAIN lister.all :
             /\ lister.state # AnyState => lister.all[i].state = lister.state
             /\ lister.glob # << >> => GlobMatches(lister.glob[1], lister.all[i].name)}
        = {i \in DOMAIN lister.all :
             /\ lister.glob # << >> => Glob(lister.glob[1], lister.all[i].name)
             /\ lister.state # AnyState => lister.state = lister.all[i].state}
    BY <2>3
  <2> QED
    BY <2>1, <2>4 DEF Selection, ListFilter
<1> QED
  BY <1>1, Invariance, PagesInit, PagesStep, PTL DEF Spec
=============================================================================
