---------------------------- MODULE DaemonProofs ----------------------------
(***************************************************************************)
(* Proofs about AuditQueue and Daemon: the pipeline keeps and accounts for *)
(* every event, in order, and flushes at the stop; the process uses it     *)
(* only as AuditQueue allows; and READY is told by a daemon that serves.   *)
(***************************************************************************)
EXTENDS Daemon, FiniteSetTheorems, SequenceTheorems, TLAPS

-----------------------------------------------------------------------------
(* Sequences of entries: the numbers of the events in them and how many    *)
(* events they stand for.                                                  *)

\* Everything that a sequence of the pipeline may hold.
Entries == [kind : {"event", "loss", "shutdown"}, n : Nat]

\* What Told counts, and what one entry adds to it.
Units(s, kind)  == UNION {{i} \X StandsFor(s[i]) : i \in Of(s, kind)}
Weight(m, kind) == IF m.kind # kind THEN 0 ELSE IF IsEvent(m) THEN 1 ELSE m.n

\* An event stands for one, itself; a loss for as many as it says.
LEMMA StandsForFinite ==
    ASSUME NEW m \in Entries
    PROVE  IsFiniteSet(StandsFor(m)) /\ Cardinality(StandsFor(m)) = IF IsEvent(m) THEN 1 ELSE m.n
<1>1. m.n \in Nat
  BY DEF Entries
<1>2. IsFiniteSet({m.n}) /\ Cardinality({m.n}) = 1
  BY FS_Singleton
<1>3. IsFiniteSet(1..m.n) /\ Cardinality(1..m.n) = m.n
  <2>1. 1 \in Int /\ m.n \in Int
    BY <1>1
  <2>2. IsFiniteSet(1..m.n) /\ Cardinality(1..m.n) = IF 1 > m.n THEN 0 ELSE m.n - 1 + 1
    BY <2>1, FS_Interval
  <2> QED
    BY <1>1, <2>2
<1> QED
  BY <1>2, <1>3 DEF StandsFor

\* What Told counts, spelt out.
LEMMA UnitsAre ==
    ASSUME NEW s \in Seq(Entries), NEW kind
    PROVE  \A u : u \in Units(s, kind) <=>
              \E i \in 1..Len(s) : s[i].kind = kind /\ \E d \in StandsFor(s[i]) : u = <<i, d>>
BY DEF Units, Of

\* It is finite, so what is told of is a number.
LEMMA UnitsFinite ==
    ASSUME NEW s \in Seq(Entries), NEW kind
    PROVE  IsFiniteSet(Units(s, kind)) /\ Told(s, kind) = Cardinality(Units(s, kind))
           /\ Told(s, kind) \in Nat
<1> DEFINE O == Of(s, kind)
           f == [i \in O |-> {i} \X StandsFor(s[i])]
           S == {{i} \X StandsFor(s[i]) : i \in O}
<1>1. IsFiniteSet(1..Len(s))
  BY FS_Interval
<1>2. O \in SUBSET (1..Len(s))
  BY DEF Of
<1>3. IsFiniteSet(O)
  BY <1>1, <1>2, FS_Subset
<1>4. f \in Surjection(O, S)
  BY DEF Surjection
<1>5. IsFiniteSet(S)
  <2> HIDE DEF f, S, O
  <2> QED BY <1>3, <1>4, FS_Surjection
<1>6. ASSUME NEW T \in S PROVE IsFiniteSet(T)
  <2>1. PICK i \in O : T = {i} \X StandsFor(s[i])
    OBVIOUS
  <2>2. s[i] \in Entries
    BY <1>2
  <2>3. IsFiniteSet({i}) /\ IsFiniteSet(StandsFor(s[i]))
    BY <2>2, StandsForFinite, FS_Singleton
  <2> QED
    BY <2>1, <2>3, FS_Product
<1>7. IsFiniteSet(UNION S)
  <2> HIDE DEF S
  <2> QED BY <1>5, <1>6, FS_UNION
<1> QED
  BY <1>7, FS_CardinalityType DEF Units, Told

\* What two sequences tell of adds up.
LEMMA ToldConcat ==
    ASSUME NEW s \in Seq(Entries), NEW t \in Seq(Entries), NEW kind
    PROVE  Told(s \o t, kind) = Told(s, kind) + Told(t, kind)
<1> DEFINE A == Units(s, kind)
           B == Units(t, kind)
           C == {<<u[1] + Len(s), u[2]>> : u \in B}
           f == [u \in B |-> <<u[1] + Len(s), u[2]>>]
<1>0. s \o t \in Seq(Entries) /\ Len(s \o t) = Len(s) + Len(t)
      /\ \A i \in 1..Len(s) + Len(t) : (s \o t)[i] = IF i <= Len(s) THEN s[i] ELSE t[i - Len(s)]
  BY ConcatProperties
<1>1. Units(s \o t, kind) = A \cup C
  <2>1. ASSUME NEW u \in Units(s \o t, kind) PROVE u \in A \cup C
    <3>0. u \in Units(s \o t, kind) <=>
             \E i \in 1..Len(s \o t) :
                (s \o t)[i].kind = kind /\ \E d \in StandsFor((s \o t)[i]) : u = <<i, d>>
      BY <1>0 DEF Units, Of
    <3>1. PICK i \in 1..Len(s) + Len(t) :
             (s \o t)[i].kind = kind /\ \E d \in StandsFor((s \o t)[i]) : u = <<i, d>>
      BY <1>0, <3>0
    <3>2. PICK d \in StandsFor((s \o t)[i]) : u = <<i, d>>
      BY <3>1
    <3>3. CASE i <= Len(s)
      BY <3>1, <3>2, <3>3, <1>0, UnitsAre
    <3>4. CASE ~ (i <= Len(s))
      <4>1. i - Len(s) \in 1..Len(t) /\ (s \o t)[i] = t[i - Len(s)]
        BY <3>4, <1>0
      <4>2. <<i - Len(s), d>> \in B
        BY <4>1, <3>1, <3>2, UnitsAre
      <4>3. u = << <<i - Len(s), d>>[1] + Len(s), <<i - Len(s), d>>[2] >>
        BY <3>2
      <4> QED
        BY <4>2, <4>3
    <3> QED
      BY <3>3, <3>4
  <2>2. ASSUME NEW u \in A PROVE u \in Units(s \o t, kind)
    <3>1a. PICK i \in 1..Len(s) : \E d \in StandsFor(s[i]) : s[i].kind = kind /\ u = <<i, d>>
      BY UnitsAre
    <3>1. PICK d \in StandsFor(s[i]) : s[i].kind = kind /\ u = <<i, d>>
      BY <3>1a
    <3>2. i \in 1..Len(s) + Len(t) /\ (s \o t)[i] = s[i]
      BY <1>0
    <3> QED
      BY <3>1, <3>2, <1>0, UnitsAre
  <2>3. ASSUME NEW u \in C PROVE u \in Units(s \o t, kind)
    <3>1. PICK v \in B : u = <<v[1] + Len(s), v[2]>>
      OBVIOUS
    <3>2a. PICK i \in 1..Len(t) : \E d \in StandsFor(t[i]) : t[i].kind = kind /\ v = <<i, d>>
      BY UnitsAre
    <3>2. PICK d \in StandsFor(t[i]) : t[i].kind = kind /\ v = <<i, d>>
      BY <3>2a
    <3>3. i + Len(s) \in 1..Len(s) + Len(t) /\ (s \o t)[i + Len(s)] = t[i]
      BY <1>0
    <3>4. u = <<i + Len(s), d>>
      BY <3>1, <3>2
    <3> QED
      BY <3>2, <3>3, <3>4, <1>0, UnitsAre
  <2> QED
    BY <2>1, <2>2, <2>3
<1>2. A \cap C = {}
  <2> SUFFICES ASSUME NEW u \in A, u \in C PROVE FALSE
    OBVIOUS
  <2>1a. PICK i \in 1..Len(s) : \E d \in StandsFor(s[i]) : u = <<i, d>>
    BY UnitsAre
  <2>1. PICK d \in StandsFor(s[i]) : u = <<i, d>>
    BY <2>1a
  <2>2. PICK v \in B : u = <<v[1] + Len(s), v[2]>>
    OBVIOUS
  <2>3a. PICK j \in 1..Len(t) : \E e \in StandsFor(t[j]) : v = <<j, e>>
    BY UnitsAre
  <2>3. PICK e \in StandsFor(t[j]) : v = <<j, e>>
    BY <2>3a
  <2>4. i = j + Len(s)
    BY <2>1, <2>2, <2>3
  <2> QED
    BY <2>4
<1>3. IsFiniteSet(B) /\ IsFiniteSet(A)
  BY UnitsFinite
<1>4. f \in Bijection(B, C)
  <2>1. f \in Surjection(B, C)
    BY DEF Surjection
  <2>2. ASSUME NEW u \in B, NEW v \in B, f[u] = f[v] PROVE u = v
    <3>1a. PICK i \in 1..Len(t) : \E d \in StandsFor(t[i]) : u = <<i, d>>
      BY UnitsAre
    <3>1. PICK d \in StandsFor(t[i]) : u = <<i, d>>
      BY <3>1a
    <3>2a. PICK j \in 1..Len(t) : \E e \in StandsFor(t[j]) : v = <<j, e>>
      BY UnitsAre
    <3>2. PICK e \in StandsFor(t[j]) : v = <<j, e>>
      BY <3>2a
    <3>3. <<i + Len(s), d>> = <<j + Len(s), e>>
      BY <2>2, <3>1, <3>2
    <3> QED
      BY <3>1, <3>2, <3>3
  <2> HIDE DEF B, C, f
  <2> QED
    BY <2>1, <2>2 DEF Bijection, Injection, Surjection, IsInjective
<1>5. IsFiniteSet(C) /\ Cardinality(C) = Cardinality(B)
  <2>1. ExistsBijection(B, C)
    BY <1>4 DEF ExistsBijection
  <2> HIDE DEF B, C
  <2> QED
    BY <2>1, <1>3, FS_Bijection
<1>6. Cardinality(A \cup C) = Cardinality(A) + Cardinality(C)
  <2> HIDE DEF A, C
  <2>1. Cardinality(A \cap C) = 0
    BY <1>2, FS_EmptySet
  <2>2. Cardinality(A) \in Nat /\ Cardinality(C) \in Nat
    BY <1>3, <1>5, FS_CardinalityType
  <2>3. Cardinality(A \cup C) = Cardinality(A) + Cardinality(C) - Cardinality(A \cap C)
    BY <1>3, <1>5, FS_Union, Zenon
  <2> QED
    BY <2>1, <2>2, <2>3
<1> QED
  BY <1>0, <1>1, <1>5, <1>6, UnitsFinite

\* What one entry tells of.
LEMMA ToldOne ==
    ASSUME NEW m \in Entries, NEW kind
    PROVE  Told(<<m>>, kind) = Weight(m, kind) /\ Told(<< >>, kind) = 0
<1>1. <<m>> \in Seq(Entries) /\ << >> \in Seq(Entries) /\ Len(<<m>>) = 1 /\ <<m>>[1] = m /\ Len(<< >>) = 0
  OBVIOUS
<1>2. Units(<< >>, kind) = {}
  BY DEF Units, Of
<1>3. ASSUME m.kind # kind PROVE Units(<<m>>, kind) = {}
  <2>1. Of(<<m>>, kind) = {}
    BY <1>1, <1>3 DEF Of
  <2> QED
    BY <2>1 DEF Units
<1>4. ASSUME m.kind = kind PROVE Units(<<m>>, kind) = {1} \X StandsFor(m)
  <2>1. \A i \in 1..Len(<<m>>) : i = 1 /\ <<m>>[i] = m
    OBVIOUS
  <2>2. Of(<<m>>, kind) = {1}
    BY <2>1, <1>1, <1>4 DEF Of
  <2>3. {{i} \X StandsFor(<<m>>[i]) : i \in {1}} = {{1} \X StandsFor(m)}
    BY <1>1
  <2> QED
    BY <2>2, <2>3 DEF Units
<1>5. Cardinality({1} \X StandsFor(m)) = IF IsEvent(m) THEN 1 ELSE m.n
  <2>1. IsFiniteSet({1}) /\ Cardinality({1}) = 1
    BY FS_Singleton
  <2>2. m.n \in Nat
    BY DEF Entries
  <2> QED
    BY <2>1, <2>2, StandsForFinite, FS_Product
<1> QED
  BY <1>1, <1>2, <1>3, <1>4, <1>5, UnitsFinite, FS_EmptySet DEF Weight

\* All of a is older than all of b.
Below(a, b) == \A x \in a, y \in b : x < y

\* One sequence behind the other is in order when each is and every event of the
\* first is older.
LEMMA EventsConcat ==
    ASSUME NEW s \in Seq(Entries), NEW t \in Seq(Entries)
    PROVE  /\ EventsIn(s \o t) = EventsIn(s) \cup EventsIn(t)
           /\ Ordered(s \o t) <=> Ordered(s) /\ Ordered(t) /\ Below(EventsIn(s), EventsIn(t))
<1>0. /\ s \o t \in Seq(Entries) /\ Len(s \o t) = Len(s) + Len(t)
      /\ DOMAIN (s \o t) = 1..Len(s) + Len(t) /\ DOMAIN s = 1..Len(s) /\ DOMAIN t = 1..Len(t)
      /\ Len(s) \in Nat /\ Len(t) \in Nat
  BY ConcatProperties, LenProperties
<1>1. \A i \in DOMAIN s : i \in DOMAIN (s \o t) /\ (s \o t)[i] = s[i]
  BY <1>0, ConcatProperties
<1>2. \A i \in DOMAIN t : i + Len(s) \in DOMAIN (s \o t) /\ (s \o t)[i + Len(s)] = t[i]
  BY <1>0, ConcatProperties
<1>3. \A i \in DOMAIN (s \o t) : i \in DOMAIN s \/ (i - Len(s) \in DOMAIN t /\ i = (i - Len(s)) + Len(s))
  BY <1>0
<1>4. EventsIn(s \o t) = EventsIn(s) \cup EventsIn(t)
  <2>1. ASSUME NEW i \in DOMAIN (s \o t), IsEvent((s \o t)[i])
        PROVE  (s \o t)[i].n \in EventsIn(s) \cup EventsIn(t)
    <3>1. CASE i \in DOMAIN s
      BY <2>1, <3>1, <1>1 DEF EventsIn
    <3>2. CASE i - Len(s) \in DOMAIN t /\ i = (i - Len(s)) + Len(s)
      <4>1. (s \o t)[i] = t[i - Len(s)]
        BY <3>2, <1>2
      <4> QED
        BY <2>1, <3>2, <4>1 DEF EventsIn
    <3> QED
      BY <3>1, <3>2, <1>3
  <2>2. ASSUME NEW i \in DOMAIN s, IsEvent(s[i]) PROVE s[i].n \in EventsIn(s \o t)
    BY <2>2, <1>1 DEF EventsIn
  <2>3. ASSUME NEW i \in DOMAIN t, IsEvent(t[i]) PROVE t[i].n \in EventsIn(s \o t)
    BY <2>3, <1>2 DEF EventsIn
  <2> QED
    BY <2>1, <2>2, <2>3 DEF EventsIn
<1>5. ASSUME Ordered(s \o t) PROVE Ordered(s)
  BY <1>1, <1>5 DEF Ordered
<1>6. ASSUME Ordered(s \o t) PROVE Ordered(t)
  <2> SUFFICES ASSUME NEW i \in DOMAIN t, NEW j \in DOMAIN t, i < j, IsEvent(t[i]), IsEvent(t[j])
               PROVE  t[i].n < t[j].n
    BY DEF Ordered
  <2>1. i + Len(s) < j + Len(s)
    BY <1>0
  <2> QED
    BY <1>2, <1>6, <2>1 DEF Ordered
<1>7. ASSUME Ordered(s \o t) PROVE Below(EventsIn(s), EventsIn(t))
  <2> SUFFICES ASSUME NEW i \in DOMAIN s, NEW j \in DOMAIN t, IsEvent(s[i]), IsEvent(t[j])
               PROVE  s[i].n < t[j].n
    BY DEF Below, EventsIn
  <2>1. i < j + Len(s)
    BY <1>0
  <2> QED
    BY <1>1, <1>2, <1>7, <2>1 DEF Ordered
<1>8. ASSUME Ordered(s), Ordered(t), Below(EventsIn(s), EventsIn(t)) PROVE Ordered(s \o t)
  <2> SUFFICES ASSUME NEW i \in DOMAIN (s \o t), NEW j \in DOMAIN (s \o t), i < j,
                      IsEvent((s \o t)[i]), IsEvent((s \o t)[j])
               PROVE  (s \o t)[i].n < (s \o t)[j].n
    BY DEF Ordered
  <2>1. CASE j \in DOMAIN s
    <3>1. i \in DOMAIN s
      BY <1>0, <2>1
    <3> QED
      BY <1>1, <1>8, <2>1, <3>1 DEF Ordered
  <2>2. CASE i \notin DOMAIN s
    <3>1. j \notin DOMAIN s
      BY <1>0, <2>2
    <3>2. /\ i - Len(s) \in DOMAIN t /\ j - Len(s) \in DOMAIN t /\ i - Len(s) < j - Len(s)
          /\ (s \o t)[i] = t[i - Len(s)] /\ (s \o t)[j] = t[j - Len(s)]
      BY <1>0, <1>2, <1>3, <2>2, <3>1
    <3> QED
      BY <1>8, <3>2 DEF Ordered
  <2>3. CASE i \in DOMAIN s /\ j \notin DOMAIN s
    <3>1. /\ j - Len(s) \in DOMAIN t
          /\ (s \o t)[i] = s[i] /\ (s \o t)[j] = t[j - Len(s)]
      BY <1>0, <1>1, <1>2, <1>3, <2>3
    <3>2. s[i].n \in EventsIn(s) /\ t[j - Len(s)].n \in EventsIn(t)
      BY <2>3, <3>1 DEF EventsIn
    <3> QED
      BY <1>8, <3>1, <3>2 DEF Below
  <2> QED
    BY <2>1, <2>2, <2>3
<1> QED
  BY <1>4, <1>5, <1>6, <1>7, <1>8

\* The counts of one entry: its event, the losses it tells of, both.
EventOf(m) == IF IsEvent(m) THEN {m.n} ELSE {}
LostOf(m)  == IF m.kind = "loss" THEN m.n ELSE 0
AllOf(m)   == IF IsEvent(m) THEN 1 ELSE LostOf(m)

\* The events that the entries of s stand for, written or lost.
All(s) == Told(s, "event") + Lost(s)

\* The counts are numbers.
LEMMA CountsNat ==
    ASSUME NEW s \in Seq(Entries)
    PROVE  All(s) \in Nat /\ Lost(s) \in Nat
BY UnitsFinite DEF All, Lost

\* Nothing counts nothing.
LEMMA EmptyCounts == EventsIn(<< >>) = {} /\ All(<< >>) = 0 /\ Lost(<< >>) = 0 /\ Ordered(<< >>)
<1>1. Event(0) \in Entries
  BY DEF Event, Entries
<1>2. Told(<< >>, "event") = 0 /\ Told(<< >>, "loss") = 0
  BY <1>1, ToldOne
<1> QED
  BY <1>2 DEF EventsIn, All, Lost, Ordered

\* The counts of one entry.
LEMMA OneCounts ==
    ASSUME NEW m \in Entries
    PROVE  /\ <<m>> \in Seq(Entries) /\ EventsIn(<<m>>) = EventOf(m) /\ Ordered(<<m>>)
           /\ All(<<m>>) = AllOf(m) /\ Lost(<<m>>) = LostOf(m)
<1>1. <<m>> \in Seq(Entries) /\ DOMAIN <<m>> = {1} /\ <<m>>[1] = m
  OBVIOUS
<1>2. EventsIn(<<m>>) = EventOf(m)
  BY <1>1 DEF EventsIn, EventOf
<1>3. Ordered(<<m>>)
  BY <1>1 DEF Ordered
<1>4. Lost(<<m>>) = LostOf(m)
  BY ToldOne DEF Lost, LostOf, Weight, IsEvent
<1>5. Told(<<m>>, "event") = IF IsEvent(m) THEN 1 ELSE 0
  BY ToldOne DEF Weight, IsEvent
<1>6. m.n \in Nat
  BY DEF Entries
<1> QED
  BY <1>1, <1>2, <1>3, <1>4, <1>5, <1>6 DEF All, AllOf, LostOf, IsEvent

\* The counts add up.
LEMMA ConcatCounts ==
    ASSUME NEW s \in Seq(Entries), NEW t \in Seq(Entries)
    PROVE  All(s \o t) = All(s) + All(t) /\ Lost(s \o t) = Lost(s) + Lost(t)
<1>1. Told(s \o t, "event") = Told(s, "event") + Told(t, "event")
      /\ Told(s \o t, "loss") = Told(s, "loss") + Told(t, "loss")
  BY ToldConcat
<1>2. Told(s, "event") \in Nat /\ Told(t, "event") \in Nat /\ Told(s, "loss") \in Nat /\ Told(t, "loss") \in Nat
  BY UnitsFinite
<1> QED
  BY <1>1, <1>2 DEF All, Lost

\* A new entry at the end.
LEMMA Appended ==
    ASSUME NEW s \in Seq(Entries), NEW m \in Entries
    PROVE  /\ EventsIn(Append(s, m)) = EventsIn(s) \cup EventOf(m)
           /\ Ordered(Append(s, m)) <=> Ordered(s) /\ Below(EventsIn(s), EventOf(m))
           /\ All(Append(s, m)) = All(s) + AllOf(m) /\ Lost(Append(s, m)) = Lost(s) + LostOf(m)
<1>1. Append(s, m) = s \o <<m>>
  BY AppendIsConcat
<1>2. <<m>> \in Seq(Entries) /\ EventsIn(<<m>>) = EventOf(m) /\ Ordered(<<m>>)
      /\ All(<<m>>) = AllOf(m) /\ Lost(<<m>>) = LostOf(m)
  BY OneCounts
<1>3. /\ EventsIn(s \o <<m>>) = EventsIn(s) \cup EventOf(m)
      /\ Ordered(s \o <<m>>) <=> Ordered(s) /\ Below(EventsIn(s), EventOf(m))
  BY <1>2, EventsConcat
<1>4. All(s \o <<m>>) = All(s) + AllOf(m) /\ Lost(s \o <<m>>) = Lost(s) + LostOf(m)
  BY <1>2, ConcatCounts
<1> QED
  BY <1>1, <1>3, <1>4

\* The head taken off.
LEMMA Popped ==
    ASSUME NEW s \in Seq(Entries), s # << >>
    PROVE  /\ Head(s) \in Entries /\ Tail(s) \in Seq(Entries)
           /\ EventsIn(s) = EventOf(Head(s)) \cup EventsIn(Tail(s))
           /\ Ordered(s) <=> Ordered(Tail(s)) /\ Below(EventOf(Head(s)), EventsIn(Tail(s)))
           /\ All(s) = AllOf(Head(s)) + All(Tail(s)) /\ Lost(s) = LostOf(Head(s)) + Lost(Tail(s))
<1>1. Head(s) \in Entries /\ Tail(s) \in Seq(Entries)
  BY HeadTailProperties
<1>2. Len(s) \in Nat \ {0}
  BY EmptySeq
<1>3. SubSeq(s, 1, 1) \o SubSeq(s, 2, Len(s)) = SubSeq(s, 1, Len(s))
  <2>1. 1 \in 1..Len(s) + 1 /\ 1 \in (1 - 1)..Len(s) /\ Len(s) \in 1..Len(s) /\ 1 + 1 = 2
    BY <1>2
  <2>2. SubSeq(s, 1, 1) \o SubSeq(s, 1 + 1, Len(s)) = SubSeq(s, 1, Len(s))
    BY <2>1, ConcatAdjacentSubSeq
  <2> QED
    BY <2>1, <2>2
<1>4. SubSeq(s, 1, 1) = <<Head(s)>>
  <2>1. /\ SubSeq(s, 1, 1) \in Seq(Entries) /\ Len(SubSeq(s, 1, 1)) = 1
        /\ SubSeq(s, 1, 1)[1] = s[1]
    <3>1. \A i \in 1..1 : s[i] \in Entries
      BY <1>2, ElementOfSeq
    <3> QED
      BY <3>1, SubSeqProperties
  <2>2. Head(s) = s[1]
    BY <1>2
  <2>3. <<Head(s)>> \in Seq(Entries) /\ Len(<<Head(s)>>) = 1 /\ <<Head(s)>>[1] = Head(s)
    BY <1>1
  <2>4. \A i \in 1..Len(SubSeq(s, 1, 1)) : SubSeq(s, 1, 1)[i] = <<Head(s)>>[i]
    BY <2>1, <2>2, <2>3
  <2>5. Len(SubSeq(s, 1, 1)) = Len(<<Head(s)>>)
    BY <2>1, <2>3
  <2>6. \A u \in Seq(Entries), v \in Seq(Entries) :
           Len(u) = Len(v) /\ (\A i \in 1..Len(u) : u[i] = v[i]) => u = v
    BY SeqEqual
  <2> QED
    BY <2>1, <2>3, <2>4, <2>5, <2>6
<1>5. s = <<Head(s)>> \o Tail(s)
  BY <1>3, <1>4, TailIsSubSeq, SubSeqFull
<1>6. <<Head(s)>> \in Seq(Entries) /\ EventsIn(<<Head(s)>>) = EventOf(Head(s)) /\ Ordered(<<Head(s)>>)
      /\ All(<<Head(s)>>) = AllOf(Head(s)) /\ Lost(<<Head(s)>>) = LostOf(Head(s))
  BY <1>1, OneCounts
<1>7. /\ EventsIn(<<Head(s)>> \o Tail(s)) = EventOf(Head(s)) \cup EventsIn(Tail(s))
      /\ Ordered(<<Head(s)>> \o Tail(s)) <=>
            Ordered(Tail(s)) /\ Below(EventOf(Head(s)), EventsIn(Tail(s)))
  <2>1. /\ EventsIn(<<Head(s)>> \o Tail(s)) = EventsIn(<<Head(s)>>) \cup EventsIn(Tail(s))
        /\ Ordered(<<Head(s)>> \o Tail(s)) <=>
              /\ Ordered(<<Head(s)>>) /\ Ordered(Tail(s))
              /\ Below(EventsIn(<<Head(s)>>), EventsIn(Tail(s)))
    BY <1>1, <1>6, EventsConcat, Zenon
  <2> QED
    BY <1>6, <2>1
<1>8. /\ All(<<Head(s)>> \o Tail(s)) = AllOf(Head(s)) + All(Tail(s))
      /\ Lost(<<Head(s)>> \o Tail(s)) = LostOf(Head(s)) + Lost(Tail(s))
  BY <1>1, <1>6, ConcatCounts
<1> QED
  BY <1>1, <1>5, <1>7, <1>8

\* A batch of which a prefix is written.
LEMMA CutCounts ==
    ASSUME NEW s \in Seq(Entries), NEW n \in 0..Len(s)
    PROVE  LET a == SubSeq(s, 1, n)
               b == SubSeq(s, n + 1, Len(s))
           IN /\ a \in Seq(Entries) /\ b \in Seq(Entries)
              /\ EventsIn(s) = EventsIn(a) \cup EventsIn(b)
              /\ Ordered(s) => Ordered(a)
              /\ All(s) = All(a) + All(b) /\ Lost(s) = Lost(a) + Lost(b)
<1> DEFINE a == SubSeq(s, 1, n)
           b == SubSeq(s, n + 1, Len(s))
<1>1. Len(s) \in Nat /\ \A i \in 1..Len(s) : s[i] \in Entries
  BY LenProperties, ElementOfSeq
<1>2. a \in Seq(Entries) /\ b \in Seq(Entries)
  BY <1>1, SubSeqProperties
<1>3. a \o b = s
  <2>1. 1 \in 1..Len(s) + 1 /\ n \in (1 - 1)..Len(s) /\ Len(s) \in n..Len(s)
    BY <1>1
  <2>2. a \o b = SubSeq(s, 1, Len(s))
    BY <2>1, ConcatAdjacentSubSeq
  <2> QED
    BY <2>2, SubSeqFull
<1> HIDE DEF a, b
<1>4. EventsIn(a \o b) = EventsIn(a) \cup EventsIn(b) /\ (Ordered(a \o b) => Ordered(a))
  BY <1>2, EventsConcat
<1>5. All(a \o b) = All(a) + All(b) /\ Lost(a \o b) = Lost(a) + Lost(b)
  BY <1>2, ConcatCounts
<1> QED
  BY <1>2, <1>3, <1>4, <1>5 DEF a, b

\* Every entry of s is an event.
OnlyEvents(s) == \A i \in DOMAIN s : IsEvent(s[i])

\* No event of D comes after something else in s.
NoneAfterStop(s, D) ==
    \A i, j \in DOMAIN s : i < j /\ ~ IsEvent(s[i]) /\ IsEvent(s[j]) => s[j].n \notin D

\* The events that left the queue, and how many events losses out of it tell of.
Gone     == EventsIn(written) \cup EventsIn(batch) \cup EventsIn(vanished)
GoneLost == Lost(written) + Lost(batch) + Lost(vanished)

\* The writer has left its loop, or will after this batch.
Ending == stopping \/ pc \in {"drain", "final", "last", "exited"}

\* The invariant.  Its parts: types; the accounts; the order; what is true
\* before the stop request; what happens to the events promised to it; and what
\* happens to the drops promised to it.
QueueTypes == TypeOK /\ IsFiniteSet(refused)

\* Each part of the pipeline is in order, and the parts are.
OrderInv ==
    /\ Ordered(written) /\ Ordered(batch) /\ Ordered(queue)
    /\ Below(EventsIn(written), EventsIn(batch))
    /\ Below(EventsIn(written), EventsIn(queue))
    /\ Below(EventsIn(batch), EventsIn(queue))
    /\ EventsIn(written) \cup EventsIn(batch) \cup EventsIn(queue) \subseteq 1..emitted

\* Without a stop request in it there are only events in the queue, and the
\* writer ends only when it has the request or every sink is gone.
AskedInv ==
    /\ asked = "no" => promised = [events |-> {}, drops |-> 0, upto |-> 0]
    /\ asked # "queued" => OnlyEvents(queue)
    /\ stopping => asked = "queued"
    /\ Ending => asked = "queued" \/ (~ sinks /\ queue = << >>)

\* Nor does an event emitted before shutdown() stand behind the request: what is
\* left in the queue when the writer leaves its loop was emitted later.
UptoInv ==
    /\ promised.upto <= emitted
    /\ NoneAfterStop(queue, 1..promised.upto)
    /\ Ending => (1..promised.upto) \cap EventsIn(queue) = {}

\* A promised event never stands behind the stop request, so it has left the
\* queue when the writer leaves its loop.
EventsInv ==
    /\ promised.events \subseteq Gone \cup EventsIn(queue)
    /\ promised.events \subseteq 1..emitted
    /\ NoneAfterStop(queue, promised.events)
    /\ Ending => promised.events \subseteq Gone

\* Promised drops are in loss records or still counted; the last swap leaves
\* none in the counter.  A writer without a file has thrown an event away, or will,
\* if anything was ever dropped: only a full queue refuses.
DropsInv ==
    /\ promised.drops <= GoneLost + dropped
    /\ pc = "last" => promised.drops <= GoneLost
    /\ pc = "exited" => batch = << >> /\ (promised.drops <= GoneLost \/ vanished # << >>)
    /\ pc \in {"start", "disabled"} =>
          /\ written = << >> /\ batch = << >>
          /\ promised.drops > 0 \/ (asked = "no" /\ (dropped > 0 \/ refused # {})) =>
                EventsIn(queue) # {} \/ vanished # << >>

\* The events that the pipeline and what vanished stand for.
Kept == All(written) + All(batch) + All(queue) + All(vanished)

\* Every event emitted stands somewhere.
Accounted == emitted = Kept + dropped + Cardinality(refused)

QueueInv ==
    QueueTypes /\ Accounted /\ OrderInv /\ AskedInv /\ EventsInv /\ UptoInv /\ DropsInv

\* What the lemmas on sequences ask for.
SeqTypes ==
    /\ written \in Seq(Entries) /\ batch \in Seq(Entries)
    /\ queue \in Seq(Entries) /\ vanished \in Seq(Entries)

\* What the four sequences hold are entries.
LEMMA SeqsAreEntries ==
    QueueTypes => /\ SeqTypes
                  /\ \A m \in Messages : /\ m \in Entries /\ m.n \in 0..MaxEvents
                                         /\ m.kind \in {"event", "shutdown"}
                  /\ \A m \in Records : m \in Entries
<1>1. MaxEvents \in Nat
  BY QueueAssumption
<1>2. Messages \subseteq Entries /\ Records \subseteq Entries
  BY <1>1 DEF Messages, Records, Entries
<1>3. ASSUME QueueTypes PROVE SeqTypes
  <2>1. queue \in Seq(Messages) /\ written \in Seq(Records) /\ batch \in Seq(Records) /\ vanished \in Seq(Records)
    BY <1>3 DEF QueueTypes, TypeOK
  <2> QED
    BY <1>2, <2>1, SeqMonotonic DEF SeqTypes
<1>4. \A m \in Messages : m.n \in 0..MaxEvents /\ m.kind \in {"event", "shutdown"}
  BY DEF Messages
<1> QED
  BY <1>2, <1>3, <1>4

\* What follows a message taken off is not after the stop for that.
LEMMA StopPopped ==
    ASSUME NEW s \in Seq(Entries), s # << >>, NEW D
    PROVE  /\ NoneAfterStop(s, D) => NoneAfterStop(Tail(s), D)
           /\ NoneAfterStop(s, D) /\ ~ IsEvent(Head(s)) => D \cap EventsIn(Tail(s)) = {}
           /\ OnlyEvents(s) => IsEvent(Head(s)) /\ OnlyEvents(Tail(s)) /\ EventsIn(s) # {}
<1>1. /\ Len(s) \in Nat \ {0} /\ Len(Tail(s)) = Len(s) - 1
      /\ DOMAIN s = 1..Len(s) /\ DOMAIN Tail(s) = 1..Len(Tail(s)) /\ Head(s) = s[1]
      /\ \A i \in 1..Len(Tail(s)) : Tail(s)[i] = s[i + 1]
  BY EmptySeq, HeadTailProperties, LenProperties
<1>2. \A i \in DOMAIN Tail(s) : i + 1 \in DOMAIN s /\ 1 < i + 1 /\ Tail(s)[i] = s[i + 1]
  BY <1>1
<1>3. \A i, j \in DOMAIN Tail(s) : i < j => i + 1 < j + 1
  BY <1>1
<1>4. 1 \in DOMAIN s
  BY <1>1
<1>5. ASSUME NoneAfterStop(s, D) PROVE NoneAfterStop(Tail(s), D)
  BY <1>2, <1>3, <1>5 DEF NoneAfterStop
<1>6. ASSUME NoneAfterStop(s, D), ~ IsEvent(Head(s)) PROVE D \cap EventsIn(Tail(s)) = {}
  <2> SUFFICES ASSUME NEW i \in DOMAIN Tail(s), IsEvent(Tail(s)[i]) PROVE Tail(s)[i].n \notin D
    BY DEF EventsIn
  <2> QED
    BY <1>1, <1>2, <1>4, <1>6 DEF NoneAfterStop
<1>7. ASSUME OnlyEvents(s) PROVE IsEvent(Head(s)) /\ OnlyEvents(Tail(s)) /\ EventsIn(s) # {}
  <2>1. IsEvent(s[1])
    BY <1>4, <1>7 DEF OnlyEvents
  <2>2. s[1].n \in EventsIn(s)
    BY <1>4, <2>1 DEF EventsIn
  <2> QED
    BY <1>1, <1>2, <1>7, <2>1, <2>2 DEF OnlyEvents
<1> QED
  BY <1>5, <1>6, <1>7

\* The stop request goes behind everything; an event after it is not promised.
LEMMA StopAppended ==
    ASSUME NEW s \in Seq(Entries), NEW m \in Entries, NEW D
    PROVE  /\ NoneAfterStop(s, D) /\ (~ IsEvent(m) \/ m.n \notin D) => NoneAfterStop(Append(s, m), D)
           /\ OnlyEvents(s) /\ IsEvent(m) => OnlyEvents(Append(s, m))
           /\ OnlyEvents(s) => NoneAfterStop(s, D)
<1>1. /\ DOMAIN s = 1..Len(s) /\ DOMAIN Append(s, m) = 1..Len(s) + 1 /\ Len(s) \in Nat
      /\ \A i \in 1..Len(s) : Append(s, m)[i] = s[i]
      /\ Append(s, m)[Len(s) + 1] = m
  BY AppendProperties, LenProperties
<1>2. ASSUME NoneAfterStop(s, D), ~ IsEvent(m) \/ m.n \notin D PROVE NoneAfterStop(Append(s, m), D)
  <2> SUFFICES ASSUME NEW i \in 1..Len(s) + 1, NEW j \in 1..Len(s) + 1, i < j,
                      ~ IsEvent(Append(s, m)[i]), IsEvent(Append(s, m)[j])
               PROVE  Append(s, m)[j].n \notin D
    BY <1>1 DEF NoneAfterStop
  <2>1. i \in 1..Len(s) /\ (j \in 1..Len(s) \/ j = Len(s) + 1)
    BY <1>1
  <2> QED
    BY <1>1, <1>2, <2>1 DEF NoneAfterStop
<1>3. ASSUME OnlyEvents(s), IsEvent(m) PROVE OnlyEvents(Append(s, m))
  BY <1>1, <1>3 DEF OnlyEvents
<1>4. OnlyEvents(s) => NoneAfterStop(s, D)
  BY DEF OnlyEvents, NoneAfterStop
<1> QED
  BY <1>2, <1>3, <1>4

\* The invariant holds at the start.
LEMMA QueueInit == Init => QueueInv
<1> SUFFICES ASSUME Init PROVE QueueInv
  OBVIOUS
<1>1. MaxEvents \in Nat /\ Capacity \in Nat
  BY QueueAssumption
<1>2. IsFiniteSet({}) /\ Cardinality({}) = 0
  BY FS_EmptySet
<1>3. OnlyEvents(<< >>) /\ NoneAfterStop(<< >>, {})
  BY DEF OnlyEvents, NoneAfterStop
<1>4. QueueTypes
  <2>1. queue \in Seq(Messages) /\ batch \in Seq(Records) /\ written \in Seq(Records)
        /\ vanished \in Seq(Records) /\ Len(queue) <= Capacity
    BY <1>1, EmptySeq DEF Init
  <2>2. /\ promised.events \in SUBSET (1..MaxEvents)
        /\ promised.drops \in 0..MaxEvents /\ promised.upto \in 0..MaxEvents
    BY <1>1 DEF Init
  <2>3. dropped \in 0..MaxEvents /\ emitted \in 0..MaxEvents
    BY <1>1 DEF Init
  <2>4. /\ refused \subseteq Producers /\ sinks \in BOOLEAN /\ stopping \in BOOLEAN
        /\ pc = "start" /\ asked = "no" /\ IsFiniteSet(refused)
    BY <1>2 DEF Init
  <2> QED
    BY <2>1, <2>2, <2>3, <2>4 DEF QueueTypes, TypeOK
<1>5. Kept = 0 /\ GoneLost = 0
  BY EmptyCounts DEF Init, Kept, GoneLost
<1>6. Accounted
  BY <1>2, <1>5 DEF Init, Accounted
<1>7. OrderInv
  BY EmptyCounts DEF Init, OrderInv, Below
<1>8. AskedInv /\ EventsInv
  BY <1>3 DEF Init, AskedInv, EventsInv, Ending
<1>9. DropsInv
  BY <1>5 DEF Init, DropsInv
<1>10. UptoInv
  BY EmptyCounts DEF Init, UptoInv, NoneAfterStop
<1> QED
  BY <1>4, <1>6, <1>7, <1>8, <1>9, <1>10 DEF QueueInv

\* The tallies are numbers.
Tallies ==
    /\ Kept \in Nat /\ GoneLost \in Nat /\ promised.drops \in Nat
    /\ dropped \in Nat /\ emitted \in Nat /\ Cardinality(refused) \in Nat
    /\ promised.upto \in Nat

\* The invariant types them.
LEMMA TalliesTyped == QueueInv => SeqTypes /\ Tallies
<1> SUFFICES ASSUME QueueInv PROVE SeqTypes /\ Tallies
  OBVIOUS
<1>1. QueueTypes /\ TypeOK /\ IsFiniteSet(refused)
  BY DEF QueueInv, QueueTypes
<1>2. SeqTypes
  BY <1>1, SeqsAreEntries
<1>3. /\ All(written) \in Nat /\ All(batch) \in Nat /\ All(queue) \in Nat /\ All(vanished) \in Nat
      /\ Lost(written) \in Nat /\ Lost(batch) \in Nat /\ Lost(vanished) \in Nat
  BY <1>2, CountsNat DEF SeqTypes
<1>4. Kept \in Nat /\ GoneLost \in Nat
  BY <1>3 DEF Kept, GoneLost
<1>5. Cardinality(refused) \in Nat
  BY <1>1, FS_CardinalityType
<1>6. dropped \in Nat /\ emitted \in Nat /\ promised.drops \in Nat /\ promised.upto \in Nat
  BY <1>1, QueueAssumption DEF TypeOK
<1> QED
  BY <1>2, <1>4, <1>5, <1>6 DEF Tallies

\* A loss stands for events too.
LEMMA LossesKept == SeqTypes => GoneLost <= Kept
<1> SUFFICES ASSUME SeqTypes PROVE GoneLost <= Kept
  OBVIOUS
<1>1. /\ All(written) \in Nat /\ Lost(written) \in Nat /\ Lost(written) <= All(written)
      /\ All(batch) \in Nat /\ Lost(batch) \in Nat /\ Lost(batch) <= All(batch)
      /\ All(vanished) \in Nat /\ Lost(vanished) \in Nat /\ Lost(vanished) <= All(vanished)
      /\ All(queue) \in Nat
  <2>1. \A s \in Seq(Entries) : Told(s, "event") \in Nat /\ Told(s, "loss") \in Nat
    BY UnitsFinite
  <2>2. \A s \in Seq(Entries) : All(s) \in Nat /\ Lost(s) \in Nat /\ Lost(s) <= All(s)
    BY <2>1 DEF All, Lost
  <2> QED
    BY <2>2 DEF SeqTypes
<1> QED
  BY <1>1 DEF GoneLost, Kept

-----------------------------------------------------------------------------
(* What each way to move an entry does to the tallies.                     *)

\* Nothing is moved.
LEMMA NothingMoves ==
    ASSUME UNCHANGED <<written, batch, queue, vanished>>
    PROVE  Kept' = Kept /\ GoneLost' = GoneLost /\ Gone' = Gone /\ (SeqTypes => SeqTypes')
BY DEF Kept, GoneLost, Gone, SeqTypes

\* A message enters the queue.
LEMMA Enqueued ==
    ASSUME SeqTypes, NEW m \in Entries,
           queue' = Append(queue, m), UNCHANGED <<written, batch, vanished>>
    PROVE  /\ Kept' = Kept + AllOf(m) /\ GoneLost' = GoneLost /\ Gone' = Gone
           /\ EventsIn(queue') = EventsIn(queue) \cup EventOf(m)
           /\ Ordered(queue') <=> Ordered(queue) /\ Below(EventsIn(queue), EventOf(m))
<1> All(written) \in Nat /\ All(batch) \in Nat
  BY CountsNat DEF SeqTypes
<1> All(queue) \in Nat /\ All(vanished) \in Nat
  BY CountsNat DEF SeqTypes
<1> AllOf(m) \in Nat
  BY DEF AllOf, LostOf, Entries
<1>1. All(queue') = All(queue) + AllOf(m)
  BY Appended DEF SeqTypes
<1>2. Kept' = Kept + AllOf(m)
  BY <1>1 DEF Kept
<1>3. GoneLost' = GoneLost /\ Gone' = Gone
  BY DEF GoneLost, Gone
<1>4. /\ EventsIn(queue') = EventsIn(queue) \cup EventOf(m)
      /\ Ordered(queue') <=> Ordered(queue) /\ Below(EventsIn(queue), EventOf(m))
  BY Appended DEF SeqTypes
<1> QED
  BY <1>2, <1>3, <1>4

\* The writer takes an event off the queue.
LEMMA Taken ==
    ASSUME SeqTypes, queue # << >>, IsEvent(Head(queue)),
           queue' = Tail(queue), batch' = Append(batch, Head(queue)), UNCHANGED <<written, vanished>>
    PROVE  /\ Kept' = Kept /\ GoneLost' = GoneLost /\ Gone' = Gone \cup {Head(queue).n}
           /\ EventsIn(queue) = EventsIn(queue') \cup {Head(queue).n}
           /\ EventsIn(batch') = EventsIn(batch) \cup {Head(queue).n}
           /\ Ordered(queue) <=> Ordered(queue') /\ Below({Head(queue).n}, EventsIn(queue'))
           /\ Ordered(batch') <=> Ordered(batch) /\ Below(EventsIn(batch), {Head(queue).n})
<1> All(written) \in Nat /\ All(batch) \in Nat
  BY CountsNat DEF SeqTypes
<1> All(queue) \in Nat /\ All(vanished) \in Nat
  BY CountsNat DEF SeqTypes
<1> Lost(written) \in Nat /\ Lost(batch) \in Nat
  BY CountsNat DEF SeqTypes
<1> Lost(vanished) \in Nat
  BY CountsNat DEF SeqTypes
<1>1. /\ Head(queue) \in Entries /\ Tail(queue) \in Seq(Entries)
      /\ EventsIn(queue) = EventOf(Head(queue)) \cup EventsIn(Tail(queue))
      /\ Ordered(queue) <=> Ordered(Tail(queue)) /\ Below(EventOf(Head(queue)), EventsIn(Tail(queue)))
      /\ All(queue) = AllOf(Head(queue)) + All(Tail(queue))
  BY Popped DEF SeqTypes
<1>2. EventOf(Head(queue)) = {Head(queue).n} /\ AllOf(Head(queue)) = 1 /\ LostOf(Head(queue)) = 0
  BY DEF EventOf, AllOf, LostOf, IsEvent
<1>3. /\ EventsIn(batch') = EventsIn(batch) \cup EventOf(Head(queue))
      /\ Ordered(batch') <=> Ordered(batch) /\ Below(EventsIn(batch), EventOf(Head(queue)))
      /\ All(batch') = All(batch) + AllOf(Head(queue)) /\ Lost(batch') = Lost(batch) + LostOf(Head(queue))
  BY <1>1, Appended DEF SeqTypes
<1>4. All(Tail(queue)) \in Nat
  BY <1>1, CountsNat
<1>5. All(queue) = 1 + All(queue')
  BY <1>1, <1>2
<1>6. All(batch') = All(batch) + 1 /\ Lost(batch') = Lost(batch)
  BY <1>2, <1>3
<1>7. Kept' = Kept
  BY <1>4, <1>5, <1>6 DEF Kept
<1>8. GoneLost' = GoneLost
  BY <1>6 DEF GoneLost
<1>9. Gone' = Gone \cup {Head(queue).n}
  BY <1>2, <1>3 DEF Gone
<1> QED
  BY <1>1, <1>2, <1>3, <1>7, <1>8, <1>9

\* A writer without a file throws an event away.
LEMMA Thrown ==
    ASSUME SeqTypes, queue # << >>, IsEvent(Head(queue)),
           queue' = Tail(queue), vanished' = Append(vanished, Head(queue)), UNCHANGED <<written, batch>>
    PROVE  /\ Kept' = Kept /\ GoneLost' = GoneLost /\ Gone' = Gone \cup {Head(queue).n}
           /\ EventsIn(queue) = EventsIn(queue') \cup {Head(queue).n}
           /\ Ordered(queue) => Ordered(queue')
<1> All(written) \in Nat /\ All(batch) \in Nat
  BY CountsNat DEF SeqTypes
<1> All(queue) \in Nat /\ All(vanished) \in Nat
  BY CountsNat DEF SeqTypes
<1> Lost(written) \in Nat /\ Lost(batch) \in Nat
  BY CountsNat DEF SeqTypes
<1> Lost(vanished) \in Nat
  BY CountsNat DEF SeqTypes
<1>1. /\ Head(queue) \in Entries /\ Tail(queue) \in Seq(Entries)
      /\ EventsIn(queue) = EventOf(Head(queue)) \cup EventsIn(Tail(queue))
      /\ Ordered(queue) => Ordered(Tail(queue))
      /\ All(queue) = AllOf(Head(queue)) + All(Tail(queue))
  BY Popped DEF SeqTypes
<1>2. EventOf(Head(queue)) = {Head(queue).n} /\ AllOf(Head(queue)) = 1 /\ LostOf(Head(queue)) = 0
  BY DEF EventOf, AllOf, LostOf, IsEvent
<1>3. /\ EventsIn(vanished') = EventsIn(vanished) \cup EventOf(Head(queue))
      /\ All(vanished') = All(vanished) + AllOf(Head(queue))
      /\ Lost(vanished') = Lost(vanished) + LostOf(Head(queue))
  BY <1>1, Appended DEF SeqTypes
<1>4. All(Tail(queue)) \in Nat
  BY <1>1, CountsNat
<1>5. All(queue) = 1 + All(queue')
  BY <1>1, <1>2
<1>6. All(vanished') = All(vanished) + 1 /\ Lost(vanished') = Lost(vanished)
  BY <1>2, <1>3
<1>7. Kept' = Kept
  BY <1>4, <1>5, <1>6 DEF Kept
<1>8. GoneLost' = GoneLost
  BY <1>6 DEF GoneLost
<1>9. Gone' = Gone \cup {Head(queue).n}
  BY <1>2, <1>3 DEF Gone
<1> QED
  BY <1>1, <1>2, <1>7, <1>8, <1>9

\* The stop request is taken off the queue.
LEMMA Skipped ==
    ASSUME SeqTypes, queue # << >>, Head(queue).kind = "shutdown",
           queue' = Tail(queue), UNCHANGED <<written, batch, vanished>>
    PROVE  /\ Kept' = Kept /\ GoneLost' = GoneLost /\ Gone' = Gone
           /\ EventsIn(queue') = EventsIn(queue)
           /\ Ordered(queue) => Ordered(queue')
<1>1. /\ Tail(queue) \in Seq(Entries)
      /\ EventsIn(queue) = EventOf(Head(queue)) \cup EventsIn(Tail(queue))
      /\ Ordered(queue) => Ordered(Tail(queue))
      /\ All(queue) = AllOf(Head(queue)) + All(Tail(queue))
  BY Popped DEF SeqTypes
<1>2. EventOf(Head(queue)) = {} /\ AllOf(Head(queue)) = 0
  BY DEF EventOf, AllOf, LostOf, IsEvent
<1>3. All(Tail(queue)) \in Nat
  BY <1>1, CountsNat
<1>4. All(queue) = All(queue')
  BY <1>1, <1>2, <1>3
<1>5. Kept' = Kept
  BY <1>4 DEF Kept
<1>6. GoneLost' = GoneLost /\ Gone' = Gone
  BY DEF GoneLost, Gone
<1> QED
  BY <1>1, <1>2, <1>5, <1>6

\* The counter becomes a loss record of the batch, if it is not zero.
LEMMA Noted ==
    ASSUME SeqTypes, dropped \in Nat, UNCHANGED <<queue, written, vanished>>,
           batch' = IF dropped > 0 THEN Append(batch, Loss(dropped)) ELSE batch
    PROVE  /\ Kept' = Kept + dropped /\ GoneLost' = GoneLost + dropped /\ Gone' = Gone
           /\ EventsIn(batch') = EventsIn(batch) /\ (Ordered(batch) => Ordered(batch'))
<1> All(written) \in Nat /\ All(batch) \in Nat
  BY CountsNat DEF SeqTypes
<1> All(queue) \in Nat /\ All(vanished) \in Nat
  BY CountsNat DEF SeqTypes
<1> Lost(written) \in Nat /\ Lost(batch) \in Nat
  BY CountsNat DEF SeqTypes
<1> Lost(vanished) \in Nat
  BY CountsNat DEF SeqTypes
<1>1. /\ Loss(dropped) \in Entries /\ EventOf(Loss(dropped)) = {}
      /\ AllOf(Loss(dropped)) = dropped /\ LostOf(Loss(dropped)) = dropped
  BY DEF Loss, Entries, EventOf, AllOf, LostOf, IsEvent
<1>2. /\ EventsIn(batch') = EventsIn(batch) /\ (Ordered(batch) => Ordered(batch'))
      /\ All(batch') = All(batch) + dropped /\ Lost(batch') = Lost(batch) + dropped
  <2>1. CASE dropped > 0
    <3>1. batch' = Append(batch, Loss(dropped))
      BY <2>1
    <3>0. batch \in Seq(Entries)
      BY DEF SeqTypes
    <3>2. LET m == Loss(dropped)
          IN /\ EventsIn(Append(batch, m)) = EventsIn(batch) \cup EventOf(m)
             /\ Ordered(Append(batch, m)) <=> Ordered(batch) /\ Below(EventsIn(batch), EventOf(m))
             /\ All(Append(batch, m)) = All(batch) + AllOf(m)
             /\ Lost(Append(batch, m)) = Lost(batch) + LostOf(m)
      BY <3>0, <1>1, Appended, Zenon
    <3> QED
      BY <3>1, <3>2, <1>1 DEF Below
  <2>2. CASE ~ (dropped > 0)
    <3>1. batch' = batch /\ dropped = 0
      BY <2>2
    <3> QED
      BY <3>1
  <2> QED
    BY <2>1, <2>2
<1>3. Kept' = Kept + dropped
  BY <1>2 DEF Kept
<1>4. GoneLost' = GoneLost + dropped
  BY <1>2 DEF GoneLost
<1>5. Gone' = Gone
  BY <1>2 DEF Gone
<1> QED
  BY <1>2, <1>3, <1>4, <1>5

\* A prefix of the batch is written and the rest is lost.
LEMMA Flushed ==
    ASSUME SeqTypes, NEW n \in 0..Len(batch), queue' = queue, batch' = << >>,
           written' = written \o SubSeq(batch, 1, n),
           vanished' = vanished \o SubSeq(batch, n + 1, Len(batch))
    PROVE  /\ Kept' = Kept /\ GoneLost' = GoneLost /\ Gone' = Gone
           /\ EventsIn(batch') = {} /\ Ordered(batch')
           /\ EventsIn(written') \subseteq EventsIn(written) \cup EventsIn(batch)
           /\ Ordered(written) /\ Ordered(batch) /\ Below(EventsIn(written), EventsIn(batch)) =>
                 Ordered(written')
<1> DEFINE a == SubSeq(batch, 1, n)
           b == SubSeq(batch, n + 1, Len(batch))
<1>1. /\ a \in Seq(Entries) /\ b \in Seq(Entries)
      /\ EventsIn(batch) = EventsIn(a) \cup EventsIn(b) /\ (Ordered(batch) => Ordered(a))
      /\ All(batch) = All(a) + All(b) /\ Lost(batch) = Lost(a) + Lost(b)
  BY CutCounts DEF SeqTypes
<1> HIDE DEF a, b
<1>2. written' = written \o a /\ vanished' = vanished \o b
  BY DEF a, b
<1>3. /\ EventsIn(written') = EventsIn(written) \cup EventsIn(a)
      /\ Ordered(written') <=> Ordered(written) /\ Ordered(a) /\ Below(EventsIn(written), EventsIn(a))
      /\ EventsIn(vanished') = EventsIn(vanished) \cup EventsIn(b)
  <2>1. /\ EventsIn(written \o a) = EventsIn(written) \cup EventsIn(a)
        /\ Ordered(written \o a) <=> Ordered(written) /\ Ordered(a) /\ Below(EventsIn(written), EventsIn(a))
    BY <1>1, EventsConcat DEF SeqTypes
  <2>2. EventsIn(vanished \o b) = EventsIn(vanished) \cup EventsIn(b)
    BY <1>1, EventsConcat DEF SeqTypes
  <2> QED
    BY <1>2, <2>1, <2>2
<1>4. /\ All(written') = All(written) + All(a) /\ Lost(written') = Lost(written) + Lost(a)
      /\ All(vanished') = All(vanished) + All(b) /\ Lost(vanished') = Lost(vanished) + Lost(b)
  <2>1. All(written \o a) = All(written) + All(a) /\ Lost(written \o a) = Lost(written) + Lost(a)
    BY <1>1, ConcatCounts DEF SeqTypes
  <2>2. All(vanished \o b) = All(vanished) + All(b) /\ Lost(vanished \o b) = Lost(vanished) + Lost(b)
    BY <1>1, ConcatCounts DEF SeqTypes
  <2> QED
    BY <1>2, <2>1, <2>2
<1>5. EventsIn(batch') = {} /\ All(batch') = 0 /\ Lost(batch') = 0 /\ Ordered(batch')
  BY EmptyCounts
<1>6. Kept' = Kept
  <2> All(written) \in Nat /\ All(a) \in Nat
    BY <1>1, CountsNat DEF SeqTypes
  <2> All(queue) \in Nat /\ All(b) \in Nat
    BY <1>1, CountsNat DEF SeqTypes
  <2> All(vanished) \in Nat /\ All(batch) \in Nat
    BY CountsNat DEF SeqTypes
  <2> QED
    BY <1>1, <1>4, <1>5 DEF Kept
<1>7. GoneLost' = GoneLost
  <2> Lost(written) \in Nat /\ Lost(a) \in Nat
    BY <1>1, CountsNat DEF SeqTypes
  <2> Lost(vanished) \in Nat /\ Lost(b) \in Nat
    BY <1>1, CountsNat DEF SeqTypes
  <2> QED
    BY <1>1, <1>4, <1>5 DEF GoneLost
<1>8. Gone' = Gone
  BY <1>1, <1>3, <1>5 DEF Gone
<1> QED
  BY <1>1, <1>3, <1>5, <1>6, <1>7, <1>8 DEF Below

-----------------------------------------------------------------------------
(* One lemma for each step.                                                *)

\* A request's event gets into the queue or makes its thread a refused one; the
\* latter happens only while the queue is full, and before the stop request
\* a full queue is full of events.
LEMMA EmitStep == ASSUME QueueInv, NEW p \in Producers, Emit(p) PROVE QueueInv'
<1> DEFINE e == Event(emitted + 1)
<1>1. SeqTypes /\ Tallies /\ QueueTypes /\ TypeOK
  BY TalliesTyped DEF QueueInv, QueueTypes
<1> emitted \in Nat /\ Kept \in Nat /\ dropped \in Nat /\ Cardinality(refused) \in Nat
  BY <1>1 DEF Tallies
<1>2. emitted' = emitted + 1 /\ emitted + 1 \in 1..MaxEvents
  BY <1>1, QueueAssumption DEF Emit, TypeOK
<1>3. UNCHANGED <<dropped, sinks, pc, batch, stopping, written, vanished, asked, promised>>
  BY DEF Emit, writerVars
<1>4. CASE HasRoom
  <2>1. queue' = Append(queue, e) /\ refused' = refused
    BY <1>4, <1>2 DEF Emit
  <2>2. e \in Entries /\ e \in Messages /\ IsEvent(e) /\ e.n = emitted + 1
        /\ EventOf(e) = {emitted + 1} /\ AllOf(e) = 1
    BY <1>2 DEF Event, Entries, Messages, IsEvent, EventOf, AllOf
  <2> HIDE DEF e
  <2>3. /\ Kept' = Kept + 1 /\ GoneLost' = GoneLost /\ Gone' = Gone
        /\ EventsIn(queue') = EventsIn(queue) \cup {emitted + 1}
        /\ Ordered(queue') <=> Ordered(queue) /\ Below(EventsIn(queue), {emitted + 1})
    <3>1. UNCHANGED <<written, batch, vanished>>
      BY <1>3
    <3> QED
      BY <2>1, <2>2, <3>1, <1>1, Enqueued
  <2>4. QueueTypes'
    <3>1. queue' \in Seq(Messages) /\ Len(queue') = Len(queue) + 1 /\ Len(queue) \in Nat
      BY <2>1, <2>2, <1>1, AppendProperties, LenProperties DEF TypeOK
    <3>2. Len(queue') <= Capacity
      BY <3>1, <1>4, QueueAssumption DEF HasRoom
    <3> QED
      BY <1>1, <1>2, <1>3, <2>1, <3>1, <3>2 DEF QueueTypes, TypeOK
  <2>5. Accounted'
    BY <1>2, <1>3, <2>1, <2>3 DEF QueueInv, Accounted
  <2>6. OrderInv'
    <3>1. \A x \in 1..emitted : x < emitted + 1 /\ x \in 1..(emitted + 1)
      OBVIOUS
    <3> QED
      BY <1>2, <1>3, <2>3, <3>1 DEF QueueInv, OrderInv, Below
  <2>7. AskedInv'
    <3>1. OnlyEvents(queue) => OnlyEvents(queue')
      BY <2>1, <2>2, <1>1, StopAppended DEF SeqTypes
    <3>2. sinks
      BY DEF Emit
    <3> QED
      BY <1>3, <3>1, <3>2 DEF QueueInv, AskedInv, Ending
  <2>8. EventsInv'
    <3>1. emitted + 1 \notin promised.events /\ promised.events \subseteq 1..(emitted + 1)
      BY DEF QueueInv, EventsInv
    <3>2. NoneAfterStop(queue', promised.events)
      BY <2>1, <2>2, <3>1, <1>1, StopAppended DEF QueueInv, EventsInv, SeqTypes
    <3> QED
      BY <1>2, <1>3, <2>3, <3>1, <3>2 DEF QueueInv, EventsInv, Ending
  <2>9. DropsInv'
    BY <1>3, <2>1, <2>3 DEF QueueInv, DropsInv
  <2>10. UptoInv'
    <3>1. promised.upto \in Nat /\ promised.upto <= emitted
      BY <1>1 DEF QueueInv, UptoInv, Tallies
    <3>2. emitted + 1 \notin 1..promised.upto
      BY <3>1
    <3>3. NoneAfterStop(queue', 1..promised.upto)
      BY <2>1, <2>2, <3>2, <1>1, StopAppended DEF QueueInv, UptoInv, SeqTypes
    <3>4. (1..promised.upto) \cap EventsIn(queue') = (1..promised.upto) \cap EventsIn(queue)
      BY <2>3, <3>2
    <3> QED
      BY <1>2, <1>3, <3>1, <3>3, <3>4 DEF QueueInv, UptoInv, Ending
  <2> QED
    BY <2>4, <2>5, <2>6, <2>7, <2>8, <2>9, <2>10 DEF QueueInv
<1>5. CASE ~ HasRoom
  <2>1. queue' = queue /\ refused' = refused \cup {p} /\ p \notin refused
    BY <1>5 DEF Emit
  <2>2. IsFiniteSet(refused') /\ Cardinality(refused') = Cardinality(refused) + 1
    BY <2>1, <1>1, FS_AddElement DEF QueueTypes
  <2>3. Kept' = Kept /\ GoneLost' = GoneLost /\ Gone' = Gone
    BY <1>3, <2>1, NothingMoves
  <2>4. QueueTypes'
    BY <1>1, <1>2, <1>3, <2>1, <2>2 DEF QueueTypes, TypeOK
  <2>5. Accounted'
    BY <1>2, <1>3, <2>2, <2>3 DEF QueueInv, Accounted
  <2>6. OrderInv' /\ EventsInv'
    <3>1. 1..emitted \subseteq 1..emitted'
      BY <1>2
    <3> QED
      BY <1>3, <2>1, <2>3, <3>1 DEF QueueInv, OrderInv, EventsInv, Ending
  <2>7. AskedInv'
    BY <1>3, <2>1 DEF QueueInv, AskedInv, Ending
  <2>9. UptoInv'
    BY <1>2, <1>3, <2>1, <1>1 DEF QueueInv, UptoInv, Ending, Tallies
  <2>8. DropsInv'
    <3>1. ASSUME pc # "exited", asked = "no" PROVE EventsIn(queue) # {}
      <4>1. Len(queue) # 0
        BY <1>5, <3>1, QueueAssumption DEF HasRoom
      <4>2. queue # << >>
        BY <4>1, EmptySeq
      <4> QED
        BY <4>2, <3>1, <1>1, StopPopped DEF SeqTypes, QueueInv, AskedInv
    <3> QED
      BY <1>3, <2>1, <2>3, <3>1 DEF QueueInv, DropsInv
  <2> QED
    BY <2>4, <2>5, <2>6, <2>7, <2>8, <2>9 DEF QueueInv
<1> QED
  BY <1>4, <1>5

\* The counter goes up.
LEMMA CountDropStep == ASSUME QueueInv, NEW p \in Producers, CountDrop(p) PROVE QueueInv'
<1>1. Tallies /\ QueueTypes /\ TypeOK
  BY TalliesTyped DEF QueueInv, QueueTypes
<1> /\ emitted \in Nat /\ Kept \in Nat /\ dropped \in Nat /\ Cardinality(refused) \in Nat
  BY <1>1 DEF Tallies
<1> GoneLost \in Nat /\ promised.drops \in Nat
  BY <1>1 DEF Tallies
<1>2. UNCHANGED <<queue, sinks, pc, batch, stopping, written, vanished, emitted, asked, promised>>
  BY DEF CountDrop, writerVars
<1>3. refused' = refused \ {p} /\ p \in refused /\ dropped' = dropped + 1
  BY DEF CountDrop
<1>4. IsFiniteSet(refused') /\ Cardinality(refused') = Cardinality(refused) - 1
      /\ Cardinality(refused') \in Nat
  BY <1>1, <1>3, FS_RemoveElement, FS_CardinalityType DEF QueueTypes
<1>5. Kept' = Kept /\ GoneLost' = GoneLost /\ Gone' = Gone
  BY <1>2, NothingMoves
<1>6. Accounted'
  BY <1>2, <1>3, <1>4, <1>5 DEF QueueInv, Accounted
<1>7. dropped' \in 0..MaxEvents
  <2>1. emitted = Kept + dropped' + Cardinality(refused')
    BY <1>2, <1>5, <1>6 DEF Accounted
  <2>2. emitted <= MaxEvents /\ MaxEvents \in Nat
    BY <1>1, QueueAssumption DEF TypeOK
  <2> QED
    BY <2>1, <2>2, <1>3, <1>4
<1>8. QueueTypes'
  BY <1>1, <1>2, <1>3, <1>4, <1>7 DEF QueueTypes, TypeOK
<1>9. OrderInv' /\ AskedInv' /\ EventsInv' /\ UptoInv'
  BY <1>2, <1>5 DEF QueueInv, OrderInv, AskedInv, EventsInv, UptoInv, Ending
<1>10. DropsInv'
  BY <1>2, <1>3, <1>5 DEF QueueInv, DropsInv
<1> QED
  BY <1>6, <1>8, <1>9, <1>10 DEF QueueInv

\* shutdown() promises what is in the pipeline; all of that is gone from the
\* queue, or stands in it before the request.
LEMMA RequestShutdownStep == ASSUME QueueInv, RequestShutdown PROVE QueueInv'
<1>1. SeqTypes /\ Tallies /\ QueueTypes /\ TypeOK
  BY TalliesTyped DEF QueueInv, QueueTypes
<1> /\ emitted \in Nat /\ Kept \in Nat /\ dropped \in Nat /\ Cardinality(refused) \in Nat
  BY <1>1 DEF Tallies
<1> GoneLost \in Nat
  BY <1>1 DEF Tallies
<1> /\ Lost(written) \in Nat /\ Lost(batch) \in Nat
  BY <1>1, CountsNat DEF SeqTypes
<1> Lost(vanished) \in Nat
  BY <1>1, CountsNat DEF SeqTypes
<1>2. UNCHANGED <<dropped, refused, sinks, pc, batch, stopping, written, vanished, emitted>>
      /\ sinks /\ asked = "no" /\ asked' \in {"queued", "full"}
  BY DEF RequestShutdown, writerVars
<1>3. /\ Shutdown \in Entries /\ Shutdown \in Messages /\ ~ IsEvent(Shutdown)
      /\ EventOf(Shutdown) = {} /\ AllOf(Shutdown) = 0
  BY QueueAssumption DEF Shutdown, Entries, Messages, IsEvent, EventOf, AllOf, LostOf
<1>4. /\ Kept' = Kept /\ GoneLost' = GoneLost /\ Gone' = Gone
      /\ EventsIn(queue') = EventsIn(queue) /\ (Ordered(queue) => Ordered(queue'))
  <2>1. UNCHANGED <<written, batch, vanished>>
    BY <1>2
  <2>2. CASE queue' = Append(queue, Shutdown)
    <3>1. /\ Kept' = Kept + 0 /\ GoneLost' = GoneLost /\ Gone' = Gone
          /\ EventsIn(queue') = EventsIn(queue) \cup {}
          /\ Ordered(queue') <=> Ordered(queue) /\ Below(EventsIn(queue), {})
      BY <1>1, <1>3, <2>1, <2>2, Enqueued
    <3> QED
      BY <3>1 DEF Below
  <2>3. CASE queue' = queue
    BY <2>1, <2>3, NothingMoves
  <2> QED
    BY <2>2, <2>3 DEF RequestShutdown
<1>5. promised'.events = EventsIn(written) \cup EventsIn(batch) \cup EventsIn(queue)
  <2>1. written \o batch \in Seq(Entries)
    BY <1>1, ConcatProperties DEF SeqTypes
  <2>2. EventsIn((written \o batch) \o queue) = EventsIn(written \o batch) \cup EventsIn(queue)
    BY <1>1, <2>1, EventsConcat DEF SeqTypes
  <2>3. EventsIn(written \o batch) = EventsIn(written) \cup EventsIn(batch)
    BY <1>1, EventsConcat DEF SeqTypes
  <2> QED
    BY <2>2, <2>3 DEF RequestShutdown
<1>6. promised'.drops = Lost(written) + Lost(batch) + dropped
  BY DEF RequestShutdown
<1>7. promised'.drops \in Nat /\ promised'.drops <= GoneLost + dropped
  BY <1>6 DEF GoneLost
<1>8. promised'.events \subseteq 1..emitted
  BY <1>5 DEF QueueInv, OrderInv
<1>9. QueueTypes'
  <2>1. promised'.events \subseteq 1..MaxEvents
    BY <1>1, <1>8, QueueAssumption DEF TypeOK
  <2>2. promised'.drops \in 0..MaxEvents
    <3>1. emitted = Kept + dropped + Cardinality(refused) /\ GoneLost <= Kept
      BY <1>1, LossesKept DEF QueueInv, Accounted
    <3>2. promised'.drops <= emitted
      BY <3>1, <1>7
    <3>3. emitted <= MaxEvents /\ MaxEvents \in Nat
      BY <1>1, QueueAssumption DEF TypeOK
    <3> QED
      BY <3>2, <3>3, <1>7
  <2>4. promised'.upto \in 0..MaxEvents
    BY <1>1 DEF RequestShutdown, TypeOK
  <2>3. queue' \in Seq(Messages) /\ Len(queue') <= Capacity
    <3>1. CASE HasRoom
      <4>1. queue' = Append(queue, Shutdown)
        BY <3>1 DEF RequestShutdown
      <4>2. queue' \in Seq(Messages) /\ Len(queue') = Len(queue) + 1 /\ Len(queue) \in Nat
        BY <4>1, <1>1, <1>3, AppendProperties, LenProperties DEF TypeOK
      <4> QED
        BY <4>2, <3>1, QueueAssumption DEF HasRoom
    <3>2. CASE ~ HasRoom
      BY <1>1, <3>2 DEF RequestShutdown, TypeOK
    <3> QED
      BY <3>1, <3>2
  <2> QED
    BY <1>1, <1>2, <2>1, <2>2, <2>3, <2>4 DEF QueueTypes, TypeOK
<1>10. Accounted' /\ OrderInv'
  BY <1>2, <1>4 DEF QueueInv, Accounted, OrderInv
<1>11. ~ Ending /\ ~ Ending' /\ OnlyEvents(queue)
  BY <1>2 DEF QueueInv, AskedInv, Ending
<1>14. AskedInv'
  <2>1. asked' = "full" => queue' = queue
    BY DEF RequestShutdown
  <2> QED
    BY <1>2, <1>11, <2>1 DEF QueueInv, AskedInv, Ending
<1>15. \A D : NoneAfterStop(queue', D)
  <2> SUFFICES ASSUME NEW D PROVE NoneAfterStop(queue', D)
    OBVIOUS
  <2>1. NoneAfterStop(queue, D)
    BY <1>11 DEF OnlyEvents, NoneAfterStop
  <2>2. CASE queue' = Append(queue, Shutdown)
    BY <1>1, <1>3, <2>1, <2>2, StopAppended DEF SeqTypes
  <2>3. CASE queue' = queue
    BY <2>1, <2>3
  <2> QED
    BY <2>2, <2>3 DEF RequestShutdown
<1>16. UptoInv'
  <2>1. promised'.upto = emitted /\ emitted' = emitted
    BY <1>2 DEF RequestShutdown
  <2> QED
    BY <2>1, <1>11, <1>15 DEF UptoInv
<1>12. EventsInv'
  <2>1. NoneAfterStop(queue', promised'.events)
    BY <1>15
  <2>2. ~ Ending'
    BY <1>11
  <2>3. promised'.events \subseteq Gone' \cup EventsIn(queue')
    BY <1>4, <1>5 DEF Gone
  <2> QED
    BY <1>2, <1>8, <2>1, <2>2, <2>3 DEF EventsInv
<1>13. DropsInv'
  <2>1. pc \notin {"last", "exited"}
    BY <1>11 DEF Ending
  <2>2. ASSUME pc \in {"start", "disabled"}, promised'.drops > 0
        PROVE  EventsIn(queue) # {} \/ vanished # << >>
    <3>1. Lost(written) = 0 /\ Lost(batch) = 0
      BY <2>2, EmptyCounts DEF QueueInv, DropsInv
    <3>2. dropped > 0
      BY <1>6, <2>2, <3>1
    <3> QED
      BY <1>2, <2>2, <3>2 DEF QueueInv, DropsInv
  <2> QED
    BY <1>2, <1>4, <1>7, <2>1, <2>2 DEF QueueInv, DropsInv
<1> QED
  BY <1>9, <1>10, <1>12, <1>13, <1>14, <1>16 DEF QueueInv

\* What the writer leaves alone is enough for some parts.
LEMMA WriterKeeps ==
    ASSUME QueueTypes, UNCHANGED <<refused, sinks, emitted, asked, promised>>,
           queue' \in Seq(Messages), Len(queue') <= Len(queue),
           dropped' \in {dropped, 0}, stopping' \in BOOLEAN,
           pc' \in {"disabled", "top", "recv", "fill", "write", "drain", "final", "last", "exited"},
           batch' \in Seq(Records), written' \in Seq(Records), vanished' \in Seq(Records)
    PROVE  QueueTypes'
<1>1. Len(queue') \in Nat /\ Len(queue) \in Nat /\ Len(queue) <= Capacity /\ Capacity \in Nat
  BY LenProperties, QueueAssumption DEF QueueTypes, TypeOK
<1>2. Len(queue') <= Capacity
  BY <1>1
<1>3. dropped' \in 0..MaxEvents
  BY QueueAssumption DEF QueueTypes, TypeOK
<1> QED
  BY <1>2, <1>3 DEF QueueTypes, TypeOK

\* The writer opens its file or goes without.
LEMMA OpenFileStep == ASSUME QueueInv, OpenFile PROVE QueueInv'
<1>1. QueueTypes /\ TypeOK
  BY DEF QueueInv, QueueTypes
<1>2. UNCHANGED <<queue, dropped, refused, sinks, batch, stopping, emitted, written, vanished, asked, promised>>
      /\ pc = "start" /\ pc' \in {"top", "disabled"}
  BY DEF OpenFile
<1>3. Kept' = Kept /\ GoneLost' = GoneLost /\ Gone' = Gone
  BY <1>2, NothingMoves
<1>4. QueueTypes'
  BY <1>1, <1>2 DEF QueueTypes, TypeOK
<1>5. Accounted' /\ OrderInv' /\ AskedInv' /\ EventsInv' /\ UptoInv'
  BY <1>2, <1>3 DEF QueueInv, Accounted, OrderInv, AskedInv, EventsInv, UptoInv, Ending
<1>6. DropsInv'
  BY <1>2, <1>3 DEF QueueInv, DropsInv
<1> QED
  BY <1>4, <1>5, <1>6 DEF QueueInv

\* The head of the queue and what is behind it.
LEMMA QueueHead ==
    ASSUME QueueInv, queue # << >>
    PROVE  /\ Tail(queue) \in Seq(Messages) /\ Len(Tail(queue)) <= Len(queue)
           /\ Head(queue) \in Messages /\ Head(queue) \in Entries
           /\ Head(queue).kind \in {"event", "shutdown"} /\ (IsEvent(Head(queue)) => Head(queue) \in Records)
           /\ NoneAfterStop(Tail(queue), promised.events)
           /\ NoneAfterStop(Tail(queue), 1..promised.upto)
           /\ ~ IsEvent(Head(queue)) =>
                 /\ asked = "queued" /\ promised.events \cap EventsIn(Tail(queue)) = {}
                 /\ (1..promised.upto) \cap EventsIn(Tail(queue)) = {}
           /\ asked # "queued" => OnlyEvents(Tail(queue))
<1>1. QueueTypes /\ SeqTypes /\ queue \in Seq(Messages)
  BY TalliesTyped DEF QueueInv, QueueTypes, TypeOK
<1>2. Head(queue) \in Messages /\ Tail(queue) \in Seq(Messages) /\ Len(Tail(queue)) = Len(queue) - 1
      /\ Len(queue) \in Nat
  BY <1>1, HeadTailProperties, LenProperties
<1>3. Head(queue) \in Entries /\ Head(queue).kind \in {"event", "shutdown"}
  BY <1>1, <1>2, SeqsAreEntries
<1>4. IsEvent(Head(queue)) => Head(queue) \in Records
  BY <1>2 DEF Messages, Records, IsEvent
<1>5. /\ NoneAfterStop(Tail(queue), promised.events)
      /\ ~ IsEvent(Head(queue)) => promised.events \cap EventsIn(Tail(queue)) = {}
      /\ OnlyEvents(queue) => IsEvent(Head(queue)) /\ OnlyEvents(Tail(queue))
  BY <1>1, StopPopped DEF SeqTypes, QueueInv, EventsInv
<1>6. asked # "queued" => OnlyEvents(queue)
  BY DEF QueueInv, AskedInv
<1>7. /\ NoneAfterStop(Tail(queue), 1..promised.upto)
      /\ ~ IsEvent(Head(queue)) => (1..promised.upto) \cap EventsIn(Tail(queue)) = {}
  BY <1>1, StopPopped DEF SeqTypes, QueueInv, UptoInv
<1> QED
  BY <1>2, <1>3, <1>4, <1>5, <1>6, <1>7

\* The writer takes an event into its batch, in the loop or after it.
LEMMA TakeStep ==
    ASSUME QueueInv, queue # << >>, IsEvent(Head(queue)), queue' = Tail(queue),
           batch' = Append(batch, Head(queue)),
           UNCHANGED <<dropped, refused, sinks, stopping, emitted, written, vanished, asked, promised>>,
           pc \in {"recv", "fill", "drain"}, pc' = pc \/ (pc = "recv" /\ pc' = "fill")
    PROVE  QueueInv'
<1>1. SeqTypes /\ QueueTypes /\ TypeOK
  BY TalliesTyped DEF QueueInv, QueueTypes
<1>2. UNCHANGED <<written, vanished>>
  OBVIOUS
<1>3. /\ Kept' = Kept /\ GoneLost' = GoneLost /\ Gone' = Gone \cup {Head(queue).n}
      /\ EventsIn(queue) = EventsIn(queue') \cup {Head(queue).n}
      /\ EventsIn(batch') = EventsIn(batch) \cup {Head(queue).n}
      /\ Ordered(queue) <=> Ordered(queue') /\ Below({Head(queue).n}, EventsIn(queue'))
      /\ Ordered(batch') <=> Ordered(batch) /\ Below(EventsIn(batch), {Head(queue).n})
  BY <1>1, <1>2, Taken
<1>4. QueueTypes'
  <2>1. batch' \in Seq(Records)
    BY <1>1, QueueHead, AppendProperties DEF TypeOK
  <2> QED
    BY <1>1, <2>1, QueueHead, WriterKeeps DEF TypeOK
<1>5. Accounted'
  BY <1>3 DEF QueueInv, Accounted
<1>6. OrderInv'
  BY <1>3 DEF QueueInv, OrderInv, Below
<1>7. AskedInv' /\ EventsInv'
  BY <1>3, QueueHead DEF QueueInv, AskedInv, EventsInv, Ending
<1>9. UptoInv'
  BY <1>3, QueueHead DEF QueueInv, UptoInv, Ending
<1>8. DropsInv'
  BY <1>3 DEF QueueInv, DropsInv
<1> QED
  BY <1>4, <1>5, <1>6, <1>7, <1>8, <1>9 DEF QueueInv

\* The writer takes the stop request, or throws it away: what it was promised
\* is not in the queue any more.
LEMMA SkipStep ==
    ASSUME QueueInv, queue # << >>, ~ IsEvent(Head(queue)), queue' = Tail(queue),
           UNCHANGED <<batch, dropped, refused, sinks, emitted, written, vanished, asked, promised>>,
           stopping' \in BOOLEAN,
           \/ pc = "disabled" /\ pc' = "disabled"
           \/ pc \in {"recv", "fill", "drain"} /\ pc' \in {"write", "drain", "final"}
    PROVE  QueueInv'
<1>1. SeqTypes /\ QueueTypes /\ TypeOK
  BY TalliesTyped DEF QueueInv, QueueTypes
<1>2. UNCHANGED <<written, batch, vanished>> /\ Head(queue).kind = "shutdown"
  BY QueueHead DEF IsEvent
<1>3. /\ Kept' = Kept /\ GoneLost' = GoneLost /\ Gone' = Gone
      /\ EventsIn(queue') = EventsIn(queue) /\ (Ordered(queue) => Ordered(queue'))
  BY <1>1, <1>2, Skipped
<1>4. QueueTypes'
  BY <1>1, QueueHead, WriterKeeps DEF TypeOK
<1>5. Accounted' /\ OrderInv'
  BY <1>3 DEF QueueInv, Accounted, OrderInv
<1>6. AskedInv'
  BY QueueHead DEF QueueInv, AskedInv
<1>7. EventsInv'
  <2>1. promised.events \subseteq Gone
    BY <1>3, QueueHead DEF QueueInv, EventsInv
  <2> QED
    BY <1>3, <2>1, QueueHead DEF QueueInv, EventsInv
<1>9. UptoInv'
  BY QueueHead DEF QueueInv, UptoInv
<1>8. DropsInv'
  BY <1>3 DEF QueueInv, DropsInv
<1> QED
  BY <1>4, <1>5, <1>6, <1>7, <1>8, <1>9 DEF QueueInv

\* The writer goes on without a message, or ends with an empty queue.
LEMMA NoMessageStep ==
    ASSUME QueueInv,
           UNCHANGED <<queue, batch, dropped, refused, sinks, stopping, emitted, written, vanished,
                       asked, promised>>,
           \/ pc = "fill" /\ pc' = "write"
           \/ pc = "recv" /\ queue = << >> /\ ~ sinks /\ pc' = "drain"
           \/ pc = "drain" /\ pc' = "final"
           \/ pc = "disabled" /\ queue = << >> /\ ~ sinks /\ pc' = "exited"
    PROVE  QueueInv'
<1>1. QueueTypes /\ TypeOK /\ Tallies
  BY TalliesTyped DEF QueueInv, QueueTypes
<1> GoneLost \in Nat /\ promised.drops \in Nat
  BY <1>1 DEF Tallies
<1>2. Kept' = Kept /\ GoneLost' = GoneLost /\ Gone' = Gone
  BY NothingMoves
<1>3. QueueTypes'
  BY <1>1 DEF QueueTypes, TypeOK
<1>4. Accounted' /\ OrderInv' /\ AskedInv'
  BY <1>2 DEF QueueInv, Accounted, OrderInv, AskedInv, Ending
<1>5. EventsInv' /\ UptoInv'
  BY <1>2, EmptyCounts DEF QueueInv, EventsInv, UptoInv, Ending
<1>6. DropsInv'
  <2>1. ASSUME pc = "disabled", queue = << >>
        PROVE  batch = << >> /\ (promised.drops <= GoneLost \/ vanished # << >>)
    BY <2>1, EmptyCounts DEF QueueInv, DropsInv
  <2> QED
    BY <1>2, <2>1 DEF QueueInv, DropsInv
<1> QED
  BY <1>3, <1>4, <1>5, <1>6 DEF QueueInv

\* Without a file an event vanishes, and so does the stop request.
LEMMA DiscardStep == ASSUME QueueInv, Discard PROVE QueueInv'
<1>1. SeqTypes /\ QueueTypes /\ TypeOK
  BY TalliesTyped DEF QueueInv, QueueTypes
<1>2. UNCHANGED <<batch, dropped, refused, sinks, stopping, emitted, written, asked, promised>>
      /\ pc = "disabled"
  BY DEF Discard
<1>3. CASE queue # << >> /\ IsEvent(Head(queue))
  <2>1. vanished' = Append(vanished, Head(queue)) /\ queue' = Tail(queue) /\ pc' = "disabled"
    BY <1>2, <1>3 DEF Discard
  <2>2. /\ Kept' = Kept /\ GoneLost' = GoneLost /\ Gone' = Gone \cup {Head(queue).n}
        /\ EventsIn(queue) = EventsIn(queue') \cup {Head(queue).n}
        /\ Ordered(queue) => Ordered(queue')
    <3>1. UNCHANGED <<written, batch>>
      BY <1>2
    <3> QED
      BY <1>1, <1>3, <2>1, <3>1, Thrown
  <2>3. vanished' \in Seq(Records) /\ vanished' # << >>
    <3>1. Head(queue) \in Records /\ vanished \in Seq(Records)
      BY <1>1, <1>3, QueueHead DEF TypeOK
    <3> QED
      BY <2>1, <3>1, AppendProperties
  <2>4. QueueTypes'
    BY <1>1, <1>2, <1>3, <2>1, <2>3, QueueHead, WriterKeeps DEF TypeOK
  <2>5. Accounted'
    BY <1>2, <2>2 DEF QueueInv, Accounted
  <2>6. OrderInv'
    BY <1>2, <2>2 DEF QueueInv, OrderInv, Below
  <2>7. AskedInv' /\ EventsInv'
    BY <1>2, <1>3, <2>1, <2>2, QueueHead DEF QueueInv, AskedInv, EventsInv, Ending
  <2>9. UptoInv'
    BY <1>2, <1>3, <2>1, <2>2, QueueHead DEF QueueInv, UptoInv, Ending
  <2>8. DropsInv'
    BY <1>2, <2>1, <2>2, <2>3 DEF QueueInv, DropsInv
  <2> QED
    BY <2>4, <2>5, <2>6, <2>7, <2>8, <2>9 DEF QueueInv
<1>4. CASE queue # << >> /\ ~ IsEvent(Head(queue))
  <2>1. UNCHANGED <<vanished, pc>> /\ queue' = Tail(queue) /\ stopping' \in BOOLEAN
    BY <1>1, <1>2, <1>4 DEF Discard, TypeOK
  <2> QED
    BY <1>2, <1>4, <2>1, SkipStep
<1>5. CASE queue = << >>
  <2>1. pc' = "exited" /\ UNCHANGED <<queue, vanished>> /\ ~ sinks
    BY <1>5 DEF Discard
  <2> QED
    BY <1>2, <1>5, <2>1, NoMessageStep
<1> QED
  BY <1>3, <1>4, <1>5

\* The counter becomes a loss record at the head of the loop and after it.
LEMMA NoteStep == ASSUME QueueInv, SwapDropped \/ FinalLoss PROVE QueueInv'
<1>1. SeqTypes /\ Tallies /\ QueueTypes /\ TypeOK
  BY TalliesTyped DEF QueueInv, QueueTypes
<1> /\ emitted \in Nat /\ Kept \in Nat /\ dropped \in Nat /\ Cardinality(refused) \in Nat
  BY <1>1 DEF Tallies
<1> GoneLost \in Nat /\ promised.drops \in Nat
  BY <1>1 DEF Tallies
<1>2. /\ UNCHANGED <<queue, refused, sinks, stopping, emitted, written, vanished, asked, promised>>
      /\ batch' = IF dropped > 0 THEN Append(batch, Loss(dropped)) ELSE batch
      /\ dropped' = 0
      /\ \/ pc = "top" /\ pc' \in {"recv", "fill"}
         \/ pc = "final" /\ pc' = "last"
  BY DEF SwapDropped, FinalLoss
<1>3. /\ Kept' = Kept + dropped /\ GoneLost' = GoneLost + dropped /\ Gone' = Gone
      /\ EventsIn(batch') = EventsIn(batch) /\ (Ordered(batch) => Ordered(batch'))
  <2>1. UNCHANGED <<queue, written, vanished>>
    BY <1>2
  <2> QED
    BY <1>1, <1>2, <2>1, Noted
<1>4. QueueTypes'
  <2>1. batch' \in Seq(Records)
    <3>1. dropped > 0 => Loss(dropped) \in Records
      BY <1>1 DEF TypeOK, Loss, Records
    <3>2. batch \in Seq(Records)
      BY <1>1 DEF TypeOK
    <3> QED
      BY <1>2, <3>1, <3>2, AppendProperties
  <2>2. queue' \in Seq(Messages) /\ Len(queue') <= Len(queue)
    BY <1>1, <1>2, LenProperties DEF TypeOK
  <2> QED
    BY <1>1, <1>2, <2>1, <2>2, WriterKeeps DEF TypeOK
<1>5. Accounted'
  BY <1>2, <1>3 DEF QueueInv, Accounted
<1>6. OrderInv' /\ AskedInv' /\ EventsInv' /\ UptoInv'
  BY <1>2, <1>3 DEF QueueInv, OrderInv, AskedInv, EventsInv, UptoInv, Ending
<1>7. DropsInv'
  BY <1>2, <1>3 DEF QueueInv, DropsInv
<1> QED
  BY <1>4, <1>5, <1>6, <1>7 DEF QueueInv

\* A batch is written, or a part of it.
LEMMA WriteBatchStep == ASSUME QueueInv, NEW n \in 0..Len(batch), WriteBatch(n) PROVE QueueInv'
<1>1. SeqTypes /\ QueueTypes /\ TypeOK
  BY TalliesTyped DEF QueueInv, QueueTypes
<1>2. /\ UNCHANGED <<queue, dropped, refused, sinks, stopping, emitted, asked, promised>>
      /\ batch' = << >> /\ written' = written \o SubSeq(batch, 1, n)
      /\ vanished' = vanished \o SubSeq(batch, n + 1, Len(batch))
      /\ \/ pc = "last" /\ pc' = "exited"
         \/ pc = "write" /\ stopping /\ pc' = "drain"
         \/ pc = "write" /\ ~ stopping /\ pc' = "top"
  BY DEF WriteBatch
<1>3. /\ Kept' = Kept /\ GoneLost' = GoneLost /\ Gone' = Gone
      /\ EventsIn(batch') = {} /\ Ordered(batch')
      /\ EventsIn(written') \subseteq EventsIn(written) \cup EventsIn(batch)
      /\ Ordered(written) /\ Ordered(batch) /\ Below(EventsIn(written), EventsIn(batch)) =>
            Ordered(written')
  BY <1>1, <1>2, Flushed
<1>4. QueueTypes'
  <2>1. /\ batch \in Seq(Records) /\ Len(batch) \in Nat /\ \A i \in 1..Len(batch) : batch[i] \in Records
        /\ written \in Seq(Records) /\ vanished \in Seq(Records)
    BY <1>1, LenProperties, ElementOfSeq DEF TypeOK
  <2>2. SubSeq(batch, 1, n) \in Seq(Records) /\ SubSeq(batch, n + 1, Len(batch)) \in Seq(Records)
    BY <2>1, SubSeqProperties
  <2>3. written' \in Seq(Records) /\ vanished' \in Seq(Records) /\ batch' \in Seq(Records)
    BY <1>2, <2>1, <2>2, ConcatProperties, EmptySeq
  <2>4. queue' \in Seq(Messages) /\ Len(queue') <= Len(queue)
    BY <1>1, <1>2, LenProperties DEF TypeOK
  <2> QED
    BY <1>1, <1>2, <2>3, <2>4, WriterKeeps DEF TypeOK
<1>5. Accounted'
  BY <1>2, <1>3 DEF QueueInv, Accounted
<1>6. OrderInv'
  BY <1>2, <1>3 DEF QueueInv, OrderInv, Below
<1>7. AskedInv' /\ EventsInv' /\ UptoInv'
  BY <1>2, <1>3 DEF QueueInv, AskedInv, EventsInv, UptoInv, Ending
<1>8. DropsInv'
  BY <1>2, <1>3 DEF QueueInv, DropsInv
<1> QED
  BY <1>4, <1>5, <1>6, <1>7, <1>8 DEF QueueInv

\* Receive, Fill and Drain take an event, take the stop request or find nothing.
LEMMA ReceiveStep == ASSUME QueueInv, Receive \/ Fill \/ Drain PROVE QueueInv'
<1>1. UNCHANGED <<dropped, refused, sinks, emitted, written, vanished, asked, promised>>
      /\ pc \in {"recv", "fill", "drain"} /\ stopping \in BOOLEAN
  BY DEF Receive, Fill, Drain, QueueInv, QueueTypes, TypeOK
<1>2. CASE /\ queue # << >> /\ IsEvent(Head(queue))
           /\ queue' = Tail(queue) /\ batch' = Append(batch, Head(queue)) /\ stopping' = stopping
           /\ pc' = pc \/ (pc = "recv" /\ pc' = "fill")
  BY <1>1, <1>2, TakeStep
<1>3. CASE /\ queue # << >> /\ ~ IsEvent(Head(queue))
           /\ queue' = Tail(queue) /\ batch' = batch /\ stopping' \in BOOLEAN
           /\ pc' \in {"write", "drain", "final"}
  BY <1>1, <1>3, SkipStep
<1>4. CASE /\ queue' = queue /\ batch' = batch /\ stopping' = stopping
           /\ \/ pc = "fill" /\ pc' = "write"
              \/ pc = "recv" /\ queue = << >> /\ ~ sinks /\ pc' = "drain"
              \/ pc = "drain" /\ pc' = "final"
  BY <1>1, <1>4, NoMessageStep
<1> QED
  BY <1>1, <1>2, <1>3, <1>4 DEF Receive, Fill, Drain

\* Every step of the pipeline keeps the invariant.
LEMMA QueueStep == QueueInv /\ [Next]_vars => QueueInv'
<1> SUFFICES ASSUME QueueInv, [Next]_vars PROVE QueueInv'
  OBVIOUS
<1>1. CASE \E p \in Producers : Emit(p) \/ CountDrop(p)
  BY <1>1, EmitStep, CountDropStep
<1>2. CASE RequestShutdown
  BY <1>2, RequestShutdownStep
<1>3. CASE DropSinks \/ UNCHANGED vars
  <2>1. UNCHANGED <<queue, dropped, pc, batch, stopping, emitted, written, vanished, asked, promised>>
        /\ (sinks' = sinks \/ sinks' = FALSE) /\ refused' = refused
    BY <1>3 DEF DropSinks, vars, writerVars
  <2>2. Kept' = Kept /\ GoneLost' = GoneLost /\ Gone' = Gone
    BY <2>1, NothingMoves
  <2>3. QueueTypes' /\ Accounted'
    BY <2>1, <2>2 DEF QueueInv, QueueTypes, TypeOK, Accounted
  <2>4. OrderInv' /\ AskedInv'
    BY <2>1, <2>2 DEF QueueInv, OrderInv, AskedInv, Ending
  <2>5. EventsInv' /\ UptoInv' /\ DropsInv'
    BY <2>1, <2>2 DEF QueueInv, EventsInv, UptoInv, DropsInv, Ending
  <2> QED
    BY <2>3, <2>4, <2>5 DEF QueueInv
<1>4. CASE OpenFile \/ Discard
  BY <1>4, OpenFileStep, DiscardStep
<1>5. CASE SwapDropped \/ FinalLoss
  BY <1>5, NoteStep
<1>6. CASE Receive \/ Fill \/ Drain
  BY <1>6, ReceiveStep
<1>7. CASE \E n \in 0..Len(batch) : WriteBatch(n)
  BY <1>7, WriteBatchStep
<1> QED
  BY <1>1, <1>2, <1>3, <1>4, <1>5, <1>6, <1>7 DEF Next, Writer

\* The invariant of the audit pipeline.
LEMMA QueueInvariant == Spec => []QueueInv
BY QueueInit, QueueStep, PTL DEF Spec

\* What the pipeline holds, part by part.
LEMMA PipelineParts ==
    ASSUME SeqTypes
    PROVE  /\ Ordered(Pipeline) <=>
                 /\ Ordered(written) /\ Ordered(batch) /\ Ordered(queue)
                 /\ Below(EventsIn(written), EventsIn(batch))
                 /\ Below(EventsIn(written) \cup EventsIn(batch), EventsIn(queue))
           /\ Told(InHand, "event") + Lost(InHand)
                 = All(written) + All(batch) + (IF pc = "exited" THEN 0 ELSE All(queue))
<1>1. written \o batch \in Seq(Entries)
  BY ConcatProperties DEF SeqTypes
<1>2. /\ EventsIn(written \o batch) = EventsIn(written) \cup EventsIn(batch)
      /\ Ordered(written \o batch) <=>
            Ordered(written) /\ Ordered(batch) /\ Below(EventsIn(written), EventsIn(batch))
      /\ All(written \o batch) = All(written) + All(batch)
  BY EventsConcat, ConcatCounts DEF SeqTypes
<1>3. Ordered(Pipeline) <=>
         Ordered(written \o batch) /\ Ordered(queue) /\ Below(EventsIn(written \o batch), EventsIn(queue))
  BY <1>1, EventsConcat DEF SeqTypes, Pipeline
<1>4. \A s \in Seq(Entries) : All((written \o batch) \o s) = All(written \o batch) + All(s)
  BY <1>1, ConcatCounts
<1>5. << >> \in Seq(Entries) /\ All(<< >>) = 0
  BY EmptyCounts, EmptySeq
<1>6. All(InHand) = All(written \o batch) + (IF pc = "exited" THEN 0 ELSE All(queue))
  BY <1>4, <1>5 DEF SeqTypes, InHand
<1> QED
  BY <1>2, <1>3, <1>6 DEF All

\* The trail tells the events in the order they were emitted, each once: emit,
\* the writer's loop and its drain after the stop request (audit/file.rs) reorder
\* nothing, for every number of producers, capacity and batch size.
THEOREM TrailOrder == Spec => []TrailInEmissionOrder
<1>1. QueueInv => TrailInEmissionOrder
  <2> SUFFICES ASSUME QueueInv PROVE Ordered(Pipeline)
    BY DEF TrailInEmissionOrder
  <2> QED
    BY TalliesTyped, PipelineParts DEF QueueInv, OrderInv, Below
<1> QED
  BY <1>1, QueueInvariant, PTL

\* There are no losses in the queue.
LEMMA QueueTellsNoLoss == QueueTypes => All(queue) = Told(queue, "event")
<1> SUFFICES ASSUME QueueTypes PROVE All(queue) = Told(queue, "event")
  OBVIOUS
<1>1. queue \in Seq(Messages) /\ queue \in Seq(Entries)
  BY SeqsAreEntries DEF QueueTypes, TypeOK, SeqTypes
<1>2. \A i \in DOMAIN queue : queue[i].kind # "loss"
  BY <1>1, ElementOfSeq, SeqsAreEntries
<1>3. Of(queue, "loss") = {}
  BY <1>2 DEF Of
<1>4. UNION {{i} \X StandsFor(queue[i]) : i \in {}} = {}
  OBVIOUS
<1>5. Lost(queue) = 0
  BY <1>3, <1>4, FS_EmptySet DEF Lost, Told
<1>6. Told(queue, "event") \in Nat
  BY <1>1, UnitsFinite
<1> QED
  BY <1>5, <1>6 DEF All

\* Each event that a thread emitted is in hand of the writer while it lives,
\* counted by `dropped` or in a loss record, about to be counted, or was lost by
\* a failed write: the counter that emit raises and the writer swaps out
\* (audit/file.rs) neither loses nor doubles a drop.  The only events neither
\* written nor counted stand in the channel when its receiver ends, and all of
\* them were emitted after shutdown().
THEOREM EventsAccounted == Spec => []EveryEventAccounted
<1>1. QueueInv => EveryEventAccounted
  <2> SUFFICES ASSUME QueueInv PROVE EveryEventAccounted
    OBVIOUS
  <2>1. SeqTypes
    BY TalliesTyped
  <2> All(written) \in Nat /\ All(batch) \in Nat
    BY <2>1, CountsNat DEF SeqTypes
  <2> All(queue) \in Nat /\ All(vanished) \in Nat
    BY <2>1, CountsNat DEF SeqTypes
  <2> dropped \in Nat /\ Cardinality(refused) \in Nat
    BY TalliesTyped DEF Tallies
  <2> Told(vanished, "event") \in Nat /\ Lost(vanished) \in Nat
    BY <2>1, UnitsFinite DEF SeqTypes, Lost
  <2>2. emitted = All(written) + All(batch) + All(queue) + All(vanished) + dropped + Cardinality(refused)
    BY DEF QueueInv, Accounted, Kept
  <2>3. Told(InHand, "event") + Lost(InHand)
           = All(written) + All(batch) + (IF pc = "exited" THEN 0 ELSE All(queue))
    BY <2>1, PipelineParts
  <2>4. All(vanished) = Told(vanished, "event") + Lost(vanished)
    BY DEF All
  <2>5. Told(Stranded, "event") = IF pc = "exited" THEN All(queue) ELSE 0
    <3>1. Told(<< >>, "event") = 0
      <4>1. Event(0) \in Entries
        BY DEF Event, Entries
      <4> QED
        BY <4>1, ToldOne
    <3> QED
      BY <3>1, QueueTellsNoLoss DEF Stranded, QueueInv
  <2>6. emitted = (Told(InHand, "event") + Lost(InHand)) + dropped + Cardinality(refused)
                     + Told(vanished, "event") + Lost(vanished) + Told(Stranded, "event")
    <3> HIDE DEF All
    <3>1. CASE pc = "exited"
      BY <2>2, <2>3, <2>4, <2>5, <3>1
    <3>2. CASE pc # "exited"
      BY <2>2, <2>3, <2>4, <2>5, <3>2
    <3> QED
      BY <3>1, <3>2
  <2>7. ASSUME NEW e \in EventsIn(Stranded) PROVE asked = "queued" /\ e > promised.upto
    <3>1. pc = "exited" /\ e \in EventsIn(queue)
      BY EmptyCounts DEF Stranded
    <3>2. queue # << >>
      BY <3>1, EmptyCounts
    <3>3. asked = "queued"
      BY <3>1, <3>2 DEF QueueInv, AskedInv, Ending
    <3>4. e \notin 1..promised.upto /\ e \in 1..emitted
      BY <3>1 DEF QueueInv, UptoInv, OrderInv, Ending
    <3> QED
      BY <3>3, <3>4, TalliesTyped DEF Tallies
  <2> QED
    BY <2>6, <2>7 DEF EveryEventAccounted
<1> QED
  BY <1>1, QueueInvariant, PTL

\* When the writer has ended, what shutdown() was promised is in the trail.
LEMMA FlushesAtExit == QueueInv => ShutdownFlushes
<1> SUFFICES ASSUME QueueInv, pc = "exited", vanished = << >>
             PROVE  promised.events \subseteq EventsIn(written) /\ promised.drops <= Lost(written)
  BY DEF ShutdownFlushes
<1>1. SeqTypes
  BY TalliesTyped
<1>2. batch = << >>
  BY DEF QueueInv, DropsInv
<1>3. EventsIn(batch) = {} /\ EventsIn(vanished) = {} /\ Lost(batch) = 0 /\ Lost(vanished) = 0
  BY <1>2, EmptyCounts
<1>4. Lost(written) \in Nat
  BY <1>1, CountsNat DEF SeqTypes
<1>5. Gone = EventsIn(written) /\ GoneLost = Lost(written)
  BY <1>3, <1>4 DEF Gone, GoneLost
<1> QED
  BY <1>5 DEF QueueInv, EventsInv, DropsInv, Ending

-----------------------------------------------------------------------------
(* The process runs the audit queue.                                       *)

\* Each step of the process is a step of the pipeline or leaves it alone:
\* run() emits, asks for the stop and drops the sinks only as
\* FileAuditSink's callers may.
LEMMA StepsAreQueueSteps == [DaemonNext]_allVars => [Next]_vars
<1> SUFFICES ASSUME [DaemonNext]_allVars PROVE [Next]_vars
  OBVIOUS
<1> Main \in Producers
  BY DaemonAssumption
<1>1. CASE Starting
  BY <1>1 DEF Starting, Load, OpenSink, Record, OpenStore, Assemble, UnsupportedPlatform,
              Degraded, BuildService, Bind, ListenerRefused, ListenersUp, Notice, Started, Ready, Next
<1>2. CASE StartFails \/ Killed \/ Terminate
  BY <1>2 DEF StartFails, Killed, Terminate
<1>3. CASE Stopping
  BY <1>3 DEF Stopping, SayStopping, Notice, AbortAll, Flush, DropRuntime, Exit, Next
<1>4. CASE \E p \in Requests : RequestEmits(p)
  BY <1>4 DEF Requests, RequestEmits, Next
<1>5. CASE \E p \in Producers : RefusedCounts(p)
  BY <1>5 DEF RefusedCounts, Next
<1>6. CASE AuditWriter
  BY <1>6 DEF AuditWriter, Next
<1>7. CASE UNCHANGED allVars
  BY <1>7 DEF allVars
<1> QED
  BY <1>1, <1>2, <1>3, <1>4, <1>5, <1>6, <1>7 DEF DaemonNext

\* The life of the process (lib.rs run) implements the audit pipeline
\* (audit/file.rs) for every number of listeners, providers and requests: what
\* holds of every behaviour of AuditQueue holds of the daemon.
THEOREM RunsAuditQueue == DaemonSpec => Spec
<1>1. DaemonInit => Init
  BY DEF DaemonInit
<1> QED
  BY <1>1, StepsAreQueueSteps, PTL DEF DaemonSpec, Spec

-----------------------------------------------------------------------------
(* READY.                                                                  *)

Configured == main \notin {"load", "failed", "failed_dropped", "dead"}

\* What run() has established at each of its steps: a valid configuration, one
\* record before the store is opened, one for each provider that is missing, one
\* more for each listener that serves, and one for the start.
StartInv ==
    /\ listeners \in {c.listeners : c \in Configs}
    /\ bound \in Nat /\ left \in Nat /\ emitted \in Nat
    /\ Configured => Validate(listeners, setup.audit)
    /\ told = "ready" => main = "serving"
    /\ main \in {"store", "assemble"} => emitted >= 1
    /\ main = "degraded" => emitted + left >= 1 + Absent(backend)
    /\ main = "listen" => emitted >= 1 + Absent(backend)
    /\ main \in {"notices", "ready", "serving"} => bound = Len(listeners)
    /\ main = "notices" => emitted + left >= bound + 1 + Absent(backend)
    /\ main \in {"ready", "serving"} => emitted >= bound + 2 + Absent(backend)
    /\ main \in {"listen", "notices", "ready", "serving"} => tasks = TasksOf(backend)

\* Absent counts.
LEMMA AbsentNat == \A b : Absent(b) \in Nat
BY DEF Absent

\* The audit writer and a thread that counts a refused event emit nothing.
LEMMA QueueKeepsEmitted ==
    (Writer \/ RequestShutdown \/ DropSinks \/ \E p \in Producers : CountDrop(p)) =>
        emitted' = emitted
BY DEF Writer, OpenFile, Discard, SwapDropped, Receive, Fill, WriteBatch, Drain, FinalLoss,
       RequestShutdown, DropSinks, CountDrop

\* StartInv is kept by every step of the process.
LEMMA StartStep == StartInv /\ [DaemonNext]_allVars => StartInv'
<1> SUFFICES ASSUME StartInv, [DaemonNext]_allVars PROVE StartInv'
  OBVIOUS
<1> USE AbsentNat DEF StartInv, Configured, plan
<1>1. CASE Load \/ OpenSink \/ OpenStore \/ BuildService \/ ListenerRefused \/ Ready
  BY <1>1 DEF Load, OpenSink, OpenStore, BuildService, ListenerRefused, Ready, Notify,
                  Goto, vars
<1>2. CASE Record("config", "store") \/ Started
  BY <1>2 DEF Record, Started, Emit, Goto
<1>3. CASE Assemble
  <2>1. left' = Absent(backend')
    BY <1>3 DEF Assemble
  <2> QED
    BY <1>3, <2>1 DEF Assemble, Goto, vars
<1>4. CASE Degraded \/ Notice("notices") \/ Notice("stop_notices")
  BY <1>4 DEF Degraded, Notice, Emit, Goto
<1>5. CASE Bind
  BY <1>5 DEF Bind, Goto, vars
<1>6. CASE ListenersUp
  BY <1>6 DEF ListenersUp, Goto, vars
<1>7. CASE UnsupportedPlatform \/ StartFails \/ Killed \/ Terminate \/ AbortAll \/ Exit
  BY <1>7 DEF UnsupportedPlatform, StartFails, Killed, Terminate, Notify, AbortAll, Exit, Goto, vars
<1>8. CASE SayStopping
  BY <1>8 DEF SayStopping, Emit, Goto
<1>9. CASE Flush \/ DropRuntime
  <2> emitted' = emitted
    BY <1>9, QueueKeepsEmitted DEF Flush, DropRuntime, vars
  <2> QED
    BY <1>9 DEF Flush, DropRuntime, Goto
<1>10. CASE \E p \in Requests : RequestEmits(p)
  BY <1>10 DEF RequestEmits, Emit
<1>11. CASE (\E p \in Producers : RefusedCounts(p)) \/ AuditWriter
  <2> emitted' = emitted /\ UNCHANGED daemonVars
    BY <1>11, QueueKeepsEmitted DEF RefusedCounts, AuditWriter
  <2> QED
    BY DEF daemonVars
<1>12. CASE UNCHANGED allVars
  BY <1>12 DEF allVars, vars, daemonVars
<1> QED
  BY <1>1, <1>2, <1>3, <1>4, <1>5, <1>6, <1>7, <1>8, <1>9, <1>10, <1>11, <1>12
     DEF DaemonNext, Starting, Stopping

\* systemd is told READY=1 by a daemon all of whose listeners serve, whose
\* start is recorded and which no start-up error can end any more; and what
\* validate() accepts is refused later only for a missing feature.
THEOREM ReadyIsServing == DaemonSpec => []ReadyMeansServing
<1>1. DaemonInit => StartInv
  BY DEF DaemonInit, Init, StartInv, Configured
<1>2. StartInv => ReadyMeansServing
  <2> SUFFICES ASSUME StartInv PROVE ReadyMeansServing
    OBVIOUS
  <2>1. Len(listeners) \in Nat
    BY DaemonAssumption DEF StartInv
  <2>2. ASSUME Configured PROVE Len(listeners) >= 1
    BY <2>2, <2>1, DaemonAssumption DEF StartInv, Validate
  <2>3. ASSUME told = "ready"
        PROVE  /\ main = "serving" /\ bound = Len(listeners) /\ tasks = TasksOf(backend)
               /\ emitted >= 3 + Absent(backend)
    BY <2>3, <2>1, <2>2, AbsentNat DEF StartInv, Configured
  <2>4. ASSUME main = "listen", NEW i \in 1..Len(listeners), Unservable(listeners[i])
        PROVE  listeners[i] = "https" /\ ~ TlsFeature
    BY <2>4 DEF StartInv, Configured, Validate, Unservable
  <2> QED
    BY <2>3, <2>4 DEF ReadyMeansServing
<1> QED
  BY <1>1, <1>2, StartStep, PTL DEF DaemonSpec

-----------------------------------------------------------------------------
(* The orderly stop.                                                       *)

\* What run() knows of its own state and of the pipeline at its last steps.
StopInv ==
    /\ listeners \in {c.listeners : c \in Configs}
    /\ setup.mode \in Modes /\ setup.host \in Hosts
    /\ main \in {"load", "dirs", "config", "store", "assemble", "degraded", "listen", "notices",
                 "ready", "serving", "term", "stop_notices", "flush", "join",
                 "dropped", "stopped", "failed", "failed_dropped", "dead"}
    /\ backend \in Capabilities
    /\ tasks \subseteq {"persister", "metrics", "jobs", "status", "logs"}
    /\ bound \in 0..Len(listeners) /\ left \in Nat
    /\ told \in {"nothing", "ready", "stopping"}
    /\ served \in 0..MaxServed
    /\ main \in {"join", "dropped", "stopped"} => asked # "no"
    /\ main = "stopped" => pc = "exited"

\* Every assembly gives a set of providers.
LEMMA AssembledTyped ==
    ASSUME NEW mode \in Modes, NEW host \in Hosts
    PROVE  Assembled(mode, host) \subseteq Capabilities
<1>1. host.privd \in BOOLEAN
  BY DaemonAssumption
<1>2. /\ ProbeSystemdServices(host) \subseteq BOOLEAN /\ ProbeJournaldLogs(host) \subseteq BOOLEAN
      /\ ProbePackages(host) \subseteq BOOLEAN
  BY <1>1 DEF ProbeSystemdServices, ProbeJournaldLogs, ProbePackages
<1>3. Nothing \in Capabilities /\ Everything \in Capabilities
  BY DEF Nothing, Everything, Capabilities
<1>4. NativeProviders(host) \subseteq Capabilities
  BY <1>2, <1>3 DEF NativeProviders, Capabilities
<1> QED
  BY <1>3, <1>4 DEF Assembled, Modes

\* A stop request stays asked, and the end of the writer is final.
LEMMA QueueKeepsAsked ==
    (\E p \in Producers : Emit(p) \/ CountDrop(p)) \/ DropSinks => UNCHANGED <<asked, pc>>
BY DEF Emit, CountDrop, DropSinks, writerVars

\* The writer asks for no stop.
LEMMA WriterKeepsAsked == Writer => asked' = asked
BY DEF Writer, OpenFile, Discard, SwapDropped, Receive, Fill, WriteBatch, Drain, FinalLoss

\* StopInv is kept by every step of the process.
LEMMA StopStep == StopInv /\ [DaemonNext]_allVars => StopInv'
<1> SUFFICES ASSUME StopInv, [DaemonNext]_allVars PROVE StopInv'
  OBVIOUS
<1>0. Len(listeners) \in Nat /\ MaxServed \in Nat /\ Main \in Producers
  BY DaemonAssumption, LenProperties DEF StopInv
<1> USE <1>0, AbsentNat DEF StopInv, plan
<1>1. CASE Load \/ OpenSink \/ OpenStore \/ ListenerRefused \/ Ready \/ UnsupportedPlatform
  BY <1>1 DEF Load, OpenSink, OpenStore, ListenerRefused, Ready, UnsupportedPlatform, Notify,
                  Goto, vars
<1>2. CASE Record("config", "store") \/ Started
  <2>1. UNCHANGED <<asked, pc>>
    BY <1>2, QueueKeepsAsked DEF Record, Started
  <2> QED
    BY <1>2, <2>1 DEF Record, Started, Goto
<1>3. CASE Assemble
  <2>1. backend' \in Capabilities /\ left' \in Nat
    BY <1>3, AssembledTyped DEF Assemble
  <2> QED
    BY <1>3, <2>1 DEF Assemble, Goto, vars
<1>4. CASE Degraded \/ Notice("notices") \/ Notice("stop_notices")
  <2>1. UNCHANGED <<asked, pc>>
    BY <1>4, QueueKeepsAsked DEF Degraded, Notice
  <2>2. UNCHANGED <<plan, tasks, bound, told, served>> /\ left' \in Nat
    BY <1>4 DEF Degraded, Notice
  <2> QED
    BY <1>4, <2>1, <2>2 DEF Degraded, Notice, Goto
<1>5. CASE BuildService
  <2>1. tasks' \subseteq {"persister", "metrics", "jobs", "status", "logs"}
    BY <1>5 DEF BuildService, TasksOf
  <2> QED
    BY <1>5, <2>1 DEF BuildService, Goto, vars
<1>6. CASE Bind \/ ListenersUp
  <2>1. bound' \in 0..Len(listeners) /\ left' \in Nat
    BY <1>6 DEF Bind, ListenersUp
  <2> QED
    BY <1>6, <2>1 DEF Bind, ListenersUp, Goto, vars
<1>7. CASE StartFails \/ Killed \/ Terminate \/ AbortAll
  BY <1>7 DEF StartFails, Killed, Terminate, Notify, AbortAll, Goto, vars
<1>8. CASE SayStopping
  <2>1. UNCHANGED <<asked, pc>>
    BY <1>8, QueueKeepsAsked DEF SayStopping
  <2> QED
    BY <1>8, <2>1 DEF SayStopping, Goto
<1>9. CASE Flush
  <2>1. asked' # "no"
    BY <1>9 DEF Flush, RequestShutdown
  <2> QED
    BY <1>9, <2>1 DEF Flush, Goto
<1>10. CASE DropRuntime
  <2>1. UNCHANGED <<asked, pc>>
    BY <1>10, QueueKeepsAsked DEF DropRuntime, vars
  <2> QED
    BY <1>10, <2>1 DEF DropRuntime, Goto
<1>11. CASE Exit
  BY <1>11 DEF Exit, Goto, vars
<1>12. CASE \E p \in Requests : RequestEmits(p)
  <2>1. UNCHANGED <<asked, pc>>
    BY <1>12, QueueKeepsAsked DEF RequestEmits, Requests
  <2>2. served' \in 0..MaxServed
    BY <1>12 DEF RequestEmits
  <2> QED
    BY <1>12, <2>1, <2>2 DEF RequestEmits
<1>13. CASE \E p \in Producers : RefusedCounts(p)
  <2>1. UNCHANGED <<asked, pc>>
    BY <1>13, QueueKeepsAsked DEF RefusedCounts
  <2> QED
    BY <1>13, <2>1 DEF RefusedCounts, daemonVars
<1>14. CASE AuditWriter
  BY <1>14, WriterKeepsAsked DEF AuditWriter, daemonVars
<1>15. CASE UNCHANGED allVars
  BY <1>15 DEF allVars, vars, daemonVars, writerVars
<1> QED
  BY <1>1, <1>2, <1>3, <1>4, <1>5, <1>6, <1>7, <1>8, <1>9, <1>10, <1>11, <1>12, <1>13, <1>14, <1>15
     DEF DaemonNext, Starting, Stopping

\* The process does not end in order before its audit writer has, and the
\* writer not before everything that was in the pipeline at shutdown() is in
\* the trail and the drops counted by then are reported there, unless a write
\* failed or there was no file.
THEOREM OrderlyStop == DaemonSpec => []OrderlyStopFlushes
<1>1. DaemonInit => StopInv
  <2> SUFFICES ASSUME DaemonInit PROVE StopInv
    OBVIOUS
  <2>1. Nothing \in Capabilities
    BY DEF Nothing, Capabilities
  <2>2. PICK config \in Configs : \E host \in Hosts :
           /\ listeners = config.listeners
           /\ setup = [mode |-> config.mode, audit |-> config.audit, host |-> host]
    BY DEF DaemonInit
  <2>3. PICK host \in Hosts :
           /\ listeners = config.listeners
           /\ setup = [mode |-> config.mode, audit |-> config.audit, host |-> host]
    BY <2>2
  <2>4. Len(listeners) \in Nat /\ setup.mode \in Modes /\ setup.host \in Hosts
        /\ listeners \in {c.listeners : c \in Configs}
    BY <2>3, DaemonAssumption, LenProperties
  <2>5. 0 \in 0..Len(listeners) /\ 0 \in 0..MaxServed
    BY <2>4, DaemonAssumption
  <2> QED
    BY <2>1, <2>4, <2>5 DEF DaemonInit, StopInv
<1>2. StopInv /\ QueueInv => OrderlyStopFlushes
  BY FlushesAtExit DEF StopInv, QueueInv, QueueTypes, OrderlyStopFlushes, DaemonTypeOK
<1>3. DaemonSpec => []StopInv
  BY <1>1, StopStep, PTL DEF DaemonSpec
<1>4. DaemonSpec => []QueueInv
  BY RunsAuditQueue, QueueInvariant, PTL
<1> QED
  BY <1>2, <1>3, <1>4, PTL

\* So the daemon's trail is in order and accounts for every event.
THEOREM DaemonTrail == DaemonSpec => [](TrailInEmissionOrder /\ EveryEventAccounted)
BY RunsAuditQueue, TrailOrder, EventsAccounted, PTL
=============================================================================
