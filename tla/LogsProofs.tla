----------------------------- MODULE LogsProofs -----------------------------
(***************************************************************************)
(* Proofs about Logs, for every cap, limit, length of line, journal and    *)
(* number of packages: answers are whole, no child is left, and the topic  *)
(* follows the journal in order.                                           *)
(*                                                                         *)
(* The text a child writes is followed part by part: Runs says that a      *)
(* sequence of parts goes on from a part without a gap, EndOf where it     *)
(* ends.  ServicesProofs has the lemmas about the pump.                    *)
(***************************************************************************)
EXTENDS Logs, ServicesProofs

-----------------------------------------------------------------------------
(* Sequences laid end to end, and numbers in order.                        *)

\* Sequences laid end to end: what is computed step by step.
Joins(s, f, m) == f = [i \in 1..m |-> IF i = 1 THEN s[i] ELSE f[i - 1] \o s[i]]

LEMMA EndsRule ==
    ASSUME NEW S, NEW n \in Nat, NEW s \in [1..n -> Seq(S)], NEW m \in Nat, m + 1 <= n
    PROVE  \E f \in [1..m + 1 -> Seq(S)] : Joins(s, f, m + 1)
<1> DEFINE T == {k \in Nat : k + 1 <= n => \E f \in [1..k + 1 -> Seq(S)] : Joins(s, f, k + 1)}
<1>1. 0 \in T
  <2>1. PICK f : f = [i \in 1..1 |-> s[1]]
    OBVIOUS
  <2>2. 1 <= n => f \in [1..1 -> Seq(S)] /\ Joins(s, f, 1)
    BY <2>1 DEF Joins
  <2> QED
    BY <2>2
<1>2. ASSUME NEW k \in Nat, k \in T PROVE k + 1 \in T
  <2>1. CASE ~ (k + 2 <= n)
    BY <2>1
  <2>2. CASE k + 2 <= n
    <3>1. PICK f \in [1..k + 1 -> Seq(S)] : Joins(s, f, k + 1)
      BY <1>2, <2>2
    <3>2. PICK x \in Seq(S) : x = f[k + 1] \o s[k + 2]
      <4>1. PICK a \in Seq(S), b \in Seq(S) : a = f[k + 1] /\ b = s[k + 2]
        BY <2>2
      <4>2. a \o b \in Seq(S)
        OBVIOUS
      <4> QED
        BY <4>1, <4>2
    <3>3. PICK g : g = [i \in 1..k + 2 |-> IF i <= k + 1 THEN f[i] ELSE x]
      OBVIOUS
    <3>4. g \in [1..k + 2 -> Seq(S)]
      BY <3>3
    <3>5. ASSUME NEW i \in 1..k + 2 PROVE g[i] = IF i = 1 THEN s[i] ELSE g[i - 1] \o s[i]
      <4>1. CASE i \in 1..k + 1
        <5>1. f[i] = IF i = 1 THEN s[i] ELSE f[i - 1] \o s[i]
          BY <3>1, <4>1 DEF Joins
        <5>2. g[i] = f[i] /\ (i # 1 => g[i - 1] = f[i - 1])
          BY <3>3, <4>1
        <5> QED
          BY <5>1, <5>2
      <4>2. CASE i = k + 2
        <5>1. i - 1 = k + 1 /\ i # 1 /\ ~ (i <= k + 1) /\ i - 1 \in 1..k + 2
          BY <4>2
        <5>2. g[i] = x /\ g[i - 1] = f[k + 1]
          BY <3>3, <5>1
        <5>3. x = f[k + 1] \o s[i]
          BY <3>2, <4>2
        <5> QED
          BY <5>1, <5>2, <5>3
      <4> QED
        BY <4>1, <4>2
    <3>6. Joins(s, g, k + 2)
      BY <3>4, <3>5 DEF Joins
    <3>7. (k + 1) + 1 = k + 2
      OBVIOUS
    <3> QED
      BY <3>4, <3>6, <3>7
  <2> QED
    BY <2>1, <2>2
<1>3. m \in T
  <2> HIDE DEF T
  <2> QED
    BY <1>1, <1>2, Climb
<1> QED
  BY <1>3

LEMMA EndsOnly ==
    ASSUME NEW S, NEW n \in Nat, NEW s \in [1..n -> Seq(S)], NEW f, Joins(s, f, n), NEW g, Joins(s, g, n)
    PROVE  f = g
<1> SUFFICES ASSUME {i \in 1..n : f[i] # g[i]} # {} PROVE FALSE
  <2>1. f = [i \in 1..n |-> f[i]] /\ g = [i \in 1..n |-> g[i]]
    BY DEF Joins
  <2> QED
    BY <2>1
<1>1. {i \in 1..n : f[i] # g[i]} \in SUBSET Nat
  OBVIOUS
<1>2. PICK i \in 1..n : f[i] # g[i] /\ \A j \in 1..n : f[j] # g[j] => i <= j
  BY <1>1, Least
<1>3. /\ f[i] = IF i = 1 THEN s[i] ELSE f[i - 1] \o s[i]
      /\ g[i] = IF i = 1 THEN s[i] ELSE g[i - 1] \o s[i]
  BY DEF Joins
<1>4. i # 1 => f[i - 1] = g[i - 1]
  BY <1>2
<1> QED
  BY <1>2, <1>3, <1>4

LEMMA FlattenRule ==
    ASSUME NEW S, NEW n \in Nat \ {0}, NEW s \in [1..n -> Seq(S)]
    PROVE  \E f \in [1..n -> Seq(S)] :
              /\ f[1] = s[1] /\ \A i \in 2..n : f[i] = f[i - 1] \o s[i]
              /\ FlattenSeq(s) = f[n]
<1>1. PICK f \in [1..n -> Seq(S)] : Joins(s, f, n)
  <2>1. PICK m \in Nat : m + 1 = n
    <3>1. n - 1 \in Nat /\ (n - 1) + 1 = n
      OBVIOUS
    <3> QED
      BY <3>1
  <2>2. \E f \in [1..m + 1 -> Seq(S)] : Joins(s, f, m + 1)
    BY <2>1, EndsRule
  <2> QED
    BY <2>1, <2>2
<1>2. Joins(s, CHOOSE g : Joins(s, g, n), n)
  BY <1>1
<1>3. (CHOOSE g : Joins(s, g, n)) = f
  BY <1>1, <1>2, EndsOnly
<1>4. Len(s) = n
  OBVIOUS
<1>5. FlattenSeq(s) = (CHOOSE g : Joins(s, g, n))[n]
  BY <1>4 DEF FlattenSeq, Joins
<1>6. f[1] = s[1] /\ \A i \in 2..n : f[i] = f[i - 1] \o s[i]
  <2>1. f[1] = s[1]
    BY <1>1 DEF Joins
  <2>2. \A i \in 2..n : i \in 1..n /\ i # 1
    OBVIOUS
  <2>3. ASSUME NEW i \in 1..n PROVE f[i] = IF i = 1 THEN s[i] ELSE f[i - 1] \o s[i]
    BY <1>1 DEF Joins
  <2> QED
    BY <2>1, <2>2, <2>3
<1> QED
  BY <1>3, <1>5, <1>6

\* All the numbers up to n.
LEMMA AscendingAll ==
    ASSUME NEW n \in Nat, NEW s \in Seq(1..n), InOrder(s), ToSet(s) = 1..n
    PROVE  s = [k \in 1..n |-> k]
<1>1. Len(s) \in Nat /\ DOMAIN s = 1..Len(s) /\ \A i \in 1..Len(s) : s[i] \in 1..n
  OBVIOUS
<1>2. \A i, j \in 1..Len(s) : i < j => s[i] < s[j]
  BY <1>1 DEF InOrder
<1>3. \A k \in 1..n : \E i \in 1..Len(s) : s[i] = k
  BY <1>1 DEF ToSet
<1>4. \A i \in 1..Len(s) : s[i] = i
  <2> SUFFICES ASSUME {i \in 1..Len(s) : s[i] # i} # {} PROVE FALSE
    OBVIOUS
  <2>1. PICK i \in 1..Len(s) : s[i] # i /\ \A j \in 1..Len(s) : s[j] # j => i <= j
    <3>1. {i \in 1..Len(s) : s[i] # i} \in SUBSET Nat
      BY <1>1
    <3> QED
      BY <3>1, Least
  <2>2. \A j \in 1..Len(s) : j < i => s[j] = j
    BY <1>1, <2>1
  <2>3. s[i] > i
    <3>1. CASE i = 1
      BY <1>1, <2>1, <3>1
    <3>2. CASE i # 1
      <4>1. i - 1 \in 1..Len(s) /\ i - 1 < i
        BY <1>1, <3>2
      <4>2. s[i - 1] = i - 1 /\ s[i - 1] < s[i]
        BY <1>2, <2>2, <4>1
      <4> QED
        BY <1>1, <2>1, <4>2
    <3> QED
      BY <3>1, <3>2
  <2>4. i \in 1..n
    BY <1>1, <2>3
  <2>5. PICK j \in 1..Len(s) : s[j] = i
    BY <1>3, <2>4
  <2>6. ~ (j < i) /\ j # i
    BY <1>1, <2>1, <2>2, <2>5
  <2> QED
    BY <1>1, <1>2, <2>3, <2>5, <2>6
<1>5. Len(s) = n
  <2>1. \A k \in 1..n : k \in 1..Len(s)
    <3> SUFFICES ASSUME NEW k \in 1..n PROVE k \in 1..Len(s)
      OBVIOUS
    <3>1. PICK j \in 1..Len(s) : s[j] = k
      BY <1>3
    <3> QED
      BY <1>4, <3>1
  <2>2. \A k \in 1..Len(s) : k \in 1..n
    BY <1>1, <1>4
  <2>3. n > 0 => n \in 1..Len(s)
    BY <2>1
  <2>4. Len(s) > 0 => Len(s) \in 1..n
    BY <1>1, <2>2
  <2>5. PICK m \in Nat : m = Len(s)
    BY <1>1
  <2>6. n <= m /\ m <= n
    BY <2>3, <2>4, <2>5
  <2> QED
    BY <2>5, <2>6
<1> QED
  BY <1>1, <1>4, <1>5

-----------------------------------------------------------------------------
(* Text, part by part: len[k] is how many parts the line of entry k has.   *)

Follows(p, q, len) ==
    q = IF p[2] = 0 THEN <<p[1] + 1, 1>>
        ELSE IF p[2] < len[p[1]] THEN <<p[1], p[2] + 1>> ELSE <<p[1], 0>>

\* After the part c comes s; and the part it ends with.
Runs(c, s, len) ==
    /\ s # << >> => Follows(c, s[1], len)
    /\ \A i \in 1..Len(s) - 1 : Follows(s[i], s[i + 1], len)
EndOf(c, s) == IF s = << >> THEN c ELSE s[Len(s)]

Part       == Nat \X Nat
PartsTo(m) == (1..m) \X Nat
Lengths(m) == [1..m -> Nat \ {0}]

LEMMA FollowsRule ==
    ASSUME NEW x, NEW y, NEW q, NEW len, Follows(<<x, y>>, q, len)
    PROVE  q = IF y = 0 THEN <<x + 1, 1>> ELSE IF y < len[x] THEN <<x, y + 1>> ELSE <<x, 0>>
  BY DEF Follows

LEMMA RunsJoin ==
    ASSUME NEW s \in Seq(Part), NEW t \in Seq(Part), NEW c, NEW len,
           Runs(c, s, len), Runs(EndOf(c, s), t, len)
    PROVE  Runs(c, s \o t, len) /\ EndOf(c, s \o t) = EndOf(EndOf(c, s), t)
<1>1. CASE s = << >>
  <2>1. s \o t = t
    BY <1>1
  <2> QED
    BY <1>1, <2>1 DEF EndOf
<1>2. CASE t = << >>
  <2>1. s \o t = s
    BY <1>2
  <2> QED
    BY <1>2, <2>1 DEF EndOf
<1>3. CASE s # << >> /\ t # << >>
  <2> DEFINE u == s \o t
  <2>1. /\ Len(s) \in Nat \ {0} /\ Len(t) \in Nat \ {0} /\ Len(u) = Len(s) + Len(t) /\ u # << >>
        /\ \A i \in 1..Len(s) : u[i] = s[i]
        /\ \A i \in 1..Len(t) : u[Len(s) + i] = t[i]
    BY <1>3
  <2> HIDE DEF u
  <2>2. Follows(c, u[1], len)
    BY <1>3, <2>1 DEF Runs
  <2>3. ASSUME NEW i \in 1..Len(u) - 1 PROVE Follows(u[i], u[i + 1], len)
    <3>1. CASE i < Len(s)
      <4>1. i \in 1..Len(s) - 1 /\ i \in 1..Len(s) /\ i + 1 \in 1..Len(s)
        BY <2>1, <3>1
      <4> QED
        BY <2>1, <4>1 DEF Runs
    <3>2. CASE i = Len(s)
      <4>1. u[i] = s[Len(s)] /\ u[i + 1] = t[1]
        BY <2>1, <3>2
      <4> QED
        BY <1>3, <4>1 DEF Runs, EndOf
    <3>3. CASE i > Len(s)
      <4>1. PICK j \in 1..Len(t) - 1 : i = Len(s) + j
        <5>1. i - Len(s) \in 1..Len(t) - 1 /\ i = Len(s) + (i - Len(s))
          BY <2>1, <3>3
        <5> QED
          BY <5>1
      <4>2. j \in 1..Len(t) /\ j + 1 \in 1..Len(t) /\ i + 1 = Len(s) + (j + 1)
        BY <2>1, <4>1
      <4>3. u[i] = t[j] /\ u[i + 1] = t[j + 1]
        BY <2>1, <4>1, <4>2
      <4> QED
        BY <4>1, <4>3 DEF Runs
    <3> QED
      BY <2>1, <3>1, <3>2, <3>3
  <2>4. u[Len(u)] = t[Len(t)]
    BY <2>1
  <2> QED
    BY <1>3, <2>1, <2>2, <2>3, <2>4 DEF Runs, EndOf, u
<1> QED
  BY <1>1, <1>2, <1>3

LEMMA RunsSplit ==
    ASSUME NEW s \in Seq(Part), NEW t \in Seq(Part), NEW c, NEW len, Runs(c, s \o t, len)
    PROVE  /\ Runs(c, s, len) /\ Runs(EndOf(c, s), t, len)
           /\ EndOf(EndOf(c, s), t) = EndOf(c, s \o t)
<1> DEFINE u == s \o t
<1>1. /\ Len(s) \in Nat /\ Len(t) \in Nat /\ Len(u) = Len(s) + Len(t) /\ u \in Seq(Part)
      /\ \A i \in 1..Len(s) : u[i] = s[i]
      /\ \A i \in 1..Len(t) : u[Len(s) + i] = t[i]
      /\ (s # << >> => Len(s) > 0) /\ (t # << >> => Len(t) > 0) /\ (u = << >> <=> Len(u) = 0)
      /\ (s = << >> => Len(s) = 0) /\ (t = << >> => Len(t) = 0)
  OBVIOUS
<1>2. (u # << >> => Follows(c, u[1], len)) /\ \A i \in 1..Len(u) - 1 : Follows(u[i], u[i + 1], len)
  BY DEF Runs
<1> HIDE DEF u
<1>3. Runs(c, s, len)
  <2>1. s # << >> => Follows(c, s[1], len)
    <3>1. s # << >> => u # << >> /\ u[1] = s[1]
      BY <1>1
    <3> QED
      BY <1>2, <3>1
  <2>2. ASSUME NEW i \in 1..Len(s) - 1 PROVE Follows(s[i], s[i + 1], len)
    <3>1. i \in 1..Len(s) /\ i + 1 \in 1..Len(s) /\ i \in 1..Len(u) - 1
      BY <1>1
    <3> QED
      BY <1>1, <1>2, <3>1
  <2> QED
    BY <2>1, <2>2 DEF Runs
<1>4. Runs(EndOf(c, s), t, len)
  <2>1. t # << >> => Follows(EndOf(c, s), t[1], len)
    <3> SUFFICES ASSUME t # << >> PROVE Follows(EndOf(c, s), t[1], len)
      OBVIOUS
    <3>1. 1 \in 1..Len(t) /\ u[Len(s) + 1] = t[1] /\ u # << >>
      BY <1>1
    <3>2. CASE s = << >>
      BY <1>1, <1>2, <3>1, <3>2 DEF EndOf
    <3>3. CASE s # << >>
      <4>1. Len(s) \in 1..Len(u) - 1 /\ Len(s) \in 1..Len(s)
        BY <1>1, <3>1, <3>3
      <4> QED
        BY <1>1, <1>2, <3>1, <3>3, <4>1 DEF EndOf
    <3> QED
      BY <3>2, <3>3
  <2>2. ASSUME NEW i \in 1..Len(t) - 1 PROVE Follows(t[i], t[i + 1], len)
    <3>1. i \in 1..Len(t) /\ i + 1 \in 1..Len(t) /\ Len(s) + i \in 1..Len(u) - 1
          /\ (Len(s) + i) + 1 = Len(s) + (i + 1)
      BY <1>1
    <3> QED
      BY <1>1, <1>2, <3>1
  <2> QED
    BY <2>1, <2>2 DEF Runs
<1>5. EndOf(EndOf(c, s), t) = EndOf(c, u)
  <2>1. CASE t = << >>
    <3>1. u = s
      BY <2>1 DEF u
    <3> QED
      BY <2>1, <3>1 DEF EndOf
  <2>2. CASE t # << >>
    <3>1. Len(t) \in 1..Len(t) /\ u # << >>
      BY <1>1, <2>2
    <3> QED
      BY <1>1, <2>2, <3>1 DEF EndOf
  <2> QED
    BY <2>1, <2>2
<1> QED
  BY <1>3, <1>4, <1>5 DEF u

\* The text of the entries after a, up to b.
IsText(s, a, b, len) ==
    /\ s \in Seq((a + 1 .. b) \X Nat)
    /\ Runs(<<a, 0>>, s, len) /\ EndOf(<<a, 0>>, s) = <<b, 0>>

LEMMA LineIsText ==
    ASSUME NEW a \in Nat, NEW n \in Nat \ {0}, NEW len, len[a + 1] = n
    PROVE  IsText(LineOf(a + 1, n), a, a + 1, len)
<1> DEFINE s == [i \in 1..n |-> <<a + 1, i>>]
           u == Append(s, <<a + 1, 0>>)
<1>1. s \in Seq((a + 1 .. a + 1) \X Nat) /\ Len(s) = n /\ \A i \in 1..n : s[i] = <<a + 1, i>>
  OBVIOUS
<1> HIDE DEF s
<1>2. /\ u \in Seq((a + 1 .. a + 1) \X Nat) /\ Len(u) = n + 1 /\ u # << >>
      /\ \A i \in 1..n : u[i] = <<a + 1, i>>
      /\ u[n + 1] = <<a + 1, 0>>
  <2>1. <<a + 1, 0>> \in (a + 1 .. a + 1) \X Nat
    OBVIOUS
  <2> QED
    BY <1>1, <2>1
<1> HIDE DEF u
<1>3. Follows(<<a, 0>>, u[1], len)
  BY <1>2 DEF Follows
<1>4. ASSUME NEW i \in 1..Len(u) - 1 PROVE Follows(u[i], u[i + 1], len)
  <2>1. CASE i < n
    <3>1. u[i] = <<a + 1, i>> /\ u[i + 1] = <<a + 1, i + 1>> /\ i # 0
      BY <1>2, <2>1
    <3> QED
      BY <2>1, <3>1 DEF Follows
  <2>2. CASE i = n
    <3>1. u[i] = <<a + 1, n>> /\ u[i + 1] = <<a + 1, 0>>
      BY <1>2, <2>2
    <3> QED
      BY <3>1 DEF Follows
  <2> QED
    BY <1>2, <2>1, <2>2
<1> QED
  BY <1>2, <1>3, <1>4 DEF IsText, Runs, EndOf, LineOf, s, u

LEMMA TextJoin ==
    ASSUME NEW a \in Nat, NEW b \in Nat, NEW d \in Nat, a <= b, b <= d, NEW len,
           NEW s, IsText(s, a, b, len), NEW t, IsText(t, b, d, len)
    PROVE  IsText(s \o t, a, d, len)
<1>1. s \in Seq((a + 1 .. d) \X Nat) /\ t \in Seq((a + 1 .. d) \X Nat)
  <2>1. \A x \in (a + 1 .. b) \X Nat : x \in (a + 1 .. d) \X Nat
    OBVIOUS
  <2>2. \A x \in (b + 1 .. d) \X Nat : x \in (a + 1 .. d) \X Nat
    OBVIOUS
  <2>3. s \in Seq((a + 1 .. b) \X Nat) /\ t \in Seq((b + 1 .. d) \X Nat)
    BY DEF IsText
  <2>4. s \in Seq((a + 1 .. d) \X Nat)
    BY <2>1, <2>3, LargerSet
  <2>5. t \in Seq((a + 1 .. d) \X Nat)
    BY <2>2, <2>3, LargerSet
  <2> QED
    BY <2>4, <2>5
<1>2. s \o t \in Seq((a + 1 .. d) \X Nat)
  <2> DEFINE P == (a + 1 .. d) \X Nat
  <2>1. s \in Seq(P) /\ t \in Seq(P)
    BY <1>1
  <2> HIDE DEF P
  <2>2. s \o t \in Seq(P)
    BY <2>1
  <2> QED
    BY <2>2 DEF P
<1>3. s \in Seq(Part) /\ t \in Seq(Part)
  <2>1. \A x \in (a + 1 .. d) \X Nat : x \in Part
    BY DEF Part
  <2>2. s \in Seq(Part)
    BY <1>1, <2>1, LargerSet
  <2>3. t \in Seq(Part)
    BY <1>1, <2>1, LargerSet
  <2> QED
    BY <2>2, <2>3
<1>4. Runs(<<a, 0>>, s \o t, len) /\ EndOf(<<a, 0>>, s \o t) = EndOf(EndOf(<<a, 0>>, s), t)
  BY <1>3, RunsJoin DEF IsText
<1> QED
  BY <1>2, <1>4 DEF IsText

LEMMA TextsJoin ==
    ASSUME NEW a \in Nat, NEW m \in Nat \ {0}, NEW len,
           NEW s \in [1..m -> Seq((a + 1 .. a + m) \X Nat)],
           \A n \in 1..m : IsText(s[n], a + n - 1, a + n, len)
    PROVE  IsText(FlattenSeq(s), a, a + m, len)
<1>1. PICK P : P = (a + 1 .. a + m) \X Nat /\ s \in [1..m -> Seq(P)]
  OBVIOUS
<1>2. PICK f \in [1..m -> Seq(P)] : /\ f[1] = s[1] /\ \A i \in 2..m : f[i] = f[i - 1] \o s[i]
                                    /\ FlattenSeq(s) = f[m]
  <2>1. s \in [1..m -> Seq(P)]
    BY <1>1
  <2>2. \A n \in Nat \ {0} : \A z \in [1..n -> Seq(P)] :
           \E f \in [1..n -> Seq(P)] : /\ f[1] = z[1] /\ \A i \in 2..n : f[i] = f[i - 1] \o z[i]
                                      /\ FlattenSeq(z) = f[n]
    BY FlattenRule
  <2> QED
    BY <2>1, <2>2
<1> DEFINE T == {n \in Nat : n + 1 <= m => IsText(f[n + 1], a, a + (n + 1), len)}
<1>3. 0 \in T
  <2>1. 1 \in 1..m /\ a + 1 - 1 = a
    OBVIOUS
  <2>2. IsText(s[1], a, a + 1, len)
    BY <2>1
  <2> QED
    BY <1>2, <2>2
<1>4. ASSUME NEW n \in Nat, n \in T PROVE n + 1 \in T
  <2> SUFFICES ASSUME (n + 1) + 1 <= m PROVE IsText(f[(n + 1) + 1], a, a + ((n + 1) + 1), len)
    OBVIOUS
  <2>1. PICK k \in 2..m : k = (n + 1) + 1 /\ k - 1 = n + 1 /\ k \in 1..m
    OBVIOUS
  <2>2. IsText(f[k - 1], a, a + (k - 1), len)
    BY <1>4, <2>1
  <2>3. IsText(s[k], a + k - 1, a + k, len) /\ a + k - 1 = a + (k - 1)
    BY <2>1
  <2>4. IsText(f[k - 1] \o s[k], a, a + k, len)
    <3>1. PICK c \in Nat, d \in Nat : c = a + (k - 1) /\ d = a + k /\ a <= c /\ c <= d
      BY <2>1
    <3> QED
      BY <2>2, <2>3, <3>1, TextJoin
  <2> QED
    BY <1>2, <2>1, <2>4
<1>5. m - 1 \in T
  <2> HIDE DEF T
  <2>1. m - 1 \in Nat
    OBVIOUS
  <2> QED
    BY <1>3, <1>4, <2>1, Climb
<1>6. (m - 1) + 1 = m
  OBVIOUS
<1>7. IsText(f[m], a, a + m, len)
  BY <1>5, <1>6
<1> QED
  BY <1>2, <1>7

\* Lines laid end to end.
LEMMA LinesAreText ==
    ASSUME NEW a \in Nat, NEW b \in Nat, a <= b, NEW len, \A k \in a + 1 .. b : len[k] \in Nat \ {0},
           NEW s, s = [n \in 1..b - a |-> LineOf(a + n, len[a + n])]
    PROVE  IsText(FlattenSeq(s), a, b, len)
<1>1. CASE a = b
  <2>1. s = << >>
    BY <1>1
  <2>2. FlattenSeq(s) = << >>
    BY <2>1 DEF FlattenSeq
  <2>3. Len(<< >>) = 0 /\ << >> \in Seq((a + 1 .. b) \X Nat)
    OBVIOUS
  <2>4. Runs(<<a, 0>>, << >>, len)
    BY <2>3 DEF Runs
  <2>5. EndOf(<<a, 0>>, << >>) = <<b, 0>>
    BY <1>1 DEF EndOf
  <2> QED
    BY <2>2, <2>3, <2>4, <2>5 DEF IsText
<1>2. CASE a < b
  <2> DEFINE P == (a + 1 .. b) \X Nat
  <2>1. PICK m \in Nat \ {0} : m = b - a
    BY <1>2
  <2>2. ASSUME NEW n \in 1..m PROVE IsText(s[n], a + n - 1, a + n, len) /\ s[n] \in Seq(P)
    <3>1. PICK c \in Nat : c = a + n - 1 /\ c + 1 = a + n /\ c + 1 \in a + 1 .. b
      BY <2>1
    <3>2. IsText(LineOf(c + 1, len[c + 1]), c, c + 1, len)
      BY <3>1, LineIsText
    <3>3. s[n] = LineOf(c + 1, len[c + 1])
      BY <2>1, <3>1
    <3>4. \A x \in (c + 1 .. c + 1) \X Nat : x \in P
      BY <3>1
    <3>5. s[n] \in Seq((c + 1 .. c + 1) \X Nat)
      BY <3>2, <3>3 DEF IsText
    <3> HIDE DEF P
    <3>6. s[n] \in Seq(P)
      BY <3>4, <3>5, LargerSet
    <3> QED
      BY <3>1, <3>2, <3>3, <3>6
  <2>3. s = [n \in 1..m |-> s[n]] /\ a + m = b
    BY <2>1
  <2>4. s \in [1..m -> Seq((a + 1 .. a + m) \X Nat)]
    <3> HIDE DEF P
    <3>1. s \in [1..m -> Seq(P)]
      BY <2>2, <2>3
    <3> QED
      BY <2>3, <3>1 DEF P
  <2>5. IsText(FlattenSeq(s), a, a + m, len)
    BY <2>2, <2>4, TextsJoin
  <2> QED
    BY <2>3, <2>5
<1> QED
  BY <1>1, <1>2

\* What text says before it comes to k's newline, or beyond k.
LEMMA Passed ==
    ASSUME NEW a \in Nat, NEW m \in Nat, NEW len \in Lengths(m),
           NEW s \in Seq(PartsTo(m)), Runs(<<a, 0>>, s, len), NEW k \in 1..m, a < k
    PROVE  \A q \in 1..Len(s) : s[q][1] > k \/ s[q] = <<k, 0>> =>
              \E p \in 1..Len(s) : p < q /\ s[p] = <<k, len[k]>>
<1> SUFFICES ASSUME NEW q \in 1..Len(s), s[q][1] > k \/ s[q] = <<k, 0>>
             PROVE  \E p \in 1..Len(s) : p < q /\ s[p] = <<k, len[k]>>
  OBVIOUS
<1>1. Len(s) \in Nat /\ \A i \in 1..Len(s) : \E x \in 1..m, y \in Nat : s[i] = <<x, y>>
  <2>1. Len(s) \in Nat /\ \A i \in 1..Len(s) : s[i] \in PartsTo(m)
    OBVIOUS
  <2>2. \A z \in PartsTo(m) : \E x \in 1..m, y \in Nat : z = <<x, y>>
    BY DEF PartsTo
  <2> QED
    BY <2>1, <2>2
<1>2. PICK p \in 1..Len(s) : /\ s[p][1] > k \/ s[p] = <<k, 0>>
                             /\ \A i \in 1..Len(s) : s[i][1] > k \/ s[i] = <<k, 0>> => p <= i
  <2> DEFINE T == {i \in 1..Len(s) : s[i][1] > k \/ s[i] = <<k, 0>>}
  <2>1. T \in SUBSET Nat /\ q \in T
    OBVIOUS
  <2>2. PICK p \in T : \A i \in T : p <= i
    BY <2>1, Least
  <2> QED
    BY <2>2
<1>3. s # << >> /\ Follows(<<a, 0>>, s[1], len)
  BY <1>1 DEF Runs
<1>4. p # 1
  BY <1>2, <1>3 DEF Follows
<1>5. PICK o \in 1..Len(s) - 1 : o + 1 = p /\ o \in 1..Len(s) /\ ~ (p <= o)
  <2>1. /\ p - 1 \in 1..Len(s) - 1 /\ (p - 1) + 1 = p
        /\ p - 1 \in 1..Len(s) /\ ~ (p <= p - 1)
    <3>1. PICK n \in Nat : n = Len(s)
      BY <1>1
    <3>2. p \in 1..n /\ p # 1
      BY <1>4, <3>1
    <3> QED
      BY <3>1, <3>2
  <2> QED
    BY <2>1, Zenon
<1>6. Follows(s[o], s[p], len)
  BY <1>5 DEF Runs
<1>7. PICK x \in 1..m, y \in Nat : s[o] = <<x, y>>
  BY <1>1, <1>5
<1>8. ~ (x > k) /\ ~ (x = k /\ y = 0)
  <2>1. ~ (s[o][1] > k \/ s[o] = <<k, 0>>)
    BY <1>2, <1>5
  <2> QED
    BY <1>7, <2>1
<1>9. y <= len[x]
  <2>1. CASE o = 1
    <3>1. s[1] = <<a + 1, 1>>
      BY <1>3 DEF Follows
    <3> QED
      BY <1>7, <2>1, <3>1 DEF Lengths
  <2>2. CASE o # 1
    <3>1. PICK n \in 1..Len(s) - 1 : n + 1 = o /\ n \in 1..Len(s)
      <4>1. o - 1 \in 1..Len(s) - 1 /\ (o - 1) + 1 = o
        BY <1>1, <1>5, <2>2
      <4> QED
        BY <1>1, <4>1
    <3>2. Follows(s[n], s[o], len)
      BY <3>1 DEF Runs
    <3>3. PICK v \in 1..m, w \in Nat : s[n] = <<v, w>>
      BY <1>1, <3>1
    <3>4. <<x, y>> = IF w = 0 THEN <<v + 1, 1>> ELSE IF w < len[v] THEN <<v, w + 1>> ELSE <<v, 0>>
      BY <1>7, <3>2, <3>3, FollowsRule
    <3>5. len[x] \in Nat \ {0} /\ len[v] \in Nat \ {0}
      BY DEF Lengths
    <3>6. CASE w # 0 /\ w < len[v]
      <4>1. x = v /\ y = w + 1
        BY <3>4, <3>6
      <4> QED
        BY <3>5, <3>6, <4>1
    <3>7. CASE ~ (w # 0 /\ w < len[v])
      <4>1. y = 1 \/ y = 0
        BY <3>4, <3>7
      <4> QED
        BY <3>5, <4>1
    <3> QED
      BY <3>6, <3>7
  <2> QED
    BY <2>1, <2>2
<1>10. s[o] = <<k, len[k]>>
  <2>1. s[p] = IF y = 0 THEN <<x + 1, 1>> ELSE IF y < len[x] THEN <<x, y + 1>> ELSE <<x, 0>>
    BY <1>6, <1>7, FollowsRule
  <2>2. len[x] \in Nat \ {0}
    BY DEF Lengths
  <2>3. CASE y = 0
    BY <1>2, <1>8, <2>1, <2>3
  <2>4. CASE y # 0 /\ y < len[x]
    BY <1>2, <1>8, <2>1, <2>4
  <2>5. CASE y # 0 /\ ~ (y < len[x])
    <3>1. s[p] = <<x, 0>>
      BY <2>1, <2>5
    <3>2. x = k
      BY <1>2, <1>8, <3>1
    <3>3. y = len[x]
      BY <1>9, <2>2, <2>5
    <3> QED
      BY <1>7, <3>2, <3>3
  <2> QED
    BY <2>3, <2>4, <2>5
<1>11. o < q
  <2>1. p <= q
    BY <1>2
  <2> QED
    BY <1>1, <1>5, <2>1
<1> QED
  BY <1>5, <1>10, <1>11

\* Of text that is told only in part, the entries that are told in full are the
\* first ones.
LEMMA FullAreFirst ==
    ASSUME NEW a \in Nat, NEW m \in Nat, NEW len \in Lengths(m),
           NEW s \in Seq(PartsTo(m)), Runs(<<a, 0>>, s, len),
           NEW k \in 1..m, a < k, NEW j \in 1..m, k < j, Contains(s, <<j, len[j]>>)
    PROVE  Contains(s, <<k, len[k]>>)
<1>1. PICK q \in 1..Len(s) : s[q] = <<j, len[j]>>
  BY DEF Contains
<1>2. s[q][1] > k
  BY <1>1
<1>3. \A i \in 1..Len(s) : s[i][1] > k \/ s[i] = <<k, 0>> =>
          \E p \in 1..Len(s) : p < i /\ s[p] = <<k, len[k]>>
  BY Passed
<1> QED
  BY <1>2, <1>3 DEF Contains

\* Whole text has all of them, and no other.
LEMMA WholeText ==
    ASSUME NEW a \in Nat, NEW b \in Nat, a <= b, NEW m \in Nat, b <= m, NEW len \in Lengths(m),
           NEW s, IsText(s, a, b, len), NEW k \in a + 1 .. b
    PROVE  Contains(s, <<k, len[k]>>)
<1>1. s \in Seq(PartsTo(m)) /\ Len(s) \in Nat /\ (s # << >> => Len(s) > 0)
  <2>1. \A x \in (a + 1 .. b) \X Nat : x \in PartsTo(m)
    BY DEF PartsTo
  <2>2. s \in Seq((a + 1 .. b) \X Nat)
    BY DEF IsText
  <2> QED
    BY <2>1, <2>2, LargerSet
<1>2. s # << >> /\ s[Len(s)] = <<b, 0>>
  BY DEF IsText, EndOf
<1>3. Len(s) \in 1..Len(s)
  BY <1>1, <1>2
<1>4. k \in 1..m /\ a < k
  OBVIOUS
<1>5. s[Len(s)][1] > k \/ s[Len(s)] = <<k, 0>>
  BY <1>2
<1>6. Runs(<<a, 0>>, s, len)
  BY DEF IsText
<1>7. \A i \in 1..Len(s) : s[i][1] > k \/ s[i] = <<k, 0>> =>
          \E p \in 1..Len(s) : p < i /\ s[p] = <<k, len[k]>>
  <2>1. s \in Seq(PartsTo(m)) /\ k \in 1..m /\ a < k
    BY <1>1, <1>4
  <2> QED
    BY <1>6, <2>1, Passed
<1> QED
  BY <1>3, <1>5, <1>7 DEF Contains

\* The parts up to the next newline.
LEMMA LineSoFar ==
    ASSUME NEW e \in Nat, NEW r \in Nat, NEW m \in Nat, NEW len \in Lengths(m),
           r > 0 => e + 1 \in 1..m /\ r <= len[e + 1],
           NEW s \in Seq(PartsTo(m)), Runs(IF r = 0 THEN <<e, 0>> ELSE <<e + 1, r>>, s, len),
           NEW u \in 0..Len(s), \A i \in 1..u : s[i][2] # 0
    PROVE  /\ \A i \in 1..u : s[i] = <<e + 1, r + i>>
           /\ r + u > 0 => e + 1 \in 1..m /\ r + u <= len[e + 1]
<1>1. Len(s) \in Nat /\ \A i \in 1..Len(s) : \E x \in 1..m, y \in Nat : s[i] = <<x, y>>
  <2>1. Len(s) \in Nat /\ \A i \in 1..Len(s) : s[i] \in PartsTo(m)
    OBVIOUS
  <2>2. \A z \in PartsTo(m) : \E x \in 1..m, y \in Nat : z = <<x, y>>
    BY DEF PartsTo
  <2> QED
    BY <2>1, <2>2
<1> DEFINE Fits(i) == s[i] = <<e + 1, r + i>> /\ e + 1 \in 1..m /\ r + i <= len[e + 1]
<1>2. ASSUME 1 \in 1..u PROVE Fits(1)
  <2>1. Follows(IF r = 0 THEN <<e, 0>> ELSE <<e + 1, r>>, s[1], len) /\ 1 \in 1..Len(s)
    BY <1>1, <1>2 DEF Runs
  <2>2. PICK x \in 1..m, y \in Nat : s[1] = <<x, y>>
    BY <1>1, <2>1
  <2>3. y # 0
    BY <1>2, <2>2
  <2>4. CASE r = 0
    <3>1. <<x, y>> = <<e + 1, 1>>
      BY <2>1, <2>2, <2>4, FollowsRule
    <3>2. x = e + 1 /\ y = 1 /\ len[x] \in Nat \ {0}
      BY <3>1 DEF Lengths
    <3> QED
      BY <2>2, <2>4, <3>2
  <2>5. CASE r # 0
    <3>1. <<x, y>> = IF r < len[e + 1] THEN <<e + 1, r + 1>> ELSE <<e + 1, 0>>
      BY <2>1, <2>2, <2>5, FollowsRule
    <3>2. r < len[e + 1] /\ x = e + 1 /\ y = r + 1
      BY <2>3, <3>1
    <3>3. len[e + 1] \in Nat
      BY <2>5 DEF Lengths
    <3> QED
      BY <2>2, <2>5, <3>2, <3>3
  <2> QED
    BY <2>4, <2>5
<1>3. ASSUME NEW i \in 1..u, i + 1 \in 1..u, Fits(i) PROVE Fits(i + 1)
  <2>1. Follows(s[i], s[i + 1], len) /\ i + 1 \in 1..Len(s)
    <3>1. Len(s) \in Nat /\ u <= Len(s) /\ u \in Nat
      BY <1>1
    <3>2. i \in 1..Len(s) - 1 /\ i + 1 \in 1..Len(s)
      BY <1>3, <3>1
    <3> QED
      BY <3>2 DEF Runs
  <2>2. PICK x \in 1..m, y \in Nat : s[i + 1] = <<x, y>>
    BY <1>1, <2>1
  <2>3. y # 0
    <3>1. s[i + 1][2] # 0
      BY <1>3
    <3> QED
      BY <2>2, <3>1
  <2>4. <<x, y>> = IF r + i < len[e + 1] THEN <<e + 1, r + i + 1>> ELSE <<e + 1, 0>>
    <3>1. r + i # 0
      OBVIOUS
    <3> QED
      BY <1>3, <2>1, <2>2, <3>1, FollowsRule
  <2>5. r + i < len[e + 1] /\ x = e + 1 /\ y = r + i + 1
    BY <2>3, <2>4
  <2>6. len[e + 1] \in Nat
    BY <1>3 DEF Lengths
  <2> QED
    BY <1>3, <2>2, <2>5, <2>6
<1>4. \A i \in 1..u : Fits(i)
  <2> HIDE DEF Fits
  <2> SUFFICES ASSUME {i \in 1..u : ~ Fits(i)} # {} PROVE FALSE
    OBVIOUS
  <2>1. {i \in 1..u : ~ Fits(i)} \in SUBSET Nat
    OBVIOUS
  <2>2. PICK i \in 1..u : ~ Fits(i) /\ \A j \in 1..u : ~ Fits(j) => i <= j
    BY <2>1, Least
  <2>3. i # 1
    BY <1>2, <2>2
  <2>4. PICK j \in 1..u : j + 1 = i /\ ~ (i <= j)
    <3>1. i - 1 \in 1..u /\ (i - 1) + 1 = i /\ ~ (i <= i - 1)
      BY <2>3
    <3> QED
      BY <3>1
  <2> QED
    BY <1>3, <2>2, <2>4
<1>5. CASE u = 0
  BY <1>4, <1>5
<1>6. CASE u # 0
  <2>1. u \in 1..u
    BY <1>1, <1>6
  <2> QED
    BY <1>4, <2>1
<1> QED
  BY <1>5, <1>6

-----------------------------------------------------------------------------
(* The invariant of the queries.                                           *)

Sizes   == [k \in 1..Len(journal) |-> Content(k)]
Halves  == [k \in 1..Packages |-> 2]
Hearing == query.pc \in {"read", "wait"}

\* All the child has to say: what was read, and what is still to be.
Saying == (buf \o child.pipe) \o child.left

\* The client has the entries of the journal up to its cursor that it can have.
PagesInv ==
    /\ query.cursor <= Len(journal)
    /\ query.cursor = IF pages = << >> THEN 0 ELSE pages[Len(pages)]
    /\ InOrder(pages)
    /\ \A i \in 1..Len(pages) : pages[i] <= Len(journal)
    /\ \A i \in 1..Len(pages) - 1 : \A k \in pages[i] + 1 .. pages[i+1] - 1 : journal[k] = "junk"

\* The child of a query for entries tells those after the cursor, whole.
AskInv ==
    /\ query.what = "logs" => window[2] <= Len(journal)
    /\ query.what = "logs" /\ Hearing =>
          /\ window[1] <= window[2] + 1
          /\ query.cursor # 0 => window[1] = query.cursor + 1
          /\ IsText(Saying, window[1] - 1, window[2], Sizes)
    /\ query.pc = "end" => query.what = "logs"
    /\ query.pc = "end" /\ whole => \A k \in window[1]..window[2] : journal[k] = "junk"

\* The child of a query for packages.
AskListInv ==
    query.what = "packages" /\ Hearing => /\ window[2] <= Packages
                                          /\ IsText(Saying, 0, window[2], Halves)

\* A child that ended well has said everything; when it is waited for, its pipe
\* has been emptied.
ChildInv ==
    /\ ~ Hearing => child = NoChild
    /\ child.state \in {"closed", "ok"} => child.left = << >>
    /\ query.pc = "wait" => child.pipe = << >> /\ child.state # "running"

QueryInv == PagesInv /\ AskInv /\ AskListInv /\ ChildInv /\ ListTellsTruth

-----------------------------------------------------------------------------
(* The invariant of the follow task.                                       *)

\* What the reader has when it has r parts of line k; the part it is at when it has
\* e lines and r parts of the next.
Start(k, r) == [i \in 1..r |-> <<k, i>>]
At(e, r)    == IF r = 0 THEN <<e, 0>> ELSE <<e + 1, r>>

\* The parts are stored if there was room.
Stored(e, r) == IF over THEN r > MAX_FOLLOW_LINE ELSE line = Start(e + 1, r)

\* The first e entries have been told; of the next line r parts were read; the
\* rest is in the pipe or not yet written.
Heard(e, r) ==
    /\ r > 0 => e + 1 <= follow.pos /\ r <= Content(e + 1)
    /\ Runs(At(e, r), out.pipe \o out.left, Sizes)
    /\ EndOf(At(e, r), out.pipe \o out.left) = <<follow.pos, 0>>
    /\ Stored(e, r)
    /\ ToSet(ring) = Wanted(e)

\* A journalctl that died, or closed its stdout, in the middle of a line.
Torn ==
    /\ follow.child # "running" /\ out.pipe = << >> /\ out.left # << >>
    /\ line = << >> /\ ~ over
    /\ \E n \in 0..follow.pos : ToSet(ring) = Wanted(n)

FollowInv ==
    /\ follow.pos <= Len(journal)
    /\ follow.task = "ended" => follow.child = "dead"
    /\ out.pipe \in Seq(PartsTo(follow.pos)) /\ out.left \in Seq(PartsTo(follow.pos))
    /\ InOrder(ring)
    /\ (\E e \in 0..follow.pos, r \in Nat : Heard(e, r)) \/ Torn

-----------------------------------------------------------------------------
(* The texts of the children.                                              *)

LEMMA FlattenType ==
    ASSUME NEW S, NEW n \in Nat, NEW s \in [1..n -> Seq(S)]
    PROVE  FlattenSeq(s) \in Seq(S)
<1>1. CASE n = 0
  <2>1. s = << >> /\ << >> \in Seq(S)
    BY <1>1
  <2>2. FlattenSeq(s) = << >>
    BY <2>1 DEF FlattenSeq
  <2> QED
    BY <2>1, <2>2
<1>2. CASE n # 0
  <2>1. \A m \in Nat \ {0} : \A z \in [1..m -> Seq(S)] :
           \E f \in [1..m -> Seq(S)] : /\ f[1] = z[1] /\ \A i \in 2..m : f[i] = f[i - 1] \o z[i]
                                      /\ FlattenSeq(z) = f[m]
    BY FlattenRule
  <2>2. PICK f \in [1..n -> Seq(S)] : FlattenSeq(s) = f[n]
    BY <1>2, <2>1
  <2> QED
    BY <1>2, <2>2
<1> QED
  BY <1>1, <1>2

LEMMA LineType ==
    ASSUME NEW k \in 1..MaxEntries + Packages, NEW n \in 0..LongLine
    PROVE  LineOf(k, n) \in Seq(Parts)
<1>1. /\ \A i \in 1..n : <<k, i>> \in Parts
      /\ <<k, 0>> \in Parts
  BY LogsAssumption DEF Parts
<1>2. [i \in 1..n |-> <<k, i>>] \in Seq(Parts)
  BY <1>1
<1> QED
  BY <1>1, <1>2 DEF LineOf

JournalType == journal \in Seq(Kinds) /\ Len(journal) <= MaxEntries

LEMMA SizesType ==
    ASSUME JournalType
    PROVE  /\ Len(journal) \in Nat /\ Sizes \in Lengths(Len(journal))
           /\ \A k \in 1..Len(journal) : Sizes[k] = Content(k) /\ Content(k) \in 1..LongLine
<1>1. Len(journal) \in Nat
  BY DEF JournalType
<1>2. \A k \in 1..Len(journal) : Content(k) \in 1..LongLine
  BY LogsAssumption DEF Content
<1>3. Sizes \in Lengths(Len(journal))
  BY <1>1, <1>2, LogsAssumption DEF Sizes, Lengths
<1>4. \A k \in 1..Len(journal) : Sizes[k] = Content(k)
  BY DEF Sizes
<1> QED
  BY <1>1, <1>2, <1>3, <1>4

LEMMA TextIs ==
    ASSUME JournalType, NEW i \in Nat \ {0}, NEW j \in Nat, j <= Len(journal), i <= j + 1
    PROVE  IsText(Text(i, j), i - 1, j, Sizes) /\ Text(i, j) \in Seq(Parts)
<1>1. PICK a \in Nat : a = i - 1 /\ a <= j
  <2>1. i - 1 \in Nat /\ i - 1 <= j
    OBVIOUS
  <2> QED
    BY <2>1
<1>2. PICK n \in Nat : n = j - a
  <2>1. j - a \in Nat
    BY <1>1
  <2> QED
    BY <2>1
<1>3. PICK s : s = [k \in 1..n |-> LineOf(a + k, Sizes[a + k])]
  OBVIOUS
<1>4. Text(i, j) = FlattenSeq(s)
  <2>1. j - i + 1 = n
    BY <1>1, <1>2
  <2>2. \A k \in 1..n : k + i - 1 = a + k /\ i + k - 1 = a + k /\ a + k \in 1..Len(journal)
    BY <1>1, <1>2, SizesType
  <2>3. \A k \in 1..n : Line(i + k - 1) = LineOf(a + k, Sizes[a + k])
    BY <2>2, SizesType DEF Line
  <2>4. [k \in 1..n |-> Line(i + k - 1)] = s
    BY <1>3, <2>3
  <2> QED
    BY <2>1, <2>4 DEF Text
<1>5. \A k \in a + 1 .. j : Sizes[k] \in Nat \ {0}
  <2>1. \A k \in a + 1 .. j : k \in 1..Len(journal)
    BY <1>1, SizesType
  <2> QED
    BY <2>1, SizesType, LogsAssumption
<1>6. IsText(FlattenSeq(s), a, j, Sizes)
  BY <1>1, <1>2, <1>3, <1>5, LinesAreText
<1>7. s \in [1..n -> Seq(Parts)]
  <2>1. ASSUME NEW k \in 1..n PROVE LineOf(a + k, Sizes[a + k]) \in Seq(Parts)
    <3>1. a + k \in 1..Len(journal) /\ a + k \in 1..MaxEntries + Packages
      BY <1>1, <1>2, SizesType, LogsAssumption DEF JournalType
    <3>2. Sizes[a + k] \in 0..LongLine
      BY <3>1, SizesType, LogsAssumption
    <3> QED
      BY <3>1, <3>2, LineType
  <2> QED
    BY <1>3, <2>1
<1>8. FlattenSeq(s) \in Seq(Parts)
  BY <1>7, FlattenType
<1> QED
  BY <1>1, <1>4, <1>6, <1>8

LEMMA HalvesType == Halves \in Lengths(Packages) /\ \A k \in 1..Packages : Halves[k] = 2
  BY LogsAssumption DEF Halves, Lengths

LEMMA ListTextIs ==
    ASSUME NEW n \in 0..Packages, NEW t, t = FlattenSeq([k \in 1..n |-> LineOf(k, 2)])
    PROVE  IsText(t, 0, n, Halves) /\ t \in Seq(Parts)
<1>1. PICK s : s = [k \in 1..n |-> LineOf(k, 2)]
  OBVIOUS
<1>2. s = [k \in 1..n - 0 |-> LineOf(0 + k, Halves[0 + k])]
  <2>1. \A k \in 1..n : 0 + k = k /\ Halves[k] = 2
    BY HalvesType, LogsAssumption
  <2>2. n - 0 = n
    BY LogsAssumption
  <2> QED
    BY <1>1, <2>1, <2>2
<1>3. \A k \in 0 + 1 .. n : Halves[k] \in Nat \ {0}
  BY HalvesType, LogsAssumption
<1>4. IsText(FlattenSeq(s), 0, n, Halves)
  BY <1>2, <1>3, LinesAreText, LogsAssumption
<1>5. s \in [1..n -> Seq(Parts)]
  <2>1. ASSUME NEW k \in 1..n PROVE LineOf(k, 2) \in Seq(Parts)
    <3>1. k \in 1..MaxEntries + Packages /\ 2 \in 0..LongLine
      BY LogsAssumption
    <3> QED
      BY <3>1, LineType
  <2> QED
    BY <1>1, <2>1
<1>6. FlattenSeq(s) \in Seq(Parts)
  BY <1>5, FlattenType, LogsAssumption
<1> QED
  BY <1>1, <1>4, <1>6

\* The sizes of lines it does not come to make no difference to a text.
LEMMA RunsExtend ==
    ASSUME NEW x, NEW y, NEW m, NEW s \in Seq(PartsTo(m)), NEW len, NEW more,
           y # 0 => more[x] = len[x],
           \A k \in 1..m : more[k] = len[k], Runs(<<x, y>>, s, len)
    PROVE  Runs(<<x, y>>, s, more)
<1>1. Len(s) \in Nat /\ \A i \in 1..Len(s) : s[i] \in PartsTo(m)
  OBVIOUS
<1>2. ASSUME s # << >> PROVE Follows(<<x, y>>, s[1], more)
  BY <1>2 DEF Runs, Follows
<1>3. ASSUME NEW i \in 1..Len(s) - 1 PROVE Follows(s[i], s[i + 1], more)
  <2>1. s[i][1] \in 1..m
    <3>1. s[i] \in PartsTo(m)
      BY <1>1
    <3>2. \A z \in PartsTo(m) : z[1] \in 1..m
      BY DEF PartsTo
    <3> QED
      BY <3>1, <3>2
  <2>2. Follows(s[i], s[i + 1], len)
    BY DEF Runs
  <2> QED
    BY <2>1, <2>2 DEF Follows
<1> QED
  BY <1>2, <1>3 DEF Runs

LEMMA RunsPrefix ==
    ASSUME NEW c, NEW s \in Seq(Part), NEW t \in Seq(Part), NEW len, Len(t) <= Len(s),
           \A i \in 1..Len(t) : t[i] = s[i], Runs(c, s, len)
    PROVE  Runs(c, t, len)
<1>1. ASSUME t # << >> PROVE Follows(c, t[1], len)
  <2>1. Len(t) \in Nat /\ Len(t) > 0 /\ Len(s) \in Nat
    BY <1>1
  <2>2. s # << >> /\ t[1] = s[1]
    BY <2>1
  <2> QED
    BY <2>2 DEF Runs
<1>2. ASSUME NEW i \in 1..Len(t) - 1 PROVE Follows(t[i], t[i + 1], len)
  <2>1. i \in 1..Len(s) - 1 /\ t[i] = s[i] /\ t[i + 1] = s[i + 1]
    OBVIOUS
  <2> QED
    BY <2>1 DEF Runs
<1> QED
  BY <1>1, <1>2 DEF Runs

\* The last newline, and the next one.
LEMMA LastNewline ==
    ASSUME NEW s \in Seq(Part)
    PROVE  \E n \in 0..Len(s) : /\ n > 0 => s[n][2] = 0
                                /\ \A i \in n + 1 .. Len(s) : s[i][2] # 0
<1> DEFINE T == {n \in 0..Len(s) : \A i \in n + 1 .. Len(s) : s[i][2] # 0}
<1>1. Len(s) \in Nat /\ Len(s) \in T /\ T \in SUBSET Nat
  OBVIOUS
<1>2. PICK n \in T : \A i \in T : n <= i
  BY <1>1, Least
<1>3. ASSUME n > 0, s[n][2] # 0 PROVE FALSE
  <2>1. n - 1 \in 0..Len(s) /\ ~ (n <= n - 1)
    BY <1>1, <1>3
  <2>2. ASSUME NEW i \in (n - 1) + 1 .. Len(s) PROVE s[i][2] # 0
    <3>1. i = n \/ i \in n + 1 .. Len(s)
      BY <1>1
    <3> QED
      BY <1>2, <1>3, <3>1
  <2>3. n - 1 \in T
    BY <2>1, <2>2
  <2> QED
    BY <1>2, <2>1, <2>3
<1> QED
  BY <1>2, <1>3

LEMMA NextNewline ==
    ASSUME NEW s \in Seq(Part), NEW u, u = UptoNewline(s)
    PROVE  /\ u \in 0..Len(s)
           /\ \A i \in 1..u : s[i][2] # 0
           /\ u < Len(s) => s[u + 1][2] = 0
<1> DEFINE T == {n \in 1..Len(s) : s[n][2] = 0}
<1>1. Len(s) \in Nat /\ T \in SUBSET Nat
  OBVIOUS
<1>2. \E n \in 0..Len(s) : /\ \A i \in 1..n : s[i][2] # 0
                           /\ n < Len(s) => s[n + 1][2] = 0
  <2>1. CASE T = {}
    BY <1>1, <2>1
  <2>2. CASE T # {}
    <3>1. PICK n \in T : \A i \in T : n <= i
      BY <1>1, <2>2, Least
    <3>2. n - 1 \in 0..Len(s) /\ (n - 1) + 1 = n
      BY <1>1
    <3>3. \A i \in 1..n - 1 : s[i][2] # 0
      <4>1. \A i \in 1..n - 1 : i \in 1..Len(s) /\ ~ (n <= i)
        BY <1>1
      <4> QED
        BY <3>1, <4>1
    <3> QED
      BY <3>2, <3>3
  <2> QED
    BY <2>1, <2>2
<1> QED
  BY <1>2 DEF UptoNewline

\* The first half of a line comes with the second, if the text ends with a line.
LEMMA BothHalves ==
    ASSUME NEW n \in 0..Packages, NEW s \in Seq(PartsTo(n)), Runs(<<0, 0>>, s, Halves), NEW k \in 1..n
    PROVE  /\ Contains(s, <<k, 2>>) => Contains(s, <<k, 1>>)
           /\ s # << >> /\ s[Len(s)][2] = 0 /\ Contains(s, <<k, 1>>) => Contains(s, <<k, 2>>)
<1>1. Len(s) \in Nat /\ \A i \in 1..Len(s) : \E x \in 1..n, y \in Nat : s[i] = <<x, y>>
  <2>1. Len(s) \in Nat /\ \A i \in 1..Len(s) : s[i] \in PartsTo(n)
    OBVIOUS
  <2>2. \A z \in PartsTo(n) : \E x \in 1..n, y \in Nat : z = <<x, y>>
    BY DEF PartsTo
  <2> QED
    BY <2>1, <2>2
<1>2. \A x \in 1..n : Halves[x] = 2
  BY HalvesType, LogsAssumption
<1>3. ASSUME NEW p \in 1..Len(s), s[p] = <<k, 2>> PROVE \E i \in 1..Len(s) : s[i] = <<k, 1>>
  <2>1. p # 1
    <3>1. CASE p = 1
      <4>1. s # << >> /\ s[1] = <<k, 2>>
        BY <1>1, <1>3, <3>1
      <4>2. Follows(<<0, 0>>, <<k, 2>>, Halves)
        BY <4>1 DEF Runs
      <4>3. <<k, 2>> = <<0 + 1, 1>>
        BY <4>2 DEF Follows
      <4> QED
        BY <4>3
    <3> QED
      BY <3>1
  <2>2. PICK i \in 1..Len(s) - 1 : i + 1 = p /\ i \in 1..Len(s)
    <3>1. p - 1 \in 1..Len(s) - 1 /\ (p - 1) + 1 = p
      BY <1>1, <2>1
    <3> QED
      BY <1>1, <3>1
  <2>3. PICK x \in 1..n, y \in Nat : s[i] = <<x, y>>
    BY <1>1, <2>2
  <2>4. Follows(<<x, y>>, <<k, 2>>, Halves)
    BY <1>3, <2>2, <2>3 DEF Runs
  <2>5. <<k, 2>> = IF y = 0 THEN <<x + 1, 1>> ELSE IF y < 2 THEN <<x, y + 1>> ELSE <<x, 0>>
    BY <1>2, <2>4, FollowsRule
  <2>6. x = k /\ y = 1
    BY <2>5
  <2> QED
    BY <2>3, <2>6, <2>2
<1>4. ASSUME s[Len(s)][2] = 0, NEW p \in 1..Len(s), s[p] = <<k, 1>>
      PROVE  \E i \in 1..Len(s) : s[i] = <<k, 2>>
  <2>1. p # Len(s)
    BY <1>4
  <2>2. p \in 1..Len(s) - 1 /\ p + 1 \in 1..Len(s)
    BY <1>1, <2>1
  <2>3. Follows(<<k, 1>>, s[p + 1], Halves)
    BY <1>4, <2>2 DEF Runs
  <2>4. s[p + 1] = <<k, 2>>
    BY <1>2, <2>3 DEF Follows
  <2> QED
    BY <2>2, <2>4
<1> QED
  BY <1>3, <1>4 DEF Contains

-----------------------------------------------------------------------------
(* Pages.                                                                  *)

\* A page has, of what its journalctl was to tell, everything up to the last of
\* its entries; and everything if the journalctl was heard out.
LEMMA PageRule ==
    ASSUME JournalType, NEW a \in Nat, NEW b \in Nat, a <= b, b <= Len(journal),
           NEW bytes \in Seq(Part), NEW rest \in Seq(Part), IsText(bytes \o rest, a, b, Sizes),
           NEW items, items = ParsedLines(bytes)
    PROVE  /\ items \in Seq(1..Len(journal)) /\ InOrder(items)
           /\ \A i \in 1..Len(items) : items[i] \in a + 1 .. b
           /\ \A k \in a + 1 .. b : \A i \in 1..Len(items) :
                 k < items[i] => k \in ToSet(items) \/ journal[k] = "junk"
           /\ rest = << >> => \A k \in a + 1 .. b : k \in ToSet(items) \/ journal[k] = "junk"
<1> DEFINE S == {k \in 1..Len(journal) : /\ journal[k] # "junk"
                                         /\ Contains(bytes, <<k, Content(k)>>)}
           m == Len(journal)
<1>1. m \in Nat /\ Sizes \in Lengths(m) /\ \A k \in 1..m : Sizes[k] = Content(k)
  BY SizesType
<1>2. S \in SUBSET (1..m) /\ \A k \in S : Contains(bytes, <<k, Sizes[k]>>)
  BY <1>1
<1>3. \A k \in 1..m : Contains(bytes, <<k, Sizes[k]>>) => k \in S \/ journal[k] = "junk"
  BY <1>1
<1>4. items = Ascending(S)
  BY DEF ParsedLines
<1> HIDE DEF S, m
<1>5. items \in Seq(S) /\ InOrder(items) /\ ToSet(items) = S
  BY <1>1, <1>2, <1>4, AscendingRule
<1>6. items \in Seq(1..m) /\ \A i \in 1..Len(items) : items[i] \in S
  <2>1. \A k \in S : k \in 1..m
    BY <1>2
  <2>2. items \in Seq(1..m)
    BY <1>5, <2>1, LargerSet
  <2> QED
    BY <1>5, <2>2
<1>7. bytes \in Seq((a + 1 .. b) \X Nat)
  <2> DEFINE P == (a + 1 .. b) \X Nat
             u == bytes \o rest
  <2>1. u \in Seq(P)
    BY DEF IsText
  <2>2. /\ Len(bytes) \in Nat /\ Len(u) >= Len(bytes)
        /\ \A i \in 1..Len(bytes) : i \in 1..Len(u) /\ u[i] = bytes[i]
        /\ bytes = [i \in 1..Len(bytes) |-> bytes[i]]
    OBVIOUS
  <2> HIDE DEF P, u
  <2>3. \A i \in 1..Len(bytes) : bytes[i] \in P
    BY <2>1, <2>2
  <2>4. bytes \in Seq(P)
    BY <2>2, <2>3
  <2> QED
    BY <2>4 DEF P
<1>8. \A k \in S : k \in a + 1 .. b
  <2> SUFFICES ASSUME NEW k \in S PROVE k \in a + 1 .. b
    OBVIOUS
  <2>1. PICK i \in 1..Len(bytes) : bytes[i] = <<k, Sizes[k]>>
    BY <1>2 DEF Contains
  <2>2. bytes[i] \in (a + 1 .. b) \X Nat
    BY <1>7
  <2> QED
    BY <2>1, <2>2
<1>9. bytes \in Seq(PartsTo(m))
  <2>1. \A x \in (a + 1 .. b) \X Nat : x \in PartsTo(m)
    BY <1>1 DEF PartsTo, m
  <2> QED
    BY <1>7, <2>1, LargerSet
<1>10. Runs(<<a, 0>>, bytes, Sizes)
  BY RunsSplit DEF IsText
<1>11. ASSUME NEW k \in a + 1 .. b, NEW i \in 1..Len(items), k < items[i]
       PROVE  k \in ToSet(items) \/ journal[k] = "junk"
  <2>1. PICK j \in 1..m : j = items[i] /\ Contains(bytes, <<j, Sizes[j]>>)
    BY <1>2, <1>6
  <2>2. k \in 1..m /\ a < k /\ k < j
    BY <1>1, <1>11, <2>1 DEF m
  <2>3. Contains(bytes, <<k, Sizes[k]>>)
    BY <1>1, <1>9, <1>10, <2>1, <2>2, FullAreFirst
  <2> QED
    BY <1>3, <1>5, <2>2, <2>3
<1>12. ASSUME rest = << >>, NEW k \in a + 1 .. b
       PROVE  k \in ToSet(items) \/ journal[k] = "junk"
  <2>1. IsText(bytes, a, b, Sizes)
    <3>1. bytes \o rest = bytes
      BY <1>12
    <3> QED
      BY <3>1
  <2>2. b <= m /\ k \in 1..m
    BY <1>1 DEF m
  <2>3. Contains(bytes, <<k, Sizes[k]>>)
    BY <1>1, <2>1, <2>2, WholeText
  <2> QED
    BY <1>3, <1>5, <2>2, <2>3
<1> QED
  BY <1>5, <1>6, <1>8, <1>11, <1>12 DEF m

\* A number between two neighbours of an ascending sequence is not in it.
LEMMA Between ==
    ASSUME NEW s \in Seq(Nat), InOrder(s), NEW k \in Nat, k \in ToSet(s)
    PROVE  /\ \A i \in 1..Len(s) - 1 : ~ (s[i] < k /\ k < s[i + 1])
           /\ s # << >> => s[1] <= k /\ k <= s[Len(s)]
<1>1. PICK j \in 1..Len(s) : s[j] = k
  BY DEF ToSet
<1>2. Len(s) \in Nat /\ (\A i \in 1..Len(s) : s[i] \in Nat)
      /\ \A x, y \in 1..Len(s) : x < y => s[x] < s[y]
  BY DEF InOrder
<1>3. ASSUME NEW i \in 1..Len(s) - 1, s[i] < k, k < s[i + 1] PROVE FALSE
  <2>1. i \in 1..Len(s) /\ i + 1 \in 1..Len(s)
    BY <1>2
  <2>2. j <= i \/ i + 1 <= j
    BY <1>2
  <2>3. CASE j <= i
    <3>1. s[j] <= s[i] /\ s[i] \in Nat /\ s[j] \in Nat
      BY <1>2, <2>1, <2>3
    <3> QED
      BY <1>1, <1>3, <3>1
  <2>4. CASE i + 1 <= j
    <3>1. s[i + 1] <= s[j] /\ s[i + 1] \in Nat /\ s[j] \in Nat
      BY <1>2, <2>1, <2>4
    <3> QED
      BY <1>1, <1>3, <3>1
  <2> QED
    BY <2>2, <2>3, <2>4
<1>4. s[1] <= k /\ k <= s[Len(s)]
  <2>1. 1 \in 1..Len(s) /\ Len(s) \in 1..Len(s)
    BY <1>2
  <2>2. s[1] <= s[j]
    BY <1>2, <2>1
  <2>3. s[j] <= s[Len(s)]
    BY <1>2, <2>1
  <2> QED
    BY <1>1, <2>2, <2>3
<1> QED
  BY <1>3, <1>4

LEMMA Elements == ASSUME NEW S, NEW s \in Seq(S) PROVE \A i \in 1..Len(s) : s[i] \in S
  OBVIOUS

\* Between neighbours there is nothing to tell; what t leaves out after c is not
\* JSON; all of t comes after c.
NoGaps(s)       == \A i \in 1..Len(s) - 1 : \A k \in s[i] + 1 .. s[i + 1] - 1 : journal[k] = "junk"
ToldAfter(t, c) == \A k \in Nat : \A i \in 1..Len(t) :
                      c < k /\ k < t[i] => k \in ToSet(t) \/ journal[k] = "junk"
Beyond(t, c)    == \A i \in 1..Len(t) : c < t[i]

\* A page after pages that end where its window begins.
LEMMA PagesJoin ==
    ASSUME NEW s \in Seq(Nat), NEW t \in Seq(Nat), InOrder(s), InOrder(t), NEW c \in Nat,
           s # << >> => s[Len(s)] = c /\ Beyond(t, c) /\ ToldAfter(t, c),
           ToldAfter(t, t[1]), NoGaps(s)
    PROVE  InOrder(s \o t) /\ NoGaps(s \o t)
<1>0. /\ s # << >> => s[Len(s)] = c
      /\ \A i \in 1..Len(t) : s # << >> => c < t[i]
      /\ \A i \in 1..Len(s) - 1 : \A k \in s[i] + 1 .. s[i + 1] - 1 : journal[k] = "junk"
      /\ s # << >> => \A k \in Nat : \A i \in 1..Len(t) :
              c < k /\ k < t[i] => k \in ToSet(t) \/ journal[k] = "junk"
      /\ \A k \in Nat : \A i \in 1..Len(t) :
              t[1] < k /\ k < t[i] => k \in ToSet(t) \/ journal[k] = "junk"
  BY DEF NoGaps, ToldAfter, Beyond
<1>u. PICK u : u = s \o t
  OBVIOUS
<1>1. /\ Len(s) \in Nat /\ Len(t) \in Nat /\ Len(u) = Len(s) + Len(t) /\ u \in Seq(Nat)
      /\ \A i \in 1..Len(s) : u[i] = s[i] /\ s[i] \in Nat
      /\ \A i \in 1..Len(t) : u[Len(s) + i] = t[i] /\ t[i] \in Nat
      /\ (s # << >> <=> Len(s) > 0)
      /\ DOMAIN s = 1..Len(s) /\ DOMAIN t = 1..Len(t) /\ DOMAIN u = 1..Len(u)
  <2>1. u \in Seq(Nat) /\ Len(u) = Len(s) + Len(t)
    BY <1>u
  <2>2. (\A i \in 1..Len(s) : s[i] \in Nat) /\ \A i \in 1..Len(t) : t[i] \in Nat
    BY Elements
  <2>3. \A i \in 1..Len(s) : u[i] = s[i]
    BY <1>u
  <2>4. \A i \in 1..Len(t) : u[Len(s) + i] = t[i]
    BY <1>u
  <2>5. s # << >> <=> Len(s) > 0
    OBVIOUS
  <2> QED
    BY <2>1, <2>2, <2>3, <2>4, <2>5
<1>2. \A i \in 1..Len(s) : s[i] <= c
  <2> SUFFICES ASSUME NEW i \in 1..Len(s) PROVE s[i] <= c
    OBVIOUS
  <2>1. Len(s) \in 1..Len(s) /\ s[Len(s)] = c
    BY <1>0, <1>1
  <2>2. i < Len(s) => s[i] < s[Len(s)]
    BY <1>1, <2>1 DEF InOrder
  <2>3. i \in Nat /\ Len(s) \in Nat /\ i <= Len(s)
    BY <1>1
  <2>4. s[i] \in Nat
    BY <1>1
  <2> QED
    BY <2>1, <2>2, <2>3, <2>4
<1>3. ASSUME NEW i \in 1..Len(u), i > Len(s)
      PROVE  \E x \in 1..Len(t) : i = Len(s) + x /\ u[i] = t[x]
  <2>1. i - Len(s) \in 1..Len(t) /\ i = Len(s) + (i - Len(s))
    BY <1>1, <1>3
  <2> QED
    BY <1>1, <2>1
<1>4. InOrder(u)
  <2> SUFFICES ASSUME NEW i \in 1..Len(u), NEW j \in 1..Len(u), i < j PROVE u[i] < u[j]
    BY <1>1 DEF InOrder
  <2>1. CASE j <= Len(s)
    <3>1. i \in 1..Len(s) /\ j \in 1..Len(s)
      BY <1>1, <2>1
    <3> QED
      BY <1>1, <3>1 DEF InOrder
  <2>2. CASE i <= Len(s) /\ j > Len(s)
    <3>1. PICK y \in 1..Len(t) : u[j] = t[y]
      BY <1>3, <2>2
    <3>2. i \in 1..Len(s) /\ s # << >>
      BY <1>1, <2>2
    <3>3. c < t[y] /\ s[i] <= c /\ t[y] \in Nat /\ s[i] \in Nat
      BY <1>0, <1>1, <1>2, <3>2
    <3> QED
      BY <1>1, <3>1, <3>2, <3>3
  <2>3. CASE i > Len(s)
    <3>1. PICK x \in 1..Len(t) : i = Len(s) + x /\ u[i] = t[x]
      BY <1>3, <2>3
    <3>2. PICK y \in 1..Len(t) : j = Len(s) + y /\ u[j] = t[y]
      <4>1. j > Len(s)
        BY <1>1, <2>3
      <4> QED
        BY <1>3, <4>1
    <3>3. x < y
      BY <1>1, <3>1, <3>2
    <3> QED
      BY <1>1, <3>1, <3>2, <3>3 DEF InOrder
  <2> QED
    BY <1>1, <2>1, <2>2, <2>3
<1>5. ASSUME NEW i \in 1..Len(u) - 1, NEW k \in u[i] + 1 .. u[i + 1] - 1 PROVE journal[k] = "junk"
  <2>1. CASE i < Len(s)
    <3>1. i \in 1..Len(s) - 1 /\ u[i] = s[i] /\ u[i + 1] = s[i + 1]
      <4>1. i \in 1..Len(s) - 1 /\ i \in 1..Len(s) /\ i + 1 \in 1..Len(s)
        <5>0. Len(s) \in Nat /\ Len(u) \in Nat
          BY <1>1
        <5>1. PICK x \in Nat, y \in Nat : x = Len(s) /\ y = Len(u)
          BY <5>0
        <5>2. i \in 1..y - 1 /\ i < x
          BY <2>1, <5>1
        <5>3. i \in 1..x - 1 /\ i \in 1..x /\ i + 1 \in 1..x
          BY <5>2
        <5> QED
          BY <5>1, <5>3
      <4> QED
        BY <1>1, <4>1
    <3> QED
      BY <1>0, <3>1
  <2>2. CASE i = Len(s)
    <3>1. i \in 1..Len(s) /\ s # << >> /\ u[i] = c /\ 1 \in 1..Len(t) /\ u[i + 1] = t[1] /\ t[1] \in Nat
      BY <1>0, <1>1, <2>2
    <3>2. k \in Nat /\ c < k /\ k < t[1]
      BY <3>1
    <3>3. k \notin ToSet(t)
      <4>1. k \in ToSet(t) => t[1] <= k
        <5>1. t # << >>
          BY <3>1
        <5> QED
          BY <3>2, <5>1, Between
      <4> QED
        BY <3>1, <3>2, <4>1
    <3> QED
      BY <1>0, <3>1, <3>2, <3>3
  <2>3. CASE i > Len(s)
    <3>0. i \in 1..Len(u)
      BY <1>1
    <3>1. PICK x \in 1..Len(t) : i = Len(s) + x /\ u[i] = t[x]
      BY <1>3, <2>3, <3>0
    <3>2. x \in 1..Len(t) - 1 /\ x + 1 \in 1..Len(t) /\ u[i + 1] = t[x + 1] /\ 1 \in 1..Len(t)
      <4>1. x + 1 \in 1..Len(t) /\ i + 1 = Len(s) + (x + 1)
        BY <1>1, <3>1
      <4>2. u[i + 1] = t[x + 1]
        BY <1>1, <4>1
      <4> QED
        BY <1>1, <4>1, <4>2
    <3>3. t[x] \in Nat /\ t[x + 1] \in Nat /\ t[1] \in Nat
      BY <1>1, <3>2
    <3>4. t[1] <= t[x]
      <4>1. CASE x = 1
        BY <3>3, <4>1
      <4>2. CASE x # 1
        <5>1. 1 < x
          BY <1>1, <4>2
        <5>2. t[1] < t[x]
          BY <1>1, <3>2, <5>1 DEF InOrder
        <5> QED
          BY <3>3, <5>2
      <4> QED
        BY <4>1, <4>2
    <3>6. k \in Nat /\ t[x] < k /\ k < t[x + 1] /\ t[1] < k
      <4>1. k \in t[x] + 1 .. t[x + 1] - 1
        BY <3>1, <3>2
      <4>2. PICK p \in Nat, q \in Nat, o \in Nat : p = t[x] /\ q = t[x + 1] /\ o = t[1]
        BY <3>3
      <4>3. k \in p + 1 .. q - 1 /\ o <= p
        BY <3>4, <4>1, <4>2
      <4>4. k \in Nat /\ p < k /\ k < q /\ o < k
        BY <4>3
      <4> QED
        BY <4>2, <4>4
    <3>5. k \notin ToSet(t)
      <4>1. k \in ToSet(t) => ~ (t[x] < k /\ k < t[x + 1])
        BY <3>2, <3>6, Between
      <4> QED
        BY <3>6, <4>1
    <3> QED
      BY <1>0, <3>2, <3>6, <3>5
  <2>4. i \in Nat /\ Len(s) \in Nat
    BY <1>1
  <2> QED
    BY <2>1, <2>2, <2>3, <2>4
<1> QED
  BY <1>u, <1>4, <1>5 DEF NoGaps

-----------------------------------------------------------------------------
(* The answers.                                                            *)

QuerySide == QueryTypeOK /\ QueryInv

LEMMA SeqOfPart == ASSUME NEW s \in Seq(Parts) PROVE s \in Seq(Part)
<1>1. \A x \in Parts : x \in Part
  BY DEF Parts, Part
<1> QED
  BY <1>1, LargerSet

LEMMA ReplyPageKeeps ==
    ASSUME JournalType, QuerySide, Hearing, query.what = "logs",
           NEW bytes \in Seq(Parts), NEW rest \in Seq(Parts), Saying = bytes \o rest,
           NEW ended, ended = "ok" => rest = << >>, ReplyPage(bytes, ended),
           child' = NoChild, buf' \in Seq(Parts), Len(buf') <= MAX_OUTPUT, UNCHANGED <<journal, window>>
    PROVE  QuerySide'
<1>1. PICK a \in Nat, b \in Nat, n \in Nat :
         /\ a = window[1] - 1 /\ b = window[2] /\ window = <<a + 1, b>> /\ n = Len(journal)
         /\ a <= b /\ b <= n /\ n <= MaxEntries
         /\ IsText(bytes \o rest, a, b, Sizes)
         /\ query.cursor # 0 => a = query.cursor
  <2>1. window[1] \in Nat \ {0} /\ window[2] \in Nat /\ window = <<window[1], window[2]>>
    <3>1. window \in (1..MaxEntries + 1) \X (0..MaxEntries + Packages)
      BY DEF QuerySide, QueryTypeOK
    <3> QED
      BY <3>1, LogsAssumption
  <2>2. window[1] - 1 \in Nat /\ (window[1] - 1) + 1 = window[1]
    BY <2>1
  <2>3. Len(journal) \in Nat /\ Len(journal) <= MaxEntries
    BY DEF JournalType
  <2>4. /\ window[2] <= Len(journal) /\ window[1] <= window[2] + 1
        /\ query.cursor # 0 => window[1] = query.cursor + 1
        /\ IsText(bytes \o rest, window[1] - 1, window[2], Sizes)
    BY DEF QuerySide, QueryInv, AskInv
  <2>5. query.cursor \in Nat
    BY LogsAssumption DEF QuerySide, QueryTypeOK
  <2>6. query.cursor # 0 => window[1] - 1 = query.cursor
    BY <2>1, <2>4, <2>5
  <2>7. window[1] - 1 <= window[2]
    BY <2>1, <2>4
  <2> QED
    BY <2>1, <2>2, <2>3, <2>4, <2>6, <2>7
<1>2. PICK items : items = ParsedLines(bytes)
  OBVIOUS
<1>3. /\ items \in Seq(1..n) /\ InOrder(items)
      /\ \A i \in 1..Len(items) : items[i] \in a + 1 .. b
      /\ \A k \in a + 1 .. b : \A i \in 1..Len(items) :
            k < items[i] => k \in ToSet(items) \/ journal[k] = "junk"
      /\ rest = << >> => \A k \in a + 1 .. b : k \in ToSet(items) \/ journal[k] = "junk"
  <2>1. bytes \in Seq(Part) /\ rest \in Seq(Part)
    BY SeqOfPart
  <2>2. b <= Len(journal) /\ a <= b /\ IsText(bytes \o rest, a, b, Sizes)
    BY <1>1
  <2>3. /\ items \in Seq(1..Len(journal)) /\ InOrder(items)
        /\ \A i \in 1..Len(items) : items[i] \in a + 1 .. b
        /\ \A k \in a + 1 .. b : \A i \in 1..Len(items) :
              k < items[i] => k \in ToSet(items) \/ journal[k] = "junk"
        /\ rest = << >> => \A k \in a + 1 .. b : k \in ToSet(items) \/ journal[k] = "junk"
    BY <1>2, <2>1, <2>2, PageRule
  <2> QED
    BY <1>1, <2>3
<1>4. /\ pages' = pages \o items /\ whole' = (ended = "ok") /\ listed' = listed
      /\ query' = IF items = << >> THEN [query EXCEPT !.pc = "end"]
                  ELSE [query EXCEPT !.pc = "idle", !.cursor = items[Len(items)]]
  BY <1>2 DEF ReplyPage, Last
<1>5. query \in [what : {"logs", "packages"}, pc : {"idle", "read", "wait", "end"},
                      cursor : 0..MaxEntries, format : Formats]
  BY DEF QuerySide, QueryTypeOK
<1>6. /\ pages \in Seq(1..MaxEntries) /\ Len(pages) \in Nat /\ (pages # << >> <=> Len(pages) > 0)
      /\ \A i \in 1..Len(pages) : pages[i] \in 1..n
  <2>1. pages \in Seq(1..MaxEntries)
    BY DEF QuerySide, QueryTypeOK
  <2>2. \A i \in 1..Len(pages) : pages[i] \in 1..MaxEntries /\ pages[i] <= n
    <3>1. \A i \in 1..Len(pages) : pages[i] <= Len(journal)
      BY DEF QuerySide, QueryInv, PagesInv
    <3>2. \A i \in 1..Len(pages) : pages[i] \in 1..MaxEntries
      BY <2>1, Elements
    <3> QED
      BY <1>1, <3>1, <3>2
  <2>3. \A i \in 1..Len(pages) : pages[i] \in 1..n
    BY <1>1, <2>2, LogsAssumption
  <2> QED
    BY <2>1, <2>3
<1>7. /\ items \in Seq(1..MaxEntries) /\ Len(items) \in Nat /\ (items # << >> <=> Len(items) > 0)
      /\ \A i \in 1..Len(items) : items[i] \in 1..n
  <2>1. \A x \in 1..n : x \in 1..MaxEntries
    BY <1>1, LogsAssumption
  <2>2. items \in Seq(1..MaxEntries)
    BY <1>3, <2>1, LargerSet
  <2> QED
    BY <1>3, <2>2
<1>8. PICK u : u = pages \o items
  OBVIOUS
<1>9. PICK c \in Nat : c = query.cursor /\ (pages # << >> => pages[Len(pages)] = c /\ a = c) /\ c <= n
  <2>1. query.cursor \in Nat
    BY <1>5, LogsAssumption
  <2>2. pages # << >> => query.cursor = pages[Len(pages)]
    BY DEF QuerySide, QueryInv, PagesInv
  <2>3. pages # << >> => pages[Len(pages)] \in 1..n
    BY <1>6
  <2>4. query.cursor <= n
    BY <1>1 DEF QuerySide, QueryInv, PagesInv
  <2> QED
    BY <1>1, <2>1, <2>2, <2>3, <2>4
<1>10. /\ InOrder(u)
       /\ \A i \in 1..Len(u) - 1 : \A k \in u[i] + 1 .. u[i + 1] - 1 : journal[k] = "junk"
  <2>1. pages \in Seq(Nat) /\ items \in Seq(Nat)
    <3>1. \A x \in 1..MaxEntries : x \in Nat
      BY LogsAssumption
    <3>2. pages \in Seq(Nat)
      BY <1>6, <3>1, LargerSet
    <3>3. items \in Seq(Nat)
      BY <1>7, <3>1, LargerSet
    <3> QED
      BY <3>2, <3>3
  <2>2. InOrder(pages) /\ \A i \in 1..Len(pages) - 1 :
                              \A k \in pages[i] + 1 .. pages[i + 1] - 1 : journal[k] = "junk"
    BY DEF QuerySide, QueryInv, PagesInv
  <2>3. \A i \in 1..Len(items) : pages # << >> => c < items[i]
    <3>1. \A i \in 1..Len(items) : a < items[i]
      BY <1>3
    <3> QED
      BY <1>9, <3>1
  <2>4. \A k \in Nat : \A i \in 1..Len(items) :
           a < k /\ k < items[i] => k \in ToSet(items) \/ journal[k] = "junk"
    <3>1. \A k \in Nat : \A i \in 1..Len(items) : a < k /\ k < items[i] => k \in a + 1 .. b
      BY <1>3
    <3> QED
      BY <1>3, <3>1
  <2>5. pages # << >> => \A k \in Nat : \A i \in 1..Len(items) :
           c < k /\ k < items[i] => k \in ToSet(items) \/ journal[k] = "junk"
    BY <1>9, <2>4
  <2>6. \A k \in Nat : \A i \in 1..Len(items) :
           items[1] < k /\ k < items[i] => k \in ToSet(items) \/ journal[k] = "junk"
    <3>1. \A k \in Nat : \A i \in 1..Len(items) : items[1] < k => a < k
      <4>1. ASSUME NEW i \in 1..Len(items) PROVE items[1] \in a + 1 .. b
        BY <1>3, <1>7
      <4> QED
        BY <4>1
    <3> QED
      BY <2>4, <3>1
  <2> QED
    <3>1. NoGaps(pages) /\ InOrder(pages) /\ InOrder(items)
      BY <1>3, <2>2 DEF NoGaps
    <3>2. pages # << >> => pages[Len(pages)] = c /\ Beyond(items, c) /\ ToldAfter(items, c)
      BY <1>9, <2>3, <2>5 DEF Beyond, ToldAfter
    <3>3. ToldAfter(items, items[1])
      BY <2>6 DEF ToldAfter
    <3>4. InOrder(pages \o items) /\ NoGaps(pages \o items)
      BY <2>1, <3>1, <3>2, <3>3, PagesJoin
    <3> QED
      BY <1>8, <3>4 DEF NoGaps
<1>11. /\ u \in Seq(1..MaxEntries) /\ Len(u) \in Nat
       /\ (u = << >> <=> pages = << >> /\ items = << >>)
       /\ (items = << >> => u = pages) /\ (items # << >> => u[Len(u)] = items[Len(items)])
       /\ \A i \in 1..Len(u) : u[i] <= n
  <2>1. u \in Seq(1..MaxEntries) /\ Len(u) = Len(pages) + Len(items)
    BY <1>6, <1>7, <1>8
  <2>2. items = << >> => u = pages
    BY <1>6, <1>8
  <2>3. items # << >> => u[Len(u)] = items[Len(items)]
    BY <1>6, <1>7, <1>8
  <2>4. \A i \in 1..Len(u) : u[i] <= n
    <3> SUFFICES ASSUME NEW i \in 1..Len(u) PROVE u[i] <= n
      OBVIOUS
    <3>1. u[i] = IF i <= Len(pages) THEN pages[i] ELSE items[i - Len(pages)]
      BY <1>6, <1>7, <1>8, <2>1
    <3>2. CASE i <= Len(pages)
      BY <1>6, <3>1, <3>2, <2>1
    <3>3. CASE ~ (i <= Len(pages))
      <4>1. i - Len(pages) \in 1..Len(items)
        BY <1>6, <1>7, <2>1, <3>3
      <4> QED
        BY <1>7, <3>1, <3>3, <4>1
    <3> QED
      BY <3>2, <3>3
  <2>5. u = << >> <=> pages = << >> /\ items = << >>
    BY <1>6, <1>7, <2>1
  <2> QED
    BY <2>1, <2>2, <2>3, <2>4, <2>5
<1>12. items # << >> => items[Len(items)] \in 1..n
  BY <1>7
<1>13. QueryTypeOK'
  <2>1. query' \in [what : {"logs", "packages"}, pc : {"idle", "read", "wait", "end"},
                      cursor : 0..MaxEntries, format : Formats]
    <3>1. CASE items = << >>
      BY <1>4, <1>5, <3>1
    <3>2. CASE items # << >>
      <4>1. PICK x \in 0..MaxEntries : x = items[Len(items)]
        BY <1>1, <1>12, <3>2, LogsAssumption
      <4>2. query' = [query EXCEPT !.pc = "idle", !.cursor = x]
        BY <1>4, <3>2, <4>1
      <4> QED
        BY <1>5, <4>2
    <3> QED
      BY <3>1, <3>2
  <2>2. NoChild \in [state : {"none", "running", "closed", "ok", "failed"}, left : Seq(Parts), pipe : Seq(Parts)]
    BY DEF NoChild
  <2> QED
    BY <1>4, <1>8, <1>11, <2>1, <2>2 DEF QuerySide, QueryTypeOK
<1>14. /\ query'.pc \in {"idle", "end"} /\ query'.what = "logs"
       /\ query'.cursor = IF items = << >> THEN query.cursor ELSE items[Len(items)]
       /\ query'.pc = "end" => items = << >>
  BY <1>4, <1>5
<1>15. PagesInv'
  <2>1. query'.cursor = IF u = << >> THEN 0 ELSE u[Len(u)]
    BY <1>9, <1>11, <1>14 DEF QuerySide, QueryInv, PagesInv
  <2>2. query'.cursor <= n
    BY <1>9, <1>12, <1>14
  <2> QED
    BY <1>1, <1>4, <1>8, <1>10, <1>11, <2>1, <2>2 DEF PagesInv
<1>16. AskInv'
  <2>1. ASSUME query'.pc = "end", whole', NEW k \in window[1]..window[2] PROVE journal[k] = "junk"
    <3>1. items = << >> /\ rest = << >>
      BY <1>4, <1>14, <2>1
    <3>2. k \in a + 1 .. b
      BY <1>1, <2>1
    <3>3. ToSet(items) = {}
      BY <3>1 DEF ToSet
    <3> QED
      BY <1>3, <3>1, <3>2, <3>3
  <2> QED
    BY <1>1, <1>14, <2>1 DEF AskInv, Hearing
<1>17. ChildInv'
  BY <1>14 DEF ChildInv, Hearing, NoChild
<1> QED
  BY <1>4, <1>13, <1>14, <1>15, <1>16, <1>17
     DEF QuerySide, QueryInv, AskListInv, ListTellsTruth

\* A list names what it tells in full, unless the end was torn off by the child.
LEMMA ListRule ==
    ASSUME NEW n \in 0..Packages, NEW bytes \in Seq(Part), NEW rest \in Seq(Part),
           IsText(bytes \o rest, 0, n, Halves),
           NEW text \in Seq(Part), Len(text) <= Len(bytes), \A i \in 1..Len(text) : text[i] = bytes[i],
           NEW format, format # "untabbed"
    PROVE  LET items == ParsedPackages(text, format) IN
           /\ items \in Seq(1..Packages)
           /\ (text = << >> \/ text[Len(text)][2] = 0) =>
                 ToSet(items) \subseteq {k \in 1..Packages : Contains(text, <<k, 2>>)}
           /\ text = bytes /\ rest = << >> => items = [k \in 1..n |-> k]
<1> DEFINE items == ParsedPackages(text, format)
           S == {k \in 1..Packages : Contains(text, <<k, 1>>)}
<1>1. n \in Nat /\ Packages \in Nat /\ n <= Packages /\ S \in SUBSET (1..Packages)
  BY LogsAssumption
<1>2. items = Ascending(S)
  BY DEF ParsedPackages
<1>3. items \in Seq(S) /\ InOrder(items) /\ ToSet(items) = S
  <2> HIDE DEF S
  <2> QED
    BY <1>1, <1>2, AscendingRule
<1>4. bytes \in Seq(PartsTo(n)) /\ Runs(<<0, 0>>, bytes, Halves)
  <2> DEFINE u == bytes \o rest
  <2>1. u \in Seq((1..n) \X Nat)
    BY DEF IsText
  <2>2. u \in Seq(PartsTo(n))
    BY <2>1 DEF PartsTo
  <2>3. /\ Len(bytes) \in Nat /\ Len(u) >= Len(bytes)
        /\ \A i \in 1..Len(bytes) : i \in 1..Len(u) /\ u[i] = bytes[i]
        /\ bytes = [i \in 1..Len(bytes) |-> bytes[i]]
    OBVIOUS
  <2>4. Runs(<<0, 0>>, bytes, Halves)
    BY RunsSplit DEF IsText
  <2> HIDE DEF u
  <2>5. \A i \in 1..Len(bytes) : bytes[i] \in PartsTo(n)
    BY <2>2, <2>3
  <2>6. bytes \in [1..Len(bytes) -> PartsTo(n)]
    BY <2>3, <2>5
  <2>7. bytes \in Seq(PartsTo(n))
    BY <2>3, <2>6
  <2> QED
    BY <2>4, <2>7
<1>5. text \in Seq(PartsTo(n)) /\ Runs(<<0, 0>>, text, Halves)
  <2>1. \A i \in 1..Len(bytes) : bytes[i] \in PartsTo(n)
    BY <1>4
  <2>2. /\ Len(text) \in Nat /\ text = [i \in 1..Len(text) |-> text[i]]
        /\ \A i \in 1..Len(text) : i \in 1..Len(bytes)
    OBVIOUS
  <2>3. \A i \in 1..Len(text) : text[i] \in PartsTo(n)
    BY <2>1, <2>2
  <2>4. Runs(<<0, 0>>, text, Halves)
    BY <1>4, RunsPrefix
  <2>5. text \in [1..Len(text) -> PartsTo(n)]
    BY <2>2, <2>3
  <2>6. text \in Seq(PartsTo(n))
    BY <2>2, <2>5
  <2> QED
    BY <2>4, <2>6
<1>6. \A k \in S : k \in 1..n
  <2> SUFFICES ASSUME NEW k \in S PROVE k \in 1..n
    OBVIOUS
  <2>1. PICK i \in 1..Len(text) : text[i] = <<k, 1>>
    BY DEF Contains
  <2>2. <<k, 1>> \in PartsTo(n)
    <3>1. \A o \in 1..Len(text) : text[o] \in PartsTo(n)
      BY <1>5, Elements
    <3> QED
      BY <2>1, <3>1
  <2> QED
    BY <2>2 DEF PartsTo
<1>7. \A k \in 1..n : /\ Contains(text, <<k, 2>>) => Contains(text, <<k, 1>>)
                      /\ text # << >> /\ text[Len(text)][2] = 0 /\ Contains(text, <<k, 1>>)
                           => Contains(text, <<k, 2>>)
  BY <1>5, BothHalves
<1>8. ASSUME text = << >> \/ text[Len(text)][2] = 0, NEW k \in S PROVE Contains(text, <<k, 2>>)
  <2>1. Contains(text, <<k, 1>>) /\ k \in 1..n
    BY <1>6
  <2>2. text # << >>
    BY <2>1 DEF Contains
  <2> QED
    BY <1>7, <1>8, <2>1, <2>2
<1>9. ASSUME text = bytes, rest = << >> PROVE items = [k \in 1..n |-> k]
  <2>1. IsText(text, 0, n, Halves)
    <3>1. bytes \o rest = text
      BY <1>9
    <3> QED
      BY <3>1
  <2>2. ASSUME NEW k \in 1..n PROVE k \in S
    <3>1. Halves \in Lengths(Packages) /\ Halves[k] = 2 /\ k \in 1..Packages
      BY <1>1, HalvesType
    <3>2. k \in 0 + 1 .. n
      OBVIOUS
    <3>3. Contains(text, <<k, Halves[k]>>)
      BY <1>1, <2>1, <3>1, <3>2, WholeText
    <3> QED
      BY <1>7, <3>1, <3>3
  <2>3. S = 1..n
    BY <1>6, <2>2
  <2> QED
    BY <1>1, <1>3, <2>3, AscendingAll
<1>10. items \in Seq(1..Packages)
  <2>1. \A x \in S : x \in 1..Packages
    OBVIOUS
  <2> HIDE DEF S
  <2> QED
    BY <1>3, <2>1, LargerSet
<1>11. (text = << >> \/ text[Len(text)][2] = 0) =>
          ToSet(items) \subseteq {k \in 1..Packages : Contains(text, <<k, 2>>)}
  BY <1>3, <1>8
<1> QED
  BY <1>9, <1>10, <1>11

LEMMA WholeLinesRule ==
    ASSUME NEW s \in Seq(Parts), NEW t, t = WholeLines(s)
    PROVE  /\ t \in Seq(Parts) /\ Len(t) <= Len(s) /\ \A i \in 1..Len(t) : t[i] = s[i]
           /\ t = << >> \/ t[Len(t)][2] = 0
<1>1. s \in Seq(Part)
  BY SeqOfPart
<1>2. PICK n \in 0..Len(s) : /\ n > 0 => s[n][2] = 0
                             /\ t = SubSeq(s, 1, n)
  <2>1. \E n \in 0..Len(s) : /\ n > 0 => s[n][2] = 0
                             /\ \A i \in n + 1 .. Len(s) : s[i][2] # 0
    BY <1>1, LastNewline
  <2> QED
    BY <2>1 DEF WholeLines
<1>3. n \in Nat /\ n <= Len(s) /\ Len(s) \in Nat
  OBVIOUS
<1>4. t \in Seq(Parts) /\ Len(t) = n /\ \A i \in 1..n : t[i] = s[i]
  BY <1>2, <1>3
<1>5. n = 0 => t = << >>
  BY <1>4
<1> QED
  BY <1>2, <1>3, <1>4, <1>5

LEMMA ReplyListKeeps ==
    ASSUME JournalType, QuerySide, Hearing, query.what = "packages",
           NEW bytes \in Seq(Parts), NEW rest \in Seq(Parts), Saying = bytes \o rest,
           NEW ended \in {"ok", "failed", "cut"}, ended = "ok" => rest = << >>, ReplyList(bytes, ended),
           child' = NoChild, buf' \in Seq(Parts), Len(buf') <= MAX_OUTPUT, UNCHANGED <<journal, window>>
    PROVE  QuerySide'
<1>0. PICK format : format = query.format
  OBVIOUS
<1>1. PICK n \in 0..Packages : n = window[2] /\ IsText(bytes \o rest, 0, n, Halves)
  <2>1. window[2] \in Nat
    <3>1. window \in (1..MaxEntries + 1) \X (0..MaxEntries + Packages)
      BY DEF QuerySide, QueryTypeOK
    <3> QED
      BY <3>1, LogsAssumption
  <2>2. window[2] <= Packages /\ IsText(bytes \o rest, 0, window[2], Halves)
    BY DEF QuerySide, QueryInv, AskListInv
  <2> QED
    BY <2>1, <2>2, LogsAssumption
<1>2. PICK text : text = IF ended = "cut" THEN WholeLines(bytes) ELSE bytes
  OBVIOUS
<1>3. /\ text \in Seq(Parts) /\ Len(text) <= Len(bytes) /\ \A i \in 1..Len(text) : text[i] = bytes[i]
      /\ ended = "cut" => text = << >> \/ text[Len(text)][2] = 0
      /\ ended # "cut" => text = bytes
  <2>1. CASE ended = "cut"
    BY <1>2, <2>1, WholeLinesRule
  <2>2. CASE ended # "cut"
    BY <1>2, <2>2
  <2> QED
    BY <2>1, <2>2
<1>4. PICK items : items = ParsedPackages(text, format)
  OBVIOUS
<1>5. PICK full : full = {k \in 1..Packages : Contains(text, <<k, 2>>)}
  OBVIOUS
<1>6. /\ items \in Seq(1..Packages)
      /\ text = << >> \/ text[Len(text)][2] = 0 => ToSet(items) \subseteq full
      /\ text = bytes /\ rest = << >> /\ format = "table" => items = [k \in 1..n |-> k]
  <2>1. bytes \in Seq(Part) /\ rest \in Seq(Part) /\ text \in Seq(Part)
    BY <1>3, SeqOfPart
  <2>2. CASE format # "untabbed"
    <3>1. IsText(bytes \o rest, 0, n, Halves)
      BY <1>1
    <3>2. Len(text) <= Len(bytes) /\ \A i \in 1..Len(text) : text[i] = bytes[i]
      BY <1>3
    <3>3. /\ items \in Seq(1..Packages)
          /\ (text = << >> \/ text[Len(text)][2] = 0) =>
                ToSet(items) \subseteq {k \in 1..Packages : Contains(text, <<k, 2>>)}
          /\ text = bytes /\ rest = << >> => items = [k \in 1..n |-> k]
      BY <1>4, <2>1, <2>2, <3>1, <3>2, ListRule, SMTT(60)
    <3> QED
      BY <1>5, <3>3
  <2>3. CASE format = "untabbed"
    <3>1. items = << >>
      BY <1>4, <2>3 DEF ParsedPackages
    <3>2. ToSet(items) = {}
      BY <3>1 DEF ToSet
    <3> QED
      BY <2>3, <3>1, <3>2
  <2> QED
    BY <2>2, <2>3
<1>7. /\ listed' = [items |-> items, of |-> n, format |-> format, ended |-> ended, full |-> full]
      /\ query' = [query EXCEPT !.pc = "idle"] /\ pages' = pages /\ whole' = whole
  BY <1>0, <1>1, <1>2, <1>4, <1>5 DEF ReplyList
<1>8. query \in [what : {"logs", "packages"}, pc : {"idle", "read", "wait", "end"},
                      cursor : 0..MaxEntries, format : Formats]
  BY DEF QuerySide, QueryTypeOK
<1>9. query'.pc = "idle" /\ query'.what = "packages" /\ query'.cursor = query.cursor
  BY <1>7, <1>8
<1>10. ListTellsTruth'
  <2>1. ASSUME ended = "ok"
        PROVE  /\ format = "table" => items = [k \in 1..n |-> k]
               /\ ToSet(items) \subseteq full
    <3>1. text = bytes /\ rest = << >>
      BY <1>3, <2>1
    <3>2. bytes \o rest = bytes
      BY <3>1
    <3>3. text = << >> \/ text[Len(text)][2] = 0
      <4>1. EndOf(<<0, 0>>, text) = <<n, 0>>
        BY <1>1, <3>1, <3>2 DEF IsText
      <4> QED
        BY <4>1 DEF EndOf
    <3> QED
      BY <1>6, <3>1, <3>3
  <2>2. ASSUME ended = "cut" PROVE ToSet(items) \subseteq full
    BY <1>3, <1>6, <2>2
  <2>3. /\ listed'.ended = ended /\ listed'.items = items /\ listed'.full = full /\ listed'.of = n
        /\ listed'.format = format
    BY <1>7
  <2> QED
    BY <2>1, <2>2, <2>3 DEF ListTellsTruth
<1>11. QueryTypeOK'
  <2>1. query' \in [what : {"logs", "packages"}, pc : {"idle", "read", "wait", "end"},
                      cursor : 0..MaxEntries, format : Formats]
    BY <1>7, <1>8
  <2>2. NoChild \in [state : {"none", "running", "closed", "ok", "failed"}, left : Seq(Parts), pipe : Seq(Parts)]
    BY DEF NoChild
  <2>3. full \in SUBSET (1..Packages)
    BY <1>5
  <2>4. listed' \in [items : Seq(1..Packages), full : SUBSET (1..Packages), of : 0..Packages,
                     format : Formats, ended : {"ok", "failed", "cut"}]
    BY <1>0, <1>6, <1>7, <1>8, <2>3
  <2> QED
    BY <1>7, <2>1, <2>2, <2>4 DEF QuerySide, QueryTypeOK
<1>12. PagesInv' /\ AskInv' /\ ChildInv' /\ AskListInv'
  BY <1>7, <1>9 DEF QuerySide, QueryInv, PagesInv, AskInv, ChildInv, AskListInv, Hearing, NoChild
<1> QED
  BY <1>10, <1>11, <1>12 DEF QuerySide, QueryInv

LEMMA AnswerQueryKeeps ==
    ASSUME JournalType, QuerySide, Hearing,
           NEW bytes \in Seq(Parts), NEW rest \in Seq(Parts), Saying = bytes \o rest,
           NEW ended \in {"ok", "failed", "cut"}, ended = "ok" => rest = << >>, AnswerQuery(bytes, ended),
           child' = NoChild, buf' \in Seq(Parts), Len(buf') <= MAX_OUTPUT, UNCHANGED <<journal, window>>
    PROVE  QuerySide'
<1>1. query.what \in {"logs", "packages"}
  BY DEF QuerySide, QueryTypeOK
<1>2. CASE query.what = "logs"
  BY <1>2, ReplyPageKeeps DEF AnswerQuery
<1>3. CASE query.what = "packages"
  BY <1>3, ReplyListKeeps DEF AnswerQuery
<1> QED
  BY <1>1, <1>2, <1>3

-----------------------------------------------------------------------------
(* The steps of the queries.                                               *)

LEMMA QueryFrame ==
    ASSUME QuerySide, UNCHANGED <<journal, queryVars>>
    PROVE  QuerySide'
<1>1. /\ journal' = journal /\ query' = query /\ window' = window /\ child' = child /\ buf' = buf
      /\ pages' = pages /\ whole' = whole /\ listed' = listed
  BY DEF queryVars
<1>2. QueryTypeOK' /\ PagesInv' /\ ChildInv' /\ ListTellsTruth'
  BY <1>1 DEF QuerySide, QueryInv, QueryTypeOK, PagesInv, ChildInv, ListTellsTruth, Hearing
<1>3. Sizes' = Sizes /\ Saying' = Saying
  BY <1>1 DEF Sizes, Content, Saying
<1>4. AskInv' /\ AskListInv'
  BY <1>1, <1>3 DEF QuerySide, QueryInv, AskInv, AskListInv, Hearing
<1> QED
  BY <1>2, <1>4 DEF QuerySide, QueryInv

\* An entry more changes nothing about those before it.
LEMMA LogEffect ==
    ASSUME JournalType, NEW kind \in Kinds, Log(kind)
    PROVE  /\ JournalType' /\ Len(journal') = Len(journal) + 1 /\ Len(journal) \in Nat
           /\ \A k \in 1..Len(journal) : /\ journal'[k] = journal[k]
                                         /\ Content(k)' = Content(k) /\ Sizes'[k] = Sizes[k]
<1>1. journal \in Seq(Kinds) /\ Len(journal) \in Nat /\ journal' = Append(journal, kind)
      /\ Len(journal) < MaxEntries
  BY DEF JournalType, Log
<1>2. journal' \in Seq(Kinds) /\ Len(journal') = Len(journal) + 1
      /\ \A k \in 1..Len(journal) : journal'[k] = journal[k]
  BY <1>1
<1>3. JournalType'
  BY <1>1, <1>2, LogsAssumption DEF JournalType
<1>4. \A k \in 1..Len(journal) : Content(k)' = Content(k)
  BY <1>2 DEF Content
<1>5. \A k \in 1..Len(journal) : Sizes'[k] = Sizes[k]
  <2>1. \A k \in 1..Len(journal) : k \in 1..Len(journal')
    BY <1>1, <1>2
  <2>2. \A k \in 1..Len(journal) : Sizes'[k] = Content(k)' /\ Sizes[k] = Content(k)
    BY <2>1 DEF Sizes
  <2> QED
    BY <1>4, <2>2
<1> QED
  BY <1>1, <1>2, <1>3, <1>4, <1>5

LEMMA LogKeeps ==
    ASSUME JournalType, QuerySide, NEW kind \in Kinds, Log(kind)
    PROVE  QuerySide'
<1>1. PICK n \in Nat : /\ n = Len(journal) /\ Len(journal') = n + 1
                       /\ \A k \in 1..n : journal'[k] = journal[k] /\ Sizes'[k] = Sizes[k]
  BY LogEffect
<1>2. /\ query' = query /\ window' = window /\ child' = child /\ buf' = buf
      /\ pages' = pages /\ whole' = whole /\ listed' = listed
  BY DEF Log, queryVars
<1>3. QueryTypeOK' /\ ChildInv' /\ ListTellsTruth' /\ AskListInv'
  BY <1>2 DEF QuerySide, QueryInv, QueryTypeOK, ChildInv, ListTellsTruth, AskListInv, Hearing, Saying
<1>4. pages \in Seq(1..MaxEntries) /\ query.cursor \in Nat /\ window[1] \in Nat \ {0} /\ window[2] \in Nat
  <2>1. query.cursor \in 0..MaxEntries /\ pages \in Seq(1..MaxEntries)
    BY DEF QuerySide, QueryTypeOK
  <2>2. window[1] \in 1..MaxEntries + 1 /\ window[2] \in 0..MaxEntries + Packages
    BY DEF QuerySide, QueryTypeOK
  <2> QED
    BY <2>1, <2>2, LogsAssumption
<1>5. PagesInv'
  <2>1. /\ query.cursor <= n /\ InOrder(pages)
        /\ query.cursor = IF pages = << >> THEN 0 ELSE pages[Len(pages)]
        /\ \A i \in 1..Len(pages) : pages[i] <= n
        /\ \A i \in 1..Len(pages) - 1 : \A k \in pages[i] + 1 .. pages[i+1] - 1 : journal[k] = "junk"
    BY <1>1 DEF QuerySide, QueryInv, PagesInv
  <2>2. Len(pages) \in Nat /\ \A i \in 1..Len(pages) : pages[i] \in 1..MaxEntries
    <3>1. \A i \in 1..Len(pages) : pages[i] \in 1..MaxEntries
      BY <1>4, Elements
    <3> QED
      BY <1>4, <3>1
  <2>3. \A i \in 1..Len(pages) : pages[i] <= n + 1 /\ pages[i] \in Nat \ {0}
    BY <2>1, <2>2, LogsAssumption
  <2>4. ASSUME NEW i \in 1..Len(pages) - 1, NEW k \in pages[i] + 1 .. pages[i+1] - 1
        PROVE  journal'[k] = "junk"
    <3>1. i \in 1..Len(pages) /\ i + 1 \in 1..Len(pages)
      BY <2>2
    <3>2. PICK x \in Nat \ {0}, y \in Nat \ {0} : x = pages[i] /\ y = pages[i + 1] /\ y <= n
      BY <2>1, <2>3, <3>1
    <3>3. k \in 1..n
      BY <3>2
    <3> QED
      BY <1>1, <2>1, <3>3
  <2>5. query.cursor <= n + 1
    BY <1>4, <2>1
  <2> QED
    BY <1>1, <1>2, <2>1, <2>3, <2>4, <2>5 DEF PagesInv
<1>6. AskInv'
  <2>1. ASSUME query.what = "logs" PROVE window[2] <= n /\ window[2] <= n + 1
    BY <1>1, <1>4, <2>1 DEF QuerySide, QueryInv, AskInv
  <2>2. ASSUME query.what = "logs", Hearing PROVE IsText(Saying, window[1] - 1, window[2], Sizes')
    <3>1. PICK a \in Nat, b \in Nat : a = window[1] - 1 /\ b = window[2] /\ b <= n
      BY <1>4, <2>1, <2>2
    <3>2. IsText(Saying, a, b, Sizes)
      BY <2>2, <3>1 DEF QuerySide, QueryInv, AskInv
    <3>3. PICK s : s = Saying
      OBVIOUS
    <3>4. s \in Seq(PartsTo(n)) /\ Runs(<<a, 0>>, s, Sizes)
      <4>1. \A x \in (a + 1 .. b) \X Nat : x \in PartsTo(n)
        BY <3>1 DEF PartsTo
      <4>2. s \in Seq((a + 1 .. b) \X Nat) /\ Runs(<<a, 0>>, s, Sizes)
        BY <3>2, <3>3 DEF IsText
      <4> QED
        BY <4>1, <4>2, LargerSet
    <3>5. PICK more : more = Sizes'
      OBVIOUS
    <3>6. Runs(<<a, 0>>, s, more)
      BY <1>1, <3>4, <3>5, RunsExtend
    <3> QED
      BY <3>1, <3>2, <3>3, <3>5, <3>6 DEF IsText
  <2>3. ASSUME query.pc = "end", whole, NEW k \in window[1]..window[2] PROVE journal'[k] = "junk"
    <3>1. query.what = "logs" /\ journal[k] = "junk"
      BY <2>3 DEF QuerySide, QueryInv, AskInv
    <3>2. k \in 1..n
      BY <1>4, <2>1, <2>3, <3>1
    <3> QED
      BY <1>1, <3>1, <3>2
  <2>4. Saying' = Saying /\ Hearing' = Hearing
    BY <1>2 DEF Saying, Hearing
  <2>5. /\ query.what = "logs" /\ Hearing => /\ window[1] <= window[2] + 1
                                             /\ query.cursor # 0 => window[1] = query.cursor + 1
        /\ query.pc = "end" => query.what = "logs"
    BY DEF QuerySide, QueryInv, AskInv
  <2> QED
    BY <1>1, <1>2, <2>1, <2>2, <2>3, <2>4, <2>5 DEF AskInv
<1> QED
  BY <1>3, <1>5, <1>6 DEF QuerySide, QueryInv

\* A part goes from what is to be written into the pipe.
LEMMA MovePart ==
    ASSUME NEW S, NEW p \in Seq(S), NEW l \in Seq(S), l # << >>
    PROVE  /\ Append(p, Head(l)) \o Tail(l) = p \o l
           /\ Append(p, Head(l)) \in Seq(S) /\ Tail(l) \in Seq(S)
  OBVIOUS

LEMMA ChildType ==
    ASSUME QuerySide
    PROVE  /\ child = [state |-> child.state, left |-> child.left, pipe |-> child.pipe]
           /\ child.state \in {"none", "running", "closed", "ok", "failed"}
           /\ child.left \in Seq(Parts) /\ child.pipe \in Seq(Parts) /\ buf \in Seq(Parts)
           /\ child.state # "none" => Hearing
           /\ query.what \in {"logs", "packages"} /\ query.pc \in {"idle", "read", "wait", "end"}
           /\ query = [what |-> query.what, pc |-> query.pc, cursor |-> query.cursor, format |-> query.format]
           /\ query.cursor \in 0..MaxEntries /\ query.format \in Formats
  BY DEF QuerySide, QueryTypeOK, QueryInv, ChildInv, NoChild

LEMMA ChildWritesKeeps ==
    ASSUME QuerySide, ChildWrites
    PROVE  QuerySide'
<1>1. /\ journal' = journal /\ query' = query /\ window' = window /\ buf' = buf
      /\ pages' = pages /\ whole' = whole /\ listed' = listed
      /\ child.state = "running" /\ child.left # << >>
      /\ child' = [child EXCEPT !.left = Tail(@), !.pipe = Append(@, Head(child.left))]
  BY DEF ChildWrites
<1>2. PICK l \in Seq(Parts), p \in Seq(Parts), b \in Seq(Parts) : l = child.left /\ p = child.pipe /\ b = buf
  BY ChildType
<1>3. child' = [state |-> "running", left |-> Tail(l), pipe |-> Append(p, Head(l))]
  BY <1>1, <1>2, ChildType
<1>4. /\ Append(p, Head(l)) \o Tail(l) = p \o l
      /\ Append(p, Head(l)) \in Seq(Parts) /\ Tail(l) \in Seq(Parts)
  <2>1. l # << >>
    BY <1>1, <1>2
  <2> QED
    BY <2>1, MovePart
<1>5. Saying' = Saying
  <2>1. Saying = (b \o p) \o l
    BY <1>2 DEF Saying
  <2>2. PICK q \in Seq(Parts), m \in Seq(Parts) : q = Append(p, Head(l)) /\ m = Tail(l)
    BY <1>4
  <2>3. Saying' = (b \o q) \o m
    BY <1>1, <1>2, <1>3, <2>2 DEF Saying
  <2>6. b \in Seq(Parts) /\ p \in Seq(Parts) /\ l \in Seq(Parts)
    BY <1>2, Zenon
  <2>7. q \in Seq(Parts) /\ m \in Seq(Parts)
    BY <2>2, Zenon
  <2>4. (b \o q) \o m = b \o (q \o m)
    BY <2>6, <2>7
  <2>5. (b \o p) \o l = b \o (p \o l)
    BY <2>6
  <2> QED
    BY <1>4, <2>1, <2>2, <2>3, <2>4, <2>5
<1>6. Sizes' = Sizes /\ Hearing' = Hearing /\ Hearing
  BY <1>1, ChildType DEF Sizes, Content, Hearing
<1>7. AskInv' /\ AskListInv' /\ PagesInv' /\ ListTellsTruth'
  BY <1>1, <1>5, <1>6 DEF QuerySide, QueryInv, AskInv, AskListInv, PagesInv, ListTellsTruth
<1>8. ChildInv'
  BY <1>1, <1>3, <1>6 DEF QuerySide, QueryInv, ChildInv
<1>9. QueryTypeOK'
  <2>1. child' \in [state : {"none", "running", "closed", "ok", "failed"}, left : Seq(Parts), pipe : Seq(Parts)]
    BY <1>3, <1>4
  <2> QED
    BY <1>1, <2>1 DEF QuerySide, QueryTypeOK
<1> QED
  BY <1>7, <1>8, <1>9 DEF QuerySide, QueryInv

LEMMA ChildEndsKeeps ==
    ASSUME QuerySide, NEW s \in {"closed", "ok", "failed"}, ChildEnds(s)
    PROVE  QuerySide'
<1>1. /\ journal' = journal /\ query' = query /\ window' = window /\ buf' = buf
      /\ pages' = pages /\ whole' = whole /\ listed' = listed
      /\ child.state \in Alive /\ (s # "failed" => child.left = << >>)
      /\ child' = [child EXCEPT !.state = s]
  BY DEF ChildEnds
<1>2. child' = [state |-> s, left |-> child.left, pipe |-> child.pipe]
  BY <1>1, ChildType
<1>3. Saying' = Saying
  BY <1>1, <1>2 DEF Saying
<1>4. Sizes' = Sizes /\ Hearing' = Hearing /\ Hearing
  BY <1>1, ChildType DEF Sizes, Content, Hearing, Alive
<1>5. AskInv' /\ AskListInv' /\ PagesInv' /\ ListTellsTruth'
  BY <1>1, <1>3, <1>4 DEF QuerySide, QueryInv, AskInv, AskListInv, PagesInv, ListTellsTruth
<1>6. ChildInv'
  BY <1>1, <1>2, <1>4 DEF QuerySide, QueryInv, ChildInv
<1>7. QueryTypeOK'
  BY <1>1, <1>2, ChildType DEF QuerySide, QueryTypeOK
<1> QED
  BY <1>5, <1>6, <1>7 DEF QuerySide, QueryInv

LEMMA SpawnKeeps ==
    ASSUME JournalType, QuerySide, NEW limit, Spawn(limit)
    PROVE  QuerySide'
<1>1. /\ journal' = journal /\ pages' = pages /\ whole' = whole /\ listed' = listed
      /\ query.what = "logs" /\ limit \in Nat \ {0}
      /\ window' = Selected(limit, query.cursor) /\ buf' = << >>
      /\ child' = [state |-> "running", left |-> Text(window'[1], window'[2]), pipe |-> << >>]
      /\ query' = [query EXCEPT !.pc = "read"]
  BY LogsAssumption DEF Spawn, Accepted
<1>2. PICK c \in 0..MaxEntries : c = query.cursor /\ c <= Len(journal)
  BY ChildType DEF QuerySide, QueryInv, PagesInv
<1>3. query' = [what |-> "logs", pc |-> "read", cursor |-> c, format |-> query.format]
  BY <1>1, <1>2, ChildType
<1>4. PICK n \in Nat : n = Len(journal) /\ n <= MaxEntries
  BY DEF JournalType
<1>5. PICK i \in Nat \ {0}, j \in Nat : /\ window' = <<i, j>>
                                        /\ i <= j + 1 /\ j <= n /\ (c # 0 => i = c + 1)
  <2>1. CASE c = 0 /\ n > limit
    <3>1. window' = <<n - limit + 1, n>>
      BY <1>1, <1>2, <1>4, <2>1 DEF Selected
    <3>2. n - limit + 1 \in Nat \ {0} /\ n - limit + 1 <= n + 1
      BY <1>1, <2>1
    <3> QED
      BY <2>1, <3>1, <3>2
  <2>2. CASE c = 0 /\ ~ (n > limit)
    <3>1. window' = <<1, n>>
      BY <1>1, <1>2, <1>4, <2>2 DEF Selected
    <3> QED
      BY <2>2, <3>1
  <2>3. CASE c # 0 /\ n > c + limit
    <3>1. window' = <<c + 1, c + limit>>
      BY <1>1, <1>2, <1>4, <2>3 DEF Selected
    <3>2. c + 1 \in Nat \ {0} /\ c + limit \in Nat /\ c + 1 <= (c + limit) + 1 /\ c + limit <= n
      BY <1>1, <2>3, LogsAssumption
    <3> QED
      BY <3>1, <3>2
  <2>4. CASE c # 0 /\ ~ (n > c + limit)
    <3>1. window' = <<c + 1, n>>
      BY <1>1, <1>2, <1>4, <2>4 DEF Selected
    <3>2. c + 1 \in Nat \ {0} /\ c + 1 <= n + 1
      BY <1>2, <1>4, LogsAssumption
    <3> QED
      BY <3>1, <3>2
  <2> QED
    BY <1>4, <2>1, <2>2, <2>3, <2>4
<1>6. PICK t \in Seq(Parts) : t = Text(i, j) /\ IsText(t, i - 1, j, Sizes)
  <2>1. j <= Len(journal) /\ i <= j + 1
    BY <1>4, <1>5
  <2> QED
    BY <2>1, TextIs
<1>7. child' = [state |-> "running", left |-> t, pipe |-> << >>]
  <2>1. window'[1] = i /\ window'[2] = j
    BY <1>5
  <2> QED
    BY <1>1, <1>6, <2>1
<1>8. Saying' = t
  <2>1. Saying' = (<< >> \o << >>) \o t
    BY <1>1, <1>7 DEF Saying
  <2> QED
    BY <2>1
<1>9. Sizes' = Sizes
  BY <1>1 DEF Sizes, Content
<1>10. QueryTypeOK'
  <2>1. << >> \in Seq(Parts) /\ Len(<< >>) <= MAX_OUTPUT
    BY LogsAssumption
  <2>2. window' \in (1..MaxEntries + 1) \X (0..MaxEntries + Packages)
    BY <1>4, <1>5, LogsAssumption
  <2>3. child' \in [state : {"none", "running", "closed", "ok", "failed"}, left : Seq(Parts), pipe : Seq(Parts)]
    BY <1>7, <2>1
  <2> QED
    BY <1>1, <1>3, <2>1, <2>2, <2>3 DEF QuerySide, QueryTypeOK
<1>11. AskInv'
  <2>1. window'[1] = i /\ window'[2] = j
    BY <1>5
  <2> QED
    BY <1>1, <1>3, <1>4, <1>5, <1>6, <1>8, <1>9, <2>1 DEF AskInv, Hearing
<1>12. PagesInv' /\ ListTellsTruth'
  BY <1>1, <1>2, <1>3 DEF QuerySide, QueryInv, PagesInv, ListTellsTruth
<1>13. ChildInv' /\ AskListInv'
  BY <1>3, <1>7 DEF ChildInv, AskListInv, Hearing
<1> QED
  BY <1>10, <1>11, <1>12, <1>13 DEF QuerySide, QueryInv

LEMMA SpawnListKeeps ==
    ASSUME QuerySide, SpawnList
    PROVE  QuerySide'
<1>1. PICK n \in 0..Packages :
         /\ window' = <<1, n>>
         /\ child' = [state |-> "running", pipe |-> << >>,
                      left |-> FlattenSeq([k \in 1..n |-> LineOf(k, 2)])]
  BY DEF SpawnList
<1>2. /\ journal' = journal /\ pages' = pages /\ whole' = whole /\ listed' = listed
      /\ query.what = "packages" /\ buf' = << >>
  BY DEF SpawnList
<1>3. PICK format \in Formats :
         query' = [what |-> "packages", pc |-> "read", cursor |-> query.cursor, format |-> format]
  <2>1. PICK kind, search, installedOnly :
           query' = [query EXCEPT !.pc = "read", !.format = Format(kind, search, installedOnly)]
    BY DEF SpawnList
  <2>2. Format(kind, search, installedOnly) \in Formats
    BY DEF Format, Formats
  <2> QED
    BY <1>2, <2>1, <2>2, ChildType
<1>4. PICK t \in Seq(Parts) : /\ t = FlattenSeq([k \in 1..n |-> LineOf(k, 2)])
                              /\ IsText(t, 0, n, Halves)
  BY ListTextIs
<1>5. child' = [state |-> "running", left |-> t, pipe |-> << >>]
  BY <1>1, <1>4
<1>6. Saying' = t
  <2>1. Saying' = (<< >> \o << >>) \o t
    BY <1>2, <1>5 DEF Saying
  <2> QED
    BY <2>1
<1>7. QueryTypeOK'
  <2>1. << >> \in Seq(Parts) /\ Len(<< >>) <= MAX_OUTPUT
    BY LogsAssumption
  <2>2. window' \in (1..MaxEntries + 1) \X (0..MaxEntries + Packages)
    BY <1>1, LogsAssumption
  <2>3. child' \in [state : {"none", "running", "closed", "ok", "failed"}, left : Seq(Parts), pipe : Seq(Parts)]
    BY <1>5, <2>1
  <2>4. query' \in [what : {"logs", "packages"}, pc : {"idle", "read", "wait", "end"},
                      cursor : 0..MaxEntries, format : Formats]
    BY <1>3, ChildType
  <2> QED
    BY <1>2, <2>1, <2>2, <2>3, <2>4 DEF QuerySide, QueryTypeOK
<1>8. AskListInv'
  <2>1. window'[2] = n /\ n <= Packages
    BY <1>1, LogsAssumption
  <2> QED
    BY <1>4, <1>6, <2>1 DEF AskListInv
<1>9. PagesInv' /\ ListTellsTruth'
  BY <1>2, <1>3 DEF QuerySide, QueryInv, PagesInv, ListTellsTruth
<1>10. ChildInv' /\ AskInv'
  BY <1>3, <1>5 DEF ChildInv, AskInv, Hearing
<1> QED
  BY <1>7, <1>8, <1>9, <1>10 DEF QuerySide, QueryInv

\* The pipe is read up to a part, and the rest stays.
LEMMA CutAt ==
    ASSUME NEW S, NEW s \in Seq(S), NEW n \in Nat, n <= Len(s)
    PROVE  /\ SubSeq(s, 1, n) \in Seq(S) /\ Len(SubSeq(s, 1, n)) = n
           /\ SubSeq(s, n + 1, Len(s)) \in Seq(S)
           /\ s = SubSeq(s, 1, n) \o SubSeq(s, n + 1, Len(s))
<1>1. n \in Nat /\ n <= Len(s) /\ Len(s) \in Nat
  OBVIOUS
<1>2. PICK t : t = SubSeq(s, 1, n)
  OBVIOUS
<1>3. PICK u : u = SubSeq(s, n + 1, Len(s))
  OBVIOUS
<1>4. t \in Seq(S) /\ Len(t) = n /\ \A i \in 1..n : t[i] = s[i]
  BY <1>1, <1>2
<1>5. u \in Seq(S) /\ Len(u) = Len(s) - n /\ \A i \in 1..Len(s) - n : u[i] = s[n + i]
  BY <1>1, <1>3
<1>6. PICK w \in Seq(S) : w = t \o u /\ Len(w) = Len(s)
  <2>1. t \o u \in Seq(S) /\ Len(t \o u) = Len(s)
    BY <1>1, <1>4, <1>5
  <2> QED
    BY <2>1
<1>7. \A i \in 1..Len(s) : w[i] = s[i]
  <2> SUFFICES ASSUME NEW i \in 1..Len(s) PROVE w[i] = s[i]
    OBVIOUS
  <2>1. i \in Nat /\ (i <= n \/ i > n)
    BY <1>1
  <2>2. CASE i <= n
    BY <1>1, <1>4, <1>5, <1>6, <2>1, <2>2
  <2>3. CASE i > n
    <3>1. i - n \in 1..Len(s) - n /\ n + (i - n) = i
      BY <1>1, <2>3
    <3>2. w[i] = u[i - n]
      BY <1>1, <1>4, <1>5, <1>6, <2>3, <3>1
    <3> QED
      BY <1>5, <3>1, <3>2
  <2> QED
    BY <2>1, <2>2, <2>3
<1>8. s = w
  <2>1. s \in Seq(S) /\ w \in Seq(S) /\ Len(w) = Len(s)
    BY <1>6
  <2> QED
    BY <1>7, <2>1
<1> QED
  BY <1>2, <1>3, <1>4, <1>5, <1>6, <1>8

LEMMA ReadChunkKeeps ==
    ASSUME JournalType, QuerySide, ReadChunk
    PROVE  QuerySide'
<1>1. PICK b \in Seq(Parts), p \in Seq(Parts), l \in Seq(Parts) :
         b = buf /\ p = child.pipe /\ l = child.left
  BY ChildType
<1>2. PICK room \in Nat : room = MAX_OUTPUT - Len(b) /\ Len(b) + room = MAX_OUTPUT
  <2>1. Len(b) \in Nat /\ Len(b) <= MAX_OUTPUT /\ MAX_OUTPUT \in Nat
    BY <1>1, LogsAssumption DEF QuerySide, QueryTypeOK
  <2> QED
    BY <2>1
<1>3. /\ query.pc = "read" /\ journal' = journal /\ window' = window
      /\ IF Len(p) > room
         THEN buf' = b \o SubSeq(p, 1, room) /\ child' = NoChild /\ AnswerQuery(buf', "cut")
         ELSE /\ buf' = b \o p /\ child' = [child EXCEPT !.pipe = << >>]
              /\ query' = query /\ pages' = pages /\ whole' = whole /\ listed' = listed
  BY <1>1, <1>2 DEF ReadChunk, Kill
<1>4. Saying = (b \o p) \o l
  BY <1>1 DEF Saying
<1>5. CASE Len(p) > room
  <2>1. PICK t \in Seq(Parts), u \in Seq(Parts) : t = SubSeq(p, 1, room) /\ Len(t) = room /\ p = t \o u
    <3>1. room <= Len(p)
      BY <1>5
    <3>2. /\ SubSeq(p, 1, room) \in Seq(Parts) /\ Len(SubSeq(p, 1, room)) = room
          /\ SubSeq(p, room + 1, Len(p)) \in Seq(Parts)
          /\ p = SubSeq(p, 1, room) \o SubSeq(p, room + 1, Len(p))
      BY <3>1, CutAt
    <3> QED
      BY <3>2
  <2>2. PICK c \in Seq(Parts) : c = b \o t /\ Len(c) = Len(b) + room
    <3>1. b \o t \in Seq(Parts) /\ Len(b \o t) = Len(b) + Len(t)
      OBVIOUS
    <3> QED
      BY <2>1, <3>1
  <2>3. PICK r \in Seq(Parts) : r = u \o l
    <3>1. u \o l \in Seq(Parts)
      OBVIOUS
    <3> QED
      BY <3>1
  <2>4. Saying = c \o r
    <3>0. /\ b \in Seq(Parts) /\ t \in Seq(Parts) /\ u \in Seq(Parts)
          /\ c \in Seq(Parts) /\ l \in Seq(Parts)
      BY <1>1, <2>1, <2>2, Zenon
    <3>1. b \o (t \o u) = c \o u
      <4>1. (b \o t) \o u = b \o (t \o u)
        BY <3>0
      <4> QED
        BY <2>2, <4>1, Zenon
    <3>2. (c \o u) \o l = c \o r
      <4>1. (c \o u) \o l = c \o (u \o l)
        BY <3>0
      <4> QED
        BY <2>3, <4>1, Zenon
    <3> QED
      BY <1>4, <2>1, <3>1, <3>2
  <2>5. buf' = c /\ AnswerQuery(c, "cut") /\ child' = NoChild
    BY <1>3, <1>5, <2>1, <2>2
  <2>6. Len(c) <= MAX_OUTPUT
    BY <1>2, <2>2, LogsAssumption
  <2>7. Hearing /\ UNCHANGED <<journal, window>> /\ buf' \in Seq(Parts) /\ Len(buf') <= MAX_OUTPUT
    BY <1>3, <2>5, <2>6 DEF Hearing
  <2> QED
    BY <2>4, <2>5, <2>7, AnswerQueryKeeps
<1>6. CASE ~ (Len(p) > room)
  <2>1. /\ buf' = b \o p /\ query' = query /\ pages' = pages /\ whole' = whole /\ listed' = listed
        /\ child' = [state |-> child.state, left |-> l, pipe |-> << >>]
    BY <1>1, <1>3, <1>6, ChildType
  <2>2. buf' \in Seq(Parts) /\ Len(buf') <= MAX_OUTPUT
    <3>1. Len(b \o p) = Len(b) + Len(p) /\ Len(b) \in Nat /\ Len(p) \in Nat
      OBVIOUS
    <3> QED
      BY <1>2, <1>6, <2>1, <3>1, LogsAssumption
  <2>3. Saying' = Saying
    <3>1. PICK c \in Seq(Parts) : c = b \o p
      <4>1. b \o p \in Seq(Parts)
        OBVIOUS
      <4> QED
        BY <4>1
    <3>2. Saying' = (c \o << >>) \o l
      BY <2>1, <3>1 DEF Saying
    <3> QED
      BY <1>4, <3>1, <3>2
  <2>4. Sizes' = Sizes /\ Hearing' = Hearing
    BY <1>3, <2>1 DEF Sizes, Content, Hearing
  <2>5. AskInv' /\ AskListInv' /\ PagesInv' /\ ListTellsTruth'
    BY <1>3, <2>1, <2>3, <2>4 DEF QuerySide, QueryInv, AskInv, AskListInv, PagesInv, ListTellsTruth
  <2>6. ChildInv'
    BY <1>1, <1>3, <2>1, <2>4 DEF QuerySide, QueryInv, ChildInv, Hearing
  <2>7. QueryTypeOK'
    <3>1. child' \in [state : {"none", "running", "closed", "ok", "failed"}, left : Seq(Parts), pipe : Seq(Parts)]
      BY <2>1, ChildType
    <3> QED
      BY <1>3, <2>1, <2>2, <3>1 DEF QuerySide, QueryTypeOK
  <2> QED
    BY <2>5, <2>6, <2>7 DEF QuerySide, QueryInv
<1> QED
  BY <1>5, <1>6

LEMMA ReadEofKeeps ==
    ASSUME QuerySide, ReadEof
    PROVE  QuerySide'
<1>1. /\ journal' = journal /\ window' = window /\ child' = child /\ buf' = buf
      /\ pages' = pages /\ whole' = whole /\ listed' = listed
      /\ query.pc = "read" /\ child.pipe = << >> /\ child.state # "running"
      /\ query' = [query EXCEPT !.pc = "wait"]
  BY DEF ReadEof
<1>2. query' = [what |-> query.what, pc |-> "wait", cursor |-> query.cursor, format |-> query.format]
  BY <1>1, ChildType
<1>3. Sizes' = Sizes /\ Hearing' /\ Hearing /\ Saying' = Saying
  BY <1>1, <1>2 DEF Sizes, Content, Hearing, Saying
<1>4. AskInv' /\ AskListInv' /\ PagesInv' /\ ListTellsTruth'
  BY <1>1, <1>2, <1>3 DEF QuerySide, QueryInv, AskInv, AskListInv, PagesInv, ListTellsTruth
<1>5. ChildInv'
  BY <1>1, <1>2, <1>3 DEF QuerySide, QueryInv, ChildInv
<1>6. QueryTypeOK'
  <2>1. query' \in [what : {"logs", "packages"}, pc : {"idle", "read", "wait", "end"},
                      cursor : 0..MaxEntries, format : Formats]
    BY <1>2, ChildType
  <2> QED
    BY <1>1, <2>1 DEF QuerySide, QueryTypeOK
<1> QED
  BY <1>4, <1>5, <1>6 DEF QuerySide, QueryInv

\* A query that fails.
LEMMA FailKeeps ==
    ASSUME QuerySide, Fail, Kill, UNCHANGED <<journal, window, buf>>
    PROVE  QuerySide'
<1>1. /\ journal' = journal /\ window' = window /\ child' = NoChild /\ buf' = buf
      /\ pages' = pages /\ whole' = whole /\ listed' = listed
      /\ query' = [query EXCEPT !.pc = "idle"]
  BY DEF Fail, Kill
<1>2. query' = [what |-> query.what, pc |-> "idle", cursor |-> query.cursor, format |-> query.format]
  BY <1>1, ChildType
<1>3. AskInv' /\ AskListInv' /\ PagesInv' /\ ListTellsTruth'
  BY <1>1, <1>2 DEF QuerySide, QueryInv, AskInv, AskListInv, PagesInv, ListTellsTruth, Hearing
<1>4. ChildInv'
  BY <1>1, <1>2 DEF ChildInv, Hearing, NoChild
<1>5. QueryTypeOK'
  <2>1. query' \in [what : {"logs", "packages"}, pc : {"idle", "read", "wait", "end"},
                      cursor : 0..MaxEntries, format : Formats]
    BY <1>2, ChildType
  <2>2. child' \in [state : {"none", "running", "closed", "ok", "failed"}, left : Seq(Parts), pipe : Seq(Parts)]
    BY <1>1 DEF NoChild
  <2> QED
    BY <1>1, <2>1, <2>2 DEF QuerySide, QueryTypeOK
<1> QED
  BY <1>3, <1>4, <1>5 DEF QuerySide, QueryInv

LEMMA ChildReapedKeeps ==
    ASSUME JournalType, QuerySide, ChildReaped
    PROVE  QuerySide'
<1>1. /\ query.pc = "wait" /\ child.state \in {"ok", "failed"} /\ Kill
      /\ UNCHANGED <<journal, window, buf>>
      /\ Fail \/ AnswerQuery(buf, child.state)
  BY DEF ChildReaped
<1>2. CASE Fail
  BY <1>1, <1>2, FailKeeps
<1>3. CASE AnswerQuery(buf, child.state)
  <2>1. PICK b \in Seq(Parts), l \in Seq(Parts), s \in {"ok", "failed", "cut"} :
           b = buf /\ l = child.left /\ s = child.state /\ AnswerQuery(b, s)
    BY <1>1, <1>3, ChildType
  <2>2. s = "ok" => l = << >>
    BY <2>1 DEF QuerySide, QueryInv, ChildInv
  <2>3. Saying = b \o l
    <3>1. Saying = (b \o << >>) \o l
      BY <1>1, <2>1 DEF QuerySide, QueryInv, ChildInv, Saying
    <3> QED
      BY <3>1
  <2>4. Hearing /\ child' = NoChild
    BY <1>1 DEF Hearing, Kill
  <2>5. buf' \in Seq(Parts) /\ Len(buf') <= MAX_OUTPUT /\ UNCHANGED <<journal, window>>
    BY <1>1 DEF QuerySide, QueryTypeOK
  <2> QED
    BY <2>1, <2>2, <2>3, <2>4, <2>5, AnswerQueryKeeps
<1> QED
  BY <1>1, <1>2, <1>3

LEMMA QueryStepKeeps ==
    ASSUME JournalType, QuerySide, QuerySteps
    PROVE  QuerySide' /\ UNCHANGED <<journal, followVars, ring, pumpVars>>
<1>1. CASE \E limit \in 0..MAX_LIMIT + 1 : Spawn(limit)
  BY <1>1, SpawnKeeps DEF Spawn
<1>2. CASE SpawnList
  BY <1>2, SpawnListKeeps DEF SpawnList
<1>3. CASE ReadChunk
  BY <1>3, ReadChunkKeeps DEF ReadChunk
<1>4. CASE ReadEof
  BY <1>4, ReadEofKeeps DEF ReadEof
<1>5. CASE ChildReaped
  BY <1>5, ChildReapedKeeps DEF ChildReaped
<1>6. CASE Deadline
  BY <1>6, FailKeeps DEF Deadline
<1>7. CASE ReadFails
  BY <1>7, FailKeeps DEF ReadFails
<1> QED
  BY <1>1, <1>2, <1>3, <1>4, <1>5, <1>6, <1>7 DEF QuerySteps

-----------------------------------------------------------------------------
(* The follow task.                                                        *)

FollowSide == FollowTypeOK /\ FollowInv

LEMMA StartRule ==
    ASSUME NEW k \in Nat, NEW r \in Nat
    PROVE  /\ Start(k, r) \in Seq(Part) /\ Len(Start(k, r)) = r
           /\ \A i \in 1..r : Start(k, r)[i] = <<k, i>>
<1>1. \A i \in 1..r : <<k, i>> \in Part
  BY DEF Part
<1> QED
  BY <1>1 DEF Start

LEMMA StartOnly ==
    ASSUME NEW k \in Nat, NEW r \in Nat, NEW s \in Seq(Part), Len(s) = r, \A i \in 1..r : s[i] = <<k, i>>
    PROVE  s = Start(k, r)
<1>1. Start(k, r) \in Seq(Part) /\ Len(Start(k, r)) = r /\ \A i \in 1..r : Start(k, r)[i] = <<k, i>>
  BY StartRule
<1>2. PICK t \in Seq(Part) : t = Start(k, r)
  BY <1>1
<1>3. Len(s) = Len(t) /\ \A i \in 1..Len(s) : s[i] = t[i]
  BY <1>1, <1>2
<1>4. s = t
  BY <1>3
<1> QED
  BY <1>2, <1>4

LEMMA StartZero == ASSUME NEW k PROVE Start(k, 0) = << >>
  BY DEF Start

\* The text of a line, without its newline.
LEMMA FrontOfLine ==
    ASSUME JournalType, NEW k \in 1..Len(journal)
    PROVE  Front(Line(k)) = Start(k, Content(k)) /\ Content(k) \in Nat \ {0}
<1>1. PICK n \in Nat \ {0} : n = Content(k)
  BY SizesType, LogsAssumption
<1>2. PICK s \in Seq(Part) : s = Start(k, n) /\ Len(s) = n
  BY <1>1, StartRule, SizesType
<1>3. Line(k) = Append(s, <<k, 0>>)
  BY <1>1, <1>2 DEF Line, LineOf, Start
<1>4. Front(Append(s, <<k, 0>>)) = s
  BY <1>2 DEF Front
<1> QED
  BY <1>1, <1>2, <1>3, <1>4

\* The entry whose text begins with that of a line.
LEMMA ParsesRule ==
    ASSUME JournalType, NEW x \in Nat \ {0}, NEW r \in Nat \ {0}, NEW k \in 1..Len(journal)
    PROVE  Parses(Start(x, r), k) <=> k = x /\ r = Content(x) /\ journal[x] # "junk"
<1>1. Front(Line(k)) = Start(k, Content(k)) /\ Content(k) \in Nat \ {0}
  BY FrontOfLine
<1>2. /\ Len(Start(x, r)) = r /\ Start(x, r)[1] = <<x, 1>>
      /\ Len(Start(k, Content(k))) = Content(k) /\ Start(k, Content(k))[1] = <<k, 1>>
  <2>1. 1 \in 1..r /\ 1 \in 1..Content(k) /\ k \in Nat
    BY <1>1, SizesType
  <2>2. Len(Start(x, r)) = r /\ \A i \in 1..r : Start(x, r)[i] = <<x, i>>
    BY StartRule
  <2>3. PICK c \in Nat : c = Content(k)
    BY <1>1
  <2>4. Len(Start(k, c)) = c /\ \A i \in 1..c : Start(k, c)[i] = <<k, i>>
    BY <2>1, StartRule
  <2> QED
    BY <2>1, <2>2, <2>3, <2>4
<1> QED
  BY <1>1, <1>2 DEF Parses

LEMMA WantedNext ==
    ASSUME NEW e \in Nat
    PROVE  Wanted(e + 1) = IF journal[e + 1] # "junk" /\ Content(e + 1) <= MAX_FOLLOW_LINE
                           THEN Wanted(e) \cup {e + 1} ELSE Wanted(e)
<1>1. \A k \in 1..e + 1 : k \in 1..e \/ k = e + 1
  OBVIOUS
<1>2. \A k \in 1..e : k \in 1..e + 1
  OBVIOUS
<1>3. e + 1 \in 1..e + 1
  OBVIOUS
<1> QED
  BY <1>1, <1>2, <1>3 DEF Wanted

\* What a line that ends does to what was told.
LEMMA EndOfLineTells ==
    ASSUME JournalType, NEW e \in Nat, e + 1 <= Len(journal), NEW r \in Nat \ {0}, r <= Content(e + 1),
           ring \in Seq(1..MaxEntries), InOrder(ring), ToSet(ring) = Wanted(e),
           NEW text, NEW cut \in BOOLEAN, cut => r > MAX_FOLLOW_LINE,
           ~ cut => text = Start(e + 1, r) /\ r <= MAX_FOLLOW_LINE,
           EndOfLine(text, cut)
    PROVE  /\ line' = << >> /\ over' = FALSE /\ ring' \in Seq(1..MaxEntries) /\ InOrder(ring')
           /\ ToSet(ring') = Wanted(e) \/ ToSet(ring') = Wanted(e + 1)
           /\ cut \/ r = Content(e + 1) => ToSet(ring') = Wanted(e + 1)
<1>1. PICK n \in Nat, x \in Nat \ {0}, c \in Nat \ {0} :
         n = Len(journal) /\ n <= MaxEntries /\ x = e + 1 /\ c = Content(x) /\ x \in 1..n /\ r <= c
  <2>1. e + 1 \in Nat \ {0} /\ e + 1 \in 1..Len(journal) /\ Len(journal) \in Nat
    BY SizesType
  <2>2. Content(e + 1) \in Nat \ {0}
    BY <2>1, SizesType, LogsAssumption
  <2> QED
    BY <2>1, <2>2 DEF JournalType
<1>2. Wanted(x) = IF journal[x] # "junk" /\ c <= MAX_FOLLOW_LINE THEN Wanted(e) \cup {x} ELSE Wanted(e)
  BY <1>1, WantedNext
<1>3. line' = << >> /\ over' = FALSE
  BY DEF EndOfLine
<1>4. CASE ~ cut /\ r = c /\ journal[x] # "junk"
  <2>1. \A k \in 1..n : Parses(text, k) <=> k = x
    BY <1>1, <1>4, ParsesRule
  <2>2. ring' = Append(ring, x)
    <3>1. (CHOOSE k \in 1..n : Parses(text, k)) = x
      BY <1>1, <2>1
    <3> QED
      BY <1>1, <1>4, <2>1, <3>1 DEF EndOfLine, Broadcast
  <2>3. \A k \in ToSet(ring) : k < x
    BY <1>1 DEF Wanted
  <2>4. x \in 1..MaxEntries
    BY <1>1, LogsAssumption
  <2>5. PICK s \in Seq(1..MaxEntries), t \in Seq(1..MaxEntries) : s = ring /\ t = ring' /\ t = Append(s, x)
    <3>1. PICK s \in Seq(1..MaxEntries) : s = ring
      OBVIOUS
    <3>2. Append(s, x) \in Seq(1..MaxEntries)
      BY <2>4
    <3> QED
      BY <2>2, <3>1, <3>2
  <2>6. /\ Len(t) = Len(s) + 1 /\ Len(s) \in Nat /\ t[Len(s) + 1] = x
        /\ \A i \in 1..Len(s) : t[i] = s[i] /\ s[i] \in ToSet(s)
        /\ DOMAIN s = 1..Len(s) /\ DOMAIN t = 1..Len(t)
    BY <2>5 DEF ToSet
  <2>7. InOrder(t)
    <3> SUFFICES ASSUME NEW i \in 1..Len(t), NEW j \in 1..Len(t), i < j PROVE t[i] < t[j]
      BY <2>6 DEF InOrder
    <3>1. i \in 1..Len(s)
      BY <2>6
    <3>2. CASE j \in 1..Len(s)
      BY <2>5, <2>6, <3>1, <3>2 DEF InOrder
    <3>3. CASE j = Len(s) + 1
      BY <2>3, <2>5, <2>6, <3>1, <3>3
    <3> QED
      BY <2>6, <3>2, <3>3
  <2>8. ToSet(t) = ToSet(s) \cup {x}
    <3>1. \A i \in 1..Len(t) : i \in 1..Len(s) \/ i = Len(s) + 1
      BY <2>6
    <3>2. \A i \in 1..Len(s) : i \in 1..Len(t)
      BY <2>6
    <3>3. Len(s) + 1 \in 1..Len(t)
      BY <2>6
    <3> QED
      BY <2>6, <3>1, <3>2, <3>3 DEF ToSet
  <2>9. ToSet(t) = Wanted(x)
    BY <1>1, <1>2, <1>4, <2>5, <2>8
  <2> QED
    BY <1>1, <1>3, <2>5, <2>7, <2>9
<1>5. CASE cut \/ r # c \/ journal[x] = "junk"
  <2>1. ring' = ring
    <3>1. ASSUME ~ cut, NEW k \in 1..n PROVE ~ Parses(text, k)
      BY <1>1, <1>5, <3>1, ParsesRule
    <3> QED
      BY <1>1, <3>1 DEF EndOfLine
  <2>2. cut => Wanted(x) = Wanted(e)
    <3>1. cut => ~ (c <= MAX_FOLLOW_LINE)
      BY <1>1, LogsAssumption
    <3> QED
      BY <1>2, <3>1
  <2>3. journal[x] = "junk" => Wanted(x) = Wanted(e)
    BY <1>2
  <2> QED
    BY <1>1, <1>3, <1>5, <2>1, <2>2, <2>3
<1> QED
  BY <1>4, <1>5

LEMMA FollowType ==
    ASSUME FollowSide
    PROVE  /\ follow = [task |-> follow.task, child |-> follow.child, pos |-> follow.pos]
           /\ follow.task \in {"reads", "ended"} /\ follow.child \in {"running", "closed", "dead"}
           /\ follow.pos \in 0..MaxEntries /\ follow.pos \in Nat /\ follow.pos <= Len(journal)
           /\ out = [left |-> out.left, pipe |-> out.pipe]
           /\ out.left \in Seq(Parts) /\ out.pipe \in Seq(Parts)
           /\ out.left \in Seq(PartsTo(follow.pos)) /\ out.pipe \in Seq(PartsTo(follow.pos))
           /\ line \in Seq(Parts) /\ Len(line) <= MAX_FOLLOW_LINE /\ over \in BOOLEAN
           /\ ring \in Seq(1..MaxEntries) /\ InOrder(ring)
<1>1. follow.pos \in 0..MaxEntries
  BY DEF FollowSide, FollowTypeOK
<1>2. follow.pos \in Nat
  BY <1>1, LogsAssumption
<1> QED
  BY <1>1, <1>2 DEF FollowSide, FollowTypeOK, FollowInv, Alive

LEMMA FollowFrame ==
    ASSUME FollowSide, UNCHANGED <<journal, followVars, ring>>
    PROVE  FollowSide'
<1>1. /\ journal' = journal /\ follow' = follow /\ out' = out /\ line' = line /\ over' = over
      /\ ring' = ring
  BY DEF followVars
<1>2. Sizes' = Sizes /\ \A n : Wanted(n)' = Wanted(n)
  BY <1>1 DEF Sizes, Content, Wanted
<1>3. \A e, r : Heard(e, r)' = Heard(e, r)
  BY <1>1, <1>2 DEF Heard, Stored, At, Start, Content
<1>4. Torn' = Torn
  BY <1>1, <1>2 DEF Torn
<1> QED
  BY <1>1, <1>3, <1>4 DEF FollowSide, FollowTypeOK, FollowInv, Alive

\* What an entry more leaves as it was.
LEMMA LogFollows ==
    ASSUME JournalType, FollowSide, NEW kind \in Kinds, Log(kind)
    PROVE  FollowSide'
<1>1. /\ follow' = follow /\ out' = out /\ line' = line /\ over' = over /\ ring' = ring
  BY DEF Log, followVars
<1>2. PICK n \in Nat, p \in Nat : /\ n = Len(journal) /\ p = follow.pos /\ p <= n /\ Len(journal') = n + 1
                                  /\ \A k \in 1..n : /\ journal'[k] = journal[k]
                                                     /\ Content(k)' = Content(k) /\ Sizes'[k] = Sizes[k]
  BY LogEffect, FollowType
<1>3. \A e \in 0..p : Wanted(e)' = Wanted(e)
  <2> SUFFICES ASSUME NEW e \in 0..p PROVE Wanted(e)' = Wanted(e)
    OBVIOUS
  <2>1. \A k \in 1..e : k \in 1..n
    BY <1>2
  <2>2. \A k \in 1..e : journal'[k] = journal[k] /\ Content(k)' = Content(k)
    BY <1>2, <2>1
  <2> QED
    BY <2>2 DEF Wanted
<1>4. ASSUME NEW e \in 0..p, NEW r \in Nat, Heard(e, r) PROVE Heard(e, r)'
  <2>1. r > 0 => e + 1 <= p /\ e + 1 \in 1..n /\ r <= Content(e + 1)
    BY <1>2, <1>4 DEF Heard
  <2>2. PICK s \in Seq(PartsTo(p)) : s = out.pipe \o out.left
    <3>1. PICK x \in Seq(PartsTo(p)), y \in Seq(PartsTo(p)) : x = out.pipe /\ y = out.left
      BY <1>2, FollowType
    <3>2. x \o y \in Seq(PartsTo(p))
      OBVIOUS
    <3> QED
      BY <3>1, <3>2
  <2>3. \A k \in 1..p : Sizes'[k] = Sizes[k]
    BY <1>2
  <2>4. PICK len, more : len = Sizes /\ more = Sizes'
    OBVIOUS
  <2>5. Runs(At(e, r), s, len)
    BY <1>4, <2>2, <2>4 DEF Heard
  <2>6. Runs(At(e, r), s, more)
    <3>1. \A k \in 1..p : more[k] = len[k]
      BY <2>3, <2>4
    <3>2. CASE r = 0
      <4>1. Runs(<<e, 0>>, s, len)
        BY <2>5, <3>2 DEF At
      <4>2. Runs(<<e, 0>>, s, more)
        BY <3>1, <4>1, RunsExtend
      <4> QED
        BY <3>2, <4>2 DEF At
    <3>3. CASE r # 0
      <4>1. Runs(<<e + 1, r>>, s, len)
        BY <2>5, <3>3 DEF At
      <4>2. more[e + 1] = len[e + 1]
        BY <1>2, <2>1, <2>4, <3>3
      <4>3. Runs(<<e + 1, r>>, s, more)
        BY <3>1, <4>1, <4>2, RunsExtend
      <4> QED
        BY <3>3, <4>3 DEF At
    <3> QED
      BY <3>2, <3>3
  <2>7. r > 0 => r <= Content(e + 1)'
    BY <1>2, <2>1
  <2>8. At(e, r)' = At(e, r) /\ Start(e + 1, r)' = Start(e + 1, r)
    BY DEF At, Start
  <2> QED
    BY <1>1, <1>2, <1>3, <1>4, <2>1, <2>2, <2>4, <2>6, <2>7, <2>8 DEF Heard, Stored
<1>5. Torn => Torn'
  BY <1>1, <1>2, <1>3 DEF Torn
<1>6. (\E e \in 0..p, r \in Nat : Heard(e, r)') \/ Torn'
  BY <1>2, <1>4, <1>5 DEF FollowSide, FollowInv
<1> QED
  BY <1>1, <1>2, <1>6 DEF FollowSide, FollowTypeOK, FollowInv, Alive

LEMMA DiesKeeps ==
    ASSUME FollowSide, (\E s \in {"closed", "dead"} : FollowChildEnds(s)) \/ FollowStops
    PROVE  FollowSide'
<1>1. /\ journal' = journal /\ out' = out /\ line' = line /\ over' = over /\ ring' = ring
      /\ follow'.child \in {"closed", "dead"} /\ follow'.pos = follow.pos
      /\ follow'.task \in {"reads", "ended"} /\ (follow'.task = "ended" => follow'.child = "dead")
      /\ follow' = [task |-> follow'.task, child |-> follow'.child, pos |-> follow.pos]
  <2>1. CASE FollowStops
    BY <2>1, FollowType DEF FollowStops
  <2>2. ASSUME NEW s \in {"closed", "dead"}, FollowChildEnds(s)
        PROVE  /\ follow' = [follow EXCEPT !.child = s] /\ follow.task = "reads"
               /\ UNCHANGED <<journal, out, line, over, ring>>
    BY <2>2, FollowType DEF FollowChildEnds, Alive, FollowSide, FollowInv
  <2>3. CASE \E s \in {"closed", "dead"} : FollowChildEnds(s)
    BY <2>2, <2>3, FollowType
  <2> QED
    BY <2>1, <2>3
<1>2. follow'.child # "running" /\ follow'.pos = follow.pos
  BY <1>1
<1>3. Sizes' = Sizes /\ \A n : Wanted(n)' = Wanted(n)
  BY <1>1 DEF Sizes, Content, Wanted
<1>4. \A e, r : Heard(e, r)' = Heard(e, r)
  BY <1>1, <1>2, <1>3 DEF Heard, Stored, At, Start, Content
<1>5. Torn => Torn'
  BY <1>1, <1>2, <1>3 DEF Torn
<1>6. follow' \in [task : {"reads", "ended"}, child : {"running", "closed", "dead"}, pos : 0..MaxEntries]
  BY <1>1, FollowType
<1> QED
  BY <1>1, <1>2, <1>4, <1>5, <1>6 DEF FollowSide, FollowTypeOK, FollowInv, Alive

\* A line more in the pipe, or a part more of one.
LEMMA FollowWritesKeeps ==
    ASSUME JournalType, FollowSide, FollowWrites
    PROVE  FollowSide'
<1>1. PICK p \in Nat, n \in Nat, x \in Seq(Parts), y \in Seq(Parts) :
         p = follow.pos /\ p <= n /\ n = Len(journal) /\ n <= MaxEntries /\ x = out.pipe /\ y = out.left
  BY FollowType, SizesType DEF JournalType
<1>2. PICK rest : rest = IF y = << >> THEN Line(p + 1) ELSE y
  OBVIOUS
<1>3. PICK q : q = IF y = << >> THEN p + 1 ELSE p
  OBVIOUS
<1>4. /\ follow.child = "running" /\ (y = << >> => p < n)
      /\ out' = [left |-> Tail(rest), pipe |-> Append(x, Head(rest))]
      /\ follow' = [follow EXCEPT !.pos = q]
      /\ journal' = journal /\ line' = line /\ over' = over /\ ring' = ring
  BY <1>1, <1>2, <1>3 DEF FollowWrites
<1>5. q \in p..n /\ q \in Nat
  BY <1>1, <1>3, <1>4
<1>6. x \in Seq(PartsTo(p)) /\ y \in Seq(PartsTo(p))
  BY <1>1, FollowType
<1>7. y = << >> => IsText(rest, p, p + 1, Sizes) /\ rest \in Seq(Parts)
  <2> SUFFICES ASSUME y = << >> PROVE IsText(rest, p, p + 1, Sizes) /\ rest \in Seq(Parts)
    OBVIOUS
  <2>1. p + 1 \in 1..n /\ p + 1 \in 1..Len(journal)
    BY <1>1, <1>4
  <2>2. PICK c \in Nat \ {0} : c = Content(p + 1) /\ Sizes[p + 1] = c /\ c \in 0..LongLine
    BY <2>1, SizesType, LogsAssumption
  <2>3. rest = LineOf(p + 1, c)
    BY <1>2, <2>2 DEF Line
  <2>4. IsText(rest, p, p + 1, Sizes)
    BY <2>2, <2>3, LineIsText
  <2>5. p + 1 \in 1..MaxEntries + Packages
    BY <1>1, <2>1, LogsAssumption
  <2> QED
    BY <2>2, <2>3, <2>4, <2>5, LineType
<1>8. rest \in Seq(Parts) /\ rest \in Seq(PartsTo(q)) /\ rest # << >> /\ x \in Seq(PartsTo(q))
  <2>1. CASE y = << >>
    <3>1. rest \in Seq((p + 1 .. p + 1) \X Nat) /\ EndOf(<<p, 0>>, rest) = <<p + 1, 0>>
      BY <1>7, <2>1 DEF IsText
    <3>2. \A z \in (p + 1 .. p + 1) \X Nat : z \in PartsTo(q)
      BY <1>3, <2>1 DEF PartsTo
    <3>3. \A z \in PartsTo(p) : z \in PartsTo(q)
      BY <1>3, <2>1 DEF PartsTo
    <3>4. rest \in Seq(PartsTo(q))
      BY <3>1, <3>2, LargerSet
    <3>5. x \in Seq(PartsTo(q))
      BY <1>6, <3>3, LargerSet
    <3>6. rest # << >>
      BY <3>1 DEF EndOf
    <3> QED
      BY <1>7, <2>1, <3>4, <3>5, <3>6
  <2>2. CASE y # << >>
    BY <1>2, <1>3, <1>6, <2>2
  <2> QED
    BY <2>1, <2>2
<1>9. PICK s \in Seq(Parts), t \in Seq(Parts) :
         /\ s = Append(x, Head(rest)) /\ t = Tail(rest) /\ s \o t = x \o rest
         /\ s \in Seq(PartsTo(q)) /\ t \in Seq(PartsTo(q))
  <2>1. Append(x, Head(rest)) \in Seq(Parts) /\ Tail(rest) \in Seq(Parts)
    BY <1>8, MovePart
  <2>2. Append(x, Head(rest)) \in Seq(PartsTo(q)) /\ Tail(rest) \in Seq(PartsTo(q))
    BY <1>8, MovePart
  <2>3. Append(x, Head(rest)) \o Tail(rest) = x \o rest
    BY <1>8, MovePart
  <2> QED
    BY <2>1, <2>2, <2>3
<1>10. PICK e \in 0..p, r \in Nat : Heard(e, r)
  BY <1>1, <1>4 DEF FollowSide, FollowInv, Torn
<1>11. Runs(At(e, r), s \o t, Sizes) /\ EndOf(At(e, r), s \o t) = <<q, 0>>
  <2>1. Runs(At(e, r), x \o y, Sizes) /\ EndOf(At(e, r), x \o y) = <<p, 0>>
    BY <1>1, <1>10 DEF Heard
  <2>2. CASE y # << >>
    BY <1>2, <1>3, <1>9, <2>1, <2>2
  <2>3. CASE y = << >>
    <3>1. x \o y = x
      BY <2>3
    <3>2. Runs(At(e, r), x, Sizes) /\ EndOf(At(e, r), x) = <<p, 0>>
      BY <2>1, <3>1
    <3>3. Runs(<<p, 0>>, rest, Sizes) /\ EndOf(<<p, 0>>, rest) = <<q, 0>>
      BY <1>3, <1>7, <2>3 DEF IsText
    <3>4. x \in Seq(Part) /\ rest \in Seq(Part)
      BY <1>8, SeqOfPart
    <3>5. PICK c : c = At(e, r)
      OBVIOUS
    <3>6. Runs(c, x, Sizes) /\ Runs(EndOf(c, x), rest, Sizes) /\ EndOf(EndOf(c, x), rest) = <<q, 0>>
      BY <3>2, <3>3, <3>5
    <3>7. Runs(c, x \o rest, Sizes) /\ EndOf(c, x \o rest) = <<q, 0>>
      BY <3>4, <3>6, RunsJoin
    <3> QED
      BY <1>9, <3>5, <3>7
  <2> QED
    BY <2>2, <2>3
<1>12. out' = [left |-> t, pipe |-> s] /\ follow' = [task |-> follow.task, child |-> "running", pos |-> q]
  BY <1>4, <1>9, FollowType
<1>13. Sizes' = Sizes /\ Wanted(e)' = Wanted(e) /\ Content(e + 1)' = Content(e + 1)
  BY <1>4 DEF Sizes, Content, Wanted
<1>14. Heard(e, r)'
  <2>1. r > 0 => e + 1 <= q
    BY <1>1, <1>5, <1>10 DEF Heard
  <2>2. out'.pipe = s /\ out'.left = t /\ follow'.pos = q
    BY <1>12
  <2>3. At(e, r)' = At(e, r) /\ Start(e + 1, r)' = Start(e + 1, r)
    BY DEF At, Start
  <2> QED
    BY <1>4, <1>10, <1>11, <1>13, <2>1, <2>2, <2>3 DEF Heard, Stored
<1>15. e \in 0..q
  BY <1>1, <1>5
<1>16. FollowInv'
  BY <1>1, <1>4, <1>5, <1>9, <1>12, <1>14, <1>15 DEF FollowSide, FollowInv
<1>17. FollowTypeOK'
  <2>1. q \in 0..MaxEntries
    BY <1>1, <1>5, LogsAssumption
  <2>2. follow' \in [task : {"reads", "ended"}, child : {"running", "closed", "dead"}, pos : 0..MaxEntries]
    BY <1>12, <2>1, FollowType
  <2>3. out' \in [left : Seq(Parts), pipe : Seq(Parts)]
    BY <1>12
  <2> QED
    BY <1>4, <2>2, <2>3 DEF FollowSide, FollowTypeOK
<1> QED
  BY <1>16, <1>17 DEF FollowSide

\* What is read of a line, and what is stored of it.
Room           == MAX_FOLLOW_LINE - Len(line)
Taken(u)       == IF over THEN 0 ELSE IF Room < u THEN Room ELSE u
LineThen(p, u) == line \o SubSeq(p, 1, Taken(u))
CutThen(u)     == over \/ Taken(u) < u

\* The next u parts of line k.
More(p, k, r, u) == u <= Len(p) /\ \A i \in 1..u : p[i] = <<k, r + i>>

LEMMA TurnText ==
    ASSUME FollowSide, NEW e \in Nat, NEW r \in Nat, NEW p \in Seq(Parts), p = out.pipe,
           Stored(e, r),
           NEW u \in Nat, More(p, e + 1, r, u)
    PROVE  /\ LineThen(p, u) \in Seq(Parts) /\ Len(LineThen(p, u)) <= MAX_FOLLOW_LINE
           /\ CutThen(u) \in BOOLEAN
           /\ CutThen(u) => r + u > MAX_FOLLOW_LINE
           /\ ~ CutThen(u) => LineThen(p, u) = Start(e + 1, r + u) /\ r + u <= MAX_FOLLOW_LINE
<1>0. PICK room, take, text, cut :
         /\ room = MAX_FOLLOW_LINE - Len(line)
         /\ take = IF over THEN 0 ELSE IF room < u THEN room ELSE u
         /\ text = line \o SubSeq(p, 1, take) /\ text = LineThen(p, u)
         /\ cut = (over \/ take < u) /\ cut = CutThen(u)
  BY DEF Room, Taken, LineThen, CutThen
<1> u <= Len(p) /\ \A i \in 1..u : p[i] = <<e + 1, r + i>>
  BY DEF More
<1>1. PICK l \in Seq(Parts), m \in Nat : l = line /\ m = MAX_FOLLOW_LINE /\ Len(l) \in Nat /\ Len(l) <= m
  BY FollowType, LogsAssumption
<1>2. /\ over \in BOOLEAN
      /\ ~ over => l = Start(e + 1, r) /\ Len(l) = r
  <2>1. ~ over => l = Start(e + 1, r)
    BY <1>1 DEF Stored
  <2>2. Len(Start(e + 1, r)) = r
    <3>1. PICK x \in Nat : x = e + 1
      OBVIOUS
    <3>2. Len(Start(x, r)) = r
      BY StartRule
    <3> QED
      BY <3>1, <3>2
  <2> QED
    BY <2>1, <2>2, FollowType
<1>3. take \in Nat /\ take <= u /\ take <= Len(p) /\ Len(l) + take <= m
  <2>0. room = MAX_FOLLOW_LINE - Len(line) /\ take = IF over THEN 0 ELSE IF room < u THEN room ELSE u
    BY <1>0
  <2>1. room \in Nat /\ Len(l) + room = m
    BY <1>1, <2>0
  <2>2. CASE over
    BY <1>1, <2>0, <2>2
  <2>3. CASE ~ over /\ room < u
    <3>1. take = room
      BY <2>0, <2>3
    <3> QED
      BY <1>1, <2>1, <2>3, <3>1
  <2>4. CASE ~ over /\ ~ (room < u)
    <3>1. take = u
      BY <2>0, <2>4
    <3> QED
      BY <1>1, <2>1, <2>4, <3>1
  <2> QED
    BY <2>2, <2>3, <2>4
<1>4. PICK t \in Seq(Parts) : t = SubSeq(p, 1, take) /\ Len(t) = take /\ \A i \in 1..take : t[i] = p[i]
  <2>1. SubSeq(p, 1, take) \in Seq(Parts) /\ Len(SubSeq(p, 1, take)) = take
        /\ \A i \in 1..take : SubSeq(p, 1, take)[i] = p[i]
    BY <1>3
  <2> QED
    BY <2>1
<1>5. PICK w \in Seq(Parts) : /\ w = l \o t /\ Len(w) = Len(l) + take
                              /\ \A i \in 1..Len(l) : w[i] = l[i]
                              /\ \A i \in 1..take : w[Len(l) + i] = t[i]
  <2>1. l \o t \in Seq(Parts) /\ Len(l \o t) = Len(l) + Len(t)
    OBVIOUS
  <2>2. \A i \in 1..Len(l) : (l \o t)[i] = l[i]
    BY <2>1
  <2>3. \A i \in 1..Len(t) : (l \o t)[Len(l) + i] = t[i]
    BY <2>1
  <2>4. PICK w : w = l \o t
    OBVIOUS
  <2>5. /\ w \in Seq(Parts) /\ Len(w) = Len(l) + take
        /\ \A i \in 1..Len(l) : w[i] = l[i]
        /\ \A i \in 1..take : w[Len(l) + i] = t[i]
    BY <1>4, <2>1, <2>2, <2>3, <2>4
  <2> QED
    BY <2>4, <2>5
<1>6. text = w
  BY <1>0, <1>1, <1>4, <1>5
<1>7. ASSUME ~ cut PROVE w = Start(e + 1, r + u) /\ r + u <= MAX_FOLLOW_LINE
  <2>1. ~ over /\ take = u /\ Len(l) = r /\ l = Start(e + 1, r)
    <3>1. ~ over /\ ~ (take < u)
      BY <1>0, <1>7
    <3> QED
      BY <1>2, <1>3, <3>1
  <2>2. \A i \in 1..r : w[i] = <<e + 1, i>>
    <3>1. \A i \in 1..r : Start(e + 1, r)[i] = <<e + 1, i>>
      <4>1. PICK x \in Nat : x = e + 1
        OBVIOUS
      <4>2. \A i \in 1..r : Start(x, r)[i] = <<x, i>>
        BY StartRule
      <4> QED
        BY <4>1, <4>2
    <3> QED
      BY <1>5, <2>1, <3>1
  <2>3. \A i \in 1..u : w[r + i] = <<e + 1, r + i>>
    BY <1>4, <1>5, <2>1
  <2>4. \A i \in 1..r + u : w[i] = <<e + 1, i>>
    <3> SUFFICES ASSUME NEW i \in 1..r + u PROVE w[i] = <<e + 1, i>>
      OBVIOUS
    <3>1. CASE i <= r
      BY <2>2, <3>1
    <3>2. CASE i > r
      <4>1. PICK j \in 1..u : r + j = i
        <5>1. i - r \in 1..u /\ r + (i - r) = i
          BY <3>2
        <5> QED
          BY <5>1
      <4> QED
        BY <2>3, <4>1
    <3> QED
      BY <3>1, <3>2
  <2>5. Len(w) = r + u
    BY <1>5, <2>1
  <2>6. w \in Seq(Part)
    BY SeqOfPart
  <2>7. w = Start(e + 1, r + u)
    <3>1. PICK x \in Nat, y \in Nat : x = e + 1 /\ y = r + u
      OBVIOUS
    <3>2. Len(w) = y /\ \A i \in 1..y : w[i] = <<x, i>>
      BY <2>4, <2>5, <3>1
    <3>3. w = Start(x, y)
      BY <2>6, <3>2, StartOnly
    <3> QED
      BY <3>1, <3>3
  <2> QED
    BY <1>1, <1>3, <2>1, <2>7
<1>8. ASSUME cut PROVE r + u > MAX_FOLLOW_LINE
  <2>1. CASE over
    BY <2>1, LogsAssumption DEF Stored
  <2>2. CASE ~ over
    <3>1. take < u
      BY <1>0, <1>8, <2>2
    <3>2. take = room /\ room = MAX_FOLLOW_LINE - Len(line)
      BY <1>0, <1>3, <2>2, <3>1
    <3>3. Len(l) = r
      BY <1>2, <2>2
    <3> QED
      BY <1>1, <3>1, <3>2, <3>3
  <2> QED
    BY <2>1, <2>2
<1> QED
  BY <1>0, <1>1, <1>3, <1>5, <1>6, <1>7, <1>8

LEMMA ReadLineKeeps ==
    ASSUME JournalType, FollowSide, ReadLine
    PROVE  FollowSide'
<1>1. PICK n \in Nat, f \in Nat, p \in Seq(Parts), l \in Seq(Parts) :
         /\ n = Len(journal) /\ f = follow.pos /\ f <= n /\ p = out.pipe /\ l = out.left
         /\ p \in Seq(PartsTo(f)) /\ l \in Seq(PartsTo(f)) /\ p # << >>
  BY FollowType, SizesType DEF ReadLine
<1>2. PICK u : u = UptoNewline(p)
  OBVIOUS
<1>3. /\ u \in Nat /\ u <= Len(p) /\ Len(p) \in Nat
      /\ \A i \in 1..u : p[i][2] # 0
      /\ u < Len(p) => p[u + 1][2] = 0
  <2>1. p \in Seq(Part)
    BY SeqOfPart
  <2> QED
    BY <1>2, <2>1, NextNewline
<1>4. PICK text, cut : text = LineThen(p, u) /\ cut = CutThen(u)
  OBVIOUS
<1>5. /\ IF u < Len(p) THEN EndOfLine(text, cut)
         ELSE line' = text /\ over' = cut /\ ring' = ring
      /\ out' = [out EXCEPT !.pipe = SubSeq(@, (u + 1) + 1, Len(@))]
      /\ journal' = journal /\ follow' = follow
  BY <1>1, <1>2, <1>4 DEF ReadLine, LineTurn, Room, Taken, LineThen, CutThen
<1>6. PICK e \in 0..f, r \in Nat : Heard(e, r)
  BY <1>1 DEF FollowSide, FollowInv, Torn
<1>7. /\ r > 0 => e + 1 <= f /\ r <= Content(e + 1)
      /\ Runs(At(e, r), p \o l, Sizes) /\ EndOf(At(e, r), p \o l) = <<f, 0>>
      /\ Stored(e, r)
      /\ ToSet(ring) = Wanted(e)
  BY <1>1, <1>6 DEF Heard
<1>8. e \in Nat
  OBVIOUS
<1>9. p \in Seq(Part) /\ l \in Seq(Part)
  BY SeqOfPart
<1>10. Runs(At(e, r), p, Sizes)
  <2>1. PICK c : c = At(e, r)
    OBVIOUS
  <2> QED
    BY <1>7, <1>9, <2>1, RunsSplit
<1>11. /\ \A i \in 1..u : p[i] = <<e + 1, r + i>>
       /\ r + u > 0 => e + 1 \in 1..n /\ r + u <= Content(e + 1)
  <2>1. p \in Seq(PartsTo(n)) /\ Sizes \in Lengths(n) /\ \A k \in 1..n : Sizes[k] = Content(k)
    <3>1. \A z \in PartsTo(f) : z \in PartsTo(n)
      BY <1>1 DEF PartsTo
    <3>2. p \in Seq(PartsTo(n))
      BY <1>1, <3>1, LargerSet
    <3> QED
      BY <1>1, <3>2, SizesType
  <2>2. r > 0 => e + 1 \in 1..n /\ r <= Sizes[e + 1]
    BY <1>1, <1>7, <2>1
  <2>3. Runs(IF r = 0 THEN <<e, 0>> ELSE <<e + 1, r>>, p, Sizes)
    BY <1>10 DEF At
  <2>4. u \in 0..Len(p)
    BY <1>3
  <2>5. PICK len : len = Sizes
    OBVIOUS
  <2>6. /\ \A i \in 1..u : p[i] = <<e + 1, r + i>>
        /\ r + u > 0 => e + 1 \in 1..n /\ r + u <= len[e + 1]
    BY <1>3, <2>1, <2>2, <2>3, <2>4, <2>5, LineSoFar
  <2> QED
    BY <2>1, <2>5, <2>6
<1>12. r + u > 0 => e + 1 <= f
  <2>1. CASE r > 0
    BY <1>7, <2>1
  <2>2. CASE u > 0
    <3>1. 1 \in 1..u /\ 1 \in 1..Len(p)
      BY <1>3, <2>2
    <3>2. p[1] = <<e + 1, r + 1>>
      BY <1>11, <3>1
    <3>3. p[1] \in PartsTo(f)
      BY <1>1, <3>1
    <3> QED
      BY <3>2, <3>3 DEF PartsTo
  <2> QED
    BY <1>3, <2>1, <2>2
<1>13. /\ text \in Seq(Parts) /\ Len(text) <= MAX_FOLLOW_LINE /\ cut \in BOOLEAN
       /\ cut => r + u > MAX_FOLLOW_LINE
       /\ ~ cut => text = Start(e + 1, r + u) /\ r + u <= MAX_FOLLOW_LINE
  <2>1. p = out.pipe /\ More(p, e + 1, r, u) /\ Stored(e, r)
    BY <1>1, <1>3, <1>7, <1>11 DEF More
  <2>2. /\ LineThen(p, u) \in Seq(Parts) /\ Len(LineThen(p, u)) <= MAX_FOLLOW_LINE
        /\ CutThen(u) \in BOOLEAN
        /\ CutThen(u) => r + u > MAX_FOLLOW_LINE
        /\ ~ CutThen(u) => LineThen(p, u) = Start(e + 1, r + u) /\ r + u <= MAX_FOLLOW_LINE
    BY <1>3, <1>8, <2>1, TurnText
  <2> QED
    BY <1>4, <2>2
<1>14. follow' = follow /\ follow.pos = f /\ Sizes' = Sizes /\ \A k : Wanted(k)' = Wanted(k) /\ Content(k)' = Content(k)
  BY <1>1, <1>5 DEF Sizes, Content, Wanted
<1>15. \A x, y : At(x, y)' = At(x, y) /\ Start(x, y)' = Start(x, y)
  BY DEF At, Start
<1>16. << >> \in Seq(Parts) /\ << >> \in Seq(PartsTo(f)) /\ Len(<< >>) <= MAX_FOLLOW_LINE
  BY LogsAssumption
<1>17. CASE u < Len(p)
  <2>1. PICK s \in Seq(Parts), q \in Seq(Parts) :
           /\ s = SubSeq(p, 1, u + 1) /\ q = SubSeq(p, (u + 1) + 1, Len(p)) /\ p = s \o q
           /\ Len(s) = u + 1 /\ s[u + 1] = p[u + 1] /\ q \in Seq(PartsTo(f))
    <3>1. u + 1 \in Nat /\ u + 1 <= Len(p)
      BY <1>3, <1>17
    <3>2. /\ SubSeq(p, 1, u + 1) \in Seq(Parts) /\ Len(SubSeq(p, 1, u + 1)) = u + 1
          /\ SubSeq(p, (u + 1) + 1, Len(p)) \in Seq(Parts)
          /\ p = SubSeq(p, 1, u + 1) \o SubSeq(p, (u + 1) + 1, Len(p))
      BY <3>1, CutAt
    <3>3. SubSeq(p, (u + 1) + 1, Len(p)) \in Seq(PartsTo(f))
      BY <1>1, <3>1, CutAt
    <3>4. SubSeq(p, 1, u + 1)[u + 1] = p[u + 1]
      <4>1. u + 1 \in 1..u + 1
        BY <1>3
      <4> QED
        BY <3>1, <4>1
    <3> QED
      BY <3>2, <3>3, <3>4
  <2>2. out' = [left |-> l, pipe |-> q]
    BY <1>1, <1>5, <2>1, FollowType
  <2>3. /\ Runs(EndOf(At(e, r), s), q \o l, Sizes)
        /\ EndOf(EndOf(At(e, r), s), q \o l) = <<f, 0>>
        /\ Runs(At(e, r), s, Sizes)
    <3>1. s \in Seq(Part) /\ q \in Seq(Part)
      BY SeqOfPart
    <3>2. PICK t \in Seq(Part) : t = q \o l
      <4>1. q \o l \in Seq(Part)
        BY <1>9, <3>1
      <4> QED
        BY <4>1
    <3>3. p \o l = s \o t
      <4>1. (s \o q) \o l = s \o (q \o l)
        <5>1. s \in Seq(Part) /\ q \in Seq(Part) /\ l \in Seq(Part)
          BY <1>9, <3>1, Zenon
        <5> QED
          BY <5>1
      <4> QED
        BY <2>1, <3>2, <4>1
    <3>4. PICK c : c = At(e, r)
      OBVIOUS
    <3>5. Runs(c, s \o t, Sizes) /\ EndOf(c, s \o t) = <<f, 0>>
      BY <1>7, <3>3, <3>4
    <3>6. Runs(c, s, Sizes) /\ Runs(EndOf(c, s), t, Sizes) /\ EndOf(EndOf(c, s), t) = EndOf(c, s \o t)
      BY <3>1, <3>2, <3>5, RunsSplit
    <3> QED
      BY <3>2, <3>4, <3>5, <3>6
  <2>4. EndOf(At(e, r), s) = p[u + 1]
    <3>1. s # << >> /\ Len(s) = u + 1
      <4>1. PICK n0 \in Nat \ {0} : n0 = u + 1
        BY <1>3
      <4>2. Len(s) = n0 /\ n0 # Len(<< >>)
        BY <2>1, <4>1
      <4> QED
        BY <4>1, <4>2, Zenon
    <3> QED
      BY <2>1, <3>1 DEF EndOf
  <2>5. PICK x \in 1..f, y \in Nat : p[u + 1] = <<x, y>>
    <3>1. p[u + 1] \in PartsTo(f)
      BY <1>1, <1>3, <1>17
    <3>2. \A z \in PartsTo(f) : \E x \in 1..f, y \in Nat : z = <<x, y>>
      BY DEF PartsTo
    <3> QED
      BY <3>1, <3>2
  <2>6. y = 0
    BY <1>3, <1>17, <2>5
  <2>7. Follows(IF r + u = 0 THEN <<e, 0>> ELSE <<e + 1, r + u>>, <<x, 0>>, Sizes)
    <3>1. CASE u = 0
      <4>1. s # << >> /\ s[1] = <<x, 0>>
        <5>1. Len(s) = 1 /\ Len(s) # 0 /\ Len(<< >>) = 0 /\ s[1] = p[1]
          BY <2>1, <3>1
        <5>2. p[1] = <<x, 0>>
          BY <2>5, <2>6, <3>1
        <5>3. s # << >>
          BY <5>1
        <5> QED
          BY <5>1, <5>2, <5>3
      <4>2. Follows(At(e, r), <<x, 0>>, Sizes)
        BY <2>3, <4>1 DEF Runs
      <4> QED
        BY <3>1, <4>2 DEF At
    <3>2. CASE u > 0
      <4>1. u \in 1..Len(p) - 1 /\ u \in 1..u
        BY <1>3, <1>17, <3>2
      <4>2. Follows(p[u], p[u + 1], Sizes)
        BY <1>10, <4>1 DEF Runs
      <4>3. p[u] = <<e + 1, r + u>>
        BY <1>11, <4>1
      <4>4. r + u # 0
        BY <1>3, <3>2
      <4> QED
        BY <2>5, <2>6, <4>2, <4>3, <4>4
    <3> QED
      BY <1>3, <3>1, <3>2
  <2>8. r + u # 0
    <3>1. CASE r + u = 0
      <4>1. Follows(<<e, 0>>, <<x, 0>>, Sizes)
        BY <2>7, <3>1
      <4>2. <<x, 0>> = <<e + 1, 1>>
        BY <4>1 DEF Follows
      <4> QED
        BY <4>2
    <3> QED
      BY <3>1
  <2>9. PICK w \in Nat \ {0} : w = r + u
    BY <1>3, <2>8
  <2>10. x = e + 1 /\ w = Content(e + 1) /\ e + 1 <= f /\ e + 1 \in 1..n
    <3>1. Follows(<<e + 1, w>>, <<x, 0>>, Sizes)
      BY <2>7, <2>8, <2>9
    <3>2. <<x, 0>> = IF w = 0 THEN <<(e + 1) + 1, 1>>
                     ELSE IF w < Sizes[e + 1] THEN <<e + 1, w + 1>> ELSE <<e + 1, 0>>
      BY <3>1, FollowsRule
    <3>3. ~ (w < Sizes[e + 1]) /\ x = e + 1
      BY <2>9, <3>2
    <3>4. e + 1 \in 1..n /\ w <= Content(e + 1) /\ e + 1 <= f
      BY <1>11, <1>12, <2>9
    <3>5. Sizes[e + 1] = Content(e + 1) /\ Content(e + 1) \in Nat
      BY <1>1, <3>4, SizesType, LogsAssumption
    <3> QED
      BY <2>9, <3>3, <3>4, <3>5
  <2>11. /\ line' = << >> /\ over' = FALSE /\ ring' \in Seq(1..MaxEntries) /\ InOrder(ring')
         /\ ToSet(ring') = Wanted(e + 1)
    <3>1. EndOfLine(text, cut)
      BY <1>5, <1>17
    <3>2. ring \in Seq(1..MaxEntries) /\ InOrder(ring)
      BY FollowType
    <3>3. e + 1 <= Len(journal) /\ w <= Content(e + 1)
      BY <1>1, <2>10, LogsAssumption, SizesType
    <3>4. /\ line' = << >> /\ over' = FALSE /\ ring' \in Seq(1..MaxEntries) /\ InOrder(ring')
          /\ cut \/ w = Content(e + 1) => ToSet(ring') = Wanted(e + 1)
      BY <1>7, <1>8, <1>13, <2>9, <3>1, <3>2, <3>3, EndOfLineTells
    <3> QED
      BY <2>10, <3>4
  <2>12. At(e + 1, 0) = EndOf(At(e, r), s)
    BY <2>4, <2>5, <2>6, <2>10 DEF At
  <2>13. Heard(e + 1, 0)'
    <3>1. out'.pipe = q /\ out'.left = l
      BY <2>2
    <3>2. Stored(e + 1, 0)'
      <4>1. line' = Start((e + 1) + 1, 0) /\ ~ over'
        BY <2>11, StartZero
      <4> QED
        BY <1>15, <4>1 DEF Stored
    <3> QED
      BY <1>14, <1>15, <2>3, <2>11, <2>12, <3>1, <3>2 DEF Heard
  <2>14. e + 1 \in 0..f
    BY <1>8, <2>10
  <2>15. FollowInv'
    BY <1>1, <1>5, <1>14, <2>1, <2>2, <2>11, <2>13, <2>14 DEF FollowSide, FollowInv
  <2>16. FollowTypeOK'
    <3>1. out' \in [left : Seq(Parts), pipe : Seq(Parts)] /\ FALSE \in BOOLEAN
      BY <2>2
    <3>2. follow' \in [task : {"reads", "ended"}, child : {"running", "closed", "dead"}, pos : 0..MaxEntries]
      BY <1>5, FollowType
    <3> QED
      BY <1>16, <2>11, <3>1, <3>2 DEF FollowTypeOK, Alive
  <2> QED
    BY <2>15, <2>16 DEF FollowSide
<1>18. CASE ~ (u < Len(p))
  <2>1. u = Len(p) /\ u > 0
    BY <1>1, <1>3, <1>18
  <2>2. out' = [left |-> l, pipe |-> << >>]
    <3>1. SubSeq(p, (u + 1) + 1, Len(p)) = << >>
      BY <1>3, <2>1
    <3> QED
      BY <1>1, <1>5, <3>1, FollowType
  <2>3. line' = text /\ over' = cut /\ ring' = ring
    BY <1>5, <1>18
  <2>4. PICK w \in Nat \ {0} : w = r + u /\ e + 1 <= f /\ w <= Content(e + 1)
    <3>1. r + u \in Nat \ {0} /\ r + u > 0
      BY <2>1, <1>3
    <3> QED
      BY <1>11, <1>12, <3>1
  <2>5. EndOf(At(e, r), p) = At(e, w)
    <3>1. p[u] = <<e + 1, r + u>> /\ w # 0
      BY <1>11, <2>1, <1>3
    <3> QED
      BY <1>1, <2>1, <2>4, <3>1 DEF EndOf, At
  <2>6. Runs(At(e, w), l, Sizes) /\ EndOf(At(e, w), l) = <<f, 0>>
    <3>1. PICK c : c = At(e, r)
      OBVIOUS
    <3>2. Runs(EndOf(c, p), l, Sizes) /\ EndOf(EndOf(c, p), l) = EndOf(c, p \o l)
      BY <1>7, <1>9, <3>1, RunsSplit
    <3> QED
      BY <1>7, <2>5, <3>1, <3>2
  <2>7. Heard(e, w)'
    <3>1. out'.pipe \o out'.left = l
      BY <2>2
    <3>2. Stored(e, w)'
      BY <1>13, <1>15, <2>3, <2>4 DEF Stored
    <3> QED
      BY <1>7, <1>14, <1>15, <2>3, <2>4, <2>6, <3>1, <3>2 DEF Heard
  <2>8. FollowInv'
    <3>1. /\ out'.pipe \in Seq(PartsTo(f)) /\ out'.left \in Seq(PartsTo(f))
          /\ follow'.pos = f /\ follow'.pos <= Len(journal')
      <4>1. out'.pipe = << >> /\ out'.left = l
        BY <2>2
      <4>2. follow'.pos = f /\ Len(journal') = n
        BY <1>1, <1>5
      <4> QED
        BY <1>1, <1>16, <4>1, <4>2
    <3>2. InOrder(ring') /\ (follow'.task = "ended" => follow'.child = "dead")
      BY <1>5, <2>3 DEF FollowSide, FollowInv
    <3> QED
      BY <2>7, <3>1, <3>2 DEF FollowInv
  <2>9. FollowTypeOK'
    <3>1. out' \in [left : Seq(Parts), pipe : Seq(Parts)]
      BY <1>16, <2>2
    <3>2. follow' \in [task : {"reads", "ended"}, child : {"running", "closed", "dead"}, pos : 0..MaxEntries]
      BY <1>5, FollowType
    <3>3. ring \in Seq(1..MaxEntries)
      BY FollowType
    <3> QED
      BY <1>13, <2>3, <3>1, <3>2, <3>3 DEF FollowTypeOK, Alive
  <2> QED
    BY <2>8, <2>9 DEF FollowSide
<1> QED
  BY <1>17, <1>18

\* The end of the pipe: what is left of a line counts as one.
LEMMA ReadLineEofKeeps ==
    ASSUME JournalType, FollowSide, ReadLineEof
    PROVE  FollowSide'
<1>1. PICK n \in Nat, f \in Nat, l \in Seq(Parts) :
         /\ n = Len(journal) /\ f = follow.pos /\ f <= n /\ l = out.left /\ out.pipe = << >>
         /\ l \in Seq(PartsTo(f)) /\ follow.child # "running" /\ follow.task = "reads"
         /\ journal' = journal /\ out' = out
  BY FollowType, SizesType DEF ReadLineEof
<1>2. CASE ~ (line # << >> \/ over)
  <2>1. line' = line /\ over' = over /\ ring' = ring /\ follow' = [follow EXCEPT !.task = "ended", !.child = "dead"]
    BY <1>2 DEF ReadLineEof
  <2>2. follow' = [task |-> "ended", child |-> "dead", pos |-> f]
    BY <1>1, <2>1, FollowType
  <2>3. Sizes' = Sizes /\ \A k : Wanted(k)' = Wanted(k)
    BY <1>1 DEF Sizes, Content, Wanted
  <2>7. /\ \A x, y : At(x, y)' = At(x, y) /\ Start(x, y)' = Start(x, y)
        /\ \A k : Content(k)' = Content(k)
    BY <1>1 DEF At, Start, Content
  <2>4. \A e, r : Heard(e, r)' = Heard(e, r)
    <3>1. follow'.pos = follow.pos /\ out' = out /\ ring' = ring /\ line' = line /\ over' = over
      BY <1>1, <2>1, <2>2
    <3> QED
      BY <2>3, <2>7, <3>1 DEF Heard, Stored
  <2>5. Torn => Torn'
    BY <1>1, <2>1, <2>2, <2>3 DEF Torn
  <2>6. follow' \in [task : {"reads", "ended"}, child : {"running", "closed", "dead"}, pos : 0..MaxEntries]
    BY <1>1, <2>2, FollowType
  <2> QED
    BY <1>1, <2>1, <2>2, <2>4, <2>5, <2>6 DEF FollowSide, FollowTypeOK, FollowInv, Alive
<1>3. CASE line # << >> \/ over
  <2>1. EndOfLine(line, over) /\ follow' = follow
    BY <1>3 DEF ReadLineEof
  <2>2. ~ Torn
    BY <1>3 DEF Torn
  <2>3. PICK e \in 0..f, r \in Nat : Heard(e, r)
    BY <1>1, <2>2 DEF FollowSide, FollowInv
  <2>4. PICK x \in Nat \ {0} : x = e + 1
    OBVIOUS
  <2>5. r # 0
    <3>1. CASE over
      BY <2>3, <3>1, LogsAssumption DEF Heard, Stored
    <3>2. CASE ~ over
      BY <1>3, <2>3, <3>2, StartZero DEF Heard, Stored
    <3> QED
      BY <3>1, <3>2
  <2>6. x <= f /\ r <= Content(x) /\ ToSet(ring) = Wanted(e)
    BY <1>1, <2>3, <2>4, <2>5 DEF Heard
  <2>7. l # << >>
    <3>1. ASSUME l = << >> PROVE FALSE
      <4>1. out.pipe \o out.left = << >>
        BY <1>1, <3>1
      <4>2. At(e, r) = <<f, 0>>
        BY <1>1, <2>3, <4>1 DEF Heard, EndOf
      <4> QED
        BY <2>5, <4>2 DEF At
    <3> QED
      BY <3>1
  <2>8. /\ over => r > MAX_FOLLOW_LINE
        /\ ~ over => line = Start(x, r) /\ r <= MAX_FOLLOW_LINE
    <3>1. over => r > MAX_FOLLOW_LINE
      BY <2>3 DEF Heard, Stored
    <3>2. ~ over => line = Start(x, r)
      BY <2>3, <2>4 DEF Heard, Stored
    <3>3. Len(Start(x, r)) = r
      BY StartRule
    <3>4. Len(line) <= MAX_FOLLOW_LINE
      BY FollowType
    <3> QED
      BY <3>1, <3>2, <3>3, <3>4
  <2>9. /\ line' = << >> /\ over' = FALSE /\ ring' \in Seq(1..MaxEntries) /\ InOrder(ring')
        /\ ToSet(ring') = Wanted(e) \/ ToSet(ring') = Wanted(x)
    <3>1. ring \in Seq(1..MaxEntries) /\ InOrder(ring) /\ over \in BOOLEAN
      BY FollowType
    <3>2. e \in Nat /\ r \in Nat \ {0}
      BY <2>5
    <3>3. e + 1 <= Len(journal) /\ r <= Content(e + 1)
      BY <1>1, <2>4, <2>6
    <3> QED
      BY <2>1, <2>4, <2>6, <2>8, <3>1, <3>2, <3>3, EndOfLineTells
  <2>10. follow'.pos = f /\ \A k : Wanted(k)' = Wanted(k)
    BY <1>1, <2>1 DEF Content, Wanted
  <2>11. \E k \in 0..f : ToSet(ring') = Wanted(k)
    <3>1. e \in 0..f /\ x \in 0..f
      BY <2>4, <2>6
    <3> QED
      BY <2>9, <3>1
  <2>12. Torn'
    BY <1>1, <2>1, <2>7, <2>9, <2>10, <2>11 DEF Torn
  <2>13. << >> \in Seq(Parts) /\ Len(<< >>) <= MAX_FOLLOW_LINE
    BY LogsAssumption
  <2> QED
    BY <1>1, <2>1, <2>9, <2>12, <2>13 DEF FollowSide, FollowTypeOK, FollowInv, Alive
<1> QED
  BY <1>2, <1>3

LEMMA FollowKeeps ==
    ASSUME JournalType, FollowSide, Follow
    PROVE  FollowSide'
  BY DiesKeeps, FollowWritesKeeps, ReadLineKeeps, ReadLineEofKeeps DEF Follow

-----------------------------------------------------------------------------
(* The invariant of Logs.                                                  *)

\* Numbers grow with the feed, whichever topic takes the others.
Numbers ==
    /\ \A i \in 1..Len(feed) : feed[i].seq < pump.seq
    /\ \A i \in 1..Len(feed) - 1 : feed[i].seq < feed[i + 1].seq

PumpSide == PumpShape /\ Rising /\ Covered /\ Numbers

LogsInv == JournalType /\ QuerySide /\ FollowSide /\ PumpSide

\* The numbers taken by another topic, and a channel on which more was sent.
LEMMA PumpStands ==
    ASSUME PumpSide, Len(ring') \in Nat, Len(ring) <= Len(ring'), feed' = feed, skipped' = skipped,
           pump' = pump \/ pump' = [pump EXCEPT !.seq = pump.seq + 1]
    PROVE  PumpSide'
<1>1. /\ pump'.up = pump.up /\ pump'.pos = pump.pos /\ pump'.life = pump.life
      /\ pump'.seq \in Nat /\ pump.seq <= pump'.seq /\ pump.seq \in Nat
      /\ pump' = [up |-> pump.up, pos |-> pump.pos, seq |-> pump'.seq, life |-> pump.life]
  BY PumpFacts DEF PumpSide
<1>2. pump' \in [up : BOOLEAN, pos : 0..Len(ring), seq : Nat, life : 0..MaxPanics + 1]
  BY <1>1, PumpFacts DEF PumpSide, PumpShape
<1>3. PumpShape'
  BY <1>1, <1>2, RingGrows DEF PumpSide
<1>4. Rising' /\ Covered'
  BY <1>1 DEF PumpSide, Rising, Covered
<1>5. Numbers'
  BY <1>1, PumpFacts DEF PumpSide, Numbers
<1> QED
  BY <1>3, <1>4, <1>5 DEF PumpSide

LEMMA LogsPumpKeeps ==
    ASSUME PumpSide, PumpSteps(pump.seq)
    PROVE  PumpSide'
<1>1. pump.seq \in Nat
  BY PumpFacts DEF PumpSide
<1>2. PumpShape' /\ Rising' /\ Covered'
  BY <1>1, PumpKeepsShape, PumpOrder DEF PumpSide
<1>3. CASE Forward
  <2>1. PICK n \in Nat : n = Len(feed)
    BY PumpFacts DEF PumpSide
  <2>2. /\ Len(feed') = n + 1 /\ feed'[n + 1].seq = pump.seq /\ pump'.seq = pump.seq + 1
        /\ \A i \in 1..n : feed'[i] = feed[i]
    BY <1>3, <2>1, ForwardEffect DEF PumpSide
  <2>3. \A i \in 1..n : feed[i].seq < pump.seq /\ feed[i].seq \in Nat
    BY <2>1, PumpFacts DEF PumpSide, Numbers
  <2>4. \A i \in 1..n + 1 : feed'[i].seq < pump'.seq
    BY <1>1, <2>2, <2>3
  <2>5. ASSUME NEW i \in 1..(n + 1) - 1 PROVE feed'[i].seq < feed'[i + 1].seq
    <3>1. CASE i < n
      <4>1. i \in 1..n - 1 /\ i \in 1..n /\ i + 1 \in 1..n
        BY <3>1
      <4> QED
        BY <2>1, <2>2, <4>1 DEF PumpSide, Numbers
    <3>2. CASE i = n
      BY <2>2, <2>3, <3>2
    <3> QED
      BY <3>1, <3>2
  <2> QED
    BY <1>2, <2>2, <2>4, <2>5 DEF PumpSide, Numbers
<1>4. CASE SkipLagged \/ PumpStarts(pump.seq) \/ PumpPanics
  <2>1. feed' = feed
    BY <1>4 DEF SkipLagged, PumpStarts, PumpPanics
  <2>2. pump'.seq = pump.seq
    BY <1>4, PumpFacts DEF PumpSide, SkipLagged, PumpStarts, PumpPanics
  <2> QED
    BY <1>2, <2>1, <2>2 DEF PumpSide, Numbers
<1> QED
  BY <1>3, <1>4 DEF PumpSteps

\* What the follow task does to the channel.
LEMMA FollowRing ==
    ASSUME FollowSide, Follow
    PROVE  /\ UNCHANGED <<journal, queryVars, pumpVars>>
           /\ ring' = ring \/ \E x : ring' = Append(ring, x)
<1>1. ASSUME NEW text, NEW cut, EndOfLine(text, cut)
      PROVE  ring' = ring \/ \E x : ring' = Append(ring, x)
  BY <1>1 DEF EndOfLine, Broadcast
<1>2. CASE ReadLine
  <2>1. PICK upto, room, used : LineTurn(room, upto, used) /\ UNCHANGED <<journal, queryVars, pumpVars>>
    BY <1>2 DEF ReadLine
  <2> QED
    BY <1>1, <2>1 DEF LineTurn
<1>3. CASE ReadLineEof
  BY <1>1, <1>3 DEF ReadLineEof
<1> QED
  BY <1>2, <1>3 DEF Follow, FollowWrites, FollowChildEnds, FollowStops

LEMMA LogsInitHolds == LogsInit => LogsInv
<1> SUFFICES ASSUME LogsInit PROVE LogsInv
  OBVIOUS
<1>1. PICK what \in {"logs", "packages"} :
         /\ journal = << >> /\ query = [what |-> what, pc |-> "idle", cursor |-> 0, format |-> "table"]
         /\ window = <<1, 0>>
         /\ child = NoChild /\ buf = << >> /\ pages = << >> /\ whole = FALSE
         /\ listed = [items |-> << >>, full |-> {}, of |-> 0, format |-> "table", ended |-> "ok"]
  BY DEF LogsInit, InitQuery
<1>2. /\ follow \in {[task |-> "reads", child |-> "running", pos |-> 0],
                     [task |-> "ended", child |-> "dead", pos |-> 0]}
      /\ out = [left |-> << >>, pipe |-> << >>] /\ line = << >> /\ over = FALSE
      /\ ring = << >> /\ feed = << >> /\ skipped = {}
      /\ pump = [up |-> FALSE, pos |-> 0, seq |-> 0, life |-> 0]
  BY DEF LogsInit, InitFollow, PumpInit
<1>3. JournalType
  BY <1>1, LogsAssumption DEF JournalType
<1>4. QueryTypeOK
  <2>1. /\ query \in [what : {"logs", "packages"}, pc : {"idle", "read", "wait", "end"},
                      cursor : 0..MaxEntries, format : Formats]
        /\ window \in (1..MaxEntries + 1) \X (0..MaxEntries + Packages)
        /\ child \in [state : {"none", "running", "closed", "ok", "failed"},
                      left : Seq(Parts), pipe : Seq(Parts)]
    BY <1>1, LogsAssumption DEF NoChild, Formats
  <2>2. listed \in [items : Seq(1..Packages), full : SUBSET (1..Packages), of : 0..Packages,
                    format : Formats, ended : {"ok", "failed", "cut"}]
    BY <1>1, LogsAssumption DEF Formats
  <2>3. /\ << >> \in Seq(Parts) /\ << >> \in Seq(1..MaxEntries) /\ Len(<< >>) <= MAX_OUTPUT
        /\ FALSE \in BOOLEAN
    BY LogsAssumption
  <2> QED
    BY <1>1, <2>1, <2>2, <2>3 DEF QueryTypeOK
<1>5. QueryInv
  <2>1. PagesInv
    BY <1>1 DEF PagesInv, InOrder
  <2>2. AskInv /\ AskListInv /\ ChildInv
    BY <1>1 DEF AskInv, AskListInv, ChildInv, Hearing, NoChild
  <2>3. ListTellsTruth
    <3>1. listed.items = << >> /\ listed.of = 0
      BY <1>1
    <3>2. ToSet(listed.items) = {} /\ [k \in 1..0 |-> k] = << >>
      BY <3>1 DEF ToSet
    <3> QED
      BY <3>1, <3>2 DEF ListTellsTruth
  <2> QED
    BY <2>1, <2>2, <2>3 DEF QueryInv
<1>6. FollowTypeOK
  <2>1. /\ << >> \in Seq(Parts) /\ << >> \in Seq(1..MaxEntries) /\ Len(<< >>) <= MAX_FOLLOW_LINE
        /\ FALSE \in BOOLEAN
    BY LogsAssumption
  <2>2. /\ follow \in [task : {"reads", "ended"}, child : {"running", "closed", "dead"}, pos : 0..MaxEntries]
        /\ out \in [left : Seq(Parts), pipe : Seq(Parts)]
    BY <1>2, <2>1, LogsAssumption
  <2> QED
    BY <1>2, <2>1, <2>2 DEF FollowTypeOK, Alive
<1>7. Heard(0, 0)
  <2>1. out.pipe \o out.left = << >>
    BY <1>2
  <2>2. follow.pos = 0 /\ At(0, 0) = <<0, 0>> /\ Start(0 + 1, 0) = << >>
    BY <1>2, StartZero DEF At
  <2>3. Wanted(0) = {} /\ ToSet(ring) = {}
    BY <1>2 DEF Wanted, ToSet
  <2>4. Runs(<<0, 0>>, << >>, Sizes) /\ EndOf(<<0, 0>>, << >>) = <<0, 0>>
    BY DEF Runs, EndOf
  <2>5. Stored(0, 0)
    BY <1>2, <2>2 DEF Stored
  <2> QED
    BY <2>1, <2>2, <2>3, <2>4, <2>5 DEF Heard
<1>8. FollowInv
  <2>1. follow.pos = 0 /\ (follow.task = "ended" => follow.child = "dead")
    BY <1>2
  <2> QED
    BY <1>1, <1>2, <1>7, <2>1 DEF FollowInv, InOrder
<1>9. PumpSide
  BY <1>2, PumpAssumption DEF PumpSide, PumpShape, PumpTypeOK, Rising, Covered, Numbers
<1> QED
  BY <1>3, <1>4, <1>5, <1>6, <1>8, <1>9 DEF LogsInv, QuerySide, FollowSide

LEMMA LogsStep == LogsInv /\ [LogsNext]_logsVars => LogsInv'
<1> SUFFICES ASSUME LogsInv, [LogsNext]_logsVars PROVE LogsInv'
  OBVIOUS
<1>0. JournalType /\ QuerySide /\ FollowSide /\ PumpSide
  BY DEF LogsInv
<1>1. Len(ring) \in Nat /\ Len(ring) <= Len(ring)
  BY <1>0 DEF PumpSide, PumpShape
<1>2. ASSUME UNCHANGED journal PROVE JournalType'
  BY <1>0, <1>2 DEF JournalType
<1>3. ASSUME UNCHANGED <<ring, pumpVars>> PROVE PumpSide'
  BY <1>0, <1>1, <1>3, PumpStands DEF pumpVars
<1>4. ASSUME NEW kind \in Kinds, Log(kind) PROVE LogsInv'
  <2>1. UNCHANGED <<ring, pumpVars>>
    BY <1>4 DEF Log
  <2> QED
    BY <1>0, <1>3, <1>4, <2>1, LogEffect, LogKeeps, LogFollows DEF LogsInv
<1>5. CASE ChildWrites \/ \E s \in {"closed", "ok", "failed"} : ChildEnds(s)
  <2>1. UNCHANGED <<journal, followVars, ring, pumpVars>>
    BY <1>5 DEF ChildWrites, ChildEnds
  <2>2. QuerySide'
    BY <1>0, <1>5, ChildWritesKeeps, ChildEndsKeeps
  <2> QED
    BY <1>0, <1>2, <1>3, <2>1, <2>2, FollowFrame DEF LogsInv
<1>6. CASE QuerySteps
  <2>1. QuerySide' /\ UNCHANGED <<journal, followVars, ring, pumpVars>>
    BY <1>0, <1>6, QueryStepKeeps
  <2> QED
    BY <1>0, <1>2, <1>3, <2>1, FollowFrame DEF LogsInv
<1>7. CASE Follow
  <2>1. UNCHANGED <<journal, queryVars, pumpVars>> /\ (ring' = ring \/ \E x : ring' = Append(ring, x))
    BY <1>0, <1>7, FollowRing
  <2>2. FollowSide'
    BY <1>0, <1>7, FollowKeeps
  <2>3. Len(ring') \in Nat /\ Len(ring) <= Len(ring')
    <3>1. ring \in Seq(1..MaxEntries)
      BY <1>0 DEF FollowSide, FollowTypeOK
    <3>2. ASSUME NEW x, ring' = Append(ring, x) PROVE Len(ring') = Len(ring) + 1
      BY <3>1, <3>2
    <3> QED
      BY <1>1, <2>1, <3>2
  <2>4. PumpSide'
    BY <1>0, <2>1, <2>3, PumpStands DEF pumpVars
  <2> QED
    BY <1>0, <1>2, <2>1, <2>2, <2>4, QueryFrame DEF LogsInv
<1>8. CASE LogsPump \/ LogsPumpPanics
  <2>1. PumpSteps(pump.seq) /\ UNCHANGED <<journal, queryVars, followVars>>
    BY <1>8 DEF LogsPump, LogsPumpPanics, PumpSteps
  <2>2. ring' = ring
    BY <2>1 DEF PumpSteps, Forward, SkipLagged, PumpStarts, PumpPanics
  <2> QED
    BY <1>0, <1>2, <2>1, <2>2, LogsPumpKeeps, QueryFrame, FollowFrame DEF LogsInv
<1>9. CASE TakeNumber
  <2>1. /\ UNCHANGED <<journal, queryVars, followVars, ring, feed, skipped>>
        /\ pump' = [pump EXCEPT !.seq = pump.seq + 1]
    BY <1>9 DEF TakeNumber
  <2>2. PumpSide'
    BY <1>0, <1>1, <2>1, PumpStands
  <2> QED
    BY <1>0, <1>2, <2>1, <2>2, QueryFrame, FollowFrame DEF LogsInv
<1>10. CASE UNCHANGED logsVars
  <2>1. UNCHANGED <<journal, queryVars, followVars, ring, pumpVars>>
    BY <1>10 DEF logsVars
  <2> QED
    BY <1>0, <1>2, <1>3, <2>1, QueryFrame, FollowFrame DEF LogsInv
<1> QED
  BY <1>4, <1>5, <1>6, <1>7, <1>8, <1>9, <1>10 DEF LogsNext, MetricsPump, JobsPump, LogsFinished

\* The invariant holds in every state of the journal backend and its pump.
THEOREM LogsInvariant == LogsSpec => []LogsInv
<1>1. LogsInv /\ [LogsNext]_logsVars => LogsInv'
  BY LogsStep
<1> QED
  BY <1>1, LogsInitHolds, PTL DEF LogsSpec

\* A client that pages through the journal misses nothing and is told nothing
\* twice, whatever the byte cap, the deadline, a failing child and retries do; a
\* list of packages that was heard out is the table its manager told, and of one
\* cut at the cap no torn line is taken (linux.rs query and journal_entry_from,
\* capped.rs run_capped, manager.rs list, query.rs parse_list).
THEOREM AnswersHold == LogsSpec => []AnswersAreWhole
<1>1. LogsInv => AnswersAreWhole
  <2> SUFFICES ASSUME LogsInv PROVE AnswersAreWhole
    OBVIOUS
  <2>0. QueryTypeOK /\ PagesInv /\ AskInv /\ ListTellsTruth
    BY DEF LogsInv, QuerySide, QueryInv
  <2>1. \A i \in 1..Len(pages) - 1 : pages[i] < pages[i + 1]
    <3>1. pages \in Seq(1..MaxEntries)
      BY <2>0 DEF QueryTypeOK
    <3>2. DOMAIN pages = 1..Len(pages) /\ Len(pages) \in Nat
      BY <3>1
    <3>3. \A i \in 1..Len(pages) - 1 : i \in DOMAIN pages /\ i + 1 \in DOMAIN pages /\ i < i + 1
      BY <3>2
    <3> QED
      BY <2>0, <3>3 DEF PagesInv, InOrder
  <2> QED
    BY <2>0, <2>1 DEF AnswersAreWhole, PagingSkipsNothing, PagesInv, AskInv
<1> QED
  BY <1>1, LogsInvariant, PTL

\* A query that has returned, in whichever way, and a follow task that has ended
\* leave no journalctl behind (capped.rs kill().await and kill_on_drop;
\* journald.rs follow_journal).
THEOREM NoChildStays == LogsSpec => []NoChildLeft
<1>1. LogsInv => NoChildLeft
  <2> SUFFICES ASSUME LogsInv PROVE NoChildLeft
    OBVIOUS
  <2>1. LogsTypeOK
    BY DEF LogsInv, JournalType, QuerySide, FollowSide, PumpSide, PumpShape, LogsTypeOK
  <2>2. query.pc \in {"idle", "end"} => child.state = "none"
    BY DEF LogsInv, QuerySide, QueryInv, ChildInv, Hearing, NoChild
  <2>3. follow.task = "ended" => follow.child = "dead"
    BY DEF LogsInv, FollowSide, FollowInv
  <2> QED
    BY <2>1, <2>2, <2>3 DEF NoChildLeft
<1> QED
  BY <1>1, LogsInvariant, PTL

\* The logs topic tells the entries it is to tell, in order, each once, wherever
\* the reads cut the text and whichever lines are too long, with numbers that
\* grow across panics (capped.rs read_line_capped, logs_pump.rs run).
THEOREM FollowHolds == LogsSpec => []FollowInOrder
<1>1. LogsInv => FollowInOrder
  <2> SUFFICES ASSUME LogsInv PROVE FollowInOrder
    OBVIOUS
  <2>1. FollowSide /\ PumpSide
    BY DEF LogsInv
  <2>2. PICK p \in Nat : p = follow.pos
    BY <2>1, FollowType
  <2>3. InOrder(ring)
    BY <2>1 DEF FollowSide, FollowInv
  <2>4. \E n \in 0..p : ToSet(ring) = Wanted(n)
    BY <2>1, <2>2 DEF FollowSide, FollowInv, Heard, Torn
  <2>5. ASSUME follow.task = "reads", out = [left |-> << >>, pipe |-> << >>]
        PROVE  ToSet(ring) = Wanted(p)
    <3>1. out.left = << >> /\ out.pipe = << >> /\ out.pipe \o out.left = << >>
      BY <2>5
    <3>2. PICK e \in 0..p, r \in Nat : Heard(e, r)
      BY <2>1, <2>2, <3>1 DEF FollowSide, FollowInv, Torn
    <3>3. At(e, r) = <<p, 0>> /\ ToSet(ring) = Wanted(e)
      BY <2>2, <3>1, <3>2 DEF Heard, EndOf
    <3>4. e = p
      BY <3>3 DEF At
    <3> QED
      BY <3>3, <3>4
  <2>6. ForwardsInOrder
    BY <2>1, RisingTells DEF PumpSide
  <2> QED
    BY <2>1, <2>2, <2>3, <2>4, <2>5, <2>6 DEF FollowInOrder, PumpSide, Numbers
<1> QED
  BY <1>1, LogsInvariant, PTL
=============================================================================
