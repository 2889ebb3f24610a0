--------------------------- MODULE AuditFileProofs ---------------------------
(***************************************************************************)
(* Proofs about AuditFile, for every size of file, number of generations,  *)
(* batch size and number of lines and restarts: the hash chain holds       *)
(* within the files and from file to file, and a failed write leaves a     *)
(* gap that verification finds.                                            *)
(***************************************************************************)
EXTENDS AuditFile, TLAPS

\* The files from the newest to the oldest, the buffer with the newest.
Written  == FileAt(0) \o buf
Chain(g) == IF g = 0 THEN Written ELSE FileAt(g)

\* A line apart from its kind, and the lines of all files and of the buffer.
Stamps         == [id : 1..MaxLines, seq : 0..MaxLines, prev : Hashes, life : 0..MaxLives]
Stamp(line)    == [id |-> line.id, seq |-> line.seq, prev |-> line.prev, life |-> line.life]
Carries(ls, S) == \A i \in 1..Len(ls) : Stamp(ls[i]) \in S
AllCarry(S)    == Carries(buf, S) /\ \A g \in 0..Generations : Carries(FileAt(g), S)

\* Given how many lines were composed before each life: a line names the one
\* composed just before it, or one of an earlier life.
MarkedBy(start) ==
    {x \in Stamps :
        /\ x.id <= composed /\ x.life <= life /\ x.seq <= x.id /\ start[x.life] < x.id
        /\ x.prev = <<"record", x.id - 1>> \/ x.prev[2] <= start[x.life]}

MarkInv ==
    \E start \in [0..MaxLives -> 0..MaxLines] :
        /\ start[life] <= composed
        /\ AllCarry(MarkedBy(start))
        /\ prev = <<"record", composed>> \/ prev[2] <= start[life]

\* No line is there that was not composed; only a file with lines lacks its
\* last newline.
CountInv ==
    /\ Len(FileAt(0)) + Len(buf) <= composed
    /\ bytes <= composed /\ seq <= composed
    /\ active # Missing /\ ~ active.newline => active.lines # << >>

\* While audit.jsonl is not there, and while it is rotated away, nothing is
\* buffered nor will be, the file being full; a rotation moves a hole.
RotateInv ==
    /\ active = Missing \/ pc \in {"shift", "open"} => buf = << >> /\ bytes >= MaxBytes
    /\ pc = "open" => active = Missing
    /\ pc = "shift" /\ shift < Generations => gens[shift + 1] = Missing

\* Without damage: each file is a chain, each is linked to the one before it,
\* also over the hole of a rotation, and the writer goes on with the last line.
ChainInv ==
    /\ active # Missing => active.newline
    /\ \A g \in 0..Generations : Verifies(Chain(g))
    /\ \A g \in 0..Generations - 1 : Linked(Chain(g), Chain(g + 1))
    /\ pc = "shift" /\ shift + 2 <= Generations => Linked(Chain(shift), Chain(shift + 2))
    /\ Written # << >> => prev = line_hash(Last(Written)) /\ seq = Last(Written).seq
    /\ Written = << >> /\ Chain(1) # << >> =>
        prev = line_hash(Last(Chain(1))) \/ (prev = GENESIS /\ seq = 0)

FileInv == TypeOK /\ CountInv /\ RotateInv /\ MarkInv /\ (~ damage => ChainInv)

-----------------------------------------------------------------------------
(* Lines and files.                                                        *)

LEMMA Numbers ==
    /\ MaxBytes \in Nat /\ MaxBytes >= 1 /\ Generations \in Nat /\ Generations >= 1
    /\ BATCH \in Nat /\ BATCH >= 1 /\ MaxLines \in Nat /\ MaxLives \in Nat
  BY FileAssumption

LEMMA FileTypes ==
    ASSUME TypeOK
    PROVE  /\ active # Missing => active \in Files
           /\ \A g \in 0..Generations : FileAt(g) \in Seq(Lines)
           /\ buf \in Seq(Lines) /\ Written \in Seq(Lines)
           /\ Len(buf) \in Nat /\ Len(FileAt(0)) \in Nat
           /\ Len(Written) = Len(FileAt(0)) + Len(buf)
           /\ composed \in Nat /\ seq \in Nat /\ bytes \in Nat /\ life \in Nat
<1>1. \A f \in Files \cup {Missing} : LinesOf(f) \in Seq(Lines)
  BY DEF LinesOf, Files
<1>2. ASSUME NEW g \in 0..Generations PROVE FileAt(g) \in Seq(Lines)
  BY <1>1, Numbers DEF FileAt, TypeOK
<1>3. FileAt(0) \in Seq(Lines) /\ buf \in Seq(Lines)
  BY <1>2, Numbers DEF TypeOK
<1> QED
  BY <1>2, <1>3, Numbers DEF TypeOK, Written

LEMMA StampType ==
    ASSUME NEW x \in Lines
    PROVE  /\ Stamp(x) \in Stamps /\ Stamp(x).id = x.id /\ Stamp(x).seq = x.seq
           /\ Stamp(x).prev = x.prev /\ Stamp(x).life = x.life
           /\ \A k \in {"record", "torn", "glued"} :
                [x EXCEPT !.kind = k] \in Lines /\ Stamp([x EXCEPT !.kind = k]) = Stamp(x)
  BY DEF Lines, Stamp, Stamps

LEMMA LastIdType ==
    ASSUME TypeOK, NEW ls \in Seq(Lines)
    PROVE  LastId(ls) \in 0..MaxLines
<1>1. CASE ls = << >>
  BY <1>1 DEF LastId, TypeOK
<1>2. CASE ls # << >>
  <2>1. Last(ls) \in Lines
    BY <1>2 DEF Last
  <2> QED
    BY <1>2, <2>1, Numbers DEF LastId, Lines
<1> QED
  BY <1>1, <1>2

LEMMA CarriesMore ==
    ASSUME NEW A, NEW s \in Seq(A), NEW t \in Seq(A), NEW S
    PROVE  /\ Carries(s, S) /\ Carries(t, S) => Carries(s \o t, S)
           /\ Carries(s \o t, S) => Carries(s, S)
           /\ \A x \in A : Carries(s, S) /\ Stamp(x) \in S => Carries(Append(s, x), S)
           /\ \A n \in 0..Len(s) : Carries(s, S) => Carries(SubSeq(s, 1, n), S)
           /\ Carries(<< >>, S)
<1>1. /\ Len(s) \in Nat /\ Len(t) \in Nat /\ Len(s \o t) = Len(s) + Len(t)
      /\ \A i \in 1..Len(s) : (s \o t)[i] = s[i]
      /\ \A i \in Len(s) + 1..Len(s) + Len(t) : (s \o t)[i] = t[i - Len(s)]
  OBVIOUS
<1>2. Carries(s, S) /\ Carries(t, S) => Carries(s \o t, S)
  <2> SUFFICES ASSUME Carries(s, S), Carries(t, S), NEW i \in 1..Len(s \o t)
               PROVE  Stamp((s \o t)[i]) \in S
    BY DEF Carries
  <2>1. CASE i \in 1..Len(s)
    BY <1>1, <2>1 DEF Carries
  <2>2. CASE i \in Len(s) + 1..Len(s) + Len(t)
    <3>1. i - Len(s) \in 1..Len(t)
      BY <1>1, <2>2
    <3> QED
      BY <1>1, <2>2, <3>1 DEF Carries
  <2> QED
    BY <1>1, <2>1, <2>2
<1>3. Carries(s \o t, S) => Carries(s, S)
  BY <1>1 DEF Carries
<1>4. ASSUME NEW x \in A, Carries(s, S), Stamp(x) \in S PROVE Carries(Append(s, x), S)
  <2>1. /\ Len(Append(s, x)) = Len(s) + 1 /\ Append(s, x)[Len(s) + 1] = x
        /\ \A i \in 1..Len(s) : Append(s, x)[i] = s[i]
    OBVIOUS
  <2> QED
    BY <1>1, <1>4, <2>1 DEF Carries
<1>5. ASSUME NEW n \in 0..Len(s), Carries(s, S) PROVE Carries(SubSeq(s, 1, n), S)
  <2>1. Len(SubSeq(s, 1, n)) = n /\ \A i \in 1..n : SubSeq(s, 1, n)[i] = s[i]
    BY <1>1
  <2> QED
    BY <1>1, <1>5, <2>1 DEF Carries
<1>6. Carries(<< >>, S)
  BY DEF Carries
<1> QED
  BY <1>2, <1>3, <1>4, <1>5, <1>6

LEMMA Appended ==
    ASSUME NEW A, NEW s \in Seq(A), NEW x \in A
    PROVE  /\ Append(s, x) \in Seq(A) /\ Append(s, x) # << >>
           /\ Len(s) \in Nat /\ Len(Append(s, x)) = Len(s) + 1 /\ Append(s, x)[Len(s) + 1] = x
           /\ \A i \in 1..Len(s) : Append(s, x)[i] = s[i]
<1>1. Len(<< >>) = 0
  OBVIOUS
<1>2. /\ Append(s, x) \in Seq(A)
      /\ Len(s) \in Nat /\ Len(Append(s, x)) = Len(s) + 1 /\ Append(s, x)[Len(s) + 1] = x
      /\ \A i \in 1..Len(s) : Append(s, x)[i] = s[i]
  OBVIOUS
<1> QED
  BY <1>1, <1>2

\* The first of the lines that follow may as well be the last of those before.
LEMMA FirstMoves ==
    ASSUME NEW A, NEW s \in Seq(A), NEW t \in Seq(A), t # << >>
    PROVE  Append(s, Head(t)) \o Tail(t) = s \o t
<1> DEFINE l == Append(s, Head(t)) \o Tail(t)
           r == s \o t
<1>1. /\ Len(s) \in Nat /\ Len(t) \in Nat /\ Len(t) >= 1 /\ Head(t) = t[1] /\ Head(t) \in A
      /\ Tail(t) \in Seq(A) /\ Len(Tail(t)) = Len(t) - 1
      /\ \A i \in 1..Len(t) - 1 : Tail(t)[i] = t[i + 1]
  OBVIOUS
<1>2. /\ Append(s, Head(t)) \in Seq(A) /\ Len(Append(s, Head(t))) = Len(s) + 1
      /\ Append(s, Head(t))[Len(s) + 1] = t[1]
      /\ \A i \in 1..Len(s) : Append(s, Head(t))[i] = s[i]
  BY <1>1, Appended
<1>3. /\ r \in Seq(A) /\ Len(r) = Len(s) + Len(t)
      /\ \A i \in 1..Len(s) : r[i] = s[i]
      /\ \A i \in Len(s) + 1..Len(s) + Len(t) : r[i] = t[i - Len(s)]
  BY <1>1
<1>4. /\ l \in Seq(A) /\ Len(l) = Len(s) + Len(t)
      /\ \A i \in 1..Len(s) + 1 : l[i] = Append(s, Head(t))[i]
      /\ \A i \in Len(s) + 2..Len(s) + Len(t) : l[i] = Tail(t)[i - (Len(s) + 1)]
  BY <1>1, <1>2
<1>5. ASSUME NEW i \in 1..Len(s) + Len(t) PROVE l[i] = r[i]
  <2> HIDE DEF l, r
  <2>1. CASE i \in 1..Len(s)
    <3>1. i \in 1..Len(s) + 1
      BY <1>1, <2>1
    <3>2. l[i] = Append(s, Head(t))[i]
      BY <1>4, <3>1
    <3> QED
      BY <1>2, <1>3, <2>1, <3>2
  <2>2. CASE i = Len(s) + 1
    BY <1>1, <1>2, <1>3, <1>4, <2>2
  <2>3. CASE i \in Len(s) + 2..Len(s) + Len(t)
    <3>1. i - (Len(s) + 1) \in 1..Len(t) - 1 /\ (i - (Len(s) + 1)) + 1 = i - Len(s)
      BY <1>1, <2>3
    <3> QED
      BY <1>1, <1>3, <1>4, <2>3, <3>1
  <2> QED
    BY <1>1, <2>1, <2>2, <2>3
<1> HIDE DEF l, r
<1>6. l = r
  BY <1>3, <1>4, <1>5
<1> QED
  BY <1>6 DEF l, r

\* One line more: it ends in a newline, and at most the kind of the line that
\* lacked one is lost.
LEMMA AppendLineFile ==
    ASSUME NEW f \in Files, NEW x \in Lines, ~ f.newline => f.lines # << >>
    PROVE  /\ AppendLine(f, x) \in Files /\ AppendLine(f, x).newline
           /\ AppendLine(f, x).lines # << >>
           /\ Len(AppendLine(f, x).lines) <= Len(f.lines) + 1
           /\ f.newline => AppendLine(f, x).lines = Append(f.lines, x)
           /\ \A S : Carries(f.lines, S) /\ Stamp(x) \in S => Carries(AppendLine(f, x).lines, S)
<1>1. f.lines \in Seq(Lines) /\ f.newline \in BOOLEAN /\ Len(f.lines) \in Nat
  BY DEF Files
<1>2. CASE f.newline
  <2>1. AppendLine(f, x) = [f EXCEPT !.lines = Append(f.lines, x)]
    BY <1>2 DEF AppendLine
  <2>2. /\ Append(f.lines, x) \in Seq(Lines) /\ Append(f.lines, x) # << >>
        /\ Len(Append(f.lines, x)) = Len(f.lines) + 1
    BY <1>1, Appended
  <2>3. AppendLine(f, x) \in Files /\ AppendLine(f, x).newline /\ AppendLine(f, x).lines = Append(f.lines, x)
    BY <1>2, <2>1, <2>2 DEF Files
  <2> QED
    BY <1>1, <2>2, <2>3, CarriesMore
<1>3. CASE ~ f.newline
  <2> DEFINE y == [x EXCEPT !.kind = "glued"]
             s == SubSeq(f.lines, 1, Len(f.lines) - 1)
  <2>1. y \in Lines /\ Stamp(y) = Stamp(x)
    BY StampType
  <2>2. s \in Seq(Lines) /\ Len(s) = Len(f.lines) - 1 /\ Len(f.lines) - 1 \in 0..Len(f.lines)
    BY <1>1, <1>3
  <2>3. AppendLine(f, x) = [lines |-> Append(s, y), newline |-> TRUE]
    BY <1>3 DEF AppendLine, Front
  <2>4. \A S : Carries(f.lines, S) => Carries(s, S)
    BY <1>1, <2>2, CarriesMore
  <2> HIDE DEF y, s
  <2>5. /\ Append(s, y) \in Seq(Lines) /\ Append(s, y) # << >> /\ Len(Append(s, y)) = Len(f.lines)
    BY <1>1, <2>1, <2>2
  <2>6. AppendLine(f, x) \in Files /\ AppendLine(f, x).newline /\ AppendLine(f, x).lines = Append(s, y)
    BY <2>3, <2>5 DEF Files
  <2>7. \A S : Carries(f.lines, S) /\ Stamp(x) \in S => Carries(Append(s, y), S)
    BY <2>1, <2>2, <2>4, CarriesMore
  <2> QED
    BY <1>1, <1>3, <2>5, <2>6, <2>7
<1> QED
  BY <1>1, <1>2, <1>3

LEMMA FlushedFile ==
    ASSUME NEW f \in Files, NEW ls \in Seq(Lines), ~ f.newline => f.lines # << >>
    PROVE  /\ Flushed(f, ls) \in Files
           /\ ~ Flushed(f, ls).newline => Flushed(f, ls).lines # << >>
           /\ Len(Flushed(f, ls).lines) <= Len(f.lines) + Len(ls)
           /\ f.newline => Flushed(f, ls).newline /\ Flushed(f, ls).lines = f.lines \o ls
           /\ \A S : Carries(f.lines, S) /\ Carries(ls, S) => Carries(Flushed(f, ls).lines, S)
<1>1. f.lines \in Seq(Lines) /\ f.newline \in BOOLEAN /\ Len(f.lines) \in Nat /\ Len(ls) \in Nat
  BY DEF Files
<1>2. f # Missing
  BY MissingAssumption
<1>3. CASE ls = << >>
  <2>1. Flushed(f, ls) = f /\ f.lines \o ls = f.lines
    BY <1>1, <1>3 DEF Flushed
  <2> QED
    BY <1>1, <2>1
<1>4. CASE ls # << >>
  <2> DEFINE a == AppendLine(f, Head(ls))
  <2>1. Flushed(f, ls) = [a EXCEPT !.lines = a.lines \o Tail(ls)]
    BY <1>2, <1>4 DEF Flushed
  <2>2. /\ Head(ls) \in Lines /\ Tail(ls) \in Seq(Lines) /\ Len(Tail(ls)) = Len(ls) - 1
    BY <1>1, <1>4
  <2>3. /\ a \in Files /\ a.newline /\ a.lines # << >> /\ Len(a.lines) <= Len(f.lines) + 1
        /\ f.newline => a.lines = Append(f.lines, Head(ls))
        /\ \A S : Carries(f.lines, S) /\ Stamp(Head(ls)) \in S => Carries(a.lines, S)
    BY <2>2, AppendLineFile
  <2> HIDE DEF a
  <2>4. /\ a.lines \in Seq(Lines) /\ a.lines \o Tail(ls) \in Seq(Lines)
        /\ Len(a.lines \o Tail(ls)) = Len(a.lines) + Len(ls) - 1
        /\ a.lines \o Tail(ls) # << >> /\ Len(a.lines) \in Nat
    <3>1. a.lines \in Seq(Lines)
      BY <2>3 DEF Files
    <3> QED
      BY <1>1, <2>2, <2>3, <3>1
  <2>5. Flushed(f, ls) \in Files /\ Flushed(f, ls).newline /\ Flushed(f, ls).lines = a.lines \o Tail(ls)
    BY <2>1, <2>3, <2>4 DEF Files
  <2>6. f.newline => a.lines \o Tail(ls) = f.lines \o ls
    <3>1. Append(f.lines, Head(ls)) \o Tail(ls) = f.lines \o ls
      BY <1>1, <1>4, FirstMoves
    <3> QED
      BY <2>3, <3>1
  <2>7. Len(f.lines) + Len(ls) >= Len(a.lines) + Len(ls) - 1
    BY <1>1, <2>3, <2>4
  <2>8. ASSUME NEW S, Carries(f.lines, S), Carries(ls, S) PROVE Carries(a.lines \o Tail(ls), S)
    <3>1. Len(ls) >= 1 /\ Head(ls) = ls[1] /\ \A i \in 1..Len(Tail(ls)) : Tail(ls)[i] = ls[i + 1]
      BY <1>1, <1>4, <2>2
    <3>2. Stamp(Head(ls)) \in S /\ Carries(Tail(ls), S)
      BY <1>1, <2>2, <2>8, <3>1 DEF Carries
    <3> QED
      BY <2>2, <2>3, <2>4, <2>8, <3>2, CarriesMore
  <2> QED
    BY <2>4, <2>5, <2>6, <2>7, <2>8
<1> QED
  BY <1>3, <1>4

-----------------------------------------------------------------------------
(* Chains.                                                                 *)

LEMMA ChainGrows ==
    ASSUME NEW s \in Seq(Lines), NEW x \in Lines, Verifies(s), x.kind = "record",
           s # << >> => x.seq = Last(s).seq + 1 /\ x.prev = line_hash(Last(s))
    PROVE  Verifies(Append(s, x)) /\ Append(s, x) # << >> /\ Last(Append(s, x)) = x
<1> DEFINE t == Append(s, x)
<1>1. /\ Len(t) = Len(s) + 1 /\ Len(s) \in Nat /\ t[Len(s) + 1] = x /\ t # << >>
      /\ \A i \in 1..Len(s) : t[i] = s[i]
  BY Appended
<1> HIDE DEF t
<1>2. Last(t) = x
  BY <1>1 DEF Last
<1>3. \A i \in 1..Len(t) : t[i].kind = "record"
  BY <1>1 DEF Verifies
<1>4. ASSUME NEW i \in 1..Len(t) - 1
      PROVE  t[i + 1].seq = t[i].seq + 1 /\ t[i + 1].prev = line_hash(t[i])
  <2>1. CASE i < Len(s)
    <3>1. i \in 1..Len(s) - 1 /\ i \in 1..Len(s) /\ i + 1 \in 1..Len(s)
      BY <1>1, <2>1
    <3> QED
      BY <1>1, <3>1 DEF Verifies
  <2>2. CASE i = Len(s)
    <3>1. i \in 1..Len(s) /\ Last(s) = s[i] /\ Len(<< >>) = 0
      BY <1>1, <2>2 DEF Last
    <3> QED
      BY <1>1, <2>2, <3>1
  <2> QED
    BY <1>1, <2>1, <2>2
<1>5. Verifies(t)
  BY <1>3, <1>4 DEF Verifies
<1> QED
  BY <1>1, <1>2, <1>5 DEF t

LEMMA ChainPrefix ==
    ASSUME NEW s \in Seq(Lines), NEW t \in Seq(Lines), NEW before,
           Len(s) <= Len(t), \A i \in 1..Len(s) : s[i] = t[i]
    PROVE  /\ Verifies(t) => Verifies(s)
           /\ Linked(t, before) => Linked(s, before)
<1>1. Len(s) \in Nat /\ Len(t) \in Nat
  OBVIOUS
<1>2. Verifies(t) => Verifies(s)
  <2> SUFFICES ASSUME Verifies(t) PROVE Verifies(s)
    OBVIOUS
  <2>1. \A i \in 1..Len(s) : s[i].kind = "record"
    BY <1>1 DEF Verifies
  <2>2. ASSUME NEW i \in 1..Len(s) - 1
        PROVE  s[i + 1].seq = s[i].seq + 1 /\ s[i + 1].prev = line_hash(s[i])
    <3>1. i \in 1..Len(t) - 1 /\ i \in 1..Len(s) /\ i + 1 \in 1..Len(s)
      BY <1>1
    <3>2. s[i] = t[i] /\ s[i + 1] = t[i + 1]
      BY <3>1
    <3> QED
      BY <3>1, <3>2 DEF Verifies
  <2> QED
    BY <2>1, <2>2 DEF Verifies
<1>3. s # << >> => t # << >> /\ Head(t) = Head(s)
  <2> SUFFICES ASSUME s # << >> PROVE t # << >> /\ Head(t) = Head(s)
    OBVIOUS
  <2>1. 1 \in 1..Len(s) /\ Head(s) = s[1]
    OBVIOUS
  <2>2. Len(t) >= 1 /\ Len(<< >>) = 0
    BY <1>1, <2>1
  <2>3. t # << >> /\ Head(t) = t[1]
    BY <1>1, <2>2
  <2> QED
    BY <2>1, <2>3
<1> QED
  BY <1>2, <1>3 DEF Linked

-----------------------------------------------------------------------------
(* Steps that move lines.                                                  *)

\* What a step that composes no line does to the marks: nothing.
LEMMA MarksStand ==
    ASSUME MarkInv, \A S : AllCarry(S) => AllCarry(S)', UNCHANGED <<composed, life, prev>>
    PROVE  MarkInv'
<1>1. PICK start \in [0..MaxLives -> 0..MaxLines] :
        /\ start[life] <= composed
        /\ AllCarry(MarkedBy(start))
        /\ prev = <<"record", composed>> \/ prev[2] <= start[life]
  BY DEF MarkInv
<1>2. MarkedBy(start)' = MarkedBy(start)
  BY DEF MarkedBy
<1>3. AllCarry(MarkedBy(start))'
  <2>1. PICK S : S = MarkedBy(start)
    OBVIOUS
  <2>2. AllCarry(S)'
    BY <1>1, <2>1
  <2> QED
    BY <1>2, <2>1, <2>2 DEF AllCarry
<1> QED
  BY <1>1, <1>3 DEF MarkInv

\* A step that touches neither the files nor what the writer goes on with.
LEMMA StandsStill ==
    ASSUME FileInv, TypeOK', UNCHANGED <<files, buf, chain, history>>,
           pc' \in {"idle", "record"} \/ (pc' = pc /\ shift' = shift)
    PROVE  FileInv'
<1>0. UNCHANGED <<active, gens, buf, bytes, seq, prev, composed, life, durable, damage>>
  BY DEF files, chain, history
<1>1. CountInv' /\ RotateInv'
  BY <1>0 DEF FileInv, CountInv, RotateInv, FileAt
<1>2. FileAt(0)' = FileAt(0) /\ \A g : FileAt(g)' = FileAt(g)
  BY <1>0 DEF FileAt
<1>3. MarkInv'
  <2>1. \A S : AllCarry(S) => AllCarry(S)'
    BY <1>0, <1>2 DEF AllCarry, Carries
  <2> QED
    BY <1>0, <2>1, MarksStand DEF FileInv
<1>4. ~ damage' => ChainInv'
  <2>1. Written' = Written /\ \A g : Chain(g)' = Chain(g)
    BY <1>0, <1>2 DEF Written, Chain
  <2> QED
    BY <1>0, <2>1 DEF FileInv, ChainInv
<1> QED
  BY <1>1, <1>3, <1>4 DEF FileInv

LEMMA QuietKeeps ==
    ASSUME FileInv,
           \/ \E n \in 1..BATCH : StartBatch(n)
           \/ FlushFails \/ RenameFails \/ OpenFails \/ LinesSpent \/ UNCHANGED vars
    PROVE  FileInv'
<1> USE Numbers
<1>1. CASE \E n \in 1..BATCH : StartBatch(n)
  BY <1>1, StandsStill DEF StartBatch, FileInv, TypeOK, files, chain, history
<1>2. CASE FlushFails \/ RenameFails \/ OpenFails
  BY <1>2, StandsStill DEF FlushFails, RenameFails, OpenFails, Abandon, FileInv, TypeOK, files, chain, history
<1>3. CASE LinesSpent \/ UNCHANGED vars
  BY <1>3, StandsStill DEF LinesSpent, vars, FileInv, TypeOK, files, chain, history
<1> QED
  BY <1>1, <1>2, <1>3

\* Everything buffered goes to the file.
LEMMA FlushKeeps ==
    ASSUME FileInv, EndBatch \/ BeginRotate
    PROVE  FileInv'
<1>0. /\ pc = "record" /\ active' = Flushed(active, buf) /\ buf' = << >> /\ durable' = LastId(buf)
      /\ UNCHANGED <<gens, bytes, seq, prev, todo, composed, life, damage>>
      /\ \/ pc' = "idle" /\ shift' = shift
         \/ pc' = "shift" /\ shift' = Generations /\ bytes >= MaxBytes
  BY DEF EndBatch, BeginRotate, FlushBuf, chain
<1>1. /\ active # Missing => active \in Files /\ (~ active.newline => active.lines # << >>)
      /\ buf \in Seq(Lines) /\ FileAt(0) \in Seq(Lines)
      /\ FileAt(0) = IF active = Missing THEN << >> ELSE active.lines
  BY FileTypes, Numbers DEF FileInv, CountInv, FileAt, LinesOf
<1>2. active = Missing => buf = << >> /\ bytes >= MaxBytes /\ active' = Missing
  BY <1>0 DEF FileInv, RotateInv, Flushed
<1>3. active # Missing =>
        /\ active' \in Files /\ active' # Missing
        /\ ~ active'.newline => active'.lines # << >>
        /\ Len(active'.lines) <= Len(active.lines) + Len(buf)
        /\ active.newline => active'.newline /\ active'.lines = active.lines \o buf
        /\ \A S : Carries(active.lines, S) /\ Carries(buf, S) => Carries(active'.lines, S)
  BY <1>0, <1>1, FlushedFile, MissingAssumption
<1>4. FileAt(0)' = IF active' = Missing THEN << >> ELSE active'.lines
  BY DEF FileAt, LinesOf
<1>5. \A g \in 1..Generations : FileAt(g)' = FileAt(g)
  BY <1>0 DEF FileAt
<1>6. TypeOK'
  <2>1. LastId(buf) \in 0..MaxLines
    BY <1>1, LastIdType DEF FileInv
  <2> QED
    BY <1>0, <1>2, <1>3, <2>1, Numbers DEF FileInv, TypeOK
<1>7. CountInv'
  <2>1. Len(<< >>) = 0 /\ Len(FileAt(0)) + Len(buf) <= composed /\ Len(FileAt(0)) \in Nat /\ Len(buf) \in Nat
    BY FileTypes DEF FileInv, CountInv
  <2>2. FileAt(0)' \in Seq(Lines)
    <3>1. CASE active = Missing
      <4>1. << >> \in Seq(Lines)
        OBVIOUS
      <4> QED
        BY <1>2, <1>4, <3>1, <4>1
    <3>2. CASE active # Missing
      BY <1>3, <1>4, <3>2 DEF Files
    <3> QED
      BY <3>1, <3>2
  <2>3. Len(FileAt(0)') + Len(buf') <= composed'
    <3>1. CASE active = Missing
      BY <1>0, <1>1, <1>2, <1>4, <2>1, <3>1
    <3>2. CASE active # Missing
      <4>1. Len(FileAt(0)') <= Len(FileAt(0)) + Len(buf) /\ Len(FileAt(0)') \in Nat /\ composed \in Nat
        BY <1>1, <1>3, <1>4, <2>2, <3>2, FileTypes DEF FileInv
      <4> QED
        BY <1>0, <2>1, <4>1
    <3> QED
      BY <3>1, <3>2
  <2> QED
    BY <1>0, <1>2, <1>3, <2>3 DEF FileInv, CountInv
<1>8. RotateInv'
  BY <1>0, <1>2, <1>3, Numbers DEF FileInv, RotateInv
<1>9. MarkInv'
  <2>1. ASSUME NEW S, AllCarry(S) PROVE AllCarry(S)'
    <3>1. Carries(FileAt(0)', S)
      BY <1>1, <1>2, <1>3, <1>4, <2>1, Numbers DEF AllCarry, Carries
    <3> QED
      BY <1>0, <1>5, <2>1, <3>1, Numbers DEF AllCarry, Carries
  <2> QED
    BY <1>0, <2>1, MarksStand DEF FileInv
<1>10. ASSUME ~ damage' PROVE ChainInv'
  <2>1. ChainInv
    BY <1>0, <1>10 DEF FileInv
  <2>2. Written' = Written
    <3>1. FileAt(0)' = FileAt(0) \o buf
      <4>1. CASE active = Missing
        <5>1. << >> \o << >> = << >>
          OBVIOUS
        <5> QED
          BY <1>1, <1>2, <1>4, <4>1, <5>1
      <4>2. CASE active # Missing
        BY <1>1, <1>3, <1>4, <2>1, <4>2 DEF ChainInv
      <4> QED
        BY <4>1, <4>2
    <3>2. Written \in Seq(Lines)
      BY FileTypes DEF FileInv
    <3> QED
      BY <1>0, <3>1, <3>2 DEF Written
  <2>3. \A g \in 0..Generations : Chain(g)' = Chain(g)
    BY <1>5, <2>2, Numbers DEF Chain
  <2>4. ~ (pc' = "shift" /\ shift' + 2 <= Generations)
    BY <1>0, Numbers
  <2>5. active' # Missing => active'.newline
    BY <1>2, <1>3, <2>1 DEF ChainInv
  <2> QED
    BY <1>0, <2>1, <2>2, <2>3, <2>4, <2>5, Numbers DEF ChainInv
<1> QED
  BY <1>6, <1>7, <1>8, <1>9, <1>10 DEF FileInv

\* A generation moves on, and the hole with it.
LEMMA ShiftKeeps ==
    ASSUME FileInv, ShiftGeneration
    PROVE  FileInv'
<1> USE Numbers
<1>s. PICK s \in 1..Generations : s = shift
  BY DEF ShiftGeneration, FileInv, TypeOK
<1>0. /\ pc = "shift" /\ shift = s /\ s \in 1..Generations /\ shift' = s - 1
      /\ UNCHANGED <<active, buf, bytes, seq, prev, pc, todo, composed, life, durable, damage>>
      /\ gens \in [1..Generations -> Files \cup {Missing}]
  BY <1>s DEF ShiftGeneration, chain, history, FileInv, TypeOK
<1>1. /\ gens' \in [1..Generations -> Files \cup {Missing}]
      /\ gens'[s] = Missing
      /\ s < Generations => gens'[s + 1] = gens[s]
      /\ \A g \in 1..Generations : g # s /\ g # s + 1 => gens'[g] = gens[g]
  <2>1. CASE s = Generations
    BY <1>0, <2>1 DEF ShiftGeneration
  <2>2. CASE s < Generations
    <3>1. gens[s + 1] = Missing
      BY <1>0, <2>2 DEF FileInv, RotateInv
    <3>2. gens' = [gens EXCEPT ![s] = Missing,
                   ![s + 1] = IF gens[s] = Missing THEN gens[s + 1] ELSE gens[s]]
      BY <1>0, <2>2 DEF ShiftGeneration
    <3> QED
      BY <1>0, <2>2, <3>1, <3>2
  <2> QED
    BY <1>0, <2>1, <2>2
<1>2. /\ FileAt(0)' = FileAt(0) /\ FileAt(s)' = << >>
      /\ s < Generations => FileAt(s + 1)' = FileAt(s)
      /\ \A g \in 0..Generations : g # s /\ g # s + 1 => FileAt(g)' = FileAt(g)
  BY <1>0, <1>1 DEF FileAt, LinesOf
<1>3. TypeOK'
  BY <1>0, <1>1 DEF FileInv, TypeOK
<1>4. CountInv' /\ RotateInv'
  <2>1. shift' + 1 = s /\ shift' < Generations
    BY <1>0
  <2> QED
    BY <1>0, <1>1, <1>2, <2>1 DEF FileInv, CountInv, RotateInv
<1>5. MarkInv'
  <2>1. ASSUME NEW S, AllCarry(S) PROVE AllCarry(S)'
    <3>1. ASSUME NEW g \in 0..Generations PROVE Carries(FileAt(g)', S)
      <4>1. CASE g = s
        <5>1. Len(<< >>) = 0
          OBVIOUS
        <5> QED
          BY <1>2, <4>1, <5>1 DEF Carries
      <4>2. CASE g = s + 1
        BY <1>0, <1>2, <2>1, <4>2 DEF AllCarry
      <4>3. CASE g # s /\ g # s + 1
        BY <1>2, <2>1, <4>3 DEF AllCarry
      <4> QED
        BY <4>1, <4>2, <4>3
    <3> QED
      BY <1>0, <2>1, <3>1 DEF AllCarry, Carries
  <2> QED
    BY <1>0, <2>1, MarksStand DEF FileInv
<1>6. ASSUME ~ damage' PROVE ChainInv'
  <2>1. ChainInv
    BY <1>0, <1>6 DEF FileInv
  <2>2. Written' = Written /\ (Chain(0) = Written)'
    BY <1>0, <1>2 DEF Written, Chain
  <2>3. /\ Chain(s)' = << >>
        /\ s < Generations => Chain(s + 1)' = Chain(s)
        /\ \A g \in 0..Generations : g # s /\ g # s + 1 => Chain(g)' = Chain(g)
    BY <1>0, <1>2, <2>2 DEF Chain
  <2>4. Verifies(<< >>) /\ \A ls : Linked(ls, << >>) /\ Linked(<< >>, ls)
    <3>1. Len(<< >>) = 0
      OBVIOUS
    <3> QED
      BY <3>1 DEF Verifies, Linked
  <2>5. ASSUME NEW g \in 0..Generations PROVE Verifies(Chain(g)')
    BY <1>0, <2>1, <2>3, <2>4 DEF ChainInv
  <2>6. ASSUME NEW g \in 0..Generations - 1 PROVE Linked(Chain(g)', Chain(g + 1)')
    <3>1. CASE g = s \/ g + 1 = s
      BY <2>3, <2>4, <3>1
    <3>2. CASE g = s + 1
      <4>1. Chain(g)' = Chain(s) /\ Chain(g + 1)' = Chain(s + 2)
        BY <1>0, <2>3, <3>2
      <4> QED
        BY <1>0, <2>1, <3>2, <4>1 DEF ChainInv
    <3>3. CASE g # s /\ g + 1 # s /\ g # s + 1
      BY <1>0, <2>1, <2>3, <3>3 DEF ChainInv
    <3> QED
      BY <3>1, <3>2, <3>3
  <2>7. s + 1 <= Generations => Linked(Chain(s - 1)', Chain(s + 1)')
    <3>1. s - 1 \in 0..Generations /\ s - 1 # s /\ s - 1 # s + 1 /\ s - 1 \in 0..Generations - 1 /\ (s - 1) + 1 = s
      BY <1>0
    <3>2. Chain(s - 1)' = Chain(s - 1)
      BY <1>0, <2>3, <3>1
    <3> QED
      BY <1>0, <2>1, <2>3, <3>1, <3>2 DEF ChainInv
  <2>8. Written' = << >> /\ Chain(1)' # << >> =>
          prev' = line_hash(Last(Chain(1)')) \/ (prev' = GENESIS /\ seq' = 0)
    <3>1. Chain(1)' # << >> => Chain(1)' = Chain(1)
      BY <1>0, <2>3
    <3> QED
      BY <1>0, <2>1, <2>2, <3>1 DEF ChainInv
  <2> QED
    BY <1>0, <2>1, <2>2, <2>5, <2>6, <2>7, <2>8 DEF ChainInv
<1> QED
  BY <1>3, <1>4, <1>5, <1>6 DEF FileInv

\* audit.jsonl becomes the newest generation; a new one is begun.
LEMMA RenameKeeps ==
    ASSUME FileInv, RenameActive
    PROVE  FileInv'
<1> USE Numbers
<1>0. /\ pc = "shift" /\ shift = 0 /\ active # Missing /\ active' = Missing /\ pc' = "open"
      /\ gens' = [gens EXCEPT ![1] = active]
      /\ UNCHANGED <<buf, bytes, seq, prev, todo, shift, composed, life, durable, damage>>
      /\ gens \in [1..Generations -> Files \cup {Missing}] /\ active \in Files
  BY DEF RenameActive, chain, history, FileInv, TypeOK
<1>1. /\ buf = << >> /\ bytes >= MaxBytes
  BY <1>0 DEF FileInv, RotateInv
<1>2. /\ FileAt(0)' = << >> /\ FileAt(1)' = FileAt(0)
      /\ \A g \in 2..Generations : FileAt(g)' = FileAt(g)
  BY <1>0 DEF FileAt, LinesOf
<1>3. TypeOK'
  BY <1>0 DEF FileInv, TypeOK
<1>4. Len(<< >>) = 0 /\ << >> \o << >> = << >>
  OBVIOUS
<1>5. CountInv' /\ RotateInv'
  BY <1>0, <1>1, <1>2, <1>4, FileTypes DEF FileInv, CountInv, RotateInv
<1>6. MarkInv'
  <2>1. ASSUME NEW S, AllCarry(S) PROVE AllCarry(S)'
    <3>1. ASSUME NEW g \in 0..Generations PROVE Carries(FileAt(g)', S)
      <4>1. CASE g = 0
        BY <1>2, <1>4, <4>1 DEF Carries
      <4>2. CASE g = 1
        BY <1>2, <2>1, <4>2 DEF AllCarry
      <4>3. CASE g \in 2..Generations
        BY <1>2, <2>1, <4>3 DEF AllCarry
      <4> QED
        BY <4>1, <4>2, <4>3
    <3> QED
      BY <1>0, <2>1, <3>1 DEF AllCarry, Carries
  <2> QED
    BY <1>0, <2>1, MarksStand DEF FileInv
<1>7. ASSUME ~ damage' PROVE ChainInv'
  <2>1. ChainInv
    BY <1>0, <1>7 DEF FileInv
  <2>2. Written = FileAt(0)
    BY <1>1, FileTypes DEF FileInv, Written
  <2>3. /\ Written' = << >> /\ Chain(0)' = << >> /\ Chain(1)' = Written /\ Chain(0) = Written
        /\ \A g \in 2..Generations : Chain(g)' = Chain(g)
    BY <1>0, <1>1, <1>2, <1>4, <2>2 DEF Written, Chain
  <2>4. Verifies(<< >>) /\ \A s : Linked(<< >>, s)
    BY <1>4 DEF Verifies, Linked
  <2>5. ASSUME NEW g \in 0..Generations PROVE Verifies(Chain(g)')
    <3>1. g = 0 \/ g = 1 \/ g \in 2..Generations
      OBVIOUS
    <3> QED
      BY <2>1, <2>3, <2>4, <3>1 DEF ChainInv
  <2>6. ASSUME NEW g \in 0..Generations - 1 PROVE Linked(Chain(g)', Chain(g + 1)')
    <3>1. CASE g = 0
      BY <2>3, <2>4, <3>1
    <3>2. CASE g = 1
      <4>1. Linked(Chain(0), Chain(2)) /\ Chain(2)' = Chain(2)
        BY <1>0, <2>1, <2>3, <3>2 DEF ChainInv
      <4> QED
        BY <2>3, <3>2, <4>1
    <3>3. CASE g \in 2..Generations - 1
      BY <2>1, <2>3, <3>3 DEF ChainInv
    <3> QED
      BY <3>1, <3>2, <3>3
  <2> QED
    BY <1>0, <2>1, <2>3, <2>5, <2>6 DEF ChainInv
<1> QED
  BY <1>3, <1>5, <1>6, <1>7 DEF FileInv

LEMMA OpenKeeps ==
    ASSUME FileInv, OpenNew
    PROVE  FileInv'
<1> USE Numbers
<1>0. /\ active' = EmptyFile /\ bytes' = 0 /\ pc' = "record" /\ buf = << >> /\ active = Missing
      /\ UNCHANGED <<gens, buf, seq, prev, todo, shift, composed, life, durable, damage>>
  BY DEF OpenNew, history, FileInv, RotateInv
<1>1. EmptyFile \in Files /\ EmptyFile.lines = << >> /\ EmptyFile.newline /\ Len(<< >>) = 0
  BY DEF EmptyFile, Files
<1>2. EmptyFile # Missing
  BY <1>1, MissingAssumption
<1>3. /\ FileAt(0)' = << >> /\ \A g \in 1..Generations : FileAt(g)' = FileAt(g)
  BY <1>0, <1>1, <1>2 DEF FileAt, LinesOf
<1>4. TypeOK'
  BY <1>0, <1>1 DEF FileInv, TypeOK
<1>5. CountInv' /\ RotateInv'
  BY <1>0, <1>1, <1>2, <1>3, FileTypes DEF FileInv, CountInv, RotateInv
<1>6. MarkInv'
  <2>1. ASSUME NEW S, AllCarry(S) PROVE AllCarry(S)'
    BY <1>0, <1>1, <1>3, <2>1 DEF AllCarry, Carries
  <2> QED
    BY <1>0, <2>1, MarksStand DEF FileInv
<1>7. ASSUME ~ damage' PROVE ChainInv'
  <2>1. ChainInv
    BY <1>0, <1>7 DEF FileInv
  <2>2. FileAt(0) = << >>
    BY <1>0 DEF FileAt, LinesOf
  <2>3. Written' = Written /\ \A g \in 0..Generations : Chain(g)' = Chain(g)
    BY <1>0, <1>3, <2>2 DEF Written, Chain
  <2> QED
    BY <1>0, <1>1, <2>1, <2>3 DEF ChainInv
<1> QED
  BY <1>4, <1>5, <1>6, <1>7 DEF FileInv

\* A line is composed: it names the one composed just before it.
LEMMA MarksGrow ==
    ASSUME FileInv, Compose, UNCHANGED <<files, life>>,
           buf' = buf \/ buf' = Append(buf, NewLine)
    PROVE  MarkInv' /\ NewLine \in Lines
<1> USE Numbers
<1>0. /\ composed < MaxLines /\ composed' = composed + 1 /\ prev' = <<"record", composed + 1>>
      /\ life' = life /\ active' = active /\ gens' = gens
      /\ composed \in 0..MaxLines /\ seq \in 0..MaxLines /\ seq <= composed
      /\ life \in 0..MaxLives /\ prev \in Hashes /\ buf \in Seq(Lines)
  BY DEF Compose, files, FileInv, TypeOK, CountInv
<1>1. NewLine \in Lines
  <2>1. composed + 1 \in 1..MaxLines /\ seq + 1 \in 0..MaxLines
    BY <1>0
  <2> QED
    BY <1>0, <2>1 DEF NewLine, Lines
<1>2. PICK start \in [0..MaxLives -> 0..MaxLines] :
        /\ start[life] <= composed
        /\ AllCarry(MarkedBy(start))
        /\ prev = <<"record", composed>> \/ prev[2] <= start[life]
  BY DEF FileInv, MarkInv
<1>3. start[life] \in Nat /\ \A x \in Stamps : start[x.life] \in Nat /\ x.id \in Nat
  BY <1>0 DEF Stamps
<1>4. PICK S : S = MarkedBy(start)'
  OBVIOUS
<1>5. MarkedBy(start) \subseteq S
  <2>1. ASSUME NEW x \in Stamps, x.id <= composed PROVE x.id <= composed + 1
    BY <1>0, <1>3, <2>1
  <2> QED
    BY <1>0, <1>4, <2>1 DEF MarkedBy
<1>6. Stamp(NewLine) \in S
  <2> DEFINE x == Stamp(NewLine)
  <2>1. /\ x \in Stamps /\ x.id = composed + 1 /\ x.seq = seq + 1 /\ x.prev = prev /\ x.life = life
    BY <1>1, StampType DEF NewLine
  <2> HIDE DEF x
  <2>2. /\ x.id <= composed + 1 /\ x.life <= life /\ x.seq <= x.id /\ start[x.life] < x.id
        /\ x.id - 1 = composed
    BY <1>0, <1>2, <1>3, <2>1
  <2>3. x \in S
    BY <1>0, <1>2, <1>4, <2>1, <2>2 DEF MarkedBy
  <2> QED
    BY <2>3 DEF x
<1>7. AllCarry(S)'
  <2>1. AllCarry(S)
    BY <1>2, <1>5 DEF AllCarry, Carries
  <2>2. \A g : FileAt(g)' = FileAt(g)
    BY <1>0 DEF FileAt
  <2>3. Carries(buf', S)
    <3>1. Carries(buf, S)
      BY <2>1 DEF AllCarry
    <3>2. Carries(Append(buf, NewLine), S)
      BY <1>0, <1>1, <1>6, <3>1, CarriesMore
    <3> QED
      BY <3>1, <3>2
  <2> QED
    BY <2>1, <2>2, <2>3 DEF AllCarry, Carries
<1>8. start[life] <= composed + 1
  BY <1>0, <1>2, <1>3
<1> QED
  BY <1>0, <1>1, <1>4, <1>7, <1>8 DEF MarkInv

LEMMA RecordKeeps ==
    ASSUME FileInv, WriteRecord
    PROVE  FileInv'
<1> USE Numbers
<1>0. /\ pc = "record" /\ todo > 0 /\ bytes < MaxBytes /\ Compose
      /\ composed < MaxLines /\ composed' = composed + 1 /\ seq' = seq + 1
      /\ prev' = <<"record", composed + 1>> /\ buf' = Append(buf, NewLine) /\ bytes' = bytes + 1
      /\ todo' = todo - 1
      /\ UNCHANGED <<active, gens, pc, shift, life, durable, damage>>
  BY DEF WriteRecord, Compose, files
<1>1. MarkInv' /\ NewLine \in Lines
  BY <1>0, MarksGrow DEF files
<1>2. /\ buf \in Seq(Lines) /\ bytes \in Nat /\ seq \in Nat /\ composed \in Nat /\ todo \in Nat
      /\ bytes <= composed /\ seq <= composed /\ todo <= BATCH
      /\ Len(FileAt(0)) + Len(buf) <= composed /\ Len(FileAt(0)) \in Nat /\ FileAt(0) \in Seq(Lines)
  BY FileTypes DEF FileInv, CountInv, TypeOK
<1>3. /\ Append(buf, NewLine) \in Seq(Lines) /\ Len(Append(buf, NewLine)) = Len(buf) + 1
      /\ Len(buf) \in Nat
  BY <1>1, <1>2, Appended
<1>4. TypeOK'
  <2>1. /\ bytes + 1 \in 0..MaxLines /\ seq + 1 \in 0..MaxLines /\ composed + 1 \in 0..MaxLines
        /\ todo - 1 \in 0..BATCH
    BY <1>0, <1>2
  <2>2. <<"record", composed + 1>> \in Hashes
    BY <2>1 DEF Hashes
  <2> QED
    BY <1>0, <1>3, <2>1, <2>2 DEF FileInv, TypeOK
<1>5. FileAt(0)' = FileAt(0) /\ \A g : FileAt(g)' = FileAt(g)
  BY <1>0 DEF FileAt
<1>6. CountInv'
  <2>1. bytes + 1 <= composed + 1 /\ seq + 1 <= composed + 1
    BY <1>2
  <2>2. Len(FileAt(0)) + (Len(buf) + 1) <= composed + 1
    BY <1>2, <1>3
  <2> QED
    BY <1>0, <1>3, <1>5, <2>1, <2>2 DEF FileInv, CountInv
<1>7. active # Missing
  BY <1>0, <1>2 DEF FileInv, RotateInv
<1>8. RotateInv'
  BY <1>0, <1>7 DEF RotateInv
<1>9. ASSUME ~ damage' PROVE ChainInv'
  <2>1. ChainInv
    BY <1>0, <1>9 DEF FileInv
  <2>2. Written' = Append(Written, NewLine) /\ Written \in Seq(Lines)
    <3>1. FileAt(0) \o Append(buf, NewLine) = Append(FileAt(0) \o buf, NewLine)
      BY <1>1, <1>2
    <3> QED
      BY <1>0, <1>5, <3>1, FileTypes DEF FileInv, Written
  <2>3. /\ NewLine.kind = "record" /\ NewLine.seq = seq + 1 /\ NewLine.prev = prev
        /\ line_hash(NewLine) = <<"record", composed + 1>>
    BY DEF NewLine, line_hash
  <2>4. Verifies(Written) /\ Chain(0) = Written
    BY <2>1 DEF ChainInv, Chain
  <2>5. Written # << >> => prev = line_hash(Last(Written)) /\ seq = Last(Written).seq
    BY <2>1 DEF ChainInv
  <2>6. Verifies(Written') /\ Written' # << >> /\ Last(Written') = NewLine
    BY <1>1, <2>2, <2>3, <2>4, <2>5, ChainGrows
  <2>7. Chain(0)' = Written' /\ \A g \in 1..Generations : Chain(g)' = Chain(g)
    BY <1>5 DEF Chain
  <2>8. Linked(Written', Chain(1))
    <3>1. CASE Written = << >>
      <4>1. Head(Written') = NewLine
        BY <1>1, <2>2, <3>1
      <4> QED
        BY <2>1, <2>3, <3>1, <4>1 DEF ChainInv, Linked
    <3>2. CASE Written # << >>
      <4>1. Head(Written') = Head(Written)
        BY <1>1, <2>2, <3>2
      <4>2. Linked(Written, Chain(1))
        BY <2>1, <2>4 DEF ChainInv
      <4> QED
        BY <3>2, <4>1, <4>2 DEF Linked
    <3> QED
      BY <3>1, <3>2
  <2>9. \A g \in 0..Generations : Verifies(Chain(g)')
    BY <2>1, <2>6, <2>7 DEF ChainInv
  <2>10. \A g \in 0..Generations - 1 : Linked(Chain(g)', Chain(g + 1)')
    <3>1. ASSUME NEW g \in 1..Generations - 1 PROVE Linked(Chain(g)', Chain(g + 1)')
      BY <2>1, <2>7 DEF ChainInv
    <3>2. Chain(1)' = Chain(1)
      BY <2>7
    <3> QED
      BY <2>7, <2>8, <3>1, <3>2
  <2>11. prev' = line_hash(Last(Written')) /\ seq' = Last(Written').seq
    BY <1>0, <2>3, <2>6
  <2> QED
    BY <1>0, <2>1, <2>6, <2>9, <2>10, <2>11 DEF ChainInv
<1> QED
  BY <1>1, <1>4, <1>6, <1>8, <1>9 DEF FileInv

\* The number and the hash are consumed; from here on there is damage.
LEMMA FailedWriteKeeps ==
    ASSUME FileInv, WriteFails
    PROVE  FileInv'
<1> USE Numbers
<1>0. /\ bytes < MaxBytes /\ Compose /\ damage' /\ pc' = "idle" /\ todo' = 0
      /\ composed < MaxLines /\ composed' = composed + 1 /\ seq' = seq + 1
      /\ prev' = <<"record", composed + 1>>
      /\ UNCHANGED <<active, gens, buf, bytes, shift, life, durable>> /\ damage' \in BOOLEAN
  BY DEF WriteFails, Compose, Abandon, files
<1>1. MarkInv'
  BY <1>0, MarksGrow DEF files
<1>2. /\ bytes \in Nat /\ seq \in Nat /\ composed \in Nat
      /\ bytes <= composed /\ seq <= composed
      /\ Len(FileAt(0)) + Len(buf) <= composed /\ Len(FileAt(0)) \in Nat /\ Len(buf) \in Nat
  BY FileTypes DEF FileInv, CountInv
<1>3. TypeOK'
  <2>1. seq + 1 \in 0..MaxLines /\ composed + 1 \in 0..MaxLines
    BY <1>0, <1>2
  <2>2. <<"record", composed + 1>> \in Hashes
    BY <2>1 DEF Hashes
  <2> QED
    BY <1>0, <2>1, <2>2 DEF FileInv, TypeOK
<1>4. CountInv'
  <2>1. /\ bytes <= composed + 1 /\ seq + 1 <= composed + 1
        /\ Len(FileAt(0)) + Len(buf) <= composed + 1
    BY <1>2
  <2>2. FileAt(0)' = FileAt(0)
    BY <1>0 DEF FileAt
  <2> QED
    BY <1>0, <2>1, <2>2 DEF FileInv, CountInv
<1>5. RotateInv'
  BY <1>0, <1>2 DEF FileInv, RotateInv
<1> QED
  BY <1>0, <1>1, <1>3, <1>4, <1>5 DEF FileInv

-----------------------------------------------------------------------------
(* Crashes.                                                                *)

\* What is in the file, and what the writer goes on with.
LEMMA Reopened ==
    ASSUME FileInv, NEW n \in 0..Len(buf), NEW tail \in {"none", "torn", "record"},
           CrashAndReopen(n, tail)
    PROVE  /\ active' \in Files /\ active' # Missing
           /\ ~ active'.newline => active'.lines # << >>
           /\ Len(active'.lines) <= Len(FileAt(0)) + Len(buf)
           /\ \A S : Carries(FileAt(0), S) /\ Carries(buf, S) => Carries(active'.lines, S)
           /\ ~ damage' /\ (active # Missing => active.newline) =>
                /\ active'.newline /\ Len(active'.lines) <= Len(Written)
                /\ \A i \in 1..Len(active'.lines) : active'.lines[i] = Written[i]
           /\ bytes' = Len(active'.lines)
           /\ active'.lines = << >> => seq' = 0 /\ prev' = GENESIS
           /\ active'.lines # << >> =>
                seq' = LastSeq(active') /\ prev' = line_hash(Last(active'.lines))
<1> USE Numbers
<1> DEFINE part == SubSeq(buf, 1, n)
           f    == Remains(n, tail)
<1>0. /\ active' = IF f = Missing THEN EmptyFile ELSE f
      /\ Resume(f)
      /\ tail # "none" => n < Len(buf)
      /\ damage' = (damage \/ tail # "none")
  BY DEF CrashAndReopen
<1>1. /\ active # Missing => active \in Files /\ (~ active.newline => active.lines # << >>)
      /\ buf \in Seq(Lines) /\ FileAt(0) \in Seq(Lines)
      /\ FileAt(0) = IF active = Missing THEN << >> ELSE active.lines
      /\ Len(buf) \in Nat /\ Len(FileAt(0)) \in Nat /\ Len(Written) = Len(FileAt(0)) + Len(buf)
  BY FileTypes DEF FileInv, CountInv, FileAt, LinesOf
<1>2. part \in Seq(Lines) /\ Len(part) = n /\ \A i \in 1..n : part[i] = buf[i]
  BY <1>1
<1>e. EmptyFile \in Files /\ EmptyFile.lines = << >> /\ EmptyFile.newline /\ Len(<< >>) = 0
  BY DEF EmptyFile, Files
<1> HIDE DEF part
<1>3. CASE active = Missing
  <2>1. buf = << >> /\ Len(buf) = 0
    BY <1>e, <1>3 DEF FileInv, RotateInv
  <2>2. tail = "none" /\ f = Missing
    BY <1>0, <1>1, <1>3, <2>1 DEF Remains, Flushed
  <2>3. active' = EmptyFile /\ bytes' = 0 /\ seq' = 0 /\ prev' = GENESIS
    BY <1>0, <2>2 DEF Resume
  <2>4. \A S : Carries(<< >>, S)
    BY <1>e DEF Carries
  <2> QED
    BY <1>1, <1>e, <2>3, <2>4, MissingAssumption
<1>4. CASE active # Missing
  <2> DEFINE g == Flushed(active, part)
  <2>1. /\ g \in Files /\ (~ g.newline => g.lines # << >>)
        /\ Len(g.lines) <= Len(active.lines) + n
        /\ active.newline => g.newline /\ g.lines = active.lines \o part
        /\ \A S : Carries(active.lines, S) /\ Carries(part, S) => Carries(g.lines, S)
    BY <1>1, <1>2, <1>4, FlushedFile
  <2>2. \A S : Carries(buf, S) => Carries(part, S)
    BY <1>1, CarriesMore DEF part
  <2>3. tail = "none" => f = g
    BY DEF Remains, part
  <2>4. /\ f \in Files /\ (~ f.newline => f.lines # << >>)
        /\ Len(f.lines) <= Len(active.lines) + Len(buf)
        /\ \A S : Carries(active.lines, S) /\ Carries(buf, S) => Carries(f.lines, S)
    <3>1. CASE tail = "none"
      <4>1. Len(active.lines) + n <= Len(active.lines) + Len(buf) /\ Len(g.lines) \in Nat
        BY <1>1, <1>4, <2>1 DEF Files
      <4>2. Len(g.lines) <= Len(active.lines) + Len(buf)
        BY <1>1, <1>4, <2>1, <4>1
      <4> HIDE DEF f, g
      <4> QED
        BY <2>1, <2>2, <2>3, <3>1, <4>2
    <3>2. CASE tail # "none"
      <4> DEFINE y == [buf[n + 1] EXCEPT !.kind = tail]
                 a == AppendLine(g, y)
      <4>1. n + 1 \in 1..Len(buf) /\ buf[n + 1] \in Lines
        BY <1>0, <1>1, <3>2
      <4>2. y \in Lines /\ Stamp(y) = Stamp(buf[n + 1])
        BY <3>2, <4>1, StampType
      <4>3. f = [a EXCEPT !.newline = FALSE]
        BY <3>2 DEF Remains, part
      <4> HIDE DEF f, g, y
      <4>4. /\ a \in Files /\ a.lines # << >> /\ Len(a.lines) <= Len(g.lines) + 1
            /\ \A S : Carries(g.lines, S) /\ Stamp(y) \in S => Carries(a.lines, S)
        BY <2>1, <4>2, AppendLineFile
      <4> HIDE DEF a
      <4>5. f \in Files /\ f.lines = a.lines
        BY <4>3, <4>4 DEF Files
      <4>6. Len(a.lines) \in Nat /\ Len(g.lines) \in Nat
        BY <2>1, <4>4 DEF Files
      <4>7. Len(a.lines) <= Len(active.lines) + Len(buf)
        BY <1>1, <1>4, <2>1, <4>1, <4>4, <4>6
      <4>8. \A S : Carries(buf, S) => Stamp(y) \in S
        BY <4>1, <4>2 DEF Carries
      <4> QED
        BY <2>1, <2>2, <4>4, <4>5, <4>7, <4>8
    <3> QED
      BY <3>1, <3>2
  <2>5. ~ damage' /\ active.newline =>
          /\ f.newline /\ Len(f.lines) <= Len(Written)
          /\ \A i \in 1..Len(f.lines) : f.lines[i] = Written[i]
    <3> SUFFICES ASSUME ~ damage', active.newline
                 PROVE  /\ f.newline /\ Len(f.lines) <= Len(Written)
                        /\ \A i \in 1..Len(f.lines) : f.lines[i] = Written[i]
      OBVIOUS
    <3>1. f = g
      BY <1>0, <2>3
    <3> HIDE DEF f, g
    <3>2. f.newline /\ f.lines = FileAt(0) \o part
      BY <1>1, <1>4, <2>1, <3>1
    <3>3. /\ Len(FileAt(0) \o part) = Len(FileAt(0)) + n
          /\ \A i \in 1..Len(FileAt(0)) : (FileAt(0) \o part)[i] = FileAt(0)[i]
          /\ \A i \in Len(FileAt(0)) + 1..Len(FileAt(0)) + n :
                (FileAt(0) \o part)[i] = buf[i - Len(FileAt(0))]
      <4>1. /\ Len(FileAt(0) \o part) = Len(FileAt(0)) + n
            /\ \A i \in 1..Len(FileAt(0)) : (FileAt(0) \o part)[i] = FileAt(0)[i]
            /\ \A i \in Len(FileAt(0)) + 1..Len(FileAt(0)) + n :
                  (FileAt(0) \o part)[i] = part[i - Len(FileAt(0))]
        <5>1. FileAt(0) \in Seq(Lines) /\ part \in Seq(Lines) /\ Len(part) = n
          BY <1>1, <1>2
        <5> QED
          BY <5>1
      <4>2. \A i \in Len(FileAt(0)) + 1..Len(FileAt(0)) + n : i - Len(FileAt(0)) \in 1..n
        BY <1>1
      <4> QED
        BY <1>2, <4>1, <4>2
    <3>4. /\ \A i \in 1..Len(FileAt(0)) : Written[i] = FileAt(0)[i]
          /\ \A i \in Len(FileAt(0)) + 1..Len(FileAt(0)) + n :
                Written[i] = buf[i - Len(FileAt(0))]
      BY <1>1 DEF Written
    <3>5. Len(FileAt(0)) + n <= Len(Written)
      BY <1>1
    <3>6. ASSUME NEW i \in 1..Len(FileAt(0)) + n PROVE (FileAt(0) \o part)[i] = Written[i]
      <4>1. i \in 1..Len(FileAt(0)) \/ i \in Len(FileAt(0)) + 1..Len(FileAt(0)) + n
        BY <1>1
      <4> QED
        BY <3>3, <3>4, <4>1
    <3> QED
      BY <3>2, <3>3, <3>5, <3>6
  <2>6. /\ bytes' = Len(f.lines)
        /\ f.lines = << >> => seq' = 0 /\ prev' = GENESIS
        /\ f.lines # << >> => seq' = LastSeq(f) /\ prev' = line_hash(Last(f.lines))
    <3> HIDE DEF f
    <3>1. f # Missing
      BY <2>4, MissingAssumption
    <3>2. f = EmptyFile <=> f.lines = << >>
      BY <2>4 DEF Files, EmptyFile
    <3> QED
      BY <1>0, <1>e, <3>1, <3>2 DEF Resume
  <2> HIDE DEF f
  <2>7. f # Missing /\ active' = f
    BY <1>0, <2>4, MissingAssumption
  <2> QED
    BY <1>1, <1>4, <2>4, <2>5, <2>6, <2>7
<1> QED
  BY <1>3, <1>4

\* A new life: what was composed so far is before it.
LEMMA CrashKeeps ==
    ASSUME FileInv, NEW n \in 0..Len(buf), NEW tail \in {"none", "torn", "record"},
           CrashAndReopen(n, tail)
    PROVE  FileInv'
<1> USE Numbers
<1>0. /\ life < MaxLives /\ life' = life + 1 /\ buf' = << >> /\ pc' = "idle" /\ todo' = 0 /\ shift' = 0
      /\ durable' = LastId(SubSeq(buf, 1, n)) /\ damage' = (damage \/ tail # "none")
      /\ gens' = gens /\ composed' = composed
  BY DEF CrashAndReopen
<1>1. /\ active' \in Files /\ active' # Missing
      /\ ~ active'.newline => active'.lines # << >>
      /\ Len(active'.lines) <= Len(FileAt(0)) + Len(buf)
      /\ \A S : Carries(FileAt(0), S) /\ Carries(buf, S) => Carries(active'.lines, S)
      /\ ~ damage' /\ (active # Missing => active.newline) =>
           /\ active'.newline /\ Len(active'.lines) <= Len(Written)
           /\ \A i \in 1..Len(active'.lines) : active'.lines[i] = Written[i]
      /\ bytes' = Len(active'.lines)
      /\ active'.lines = << >> => seq' = 0 /\ prev' = GENESIS
      /\ active'.lines # << >> =>
           seq' = LastSeq(active') /\ prev' = line_hash(Last(active'.lines))
  BY Reopened
<1>2. /\ composed \in 0..MaxLines /\ life \in 0..MaxLives /\ Len(FileAt(0)) \in Nat /\ Len(buf) \in Nat
      /\ Len(FileAt(0)) + Len(buf) <= composed /\ buf \in Seq(Lines)
  BY FileTypes DEF FileInv, CountInv, TypeOK
<1>3. PICK lines \in Seq(Lines) : lines = active'.lines
  BY <1>1 DEF Files
<1>4. Len(lines) \in Nat /\ Len(lines) <= composed /\ Len(<< >>) = 0
  BY <1>1, <1>2, <1>3
<1>5. /\ FileAt(0)' = lines /\ \A g \in 1..Generations : FileAt(g)' = FileAt(g)
  BY <1>0, <1>1, <1>3 DEF FileAt, LinesOf
<1>6. PICK start \in [0..MaxLives -> 0..MaxLines] :
        /\ start[life] <= composed
        /\ AllCarry(MarkedBy(start))
        /\ prev = <<"record", composed>> \/ prev[2] <= start[life]
  BY DEF FileInv, MarkInv
<1>7. PICK S : S = MarkedBy(start)
  OBVIOUS
<1>8. Carries(lines, S)
  BY <1>1, <1>3, <1>6, <1>7 DEF AllCarry
<1>9. lines # << >> =>
        /\ Last(lines) \in Lines /\ Last(lines).id \in 1..MaxLines /\ Last(lines).seq \in 0..MaxLines
        /\ Last(lines).id <= composed /\ Last(lines).seq <= composed
        /\ Last(lines).kind \in {"record", "torn", "glued"}
        /\ Last(lines) = lines[Len(lines)] /\ Len(lines) \in 1..Len(lines)
  <2> SUFFICES ASSUME lines # << >>
               PROVE  /\ Last(lines) \in Lines /\ Last(lines).id \in 1..MaxLines
                      /\ Last(lines).seq \in 0..MaxLines
                      /\ Last(lines).id <= composed /\ Last(lines).seq <= composed
                      /\ Last(lines).kind \in {"record", "torn", "glued"}
                      /\ Last(lines) = lines[Len(lines)] /\ Len(lines) \in 1..Len(lines)
    OBVIOUS
  <2>1. Len(lines) \in 1..Len(lines) /\ Last(lines) = lines[Len(lines)]
    BY DEF Last
  <2>2. PICK x \in Lines : x = Last(lines)
    BY <2>1
  <2>3. Stamp(x) \in S
    BY <1>8, <2>1, <2>2 DEF Carries
  <2>4. x.id <= composed /\ x.seq <= x.id
    BY <1>7, <2>3, StampType DEF MarkedBy
  <2>5. x.id \in 1..MaxLines /\ x.seq \in 0..MaxLines /\ x.kind \in {"record", "torn", "glued"}
    BY DEF Lines
  <2>6. x.seq <= composed
    BY <1>2, <2>4, <2>5
  <2> QED
    BY <2>1, <2>2, <2>4, <2>5, <2>6
<1>10. /\ seq' \in 0..MaxLines /\ seq' <= composed
       /\ prev' \in Hashes /\ prev'[2] <= composed
  <2>1. CASE lines = << >>
    <3>1. GENESIS \in Hashes /\ GENESIS[2] = 0
      BY DEF GENESIS, Hashes
    <3> QED
      BY <1>1, <1>2, <1>3, <2>1, <3>1
  <2>2. CASE lines # << >>
    <3>1. line_hash(Last(lines)) \in Hashes /\ line_hash(Last(lines))[2] = Last(lines).id
      <4>1. Last(lines).id \in 0..MaxLines
        BY <1>9, <2>2
      <4> QED
        BY <1>9, <2>2, <4>1 DEF line_hash, Hashes
    <3>2. LastSeq(active') \in 0..MaxLines /\ LastSeq(active') <= composed
      BY <1>2, <1>3, <1>9, <2>2 DEF LastSeq
    <3> QED
      BY <1>1, <1>3, <1>9, <2>2, <3>1, <3>2
  <2> QED
    BY <2>1, <2>2
<1>11. TypeOK'
  <2>1. SubSeq(buf, 1, n) \in Seq(Lines)
    BY <1>2
  <2>2. LastId(SubSeq(buf, 1, n)) \in 0..MaxLines
    BY <2>1, LastIdType DEF FileInv
  <2>3. bytes' \in 0..MaxLines /\ life + 1 \in 0..MaxLives
    BY <1>0, <1>1, <1>2, <1>3, <1>4
  <2>4. << >> \in Seq(Lines) /\ 0 \in 0..BATCH /\ 0 \in 0..Generations /\ damage' \in BOOLEAN
    BY <1>0
  <2> QED
    BY <1>0, <1>1, <1>10, <2>2, <2>3, <2>4 DEF FileInv, TypeOK
<1>12. CountInv'
  BY <1>0, <1>1, <1>3, <1>4, <1>5, <1>10 DEF CountInv
<1>13. RotateInv'
  BY <1>0, <1>1 DEF RotateInv
<1>14. MarkInv'
  <2>1. PICK later \in [0..MaxLives -> 0..MaxLines] :
          later[life'] = composed /\ \A m \in 0..MaxLives : m <= life => later[m] = start[m]
    <3> DEFINE at == [start EXCEPT ![life + 1] = composed]
    <3>1. /\ at \in [0..MaxLives -> 0..MaxLines] /\ at[life + 1] = composed
          /\ \A m \in 0..MaxLives : m <= life => at[m] = start[m]
      BY <1>0, <1>2
    <3> QED
      BY <1>0, <3>1
  <2>2. PICK T : T = MarkedBy(later)'
    OBVIOUS
  <2>3. S \subseteq T
    <3> SUFFICES ASSUME NEW x \in S PROVE x \in T
      OBVIOUS
    <3>1. /\ x \in Stamps /\ x.id <= composed /\ x.life <= life /\ x.seq <= x.id
          /\ start[x.life] < x.id
          /\ x.prev = <<"record", x.id - 1>> \/ x.prev[2] <= start[x.life]
      BY <1>7 DEF MarkedBy
    <3>2. x.life \in 0..MaxLives
      BY <3>1 DEF Stamps
    <3>3. later[x.life] = start[x.life] /\ x.life <= life + 1
      BY <1>2, <2>1, <3>1, <3>2
    <3>4. x.prev = <<"record", x.id - 1>> \/ x.prev[2] <= later[x.life]
      BY <3>1, <3>3
    <3>5. x.id <= composed' /\ x.life <= life' /\ later[x.life] < x.id
      BY <1>0, <3>1, <3>3
    <3> QED
      BY <2>2, <3>1, <3>4, <3>5 DEF MarkedBy
  <2>4. AllCarry(T)'
    <3>1. AllCarry(S)
      BY <1>6, <1>7
    <3>2. Carries(lines, T) /\ \A g \in 0..Generations : Carries(FileAt(g), T)
      BY <1>8, <2>3, <3>1 DEF AllCarry, Carries
    <3>3. Carries(<< >>, T)
      BY <1>4 DEF Carries
    <3>4. \A g \in 0..Generations : Carries(FileAt(g)', T)
      BY <1>5, <3>2
    <3> QED
      BY <1>0, <3>3, <3>4 DEF AllCarry, Carries
  <2>5. later[life'] <= composed' /\ prev'[2] <= later[life']
    BY <1>0, <1>2, <1>10, <2>1
  <2> QED
    BY <2>1, <2>2, <2>4, <2>5 DEF MarkInv
<1>15. ASSUME ~ damage' PROVE ChainInv'
  <2>1. ChainInv
    BY <1>0, <1>15 DEF FileInv
  <2>2. active'.newline /\ Len(lines) <= Len(Written) /\ \A i \in 1..Len(lines) : lines[i] = Written[i]
    BY <1>1, <1>3, <1>15, <2>1 DEF ChainInv
  <2>3. Written' = lines /\ Written \in Seq(Lines)
    <3>1. lines \o << >> = lines
      OBVIOUS
    <3> QED
      BY <1>0, <1>5, <3>1, FileTypes DEF FileInv, Written
  <2>4. Chain(0)' = lines /\ \A g \in 1..Generations : Chain(g)' = Chain(g)
    BY <1>5, <2>3 DEF Chain
  <2>5. Verifies(lines) /\ Linked(lines, Chain(1))
    <3>1. Verifies(Written) /\ Linked(Written, Chain(1))
      BY <2>1 DEF ChainInv, Chain
    <3> QED
      BY <2>2, <2>3, <3>1, ChainPrefix
  <2>6. \A g \in 0..Generations : Verifies(Chain(g)')
    BY <2>1, <2>4, <2>5 DEF ChainInv
  <2>7. \A g \in 0..Generations - 1 : Linked(Chain(g)', Chain(g + 1)')
    <3>1. ASSUME NEW g \in 1..Generations - 1 PROVE Linked(Chain(g)', Chain(g + 1)')
      BY <2>1, <2>4 DEF ChainInv
    <3> QED
      BY <2>4, <2>5, <3>1
  <2>8. lines # << >> => prev' = line_hash(Last(lines)) /\ seq' = Last(lines).seq
    <3>1. lines # << >> => Last(lines).kind = "record"
      BY <1>9, <2>5 DEF Verifies
    <3> QED
      BY <1>1, <1>3, <3>1 DEF LastSeq
  <2>9. lines = << >> => prev' = GENESIS /\ seq' = 0
    BY <1>1, <1>3
  <2> QED
    BY <1>0, <2>2, <2>3, <2>6, <2>7, <2>8, <2>9 DEF ChainInv
<1> QED
  BY <1>11, <1>12, <1>13, <1>14, <1>15 DEF FileInv

-----------------------------------------------------------------------------
(* The invariant and what follows from it.                                 *)

LEMMA InitFileInv == Init => FileInv
<1> USE Numbers
<1> SUFFICES ASSUME Init PROVE FileInv
  OBVIOUS
<1>0. EmptyFile \in Files /\ EmptyFile.lines = << >> /\ EmptyFile.newline /\ Len(<< >>) = 0
      /\ << >> \o << >> = << >> /\ << >> \in Seq(Lines)
  BY DEF EmptyFile, Files
<1>1. EmptyFile # Missing
  BY <1>0, MissingAssumption
<1>2. \A g \in 0..Generations : FileAt(g) = << >>
  BY <1>0, <1>1 DEF Init, FileAt, LinesOf
<1>3. TypeOK
  <2>1. GENESIS \in Hashes
    BY DEF GENESIS, Hashes
  <2>2. 0 \in 0..MaxLines /\ 0 \in 0..BATCH /\ 0 \in 0..Generations /\ 0 \in 0..MaxLives
    OBVIOUS
  <2>3. gens \in [1..Generations -> Files \cup {Missing}]
    BY DEF Init
  <2> QED
    BY <1>0, <2>1, <2>2, <2>3 DEF Init, TypeOK
<1>4. CountInv /\ RotateInv
  BY <1>0, <1>1, <1>2 DEF Init, CountInv, RotateInv
<1>5. MarkInv
  <2> DEFINE zero == [m \in 0..MaxLives |-> 0]
  <2>1. zero \in [0..MaxLives -> 0..MaxLines] /\ zero[0] = 0
    OBVIOUS
  <2> HIDE DEF zero
  <2>2. prev[2] <= zero[life] /\ zero[life] <= composed
    BY <2>1 DEF Init, GENESIS
  <2>3. AllCarry(MarkedBy(zero))
    <3>1. \A S : Carries(<< >>, S)
      BY <1>0 DEF Carries
    <3> QED
      BY <1>2, <3>1 DEF Init, AllCarry
  <2> QED
    BY <2>1, <2>2, <2>3 DEF MarkInv
<1>6. ChainInv
  <2>1. Written = << >> /\ \A g \in 0..Generations : Chain(g) = << >>
    BY <1>0, <1>2 DEF Init, Written, Chain
  <2>2. Verifies(<< >>) /\ Linked(<< >>, << >>)
    BY <1>0 DEF Verifies, Linked
  <2> QED
    BY <1>0, <1>1, <2>1, <2>2 DEF Init, ChainInv
<1> QED
  BY <1>3, <1>4, <1>5, <1>6 DEF FileInv

LEMMA StepFileInv == FileInv /\ [Next]_vars => FileInv'
<1> SUFFICES ASSUME FileInv, [Next]_vars PROVE FileInv'
  OBVIOUS
<1>1. CASE (\E n \in 1..BATCH : StartBatch(n)) \/ FlushFails \/ LinesSpent \/ UNCHANGED vars
  BY <1>1, QuietKeeps
<1>2. CASE WriteRecord
  BY <1>2, RecordKeeps
<1>3. CASE WriteFails
  BY <1>3, FailedWriteKeeps
<1>4. CASE EndBatch
  BY <1>4, FlushKeeps
<1>5. CASE Rotate
  <2>1. CASE BeginRotate
    BY <2>1, FlushKeeps
  <2>2. CASE ShiftGeneration
    BY <2>2, ShiftKeeps
  <2>3. CASE RenameActive
    BY <2>3, RenameKeeps
  <2>4. CASE OpenNew
    BY <2>4, OpenKeeps
  <2>5. CASE RenameFails \/ OpenFails
    BY <2>5, QuietKeeps
  <2> QED
    BY <1>5, <2>1, <2>2, <2>3, <2>4, <2>5 DEF Rotate
<1>6. CASE \E n \in 0..Len(buf) : \E tail \in {"none", "torn", "record"} : CrashAndReopen(n, tail)
  BY <1>6, CrashKeeps
<1> QED
  BY <1>1, <1>2, <1>3, <1>4, <1>5, <1>6 DEF Next

\* Every reachable state of files, buffer and writer satisfies the invariant.
THEOREM FileInvariant == Spec => []FileInv
<1>1. Init => FileInv
  BY InitFileInv
<1>2. FileInv /\ [Next]_vars => FileInv'
  BY StepFileInv
<1> QED
  BY <1>1, <1>2, PTL DEF Spec

\* Until a write fails or a line is torn, every file verifies by itself and
\* names the last line of the file before it, or begins a new chain: wherever
\* a crash stops the buffer or a rotation, and however often.
THEOREM ChainAlwaysHolds == Spec => []ChainHolds
<1>1. FileInv => ChainHolds
  <2> SUFFICES ASSUME FileInv, ~ damage PROVE EveryFileVerifies /\ LinksAcrossFiles
    BY DEF ChainHolds, FileInv
  <2> USE Numbers
  <2>1. ChainInv
    BY DEF FileInv
  <2>2. /\ FileAt(0) \in Seq(Lines) /\ Written \in Seq(Lines) /\ buf \in Seq(Lines)
        /\ Len(Written) = Len(FileAt(0)) + Len(buf) /\ Len(buf) \in Nat /\ Len(FileAt(0)) \in Nat
    BY FileTypes DEF FileInv
  <2>3. Len(FileAt(0)) <= Len(Written) /\ \A i \in 1..Len(FileAt(0)) : FileAt(0)[i] = Written[i]
    BY <2>2 DEF Written
  <2>4. Verifies(FileAt(0)) /\ Linked(FileAt(0), FileAt(1))
    <3>1. Verifies(Written) /\ Linked(Written, FileAt(1))
      BY <2>1 DEF ChainInv, Chain
    <3> QED
      BY <2>2, <2>3, <3>1, ChainPrefix
  <2>5. \A g \in 1..Generations : Chain(g) = FileAt(g) /\ Verifies(FileAt(g))
    BY <2>1 DEF ChainInv, Chain
  <2>6. ASSUME NEW g \in 1..Generations - 1 PROVE Linked(FileAt(g), FileAt(g + 1))
    <3>1. Chain(g) = FileAt(g) /\ Chain(g + 1) = FileAt(g + 1)
      BY <2>5
    <3> QED
      BY <2>1, <3>1 DEF ChainInv
  <2>7. EveryFileVerifies
    BY <2>4, <2>5 DEF EveryFileVerifies
  <2>8. LinksAcrossFiles
    BY <2>4, <2>6 DEF LinksAcrossFiles
  <2> QED
    BY <2>7, <2>8
<1> QED
  BY <1>1, FileInvariant, PTL

\* In a file that verifies, two neighbouring lines of one life were composed
\* one right after the other: a write that failed between them shows.
THEOREM LostRecordsShow == Spec => []ErrorsLeaveAMark
<1>1. FileInv => ErrorsLeaveAMark
  <2> SUFFICES ASSUME FileInv, NEW g \in 0..Generations, Verifies(FileAt(g)),
                      NEW i \in 1..Len(FileAt(g)) - 1,
                      FileAt(g)[i].life = FileAt(g)[i + 1].life
               PROVE  FileAt(g)[i + 1].id = FileAt(g)[i].id + 1
    BY DEF ErrorsLeaveAMark
  <2>1. PICK start \in [0..MaxLives -> 0..MaxLines] : AllCarry(MarkedBy(start))
    BY DEF FileInv, MarkInv
  <2>2. FileAt(g) \in Seq(Lines) /\ Len(FileAt(g)) \in Nat
    BY FileTypes DEF FileInv
  <2>3. i \in 1..Len(FileAt(g)) /\ i + 1 \in 1..Len(FileAt(g))
    BY <2>2
  <2>4. PICK a \in Lines : a = FileAt(g)[i]
    BY <2>2, <2>3
  <2>5. PICK b \in Lines : b = FileAt(g)[i + 1]
    BY <2>2, <2>3
  <2>6. Stamp(a) \in MarkedBy(start) /\ Stamp(b) \in MarkedBy(start)
    BY <2>1, <2>3, <2>4, <2>5 DEF AllCarry, Carries
  <2>7. /\ start[a.life] < a.id
        /\ b.prev = <<"record", b.id - 1>> \/ b.prev[2] <= start[b.life]
    BY <2>6, StampType DEF MarkedBy
  <2>8. b.prev = <<a.kind, a.id>>
    BY <2>4, <2>5 DEF Verifies, line_hash
  <2>9. /\ a.id \in Nat /\ b.id \in Nat /\ a.life \in 0..MaxLives /\ a.life = b.life
        /\ start[a.life] \in Nat
    BY <2>4, <2>5, Numbers DEF Lines
  <2>10. a.id = b.id - 1
    BY <2>7, <2>8, <2>9
  <2> QED
    BY <2>4, <2>5, <2>9, <2>10
<1> QED
  BY <1>1, FileInvariant, PTL
=============================================================================
