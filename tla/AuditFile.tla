------------------------------ MODULE AuditFile ------------------------------
(***************************************************************************)
(* audit/file.rs: write_batch, rotate and WriterState::open, with          *)
(* last_line_meta; audit/mod.rs: verify_chain_str.  The writer thread puts *)
(* one batch after another through a BufWriter into audit.jsonl, rotates   *)
(* it through N generations and, after a crash at any point, resumes the   *)
(* hash chain and the numbering from the last line it finds.               *)
(*                                                                         *)
(* A line is its chain fields; its hash is its identity (two lines are     *)
(* never equal: BLAKE3 collisions are left out).  A line counts as one     *)
(* byte of max_bytes.  Of a line that reached the file without its newline *)
(* nothing is lost, but the next line is glued to it.                      *)
(***************************************************************************)
EXTENDS Naturals, Sequences, SequencesExt, FiniteSets

CONSTANTS
    MaxBytes,    \* cfg.audit.max_bytes
    Generations, \* cfg.audit.generations, at least 1
    BATCH,       \* events per write_batch
    MaxLines,    \* bound: lines composed in one behaviour
    MaxLives,    \* bound: restarts in one behaviour
    Faults,      \* which of "write", "rotate" and "tear" may happen
    Missing      \* a file that is not there

ASSUME FileAssumption ==
    /\ MaxBytes \in Nat \ {0} /\ Generations \in Nat \ {0} /\ BATCH \in Nat \ {0}
    /\ MaxLines \in Nat /\ MaxLives \in Nat
    /\ Faults \subseteq {"write", "rotate", "tear"}

Hashes  == {"genesis", "record", "torn", "glued"} \X (0..MaxLines)
GENESIS == <<"genesis", 0>>

Lines == [kind : {"record", "torn", "glued"}, id : 1..MaxLines, seq : 0..MaxLines,
          prev : Hashes, life : 0..MaxLives]

line_hash(line) == <<line.kind, line.id>>

\* Lines, and whether the last of them ends in a newline.
Files     == [lines : Seq(Lines), newline : BOOLEAN]
EmptyFile == [lines |-> << >>, newline |-> TRUE]

ASSUME MissingAssumption == Missing \notin Files

VARIABLES
    active,   \* audit.jsonl
    gens,     \* audit.jsonl.1 .. audit.jsonl.N
    buf,      \* what the BufWriter has not handed to the kernel
    bytes, seq, prev, \* WriterState
    pc,       \* where write_batch is
    todo,     \* events left in the batch
    shift,    \* the generation that `rotate` handles next
    composed, \* history: lines composed so far
    life,     \* history: restarts so far
    durable,  \* history: the last line that was flushed
    damage    \* history: has a write failed or a line been torn?

vars == <<active, gens, buf, bytes, seq, prev, pc, todo, shift, composed, life, durable, damage>>
files == <<active, gens>>
chain == <<bytes, seq, prev>>
history == <<composed, life, durable, damage>>

TypeOK ==
    /\ active \in Files \cup {Missing}
    /\ gens \in [1..Generations -> Files \cup {Missing}]
    /\ buf \in Seq(Lines)
    /\ bytes \in 0..MaxLines /\ seq \in 0..MaxLines /\ prev \in Hashes
    /\ pc \in {"idle", "record", "shift", "open"}
    /\ todo \in 0..BATCH
    /\ shift \in 0..Generations
    /\ composed \in 0..MaxLines /\ life \in 0..MaxLives /\ durable \in 0..MaxLines
    /\ damage \in BOOLEAN

-----------------------------------------------------------------------------
(* Appending to a file and reading it back.                                *)

\* A line after a missing newline is one line with what precedes it.
AppendLine(f, line) ==
    IF f.newline
    THEN [f EXCEPT !.lines = Append(@, line)]
    ELSE [lines |-> Append(Front(f.lines), [line EXCEPT !.kind = "glued"]), newline |-> TRUE]

\* What a flush leaves in the file.  Nothing is buffered while it is missing.
Flushed(f, ls) ==
    IF f = Missing \/ ls = << >> THEN f
    ELSE [AppendLine(f, Head(ls)) EXCEPT !.lines = @ \o Tail(ls)]

LastId(ls) == IF ls = << >> THEN durable ELSE Last(ls).id

\* A slip: the number is not resumed.
LastSeqForgotten(f) == 0

\* last_line_meta: a line that is no JSON counts as number 0.
LastSeq(f) == IF Last(f.lines).kind = "record" THEN Last(f.lines).seq ELSE 0

\* verify_chain_str on the lines of one file.
Verifies(ls) ==
    /\ \A i \in 1..Len(ls) : ls[i].kind = "record"
    /\ \A i \in 1..Len(ls) - 1 :
        /\ ls[i + 1].seq = ls[i].seq + 1
        /\ ls[i + 1].prev = line_hash(ls[i])

-----------------------------------------------------------------------------
(* WriterState::open.                                                      *)

Resume(f) ==
    IF f = Missing \/ f = EmptyFile
    THEN bytes' = 0 /\ seq' = 0 /\ prev' = GENESIS
    ELSE bytes' = Len(f.lines) /\ seq' = LastSeq(f) /\ prev' = line_hash(Last(f.lines))

Init ==
    /\ active = EmptyFile
    /\ gens = [g \in 1..Generations |-> Missing]
    /\ buf = << >> /\ bytes = 0 /\ seq = 0 /\ prev = GENESIS
    /\ pc = "idle" /\ todo = 0 /\ shift = 0
    /\ composed = 0 /\ life = 0 /\ durable = 0 /\ damage = FALSE

\* The process ends with n buffered lines on disk; of the line after them a
\* part may be there too, or all of it but the newline.
Remains(n, tail) ==
    LET f == Flushed(active, SubSeq(buf, 1, n))
    IN  IF tail = "none"
        THEN f
        ELSE [AppendLine(f, [buf[n + 1] EXCEPT !.kind = tail]) EXCEPT !.newline = FALSE]

CrashAndReopen(n, tail) ==
    /\ life < MaxLives
    /\ tail # "none" => "tear" \in Faults /\ n < Len(buf)
    /\ LET f == Remains(n, tail)
       IN  /\ active' = IF f = Missing THEN EmptyFile ELSE f
           /\ Resume(f)
           /\ durable' = LastId(SubSeq(buf, 1, n))
    /\ buf' = << >> /\ pc' = "idle" /\ todo' = 0 /\ shift' = 0
    /\ life' = life + 1
    /\ damage' = (damage \/ tail # "none")
    /\ UNCHANGED <<gens, composed>>

-----------------------------------------------------------------------------
(* write_batch.                                                            *)

StartBatch(n) ==
    /\ pc = "idle" /\ composed < MaxLines
    /\ pc' = "record" /\ todo' = n
    /\ UNCHANGED <<files, buf, chain, shift, history>>

\* An error ends write_batch; the events still in the batch are dropped.
Abandon == pc' = "idle" /\ todo' = 0

\* The number and the hash are consumed before the line is written.
Compose ==
    /\ composed < MaxLines
    /\ composed' = composed + 1
    /\ seq' = seq + 1
    /\ prev' = <<"record", composed'>>

NewLine ==
    [kind |-> "record", id |-> composed + 1, seq |-> seq + 1, prev |-> prev, life |-> life]

WriteRecord ==
    /\ pc = "record" /\ todo > 0 /\ bytes < MaxBytes
    /\ Compose
    /\ buf' = Append(buf, NewLine)
    /\ bytes' = bytes + 1
    /\ todo' = todo - 1
    /\ UNCHANGED <<files, pc, shift, life, durable, damage>>

\* A slip: number and hash are taken back when the line is lost.
WriteFailsRollsBack ==
    /\ "write" \in Faults
    /\ pc = "record" /\ todo > 0 /\ bytes < MaxBytes
    /\ composed < MaxLines /\ composed' = composed + 1
    /\ Abandon
    /\ damage' = TRUE
    /\ UNCHANGED <<files, buf, chain, shift, life, durable>>

\* write_all has to make room in the BufWriter and cannot.
WriteFails ==
    /\ "write" \in Faults
    /\ pc = "record" /\ todo > 0 /\ bytes < MaxBytes
    /\ Compose
    /\ Abandon
    /\ damage' = TRUE
    /\ UNCHANGED <<files, buf, bytes, shift, life, durable>>

FlushBuf ==
    /\ active' = Flushed(active, buf)
    /\ durable' = LastId(buf)
    /\ buf' = << >>

EndBatch ==
    /\ pc = "record" /\ todo = 0
    /\ FlushBuf
    /\ pc' = "idle"
    /\ UNCHANGED <<gens, chain, todo, shift, composed, life, damage>>

\* The last flush fails: the lines stay buffered for the next one.
FlushFails ==
    /\ "write" \in Faults
    /\ pc = "record" /\ (todo = 0 \/ bytes >= MaxBytes)
    /\ Abandon
    /\ UNCHANGED <<files, buf, chain, shift, history>>

-----------------------------------------------------------------------------
(* rotate, between two records.                                            *)

BeginRotate ==
    /\ pc = "record" /\ todo > 0 /\ bytes >= MaxBytes
    /\ FlushBuf
    /\ pc' = "shift" /\ shift' = Generations
    /\ UNCHANGED <<gens, chain, todo, composed, life, damage>>

\* Delete the oldest generation, then rename n to n + 1 from old to new; a
\* rename of a generation that is not there changes nothing.
ShiftGeneration ==
    /\ pc = "shift" /\ shift > 0
    /\ gens' = IF shift = Generations
               THEN [gens EXCEPT ![shift] = Missing]
               ELSE [gens EXCEPT ![shift] = Missing,
                                 ![shift + 1] = IF gens[shift] = Missing THEN @ ELSE gens[shift]]
    /\ shift' = shift - 1
    /\ UNCHANGED <<active, buf, chain, pc, todo, history>>

RenameActive ==
    /\ pc = "shift" /\ shift = 0
    /\ active # Missing
    /\ gens' = [gens EXCEPT ![1] = active]
    /\ active' = Missing
    /\ pc' = "open"
    /\ UNCHANGED <<buf, chain, todo, shift, history>>

\* audit.jsonl is not there (an earlier rotation could not open it) or the
\* rename itself fails.
RenameFails ==
    /\ pc = "shift" /\ shift = 0
    /\ active = Missing \/ "rotate" \in Faults
    /\ Abandon
    /\ UNCHANGED <<files, buf, chain, shift, history>>

\* open_0600 on the new file; `prev` and `seq` are carried over.
OpenNew ==
    /\ pc = "open"
    /\ active' = EmptyFile
    /\ bytes' = 0
    /\ pc' = "record"
    /\ UNCHANGED <<gens, buf, seq, prev, todo, shift, history>>

OpenFails ==
    /\ "rotate" \in Faults
    /\ pc = "open"
    /\ Abandon
    /\ UNCHANGED <<files, buf, chain, shift, history>>

Rotate == BeginRotate \/ ShiftGeneration \/ RenameActive \/ RenameFails \/ OpenNew \/ OpenFails

-----------------------------------------------------------------------------
\* The bound on lines is spent: the model, not the writer, stops here.
LinesSpent == composed = MaxLines /\ UNCHANGED vars

Next ==
    \/ \E n \in 1..BATCH : StartBatch(n)
    \/ WriteRecord \/ WriteFails \/ EndBatch \/ FlushFails
    \/ Rotate
    \/ \E n \in 0..Len(buf) : \E tail \in {"none", "torn", "record"} : CrashAndReopen(n, tail)
    \/ LinesSpent

Spec == Init /\ [][Next]_vars

-----------------------------------------------------------------------------
(* Properties.                                                             *)

LinesOf(f)  == IF f = Missing THEN << >> ELSE f.lines
Ids(f)      == {line.id : line \in ToSet(LinesOf(f))}
OnDisk      == Ids(active) \cup UNION {Ids(gens[g]) : g \in 1..Generations}

\* The files from the newest to the oldest: 0 is audit.jsonl.
FileAt(g) == LinesOf(IF g = 0 THEN active ELSE gens[g])

\* "verify_chain accepts each file standalone" (audit/file.rs:199).
EveryFileVerifies == \A g \in 0..Generations : Verifies(FileAt(g))

\* "the cross-file link is recorded" (audit/file.rs:200): the first record of
\* a file names the last line of the file before it, unless a restart on an
\* empty file began a new chain, with number 1.
Linked(ls, before) ==
    ls # << >> /\ before # << >> =>
        \/ Head(ls).prev = line_hash(Last(before))
        \/ Head(ls).prev = GENESIS /\ Head(ls).seq = 1

LinksAcrossFiles == \A g \in 0..Generations - 1 : Linked(FileAt(g), FileAt(g + 1))

\* The chain holds within the files and from file to file, whatever crashes
\* and rotations do and wherever they stop, until a write fails or a line is
\* torn.
ChainHolds == TypeOK /\ (~ damage => EveryFileVerifies /\ LinksAcrossFiles)

\* A failed write cannot hide: two neighbours in a file that verifies, written
\* by one run of the daemon, have no lost record between them.
ErrorsLeaveAMark ==
    \A g \in 0..Generations :
        Verifies(FileAt(g)) =>
            \A i \in 1..Len(FileAt(g)) - 1 :
                LET a == FileAt(g)[i]
                    b == FileAt(g)[i + 1]
                IN  a.life = b.life => b.id = a.id + 1

\* "a rotation never splits or loses a line" (audit/file.rs:197): the last
\* line that was flushed is still in one of the files.
NewestKept == durable # 0 => durable \in OnDisk
=============================================================================
