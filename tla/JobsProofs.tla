----------------------------- MODULE JobsProofs -----------------------------
(***************************************************************************)
(* Proofs about Jobs: the slot keeps package managers apart and the events *)
(* of two jobs never interleave, and a job's status can be trusted, for    *)
(* every number of callers and jobs and every capacity of the table of     *)
(* ended jobs.                                                             *)
(***************************************************************************)
EXTENDS Jobs, FiniteSetTheorems, SequenceTheorems, TLAPS

\* A call that holds the slot and has not spawned its task.
Early(c) == pc[c] \in {"slot", "announced"}

\* States of a task that holds the slot.
Live == {"running", "audited", "sent", "panicked"}

\* The slot belongs to one job, which is either still in the hands of the one
\* call that took it, or of its task.
SlotInv ==
    /\ started \in 0..MaxJobs /\ running \in 0..started
    /\ pc \in [Clients -> {"idle", "slot", "announced", "spawned"}]
    /\ mine \in [Clients -> JobIds \cup {NoJob}]
    /\ task \in [JobIds -> {"none", "done"} \cup Live]
    /\ \A j \in JobIds : task[j] \in Live => running = j
    /\ \A j \in JobIds : j > started => task[j] = "none"
    /\ \A c \in Clients : Early(c) => mine[c] = running /\ running # NoJob /\ task[running] = "none"
    /\ \A c, d \in Clients : Early(c) /\ Early(d) => c = d

\* The job in the slot was announced and its end was not.
Announced ==
    /\ running # NoJob
    /\ task[running] \in {"running", "audited", "panicked"} \/ \E c \in Clients : pc[c] = "announced"

\* The last announcement is the start of the job in the slot, or an end.
SentInv ==
    /\ result \in [JobIds -> Results]
    /\ sent \in Seq([id : JobIds, state : Results \cup {"running"}])
    /\ EventsNested
    /\ Announced => sent # << >> /\ sent[Len(sent)] = Status(running, "running")
    /\ ~ Announced /\ sent # << >> => sent[Len(sent)].state # "running"

-----------------------------------------------------------------------------
(* The slot.                                                               *)

LEMMA SlotStep == SlotInv /\ [Next]_vars => SlotInv'
<1> SUFFICES ASSUME SlotInv, [Next]_vars PROVE SlotInv'
  OBVIOUS
<1> USE JobsAssumption DEF SlotInv, Early, Live, JobIds, NoJob
<1>1. CASE \E c \in Clients, p \in Packages : Reject(c, p) \/ Busy(c, p)
  BY <1>1 DEF Reject, Busy
<1>2. ASSUME NEW c \in Clients, TakeSlot(c) PROVE SlotInv'
  <2>1. \A d \in Clients : pc[d] \notin {"slot", "announced"}
    BY <1>2 DEF TakeSlot
  <2>2. started' \in JobIds /\ task[started'] = "none"
    BY <1>2 DEF TakeSlot
  <2> QED
    BY <1>2, <2>1, <2>2 DEF TakeSlot
<1>3. ASSUME NEW c \in Clients, AnnounceRunning(c) PROVE SlotInv'
  BY <1>3 DEF AnnounceRunning
<1>4. ASSUME NEW c \in Clients, Spawn(c) PROVE SlotInv'
  <2>1. mine[c] = running /\ running \in JobIds /\ running <= started
    BY <1>4 DEF Spawn
  <2>2. \A d \in Clients : pc'[d] \notin {"slot", "announced"}
    BY <1>4 DEF Spawn
  <2>3. \A j \in JobIds : task'[j] \in Live => j = running
    BY <1>4, <2>1 DEF Spawn
  <2> QED
    BY <1>4, <2>1, <2>2, <2>3 DEF Spawn
<1>5. ASSUME NEW c \in Clients, EmitAccepted(c) PROVE SlotInv'
  BY <1>5 DEF EmitAccepted
<1>6. ASSUME NEW j \in JobIds, Finish(j) \/ Panic(j) \/ AnnounceTerminal(j) PROVE SlotInv'
  <2>1. running = j /\ j <= started
    BY <1>6 DEF Finish, Panic, AnnounceTerminal
  <2>2. task[j] # "none" /\ UNCHANGED <<running, started, pc, mine>>
    BY <1>6 DEF Finish, Panic, AnnounceTerminal
  <2>3. PICK to \in {"audited", "panicked", "sent"} : task' = [task EXCEPT ![j] = to]
    BY <1>6 DEF Finish, Panic, AnnounceTerminal
  <2> QED
    BY <2>1, <2>2, <2>3
<1>7. ASSUME NEW j \in JobIds, StoreTerminal(j) PROVE SlotInv'
  <2>1. running = j /\ task[j] # "none"
    BY <1>7 DEF StoreTerminal
  <2>2. \A c \in Clients : pc[c] \notin {"slot", "announced"}
    BY <2>1
  <2>3. \A i \in JobIds : task'[i] \notin Live
    BY <1>7, <2>1 DEF StoreTerminal
  <2> QED
    BY <1>7, <2>1, <2>2, <2>3 DEF StoreTerminal
<1>8. CASE UNCHANGED vars
  BY <1>8 DEF vars
<1> QED
  BY <1>1, <1>2, <1>3, <1>4, <1>5, <1>6, <1>7, <1>8 DEF Next, Call, Task

\* The job in the slot is the one whose task is alive or has panicked, and the
\* tasks of other jobs have ended (api/jobs.rs try_start).
THEOREM SlotInvariant == Spec => []SlotInv
<1>1. Init => SlotInv
  BY JobsAssumption DEF Init, SlotInv, Early, Live, JobIds, NoJob
<1> QED
  BY <1>1, SlotStep, PTL DEF Spec

\* Whatever the callers do and however jobs end, two package managers never
\* run at once (api/jobs.rs try_start, store_terminal).
THEOREM OnePackageManager == Spec => []OneAtATime
<1>1. SlotInv => OneAtATime
  <2> SUFFICES ASSUME SlotInv PROVE OneAtATime
    OBVIOUS
  <2> DEFINE S == {j \in JobIds : task[j] \in {"running", "audited", "sent"}}
  <2>1. S \subseteq {running}
    BY DEF SlotInv, Live
  <2>2. IsFiniteSet({running}) /\ Cardinality({running}) = 1
    BY FS_Singleton
  <2>3. Cardinality(S) <= 1
    BY <2>1, <2>2, FS_Subset
  <2> QED
    BY <2>3 DEF OneAtATime
<1> QED
  BY <1>1, SlotInvariant, PTL

-----------------------------------------------------------------------------
(* The events.                                                             *)

LEMMA SentStep == SlotInv /\ SentInv /\ [Next]_vars => SentInv'
<1> SUFFICES ASSUME SlotInv, SentInv, [Next]_vars PROVE SentInv'
  OBVIOUS
<1> USE JobsAssumption DEF NoJob
<1> DEFINE Event == [id : JobIds, state : Results \cup {"running"}]
<1>0. ASSUME NEW c \in Clients, Early(c)
      PROVE  /\ mine[c] = running /\ running \in JobIds /\ task[running] = "none"
             /\ \A d \in Clients : pc[d] = "announced" => d = c
  BY <1>0 DEF SlotInv, Early, JobIds
<1>1. ASSUME UNCHANGED <<sent, result>>, Announced' <=> Announced, Announced => running' = running
      PROVE  SentInv'
  BY <1>1 DEF SentInv, EventsNested, Status
<1>2. CASE \E c \in Clients, p \in Packages : Reject(c, p) \/ Busy(c, p)
  <2>1. UNCHANGED <<sent, result, running, task, pc>>
    BY <1>2 DEF Reject, Busy
  <2> QED
    BY <1>1, <2>1 DEF Announced
<1>3. ASSUME NEW c \in Clients, TakeSlot(c) PROVE SentInv'
  <2>1. ~ Announced
    BY <1>3 DEF TakeSlot, Announced
  <2>2. \A d \in Clients : pc[d] # "announced"
    BY <1>3 DEF TakeSlot, SlotInv, Early
  <2>3. running' = started + 1 /\ task[started + 1] = "none"
    BY <1>3 DEF TakeSlot, SlotInv, JobIds
  <2>4. ~ Announced'
    BY <1>3, <2>2, <2>3 DEF TakeSlot, Announced, SlotInv
  <2> QED
    BY <1>1, <1>3, <2>1, <2>4 DEF TakeSlot
<1>4. ASSUME NEW c \in Clients, AnnounceRunning(c) PROVE SentInv'
  <2>0. pc[c] = "slot" /\ pc' = [pc EXCEPT ![c] = "announced"] /\ UNCHANGED <<running, result>>
    BY <1>4 DEF AnnounceRunning
  <2>1. mine[c] = running /\ running \in JobIds /\ ~ Announced
    BY <1>0, <2>0 DEF Early, Announced
  <2>2. Announced' /\ UNCHANGED <<running, result>>
    <3>1. pc'[c] = "announced" /\ running' # NoJob
      BY <2>0, <2>1 DEF SlotInv, JobIds
    <3> QED
      BY <2>0, <3>1 DEF Announced
  <2> DEFINE e == Status(running, "running")
  <2>3. e \in Event /\ sent' = Append(sent, e) /\ e.state = "running"
    BY <1>4, <2>1 DEF AnnounceRunning, Status
  <2>4. sent' \in Seq(Event) /\ Len(sent') = Len(sent) + 1 /\ sent'[Len(sent')] = e
    BY <2>3 DEF SentInv
  <2>5. \A i \in 1..Len(sent) : sent'[i] = sent[i]
    BY <2>3 DEF SentInv
  <2>6. sent # << >> => sent[Len(sent)].state # "running"
    BY <2>1 DEF SentInv
  <2>7. EventsNested'
    <3> SUFFICES ASSUME NEW i \in 1..Len(sent')
                 PROVE  IF sent'[i].state = "running"
                        THEN i < Len(sent') =>
                                sent'[i + 1] = Status(sent'[i].id, result'[sent'[i].id])
                        ELSE i > 1 /\ sent'[i - 1] = Status(sent'[i].id, "running")
      BY DEF EventsNested, Status
    <3>1. CASE i = Len(sent')
      BY <3>1, <2>3, <2>4
    <3>2. CASE i \in 1..Len(sent)
      <4>1. i < Len(sent) => i + 1 \in 1..Len(sent)
        BY <3>2 DEF SentInv
      <4>2. i > 1 => i - 1 \in 1..Len(sent)
        BY <3>2 DEF SentInv
      <4>3. sent[i].state = "running" => i < Len(sent)
        BY <3>2, <2>6 DEF SentInv
      <4> QED
        BY <3>2, <4>1, <4>2, <4>3, <2>2, <2>5 DEF SentInv, EventsNested
    <3> QED
      BY <3>1, <3>2, <2>4 DEF SentInv
  <2> QED
    BY <2>2, <2>4, <2>7 DEF SentInv, Status
<1>5. ASSUME NEW c \in Clients, Spawn(c) PROVE SentInv'
  <2>1. mine[c] = running /\ running \in JobIds
    BY <1>0, <1>5 DEF Spawn, Early
  <2>2. Announced /\ Announced'
    BY <1>5, <2>1 DEF Spawn, Announced, SlotInv, JobIds
  <2> QED
    BY <1>1, <1>5, <2>2 DEF Spawn
<1>6. ASSUME NEW c \in Clients, EmitAccepted(c) PROVE SentInv'
  <2>1. \A d \in Clients : pc'[d] = "announced" <=> pc[d] = "announced"
    BY <1>6 DEF EmitAccepted, SlotInv
  <2>2. Announced' <=> Announced
    BY <1>6, <2>1 DEF EmitAccepted, Announced
  <2> QED
    BY <1>1, <1>6, <2>2 DEF EmitAccepted
<1>7. ASSUME NEW j \in JobIds, Finish(j) \/ Panic(j) PROVE SentInv'
  <2>1. running = j /\ task[j] = "running" /\ task'[j] \in {"audited", "panicked"}
    BY <1>7 DEF Finish, Panic, SlotInv, Live
  <2>2. UNCHANGED <<sent, result, running, pc>>
    BY <1>7 DEF Finish, Panic
  <2>3. Announced /\ Announced'
    BY <2>1, <2>2 DEF Announced, JobIds
  <2> QED
    BY <1>1, <2>2, <2>3
<1>8. ASSUME NEW j \in JobIds, AnnounceTerminal(j) PROVE SentInv'
  <2>1. running = j /\ task[j] = "audited" /\ UNCHANGED <<running, pc, result>>
    BY <1>8 DEF AnnounceTerminal, SlotInv, Live
  <2>2. Announced /\ \A c \in Clients : pc[c] # "announced"
    BY <1>0, <2>1 DEF Announced, Early, JobIds
  <2>3. task'[j] = "sent"
    BY <1>8 DEF AnnounceTerminal, SlotInv
  <2>4. ~ Announced'
    BY <2>1, <2>2, <2>3 DEF Announced
  <2> DEFINE e == Status(j, result[j])
  <2>5. e \in Event /\ e.state # "running" /\ e.id = j /\ sent' = Append(sent, e)
    BY <1>8 DEF AnnounceTerminal, Status, SentInv, Results
  <2>6. sent' \in Seq(Event) /\ Len(sent') = Len(sent) + 1 /\ sent'[Len(sent')] = e
    BY <2>5 DEF SentInv
  <2>7. \A i \in 1..Len(sent) : sent'[i] = sent[i]
    BY <2>5 DEF SentInv
  <2>8. Len(sent) \in Nat \ {0} /\ sent[Len(sent)] = Status(j, "running")
    BY <2>1, <2>2 DEF SentInv
  <2>9. EventsNested'
    <3> SUFFICES ASSUME NEW i \in 1..Len(sent')
                 PROVE  IF sent'[i].state = "running"
                        THEN i < Len(sent') =>
                                sent'[i + 1] = Status(sent'[i].id, result'[sent'[i].id])
                        ELSE i > 1 /\ sent'[i - 1] = Status(sent'[i].id, "running")
      BY DEF EventsNested, Status
    <3>1. CASE i = Len(sent')
      BY <3>1, <2>5, <2>6, <2>7, <2>8
    <3>2. CASE i = Len(sent)
      <4>1. sent'[i] = Status(j, "running") /\ sent'[i + 1] = e
        BY <3>2, <2>6, <2>7, <2>8
      <4> QED
        BY <4>1, <2>1 DEF Status
    <3>3. CASE i \in 1..Len(sent) - 1
      <4>1. i \in 1..Len(sent) /\ i + 1 \in 1..Len(sent) /\ (i > 1 => i - 1 \in 1..Len(sent))
        BY <3>3, <2>8
      <4> QED
        BY <3>3, <4>1, <2>1, <2>7 DEF SentInv, EventsNested
    <3> QED
      BY <3>1, <3>2, <3>3, <2>6, <2>8
  <2> QED
    BY <2>1, <2>4, <2>5, <2>6, <2>9 DEF SentInv
<1>9. ASSUME NEW j \in JobIds, StoreTerminal(j) PROVE SentInv'
  <2>1. running = j /\ task[j] = "sent"
    BY <1>9 DEF StoreTerminal, SlotInv, Live
  <2>2. ~ Announced
    BY <1>0, <2>1 DEF Announced, Early
  <2>3. ~ Announced'
    BY <1>9 DEF StoreTerminal, Announced
  <2>4. UNCHANGED <<sent, result>>
    BY <1>9 DEF StoreTerminal
  <2> QED
    BY <1>1, <2>2, <2>3, <2>4
<1>10. CASE UNCHANGED vars
  <2>1. UNCHANGED <<sent, result, running, task, pc>>
    BY <1>10 DEF vars
  <2> QED
    BY <1>1, <2>1 DEF Announced
<1> QED
  BY <1>2, <1>3, <1>4, <1>5, <1>6, <1>7, <1>8, <1>9, <1>10 DEF Next, Call, Task

\* A subscriber of the jobs topic reads every job as one interval, although
\* the end of a job is announced before its slot is free (api/jobs.rs).
THEOREM EventsNeverInterleave == Spec => []EventsNested
<1>1. Init => SentInv
  BY JobsAssumption DEF Init, SentInv, EventsNested, Announced, NoJob
<1>2. SentInv => EventsNested
  BY DEF SentInv
<1> QED
  BY <1>1, <1>2, SentStep, SlotInvariant, PTL DEF Spec

-----------------------------------------------------------------------------
(* The table of ended jobs.                                                *)

\* What the table of ended jobs, the trail and the announcements say of the
\* jobs: the table holds the last of the ended ones in their order, each
\* with its outcome.
TableInv ==
    /\ TypeOK
    /\ \A c \in Clients : pc[c] # "idle" => mine[c] \in JobIds
    /\ running \in {NoJob, started}
    /\ \A j \in 1..started : j # running => task[j] = "done"
    /\ \A j \in JobIds : task[j] = "done" => running # j
    /\ \A i \in 1..Len(recent) :
          task[recent[i].id] = "done" /\ recent[i].state = result[recent[i].id]
    /\ \A i, k \in 1..Len(recent) : i < k => recent[i].id < recent[k].id

\* An ended job that is not in the table is older than everything in it, and
\* the table is full.
EvictedInv ==
    \A j \in JobIds :
        task[j] = "done" /\ (\A i \in 1..Len(recent) : recent[i].id # j) =>
            /\ Len(recent) = RECENT_JOBS_CAPACITY
            /\ \A i \in 1..Len(recent) : recent[i].id > j

\* A job's outcome is recorded before it is announced, and announced before
\* it is in the table.
ToldInv ==
    \A j \in JobIds :
        /\ task[j] \in {"audited", "sent", "done"} => Outcome(j, result[j]) \in trail
        /\ task[j] \in {"sent", "done"} => Contains(sent, Status(j, result[j]))

StatusInv == TableInv /\ EvictedInv /\ ToldInv

\* A new announcement does not take one away.
LEMMA StillSent ==
    ASSUME TypeOK, NEW e, e \in [id : JobIds, state : Results \cup {"running"}],
           sent' = Append(sent, e)
    PROVE  /\ sent' \in Seq([id : JobIds, state : Results \cup {"running"}])
           /\ \A x : Contains(sent, x) => Contains(sent', x)
           /\ Contains(sent', e)
<1> DEFINE Events == [id : JobIds, state : Results \cup {"running"}]
<1>1. e \in Events /\ sent \in Seq(Events)
  BY DEF TypeOK
<1> HIDE DEF Events
<1>2. /\ sent' \in Seq(Events) /\ Len(sent) \in Nat /\ Len(sent') = Len(sent) + 1
      /\ \A i \in 1..Len(sent) : sent'[i] = sent[i]
      /\ sent'[Len(sent) + 1] = e
  BY <1>1, AppendProperties, LenProperties
<1>3. 1..Len(sent) \subseteq 1..Len(sent') /\ Len(sent) + 1 \in 1..Len(sent')
  BY <1>2
<1>4. ASSUME NEW x, Contains(sent, x) PROVE Contains(sent', x)
  BY <1>2, <1>3, <1>4 DEF Contains
<1>5. Contains(sent', e)
  BY <1>2, <1>3 DEF Contains
<1> QED
  BY <1>2, <1>4, <1>5 DEF Events

\* The entries of the table are of jobs.
LEMMA RecentTyped ==
    TypeOK => \A i \in 1..Len(recent) : recent[i].id \in JobIds /\ recent[i].state \in Results
<1> SUFFICES ASSUME TypeOK, NEW i \in 1..Len(recent) PROVE recent[i] \in [id : JobIds, state : Results]
  OBVIOUS
<1> DEFINE Entry == [id : JobIds, state : Results]
<1>1. recent \in Seq(Entry)
  BY DEF TypeOK
<1> HIDE DEF Entry
<1>2. recent[i] \in Entry
  BY <1>1, ElementOfSeq
<1> QED
  BY <1>2 DEF Entry

\* Steps that end no job keep the table and what is evicted from it.
LEMMA TableKept ==
    ASSUME StatusInv, SlotInv, TypeOK', UNCHANGED <<recent, package, result>>,
           running' \in {NoJob, started'}, started \in Nat, started' >= started,
           \A c \in Clients : pc'[c] # "idle" => mine'[c] \in JobIds,
           \A j \in JobIds : task'[j] = "done" <=> task[j] = "done",
           \A j \in started + 1..started' : j = running',
           \A j \in 1..started : j = running => j = running',
           \A j \in JobIds : j = running' => j = running \/ j > started
    PROVE  TableInv' /\ EvictedInv'
<1>1. \A j \in 1..started' : j # running' => task'[j] = "done"
  <2> SUFFICES ASSUME NEW j \in 1..started', j # running' PROVE task'[j] = "done"
    OBVIOUS
  <2>1. started' \in 0..MaxJobs /\ MaxJobs \in Nat
    BY JobsAssumption DEF TypeOK
  <2>2. j \in 1..started /\ j \in JobIds
    BY <2>1 DEF JobIds
  <2> QED
    BY <2>2 DEF StatusInv, TableInv
<1>2. \A j \in JobIds : task'[j] = "done" => running' # j
  <2> SUFFICES ASSUME NEW j \in JobIds, task[j] = "done" PROVE running' # j
    OBVIOUS
  <2>1. j # running /\ ~ (j > started)
    BY DEF StatusInv, TableInv, SlotInv
  <2> QED
    BY <2>1
<1>3. \A i \in 1..Len(recent) : recent[i].id \in JobIds
  BY RecentTyped DEF StatusInv, TableInv
<1>4. TableInv'
  BY <1>1, <1>2, <1>3 DEF StatusInv, TableInv
<1>5. EvictedInv'
  BY DEF StatusInv, EvictedInv
<1> QED
  BY <1>4, <1>5

\* store_terminal: the oldest entry makes room, and the job that ends is the
\* newest of all.
LEMMA StoreStep ==
    ASSUME StatusInv, SlotInv, SentInv, NEW j \in JobIds, StoreTerminal(j)
    PROVE  StatusInv'
<1> DEFINE Entry == [id : JobIds, state : Results]
           e     == Status(j, result[j])
           full  == Len(recent) >= RECENT_JOBS_CAPACITY
           d     == IF full THEN 1 ELSE 0
           base  == IF full THEN Tail(recent) ELSE recent
<1>1. /\ task[j] = "sent" /\ recent' = Append(base, e) /\ running' = NoJob
      /\ task' = [task EXCEPT ![j] = "done"]
      /\ UNCHANGED <<started, pc, mine, package, result, sent, trail>>
  BY DEF StoreTerminal
<1>2. TypeOK /\ MaxJobs \in Nat /\ RECENT_JOBS_CAPACITY \in Nat \ {0} /\ recent \in Seq(Entry)
      /\ Len(recent) \in Nat /\ Len(recent) <= RECENT_JOBS_CAPACITY /\ started \in 0..MaxJobs
  BY JobsAssumption, LenProperties DEF StatusInv, TableInv, TypeOK
<1>3. running = j /\ j = started
  BY <1>1 DEF SlotInv, Live, StatusInv, TableInv, JobIds, NoJob
<1>4. e \in Entry /\ e.id = j /\ e.state = result[j]
  BY DEF Status, SentInv
<1>5. /\ base \in Seq(Entry) /\ Len(base) = Len(recent) - d /\ Len(base) \in Nat
      /\ Len(base) < RECENT_JOBS_CAPACITY
      /\ \A i \in 1..Len(base) : i + d \in 1..Len(recent) /\ base[i] = recent[i + d]
  <2>1. CASE full
    <3>1. recent # << >>
      BY <1>2, <2>1, EmptySeq
    <3>2. /\ Tail(recent) \in Seq(Entry) /\ Len(Tail(recent)) = Len(recent) - 1
          /\ \A i \in 1..Len(Tail(recent)) : Tail(recent)[i] = recent[i + 1]
      BY <1>2, <3>1, HeadTailProperties
    <3> QED
      BY <1>2, <2>1, <3>2
  <2>2. CASE ~ full
    BY <1>2, <2>2
  <2> QED
    BY <2>1, <2>2
<1>6. d \in {0, 1} /\ (full <=> d = 1)
  OBVIOUS
<1> HIDE DEF e, d, base
<1>7. /\ recent' \in Seq(Entry) /\ Len(recent') = Len(base) + 1
      /\ \A i \in 1..Len(base) : recent'[i] = recent[i + d]
      /\ recent'[Len(base) + 1] = e
  BY <1>1, <1>4, <1>5, AppendProperties
<1>8. \A i \in 1..Len(recent') :
         i = Len(base) + 1 \/ (i \in 1..Len(base) /\ i + d \in 1..Len(recent))
  BY <1>5, <1>7
<1>9. \A k \in JobIds : /\ task'[k] = "done" <=> k = j \/ task[k] = "done"
                        /\ task[k] = "done" => k < j
  <2> SUFFICES ASSUME NEW k \in JobIds
               PROVE  /\ task'[k] = "done" <=> k = j \/ task[k] = "done"
                      /\ task[k] = "done" => k < j
    OBVIOUS
  <2>1. task'[k] = IF k = j THEN "done" ELSE task[k]
    BY <1>1, <1>2 DEF TypeOK
  <2>2. task[k] = "done" => ~ (k > started) /\ k # running
    BY DEF SlotInv, StatusInv, TableInv
  <2> QED
    BY <1>2, <1>3, <2>1, <2>2 DEF JobIds
<1>10. \A i \in 1..Len(recent) : recent[i].id \in JobIds /\ task[recent[i].id] = "done"
                                 /\ recent[i].state = result[recent[i].id]
  BY <1>2, RecentTyped DEF StatusInv, TableInv
<1>11. TypeOK'
  <2>1. Len(recent') <= RECENT_JOBS_CAPACITY
    BY <1>2, <1>5, <1>7
  <2>2. task' \in [JobIds -> {"none", "running", "audited", "sent", "done", "panicked"}]
    BY <1>1, <1>2 DEF TypeOK
  <2> QED
    BY <1>1, <1>2, <1>7, <2>1, <2>2 DEF TypeOK
<1>12. TableInv'
  <2>1. ASSUME NEW i \in 1..Len(recent')
        PROVE  task'[recent'[i].id] = "done" /\ recent'[i].state = result'[recent'[i].id]
               /\ recent'[i].id <= j
    <3>1. CASE i = Len(base) + 1
      BY <1>1, <1>2, <1>4, <1>7, <1>9, <3>1 DEF JobIds
    <3>2. CASE i \in 1..Len(base) /\ i + d \in 1..Len(recent)
      BY <1>1, <1>7, <1>9, <1>10, <3>2 DEF JobIds
    <3> QED
      BY <1>8, <3>1, <3>2
  <2>2. ASSUME NEW i \in 1..Len(recent'), NEW k \in 1..Len(recent'), i < k
        PROVE  recent'[i].id < recent'[k].id
    <3>1. i \in 1..Len(base) /\ i + d \in 1..Len(recent) /\ recent'[i] = recent[i + d]
      BY <2>2, <1>5, <1>7
    <3>2. CASE k = Len(base) + 1
      BY <1>4, <1>7, <1>9, <1>10, <3>1, <3>2
    <3>3. CASE k \in 1..Len(base) /\ k + d \in 1..Len(recent)
      <4>1. i + d < k + d
        BY <2>2, <1>6
      <4>2. recent[i + d].id < recent[k + d].id
        BY <3>1, <3>3, <4>1 DEF StatusInv, TableInv
      <4> QED
        BY <1>7, <3>1, <3>3, <4>2
    <3> QED
      BY <1>8, <3>2, <3>3
  <2>3. \A k \in 1..started' : k # running' => task'[k] = "done"
    <3> SUFFICES ASSUME NEW k \in 1..started PROVE task'[k] = "done"
      BY <1>1
    <3>1. k \in JobIds
      BY <1>2 DEF JobIds
    <3> QED
      BY <1>3, <1>9, <3>1 DEF StatusInv, TableInv
  <2>4. \A c \in Clients : pc'[c] # "idle" => mine'[c] \in JobIds
    BY <1>1 DEF StatusInv, TableInv
  <2>5. running' \in {NoJob, started'} /\ \A k \in JobIds : running' # k
    BY <1>1, <1>2 DEF JobIds, NoJob
  <2> QED
    BY <1>11, <2>1, <2>2, <2>3, <2>4, <2>5 DEF TableInv
<1>13. EvictedInv'
  <2> SUFFICES ASSUME NEW k \in JobIds, task'[k] = "done",
                      \A i \in 1..Len(recent') : recent'[i].id # k
               PROVE  /\ Len(recent') = RECENT_JOBS_CAPACITY
                      /\ \A i \in 1..Len(recent') : recent'[i].id > k
    BY DEF EvictedInv
  <2>1. Len(base) + 1 \in 1..Len(recent')
    BY <1>5, <1>7
  <2>2. k # j /\ task[k] = "done" /\ k < j
    BY <1>4, <1>7, <1>9, <2>1
  <2>3. full /\ \A i \in 1..Len(base) : recent[i + d].id > k
    <3>1. CASE \A i \in 1..Len(recent) : recent[i].id # k
      <4>1. Len(recent) = RECENT_JOBS_CAPACITY /\ \A i \in 1..Len(recent) : recent[i].id > k
        BY <2>2, <3>1 DEF StatusInv, EvictedInv
      <4> QED
        BY <1>2, <1>5, <4>1
    <3>2. CASE \E i \in 1..Len(recent) : recent[i].id = k
      <4>1. PICK m \in 1..Len(recent) : recent[m].id = k
        BY <3>2
      <4>2. m - d \notin 1..Len(base)
        <5> SUFFICES ASSUME m - d \in 1..Len(base) PROVE FALSE
          OBVIOUS
        <5>1. recent'[m - d] = recent[m] /\ m - d \in 1..Len(recent')
          BY <1>5, <1>6, <1>7
        <5> QED
          BY <4>1, <5>1
      <4>3. m = 1 /\ d = 1
        BY <1>2, <1>5, <1>6, <4>2
      <4>4. \A i \in 1..Len(base) : m < i + d
        BY <4>3
      <4> QED
        BY <1>5, <1>6, <4>1, <4>3, <4>4 DEF StatusInv, TableInv
    <3> QED
      BY <3>1, <3>2
  <2>4. Len(recent') = RECENT_JOBS_CAPACITY
    BY <1>2, <1>5, <1>6, <1>7, <2>3
  <2> QED
    BY <1>4, <1>7, <1>8, <2>2, <2>3, <2>4
<1>14. ToldInv'
  <2> SUFFICES ASSUME NEW k \in JobIds
               PROVE  /\ task'[k] \in {"audited", "sent", "done"} => Outcome(k, result[k]) \in trail
                      /\ task'[k] \in {"sent", "done"} => Contains(sent, Status(k, result[k]))
    BY <1>1 DEF ToldInv, Outcome, Status
  <2>1. task'[k] = IF k = j THEN "done" ELSE task[k]
    BY <1>1, <1>2 DEF TypeOK
  <2> QED
    BY <1>1, <2>1 DEF StatusInv, ToldInv
<1> QED
  BY <1>12, <1>13, <1>14 DEF StatusInv

\* Every step of a call and of a job's task keeps the invariant.
LEMMA StatusStep == SlotInv /\ SlotInv' /\ SentInv /\ SentInv' /\ StatusInv /\ [Next]_vars => StatusInv'
<1> SUFFICES ASSUME SlotInv, SlotInv', SentInv, SentInv', StatusInv, [Next]_vars PROVE StatusInv'
  OBVIOUS
<1>0. TypeOK /\ TableInv /\ MaxJobs \in Nat /\ started \in Nat
  BY JobsAssumption DEF StatusInv, TableInv, TypeOK
<1>2. ASSUME NEW c \in Clients, NEW p \in Packages, Reject(c, p) \/ Busy(c, p) PROVE StatusInv'
  <2>1. trail' = trail \cup {Rejected(p)}
        /\ UNCHANGED <<running, recent, started, pc, mine, package, task, result, sent>>
    BY <1>2 DEF Reject, Busy
  <2>2. TypeOK'
    <3>1. Rejected(p) \in [kind : Results \cup {"accepted", "rejected"}, package : Packages,
                           of : JobIds \cup {NoJob}]
      BY DEF Rejected
    <3> QED
      BY <1>0, <2>1, <3>1 DEF TypeOK
  <2>3. TableInv' /\ EvictedInv'
    BY <2>1, <2>2 DEF StatusInv, TableInv, EvictedInv
  <2>4. ToldInv'
    BY <2>1 DEF StatusInv, ToldInv, Outcome, Status
  <2> QED
    BY <2>3, <2>4 DEF StatusInv
<1>3. ASSUME NEW c \in Clients, TakeSlot(c) PROVE StatusInv'
  <2>1. /\ started' = started + 1 /\ running' = started + 1 /\ running = NoJob /\ started < MaxJobs
        /\ mine' = [mine EXCEPT ![c] = started + 1] /\ pc' = [pc EXCEPT ![c] = "slot"]
        /\ UNCHANGED <<recent, package, task, result, sent, trail>>
    BY <1>3 DEF TakeSlot
  <2>2. started + 1 \in JobIds
    BY <1>0, <2>1 DEF JobIds
  <2>3. TypeOK'
    BY <1>0, <2>1, <2>2 DEF TypeOK, JobIds
  <2>4. \A b \in Clients : pc'[b] # "idle" => mine'[b] \in JobIds
    BY <1>0, <2>1, <2>2 DEF TableInv, TypeOK
  <2>5. \A j \in started + 1..started' : j = running'
    BY <1>0, <2>1
  <2>7. TableInv' /\ EvictedInv'
    <3>1. \A j \in 1..started : j # running
      BY <1>0, <2>1 DEF NoJob
    <3> QED
      BY <1>0, <2>1, <2>3, <2>4, <2>5, <3>1, TableKept
  <2>8. ToldInv'
    BY <2>1 DEF StatusInv, ToldInv, Outcome, Status
  <2> QED
    BY <2>7, <2>8 DEF StatusInv
<1>4. ASSUME NEW c \in Clients, AnnounceRunning(c) PROVE StatusInv'
  <2>1. /\ pc[c] = "slot" /\ pc' = [pc EXCEPT ![c] = "announced"]
        /\ sent' = Append(sent, Status(mine[c], "running"))
        /\ UNCHANGED <<running, recent, started, mine, package, task, result, trail>>
    BY <1>4 DEF AnnounceRunning
  <2>2. mine[c] \in JobIds
    BY <1>0, <2>1 DEF TableInv
  <2>3. Status(mine[c], "running") \in [id : JobIds, state : Results \cup {"running"}]
    BY <2>2 DEF Status
  <2>4. TypeOK'
    <3>1. sent' \in Seq([id : JobIds, state : Results \cup {"running"}])
      BY <1>0, <2>1, <2>3, StillSent
    <3> QED
      BY <1>0, <2>1, <3>1 DEF TypeOK
  <2>5. \A b \in Clients : pc'[b] # "idle" => mine'[b] \in JobIds
    BY <1>0, <2>1, <2>2 DEF TableInv, TypeOK
  <2>6. TableInv' /\ EvictedInv'
    BY <2>1, <2>4, <2>5 DEF StatusInv, TableInv, EvictedInv
  <2>7. ToldInv'
    <3>1. \A x : Contains(sent, x) => Contains(sent', x)
      BY <1>0, <2>1, <2>3, StillSent
    <3> QED
      BY <2>1, <3>1 DEF StatusInv, ToldInv, Outcome, Status
  <2> QED
    BY <2>6, <2>7 DEF StatusInv
<1>5. ASSUME NEW c \in Clients, Spawn(c) PROVE StatusInv'
  <2>1. /\ pc[c] = "announced" /\ pc' = [pc EXCEPT ![c] = "spawned"]
        /\ task' = [task EXCEPT ![mine[c]] = "running"]
        /\ UNCHANGED <<running, recent, started, mine, package, result, sent, trail>>
    BY <1>5 DEF Spawn
  <2>2. mine[c] \in JobIds /\ task[mine[c]] = "none"
    BY <1>0, <2>1 DEF TableInv, SlotInv, Early
  <2>3. \A j \in JobIds : task'[j] = IF j = mine[c] THEN "running" ELSE task[j]
    BY <1>0, <2>1, <2>2 DEF TypeOK
  <2>4. TypeOK'
    <3>1. task' \in [JobIds -> {"none", "running", "audited", "sent", "done", "panicked"}]
      BY <1>0, <2>1 DEF TypeOK
    <3>2. pc' \in [Clients -> {"idle", "slot", "announced", "spawned"}]
      BY <1>0, <2>1 DEF TypeOK
    <3> QED
      BY <1>0, <2>1, <3>1, <3>2 DEF TypeOK
  <2>5. \A b \in Clients : pc'[b] # "idle" => mine'[b] \in JobIds
    BY <1>0, <2>1, <2>2 DEF TableInv, TypeOK
  <2>6. \A j \in JobIds : task'[j] = "done" <=> task[j] = "done"
    BY <2>2, <2>3
  <2>7. TableInv' /\ EvictedInv'
    BY <1>0, <2>1, <2>4, <2>5, <2>6, TableKept DEF TableInv
  <2>8. ToldInv'
    <3>1. \A j \in JobIds : task'[j] \in {"audited", "sent", "done"} => task'[j] = task[j]
      BY <2>3
    <3> QED
      BY <2>1, <3>1 DEF StatusInv, ToldInv, Outcome, Status
  <2> QED
    BY <2>7, <2>8 DEF StatusInv
<1>6. ASSUME NEW c \in Clients, EmitAccepted(c) PROVE StatusInv'
  <2>1. /\ pc[c] = "spawned" /\ pc' = [pc EXCEPT ![c] = "idle"] /\ mine' = [mine EXCEPT ![c] = NoJob]
        /\ trail' = trail \cup {Accepted(mine[c])}
        /\ UNCHANGED <<running, recent, started, package, task, result, sent>>
    BY <1>6 DEF EmitAccepted
  <2>2. mine[c] \in JobIds
    BY <1>0, <2>1 DEF TableInv
  <2>3. TypeOK'
    <3>1. Accepted(mine[c]) \in [kind : Results \cup {"accepted", "rejected"}, package : Packages,
                                 of : JobIds \cup {NoJob}]
      BY <1>0, <2>2 DEF Accepted, TypeOK
    <3>2. pc' \in [Clients -> {"idle", "slot", "announced", "spawned"}]
          /\ mine' \in [Clients -> JobIds \cup {NoJob}]
      BY <1>0, <2>1 DEF TypeOK
    <3> QED
      BY <1>0, <2>1, <3>1, <3>2 DEF TypeOK
  <2>4. \A b \in Clients : pc'[b] # "idle" => mine'[b] \in JobIds
    BY <1>0, <2>1 DEF TableInv, TypeOK
  <2>5. TableInv' /\ EvictedInv'
    BY <2>1, <2>3, <2>4 DEF StatusInv, TableInv, EvictedInv
  <2>6. ToldInv'
    BY <2>1 DEF StatusInv, ToldInv, Outcome, Status
  <2> QED
    BY <2>5, <2>6 DEF StatusInv
<1>7. ASSUME NEW j \in JobIds, Finish(j) \/ Panic(j) \/ AnnounceTerminal(j) PROVE StatusInv'
  <2>1. /\ task[j] \in {"running", "audited"}
        /\ UNCHANGED <<running, recent, started, pc, mine, package, result>>
    BY <1>7 DEF Finish, Panic, AnnounceTerminal
  <2>2. PICK to \in {"audited", "panicked", "sent"} :
           /\ task' = [task EXCEPT ![j] = to]
           /\ \/ to = "audited" /\ trail' = trail \cup {Outcome(j, result[j])} /\ sent' = sent
              \/ to = "panicked" /\ trail' = trail /\ sent' = sent
              \/ /\ to = "sent" /\ task[j] = "audited" /\ trail' = trail
                 /\ sent' = Append(sent, Status(j, result[j]))
    BY <1>7 DEF Finish, Panic, AnnounceTerminal
  <2>3. \A k \in JobIds : task'[k] = IF k = j THEN to ELSE task[k]
    BY <1>0, <2>2 DEF TypeOK
  <2>4. Status(j, result[j]) \in [id : JobIds, state : Results \cup {"running"}]
    BY <1>0 DEF Status, TypeOK
  <2>5. TypeOK'
    <3>1. task' \in [JobIds -> {"none", "running", "audited", "sent", "done", "panicked"}]
      BY <1>0, <2>2 DEF TypeOK
    <3>2. Outcome(j, result[j]) \in [kind : Results \cup {"accepted", "rejected"}, package : Packages,
                                     of : JobIds \cup {NoJob}]
      BY <1>0 DEF Outcome, TypeOK
    <3>3. sent' \in Seq([id : JobIds, state : Results \cup {"running"}])
      <4>1. CASE sent' = sent
        BY <1>0, <4>1 DEF TypeOK
      <4>2. CASE sent' = Append(sent, Status(j, result[j]))
        BY <1>0, <2>4, <4>2, StillSent
      <4> QED
        BY <2>2, <4>1, <4>2
    <3>4. trail' \subseteq [kind : Results \cup {"accepted", "rejected"}, package : Packages,
                            of : JobIds \cup {NoJob}]
      BY <1>0, <2>2, <3>2 DEF TypeOK
    <3> QED
      BY <1>0, <2>1, <3>1, <3>3, <3>4 DEF TypeOK
  <2>6. \A k \in JobIds : task'[k] = "done" <=> task[k] = "done"
    BY <2>1, <2>3
  <2>7. TableInv' /\ EvictedInv'
    <3>1. \A c \in Clients : pc'[c] # "idle" => mine'[c] \in JobIds
      BY <1>0, <2>1 DEF TableInv
    <3> QED
      BY <1>0, <2>1, <2>5, <2>6, <3>1, TableKept DEF TableInv
  <2>8. ToldInv'
    <3> SUFFICES ASSUME NEW k \in JobIds
                 PROVE  /\ task'[k] \in {"audited", "sent", "done"} => Outcome(k, result[k]) \in trail'
                        /\ task'[k] \in {"sent", "done"} => Contains(sent', Status(k, result[k]))
      BY <2>1 DEF ToldInv, Outcome, Status
    <3>1. trail \subseteq trail'
      BY <2>2
    <3>2. \A x : Contains(sent, x) => Contains(sent', x)
      <4>1. CASE sent' = Append(sent, Status(j, result[j]))
        BY <1>0, <2>4, <4>1, StillSent
      <4> QED
        BY <2>2, <4>1
    <3>3. CASE k = j
      <4>1. task'[k] \in {"audited", "sent", "done"} => Outcome(k, result[k]) \in trail'
        BY <2>2, <2>3, <3>1, <3>3 DEF StatusInv, ToldInv
      <4>2. task'[k] \in {"sent", "done"} => Contains(sent', Status(k, result[k]))
        <5>1. to = "sent" => Contains(sent', Status(j, result[j]))
          BY <1>0, <2>2, <2>4, StillSent
        <5> QED
          BY <2>2, <2>3, <3>3, <5>1
      <4> QED
        BY <4>1, <4>2
    <3>4. CASE k # j
      BY <2>3, <3>1, <3>2, <3>4 DEF StatusInv, ToldInv
    <3> QED
      BY <3>3, <3>4
  <2> QED
    BY <2>7, <2>8 DEF StatusInv
<1>8. CASE UNCHANGED vars
  BY <1>8 DEF vars, StatusInv, TableInv, TypeOK, EvictedInv, ToldInv, Outcome, Status
<1> QED
  BY <1>2, <1>3, <1>4, <1>5, <1>6, <1>7, <1>8, StoreStep DEF Next, Call, Task

\* What a poll of jobs.status may conclude (api/jobs.rs status, store_terminal):
\* an end that it reports is in the trail and was announced, and a job it does
\* not know has been evicted by as many newer ones as the table holds.
THEOREM StatusIsTrue == Spec => []StatusTellsTruth
<1>1. Init => StatusInv
  <2> SUFFICES ASSUME Init PROVE StatusInv
    OBVIOUS
  <2>1. TypeOK
    BY JobsAssumption, EmptySeq DEF Init, TypeOK, JobIds
  <2> QED
    BY <2>1, JobsAssumption DEF Init, StatusInv, TableInv, EvictedInv, ToldInv, JobIds, NoJob
<1>2. StatusInv => StatusTellsTruth
  <2> SUFFICES ASSUME StatusInv, NEW j \in 1..started
      PROVE  /\ StatusOf(j) \in Results =>
                    Outcome(j, StatusOf(j)) \in trail /\ Contains(sent, Status(j, StatusOf(j)))
             /\ StatusOf(j) = "not_found" =>
                    Cardinality({i \in JobIds : i > j /\ task[i] = "done"}) >= RECENT_JOBS_CAPACITY
    BY DEF StatusTellsTruth, StatusInv, TableInv
  <2> DEFINE ended == {i \in 1..Len(recent) : recent[i].id = j}
             S     == {i \in JobIds : i > j /\ task[i] = "done"}
  <2>1. j \in JobIds /\ MaxJobs \in Nat /\ RECENT_JOBS_CAPACITY \in Nat
        /\ \A i \in 1..Len(recent) : recent[i].id \in JobIds
    <3>1. started \in 0..MaxJobs /\ MaxJobs \in Nat /\ RECENT_JOBS_CAPACITY \in Nat
      BY JobsAssumption DEF StatusInv, TableInv, TypeOK
    <3>2. \A i \in 1..Len(recent) : recent[i].id \in JobIds
      BY RecentTyped DEF StatusInv, TableInv
    <3> QED
      BY <3>1, <3>2 DEF JobIds
  <2>2. CASE ended # {}
    <3> DEFINE i == CHOOSE i \in ended : TRUE
    <3>1. i \in ended
      BY <2>2
    <3>2. StatusOf(j) = recent[i].state
      BY <2>2 DEF StatusOf
    <3>3. StatusOf(j) = result[j] /\ task[j] = "done"
      BY <3>1, <3>2 DEF StatusInv, TableInv
    <3>4. result[j] # "not_found"
      BY <2>1 DEF StatusInv, TableInv, TypeOK, Results
    <3> QED
      BY <2>1, <3>3, <3>4 DEF StatusInv, ToldInv
  <2>3. CASE ended = {}
    <3>1. StatusOf(j) = IF running = j THEN "running" ELSE "not_found"
      BY <2>3 DEF StatusOf
    <3> SUFFICES ASSUME running # j PROVE Cardinality(S) >= RECENT_JOBS_CAPACITY
      BY <3>1 DEF Results
    <3>2. task[j] = "done" /\ \A i \in 1..Len(recent) : recent[i].id # j
      BY <2>3 DEF StatusInv, TableInv
    <3>3. Len(recent) = RECENT_JOBS_CAPACITY /\ \A i \in 1..Len(recent) : recent[i].id > j
      BY <2>1, <3>2 DEF StatusInv, EvictedInv
    <3> DEFINE f == [i \in 1..RECENT_JOBS_CAPACITY |-> recent[i].id]
    <3>4. \A i \in 1..RECENT_JOBS_CAPACITY : recent[i].id \in S
      BY <2>1, <3>3 DEF StatusInv, TableInv
    <3>5. \A i, k \in 1..RECENT_JOBS_CAPACITY : recent[i].id = recent[k].id => i = k
      <4> SUFFICES ASSUME NEW i \in 1..RECENT_JOBS_CAPACITY, NEW k \in 1..RECENT_JOBS_CAPACITY, i < k
                   PROVE  recent[i].id # recent[k].id
        OBVIOUS
      <4>1. recent[i].id < recent[k].id
        BY <3>3 DEF StatusInv, TableInv
      <4> QED
        BY <2>1, <3>3, <4>1 DEF JobIds
    <3>6. f \in Injection(1..RECENT_JOBS_CAPACITY, S)
      BY <3>4, <3>5 DEF Injection, IsInjective
    <3>7. IsFiniteSet(JobIds) /\ IsFiniteSet(1..RECENT_JOBS_CAPACITY)
          /\ Cardinality(1..RECENT_JOBS_CAPACITY) = RECENT_JOBS_CAPACITY
      BY <2>1, FS_Interval DEF JobIds
    <3>8. IsFiniteSet(S)
      BY <3>7, FS_Subset
    <3>9. Cardinality(1..RECENT_JOBS_CAPACITY) <= Cardinality(S)
      <4> HIDE DEF f, S
      <4> QED
        BY <3>6, <3>8, FS_Injection
    <3> QED
      BY <3>7, <3>8, <3>9, FS_CardinalityType, <2>1
  <2> QED
    BY <2>2, <2>3
<1>3. Spec => []SentInv
  <2>1. Init => SentInv
    BY JobsAssumption DEF Init, SentInv, EventsNested, Announced, NoJob
  <2> QED
    BY <2>1, SentStep, SlotInvariant, PTL DEF Spec
<1> QED
  BY <1>1, <1>2, <1>3, StatusStep, SlotInvariant, PTL DEF Spec
=============================================================================
