-------------------------------- MODULE Jobs --------------------------------
(***************************************************************************)
(* api/jobs.rs (JobRegistry) and the package mutations that use it         *)
(* (api/server_packages.rs).                                               *)
(*                                                                         *)
(* A call takes the single slot, announces the job, spawns its task and    *)
(* records that it was accepted; the task runs the package manager,        *)
(* records the outcome, announces it and frees the slot.  All of these are *)
(* separate steps: only the registry's fields share a mutex.               *)
(***************************************************************************)
EXTENDS Naturals, Sequences, SequencesExt, FiniteSets

CONSTANTS
    Clients,              \* concurrent server.packages.* calls
    Packages,             \* package names
    MaxJobs,              \* bound: jobs started in one behaviour
    RECENT_JOBS_CAPACITY, \* ended jobs that are remembered
    Panics                \* may a job's future panic?

ASSUME JobsAssumption ==
    /\ MaxJobs \in Nat /\ RECENT_JOBS_CAPACITY \in Nat \ {0}
    /\ Panics \in BOOLEAN

\* Jobs are numbered in the order in which they took the slot.
JobIds  == 1..MaxJobs
NoJob   == 0
Results == {"succeeded", "failed"}

VARIABLES
    running,  \* RegistryInner::running
    recent,   \* recent and recent_order: ended jobs, the oldest first
    started,  \* jobs that took the slot so far
    pc, mine, \* where each call is, and its job
    package,  \* the package of each job
    task,     \* where each job's task is
    result,   \* how each job's future ended
    sent,     \* history: everything broadcast so far
    trail     \* audit records of the jobs

vars == <<running, recent, started, pc, mine, package, task, result, sent, trail>>

Status(j, s) == [id |-> j, state |-> s]

\* The fields that each record carries in its detail; `of` is the job it is
\* about, which only the first of the two names.
Accepted(j)   == [kind |-> "accepted", package |-> package[j], of |-> j]
Outcome(j, r) == [kind |-> r, package |-> package[j], of |-> j]
Rejected(p)   == [kind |-> "rejected", package |-> p, of |-> NoJob]

TypeOK ==
    /\ running \in JobIds \cup {NoJob}
    /\ recent \in Seq([id : JobIds, state : Results]) /\ Len(recent) <= RECENT_JOBS_CAPACITY
    /\ started \in 0..MaxJobs
    /\ pc \in [Clients -> {"idle", "slot", "announced", "spawned"}]
    /\ mine \in [Clients -> JobIds \cup {NoJob}]
    /\ package \in [JobIds -> Packages]
    /\ task \in [JobIds -> {"none", "running", "audited", "sent", "done", "panicked"}]
    /\ result \in [JobIds -> Results]
    /\ sent \in Seq([id : JobIds, state : Results \cup {"running"}])
    /\ trail \subseteq [kind : Results \cup {"accepted", "rejected"}, package : Packages,
                        of : JobIds \cup {NoJob}]

Init ==
    /\ running = NoJob /\ recent = << >> /\ started = 0
    /\ pc = [c \in Clients |-> "idle"]
    /\ mine = [c \in Clients |-> NoJob]
    /\ package \in [JobIds -> Packages]
    /\ task = [j \in JobIds |-> "none"]
    /\ result \in [JobIds -> Results]
    /\ sent = << >> /\ trail = {}

-----------------------------------------------------------------------------
(* run_package_mutation and try_start.                                     *)

\* An invalid name, or no package backend.
Reject(c, p) ==
    /\ pc[c] = "idle"
    /\ trail' = trail \cup {Rejected(p)}
    /\ UNCHANGED <<running, recent, started, pc, mine, package, task, result, sent>>

\* The slot is taken: Busy.
Busy(c, p) ==
    /\ running # NoJob
    /\ Reject(c, p)

\* A slip: the slot is taken whether or not it is free.
TakeSlotUnchecked(c) ==
    /\ pc[c] = "idle" /\ started < MaxJobs
    /\ started' = started + 1
    /\ running' = started'
    /\ mine' = [mine EXCEPT ![c] = started']
    /\ pc' = [pc EXCEPT ![c] = "slot"]
    /\ UNCHANGED <<recent, package, task, result, sent, trail>>

TakeSlot(c) ==
    /\ pc[c] = "idle" /\ started < MaxJobs
    /\ running = NoJob
    /\ started' = started + 1
    /\ running' = started'
    /\ mine' = [mine EXCEPT ![c] = started']
    /\ pc' = [pc EXCEPT ![c] = "slot"]
    /\ UNCHANGED <<recent, package, task, result, sent, trail>>

AnnounceRunning(c) ==
    /\ pc[c] = "slot"
    /\ sent' = Append(sent, Status(mine[c], "running"))
    /\ pc' = [pc EXCEPT ![c] = "announced"]
    /\ UNCHANGED <<running, recent, started, mine, package, task, result, trail>>

Spawn(c) ==
    /\ pc[c] = "announced"
    /\ task' = [task EXCEPT ![mine[c]] = "running"]
    /\ pc' = [pc EXCEPT ![c] = "spawned"]
    /\ UNCHANGED <<running, recent, started, mine, package, result, sent, trail>>

EmitAccepted(c) ==
    /\ pc[c] = "spawned"
    /\ trail' = trail \cup {Accepted(mine[c])}
    /\ pc' = [pc EXCEPT ![c] = "idle"]
    /\ mine' = [mine EXCEPT ![c] = NoJob]
    /\ UNCHANGED <<running, recent, started, package, task, result, sent>>

Call(c) == TakeSlot(c) \/ AnnounceRunning(c) \/ Spawn(c) \/ EmitAccepted(c)

-----------------------------------------------------------------------------
(* The spawned task.                                                       *)

\* The provider's answer and its Job record.
Finish(j) ==
    /\ task[j] = "running"
    /\ trail' = trail \cup {Outcome(j, result[j])}
    /\ task' = [task EXCEPT ![j] = "audited"]
    /\ UNCHANGED <<running, recent, started, pc, mine, package, result, sent>>

\* The task is gone, and with it the only code that frees the slot.
Panic(j) ==
    /\ Panics
    /\ task[j] = "running"
    /\ task' = [task EXCEPT ![j] = "panicked"]
    /\ UNCHANGED <<running, recent, started, pc, mine, package, result, sent, trail>>

\* A slip: only success is announced.
AnnounceOnlySuccess(j) ==
    /\ task[j] = "audited"
    /\ sent' = IF result[j] = "succeeded" THEN Append(sent, Status(j, result[j])) ELSE sent
    /\ task' = [task EXCEPT ![j] = "sent"]
    /\ UNCHANGED <<running, recent, started, pc, mine, package, result, trail>>

AnnounceTerminal(j) ==
    /\ task[j] = "audited"
    /\ sent' = Append(sent, Status(j, result[j]))
    /\ task' = [task EXCEPT ![j] = "sent"]
    /\ UNCHANGED <<running, recent, started, pc, mine, package, result, trail>>

\* A slip of store_terminal: the slot is not cleared.
StoreKeepsSlot(j) ==
    /\ task[j] = "sent"
    /\ recent' = Append(IF Len(recent) >= RECENT_JOBS_CAPACITY THEN Tail(recent) ELSE recent,
                        Status(j, result[j]))
    /\ task' = [task EXCEPT ![j] = "done"]
    /\ UNCHANGED <<running, started, pc, mine, package, result, sent, trail>>

\* A slip: the newest ended job is evicted.
StoreEvictsNewest(j) ==
    /\ task[j] = "sent"
    /\ recent' = Append(IF Len(recent) >= RECENT_JOBS_CAPACITY THEN Front(recent) ELSE recent,
                        Status(j, result[j]))
    /\ running' = NoJob
    /\ task' = [task EXCEPT ![j] = "done"]
    /\ UNCHANGED <<started, pc, mine, package, result, sent, trail>>

\* store_terminal: at capacity the oldest goes; the slot is free.
StoreTerminal(j) ==
    /\ task[j] = "sent"
    /\ recent' = Append(IF Len(recent) >= RECENT_JOBS_CAPACITY THEN Tail(recent) ELSE recent,
                        Status(j, result[j]))
    /\ running' = NoJob
    /\ task' = [task EXCEPT ![j] = "done"]
    /\ UNCHANGED <<started, pc, mine, package, result, sent, trail>>

Task(j) == Finish(j) \/ AnnounceTerminal(j) \/ StoreTerminal(j)

-----------------------------------------------------------------------------
Next ==
    \/ \E c \in Clients, p \in Packages : Reject(c, p) \/ Busy(c, p)
    \/ \E c \in Clients : Call(c)
    \/ \E j \in JobIds : Task(j) \/ Panic(j)

Spec == Init /\ [][Next]_vars

\* The runtime keeps polling a call that has begun and a task that was spawned;
\* the package manager is run under a timeout.
Fairness ==
    /\ \A c \in Clients : WF_vars(AnnounceRunning(c) \/ Spawn(c) \/ EmitAccepted(c))
    /\ \A j \in JobIds : WF_vars(Task(j))

FairSpec == Spec /\ Fairness

-----------------------------------------------------------------------------
(* Properties.                                                             *)

\* JobRegistry::status.
StatusOf(j) ==
    LET ended == {i \in 1..Len(recent) : recent[i].id = j}
    IN  IF ended # {}
        THEN recent[CHOOSE i \in ended : TRUE].state
        ELSE IF running = j THEN "running" ELSE "not_found"

\* A subscriber reads each job as one interval: "running" is followed by that
\* job's end before another job is announced.
EventsNested ==
    \A i \in 1..Len(sent) :
        IF sent[i].state = "running"
        THEN i < Len(sent) => sent[i + 1] = Status(sent[i].id, result[sent[i].id])
        ELSE i > 1 /\ sent[i - 1] = Status(sent[i].id, "running")

\* Two package managers never run at once.
OneAtATime ==
    Cardinality({j \in JobIds : task[j] \in {"running", "audited", "sent"}}) <= 1

\* What a poll may conclude: a job that has ended in its status has its
\* outcome in the trail and was announced; a job whose id was handed out is
\* unknown only when as many newer jobs as are remembered have ended.
StatusTellsTruth ==
    /\ TypeOK
    /\ \A j \in 1..started :
        /\ StatusOf(j) \in Results =>
                Outcome(j, StatusOf(j)) \in trail /\ Contains(sent, Status(j, StatusOf(j)))
        /\ StatusOf(j) = "not_found" =>
                Cardinality({i \in JobIds : i > j /\ task[i] = "done"}) >= RECENT_JOBS_CAPACITY

\* The slot becomes free again, unless the job panicked.
SlotFreed == \A j \in JobIds : running = j ~> running # j \/ task[j] = "panicked"
=============================================================================
