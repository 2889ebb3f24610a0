------------------------------ MODULE Services ------------------------------
(***************************************************************************)
(* Starting, stopping and restarting a unit, and the feed of unit states.  *)
(*                                                                         *)
(* api/server_services.rs runs a mutation under a deadline;                *)
(* backend/systemd/linux.rs submits the systemd job and waits for its      *)
(* JobRemoved signal; backend/systemd/watch.rs turns every such signal     *)
(* into a unit status on a broadcast channel; events/status_pump.rs, under *)
(* the supervision of events/mod.rs, numbers and forwards them.  A client  *)
(* pages through server.services.list meanwhile, by index.  systemd        *)
(* itself is external: it holds at most one job per unit, and a new job    *)
(* (mode "replace") cancels one of the opposite kind and is merged into    *)
(* one of its own kind.                                                    *)
(***************************************************************************)
EXTENDS EventPump, UnitList

CONSTANTS
    Callers,   \* one mutation each
    Units,     \* names that pass both validations
    Verbs,     \* those of start, stop and restart that are used
    Ends,      \* the results a job may end with, besides "canceled"
    MaxJobs,   \* bound: systemd jobs in a behaviour
    Table,     \* the order in which systemd lists its units: Units and others
    NameOf,    \* the text of a unit's name
    Globs,     \* the filters by name a client uses, of one pattern or none
    PAGE_SIZE

ASSUME ServicesAssumption ==
    /\ Units # {} /\ Verbs # {} /\ Verbs \subseteq {"start", "stop", "restart"}
    /\ Ends \subseteq {"done", "skipped", "failed", "dependency", "timeout"}
    /\ MaxJobs \in Nat /\ Units \subseteq ToSet(Table) /\ << >> \in Globs /\ PAGE_SIZE \in Nat \ {0}

\* activating and deactivating are "changing".
UnitState  == {"active", "inactive", "failed"}
ShownState == UnitState \cup {"changing", "unknown"}
Signals   == [job : 1..MaxJobs, unit : Units, result : Ends \cup {"canceled"}]

VARIABLES
    active,   \* systemd: the state of each unit
    job,      \* systemd: the job of each unit, id 0 when there is none
    jobs,     \* systemd: jobs queued so far; a job's id is its number
    bus,      \* is the daemon's one connection up?  It is never made again
    call,     \* run_service_mutation and run_job, per caller
    stream,   \* signals not yet taken, of each caller and of the watch task
    watch,    \* watch_loop, which sends on unit_tx (ring)
    removed,  \* history: number of signals the watch task's stream was given
    byJob,    \* history: has the unit changed only by jobs since its last job ended?
    lister    \* the client that pages: its filters, cursor, what it got, and as
              \* history systemd's answer to its first request and if it changed

systemd == <<active, job, jobs, byJob>>
feedVars == <<watch, ring, pumpVars>>
vars == <<systemd, bus, call, stream, feedVars, removed, lister>>

Watcher == "watch"
ASSUME WatcherAssumption == Watcher \notin Callers

\* Names of units hold no "*" (systemd escapes it); a filter is any text, or none.
ASSUME TextAssumption ==
    /\ Table \in Seq(ToSet(Table)) /\ NameOf \in [ToSet(Table) -> Seq(STRING)]
    /\ \A x \in ToSet(Table) : "*" \notin ToSet(NameOf[x])
    /\ Globs \subseteq Seq(Seq(STRING)) /\ \A glob \in Globs : Len(glob) <= 1

NoJob   == [id |-> 0, verb |-> CHOOSE v \in Verbs : TRUE]
Idle    == [pc |-> "idle", unit |-> CHOOSE u \in Units : TRUE, verb |-> NoJob.verb,
            job |-> 0, cause |-> 0, alone |-> FALSE, outcome |-> "none", state |-> "unknown"]
Calls   == [pc : {"idle", "connect", "sent", "reply", "wait", "query", "answered"},
            unit : Units, verb : Verbs, job : 0..MaxJobs, cause : 0..MaxJobs, alone : BOOLEAN,
            outcome : {"none", "ok", "err", "timeout"}, state : ShownState]

TypeOK ==
    /\ active \in [Units -> UnitState]
    /\ job \in [Units -> [id : 0..MaxJobs, verb : Verbs]]
    /\ jobs \in 0..MaxJobs /\ removed \in Nat
    /\ bus \in BOOLEAN /\ byJob \in [Units -> BOOLEAN]
    /\ call \in [Callers -> Calls]
    /\ stream \in [Callers \cup {Watcher} -> Seq(Signals)]
    /\ watch \in [pc : {"next", "fetch", "send", "ended"}, unit : Units,
                  state : ShownState]
    /\ ring \in Seq([unit : Units, state : ShownState])
    /\ PumpTypeOK
    /\ lister.pc \in {"idle", "list", "end"} /\ lister.glob \in Globs
    /\ lister.steady \in BOOLEAN

\* SystemdServices::new has connected; the watch task is subscribed, or has ended
\* because its subscription failed, and the pump is still to be started.  systemd
\* has done some jobs before.
InitTasks(done) ==
    /\ active \in [Units -> {"active", "inactive"}] /\ job = [u \in Units |-> NoJob]
    /\ jobs = done /\ bus = TRUE /\ byJob = [u \in Units |-> FALSE]
    /\ stream = [x \in Callers \cup {Watcher} |-> << >>] /\ removed = 0
    /\ watch \in [pc : {"next", "ended"}, unit : {Idle.unit}, state : {"unknown"}]
    /\ PumpInit

InitLister(pc) ==
    lister = [pc |-> pc, glob |-> << >>, state |-> AnyState, page |-> NoPage,
              got |-> << >>, all |-> << >>, steady |-> TRUE]

Init == InitTasks(0) /\ InitLister("idle") /\ call = [c \in Callers |-> Idle]

-----------------------------------------------------------------------------
(* systemd.                                                                *)

\* Who has a match rule for JobRemoved: the watch task, and every call from
\* its subscription until run_job returns.
Listening == {c \in Callers : call[c].pc \in {"sent", "reply", "wait"}}
                \cup (IF watch.pc = "ended" THEN {} ELSE {Watcher})

Removed(sig) ==
    /\ stream' = [x \in DOMAIN stream |->
                    IF bus /\ x \in Listening THEN Append(stream[x], sig) ELSE stream[x]]
    /\ removed' = IF bus /\ Watcher \in Listening THEN removed + 1 ELSE removed

Opposite(v, w) == (v = "stop") # (w = "stop")

\* A job enters: merged into the unit's job, or new in place of it.
Queue(u, v) ==
    IF job[u].id # 0 /\ ~ Opposite(v, job[u].verb)
    THEN /\ job' = [job EXCEPT ![u].verb = IF v = "start" THEN @ ELSE v]
         /\ UNCHANGED <<jobs, stream, removed>>
    ELSE /\ jobs < MaxJobs
         /\ jobs' = jobs + 1
         /\ job' = [job EXCEPT ![u] = [id |-> jobs + 1, verb |-> v]]
         /\ IF job[u].id = 0 THEN UNCHANGED <<stream, removed>>
            ELSE Removed([job |-> job[u].id, unit |-> u, result |-> "canceled"])

\* The state a job leaves its unit in.
After(u, result) ==
    CASE result = "done"                   -> IF job[u].verb = "stop" THEN "inactive" ELSE "active"
      [] result \in {"failed", "timeout"}  -> "failed"
      [] OTHER                             -> active[u]

JobEnds(u, result) ==
    /\ job[u].id # 0
    /\ active' = [active EXCEPT ![u] = After(u, result)]
    /\ byJob' = [byJob EXCEPT ![u] = TRUE]
    /\ job' = [job EXCEPT ![u] = NoJob]
    /\ Removed([job |-> job[u].id, unit |-> u, result |-> result])
    /\ UNCHANGED <<jobs, bus, call, feedVars, lister>>

\* Another client of systemd, or a request whose caller has given up.
ForeignJob(u, v) ==
    /\ Queue(u, v)
    /\ call' = [c \in Callers |->
                 IF call[c].pc = "sent" /\ call[c].unit = u
                 THEN [call[c] EXCEPT !.alone = FALSE] ELSE call[c]]
    /\ UNCHANGED <<active, byJob, bus, feedVars, lister>>

\* A unit crashes or is activated on demand: no job, no signal.
UnitChanges(u) ==
    /\ active' = [active EXCEPT ![u] = IF @ = "active" THEN "failed" ELSE "active"]
    /\ byJob' = [byJob EXCEPT ![u] = FALSE]
    /\ UNCHANGED <<job, jobs, bus, call, stream, feedVars, removed, lister>>

BusLost ==
    /\ bus /\ bus' = FALSE
    /\ UNCHANGED <<systemd, call, stream, feedVars, removed, lister>>

-----------------------------------------------------------------------------
(* run_service_mutation and run_job.                                       *)

Step(c, pc)           == call' = [call EXCEPT ![c].pc = pc]
Answer(c, out, state) ==
    call' = [call EXCEPT ![c].pc = "answered", ![c].outcome = out, ![c].state = state]

Request(c, u, v) ==
    /\ call[c].pc = "idle"
    /\ call' = [call EXCEPT ![c].pc = "connect", ![c].unit = u, ![c].verb = v]
    /\ UNCHANGED <<systemd, bus, stream, feedVars, removed, lister>>

\* validate_and_get_manager: a bad name, or no manager on this host.
Refused(c) ==
    /\ call[c].pc = "idle"
    /\ Answer(c, "err", "unknown")
    /\ UNCHANGED <<systemd, bus, stream, feedVars, removed, lister>>

\* Subscribe() and the signal stream, before the job is submitted.
Subscribe(c) ==
    /\ call[c].pc = "connect" /\ bus
    /\ call' = [call EXCEPT ![c].pc = "sent", ![c].alone = job[call[c].unit].id = 0]
    /\ UNCHANGED <<systemd, bus, stream, feedVars, removed, lister>>

\* systemd takes the request: the answer with the job's path is on its way.
Submit(c) ==
    LET u == call[c].unit IN
    /\ call[c].pc = "sent" /\ bus
    /\ Queue(u, call[c].verb)
    /\ call' = [d \in Callers |->
                 CASE d = c -> [call[c] EXCEPT !.pc = "reply", !.job = job'[u].id]
                   [] d # c /\ call[d].pc = "sent" /\ call[d].unit = u ->
                        [call[d] EXCEPT !.alone = FALSE]
                   [] OTHER -> call[d]]
    /\ UNCHANGED <<active, byJob, bus, feedVars, lister>>

\* A slip: the stream is set up once the answer has come.
ReplyThenSubscribe(c) ==
    /\ call[c].pc = "reply" /\ bus
    /\ Step(c, "wait")
    /\ stream' = [stream EXCEPT ![c] = << >>]
    /\ UNCHANGED <<systemd, bus, feedVars, removed, lister>>

Reply(c) ==
    /\ call[c].pc = "reply" /\ bus
    /\ Step(c, "wait")
    /\ UNCHANGED <<systemd, bus, stream, feedVars, removed, lister>>

\* NoSuchUnit, AccessDenied or a dead connection, before the wait begins.
CallFails(c) ==
    /\ call[c].pc \in {"connect", "sent"} \/ (call[c].pc = "reply" /\ ~ bus)
    /\ Answer(c, "err", "unknown")
    /\ stream' = [stream EXCEPT ![c] = << >>]
    /\ UNCHANGED <<systemd, bus, feedVars, removed, lister>>

\* A slip: the end of any job ends the wait.
MatchesAnySignal(c, sig) == sig.job # 0

\* `args.job == job_path || args.unit == name`
Matches(c, sig) == sig.job = call[c].job \/ sig.unit = call[c].unit

\* A signal of another unit is passed over; a matching one ends the wait.
Consume(c) ==
    LET sig  == Head(stream[c])
        Go(pc, out, state) ==
            call' = [call EXCEPT ![c].pc = pc, ![c].cause = sig.job,
                                 ![c].outcome = out, ![c].state = state]
    IN
    /\ call[c].pc = "wait" /\ stream[c] # << >>
    /\ IF Matches(c, sig)
       THEN /\ CASE sig.result \in {"done", "skipped"}        -> Go("query", "none", "unknown")
                 [] sig.result = "failed"                     -> Go("answered", "ok", "failed")
                 [] sig.result \in {"canceled", "dependency"} -> Go("answered", "err", "unknown")
                 [] OTHER                                     -> Go("answered", "ok", "unknown")
            /\ stream' = [stream EXCEPT ![c] = << >>]
       ELSE stream' = [stream EXCEPT ![c] = Tail(@)] /\ UNCHANGED call
    /\ UNCHANGED <<systemd, bus, feedVars, removed, lister>>

\* The stream of a lost connection ends.
StreamEnds(c) ==
    /\ call[c].pc = "wait" /\ stream[c] = << >> /\ ~ bus
    /\ Answer(c, "err", "unknown")
    /\ UNCHANGED <<systemd, bus, stream, feedVars, removed, lister>>

\* What a look at a unit's ActiveState yields: nothing over a lost connection,
\* nor of a stopped unit that systemd has unloaded.
Seen(u) ==
    IF ~ bus THEN {"unknown"}
    ELSE {active[u]} \cup (IF active[u] = "inactive" THEN {"unknown"} ELSE {})
                     \cup (IF job[u].id # 0 THEN {"changing"} ELSE {})

\* status(): any error is answered as an unknown state.
Query(c) ==
    /\ call[c].pc = "query"
    /\ \E s \in Seen(call[c].unit) : Answer(c, "ok", s)
    /\ UNCHANGED <<systemd, bus, stream, feedVars, removed, lister>>

\* The wait's own 30 seconds, when nothing before it took any time.
WaitTimeout(c) ==
    /\ call[c].pc = "wait"
    /\ Answer(c, "err", "unknown")
    /\ stream' = [stream EXCEPT ![c] = << >>]
    /\ UNCHANGED <<systemd, bus, feedVars, removed, lister>>

\* A slip: only the wait has a deadline.
TimeoutOfWait(c) ==
    /\ call[c].pc = "wait"
    /\ Answer(c, "timeout", "unknown")
    /\ stream' = [stream EXCEPT ![c] = << >>]
    /\ UNCHANGED <<systemd, bus, feedVars, removed, lister>>

\* MUTATION_TIMEOUT_SECS around the whole call: the future is dropped where it
\* stands, and the job goes on.
Timeout(c) ==
    /\ call[c].pc \in {"connect", "sent", "reply", "wait", "query"}
    /\ Answer(c, "timeout", "unknown")
    /\ stream' = [stream EXCEPT ![c] = << >>]
    /\ UNCHANGED <<systemd, bus, feedVars, removed, lister>>

Caller(c) ==
    \/ \E u \in Units, v \in Verbs : Request(c, u, v)
    \/ Refused(c) \/ Subscribe(c) \/ Submit(c) \/ Reply(c) \/ CallFails(c)
    \/ Consume(c) \/ StreamEnds(c) \/ Query(c) \/ WaitTimeout(c) \/ Timeout(c)

-----------------------------------------------------------------------------
(* A client of services.list.                                              *)

\* What systemd may list: every unit but those unloaded, in its order.
Listings ==
    LET Shown(x) == IF x \in Units THEN Seen(x) ELSE {"active"}
        Listed(shown) ==
            LET known == Kept(Table, {i \in DOMAIN Table : shown[Table[i]] # "unknown"})
            IN  [i \in 1..Len(known) |-> [name |-> NameOf[known[i]], state |-> shown[known[i]]]]
    IN  {Listed(shown) : shown \in
            {f \in [ToSet(Table) -> ShownState] : \A x \in ToSet(Table) : f[x] \in Shown(x)}}

ListRequest(glob, state) ==
    /\ lister.pc = "idle"
    /\ lister' = [lister EXCEPT !.pc = "list", !.glob = glob, !.state = state]
    /\ UNCHANGED <<systemd, bus, call, stream, feedVars, removed>>

\* list(): one page of one listing; the client goes on from its `next`.
ListPage ==
    /\ lister.pc = "list" /\ bus
    /\ \E all \in Listings :
         LET first == lister.page = NoPage
             cut   == Paginate(ListFilter(all, lister.state, lister.glob),
                               CursorToIdx(lister.page), PAGE_SIZE)
         IN  lister' = [lister EXCEPT
                 !.got = @ \o cut.page, !.page = cut.next,
                 !.pc = IF cut.next = NoPage THEN "end" ELSE "list",
                 !.all = IF first THEN all ELSE @,
                 !.steady = first \/ (@ /\ all = lister.all)]
    /\ UNCHANGED <<systemd, bus, call, stream, feedVars, removed>>

\* The bus is gone: the call fails and the client gives up.
ListFails ==
    /\ lister.pc = "list" /\ ~ bus
    /\ lister' = [lister EXCEPT !.pc = "end", !.steady = FALSE]
    /\ UNCHANGED <<systemd, bus, call, stream, feedVars, removed>>

Lister ==
    \/ \E glob \in Globs, state \in {AnyState, "active", "failed"} : ListRequest(glob, state)
    \/ ListPage \/ ListFails

-----------------------------------------------------------------------------
(* watch_loop.                                                             *)

\* A slip: of the signals that wait only the newest is looked at.
TakeNewestSignal ==
    /\ watch.pc = "next" /\ stream[Watcher] # << >>
    /\ watch' = [watch EXCEPT !.pc = "fetch", !.unit = Last(stream[Watcher]).unit]
    /\ stream' = [stream EXCEPT ![Watcher] = << >>]
    /\ UNCHANGED <<systemd, bus, call, ring, pumpVars, removed, lister>>

TakeSignal ==
    /\ watch.pc = "next" /\ stream[Watcher] # << >>
    /\ watch' = [watch EXCEPT !.pc = "fetch", !.unit = Head(stream[Watcher]).unit]
    /\ stream' = [stream EXCEPT ![Watcher] = Tail(@)]
    /\ UNCHANGED <<systemd, bus, call, ring, pumpVars, removed, lister>>

\* fetch_unit_state: the state now, not the one of the signal.
FetchState ==
    /\ watch.pc = "fetch"
    /\ \E s \in Seen(watch.unit) : watch' = [watch EXCEPT !.pc = "send", !.state = s]
    /\ UNCHANGED <<systemd, bus, call, stream, ring, pumpVars, removed, lister>>

SendStatus ==
    /\ watch.pc = "send"
    /\ Broadcast([unit |-> watch.unit, state |-> watch.state])
    /\ watch' = [watch EXCEPT !.pc = "next", !.unit = Idle.unit, !.state = "unknown"]
    /\ UNCHANGED <<systemd, bus, call, stream, pumpVars, removed, lister>>

\* The task ends with the connection; nothing starts it again.
WatchEnds ==
    /\ watch.pc = "next" /\ stream[Watcher] = << >> /\ ~ bus
    /\ watch' = [watch EXCEPT !.pc = "ended"]
    /\ UNCHANGED <<systemd, bus, call, stream, ring, pumpVars, removed, lister>>

-----------------------------------------------------------------------------
(* status_pump::run under spawn_supervised: each start numbers from 0.     *)

StatusPump ==
    /\ Forward \/ SkipLagged \/ PumpStarts(0)
    /\ UNCHANGED <<systemd, bus, call, stream, watch, removed, lister>>

StatusPumpPanics == PumpPanics /\ UNCHANGED <<systemd, bus, call, stream, watch, removed, lister>>

Watch == TakeSignal \/ FetchState \/ SendStatus \/ WatchEnds

Finished == (\A c \in Callers : call[c].pc = "answered") /\ UNCHANGED vars

Next ==
    \/ \E u \in Units : UnitChanges(u) \/ (\E r \in Ends : JobEnds(u, r))
                                       \/ (\E v \in Verbs : ForeignJob(u, v))
    \/ BusLost
    \/ \E c \in Callers : Caller(c)
    \/ Watch \/ StatusPump \/ StatusPumpPanics
    \/ Lister
    \/ Finished

Spec == Init /\ [][Next]_vars

\* Tasks that can go on do and timers fire; nothing is assumed of systemd, so
\* neither of FetchState, which awaits its answers without a deadline, nor of the
\* other steps of a call, nor that a failure ever happens.
Fairness ==
    /\ \A c \in Callers : WF_vars(Timeout(c))
    /\ WF_vars(TakeSignal \/ SendStatus \/ WatchEnds) /\ WF_vars(StatusPump)

FairSpec == Spec /\ Fairness

-----------------------------------------------------------------------------
(* Properties.                                                             *)

\* The end of a call's job is not missed, however early it comes: as long as
\* the call waits and the connection is up, either the job is still queued or
\* its signal is in the stream.
NoLostWakeup ==
    /\ TypeOK
    /\ \A c \in Callers : call[c].pc \in {"reply", "wait"} /\ bus =>
        \/ job[call[c].unit].id = call[c].job
        \/ \E i \in 1..Len(stream[c]) : stream[c][i].job = call[c].job

\* A call that found its unit without a job, and had none put before its own,
\* is answered by the end of its own job.  (Otherwise the signal of the job it
\* replaced, which matches by the unit's name, may answer it.)
OwnJobAnswers ==
    \A c \in Callers : call[c].cause # 0 /\ call[c].alone => call[c].cause = call[c].job

\* At rest the feed tells the truth: once every signal is turned into a status
\* and every status taken from the channel, the last one about a unit is its
\* state, unless it was skipped, could not be read, or the unit has changed
\* since without a job.
FeedSettles ==
    \A u \in Units :
        LET about == {n \in 1..Len(ring) : ring[n].unit = u}
            last  == CHOOSE n \in about : \A m \in about : m <= n
        IN  /\ bus /\ byJob[u] /\ job[u].id = 0 /\ stream[Watcher] = << >> /\ watch.pc = "next"
            /\ pump.pos = Len(ring) /\ pump.up
            => /\ about # {}
               /\ last \notin skipped => \E i \in 1..Len(feed) :
                    /\ feed[i].at = last /\ \A j \in i+1..Len(feed) : ring[feed[j].at].unit # u
                    /\ ring[last].state \in {active[u], "unknown"}

\* Statuses reach subscribers in the order they were sent, each at most once,
\* across restarts of the pump; numbers are consecutive within one life.
FeedInOrder ==
    /\ ForwardsInOrder
    /\ \A i \in 1..Len(feed) - 1 :
        feed[i+1].seq = IF feed[i].life = feed[i+1].life THEN feed[i].seq + 1 ELSE 0

\* The feed of unit states, on its way and at rest.
FeedTellsTruth == FeedSettles /\ FeedInOrder

\* The matcher computes what it is to compute.
Texts(chars, n) == UNION {[1..k -> chars] : k \in 0..n}
GlobAgrees ==
    \A pattern \in Texts({"a", "b", "?", "*"}, 4), text \in Texts({"a", "b"}, 4) :
        GlobMatches(pattern, text) <=> Glob(pattern, text)

\* A client that pages to the end while systemd's answer stays the same gets
\* every unit that its filters select, once, in systemd's order.
PagesTellTheList ==
    /\ GlobAgrees
    /\ lister.pc = "end" /\ lister.steady =>
        lister.got = Kept(lister.all, {i \in DOMAIN lister.all :
            /\ lister.glob # << >> => Glob(lister.glob[1], lister.all[i].name)
            /\ lister.state # AnyState => lister.state = lister.all[i].state})

\* systemd leaves no question of the watch task about a unit unanswered.
WatchAnswered == []<>(watch.pc # "fetch")

\* Nothing but systemd keeps anything waiting.  A call is answered although systemd
\* may never answer, end the job or tell the state.  The feed depends on it: if
\* it answers the watch task each time, then as long as the connection lasts
\* every signal reaches the feed or is skipped by it, however often the pump
\* panics.  (One question without an answer stops the feed for good.)
NothingWaitsForEver ==
    /\ \A c \in Callers : call[c].pc = "connect" ~> call[c].pc = "answered"
    /\ WatchAnswered => \A n \in 1..MaxJobs : removed >= n ~> (~ bus \/ pump.pos >= n)
=============================================================================
