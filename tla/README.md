# A TLA+ model of vaiexia-server

`vaiexia-server` is a daemon that lets authenticated clients read host data, start
and stop services and install packages. These modules model the parts in which
ordering, concurrency and failure decide whether it is correct: the identity
store, the first-run bootstrap, the path of an authenticated call, the login rate
limiter, the audit pipeline within the life of the process, the package jobs and
the channel to the privileged helper, starts and stops of units and the feed of
their states, and the reading of the journal. TLC checks each on a small
instance; TLAPS proves most of the safety properties of the identity store, the
bootstrap, the path of an authenticated call, the login limiter, the job slot, the
helper's channel, service calls and the process life for every instance. Source
paths below are relative to `crates/vaiexia-server/src/` unless they begin with
`crates/` or `docs/`. `PROJECT.json` maps each definition to the lines it models.

## Inventory

| Component | State | Operations | Talks to |
|---|---|---|---|
| Identity store (`auth/store.rs`) | `identity.json`, the published snapshot, `write_lock`, `pending_touch` | add, revoke, add account, touch, flush, prune, open | called by all auth code; shared by every request thread |
| Persister (`auth/persister.rs`) | a tick counter | flush every minute, prune every hour | identity store |
| Verifier and policy (`auth/verifier.rs`, `auth/policy.rs`) | none of its own | authenticate, verify, verify_topic | identity store (reads, touch), audit sink |
| Bootstrap (`auth/bootstrap.rs`, `lib.rs`) | `BootstrapState` behind a mutex, `bootstrap.code` | begin, claim, `reset-admin` | identity store; another process |
| Rate limiter (`auth/ratelimit.rs`) | a bucket per account name | check, reset | login |
| API guard and auth methods (`api/mod.rs`, `api/auth_methods.rs`) | a `Subject` per call | login, claim, whoami, token create/list/revoke | identity store, limiter, bootstrap, audit sink |
| Service methods (`api/server_services.rs`) | none | start, stop, restart under a timeout | systemd backend, audit sink |
| Audit queue (`audit/file.rs`) | bounded channel, drop counter, batch | emit, shutdown, the writer's loop | every handler; one writer thread |
| Audit file (`audit/file.rs`, `audit/mod.rs`) | `audit.jsonl` and its generations, `bytes`, `seq`, `prev` | write, rotate, resume, verify | file system |
| Package jobs (`api/jobs.rs`, `api/server_packages.rs`) | the slot, 64 ended jobs, a broadcast channel | start, finish, status | package backend, audit sink, jobs pump |
| Event pumps (`events/`) | sequence counters, a receiver each | supervise, forward, skip on lag, restart after a panic | broadcast channels of the backends |
| Privileged helper (`crates/vaiexia-privd`, `crates/vaiexia-priv-proto`, `backend/packages/privd_client.rs`) | one connection at a time, one child | accept, authorise, execute under a deadline | daemon, package manager |
| systemd backend (`backend/systemd/`) | one bus connection, a broadcast of unit states | submit a job and wait for its end, list and page, watch | systemd over D-Bus, status pump |
| Journal backend and capped reader (`backend/logs/`, `backend/capped.rs`) | a child per query, one that follows | query, follow, read with a cap and a deadline | `journalctl`, logs pump; the package list |
| Process (`lib.rs`, `lifecycle.rs`, `transport.rs`, `notify.rs`) | listeners, tasks, the writer's handle | start, notify, serve, stop | everything above; systemd |
| Backend assembly (`backend/assemble.rs`, `backend/packages/detect.rs`) | none | probe the host, choose providers | the process |
| Configuration, DTOs, credentials, metrics | loaded once, or none | load, validate, convert, hash | - |

What is hard here, and what makes each part right:

* **Store**: readers take no lock, writers do; a mutation is a file and then a
  pointer; the process may die in between. No update is lost, readers see what a
  crash would keep, an acknowledged revocation is final.
* **Bootstrap**: two store writes under a mutex with crashes between them, a code
  that expires and is replaced, and a second process that rewrites the store's
  file. Nobody is locked out by half a claim, no code opens after a successful one,
  guesses are bounded.
* **Authenticated call**: one call looks at the snapshot several times while
  others revoke and prune. No token gains a scope, no record names anybody but the
  caller.
* **Audit**: a queue that refuses instead of blocking, a counter beside it, a
  stop request that may itself be refused; then files that rotate, tear and fail.
  Every event emitted before the stop is in the trail or counted; what is lost breaks
  the chain visibly.
* **Jobs**: one slot, freed last, after the outcome was recorded and announced.
* **Privileged helper**: two processes with a timeout each, either of which may die
  while the other works, and a package manager with descendants of its own.
  Operations do not overlap, what is reported is what happened, the helper comes back.
* **Units**: the end of a systemd job is a signal that may come before the answer
  which names the job, and another client's job may replace it. No end is missed
  or mistaken, the call is answered whatever systemd does, and the feed of states,
  read after the signal, ends with the truth if systemd answers the reads.
* **Journal**: text that is cut anywhere by a pipe, a cap, a deadline or a death.
  Paging skips and repeats nothing, no child is left behind, the followed stream is
  the journal.
* **Process**: every start-up step may fail, requests run before the start is over
  and after the stop has begun, the stop request may be lost. READY is told only of
  a whole daemon, and an orderly stop leaves a whole trail.

The full list of what could go wrong, at its line, is under `hazards` in `PROJECT.json`.

## Modules

| Module | Models | Read it for |
|---|---|---|
| `IdentitySnapshot` | the snapshot and the closures passed to `mutate` | requests (`Ops`) and their effect (`Apply`), shared by the three below |
| `IdentityMap` | the abstract store | one map, changed by whole mutations; a revocation is acknowledged only when the key is dead |
| `IdentityStore` | `FileStore`, persister, `authenticate` | `Clone`, `Persist`, `Publish` are the three steps of `mutate`; `Lookup`, `Decide`, `Respond` those of a request |
| `Bootstrap` | `begin`, `claim`, restart, `reset-admin` | uses `IdentitySnapshot` with the daemon's copy (`mem`) and the `file` kept apart |
| `AuthApi` | verifier, `register_scoped`, auth handlers, audit records | one step per look at the snapshot |
| `RateLimiter` | `check`, `reset`, as `login` uses them | compared step by step with a limiter that never evicts |
| `AuditQueue` | `FileAuditSink`, `FileAuditWriter::run` | a written batch is a sequence; `vanished` is what errors threw away |
| `AuditFile` | `write_batch`, `rotate`, `WriterState::open`, `verify_chain_str` | a line is its chain fields; crash at any step, with part of the buffer on disk |
| `Jobs` | `JobRegistry`, package mutations | a call and its spawned task as separate processes |
| `PrivChannel` | `send_request`; `handle_connection`, `dispatch`, `run_exec` | deadlines of client and helper on one clock; a connection in the backlog, served, dropped; `SendPart` begins the limit on a read anew |
| `EventPump` | a broadcast channel, a supervised pump, from before its first start | extended by the modules that send on a channel |
| `Ordered` | numbers in ascending order, what a filter keeps of a sequence | pure operators, shared by `UnitList` and `Logs` |
| `UnitList` | glob matching, filters, paging | pure operators; the matcher beside what it is to compute |
| `Services` | `run_service_mutation`, `run_job`, `watch_loop`, `list`, the status pump | systemd is the environment: one job per unit, replaced or merged |
| `Logs` | `run_capped`, `query`, `follow_journal`, `read_line_capped`, `build_list_argv`, `parse_list`, the logs pump | text is a sequence of parts, cut by any read; `Format` says what the lines of a package manager are like |
| `Assembly` | modes, probes, detection | pure operators over a record of the host |
| `Daemon` | `run`, `validate`, `build_service`, `start_listeners` | the main task around `AuditQueue`, which it extends |
| `AuthApiProofs`, `JobsProofs`, `PrivChannelProofs`, `ServicesProofs`, `LogsProofs`, `AuditFileProofs`, `DaemonProofs` | - | the theorems about the module each is named after; `AuthApiProofs` has those about `RateLimiter` too, `DaemonProofs` those about `AuditQueue`, `ServicesProofs` the lemmas about `EventPump` and `Ordered` that `LogsProofs` cites as well and the theorem about the matcher in `UnitList` |
| `IdentityProofs` | - | the theorems about `IdentityStore` and `Bootstrap`: what is kept in `identity.json` |
| `MC*` | - | the bounds and symmetries of the runs |

`IdentityStore` implements `IdentityMap`; `Bootstrap` and `AuthApi` build on the
atomic store that this refinement justifies. `AuditFile` details what
`AuditQueue` calls `WriteBatch`. `Daemon` runs `AuditQueue` as its writer and sink: each
of its steps is one of the queue's or leaves the queue alone (theorem
`RunsAuditQueue`). `Services` and `Logs` extend `EventPump` with what they send; the
status pump numbers each of its lives from 0, the logs pump shares a counter with
the metrics and jobs pumps.

### How data is abstracted

* A capability keeps `expires_at`, `revoked` and `last_used` (in `AuthApi`: owner,
  scopes, revoked, expired). Names, labels and hashes are opaque; a presented
  secret matches or does not. `token::mint` never repeats a key.
* The store's clock is in seconds and does not go back. `authenticate` checks the
  expiry and buffers the touch in one step, with one clock reading.
* A completed rename is durable. `write_atomic` fails before or at the rename.
* A bootstrap code is the number of its generation, so a code nobody generated
  yet cannot be submitted. `write_code` may fail before or after it truncates.
* A line of the audit file has length 1 and is identified by its number: hashes
  do not collide. The `BufWriter` keeps what it could not write. The renames
  between generations succeed when there is something to rename.
* A job's result is chosen in the initial state; the package manager is the step
  `Finish` (`PrivChannel` has the steps behind it). Jobs are numbered where the code draws UUIDs.
* `PrivChannel` counts time in units of 30 seconds. A step of the helper or of a
  client that waits for nothing takes no time (`Urgent`); the polling interval and
  scheduling delays are far below one unit. A request arrives in up to `FRAME` pieces,
  each of which ends one read of the helper; its answer is written and read as a whole.
  When the helper dies, systemd ends its control group. Malformed frames, `Ping` and
  the busy answer of `job_lock` cannot occur between this client and a serial loop.
* `AuthApi` leaves out rate limiting and package methods, which are modules of
  their own, and the bootstrap token, which is in `Bootstrap`.
* `Services` keeps of a unit its active state, with activating and deactivating as
  "changing". systemd's side is external: a job ends with any result at any time, a
  unit may change without a job. Time is left out: a deadline may fire at any step,
  so either of the two 30-second timers may be the first.
* Text in `Logs` is a sequence of parts: those of an entry's line, and its
  newline. A read takes what the pipe holds; a line of the journal parses when all its
  parts are there. A line of a package manager is a name with the first of a version,
  and a rest: it parses when its first part is there, unless the command was a search
  by `apt-cache` (`Format`), none of whose lines does. The lines of a description, which
  `pacman -Ss` tells and the parser takes for packages, count as lines like the others.
  A child, also the one that is followed, writes, lingers, fails or hangs as it likes.
  Every entry has a cursor (`linux.rs:167` passes over one without), and at most 1000 are
  asked for, so that the 10 000 lines at which `linux.rs:162` stops are never reached.
* In `Daemon` a host is a record of what the probes find; the writer's file errors
  are those of `AuditQueue`. Of the audit section it is kept whether its numbers reach
  their minima. Audit switched off (a sink that does nothing) is left out.

Bounds (`MaxTime`, `MaxCodes`, `MaxEvents`, `MaxLines`, `MaxLives`, `MaxJobs`, `MaxRequests`,
`MaxServed`, `MaxEntries`, `Packages`, `MaxOthers`, `MaxPanics`, `MaxLost`) cap
counters that grow without limit in the code. `CodesSpent`, `LinesSpent` and `RequestsSpent` let a
behaviour stutter where only the model's bound stops it.

## Runs

| Run | Shows | Instance |
|---|---|---|
| `identity_store` | refinement of `IdentityMap`; `RevocationHonoured`, `ReadersSeeDurable`, `OnlyDeadCapabilitiesLeave`, `PrunedStaysGone`, `LastUsedNeverGoesBack` | 2 request threads, persister, 2 keys, 2 seconds, faults; 2 724 830 states |
| `identity_live` | `TouchReachesDisk` | 1 key, 3 seconds, no faults, no symmetry; 225 398 |
| `bootstrap` | `SomeWayIn`, `ClaimedOnce`, `GuessesBounded`, `OnlyFreshCodesOpen` | 4 codes, 2 attempts, window of 2; 1 353 754 |
| `daemon` | `TrailInEmissionOrder`, `EveryEventAccounted`, `ReadyMeansServing`, `OrderlyStopFlushes`, `DaemonEnds` | 7 configurations, 2 hosts, one concurrent request, queue and batch of 2, 7 events, write errors, no TLS; 973 187 |
| `audit_file` | `ChainHolds`, `ErrorsLeaveAMark` | 2 generations of 2 lines, 7 lines, 2 restarts, all faults; 193 316 |
| `auth_api` | `NoEscalation`, `AttributedToCaller`, `MutationsAudited` | 2 calls, 2 keys, 2 accounts, 3 scopes; 2 950 108 |
| `jobs` | `EventsNested`, `OneAtATime`, `StatusTellsTruth`, `SlotFreed` | 2 callers, 4 jobs, 2 remembered, panics; 7 072 |
| `priv_channel` | `SuccessIsReal`, `UnavailableIsUntouched`, `OperationsDoNotOverlap`, `HelperReturns` | 2 connections, 2 packages of which 1 permitted, requests in up to 2 pieces, timeouts 1, 2 and 3; 142 419 |
| `rate_limiter` | `BurstBounded`, `EvictionInvisible` | 2 calls, 2 names, 1 bucket, 2 attempts, window of 2; 589 508 |
| `services` | `NoLostWakeup`, `OwnJobAnswers`, `FeedTellsTruth`, `PagesTellTheList`, `NothingWaitsForEver` | 1 caller and foreign jobs on 2 units, 2 jobs, channel of 1, 1 panic, 3 listed units in pages of 1; 752 944 |
| `logs` | `AnswersAreWhole`, `NoChildLeft`, `FollowInOrder`, `QueryReturns` | 4 entries of 3 kinds, pages of 2, a cap of 4 parts, lines of 2, channel of 1, 1 panic, 2 packages in 3 formats; 1 343 961 |

Some properties say for which behaviours they hold, and no more is true of the
code: `ChainHolds` until a write fails or a crash tears a line (`damage`),
`OrderlyStopFlushes` unless a failed write threw records away (`vanished`), `SomeWayIn`
until the first `reset-admin`, `SlotFreed` unless the job panicked,
`UnavailableIsUntouched` for requests that found the helper free (`prompt`),
`HelperReturns` unless a descendant of the package manager keeps its stderr open. What
remains true after damage is `ErrorsLeaveAMark`. `OwnJobAnswers` speaks of calls that met no other job of
their unit, `FeedSettles` of units that change through jobs only, `PagesTellTheList` of
a client whose pages were all cut from the same list. `ListTellsTruth` says of every list
that was not cut short by its own package manager that no torn line is in it, and only of
one whose lines are a table that it is the list. The second half of `NothingWaitsForEver`
has `WatchAnswered` as its premise. `EveryEventAccounted` knows of one place where an event
may be lost, the channel of a writer that has ended, and says which events can be there.
`AttributedToCaller` allows a handle instead of a name, but only of a capability of the
same account that has been pruned.

Why these bounds are enough to be interesting: two request threads and the
persister make every pair of mutations meet at the lock; a queue, a file and a
table of ended jobs of size 2 are full, overflow and rotate within a few steps;
four codes let a window expire, a limit trip and a restart each replace one; two
keys allow a token that creates a token. Jobs exceed the remembered ones by two.
Two connections to the helper are the request of a daemon that died and the one of
the daemon that followed it, or a stranger's and the daemon's. The other clients of
systemd are its foreign jobs, so that one caller meets merged, replaced and
replacing jobs. A journal of 4 entries is longer than a page, and a long entry is
longer than a line may be and, with a short one, than the cap (that a line of exactly the
length allowed is kept, the run does not reach: theorem `FollowHolds` does). Globs up to length
4 are compared with every text up to length 4.

Where actors share nothing that changes, a run gives each a behaviour of its own
instead of all interleavings: `MCServices` has a caller, or the watch task with its
pump, or a client that pages (with one systemd job left); `MCLogs` has a client that
pages, one that lists packages, or the follow task. What they share, systemd or
the journal, does everything in each of them. In `MCDaemon` the events of requests and
the records of missing providers together are at most `MaxServed`.

### Where code and documentation disagree

One run ends in a counterexample, against a sentence of the repository.

* `audit_rotate`: one failure to open the new file makes each later batch delete a
  generation; `audit/file.rs:197` says a rotation never loses a line.

Others were met while modelling and have no run.

Identity and bootstrap:

* after `reset-admin` and a restart, capabilities that are left keep the store
  non-empty and bootstrap disabled (`lib.rs:196`, `ResetWrite` in `Bootstrap`);
  `lib.rs:183` and `docs/INSTALL.md:488` say to claim again.
* a caller whose capability is pruned during its call is recorded as `cap:<key_id>`
  (`Label` in `AuthApi`, the fallback of `api/mod.rs:36`); `api/mod.rs:147`,
  `docs/INSTALL.md:532` and the test at `lifecycle.rs:598` say that a record never carries
  this handle. A token it creates then belongs to the handle.
  `auth.whoami` then answers with the handle and without scopes, against
  `api/auth_methods.rs:367`.
* shutdown aborts the persister: touches buffered since its last tick are lost.

Audit and process:

* an event sent after the writer's last look at the channel (`Emit` after `Drain` in
  `AuditQueue`) is accepted, dropped with the receiver, and neither written nor counted
  (`Stranded`); `audit/file.rs:76` says it counts as a drop. What is refused after the
  last swap of the counter is counted, and told by no record, against
  `docs/THREAT-MODEL.md:263`.
* after a torn line, record 1 carries the hash of that line in `prev`
  (`audit/file.rs:269`, `Resume` in `AuditFile`); `docs/INSTALL.md:526` says it
  carries the genesis marker.
* a start that fails after the sink was opened does not join the writer: the record
  of the configuration may be missing (`StartFails`, `Exit`). A SIGTERM before
  `shutdown_signal` has installed its handlers kills the process, without a flush.
* the 3 seconds of the join are soft: the runtime, when dropped, waits for the
  blocking thread that joins the writer (`Exit`).
* `validate` accepts an https listener in a build without TLS; the start then fails.

Packages and helper:

* `docs/THREAT-MODEL.md:108` says the helper enforces a hard timeout per job. The
  package manager is killed in time, but `Join` then waits for every descendant that
  has inherited its stderr (`crates/vaiexia-privd/src/socket.rs:211`), for as long as
  it lives; meanwhile no other request is served. Line 109 says that a stalled peer
  cannot wedge the helper because of the read deadline; that deadline holds for each read
  (`socket.rs:298`), so a peer that sends its request byte by byte keeps the helper for
  30 seconds a byte. `HelperReturns` holds all the same: a frame has an end.
* the client's 330 seconds begin when its request is sent, not when it is accepted.
  After a restart of the daemon the helper may still be at the former request; the
  new one can be reported as unavailable and be carried out afterwards
  (`privd_client.rs:20` warns of exactly this, for a shorter timeout).
* the outcome record of a package job has no job id (`api/server_packages.rs:152`,
  `Outcome` in `Jobs`); `api/server_packages.rs:93` says records are joined by it.
* the exit status of a package list is ignored, so a package manager that dies in
  the middle of a line yields a torn entry; `backend/packages/real.rs:92` says never.
* a search with `apt-cache` prints no tabs and is parsed by `parse_dpkg_query`, which
  drops such lines: the list is empty. `pacman -Ss` output is parsed as that of `pacman -Q`,
  its lines of description as packages (`backend/packages/query.rs:50`, `98`, `128`; `Format`
  and `ParsedPackages` in `Logs`).

Units and journal:

* `run_job` takes the signal of any job of its unit for its own: a stop that
  replaces another client's start sees that one's "canceled" and is reported as
  unavailable, while its own job goes on (`Matches` in `Services`).
* the watch task ends for good when the bus is lost or its subscription failed, and
  so does the follow task with its `journalctl` (`docs/THREAT-MODEL.md:257` knows of the
  latter); a unit that changes without a job is never told. A question of the watch task
  to which systemd gives no answer (`watch.rs:48`, `63`, without a deadline) stops the feed
  for good.
* what is sent before a pump's first subscription is not told: the backends are assembled,
  and begin to send, before `build_service` starts the pumps.
* an empty page has no `next`: a page of lines none of which parses, or an entry
  longer than the cap, ends the paging of the journal. The index cursors of the unit
  list are those of a list that may have changed.
* a "*" in the text is matched by the pattern's as if it were any character: the pattern
  `*` does not match `*a`. systemd escapes the character, so no unit's name has one.
* metrics, jobs and logs topics draw from one counter: the numbers of each have gaps.

## Fairness

Liveness is checked under these assumptions only:

* `IdentityStore`: weak fairness for the persister's own steps and for a request
  thread inside `mutate` (the runtime keeps polling tasks and threads run), and
  strong fairness for the persister inside `mutate`: request threads may take
  `write_lock` again and again, each for one bounded write, and the operating
  system's mutex does not pass over a waiter for ever.
* `Daemon`: the main task goes on and the writer, an operating-system thread, runs
  when it is not blocked; a producer that was refused finishes its `fetch_add`.
  Nothing is assumed about requests, failures or SIGTERM.
* `Jobs`: a call and a spawned task that can go on do. The package manager ends
  because it runs under a deadline.
* `PrivChannel`: the helper's thread and a client's read go on when they can, and
  time passes; failing system calls are not forced. The package manager, its descendants and a client that has not sent
  its request may stall for ever.
* `Services`: the timer around a call fires, and the pump and the watch task go on when
  they can, but for the step `FetchState`, which is an answer of systemd. Nothing is
  assumed about systemd or the other steps of a call; the part of `NothingWaitsForEver`
  that is about the feed says what follows if systemd does answer (`WatchAnswered`).
* `Logs`: only that the timer of `run_capped` fires. What follows it, `kill()` and `wait()`
  of the child, has no deadline (`backend/capped.rs:142`) and is part of the step: the
  operating system is trusted to end a process it was told to kill.

## Proofs

Each `*Proofs` module proves its theorems for every value of the constants that its
component's `ASSUME`s allow: any number of threads, keys, calls, units, jobs and
packages, every timeout, limit and capacity. The bounds of the runs (`MaxCodes`,
`MaxJobs`, ...) are constants too, so a theorem holds for each of them. Every module
has the same shape: an inductive invariant, a lemma per action or per group of
actions that it disturbs, the step over `Next`, and theorems that draw the
properties of the runs from it. TLC checked the properties first; it evaluates the
assumptions in every run.

**`IdentityProofs`, the store.** `TypeCorrect`; `RevocationIsFinal` (`RevocationHonoured`);
`ReadersAgreeWithDisk` (`ReadersSeeDurable`); `PrunedKeysStayGone`
(`PrunedStaysGone`); `OnlyDeadLeave` (`OnlyDeadCapabilitiesLeave`);
`LastUsedIsMonotone` (`LastUsedNeverGoesBack`); `Refinement` (`Implements`): every
behaviour of `IdentityStore` is one of `IdentityMap`, with the file as the map. None is
inductive: that a revoked key is refused depends on the clone a writer is about to
publish, on the record a reader has already looked up and on keys never being reused.
`IInv` adds to the types

* `LockInv`: the holder of `write_lock` is the one thread past `Clone`;
* `CloneInv`: a clone is the closure's result on what is on disk, then what is on disk;
* `FreshInv`: an addition in flight owns a key that nobody has issued;
* `RetiredInv`: an acknowledged key is dead on disk, in the snapshot and in every
  record a request still holds.

The two action properties need the clock as well. `ClockInv`: a prune in flight was
decided at a time that is past, and only the persister flushes. `TouchInv`: of a key's
last use on disk, in the flush under way and in the buffer, none is later than the
next. It is kept by a failed flush only because the failure drops the touches it took.
Assumed: times are natural numbers that include 0; `None` is neither a time, a record
nor a thread; the persister is not a request thread (`TimeAssumption`,
`NoneAssumption`, `ThreadAssumption`, `FaultsAssumption`).

**`IdentityProofs`, bootstrap.** `GuessesAreBounded` (`GuessesBounded`) and `FreshCodes`
(`OnlyFreshCodesOpen`) rest on `CodeInv`: the state in memory carries what the history
says of its code, its wrong guesses and its age, and codes to come are untouched.
`NobodyLockedOut` (`SomeWayIn`, of what happens before the first `reset-admin`: afterwards
the capabilities that are left may keep bootstrap disabled without any account) and
`OneAdministrator` (`ClaimedOnce`, of claims that succeeded: one whose second write failed
leaves an account and its code) rest on `StoreSettled`: until a reset the file is the
daemon's copy, a store without accounts is empty, and a claim past its first write has
left an account. Assumed: limits and
windows are positive (`BootstrapAssumption`) and the assumptions on snapshots.

**`AuthApiProofs`.** `ScopesNeverGrow` (`NoEscalation`), `RecordsNameTheCaller`
(`AttributedToCaller`), `EveryChangeRecorded` (`MutationsAudited`). A call looks at the
store several times and the key may be pruned in between, so `AuthInv` speaks of
calls in flight: a stored key belongs to its account and holds no more scopes than it
(`KeysInv`); the subject of a call and the token it is about to create obey the same
(`CallsInv`); a record is of its caller's account (`RecordInv`); a handle stands in the
place of an account only when its capability is pruned, and no key is issued twice
(`GoneInv`, kept by `GoneStep`); and what is not recorded yet, a call is about to record
(`AuditInv`). Assumed: the policy knows every
method that is registered, and a label written for a pruned key (`cap:<key_id>`) is
never the name of an account (`AuthAssumption`, `LabelAssumption`).

About the login rate limiter: `CapIsInvisible` (`EvictionInvisible`) and
`BruteForceBounded` (`BurstBounded`). In `LimiterInv` the limiter and the one that
never evicts differ at most in buckets whose window is over, until a call applies a
clock reading older than another's. `BurstInv` relates a bucket to the times at which
logins of its name were let through (`Behind`): the last ones are those it counts, the
others are no later than the start of its window, and all but `max_attempts` of these
a whole window earlier. A bucket that was evicted, or whose window is over, begins anew with
the same promise, so two windows' attempts is the most that one window can see. Assumed:
limit, window and cap are positive (`LimiterAssumption`, `NoBucketAssumption`).

**`JobsProofs`.** `SlotInvariant`, `OnePackageManager` (`OneAtATime`),
`EventsNeverInterleave` (`EventsNested`) and `StatusIsTrue` (`StatusTellsTruth`). The
slot is taken by one process and freed by another, so `SlotInv` says who holds it at
each moment: the one call before its spawn, then the task of that job, panicked or
not. `SentInv` says that the last announcement is the start of the job in the slot, or
an end. What a poll may conclude rests on `StatusInv`: the table holds the last of the
ended jobs in their order with their outcomes (`TableInv`), an ended job outside it is
older than all in it and the table is full (`EvictedInv`), and outcomes are recorded
before they are announced and announced before they are stored (`ToldInv`). That the
forgotten job is older than a whole table is an injection from the table's places to
ended jobs (`JobsAssumption`).

**`PrivChannelProofs`.** `Serialized` (`OperationsDoNotOverlap`), `RealSuccess`
(`SuccessIsReal`) and `UnavailableNeverBegan` (`UnavailableIsUntouched`). `ChannelInv`
follows a connection from idle through the backlog and the accept to its close, each at
most once (`Served`); what runs, and what may still write to a pipe, belongs to the
connection being served (`Serial`); what is about to be answered, was answered and was
received agree (`Honest`). For a request that found the helper free, `PromptInv` adds
that its client has waited no longer than the helper has worked (`OnTime`) and that
the helper answers what it has begun (`Answered`); with the client's timeout above the
helper's the client cannot give up first. Assumed: positive timeouts, the client's
above the helper's as in the source, and an allowlist within the packages
(`ChannelAssumption`).

**`ServicesProofs`.** `WakeupNotLost` (`NoLostWakeup`), `AnsweredByOwnJob`
(`OwnJobAnswers`) and `FeedIsTrue` (`FeedTellsTruth`). A call subscribes before it
submits; `ServicesInv` keeps along each call that its job is still queued or its end is
in the stream it has not read, and that, when no other job met the unit, its own end
precedes every other of the unit (`OwnFirst`). For the feed, `OrderInv` says that what
the pump forwarded rises through the channel, that what it lacks was skipped, and that
numbers are consecutive within a life; `TruthInv` that for a unit at rest the signal
of its last job still waits, or the watch task is about to read its state, has read
it, or has sent it and nothing about the unit since. Assumed: results other than
"canceled" for jobs that end by themselves, a non-empty table of units, and the watch
task is not a caller (`ServicesAssumption`, `WatcherAssumption`).

`PagesAreTheList` (`PagesTellTheList`) is about the client that pages: while systemd's
answer is the same, what it has is the selected list up to its cursor (`ListerInv`),
and a page continues it (`PageCut`). That the selection is the right one is
`GlobIsRight`: `glob_matches` agrees with `Glob` for every pattern and every text without
"*". The matcher goes back to the last "*" only, so the theorem has to say why the ones
before it need no second try. The invariant of its loop is `Hope`: from where it stands,
or by a longer piece for the last "*", the rest of the text can be matched. A match
that an earlier "*" would allow is one that the last allows too (`RestAcross`), so
that each turn keeps `Hope` as it is (`HopeTurns`), and at the end of the loop it is the
answer (`HopeOver`). A turn lessens `Left`, so the loop ends, and a place from where
it answers wrongly would have a least `Left` (`HopeEnds`). The recursive function is shown
to exist from what leads to each of its ends (`LoopExists`). Assumed: names of units
have no "*", and a filter is one pattern or none (`TextAssumption`).

**`LogsProofs`.** `AnswersHold` (`AnswersAreWhole`), `NoChildStays` (`NoChildLeft`) and
`FollowHolds` (`FollowInOrder`), from `LogsInv` (`LogsInvariant`). A read cuts the text
anywhere, so the invariant follows it part by part: `Runs` says that a sequence of
parts goes on from a given one without a gap, `EndOf` where it ends, and both pass
through concatenation and through every cut. `LogsInv` has

* `QuerySide`: what was read, what is in the pipe and what the child has yet to write
  are together the text of the window (`Saying`), until the child is killed; the pages
  so far hold, from the first entry received to the cursor, every one that parses;
* `FollowSide`: the part the reader is at, the pipe and what journalctl has yet to
  write run to the end of the last entry it tells; the buffer is the beginning of the
  present line, unless that is already longer than the cap; the topic has what was
  wanted of the lines before;
* `PumpSide`: that of `FeedIsTrue`, with numbers that grow and need not be consecutive.

That a page is in order and complete, that a text is the concatenation of its lines
and that the last newline ends the last whole line are, as is what the matcher of
`Services` answers, statements about data of any length. They are not taken from the library's induction theorems, whose operator
parameter no prover here instantiates, but from the least counterexample: a set of
numbers has a least element (`Least`), from which a set that contains 0 and the
successors of its elements is all of them (`Climb`). Assumed: positive limits, and that
a long line is longer than a short one (`LogsAssumption`).

**`AuditFileProofs`.** `ChainAlwaysHolds` (`ChainHolds`) and `LostRecordsShow`
(`ErrorsLeaveAMark`), from one invariant of files, buffer and writer (`FileInvariant`).
Neither is inductive: a crash may leave any prefix of the buffer in the file, and a
rotation moves the files one by one. `FileInv` has

* `ChainInv`, until a write fails or a line is torn: each file is a chain, the newest
  together with the buffer, and each is linked to the one before it; in the middle of a
  rotation also across the hole; the writer goes on with the last line there is, or,
  when the newest file is empty, with that of the file before or with a new chain;
* `MarkInv`, damaged or not: with the number of lines composed before each life, every
  line in a file or in the buffer names the line composed just before it, or one of an
  earlier life. So in a file that verifies, neighbours of one life are consecutive. No
  bound on the restarts is used: a crash adds an entry for the life it begins;
* `RotateInv`: while audit.jsonl is missing or rotated away nothing is buffered and
  the byte count keeps the writer from buffering; the place a generation moves to is
  empty;
* `CountInv`: no line is there that was not composed, and only a file with lines lacks
  its last newline.

Assumed: sizes and counts are positive, and the absent file is no file
(`FileAssumption`, `MissingAssumption`).

**`DaemonProofs`.** Of the queue: `TrailOrder` (`TrailInEmissionOrder`) and
`EventsAccounted` (`EveryEventAccounted`), from `QueueInv`. It speaks of each part of
the pipeline - trail, batch, channel - and of their order, of what the counter and the
loss records stand for, and of what was promised when the stop was asked for: a
promised event is never behind the stop request, so that what is left in the channel when
the writer ends was emitted later (`EventsInv`), a promised drop is in a
record or in the counter until the last swap (`DropsInv`). Counting a sequence's events
is a cardinality (`Told`), the sum of its loss records the size of a set of the drops
they stand for (`StandsFor`), so both are additive over concatenation without an
induction. `RunsAuditQueue`: the process refines `AuditQueue` step by step, so both hold
of the daemon (`DaemonTrail`). `ReadyIsServing` (`ReadyMeansServing`) rests on
`StartInv`, which counts what `run` has established at each of its steps: the records
that were due, the listeners bound, the tasks running. `OrderlyStop`
(`OrderlyStopFlushes`) adds `StopInv`, what `run` knows of the pipeline at its last
steps. Assumed: positive capacity and batch size, and a main task that emits
(`QueueAssumption`, `DaemonAssumption`).

Model-checked only:

* every liveness property: `TouchReachesDisk`, `DaemonEnds`, `SlotFreed`,
  `HelperReturns`, `NothingWaitsForEver`, `QueryReturns`. Fairness and `ENABLED` are
  beyond the prover;
* `NewestKept`, which the code does not keep.

## Not modelled

* Credentials (`auth/token.rs`, `auth/password.rs`): cryptography and encoding of one
  value. In the models a secret matches or not and a minted key is fresh.
* Audit events (`audit/mod.rs`): builders, sanitising and severities format one
  record. The models keep who did what, and in which order.
* Metrics (`backend/metrics`): samples the host through a library and keeps nothing
  a property could relate. Its pump is the one of `EventPump`.
* The mock backend (`backend/mock.rs`), a stand-in for development and tests. Unlike
  the real one it sends a status after it has released its lock (`mock.rs:283`), so
  that two changes may be told in the wrong order.
* Backend types and the validation of a unit's or package's name: character-level
  parsers of one value; the models start from valid names.
* DTO conversions, the TOML file, environment and command line.
* The command lines of package managers and the columns of their output; of a listing
  `Logs` keeps which lines are told.
* The listeners: an external library. `Daemon` has a listener that starts or fails.
* Audit switched off: a sink that does nothing.
* `fsync`: a completed rename is durable in the models. `write_atomic` does not sync, so
  after a power failure (not a crash of the process) `identity.json` may be older or empty.

## Roadmap

1. `Jobs` with `PrivChannel` in place of its step `Finish`: the outcome a client polls
   against what the helper did, across restarts of either process.
2. A clock of limited width for `now_secs() + ttl` (`api/auth_methods.rs:419`).
3. A file whose written pages reach the disk later than its rename.
