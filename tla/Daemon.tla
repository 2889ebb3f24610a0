------------------------------- MODULE Daemon -------------------------------
(***************************************************************************)
(* The life of the daemon's process: lib.rs run, with config/load.rs       *)
(* validate, lifecycle.rs and transport.rs, around the audit pipeline of   *)
(* AuditQueue.  The main task loads and validates the configuration, opens *)
(* what it needs, emits its own records beside those of the requests,      *)
(* tells systemd that it is ready, waits for SIGTERM, stops everything and *)
(* joins the audit writer for a bounded time.  Every error on the way up   *)
(* is returned at once and ends the process.                               *)
(***************************************************************************)
EXTENDS AuditQueue, Assembly

CONSTANTS
    Main,        \* the main task, among Producers; the others are requests
    Configs,     \* configurations: listeners, a backend mode, the audit section
    Hosts,       \* hosts it may run on, see Assembly
    TlsFeature,  \* is the binary built with TLS?
    MaxServed    \* bound: events emitted by requests and for missing providers

ListenerKind == {"http", "https", "https_no_cert", "obfs"}

ASSUME DaemonAssumption ==
    /\ Main \in Producers /\ TlsFeature \in BOOLEAN
    /\ MaxServed \in Nat
    /\ \A c \in Configs : /\ c.listeners \in Seq(ListenerKind) /\ c.mode \in Modes
                          /\ c.audit \in {"valid", "below_minimum"}
    /\ \A host \in Hosts : {host.linux, host.bus, host.journalctl, host.privd} \subseteq BOOLEAN

VARIABLES
    main,      \* where run() is
    listeners, \* cfg.listeners
    setup,     \* cfg.backend.mode, cfg.audit, and the host
    backend,   \* the optional providers that are there
    tasks,     \* the persister and the pumps, as long as they run
    bound,     \* listeners that serve
    left,      \* records still to emit in the loop the main task is in
    told,      \* what systemd was notified of: "nothing", "ready", "stopping"
    served     \* number of events emitted by requests

plan       == <<listeners, setup, backend>>
daemonVars == <<main, plan, tasks, bound, left, told, served>>
allVars    == <<vars, daemonVars>>

Requests == Producers \ {Main}

DaemonTypeOK ==
    /\ TypeOK
    /\ main \in {"load", "dirs", "config", "store", "assemble", "degraded", "listen", "notices",
                 "ready", "serving", "term", "stop_notices", "flush", "join",
                 "dropped", "stopped", "failed", "failed_dropped", "dead"}
    /\ backend \in Capabilities
    /\ tasks \subseteq {"persister", "metrics", "jobs", "status", "logs"}
    /\ bound \in 0..Len(listeners) /\ left \in Nat
    /\ told \in {"nothing", "ready", "stopping"}
    /\ served \in 0..MaxServed

DaemonInit ==
    /\ Init
    /\ main = "load" /\ bound = 0 /\ left = 0 /\ told = "nothing" /\ served = 0
    /\ backend = Nothing /\ tasks = {}
    /\ \E config \in Configs, host \in Hosts :
          /\ listeners = config.listeners
          /\ setup = [mode |-> config.mode, audit |-> config.audit, host |-> host]

-----------------------------------------------------------------------------
(* Starting.                                                               *)

\* validate(): at least one listener, no obfs, a certificate for https; and
\* generations, max_bytes and queue of the audit section at their minima.
Validate(l, audit) ==
    /\ l # << >> /\ \A i \in 1..Len(l) : l[i] \in {"http", "https"}
    /\ audit = "valid"

\* What start_listeners refuses whatever the network and the files do.
Unservable(kind) ==
    \/ kind \in {"obfs", "https_no_cert"}
    \/ kind = "https" /\ ~ TlsFeature

\* The main task goes on; it first finishes the fetch_add of a refused event.
Goto(from, to) == main = from /\ Main \notin refused /\ main' = to

Load ==
    /\ Goto("load", IF Validate(listeners, setup.audit) THEN "dirs" ELSE "failed")
    /\ UNCHANGED <<vars, plan, tasks, bound, left, told, served>>

\* create_dir_all twice; then the sink exists and its writer runs.
OpenSink ==
    /\ Goto("dirs", "config")
    /\ UNCHANGED <<vars, plan, tasks, bound, left, told, served>>

\* One record of the main task, from one step to the next.
Record(from, to) ==
    /\ Goto(from, to)
    /\ Emit(Main)
    /\ UNCHANGED <<plan, tasks, bound, left, told, served>>

\* FileStore::open; BootstrapState::begin cannot fail.
OpenStore ==
    /\ Goto("store", "assemble")
    /\ UNCHANGED <<vars, plan, tasks, bound, left, told, served>>

\* How many of the optional providers are absent.
Absent(b) == (IF b.services THEN 0 ELSE 1) + (IF b.packages THEN 0 ELSE 1)
                                           + (IF b.logs THEN 0 ELSE 1)

Assemble ==
    /\ Goto("assemble", "degraded")
    /\ backend' \in Assembled(setup.mode, setup.host)
    /\ left' = Absent(backend')
    /\ UNCHANGED <<vars, listeners, setup, tasks, bound, told, served>>

\* The real mode needs Linux.
UnsupportedPlatform ==
    /\ Assembled(setup.mode, setup.host) = {}
    /\ Goto("assemble", "failed")
    /\ UNCHANGED <<vars, plan, tasks, bound, left, told, served>>

\* One Degraded record for each provider that is absent.
Degraded ==
    /\ left > 0 /\ Goto("degraded", "degraded") /\ Emit(Main)
    /\ left' = left - 1
    /\ UNCHANGED <<plan, tasks, bound, told, served>>

\* One Listener record for each handle, at the start and at the stop.
Notice(at) ==
    /\ left > 0 /\ Goto(at, at) /\ Emit(Main)
    /\ left' = left - 1
    /\ UNCHANGED <<plan, tasks, bound, told, served>>

\* A pump for each topic that the backend can feed.
TasksOf(b) == {"persister", "metrics", "jobs"} \cup (IF b.services THEN {"status"} ELSE {})
                                               \cup (IF b.logs THEN {"logs"} ELSE {})

\* build_service: verifier, modules, persister and pumps; nothing can fail.
BuildService ==
    /\ left = 0 /\ Goto("degraded", "listen")
    /\ tasks' = TasksOf(backend)
    /\ UNCHANGED <<vars, plan, bound, left, told, served>>

\* start_listeners, one listener.
Bind ==
    /\ bound < Len(listeners) /\ ~ Unservable(listeners[bound + 1])
    /\ Goto("listen", "listen")
    /\ bound' = bound + 1
    /\ UNCHANGED <<vars, plan, tasks, left, told, served>>

\* What no listener can be made of ends the start.
ListenerRefused ==
    /\ bound < Len(listeners) /\ Unservable(listeners[bound + 1])
    /\ Goto("listen", "failed")
    /\ UNCHANGED <<vars, plan, tasks, bound, left, told, served>>

\* A `?` on the way up: a configuration that cannot be read, a file, a directory
\* or a listener.  What was bound is dropped with the process.
StartFails ==
    /\ \E from \in {"load", "dirs", "store", "listen"} : Goto(from, "failed")
    /\ UNCHANGED <<vars, plan, tasks, bound, left, told, served>>

ListenersUp ==
    /\ bound = Len(listeners) /\ Goto("listen", "notices")
    /\ left' = bound
    /\ UNCHANGED <<vars, plan, tasks, bound, told, served>>

\* "daemon started", after the last notice.
Started == left = 0 /\ Record("notices", "ready")

\* A slip: systemd is told before the listeners are bound.
ReadyEarly ==
    /\ Goto("listen", "listen") /\ told = "nothing"
    /\ told' = "ready"
    /\ UNCHANGED <<vars, plan, tasks, bound, left, served>>

\* A datagram to systemd; whether it could be sent is of no concern.
Notify(state) == told' = state

Ready ==
    /\ Goto("ready", "serving")
    /\ Notify("ready")
    /\ UNCHANGED <<vars, plan, tasks, bound, left, served>>

-----------------------------------------------------------------------------
(* Serving and stopping.                                                   *)

\* A handler's record.  Handlers run from the first bound listener on, and
\* those in flight go on until the runtime is dropped.
RequestEmits(p) ==
    /\ bound > 0 /\ sinks /\ main \notin {"stopped", "dead"}
    /\ served + Absent(backend) < MaxServed
    /\ Emit(p)
    /\ served' = served + 1
    /\ UNCHANGED <<main, plan, tasks, bound, left, told>>

RefusedCounts(p) == main # "dead" /\ CountDrop(p) /\ UNCHANGED daemonVars

\* SIGTERM before shutdown_signal has its handlers ends the process at once.
Killed ==
    /\ told = "nothing" /\ main # "dead" /\ main' = "dead"
    /\ UNCHANGED <<vars, plan, tasks, bound, left, told, served>>

\* shutdown_signal resolves.
Terminate ==
    /\ Goto("serving", "term")
    /\ Notify("stopping")
    /\ UNCHANGED <<vars, plan, tasks, bound, left, served>>

\* "shutting down", the first of the last records.
SayStopping ==
    /\ Goto("term", "stop_notices") /\ Emit(Main)
    /\ left' = bound
    /\ UNCHANGED <<plan, tasks, bound, told, served>>

\* The pumps, the persister and the listeners are told to end.
AbortAll ==
    /\ left = 0 /\ Goto("stop_notices", "flush")
    /\ tasks' = {}
    /\ UNCHANGED <<vars, plan, bound, left, told, served>>

\* audit.shutdown(), whose request a full queue refuses silently.
Flush ==
    /\ Goto("flush", "join")
    /\ RequestShutdown
    /\ UNCHANGED <<plan, tasks, bound, left, told, served>>

\* A slip: a clone of the sink survives the runtime.
DropKeepsSink ==
    /\ \/ Goto("join", "dropped")
       \/ Goto("failed", "failed_dropped")
    /\ UNCHANGED <<vars, plan, tasks, bound, left, told, served>>

\* The join returned or its 3 seconds are over, or the start failed: run() has
\* returned and the runtime is dropped, every task, and with the last of them
\* the last sink.
DropRuntime ==
    /\ \/ Goto("join", "dropped")
       \/ Goto("failed", "failed_dropped")
    /\ IF sinks THEN DropSinks ELSE UNCHANGED vars
    /\ tasks' = {}
    /\ UNCHANGED <<plan, bound, left, told, served>>

\* A slip: a thread nobody waits for does the join.
ExitAtOnce ==
    /\ \/ Goto("dropped", "stopped")
       \/ Goto("failed_dropped", "dead")
    /\ UNCHANGED <<vars, plan, tasks, bound, left, told, served>>

\* The runtime waits for its blocking threads, the one that joins the writer
\* among them, even after run() has given it up.  A failed start never joined.
Exit ==
    /\ \/ Goto("dropped", "stopped") /\ pc = "exited"
       \/ Goto("failed_dropped", "dead")
    /\ UNCHANGED <<vars, plan, tasks, bound, left, told, served>>

\* The writer's thread exists from OpenSink to the end of the process.
AuditWriter ==
    /\ main \notin {"stopped", "dead"} /\ (main = "config" \/ emitted > 0)
    /\ Writer /\ UNCHANGED daemonVars

Starting ==
    \/ Load \/ OpenSink \/ Record("config", "store") \/ OpenStore \/ Assemble
    \/ UnsupportedPlatform \/ Degraded \/ BuildService \/ Bind \/ ListenerRefused \/ ListenersUp \/ Notice("notices")
    \/ Started \/ Ready

Stopping ==
    \/ SayStopping \/ Notice("stop_notices") \/ AbortAll \/ Flush \/ DropRuntime \/ Exit

DaemonNext ==
    \/ Starting \/ StartFails \/ Killed \/ Terminate \/ Stopping
    \/ \E p \in Requests : RequestEmits(p)
    \/ \E p \in Producers : RefusedCounts(p)
    \/ AuditWriter

DaemonSpec == DaemonInit /\ [][DaemonNext]_allVars

\* The main task and the writer's thread go on when they can, a refused
\* producer counts; neither failures nor SIGTERM are relied on.
DaemonFairness ==
    /\ WF_allVars(Starting) /\ WF_allVars(Stopping) /\ WF_allVars(AuditWriter)
    /\ \A p \in Producers : WF_allVars(RefusedCounts(p))

DaemonFairSpec == DaemonSpec /\ DaemonFairness

-----------------------------------------------------------------------------
(* Properties.                                                             *)

\* READY means what the unit file makes of it: from then until STOPPING every
\* configured listener serves, every topic that the backend can feed is fed, the
\* start and each provider that is missing are on their way to the trail, and no
\* start-up error can follow.  A configuration that validate() accepted fails
\* later only for what it could not know.
ReadyMeansServing ==
    /\ told = "ready" =>
          /\ main = "serving" /\ bound = Len(listeners) /\ tasks = TasksOf(backend)
          /\ emitted >= 3 + Absent(backend)
    /\ main = "listen" => \A i \in 1..Len(listeners) :
                             Unservable(listeners[i]) => listeners[i] = "https" /\ ~ TlsFeature

\* After an orderly stop the trail is complete: the process does not end before
\* its writer has, even if the stop request was refused or 3 seconds were not
\* enough; and the writer does not end before what was in the pipeline at
\* shutdown(), the main task's own last records among it, is in the trail.
OrderlyStopFlushes ==
    /\ DaemonTypeOK
    /\ main = "stopped" => pc = "exited" /\ asked # "no"
    /\ ShutdownFlushes

\* SIGTERM ends the process whatever the queue refuses and the files do (the
\* stop request may be lost, and a writer without a file ignores it), and a
\* start ends in service or in the end of the process.
DaemonEnds ==
    /\ main = "term" ~> main \in {"stopped", "dead"}
    /\ main = "load" ~> main \in {"serving", "stopped", "dead"}
=============================================================================
