----------------------------- MODULE PrivChannel ----------------------------
(***************************************************************************)
(* vaiexia-privd (main.rs, socket.rs, allowlist.rs) and its client in the  *)
(* daemon (backend/packages/privd_client.rs, real.rs).  The helper serves  *)
(* one connection at a time: it checks the peer, reads a request with a    *)
(* limit on every read, runs the package manager under a deadline, waits   *)
(* until nobody holds the child's stderr and answers.  Connections that come     *)
(* meanwhile wait in the socket's backlog.  The client gives up after      *)
(* READ_TIMEOUT, whatever the helper is doing.                             *)
(*                                                                         *)
(* Time is counted in units of 30 seconds.  A step that waits for nothing  *)
(* takes no time: see Urgent.                                              *)
(***************************************************************************)
EXTENDS Naturals, Sequences, SequencesExt, FiniteSets

CONSTANTS
    Packages,          \* names that PackageName::parse accepts
    Allowlist,         \* those the operator permits; all of them if permissive
    EXEC_TIMEOUT,      \* the helper's limit for one operation
    PEER_READ_TIMEOUT, \* the helper's limit for each read of a request
    READ_TIMEOUT,      \* the client's limit for the answer
    FRAME,             \* reads that a request's frame may take, at most
    MaxRequests,       \* bound: connections in one behaviour
    None

ASSUME ChannelAssumption ==
    /\ Allowlist \subseteq Packages
    /\ EXEC_TIMEOUT \in Nat \ {0} /\ PEER_READ_TIMEOUT \in Nat \ {0}
    /\ READ_TIMEOUT \in Nat /\ EXEC_TIMEOUT < READ_TIMEOUT
    /\ FRAME \in Nat \ {0} /\ MaxRequests \in Nat
    /\ None \notin 1..MaxRequests

Requests == 1..MaxRequests

VARIABLES
    client,  \* per request: "idle", "connected", "waiting", its result, or "gone"
    pkg,     \* per request: the package it names
    peer,    \* per request: "daemon", or the uid of somebody else
    parts,   \* per request: pieces of its frame in the socket before the last one
    waited,  \* per request: how long its client has been in read_exact
    frames,  \* requests whose whole frame is in the socket
    backlog, \* connections that wait for accept
    pc,      \* where the helper is in handle_connection
    cur,     \* the connection it serves
    elapsed, \* time since the helper began to read or to execute
    status,  \* what run_exec knows of its child: "ok" or "error"
    answer,  \* per request: the response in its socket, "none" before
    closed,  \* connections the helper has dropped
    proc,    \* per request: its package manager
    pipes,   \* requests whose stderr pipe some process holds open
    prompt   \* history: requests that found the helper free, and that nothing delayed

vars == <<client, pkg, peer, parts, waited, frames, backlog, pc, cur, elapsed, status,
          answer, closed, proc, pipes, prompt>>

clientVars == <<client, pkg, peer, parts, waited, frames>>
helperVars == <<backlog, pc, cur, elapsed, status, answer, closed>>
childVars  == <<proc, pipes>>

Results == {"ok", "error", "unavailable"}
Open == {r \in Requests : client[r] \in {"connected", "waiting"}}

Init ==
    /\ client = [r \in Requests |-> "idle"]
    /\ pkg = [r \in Requests |-> None]
    /\ peer = [r \in Requests |-> None]
    /\ parts = [r \in Requests |-> 0]
    /\ waited = [r \in Requests |-> 0]
    /\ frames = {}
    /\ backlog = << >>
    /\ pc = "accept" /\ cur = None /\ elapsed = 0 /\ status = "error"
    /\ answer = [r \in Requests |-> "none"]
    /\ closed = {}
    /\ proc = [r \in Requests |-> "none"]
    /\ pipes = {}
    /\ prompt = {}

-----------------------------------------------------------------------------
(* The client: send_request, on a blocking thread of the daemon.           *)

\* The daemon has one package job at a time (Jobs), so one request at a time;
\* another user's process may connect whenever it likes.
MayConnect(r, who) ==
    /\ client[r] = "idle"
    /\ \A q \in 1..r - 1 : client[q] # "idle"
    /\ who = "daemon" => \A q \in Open : peer[q] # "daemon"

Connect(r) ==
    \E who \in {"daemon", "other"}, p \in Packages :
        /\ MayConnect(r, who)
        /\ client' = [client EXCEPT ![r] = "connected"]
        /\ peer' = [peer EXCEPT ![r] = who] /\ pkg' = [pkg EXCEPT ![r] = p]
        /\ backlog' = Append(backlog, r)
        /\ prompt' = IF backlog = << >> /\ pc = "accept" THEN prompt \cup {r} ELSE prompt
        /\ UNCHANGED <<parts, waited, frames, pc, cur, elapsed, status, answer, closed, childVars>>

\* connect, or one of the set_*_timeout calls, returns an error.
ConnectFails(r) ==
    /\ MayConnect(r, "daemon")
    /\ client' = [client EXCEPT ![r] = "unavailable"]
    /\ UNCHANGED <<pkg, peer, parts, waited, frames, helperVars, childVars, prompt>>

\* write_all of the frame puts it into the socket piece by piece, the length before
\* the payload; a piece that comes ends one read of the helper and so starts its
\* timeout anew.
SendPart(r) ==
    /\ client[r] = "connected" /\ r \notin closed
    /\ parts[r] < FRAME - 1
    /\ parts' = [parts EXCEPT ![r] = @ + 1]
    /\ elapsed' = IF pc = "read" /\ cur = r THEN 0 ELSE elapsed
    /\ UNCHANGED <<client, pkg, peer, waited, frames, backlog, pc, cur, status, answer, closed,
                   childVars, prompt>>

\* All that is left; the daemon's thread may have been held up before it.
Send(r) ==
    /\ client[r] = "connected"
    /\ IF r \in closed
         THEN client' = [client EXCEPT ![r] = "unavailable"] /\ frames' = frames
         ELSE client' = [client EXCEPT ![r] = "waiting"] /\ frames' = frames \cup {r}
    /\ UNCHANGED <<pkg, peer, parts, waited, helperVars, childVars, prompt>>

\* The response frame has come; response_to_result makes a result of it.
Receive(r) ==
    /\ client[r] = "waiting" /\ answer[r] # "none"
    /\ client' = [client EXCEPT ![r] = answer[r]]
    /\ waited' = [waited EXCEPT ![r] = 0]
    /\ UNCHANGED <<pkg, peer, parts, frames, helperVars, childVars, prompt>>

\* A slip: the client waits no longer than the helper works.
ReadExpiredEarly(r) == waited[r] >= EXEC_TIMEOUT

\* Has SO_RCVTIMEO run out?
ReadExpired(r) == waited[r] >= READ_TIMEOUT

\* A closed connection or the timeout: BackendError::Unavailable either way.
ReceiveFails(r) ==
    /\ client[r] = "waiting" /\ answer[r] = "none"
    /\ r \in closed \/ ReadExpired(r)
    /\ client' = [client EXCEPT ![r] = "unavailable"]
    /\ waited' = [waited EXCEPT ![r] = 0]
    /\ UNCHANGED <<pkg, peer, parts, frames, helperVars, childVars, prompt>>

\* The daemon dies: its sockets close, what it has sent stays in them.
DaemonDies ==
    /\ \E r \in Open : peer[r] = "daemon"
    /\ client' = [r \in Requests |->
                    IF r \in Open /\ peer[r] = "daemon" THEN "gone" ELSE client[r]]
    /\ waited' = [r \in Requests |-> IF peer[r] = "daemon" THEN 0 ELSE waited[r]]
    /\ UNCHANGED <<pkg, peer, parts, frames, helperVars, childVars, prompt>>

-----------------------------------------------------------------------------
(* The helper: the accept loop, handle_connection, dispatch, run_exec.     *)

\* handle_connection returns and drops the stream; resp is what it has written.
Finish(resp) ==
    /\ pc' = "accept" /\ cur' = None
    /\ answer' = [answer EXCEPT ![cur] = resp]
    /\ closed' = closed \cup {cur}
    /\ elapsed' = 0 /\ status' = "error"
    /\ UNCHANGED <<clientVars, backlog>>

Accept ==
    /\ pc = "accept" /\ backlog # << >> /\ peer[Head(backlog)] = "daemon"
    /\ cur' = Head(backlog) /\ backlog' = Tail(backlog)
    /\ pc' = "read" /\ elapsed' = 0
    /\ UNCHANGED <<clientVars, status, answer, closed, childVars, prompt>>

\* The connection is dropped before anything is read from it.
Drop ==
    /\ pc = "accept" /\ backlog # << >>
    /\ backlog' = Tail(backlog)
    /\ closed' = closed \cup {Head(backlog)}
    /\ UNCHANGED <<clientVars, pc, cur, elapsed, status, answer, childVars, prompt>>

\* SO_PEERCRED names another uid.
Refuse == Drop /\ peer[Head(backlog)] # "daemon"

\* SO_PEERCRED cannot be read, or the timeouts cannot be set.
SetupFails == Drop /\ peer[Head(backlog)] = "daemon"

\* read_frame meets the end of the stream, or PEER_READ_TIMEOUT in one of its reads.
PeerSilent ==
    /\ cur \notin frames
    /\ cur \notin Open \/ elapsed >= PEER_READ_TIMEOUT

ReadFails ==
    /\ pc = "read" /\ PeerSilent
    /\ Finish("none")
    /\ UNCHANGED <<childVars, prompt>>

Permits(p) == p \in Allowlist

\* The package is not in the allowlist.
Reject ==
    /\ pc = "read" /\ cur \in frames /\ ~ Permits(pkg[cur])
    /\ Finish("error")
    /\ UNCHANGED <<childVars, prompt>>

\* Command::spawn returns an error.
SpawnFails ==
    /\ pc = "read" /\ cur \in frames /\ Permits(pkg[cur])
    /\ Finish("error")
    /\ UNCHANGED <<childVars, prompt>>

\* dispatch and the first half of run_exec.
Spawn ==
    /\ pc = "read" /\ cur \in frames /\ Permits(pkg[cur])
    /\ pc' = "exec" /\ elapsed' = 0
    /\ proc' = [proc EXCEPT ![cur] = "running"]
    /\ pipes' = pipes \cup {cur}
    /\ UNCHANGED <<clientVars, backlog, cur, status, answer, closed, prompt>>

\* A slip: the exit status is not looked at.
NoticeIgnoresExit ==
    /\ pc = "exec" /\ proc[cur] \in {"succeeded", "failed"}
    /\ pc' = "join" /\ status' = "ok"
    /\ UNCHANGED <<clientVars, backlog, cur, elapsed, answer, closed, childVars, prompt>>

\* A slip: the loop goes on polling a child that has failed.
NoticeOnlySuccess ==
    /\ pc = "exec" /\ proc[cur] = "succeeded"
    /\ pc' = "join" /\ status' = "ok"
    /\ UNCHANGED <<clientVars, backlog, cur, elapsed, answer, closed, childVars, prompt>>

\* try_wait returns the exit status of the child.
Notice ==
    /\ pc = "exec" /\ proc[cur] \in {"succeeded", "failed"}
    /\ pc' = "join"
    /\ status' = IF proc[cur] = "succeeded" THEN "ok" ELSE "error"
    /\ UNCHANGED <<clientVars, backlog, cur, elapsed, answer, closed, childVars, prompt>>

\* try_wait finds the child running and the deadline passed.
DeadlinePassed ==
    /\ pc = "exec" /\ proc[cur] = "running" /\ elapsed >= EXEC_TIMEOUT
    /\ pc' = "kill"
    /\ UNCHANGED <<clientVars, backlog, cur, elapsed, status, answer, closed,
                   childVars, prompt>>

\* try_wait itself returns an error.
WaitFails ==
    /\ pc = "exec"
    /\ pc' = "kill"
    /\ UNCHANGED <<clientVars, backlog, cur, elapsed, status, answer, closed,
                   childVars, prompt>>

\* kill and wait; the status of a child that has ended by itself since then is
\* not looked at.  Descendants are not killed and may keep the pipe.
Kill ==
    /\ pc = "kill"
    /\ pc' = "join" /\ status' = "error"
    /\ proc' = [proc EXCEPT ![cur] = IF @ = "running" THEN "killed" ELSE @]
    /\ \E left \in {{}, {cur} \cap pipes} : pipes' = (pipes \ {cur}) \cup left
    /\ prompt' = prompt \ pipes'
    /\ UNCHANGED <<clientVars, backlog, cur, elapsed, answer, closed>>

\* A slip: the reader of stderr is not waited for.
JoinDetached ==
    /\ pc = "join"
    /\ Finish(status)
    /\ UNCHANGED <<childVars, prompt>>

\* stderr_reader.join() returns when every writer of the pipe is gone.
Join ==
    /\ pc = "join" /\ cur \notin pipes
    /\ Finish(status)
    /\ UNCHANGED <<childVars, prompt>>

\* privd dies and is started again.  systemd ends what is left of its control
\* group; the backlog survives if systemd holds the listening socket.
HelperDies ==
    /\ cur # None \/ backlog # << >>
    /\ pc' = "accept" /\ cur' = None /\ elapsed' = 0 /\ status' = "error"
    /\ \E kept \in {backlog, << >>} :
        /\ backlog' = kept
        /\ closed' = closed \cup ({cur} \ {None}) \cup (ToSet(backlog) \ ToSet(kept))
    /\ proc' = [r \in Requests |-> IF proc[r] = "running" THEN "killed" ELSE proc[r]]
    /\ pipes' = {}
    /\ prompt' = prompt \ ({cur} \cup ToSet(backlog))
    /\ UNCHANGED <<clientVars, answer>>

-----------------------------------------------------------------------------
(* The package manager and its descendants.                                *)

\* It ends; a process it has started may still hold its stderr.
ManagerEnds ==
    \E r \in Requests, result \in {"succeeded", "failed"} :
        /\ proc[r] = "running"
        /\ proc' = [proc EXCEPT ![r] = result]
        /\ \E left \in {{}, {r}} : pipes' = (pipes \ {r}) \cup left
        /\ prompt' = prompt \ pipes'
        /\ UNCHANGED <<clientVars, helperVars>>

DescendantEnds ==
    \E r \in pipes :
        /\ proc[r] # "running"
        /\ pipes' = pipes \ {r}
        /\ UNCHANGED <<clientVars, helperVars, proc, prompt>>

\* What happens without waiting happens before time goes on.
Urgent ==
    \/ pc = "accept" /\ backlog # << >>
    \/ pc = "read" /\ (cur \in frames \/ PeerSilent)
    \/ pc = "exec" /\ (proc[cur] # "running" \/ elapsed >= EXEC_TIMEOUT)
    \/ pc = "kill"
    \/ pc = "join" /\ cur \notin pipes
    \/ \E r \in Requests :
        client[r] = "waiting" /\ (answer[r] # "none" \/ r \in closed \/ ReadExpired(r))

\* 30 seconds pass for those who have a timer running.
Tick ==
    /\ ~ Urgent
    /\ pc \in {"read", "exec"} \/ \E r \in Requests : client[r] = "waiting"
    /\ elapsed' = IF pc \in {"read", "exec"} THEN elapsed + 1 ELSE elapsed
    /\ waited' = [r \in Requests |-> IF client[r] = "waiting" THEN waited[r] + 1 ELSE waited[r]]
    /\ UNCHANGED <<client, pkg, peer, parts, frames, backlog, pc, cur, status, answer, closed,
                   childVars, prompt>>

\* Only the bound on requests ends a behaviour.
RequestsSpent ==
    /\ pc = "accept" /\ backlog = << >>
    /\ \A r \in Requests : client[r] \in Results \cup {"gone"}
    /\ UNCHANGED vars

Client(r) ==
    \/ Connect(r) \/ ConnectFails(r) \/ SendPart(r) \/ Send(r)
    \/ Receive(r) \/ ReceiveFails(r)

Helper ==
    \/ Accept \/ Refuse \/ ReadFails \/ Reject \/ Spawn
    \/ Notice \/ DeadlinePassed \/ Kill \/ Join

\* System calls that return an error; nothing makes them do so.
HelperFails == SetupFails \/ SpawnFails \/ WaitFails

Next ==
    \/ \E r \in Requests : Client(r)
    \/ Helper \/ HelperFails
    \/ DaemonDies \/ HelperDies
    \/ ManagerEnds \/ DescendantEnds
    \/ Tick
    \/ RequestsSpent

Spec == Init /\ [][Next]_vars

\* The helper's thread and a client's read go on when they can, and time
\* passes.  Nothing is assumed of the package manager, its descendants or a
\* client that has not sent its request.
FairSpec ==
    /\ Spec
    /\ WF_vars(Helper)
    /\ WF_vars(Tick)
    /\ \A r \in Requests : WF_vars(Receive(r) \/ ReceiveFails(r))

-----------------------------------------------------------------------------
(* Properties.                                                             *)

TypeOK ==
    /\ client \in [Requests -> Results \cup {"idle", "connected", "waiting", "gone"}]
    /\ pkg \in [Requests -> Packages \cup {None}] /\ peer \in [Requests -> {"daemon", "other", None}]
    /\ parts \in [Requests -> 0..FRAME - 1]
    /\ waited \in [Requests -> 0..READ_TIMEOUT]
    /\ frames \subseteq Requests /\ closed \subseteq Requests
    /\ pipes \subseteq Requests /\ prompt \subseteq Requests
    /\ backlog \in Seq(Requests) /\ IsInjective(backlog)
    /\ pc \in {"accept", "read", "exec", "kill", "join"}
    /\ cur \in Requests \cup {None} /\ (cur = None <=> pc = "accept")
    /\ elapsed \in 0..(IF pc = "read" THEN PEER_READ_TIMEOUT ELSE EXEC_TIMEOUT)
    /\ status \in {"ok", "error"}
    /\ answer \in [Requests -> {"none", "ok", "error"}]
    /\ proc \in [Requests -> {"none", "running", "succeeded", "failed", "killed"}]

\* A job that is reported as successful was carried out to its end, by the
\* daemon's order and for a package the operator permits.
SuccessIsReal ==
    /\ TypeOK
    /\ \A r \in Requests :
        client[r] = "ok" =>
            proc[r] = "succeeded" /\ peer[r] = "daemon" /\ pkg[r] \in Allowlist

\* "The client must wait strictly LONGER than that, otherwise every install
\* slower than the client timeout is misreported as Unavailable while privd
\* keeps working." (privd_client.rs:20): a request that found the helper free
\* and ends as unavailable was never begun, however long the package manager
\* takes, unless the helper dies or a descendant of the manager holds the pipe.
UnavailableIsUntouched ==
    \A r \in prompt : client[r] = "unavailable" => proc[r] = "none"

\* "privd serializes all package operations" (docs/THREAT-MODEL.md:108): an
\* operation begins only when nothing that still writes to the stderr of an
\* earlier one is running, across timeouts and restarts of either process.
OperationsDoNotOverlap ==
    Cardinality(pipes \cup {r \in Requests : proc[r] = "running"}) <= 1

\* "a silent or stalled peer must not hold the single-threaded accept loop
\* hostage" (socket.rs:296), and neither does a package manager that never
\* ends: the helper leaves every connection, unless a descendant holds the pipe.
\* (A peer that sends its request in pieces holds it for one timeout a piece: the
\* length of a frame is the bound.)
HelperReturns ==
    \A r \in Requests : cur = r ~> cur # r \/ (pc = "join" /\ r \in pipes)
=============================================================================
