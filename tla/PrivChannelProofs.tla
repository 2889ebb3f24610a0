-------------------------- MODULE PrivChannelProofs --------------------------
(***************************************************************************)
(* Proofs about PrivChannel, for every number of connections and packages, *)
(* every allowlist and all timeouts: operations of the helper do not       *)
(* overlap, a reported success was one and a request that is reported as   *)
(* unavailable was not begun, through deaths of both processes, timeouts   *)
(* and descendants that outlive the package manager.                       *)
(***************************************************************************)
EXTENDS PrivChannel, FiniteSetTheorems, TLAPS

Running == {r \in Requests : proc[r] = "running"}
Working == {"exec", "kill", "join"}

\* A connection is first idle, then in the backlog, then served, then closed.
Served ==
    /\ \A r \in Requests : client[r] = "idle" =>
          r \notin closed /\ r # cur /\ r \notin frames /\ \A i \in 1..Len(backlog) : backlog[i] # r
    /\ cur \notin closed
    /\ \A i \in 1..Len(backlog) : backlog[i] \notin closed /\ backlog[i] # cur
    /\ \A r \in Requests : answer[r] # "none" => r \in closed
    /\ \A r \in Requests : proc[r] # "none" => r \in closed \/ (r = cur /\ pc \in Working)

\* What runs, and what may still write, belongs to the connection being served.
Serial ==
    /\ \A r \in pipes : r = cur /\ pc \in Working
    /\ \A r \in Running : r = cur /\ pc \in {"exec", "kill"}

\* What is about to be answered, was answered and was received agree.
Honest ==
    /\ status = "ok" => pc = "join" /\ proc[cur] = "succeeded"
    /\ cur # None => peer[cur] = "daemon"
    /\ pc \in Working => pkg[cur] \in Allowlist
    /\ \A r \in Requests : answer[r] = "ok" =>
          proc[r] = "succeeded" /\ peer[r] = "daemon" /\ pkg[r] \in Allowlist
    /\ \A r \in Requests : client[r] = "ok" => answer[r] = "ok"

ChannelInv == TypeOK /\ Served /\ Serial /\ Honest

-----------------------------------------------------------------------------
(* Sequences without repetition.                                           *)

LEMMA BacklogShrinks ==
    ASSUME NEW s \in Seq(Requests), s # << >>, IsInjective(s)
    PROVE  /\ Tail(s) \in Seq(Requests) /\ IsInjective(Tail(s)) /\ Head(s) \in Requests
           /\ Head(s) = s[1] /\ \A i \in 1..Len(Tail(s)) : Tail(s)[i] = s[i + 1] /\ i + 1 \in 1..Len(s)
           /\ \A i \in 1..Len(Tail(s)) : Tail(s)[i] # Head(s)
<1>1. /\ Tail(s) \in Seq(Requests) /\ Head(s) \in Requests /\ Head(s) = s[1]
      /\ Len(s) \in Nat \ {0} /\ Len(Tail(s)) = Len(s) - 1
      /\ \A i \in 1..Len(Tail(s)) : Tail(s)[i] = s[i + 1] /\ i + 1 \in 1..Len(s)
      /\ DOMAIN s = 1..Len(s) /\ DOMAIN Tail(s) = 1..Len(Tail(s))
  OBVIOUS
<1>2. \A i, j \in 1..Len(s) : s[i] = s[j] => i = j
  BY <1>1 DEF IsInjective
<1>3. IsInjective(Tail(s))
  <2> SUFFICES ASSUME NEW i \in 1..Len(Tail(s)), NEW j \in 1..Len(Tail(s)), Tail(s)[i] = Tail(s)[j]
               PROVE  i = j
    BY <1>1 DEF IsInjective
  <2>1. i + 1 = j + 1
    BY <1>1, <1>2
  <2> QED
    BY <2>1, <1>1
<1>4. \A i \in 1..Len(Tail(s)) : Tail(s)[i] # Head(s)
  <2> SUFFICES ASSUME NEW i \in 1..Len(Tail(s)), s[i + 1] = s[1] PROVE FALSE
    BY <1>1
  <2>1. i + 1 = 1
    BY <1>1, <1>2
  <2> QED
    BY <2>1, <1>1
<1> QED
  BY <1>1, <1>3, <1>4

LEMMA BacklogGrows ==
    ASSUME NEW s \in Seq(Requests), IsInjective(s), NEW r \in Requests,
           \A i \in 1..Len(s) : s[i] # r
    PROVE  /\ Append(s, r) \in Seq(Requests) /\ IsInjective(Append(s, r))
           /\ Len(Append(s, r)) = Len(s) + 1
           /\ \A i \in 1..Len(Append(s, r)) : 
               Append(s, r)[i] = r \/ (i \in 1..Len(s) /\ Append(s, r)[i] = s[i])
<1> DEFINE t == Append(s, r)
<1>1. /\ t \in Seq(Requests) /\ Len(t) = Len(s) + 1 /\ Len(s) \in Nat
      /\ DOMAIN s = 1..Len(s) /\ DOMAIN t = 1..Len(s) + 1
      /\ \A i \in 1..Len(s) : t[i] = s[i]
      /\ t[Len(s) + 1] = r
  OBVIOUS
<1>2. \A i, j \in 1..Len(s) : s[i] = s[j] => i = j
  BY <1>1 DEF IsInjective
<1>3. \A i \in 1..Len(t) : (i \in 1..Len(s) /\ t[i] = s[i]) \/ (i = Len(s) + 1 /\ t[i] = r)
  BY <1>1
<1> HIDE DEF t
<1>4. \A i, j \in 1..Len(t) : t[i] = t[j] => i = j
  BY <1>1, <1>2, <1>3
<1>5. IsInjective(t)
  BY <1>1, <1>4 DEF IsInjective
<1> QED
  BY <1>1, <1>3, <1>5 DEF t

-----------------------------------------------------------------------------
(* The client.                                                             *)

LEMMA ConnectFailsKeeps ==
    ASSUME ChannelInv, NEW r \in Requests, ConnectFails(r)
    PROVE  ChannelInv'
<1> USE ChannelAssumption DEF ChannelInv, Requests, Results, clientVars, helperVars, childVars
<1>1. TypeOK'
  BY DEF ConnectFails, MayConnect, TypeOK, Served, Serial, Honest, Running, Working
<1>2. Served'
  BY DEF ConnectFails, MayConnect, TypeOK, Served, Serial, Honest, Running, Working
<1>3. Serial'
  BY DEF ConnectFails, MayConnect, TypeOK, Served, Serial, Honest, Running, Working
<1>4. Honest'
  BY DEF ConnectFails, MayConnect, TypeOK, Served, Serial, Honest, Running, Working
<1> QED
  BY <1>1, <1>2, <1>3, <1>4

LEMMA SendPartKeeps ==
    ASSUME ChannelInv, NEW r \in Requests, SendPart(r)
    PROVE  ChannelInv'
<1> USE ChannelAssumption DEF ChannelInv
<1>1. /\ parts[r] < FRAME - 1 /\ parts' = [parts EXCEPT ![r] = @ + 1]
      /\ elapsed' \in {0, elapsed}
      /\ UNCHANGED <<client, pkg, peer, waited, frames, backlog, pc, cur, status, answer, closed,
                     proc, pipes, prompt>>
  BY DEF SendPart, childVars
<1>2. TypeOK'
  <2>1. parts' \in [Requests -> 0..FRAME - 1]
    BY <1>1 DEF TypeOK
  <2>2. elapsed' \in 0..(IF pc = "read" THEN PEER_READ_TIMEOUT ELSE EXEC_TIMEOUT)
    BY <1>1 DEF TypeOK
  <2> QED
    BY <1>1, <2>1, <2>2 DEF TypeOK
<1>3. Served' /\ Serial' /\ Honest'
  BY <1>1 DEF Served, Serial, Honest, Running, Working
<1> QED
  BY <1>2, <1>3

LEMMA SendKeeps ==
    ASSUME ChannelInv, NEW r \in Requests, Send(r)
    PROVE  ChannelInv'
<1> USE DEF ChannelInv
<1>1. /\ client[r] = "connected"
      /\ client' \in {[client EXCEPT ![r] = "unavailable"], [client EXCEPT ![r] = "waiting"]}
      /\ frames' = frames \/ frames' = frames \cup {r}
      /\ UNCHANGED <<pkg, peer, parts, waited, backlog, pc, cur, elapsed, status, answer, closed,
                     proc, pipes, prompt>>
  BY DEF Send, helperVars, childVars
<1>2. /\ client' \in [Requests -> Results \cup {"idle", "connected", "waiting", "gone"}]
      /\ client'[r] # "idle" /\ client'[r] # "ok"
      /\ \A q \in Requests \ {r} : client'[q] = client[q]
  BY <1>1 DEF TypeOK, Results
<1>3. frames' \subseteq Requests
  BY <1>1 DEF TypeOK
<1>4. TypeOK'
  BY <1>1, <1>2, <1>3 DEF TypeOK
<1>5. Served'
  <2>1. \A q \in Requests : client'[q] = "idle" =>
          q \notin closed' /\ q # cur' /\ q \notin frames' /\ \A i \in 1..Len(backlog') : backlog'[i] # q
    BY <1>1, <1>2 DEF Served
  <2> QED
    BY <1>1, <2>1 DEF Served, Working
<1>6. Serial'
  BY <1>1 DEF Serial, Running, Working
<1>7. Honest'
  BY <1>1, <1>2 DEF Honest, Working
<1> QED
  BY <1>4, <1>5, <1>6, <1>7

LEMMA ReceiveKeeps ==
    ASSUME ChannelInv, NEW r \in Requests, Receive(r)
    PROVE  ChannelInv'
<1> USE ChannelAssumption DEF ChannelInv, Requests, Results, clientVars, helperVars, childVars
<1>0. \A q \in Requests : client'[q] = "idle" => client[q] = "idle"
  BY DEF TypeOK, Receive
<1>1. TypeOK'
  <2>1. /\ client' \in [Requests -> Results \cup {"idle", "connected", "waiting", "gone"}]
        /\ waited' \in [Requests -> 0..READ_TIMEOUT]
    BY DEF Receive, TypeOK
  <2> QED
    BY <2>1 DEF Receive, TypeOK
<1>2. Served'
  BY <1>0 DEF Receive, TypeOK, Served, Serial, Honest, Running, Working
<1>3. Serial'
  BY <1>0 DEF Receive, TypeOK, Served, Serial, Honest, Running, Working
<1>4. Honest'
  BY <1>0 DEF Receive, TypeOK, Served, Serial, Honest, Running, Working
<1> QED
  BY <1>1, <1>2, <1>3, <1>4

LEMMA ReceiveFailsKeeps ==
    ASSUME ChannelInv, NEW r \in Requests, ReceiveFails(r)
    PROVE  ChannelInv'
<1> USE ChannelAssumption DEF ChannelInv, Requests, Results, clientVars, helperVars, childVars
<1>1. TypeOK'
  <2>1. client' = [client EXCEPT ![r] = "unavailable"] /\ waited' = [waited EXCEPT ![r] = 0]
    BY DEF ReceiveFails
  <2>2. client' \in [Requests -> Results \cup {"idle", "connected", "waiting", "gone"}]
    BY <2>1 DEF TypeOK
  <2>3. waited' \in [Requests -> 0..READ_TIMEOUT]
    BY <2>1 DEF TypeOK
  <2>4. UNCHANGED <<pkg, peer, parts, frames, helperVars, childVars, prompt>>
    BY DEF ReceiveFails
  <2> QED
    BY <2>2, <2>3, <2>4 DEF TypeOK
<1>2. Served'
  BY DEF ReceiveFails, TypeOK, Served, Serial, Honest, Running, Working
<1>3. Serial'
  BY DEF ReceiveFails, TypeOK, Served, Serial, Honest, Running, Working
<1>4. Honest'
  BY DEF ReceiveFails, TypeOK, Served, Serial, Honest, Running, Working
<1> QED
  BY <1>1, <1>2, <1>3, <1>4

LEMMA DaemonDiesKeeps ==
    ASSUME ChannelInv, DaemonDies
    PROVE  ChannelInv'
<1> USE ChannelAssumption DEF ChannelInv, Requests, Results, clientVars, helperVars, childVars
<1>1. TypeOK'
  <2>1. /\ client' = [r \in Requests |->
                       IF r \in Open /\ peer[r] = "daemon" THEN "gone" ELSE client[r]]
        /\ waited' = [r \in Requests |-> IF peer[r] = "daemon" THEN 0 ELSE waited[r]]
    BY DEF DaemonDies
  <2>2. client' \in [Requests -> Results \cup {"idle", "connected", "waiting", "gone"}]
    BY <2>1 DEF TypeOK
  <2>3. waited' \in [Requests -> 0..READ_TIMEOUT]
    BY <2>1 DEF TypeOK
  <2>4. UNCHANGED <<pkg, peer, parts, frames, helperVars, childVars, prompt>>
    BY DEF DaemonDies
  <2> QED
    BY <2>2, <2>3, <2>4 DEF TypeOK
<1>2. Served'
  BY DEF DaemonDies, Open, TypeOK, Served, Serial, Honest, Running, Working
<1>3. Serial'
  BY DEF DaemonDies, Open, TypeOK, Served, Serial, Honest, Running, Working
<1>4. Honest'
  BY DEF DaemonDies, Open, TypeOK, Served, Serial, Honest, Running, Working
<1> QED
  BY <1>1, <1>2, <1>3, <1>4

-----------------------------------------------------------------------------
(* The helper.                                                             *)

\* handle_connection returns: the connection it served is closed.
LEMMA FinishServed ==
    ASSUME ChannelInv, NEW resp, Finish(resp), pc # "accept", proc' = proc
    PROVE  Served'
<1> USE DEF clientVars
<1>0. None \notin Requests
  BY ChannelAssumption DEF Requests
<1>1. /\ cur \in Requests /\ cur' = None /\ None \notin Requests /\ closed \subseteq Requests
      /\ closed' = closed \cup {cur}
      /\ client' = client /\ frames' = frames /\ backlog' = backlog
      /\ answer \in [Requests -> {"none", "ok", "error"}] /\ answer' = [answer EXCEPT ![cur] = resp]
  BY <1>0 DEF ChannelInv, TypeOK, Finish
<1>2. Served
  BY DEF ChannelInv
<1>3. \A i \in 1..Len(backlog) : backlog[i] \in Requests
  BY DEF ChannelInv, TypeOK
<1>4. \A r \in Requests : client'[r] = "idle" =>
        r \notin closed' /\ r # cur' /\ r \notin frames' /\ \A i \in 1..Len(backlog') : backlog'[i] # r
  BY <1>1, <1>2 DEF Served
<1>5. cur' \notin closed'
  BY <1>1
<1>8. \A i \in 1..Len(backlog') : backlog'[i] \notin closed' /\ backlog'[i] # cur'
  BY <1>1, <1>2, <1>3 DEF Served
<1>6. \A r \in Requests : answer'[r] # "none" => r \in closed'
  BY <1>1, <1>2 DEF Served
<1>7. \A r \in Requests : proc'[r] # "none" => r \in closed' \/ (r = cur' /\ pc' \in Working)
  BY <1>1, <1>2 DEF Served
<1> QED
  BY <1>4, <1>5, <1>6, <1>7, <1>8 DEF Served

LEMMA ReadFailsKeeps ==
    ASSUME ChannelInv, ReadFails
    PROVE  ChannelInv'
<1> USE ChannelAssumption DEF ChannelInv, Requests, Results, clientVars, helperVars, childVars
<1>1. TypeOK'
  BY DEF ReadFails, Finish, TypeOK, Served, Serial, Honest, Running, Working
<1>2. Served'
  BY FinishServed DEF ReadFails
<1>3. Serial'
  BY DEF ReadFails, Finish, TypeOK, Served, Serial, Honest, Running, Working
<1>4. Honest'
  BY DEF ReadFails, Finish, TypeOK, Served, Serial, Honest, Running, Working
<1> QED
  BY <1>1, <1>2, <1>3, <1>4

LEMMA RejectKeeps ==
    ASSUME ChannelInv, Reject
    PROVE  ChannelInv'
<1> USE ChannelAssumption DEF ChannelInv, Requests, Results, clientVars, helperVars, childVars
<1>1. TypeOK'
  BY DEF Reject, Finish, TypeOK, Served, Serial, Honest, Running, Working
<1>2. Served'
  BY FinishServed DEF Reject
<1>3. Serial'
  BY DEF Reject, Finish, TypeOK, Served, Serial, Honest, Running, Working
<1>4. Honest'
  BY DEF Reject, Finish, TypeOK, Served, Serial, Honest, Running, Working
<1> QED
  BY <1>1, <1>2, <1>3, <1>4

LEMMA SpawnFailsKeeps ==
    ASSUME ChannelInv, SpawnFails
    PROVE  ChannelInv'
<1> USE ChannelAssumption DEF ChannelInv, Requests, Results, clientVars, helperVars, childVars
<1>1. TypeOK'
  <2>1. /\ pc' = "accept" /\ cur' = None /\ elapsed' = 0 /\ status' = "error"
        /\ answer' = [answer EXCEPT ![cur] = "error"] /\ closed' = closed \cup {cur} /\ cur # None
    BY DEF SpawnFails, Finish, TypeOK
  <2>2. answer' \in [Requests -> {"none", "ok", "error"}] /\ closed' \subseteq Requests
    BY <2>1 DEF TypeOK
  <2>3. elapsed' \in 0..EXEC_TIMEOUT
    BY <2>1
  <2>4. UNCHANGED <<clientVars, backlog, childVars, prompt>>
    BY DEF SpawnFails, Finish
  <2> QED
    BY <2>1, <2>2, <2>3, <2>4 DEF TypeOK
<1>2. Served'
  BY FinishServed DEF SpawnFails
<1>3. Serial'
  BY DEF SpawnFails, Finish, TypeOK, Served, Serial, Honest, Running, Working
<1>4. Honest'
  BY DEF SpawnFails, Finish, TypeOK, Served, Serial, Honest, Running, Working
<1> QED
  BY <1>1, <1>2, <1>3, <1>4

LEMMA JoinKeeps ==
    ASSUME ChannelInv, Join
    PROVE  ChannelInv'
<1> USE ChannelAssumption DEF ChannelInv, Requests, Results, clientVars, helperVars, childVars
<1>1. TypeOK'
  <2>1. /\ pc' = "accept" /\ cur' = None /\ elapsed' = 0 /\ status' = "error"
        /\ answer' = [answer EXCEPT ![cur] = status] /\ closed' = closed \cup {cur}
    BY DEF Join, Finish
  <2>2. answer' \in [Requests -> {"none", "ok", "error"}] /\ closed' \subseteq Requests
    BY <2>1 DEF Join, TypeOK
  <2>3. elapsed' \in 0..EXEC_TIMEOUT
    BY <2>1
  <2>4. UNCHANGED <<clientVars, backlog, childVars, prompt>>
    BY DEF Join, Finish
  <2> QED
    BY <2>1, <2>2, <2>3, <2>4 DEF TypeOK
<1>2. Served'
  BY FinishServed DEF Join
<1>3. Serial'
  BY DEF Join, Finish, TypeOK, Served, Serial, Honest, Running, Working
<1>4. Honest'
  BY DEF Join, Finish, TypeOK, Served, Serial, Honest, Running, Working
<1> QED
  BY <1>1, <1>2, <1>3, <1>4

LEMMA SpawnKeeps ==
    ASSUME ChannelInv, Spawn
    PROVE  ChannelInv'
<1> USE ChannelAssumption DEF ChannelInv, Requests, Results, clientVars, helperVars, childVars
<1>1. TypeOK'
  <2>1. /\ pc' = "exec" /\ elapsed' = 0 /\ cur' = cur /\ pc = "read"
        /\ proc' = [proc EXCEPT ![cur] = "running"] /\ pipes' = pipes \cup {cur}
    BY DEF Spawn
  <2>2. proc' \in [Requests -> {"none", "running", "succeeded", "failed", "killed"}]
    BY <2>1 DEF TypeOK
  <2>3. cur' \in Requests /\ cur' # None /\ pipes' \subseteq Requests /\ elapsed' \in 0..EXEC_TIMEOUT
    BY <2>1 DEF TypeOK
  <2>4. UNCHANGED <<clientVars, backlog, status, answer, closed, prompt>>
    BY DEF Spawn
  <2> QED
    BY <2>1, <2>2, <2>3, <2>4 DEF TypeOK
<1>2. Served'
  <2>1. /\ pc' = "exec" /\ cur' = cur /\ proc' = [proc EXCEPT ![cur] = "running"]
        /\ UNCHANGED <<clientVars, backlog, answer, closed>>
    BY DEF Spawn
  <2>2. \A r \in Requests : r # cur => proc'[r] = proc[r]
    BY <2>1 DEF TypeOK
  <2>3. \A r \in Requests : proc'[r] # "none" => r \in closed \/ r = cur
    BY <2>2 DEF Served
  <2> QED
    BY <2>1, <2>3 DEF Served, Working
<1>3. Serial'
  BY DEF Spawn, Permits, TypeOK, Served, Serial, Honest, Running, Working
<1>4. Honest'
  BY DEF Spawn, Permits, TypeOK, Served, Serial, Honest, Running, Working
<1> QED
  BY <1>1, <1>2, <1>3, <1>4

LEMMA NoticeKeeps ==
    ASSUME ChannelInv, Notice
    PROVE  ChannelInv'
<1> USE ChannelAssumption DEF ChannelInv, Requests, Results, clientVars, helperVars, childVars
<1>1. TypeOK'
  BY DEF Notice, TypeOK, Served, Serial, Honest, Running, Working
<1>2. Served'
  BY DEF Notice, TypeOK, Served, Serial, Honest, Running, Working
<1>3. Serial'
  BY DEF Notice, TypeOK, Served, Serial, Honest, Running, Working
<1>4. Honest'
  BY DEF Notice, TypeOK, Served, Serial, Honest, Running, Working
<1> QED
  BY <1>1, <1>2, <1>3, <1>4

LEMMA DeadlinePassedKeeps ==
    ASSUME ChannelInv, DeadlinePassed
    PROVE  ChannelInv'
<1> USE ChannelAssumption DEF ChannelInv, Requests, Results, clientVars, helperVars, childVars
<1>1. TypeOK'
  BY DEF DeadlinePassed, TypeOK, Served, Serial, Honest, Running, Working
<1>2. Served'
  BY DEF DeadlinePassed, TypeOK, Served, Serial, Honest, Running, Working
<1>3. Serial'
  BY DEF DeadlinePassed, TypeOK, Served, Serial, Honest, Running, Working
<1>4. Honest'
  BY DEF DeadlinePassed, TypeOK, Served, Serial, Honest, Running, Working
<1> QED
  BY <1>1, <1>2, <1>3, <1>4

LEMMA WaitFailsKeeps ==
    ASSUME ChannelInv, WaitFails
    PROVE  ChannelInv'
<1> USE ChannelAssumption DEF ChannelInv, Requests, Results, clientVars, helperVars, childVars
<1>1. TypeOK'
  BY DEF WaitFails, TypeOK, Served, Serial, Honest, Running, Working
<1>2. Served'
  BY DEF WaitFails, TypeOK, Served, Serial, Honest, Running, Working
<1>3. Serial'
  BY DEF WaitFails, TypeOK, Served, Serial, Honest, Running, Working
<1>4. Honest'
  BY DEF WaitFails, TypeOK, Served, Serial, Honest, Running, Working
<1> QED
  BY <1>1, <1>2, <1>3, <1>4

LEMMA KillKeeps ==
    ASSUME ChannelInv, Kill
    PROVE  ChannelInv'
<1> USE ChannelAssumption DEF ChannelInv, Requests, Results, clientVars, helperVars, childVars
<1>1. TypeOK'
  BY DEF Kill, TypeOK, Served, Serial, Honest, Running, Working
<1>2. Served'
  BY DEF Kill, TypeOK, Served, Serial, Honest, Running, Working
<1>3. Serial'
  BY DEF Kill, TypeOK, Served, Serial, Honest, Running, Working
<1>4. Honest'
  BY DEF Kill, TypeOK, Served, Serial, Honest, Running, Working
<1> QED
  BY <1>1, <1>2, <1>3, <1>4

LEMMA ManagerEndsKeeps ==
    ASSUME ChannelInv, ManagerEnds
    PROVE  ChannelInv'
<1> USE ChannelAssumption DEF ChannelInv, Requests, Results, clientVars, helperVars, childVars
<1>1. TypeOK'
  <2>1. /\ proc' \in [Requests -> {"none", "running", "succeeded", "failed", "killed"}]
        /\ pipes' \subseteq Requests /\ prompt' \subseteq Requests
    <3>1. PICK r \in Requests, result \in {"succeeded", "failed"} :
            /\ proc' = [proc EXCEPT ![r] = result]
            /\ pipes' = pipes \ {r} \/ pipes' = (pipes \ {r}) \cup {r}
            /\ prompt' = prompt \ pipes'
      BY DEF ManagerEnds
    <3>2. prompt' \subseteq Requests
      BY <3>1 DEF TypeOK
    <3> QED
      BY <3>1, <3>2 DEF TypeOK
  <2>2. UNCHANGED <<clientVars, helperVars>>
    BY DEF ManagerEnds
  <2> QED
    BY <2>1, <2>2 DEF TypeOK
<1>2. Served'
  BY DEF ManagerEnds, TypeOK, Served, Serial, Honest, Running, Working
<1>3. Serial'
  BY DEF ManagerEnds, TypeOK, Served, Serial, Honest, Running, Working
<1>4. Honest'
  BY DEF ManagerEnds, TypeOK, Served, Serial, Honest, Running, Working
<1> QED
  BY <1>1, <1>2, <1>3, <1>4

LEMMA DescendantEndsKeeps ==
    ASSUME ChannelInv, DescendantEnds
    PROVE  ChannelInv'
<1> USE ChannelAssumption DEF ChannelInv, Requests, Results, clientVars, helperVars, childVars
<1>1. TypeOK'
  BY DEF DescendantEnds, TypeOK
<1>2. Served'
  BY DEF DescendantEnds, TypeOK, Served, Serial, Honest, Running, Working
<1>3. Serial'
  BY DEF DescendantEnds, TypeOK, Served, Serial, Honest, Running, Working
<1>4. Honest'
  BY DEF DescendantEnds, TypeOK, Served, Serial, Honest, Running, Working
<1> QED
  BY <1>1, <1>2, <1>3, <1>4

LEMMA TickKeeps ==
    ASSUME ChannelInv, Tick
    PROVE  ChannelInv'
<1> USE ChannelAssumption DEF ChannelInv, Requests, Results, clientVars, helperVars, childVars
<1>1. TypeOK'
  <2>1. elapsed' \in 0..(IF pc = "read" THEN PEER_READ_TIMEOUT ELSE EXEC_TIMEOUT)
    BY DEF Tick, Urgent, PeerSilent, TypeOK
  <2>2. ASSUME NEW r \in Requests, client[r] = "waiting" PROVE waited[r] + 1 \in 0..READ_TIMEOUT
    <3>1. waited[r] \in 0..READ_TIMEOUT /\ READ_TIMEOUT \in Nat
      BY DEF TypeOK
    <3>2. ~ (waited[r] >= READ_TIMEOUT)
      BY <2>2 DEF Tick, Urgent, ReadExpired
    <3> QED
      BY <3>1, <3>2
  <2>3. waited' \in [Requests -> 0..READ_TIMEOUT]
    BY <2>2 DEF Tick, TypeOK
  <2> QED
    BY <2>1, <2>3 DEF Tick, TypeOK
<1>2. Served'
  BY DEF Tick, TypeOK, Served, Serial, Honest, Running, Working
<1>3. Serial'
  BY DEF Tick, TypeOK, Served, Serial, Honest, Running, Working
<1>4. Honest'
  BY DEF Tick, TypeOK, Served, Serial, Honest, Running, Working
<1> QED
  BY <1>1, <1>2, <1>3, <1>4

LEMMA HelperDiesKeeps ==
    ASSUME ChannelInv, HelperDies
    PROVE  ChannelInv'
<1> USE ChannelAssumption DEF ChannelInv, Requests, Results, clientVars, helperVars, childVars
<1> DEFINE left == {backlog[i] : i \in 1..Len(backlog)}
<1>1. PICK kept \in {backlog, << >>} :
        backlog' = kept /\ closed' = closed \cup ({cur} \ {None}) \cup (ToSet(backlog) \ ToSet(kept))
  BY DEF HelperDies
<1>2. /\ DOMAIN backlog = 1..Len(backlog) /\ ToSet(backlog) = left
      /\ left \subseteq Requests
      /\ ToSet(<< >>) = {} /\ Len(<< >>) = 0
  <2>1. DOMAIN backlog = 1..Len(backlog) /\ \A i \in 1..Len(backlog) : backlog[i] \in Requests
    <3> HIDE DEF Requests
    <3>1. backlog \in Seq(Requests)
      BY DEF TypeOK
    <3> QED
      BY <3>1
  <2>2. ToSet(<< >>) = {} /\ Len(<< >>) = 0
    BY DEF ToSet
  <2> QED
    BY <2>1, <2>2 DEF ToSet
<1>3. /\ closed \cup ({cur} \ {None}) \subseteq closed'
      /\ closed' \subseteq closed \cup ({cur} \ {None}) \cup left
      /\ backlog' = backlog => closed' = closed \cup ({cur} \ {None})
      /\ backlog' = backlog \/ (backlog' = << >> /\ Len(backlog') = 0)
  BY <1>1, <1>2
<1> HIDE DEF left
<1>4. /\ pc' = "accept" /\ cur' = None /\ elapsed' = 0 /\ status' = "error" /\ pipes' = {}
      /\ proc' = [r \in Requests |-> IF proc[r] = "running" THEN "killed" ELSE proc[r]]
      /\ prompt' \subseteq prompt
      /\ client' = client /\ pkg' = pkg /\ peer' = peer /\ parts' = parts /\ waited' = waited
      /\ frames' = frames /\ answer' = answer
  BY DEF HelperDies
<1>5. TypeOK'
  <2>1. closed' \subseteq Requests
    BY <1>2, <1>3 DEF TypeOK
  <2>2. IsInjective(<< >>) /\ << >> \in Seq(Requests)
    BY DEF IsInjective
  <2>3. backlog' \in Seq(Requests) /\ IsInjective(backlog')
    BY <1>3, <2>2 DEF TypeOK
  <2>4. /\ proc' \in [Requests -> {"none", "running", "succeeded", "failed", "killed"}]
        /\ elapsed' \in 0..EXEC_TIMEOUT /\ prompt' \subseteq Requests
    BY <1>4 DEF TypeOK
  <2>5. pc' = "accept" /\ cur' = None /\ status' = "error" /\ pipes' = {}
    BY <1>4
  <2>6. /\ UNCHANGED <<client, pkg, peer, parts, waited, frames, answer>>
    BY <1>4
  <2> QED
    BY <2>1, <2>3, <2>4, <2>5, <2>6 DEF TypeOK
<1>6. Served'
  <2>1. \A r \in Requests : client'[r] = "idle" =>
          r \notin closed' /\ r # cur' /\ r \notin frames' /\ \A i \in 1..Len(backlog') : backlog'[i] # r
    BY <1>3, <1>4 DEF Served, left
  <2>2. cur' \notin closed'
    BY <1>2, <1>3, <1>4 DEF TypeOK
  <2>3. \A i \in 1..Len(backlog') : backlog'[i] \notin closed' /\ backlog'[i] # cur'
    BY <1>2, <1>3, <1>4 DEF Served, left
  <2>4. \A r \in Requests : answer'[r] # "none" => r \in closed'
    BY <1>3, <1>4 DEF Served
  <2>5. \A r \in Requests : proc'[r] # "none" => r \in closed'
    BY <1>3, <1>4 DEF Served
  <2> QED
    BY <2>1, <2>2, <2>3, <2>4, <2>5 DEF Served
<1>7. Serial'
  BY <1>4 DEF Serial, Running, TypeOK
<1>8. Honest'
  BY <1>4 DEF Honest, TypeOK, Working
<1> QED
  BY <1>5, <1>6, <1>7, <1>8

LEMMA ConnectKeeps ==
    ASSUME ChannelInv, NEW r \in Requests, Connect(r)
    PROVE  ChannelInv'
<1> USE ChannelAssumption DEF ChannelInv, Requests, Results, childVars
<1>1. PICK who \in {"daemon", "other"}, p \in Packages :
        /\ client[r] = "idle" /\ client' = [client EXCEPT ![r] = "connected"]
        /\ peer' = [peer EXCEPT ![r] = who] /\ pkg' = [pkg EXCEPT ![r] = p]
        /\ backlog' = Append(backlog, r)
        /\ prompt' = IF backlog = << >> /\ pc = "accept" THEN prompt \cup {r} ELSE prompt
        /\ UNCHANGED <<parts, waited, frames, pc, cur, elapsed, status, answer, closed, proc, pipes>>
  BY DEF Connect, MayConnect
<1>2. r \notin closed /\ r # cur /\ \A i \in 1..Len(backlog) : backlog[i] # r
  BY <1>1 DEF Served
<1>3. /\ backlog' \in Seq(Requests) /\ IsInjective(backlog')
      /\ \A i \in 1..Len(backlog') :
            backlog'[i] = r \/ (i \in 1..Len(backlog) /\ backlog'[i] = backlog[i])
  <2>1. backlog \in Seq(Requests) /\ IsInjective(backlog)
    BY DEF TypeOK
  <2>2. /\ Append(backlog, r) \in Seq(Requests) /\ IsInjective(Append(backlog, r))
        /\ \A i \in 1..Len(Append(backlog, r)) :
              Append(backlog, r)[i] = r \/ (i \in 1..Len(backlog) /\ Append(backlog, r)[i] = backlog[i])
    BY <1>2, <2>1, BacklogGrows
  <2> QED
    BY <1>1, <2>2
<1>4. answer[r] = "none"
  BY <1>2 DEF Served
<1>5. TypeOK'
  <2>1. /\ client' \in [Requests -> Results \cup {"idle", "connected", "waiting", "gone"}]
        /\ pkg' \in [Requests -> Packages \cup {None}]
        /\ peer' \in [Requests -> {"daemon", "other", None}]
        /\ prompt' \subseteq Requests
    BY <1>1 DEF TypeOK
  <2> QED
    BY <1>1, <1>3, <2>1 DEF TypeOK
<1>6. Served'
  <2>1. \A q \in Requests : client'[q] = "idle" => client[q] = "idle" /\ q # r
    BY <1>1 DEF TypeOK
  <2>2. \A q \in Requests : client'[q] = "idle" =>
          q \notin closed' /\ q # cur' /\ q \notin frames' /\ \A i \in 1..Len(backlog') : backlog'[i] # q
    BY <1>1, <1>3, <2>1 DEF Served
  <2>3. \A i \in 1..Len(backlog') : backlog'[i] \notin closed' /\ backlog'[i] # cur'
    BY <1>1, <1>2, <1>3 DEF Served
  <2> QED
    BY <1>1, <2>2, <2>3 DEF Served, Working
<1>7. Serial'
  BY <1>1 DEF Serial, Running, Working
<1>8. Honest'
  BY <1>1, <1>2, <1>4 DEF Honest, TypeOK, Working
<1> QED
  BY <1>5, <1>6, <1>7, <1>8

LEMMA AcceptKeeps ==
    ASSUME ChannelInv, Accept
    PROVE  ChannelInv'
<1> USE ChannelAssumption DEF ChannelInv, Requests, Results, clientVars, childVars
<1>1. /\ backlog # << >> /\ peer[Head(backlog)] = "daemon" /\ pc = "accept"
      /\ cur' = Head(backlog) /\ backlog' = Tail(backlog) /\ pc' = "read" /\ elapsed' = 0
      /\ UNCHANGED <<client, pkg, peer, parts, waited, frames, status, answer, closed, proc, pipes, prompt>>
  BY DEF Accept
<1>0. /\ pc = "accept" /\ pc' = "read" /\ elapsed' = 0
      /\ UNCHANGED <<client, pkg, peer, parts, waited, frames, status, answer, closed, proc, pipes, prompt>>
  BY <1>1
<1>2. /\ backlog' \in Seq(Requests) /\ IsInjective(backlog') /\ cur' \in Requests
      /\ cur' = backlog[1] /\ 1 \in 1..Len(backlog)
      /\ \A i \in 1..Len(backlog') : backlog'[i] = backlog[i + 1] /\ i + 1 \in 1..Len(backlog)
      /\ \A i \in 1..Len(backlog') : backlog'[i] # cur'
  <2>1. backlog \in Seq(Requests) /\ IsInjective(backlog)
    BY DEF TypeOK
  <2> HIDE DEF Requests, ChannelInv
  <2> QED
    BY <1>1, <2>1, BacklogShrinks
<1>3. TypeOK'
  <2>1. cur' \in Requests \cup {None} /\ (cur' = None <=> pc' = "accept") /\ elapsed' \in 0..PEER_READ_TIMEOUT
    BY <1>0, <1>2
  <2> QED
    BY <1>0, <1>2, <2>1 DEF TypeOK
<1>4. Served'
  <2>1. \A r \in Requests : client[r] = "idle" => r # cur' /\ \A i \in 1..Len(backlog') : backlog'[i] # r
    <3> SUFFICES ASSUME NEW r \in Requests, client[r] = "idle"
                 PROVE  r # cur' /\ \A i \in 1..Len(backlog') : backlog'[i] # r
      OBVIOUS
    <3>1. \A i \in 1..Len(backlog) : backlog[i] # r
      BY DEF Served
    <3> QED
      BY <1>2, <3>1
  <2>2. cur' \notin closed' /\ \A i \in 1..Len(backlog') : backlog'[i] \notin closed'
    BY <1>0, <1>2 DEF Served
  <2>3. \A r \in Requests : proc'[r] # "none" => r \in closed'
    BY <1>0 DEF Served, Working
  <2> QED
    BY <1>0, <1>2, <2>1, <2>2, <2>3 DEF Served
<1>5. Serial'
  BY <1>1 DEF Serial, Running, Working
<1>6. Honest'
  BY <1>1 DEF Honest, Working
<1> QED
  BY <1>3, <1>4, <1>5, <1>6

LEMMA DropKeeps ==
    ASSUME ChannelInv, Drop, proc' = proc
    PROVE  ChannelInv'
<1> USE ChannelAssumption DEF ChannelInv, Requests, Results, clientVars, childVars
<1>1. /\ backlog # << >> /\ pc = "accept"
      /\ backlog' = Tail(backlog) /\ closed' = closed \cup {Head(backlog)}
      /\ UNCHANGED <<client, pkg, peer, parts, waited, frames, pc, cur, elapsed, status, answer, proc, pipes, prompt>>
  BY DEF Drop
<1>2. /\ backlog' \in Seq(Requests) /\ IsInjective(backlog') /\ Head(backlog) \in Requests
      /\ Head(backlog) = backlog[1] /\ 1 \in 1..Len(backlog)
      /\ \A i \in 1..Len(backlog') : backlog'[i] = backlog[i + 1] /\ i + 1 \in 1..Len(backlog)
      /\ \A i \in 1..Len(backlog') : backlog'[i] # Head(backlog)
  <2>1. backlog \in Seq(Requests) /\ IsInjective(backlog)
    BY DEF TypeOK
  <2> HIDE DEF Requests, ChannelInv
  <2> QED
    BY <1>1, <2>1, BacklogShrinks
<1>3. TypeOK'
  BY <1>1, <1>2 DEF TypeOK
<1>4. Served'
  <2>1. \A r \in Requests : client[r] = "idle" =>
          r \notin closed' /\ \A i \in 1..Len(backlog') : backlog'[i] # r
    BY <1>1, <1>2 DEF Served
  <2>2. cur' \notin closed'
    BY <1>1, <1>2 DEF Served
  <2>3. \A i \in 1..Len(backlog') : backlog'[i] \notin closed' /\ backlog'[i] # cur'
    BY <1>1, <1>2 DEF Served
  <2> QED
    BY <1>1, <2>1, <2>2, <2>3 DEF Served, Working
<1>5. Serial'
  BY <1>1 DEF Serial, Running, Working
<1>6. Honest'
  BY <1>1 DEF Honest, Working
<1> QED
  BY <1>3, <1>4, <1>5, <1>6

-----------------------------------------------------------------------------
(* The invariant and what it says of the runs' properties.                 *)

LEMMA InitInv == Init => ChannelInv
<1> USE ChannelAssumption DEF Init, Requests
<1>1. Init => backlog \in Seq(Requests) /\ IsInjective(backlog) /\ Len(backlog) = 0
  BY DEF IsInjective
<1>2. Init => TypeOK
  BY <1>1 DEF TypeOK, Results
<1>3. Init => Served /\ Serial
  BY <1>1 DEF Served, Serial, Running, Working
<1>4. Init => Honest
  BY DEF Honest, Working
<1> QED
  BY <1>2, <1>3, <1>4 DEF ChannelInv

LEMMA StutterKeeps == ChannelInv /\ UNCHANGED vars => ChannelInv'
<1> USE DEF vars
<1>1. ChannelInv /\ UNCHANGED vars => TypeOK'
  BY DEF ChannelInv, TypeOK
<1>2. ChannelInv /\ UNCHANGED vars => Served' /\ Serial' /\ Honest'
  BY DEF ChannelInv, Served, Serial, Honest, Running, Working
<1> QED
  BY <1>1, <1>2 DEF ChannelInv

LEMMA StepInv == ChannelInv /\ [Next]_vars => ChannelInv'
<1> SUFFICES ASSUME ChannelInv, [Next]_vars PROVE ChannelInv'
  OBVIOUS
<1>1. ASSUME NEW r \in Requests, Client(r) PROVE ChannelInv'
  BY <1>1, ConnectKeeps, ConnectFailsKeeps, SendPartKeeps, SendKeeps, ReceiveKeeps, ReceiveFailsKeeps DEF Client
<1>2. CASE Refuse \/ SetupFails
  BY <1>2, DropKeeps DEF Refuse, SetupFails, Drop, childVars
<1>3. CASE Accept \/ ReadFails \/ Reject \/ Spawn \/ SpawnFails
  BY <1>3, AcceptKeeps, ReadFailsKeeps, RejectKeeps, SpawnKeeps, SpawnFailsKeeps
<1>4. CASE Notice \/ DeadlinePassed \/ WaitFails \/ Kill \/ Join
  BY <1>4, NoticeKeeps, DeadlinePassedKeeps, WaitFailsKeeps, KillKeeps, JoinKeeps
<1>5. CASE DaemonDies \/ HelperDies \/ ManagerEnds \/ DescendantEnds \/ Tick
  BY <1>5, DaemonDiesKeeps, HelperDiesKeeps, ManagerEndsKeeps, DescendantEndsKeeps, TickKeeps
<1>6. CASE RequestsSpent \/ UNCHANGED vars
  BY <1>6, StutterKeeps DEF RequestsSpent
<1> QED
  BY <1>1, <1>2, <1>3, <1>4, <1>5, <1>6 DEF Next, Helper, HelperFails

LEMMA Invariance == Spec => []ChannelInv
<1> QED
  BY InitInv, StepInv, PTL DEF Spec

\* Two operations never overlap: whatever runs or may still write to the
\* stderr of an operation belongs to the connection that is being served.
THEOREM Serialized == Spec => []OperationsDoNotOverlap
<1>1. ChannelInv => OperationsDoNotOverlap
  <2> SUFFICES ASSUME ChannelInv PROVE OperationsDoNotOverlap
    OBVIOUS
  <2>1. pipes \cup {r \in Requests : proc[r] = "running"} \in SUBSET {cur}
    BY DEF ChannelInv, Serial, Running
  <2>2. IsFiniteSet({cur}) /\ Cardinality({cur}) = 1
    BY FS_Singleton
  <2>3. Cardinality(pipes \cup {r \in Requests : proc[r] = "running"}) <= Cardinality({cur})
    BY <2>1, <2>2, FS_Subset
  <2> QED
    BY <2>2, <2>3 DEF OperationsDoNotOverlap
<1> QED
  BY <1>1, Invariance, PTL

\* A success the client reports was a success of the package manager, for a
\* request the daemon made and the allowlist permits.
THEOREM RealSuccess == Spec => []SuccessIsReal
<1>1. ChannelInv => SuccessIsReal
  BY DEF ChannelInv, Honest, SuccessIsReal
<1> QED
  BY <1>1, Invariance, PTL

-----------------------------------------------------------------------------
(* Deadlines: the client waits longer than the helper works.               *)

\* A request is sent before its client waits and before it is carried out, and
\* the wait is counted from its sending.
SentFirst ==
    \A r \in Requests :
        /\ client[r] = "idle" => r \notin prompt
        /\ client[r] \in {"idle", "connected"} => waited[r] = 0 /\ r \notin frames
        /\ client[r] = "waiting" => r \in frames
        /\ proc[r] # "none" => r \in frames

\* A prompt request is the next to be accepted, being served, or over; while
\* it is served its client has waited no longer than the helper has worked.
OnTime ==
    \A r \in prompt :
        \/ r \in closed
        \/ pc = "accept" /\ backlog # << >> /\ r = backlog[1] /\ waited[r] = 0
        \/ r = cur /\ waited[r] <= (IF pc = "read" THEN 0 ELSE elapsed)

\* Nobody but the package manager of a prompt request holds its pipe, the
\* helper answers it once it is carried out, and its client does not give up.
Answered ==
    \A r \in prompt :
        /\ r \in pipes => proc[r] = "running"
        /\ r \in closed /\ proc[r] # "none" => answer[r] # "none"
        /\ client[r] = "unavailable" => r \in closed /\ proc[r] = "none"

PromptInv == SentFirst /\ OnTime /\ Answered

LEMMA SentFirstStep == ChannelInv /\ SentFirst /\ [Next]_vars => SentFirst'
<1> SUFFICES ASSUME ChannelInv, SentFirst, [Next]_vars PROVE SentFirst'
  OBVIOUS
<1> USE DEF SentFirst, clientVars, helperVars, childVars
<1>0. /\ client \in [Requests -> Results \cup {"idle", "connected", "waiting", "gone"}]
      /\ waited \in [Requests -> 0..READ_TIMEOUT] /\ frames \subseteq Requests
      /\ proc \in [Requests -> {"none", "running", "succeeded", "failed", "killed"}]
      /\ answer \in [Requests -> {"none", "ok", "error"}]
      /\ cur \in Requests \cup {None} /\ (cur = None <=> pc = "accept")
      /\ READ_TIMEOUT \in Nat /\ None \notin Requests
  BY ChannelAssumption DEF ChannelInv, TypeOK, Requests
<1>1. ASSUME NEW r \in Requests, Connect(r) \/ ConnectFails(r) PROVE SentFirst'
  BY <1>0, <1>1 DEF Connect, ConnectFails, MayConnect, Results
<1>2. ASSUME NEW r \in Requests, SendPart(r) \/ Send(r) PROVE SentFirst'
  BY <1>0, <1>2 DEF SendPart, Send
<1>3. ASSUME NEW r \in Requests, Receive(r) \/ ReceiveFails(r) PROVE SentFirst'
  BY <1>0, <1>3 DEF Receive, ReceiveFails
<1>4. CASE DaemonDies
  BY <1>0, <1>4 DEF DaemonDies, Open
<1>5. CASE Accept \/ Refuse \/ SetupFails \/ Notice \/ DeadlinePassed \/ WaitFails \/ DescendantEnds
           \/ RequestsSpent \/ UNCHANGED vars
  BY <1>5 DEF Accept, Refuse, SetupFails, Drop, Notice, DeadlinePassed, WaitFails, DescendantEnds,
     RequestsSpent, vars
<1>6. CASE ReadFails \/ Reject \/ SpawnFails \/ Join
  BY <1>6 DEF ReadFails, Reject, SpawnFails, Join, Finish
<1>7. CASE Spawn
  BY <1>0, <1>7 DEF Spawn
<1>8. CASE Kill
  <2>1. UNCHANGED <<client, waited, frames>> /\ prompt' \subseteq prompt
        /\ \A r \in Requests : proc'[r] # "none" => proc[r] # "none"
    BY <1>0, <1>8 DEF Kill
  <2> QED
    BY <2>1
<1>9. CASE HelperDies
  <2>1. UNCHANGED <<client, waited, frames>> /\ prompt' \subseteq prompt
        /\ \A r \in Requests : proc'[r] # "none" => proc[r] # "none"
    BY <1>0, <1>9 DEF HelperDies
  <2> QED
    BY <2>1
<1>10. CASE ManagerEnds
  <2>1. UNCHANGED <<client, waited, frames>> /\ prompt' \subseteq prompt
        /\ \A r \in Requests : proc'[r] # "none" => proc[r] # "none"
    BY <1>0, <1>10 DEF ManagerEnds
  <2> QED
    BY <2>1
<1>11. CASE Tick
  BY <1>0, <1>11 DEF Tick
<1> QED
  BY <1>1, <1>2, <1>3, <1>4, <1>5, <1>6, <1>7, <1>8, <1>9, <1>10, <1>11
     DEF Next, Client, Helper, HelperFails

\* Steps of the helper that serve no other connection, and of the clients'
\* side that make no waiting longer.
LEMMA StillOnTime ==
    ASSUME ChannelInv, OnTime, prompt' \subseteq prompt, closed' \in {closed, closed \cup {cur}},
           UNCHANGED backlog, \A r \in prompt : waited'[r] \in {waited[r], 0},
           \/ UNCHANGED <<pc, cur, elapsed>>
           \/ cur' = cur /\ elapsed' = elapsed /\ pc \in Working /\ pc' \in Working
           \/ pc # "accept" /\ cur \in closed'
    PROVE  OnTime'
<1> SUFFICES ASSUME NEW r \in prompt'
             PROVE  \/ r \in closed'
                    \/ pc' = "accept" /\ backlog' # << >> /\ r = backlog'[1] /\ waited'[r] = 0
                    \/ r = cur' /\ waited'[r] <= (IF pc' = "read" THEN 0 ELSE elapsed')
  BY DEF OnTime
<1>1. r \in prompt /\ r \in Requests /\ elapsed \in Nat
  BY ChannelAssumption DEF ChannelInv, TypeOK
<1>2. CASE r \in closed
  BY <1>2
<1>3. CASE pc = "accept" /\ backlog # << >> /\ r = backlog[1] /\ waited[r] = 0
  BY <1>1, <1>3 DEF Working
<1>4. CASE r = cur /\ waited[r] <= (IF pc = "read" THEN 0 ELSE elapsed)
  BY <1>1, <1>4 DEF Working
<1> QED
  BY <1>1, <1>2, <1>3, <1>4 DEF OnTime

LEMMA OnTimeStep == ChannelInv /\ SentFirst /\ OnTime /\ Answered /\ [Next]_vars => OnTime'
<1> SUFFICES ASSUME ChannelInv, SentFirst, OnTime, Answered, [Next]_vars PROVE OnTime'
  OBVIOUS
<1> USE DEF clientVars, helperVars, childVars
<1>0. /\ client \in [Requests -> Results \cup {"idle", "connected", "waiting", "gone"}]
      /\ waited \in [Requests -> 0..READ_TIMEOUT] /\ frames \subseteq Requests
      /\ proc \in [Requests -> {"none", "running", "succeeded", "failed", "killed"}]
      /\ prompt \subseteq Requests
      /\ cur \in Requests \cup {None} /\ (cur = None <=> pc = "accept")
      /\ READ_TIMEOUT \in Nat /\ None \notin Requests /\ elapsed \in Nat
      /\ pc \in {"accept", "read", "exec", "kill", "join"} /\ backlog \in Seq(Requests)
  BY ChannelAssumption DEF ChannelInv, TypeOK, Requests
<1>1. ASSUME NEW r \in Requests, Connect(r) PROVE OnTime'
  <2>1. /\ backlog' = Append(backlog, r) /\ client[r] = "idle"
        /\ prompt' = IF backlog = << >> /\ pc = "accept" THEN prompt \cup {r} ELSE prompt
        /\ UNCHANGED <<waited, pc, cur, elapsed, closed>>
    BY <1>1 DEF Connect, MayConnect
  <2>2. waited[r] = 0
    BY <2>1 DEF SentFirst
  <2>3. backlog' # << >> /\ (backlog = << >> => backlog'[1] = r) /\ (backlog # << >> => backlog'[1] = backlog[1])
    BY <1>0, <2>1
  <2> QED
    BY <2>1, <2>2, <2>3 DEF OnTime
<1>2. ASSUME NEW r \in Requests, ConnectFails(r) \/ Send(r) \/ Receive(r) \/ ReceiveFails(r) PROVE OnTime'
  <2>1. /\ UNCHANGED <<backlog, prompt, pc, cur, elapsed, closed>>
        /\ \A q \in Requests : waited'[q] \in {waited[q], 0}
    BY <1>0, <1>2 DEF ConnectFails, Send, Receive, ReceiveFails
  <2> QED
    BY <1>0, <2>1, StillOnTime
<1>3. CASE DaemonDies
  <2>1. /\ UNCHANGED <<backlog, prompt, pc, cur, elapsed, closed>>
        /\ \A q \in Requests : waited'[q] \in {waited[q], 0}
    BY <1>0, <1>3 DEF DaemonDies
  <2> QED
    BY <1>0, <2>1, StillOnTime
<1>4. CASE Accept
  <2>1. /\ pc = "accept" /\ backlog # << >> /\ cur' = backlog[1] /\ pc' = "read"
        /\ UNCHANGED <<waited, closed, prompt>>
    BY <1>0, <1>4 DEF Accept
  <2>2. \A r \in prompt : r # cur
    BY <1>0, <2>1
  <2> QED
    BY <1>0, <2>1, <2>2 DEF OnTime
<1>5. CASE Refuse \/ SetupFails
  <2>1. /\ pc = "accept" /\ backlog # << >> /\ closed' = closed \cup {backlog[1]}
        /\ UNCHANGED <<waited, prompt, pc, cur>>
    BY <1>0, <1>5 DEF Refuse, SetupFails, Drop
  <2>2. \A r \in prompt : r # cur
    BY <1>0, <2>1
  <2> QED
    BY <2>1, <2>2 DEF OnTime
<1>6. CASE ReadFails \/ Reject \/ SpawnFails \/ Join
  <2>1. /\ pc # "accept" /\ closed' = closed \cup {cur} /\ UNCHANGED <<waited, backlog, prompt>>
    BY <1>6 DEF ReadFails, Reject, SpawnFails, Join, Finish
  <2> QED
    BY <2>1, StillOnTime
<1>7. CASE Spawn
  <2>1. /\ pc = "read" /\ pc' = "exec" /\ elapsed' = 0 /\ UNCHANGED <<backlog, cur, waited, closed, prompt>>
    BY <1>7 DEF Spawn
  <2> QED
    BY <1>0, <2>1 DEF OnTime
<1>8. CASE Notice \/ DeadlinePassed \/ WaitFails \/ Kill
  <2>1. /\ pc \in Working /\ pc' \in Working /\ prompt' \subseteq prompt
        /\ UNCHANGED <<backlog, cur, elapsed, waited, closed>>
    BY <1>8 DEF Notice, DeadlinePassed, WaitFails, Kill, Working
  <2> QED
    BY <2>1, StillOnTime
<1>9. CASE ManagerEnds \/ DescendantEnds \/ RequestsSpent \/ UNCHANGED vars
  <2>1. prompt' \subseteq prompt /\ UNCHANGED <<backlog, pc, cur, elapsed, waited, closed>>
    BY <1>9 DEF ManagerEnds, DescendantEnds, RequestsSpent, vars
  <2> QED
    BY <2>1, StillOnTime
<1>10. CASE HelperDies
  <2>1. /\ prompt' = prompt \ ({cur} \cup ToSet(backlog)) /\ closed \subseteq closed'
    BY <1>10 DEF HelperDies
  <2>2. backlog # << >> => backlog[1] \in ToSet(backlog)
    BY <1>0 DEF ToSet
  <2> QED
    BY <2>1, <2>2 DEF OnTime
<1>11. CASE Tick
  <2> SUFFICES ASSUME NEW r \in prompt, r \notin closed
               PROVE  \/ pc = "accept" /\ backlog # << >> /\ r = backlog[1] /\ waited'[r] = 0
                      \/ r = cur /\ waited'[r] <= (IF pc = "read" THEN 0 ELSE elapsed')
    BY <1>11 DEF Tick, OnTime
  <2>1. /\ elapsed' = IF pc \in {"read", "exec"} THEN elapsed + 1 ELSE elapsed
        /\ waited'[r] = IF client[r] = "waiting" THEN waited[r] + 1 ELSE waited[r]
        /\ waited[r] \in Nat /\ r \in Requests
    BY <1>0, <1>11 DEF Tick
  <2>2. /\ ~ (pc = "accept" /\ backlog # << >>)
        /\ ~ (pc = "read" /\ cur \in frames)
        /\ pc # "kill" /\ ~ (pc = "join" /\ cur \notin pipes)
    BY <1>11 DEF Tick, Urgent
  <2>3. r = cur /\ waited[r] <= (IF pc = "read" THEN 0 ELSE elapsed)
    BY <2>2 DEF OnTime
  <2>4. CASE pc = "read"
    <3>1. client[r] # "waiting"
      BY <2>1, <2>2, <2>3, <2>4 DEF SentFirst
    <3> QED
      BY <2>1, <2>3, <2>4, <3>1
  <2>5. CASE pc = "exec"
    BY <1>0, <2>1, <2>3, <2>5
  <2>6. CASE pc = "join"
    <3>1. r \in pipes /\ proc[r] = "running"
      BY <2>2, <2>3, <2>6 DEF Answered
    <3> QED
      BY <2>1, <2>6, <3>1 DEF ChannelInv, Serial, Running
  <2> QED
    BY <1>0, <2>1, <2>2, <2>3, <2>4, <2>5, <2>6
<1>12. ASSUME NEW r \in Requests, SendPart(r) PROVE OnTime'
  <2>1. /\ UNCHANGED <<backlog, prompt, pc, cur, closed, waited>>
        /\ elapsed' = elapsed \/ pc = "read"
    BY <1>12 DEF SendPart
  <2> QED
    BY <2>1 DEF OnTime
<1> QED
  BY <1>1, <1>2, <1>3, <1>4, <1>5, <1>6, <1>7, <1>8, <1>9, <1>10, <1>11, <1>12
     DEF Next, Client, Helper, HelperFails

\* The client of a prompt request never runs out of time.
LEMMA NoPromptExpiry ==
    ASSUME ChannelInv, OnTime, NEW r \in prompt, r \notin closed
    PROVE  ~ ReadExpired(r)
<1>1. /\ r \in Requests /\ waited[r] \in Nat /\ READ_TIMEOUT \in Nat /\ EXEC_TIMEOUT \in Nat
      /\ EXEC_TIMEOUT < READ_TIMEOUT /\ elapsed \in Nat /\ (pc # "read" => elapsed <= EXEC_TIMEOUT)
  BY ChannelAssumption DEF ChannelInv, TypeOK
<1>2. waited[r] <= EXEC_TIMEOUT
  BY <1>1 DEF OnTime
<1> QED
  BY <1>1, <1>2 DEF ReadExpired

LEMMA AnsweredStep == ChannelInv /\ SentFirst /\ OnTime /\ Answered /\ [Next]_vars => Answered'
<1> SUFFICES ASSUME ChannelInv, SentFirst, OnTime, Answered, [Next]_vars PROVE Answered'
  OBVIOUS
<1> USE DEF clientVars, helperVars, childVars
<1>0. /\ client \in [Requests -> Results \cup {"idle", "connected", "waiting", "gone"}]
      /\ proc \in [Requests -> {"none", "running", "succeeded", "failed", "killed"}]
      /\ answer \in [Requests -> {"none", "ok", "error"}] /\ status \in {"ok", "error"}
      /\ prompt \subseteq Requests /\ pipes \subseteq Requests
      /\ cur \in Requests \cup {None} /\ (cur = None <=> pc = "accept")
      /\ None \notin Requests
  BY ChannelAssumption DEF ChannelInv, TypeOK, Requests
<1>1. ASSUME NEW r \in Requests, Connect(r) PROVE Answered'
  <2>1. /\ client[r] = "idle" /\ client' = [client EXCEPT ![r] = "connected"]
        /\ prompt' \subseteq prompt \cup {r}
        /\ UNCHANGED <<closed, proc, pipes, answer>>
    BY <1>1 DEF Connect, MayConnect
  <2>2. r \notin closed /\ proc[r] = "none" /\ r \notin pipes
    BY <2>1 DEF SentFirst, ChannelInv, Served, Serial
  <2> QED
    BY <1>0, <2>1, <2>2 DEF Answered
<1>2. ASSUME NEW r \in Requests, ConnectFails(r) PROVE Answered'
  <2>1. /\ client[r] = "idle" /\ client' = [client EXCEPT ![r] = "unavailable"]
        /\ UNCHANGED <<prompt, closed, proc, pipes, answer>>
    BY <1>2 DEF ConnectFails, MayConnect
  <2>2. r \notin prompt
    BY <2>1 DEF SentFirst
  <2> QED
    BY <1>0, <2>1, <2>2 DEF Answered
<1>3. ASSUME NEW r \in Requests, Send(r) PROVE Answered'
  <2>1. /\ client[r] = "connected"
        /\ client' = [client EXCEPT ![r] = IF r \in closed THEN "unavailable" ELSE "waiting"]
        /\ UNCHANGED <<prompt, closed, proc, pipes, answer>>
    BY <1>3 DEF Send
  <2>2. proc[r] = "none"
    BY <2>1 DEF SentFirst
  <2> QED
    BY <1>0, <2>1, <2>2 DEF Answered
<1>4. ASSUME NEW r \in Requests, Receive(r) PROVE Answered'
  <2>1. /\ client' = [client EXCEPT ![r] = answer[r]] /\ answer[r] \in {"ok", "error"}
        /\ UNCHANGED <<prompt, closed, proc, pipes, answer>>
    BY <1>0, <1>4 DEF Receive
  <2> QED
    BY <1>0, <2>1 DEF Answered
<1>5. ASSUME NEW r \in Requests, ReceiveFails(r) PROVE Answered'
  <2>1. /\ client' = [client EXCEPT ![r] = "unavailable"] /\ answer[r] = "none"
        /\ r \in closed \/ ReadExpired(r)
        /\ UNCHANGED <<prompt, closed, proc, pipes, answer>>
    BY <1>5 DEF ReceiveFails
  <2>2. r \in prompt => r \in closed /\ proc[r] = "none"
    BY <2>1, NoPromptExpiry DEF Answered
  <2> QED
    BY <1>0, <2>1, <2>2 DEF Answered
<1>6. CASE DaemonDies
  <2>1. /\ \A r \in Requests : client'[r] \in {client[r], "gone"}
        /\ UNCHANGED <<prompt, closed, proc, pipes, answer>>
    BY <1>0, <1>6 DEF DaemonDies
  <2> QED
    BY <1>0, <2>1 DEF Answered
<1>7. CASE Refuse \/ SetupFails
  <2>1. /\ backlog # << >> /\ closed' = closed \cup {Head(backlog)}
        /\ UNCHANGED <<client, prompt, proc, pipes, answer>>
    BY <1>7 DEF Refuse, SetupFails, Drop
  <2>2. Head(backlog) \notin closed /\ Head(backlog) # cur /\ Head(backlog) \in Requests
    <3>1. Head(backlog) = backlog[1] /\ 1 \in 1..Len(backlog) /\ Head(backlog) \in Requests
      BY <2>1 DEF ChannelInv, TypeOK
    <3> QED
      BY <3>1 DEF ChannelInv, Served
  <2>3. proc[Head(backlog)] = "none"
    BY <2>2 DEF ChannelInv, Served
  <2> QED
    BY <2>1, <2>3 DEF Answered
<1>8. CASE ReadFails
  <2>1. /\ pc = "read" /\ closed' = closed \cup {cur} /\ answer' = [answer EXCEPT ![cur] = "none"]
        /\ UNCHANGED <<client, prompt, proc, pipes>>
    BY <1>8 DEF ReadFails, Finish
  <2>2. cur \in Requests /\ proc[cur] = "none"
    BY <1>0, <2>1 DEF ChannelInv, Served, Working
  <2> QED
    BY <1>0, <2>1, <2>2 DEF Answered
<1>9. CASE Reject \/ SpawnFails \/ Join
  <2>1. PICK resp \in {"ok", "error"} :
           /\ closed' = closed \cup {cur} /\ answer' = [answer EXCEPT ![cur] = resp]
           /\ UNCHANGED <<client, prompt, proc, pipes>>
    BY <1>0, <1>9 DEF Reject, SpawnFails, Join, Finish
  <2>2. \A r \in prompt : r # cur => (r \in closed' => r \in closed) /\ answer'[r] = answer[r]
    BY <1>0, <2>1
  <2>3. \A r \in prompt : r = cur => answer'[r] # "none"
    BY <1>0, <2>1
  <2> QED
    BY <2>1, <2>2, <2>3 DEF Answered
<1>10. CASE Spawn
  <2>1. /\ pc = "read" /\ proc' = [proc EXCEPT ![cur] = "running"] /\ pipes' = pipes \cup {cur}
        /\ UNCHANGED <<client, prompt, closed, answer>>
    BY <1>10 DEF Spawn
  <2>2. cur \in Requests /\ cur \notin closed
    BY <1>0, <2>1 DEF ChannelInv, Served
  <2> QED
    BY <1>0, <2>1, <2>2 DEF Answered
<1>11. CASE Kill
  <2>1. /\ \A r \in Requests : proc'[r] = "none" <=> proc[r] = "none"
        /\ prompt' = prompt \ pipes' /\ UNCHANGED <<client, closed, answer>>
    BY <1>0, <1>11 DEF Kill
  <2> QED
    BY <1>0, <2>1 DEF Answered
<1>12. CASE HelperDies
  <2>1. /\ \A r \in Requests : proc'[r] = "none" <=> proc[r] = "none"
        /\ prompt' = prompt \ ({cur} \cup ToSet(backlog)) /\ pipes' = {} /\ closed \subseteq closed'
        /\ UNCHANGED <<client, answer>>
    BY <1>0, <1>12 DEF HelperDies
  <2>2. \A r \in prompt' : r \in closed
    <3>1. backlog # << >> => backlog[1] \in ToSet(backlog)
      BY DEF ChannelInv, TypeOK, ToSet
    <3> QED
      BY <2>1, <3>1 DEF OnTime
  <2> QED
    BY <1>0, <2>1, <2>2 DEF Answered
<1>13. CASE ManagerEnds
  <2>1. /\ \A r \in Requests : proc'[r] = "none" <=> proc[r] = "none"
        /\ prompt' = prompt \ pipes' /\ UNCHANGED <<client, closed, answer>>
    BY <1>0, <1>13 DEF ManagerEnds
  <2> QED
    BY <1>0, <2>1 DEF Answered
<1>14. CASE Accept \/ Notice \/ DeadlinePassed \/ WaitFails \/ DescendantEnds \/ Tick
            \/ RequestsSpent \/ UNCHANGED vars
  <2>1. pipes' \subseteq pipes /\ UNCHANGED <<client, prompt, closed, proc, answer>>
    BY <1>14 DEF Accept, Notice, DeadlinePassed, WaitFails, DescendantEnds, Tick, RequestsSpent, vars
  <2> QED
    BY <2>1 DEF Answered
<1>15. ASSUME NEW r \in Requests, SendPart(r) PROVE Answered'
  BY <1>15 DEF SendPart, Answered
<1> QED
  BY <1>1, <1>2, <1>3, <1>4, <1>5, <1>6, <1>7, <1>8, <1>9, <1>10, <1>11, <1>12, <1>13, <1>14, <1>15
     DEF Next, Client, Helper, HelperFails

\* READ_TIMEOUT outlasts EXEC_TIMEOUT (privd_client.rs:20): a request that
\* found the helper free and is reported as unavailable was never begun,
\* whatever the timeouts are, as long as the one is longer than the other.
THEOREM UnavailableNeverBegan == Spec => []UnavailableIsUntouched
<1>1. Init => PromptInv
  <2> SUFFICES ASSUME Init PROVE PromptInv
    OBVIOUS
  <2>1. prompt = {} /\ \A r \in Requests : client[r] = "idle" /\ waited[r] = 0 /\ proc[r] = "none"
    BY DEF Init
  <2>2. frames = {}
    BY DEF Init
  <2> QED
    BY <2>1, <2>2 DEF PromptInv, SentFirst, OnTime, Answered
<1>2. ChannelInv /\ PromptInv /\ [Next]_vars => PromptInv'
  BY SentFirstStep, OnTimeStep, AnsweredStep DEF PromptInv
<1>3. PromptInv => UnavailableIsUntouched
  BY DEF PromptInv, Answered, UnavailableIsUntouched
<1> QED
  BY <1>1, <1>2, <1>3, Invariance, PTL DEF Spec
=============================================================================
