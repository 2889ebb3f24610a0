------------------------------- MODULE AuthApi -------------------------------
(***************************************************************************)
(* The path of an authenticated call: DaemonVerifier (auth/verifier.rs),   *)
(* the policy table (auth/policy.rs), register_scoped and subject_event    *)
(* (api/mod.rs) and the auth.* handlers (api/auth_methods.rs).             *)
(*                                                                         *)
(* A call reads the identity snapshot several times: to authenticate, to   *)
(* name its account in each audit record, and to name the owner of a token *)
(* it creates.  Other calls and the persister change the store between     *)
(* these reads.  The store is the atomic one that IdentityStore            *)
(* implements.  Time is the action Expire; rate limiting and the package   *)
(* jobs are modules of their own.                                          *)
(***************************************************************************)
EXTENDS Naturals, FiniteSets

CONSTANTS
    Threads,       \* concurrent calls
    Keys,          \* capability key ids, each drawn once
    Names,         \* accounts, as their subject_id
    AccountScopes, \* [Names -> SUBSET Scopes]: what each account holds
    Scopes,        \* scopes that occur
    Methods,       \* methods that are called
    Topics,        \* topics that are subscribed to
    Anonymous,     \* the subject of a record about nobody in particular
    None

ServiceVerbs   == {"server.services.start", "server.services.stop", "server.services.restart"}
PackageMethods == {"server.packages.install", "server.packages.remove"}
OpenMethods    == {"auth.bootstrap.claim", "auth.login"}

\* What each module registers, under its name of the policy table.
RegisteredHost     == {"server.host.info"}
RegisteredServices == {"server.services.list", "server.services.status"} \cup ServiceVerbs
RegisteredPackages == {"server.packages.list"} \cup PackageMethods
RegisteredLogs     == {"server.logs.query"}
RegisteredJobs     == {"server.jobs.status"}
RegisteredAuth     == OpenMethods \cup {"auth.whoami", "auth.token.create", "auth.token.list",
                                        "auth.token.revoke"}
RegisteredServer   == UNION {RegisteredHost, RegisteredServices, RegisteredPackages,
                             RegisteredLogs, RegisteredJobs}
Registered         == RegisteredServer \cup RegisteredAuth

\* Those registered with ScopeAudit::AuditAllow.
SensitiveReads == RegisteredLogs

\* method_requirement: a scope, or one of the two other requirements.
MethodScope(m) ==
    CASE m \in {"server.host.info", "server.services.list", "server.services.status",
                "server.packages.list", "server.jobs.status"} -> "server.read"
      [] m \in ServiceVerbs -> "server.services.write"
      [] m \in PackageMethods -> "server.packages.write"
      [] m = "server.logs.query" -> "server.logs.read"
      [] m \in {"auth.token.create", "auth.token.list", "auth.token.revoke"} -> "auth.admin"
      [] m \in OpenMethods -> "Anonymous"
      [] m = "auth.whoami" -> "Authenticated"
      [] OTHER -> None

\* register_scoped panics on a method without a policy.
ASSUME AuthAssumption ==
    /\ \A m \in Registered : MethodScope(m) # None
    /\ Methods \subseteq Registered \ (PackageMethods \cup OpenMethods)
    /\ AccountScopes \in [Names -> SUBSET Scopes]
    /\ None \notin Threads /\ None \notin Keys /\ None \notin Names
    /\ Anonymous \notin Names

\* topic_scope; None is a topic without a policy.
TopicScope(t) ==
    CASE t \in {"server.metrics", "server.services.status", "server.jobs"} -> "server.read"
      [] t = "server.logs" -> "server.logs.read"
      [] OTHER -> None

Handle(k) == <<"cap", k>>
Handles   == {Handle(k) : k \in Keys}
Labels    == Names \cup Handles \cup {Anonymous}

\* A subject_id begins with "user:" (bootstrap.rs), a handle with "cap:".
ASSUME LabelAssumption == Names \cap Handles = {} /\ Anonymous \notin Handles

Capabilities == [owner : Names \cup Handles, scopes : SUBSET Scopes,
                 revoked : BOOLEAN, expired : BOOLEAN]

VARIABLES
    caps,     \* the capabilities of the published snapshot
    pc,       \* where each call is
    call,     \* what each call carries from step to step
    record,   \* the audit record the last step emitted, if it emitted one
    audited,  \* history: <<method, key>> of the Mutation and login records so far
    account   \* history: the account each key belongs to, also after it is pruned

vars == <<caps, pc, call, record, audited, account>>

NoCall == [method |-> None, key |-> None, scopes |-> {}, owner |-> None, target |-> None]

Calls == [method : Methods \cup Topics \cup {"auth.login", None}, key : Keys \cup {None},
          scopes : SUBSET Scopes, owner : Names \cup Handles \cup {None},
          target : Keys \cup {None}]

\* `caller` is the account whose credential the call presented.
AuditEvents ==
    [kind : {"AuthDecision", "ScopeDecision", "TopicDecision", "Mutation"},
     decision : {"allow", "deny", "ok", "err"}, subject : Labels,
     caller : Names \cup {None}]

TypeOK ==
    /\ caps \in [Keys -> Capabilities \cup {None}]
    /\ pc \in [Threads -> {"idle", "verified", "guard", "handler", "topic",
                           "resolved", "created", "revoked", "failed"}]
    /\ call \in [Threads -> Calls]
    /\ record \in AuditEvents \cup {None}
    /\ audited \subseteq {"auth.login", "auth.token.create", "auth.token.revoke"} \X Keys
    /\ account \in [Keys -> Names \cup {None}]

Init ==
    /\ caps = [k \in Keys |-> None]
    /\ pc = [t \in Threads |-> "idle"]
    /\ call = [t \in Threads |-> NoCall]
    /\ record = None
    /\ audited = {}
    /\ account = [k \in Keys |-> None]

-----------------------------------------------------------------------------
(* Steps all calls share.                                                  *)

Present(k) == caps[k] # None

\* authenticate.
Accepts(k, secretMatches) ==
    Present(k) /\ ~ caps[k].revoked /\ secretMatches /\ ~ caps[k].expired

\* human_subject_id, subject_label and resolve_owner_subject_id: one more
\* look at the snapshot; a key that is gone is named by its handle.
Label(k) == IF Present(k) THEN caps[k].owner ELSE Handle(k)

Emit(kind, decision, subject, caller) ==
    record' = [kind |-> kind, decision |-> decision, subject |-> subject, caller |-> caller]

Quiet == record' = None

Goto(t, label) == pc' = [pc EXCEPT ![t] = label]
Answer(t) == Goto(t, "idle") /\ call' = [call EXCEPT ![t] = NoCall]

Caller(t) == account[call[t].key]

-----------------------------------------------------------------------------
(* DaemonVerifier.                                                         *)

\* verify and verify_topic up to the Subject: its scopes are those of now.
Authenticate(t, what, k, next) ==
    /\ pc[t] = "idle"
    /\ call' = [call EXCEPT ![t] =
                [NoCall EXCEPT !.method = what, !.key = k, !.scopes = caps[k].scopes]]
    /\ Goto(t, next)
    /\ Quiet
    /\ UNCHANGED <<caps, audited, account>>

Verify(t, m, k, secretMatches) ==
    Accepts(k, secretMatches) /\ Authenticate(t, m, k, "verified")

VerifyTopic(t, topic, k, secretMatches) ==
    Accepts(k, secretMatches) /\ Authenticate(t, topic, k, "topic")

\* Any failure: a deny record for nobody in particular.
Reject(t, k, secretMatches, kind) ==
    /\ pc[t] = "idle"
    /\ ~ Accepts(k, secretMatches)
    /\ Emit(kind, "deny", Anonymous, None)
    /\ UNCHANGED <<caps, pc, call, audited, account>>

\* verify_authenticated: the record of an accepted call.
EmitAllow(t) ==
    /\ pc[t] = "verified"
    /\ Emit("AuthDecision", "allow", Label(call[t].key), Caller(t))
    /\ Goto(t, "guard")
    /\ UNCHANGED <<caps, call, audited, account>>

\* verify_topic after authenticate: no policy, no scope, or subscribed.
DecideTopic(t) ==
    /\ pc[t] = "topic"
    /\ Emit("TopicDecision",
            IF TopicScope(call[t].method) \in call[t].scopes THEN "allow" ELSE "deny",
            Label(call[t].key), Caller(t))
    /\ Answer(t)
    /\ UNCHANGED <<caps, audited, account>>

-----------------------------------------------------------------------------
(* register_scoped.                                                        *)

Granted(t) == MethodScope(call[t].method) \in call[t].scopes \cup {"Anonymous", "Authenticated"}

Forbid(t) ==
    /\ pc[t] = "guard"
    /\ ~ Granted(t)
    /\ Emit("ScopeDecision", "deny", Label(call[t].key), Caller(t))
    /\ Answer(t)
    /\ UNCHANGED <<caps, audited, account>>

\* A sensitive read audits that it was allowed.
Permit(t) ==
    /\ pc[t] = "guard"
    /\ Granted(t)
    /\ IF call[t].method \in SensitiveReads
       THEN Emit("ScopeDecision", "allow", Label(call[t].key), Caller(t))
       ELSE Quiet
    /\ Goto(t, "handler")
    /\ UNCHANGED <<caps, call, audited, account>>

-----------------------------------------------------------------------------
(* The handlers.                                                           *)

\* The reads look at the store (auth.whoami, auth.token.list) or ask the backend
\* (server.*); they change nothing and record nothing.
Read(t) ==
    /\ pc[t] = "handler"
    /\ call[t].method \in {"auth.whoami", "auth.token.list"} \cup (RegisteredServer \ ServiceVerbs)
    /\ Answer(t)
    /\ Quiet
    /\ UNCHANGED <<caps, audited, account>>

\* run_service_mutation: one record of the outcome (a timeout is an error),
\* after the backend has answered.
ServiceMutation(t, outcome) ==
    /\ pc[t] = "handler"
    /\ call[t].method \in ServiceVerbs
    /\ Emit("Mutation", outcome, Label(call[t].key), Caller(t))
    /\ Answer(t)
    /\ UNCHANGED <<caps, audited, account>>

\* validate_and_get_manager refuses the name or there is no manager: `?`
\* returns before anything is recorded.
ServiceRefused(t) ==
    /\ pc[t] = "handler"
    /\ call[t].method \in ServiceVerbs
    /\ Answer(t)
    /\ Quiet
    /\ UNCHANGED <<caps, audited, account>>

\* token_create: only scopes the caller holds, and at least one; the owner is
\* looked up before the token is stored.
TokenCreate(t, scopes) ==
    /\ pc[t] = "handler"
    /\ call[t].method = "auth.token.create"
    /\ scopes # {} /\ scopes \subseteq call[t].scopes
    /\ call' = [call EXCEPT ![t].owner = Label(call[t].key), ![t].scopes = scopes]
    /\ Goto(t, "resolved")
    /\ Quiet
    /\ UNCHANGED <<caps, audited, account>>

TokenCreateRefused(t, scopes) ==
    /\ pc[t] = "handler"
    /\ call[t].method = "auth.token.create"
    /\ scopes = {} \/ ~ (scopes \subseteq call[t].scopes)
    /\ Answer(t)
    /\ Quiet
    /\ UNCHANGED <<caps, audited, account>>

\* A slip: the requested scopes are granted as they are.
LoginGrantsRequest(t, n, requested) ==
    /\ pc[t] = "idle"
    /\ call' = [call EXCEPT ![t] =
                [NoCall EXCEPT !.method = "auth.login", !.owner = n, !.scopes = requested]]
    /\ Goto(t, "resolved")
    /\ Quiet
    /\ UNCHANGED <<caps, audited, account>>

\* login with the right password: the account's scopes, or those of them
\* that were asked for.
Login(t, n, requested) ==
    /\ pc[t] = "idle"
    /\ call' = [call EXCEPT ![t] =
                [NoCall EXCEPT !.method = "auth.login", !.owner = n,
                               !.scopes = AccountScopes[n] \cap requested]]
    /\ Goto(t, "resolved")
    /\ Quiet
    /\ UNCHANGED <<caps, audited, account>>

\* Unknown account or wrong password.
LoginDenied(t) ==
    /\ pc[t] = "idle"
    /\ Emit("AuthDecision", "deny", Anonymous, None)
    /\ UNCHANGED <<caps, pc, call, audited, account>>

\* add_capability with a freshly minted key.
AddCapability(t, k) ==
    /\ pc[t] = "resolved"
    /\ account[k] = None
    /\ caps' = [caps EXCEPT ![k] =
                [owner |-> call[t].owner, scopes |-> call[t].scopes,
                 revoked |-> FALSE, expired |-> FALSE]]
    /\ account' = [account EXCEPT ![k] =
                    IF call[t].key = None THEN call[t].owner ELSE Caller(t)]
    /\ call' = [call EXCEPT ![t].target = k]
    /\ Goto(t, "created")
    /\ Quiet
    /\ UNCHANGED audited

\* The store reports an error: no token, no record.
AddFails(t) ==
    /\ pc[t] = "resolved"
    /\ Answer(t)
    /\ Quiet
    /\ UNCHANGED <<caps, audited, account>>

EmitCreated(t) ==
    /\ pc[t] = "created"
    /\ IF call[t].method = "auth.login"
       THEN Emit("AuthDecision", "allow", call[t].owner, call[t].owner)
       ELSE Emit("Mutation", "ok", call[t].owner, Caller(t))
    /\ audited' = audited \cup {<<call[t].method, call[t].target>>}
    /\ Answer(t)
    /\ UNCHANGED <<caps, account>>

\* A slip: the call is answered without a record.
TokenRevokeSilent(t, k) ==
    /\ pc[t] = "handler"
    /\ call[t].method = "auth.token.revoke"
    /\ Present(k)
    /\ caps' = [caps EXCEPT ![k].revoked = TRUE]
    /\ Answer(t)
    /\ Quiet
    /\ UNCHANGED <<audited, account>>

\* token_revoke: first the store, then the record of it.
TokenRevoke(t, k) ==
    /\ pc[t] = "handler"
    /\ call[t].method = "auth.token.revoke"
    /\ Present(k)
    /\ caps' = [caps EXCEPT ![k].revoked = TRUE]
    /\ call' = [call EXCEPT ![t].target = k]
    /\ Goto(t, "revoked")
    /\ Quiet
    /\ UNCHANGED <<audited, account>>

\* The key is unknown, or the store reports an error: that is recorded too.
TokenRevokeFails(t, k) ==
    /\ pc[t] = "handler"
    /\ call[t].method = "auth.token.revoke"
    /\ call' = [call EXCEPT ![t].target = k]
    /\ Goto(t, "failed")
    /\ Quiet
    /\ UNCHANGED <<caps, audited, account>>

\* A slip: the record names the owner of the token, not the caller.
EmitRevokedForOwner(t) ==
    /\ pc[t] \in {"revoked", "failed"}
    /\ Emit("Mutation", IF pc[t] = "revoked" THEN "ok" ELSE "err",
            Label(call[t].target), Caller(t))
    /\ audited' = audited \cup {<<"auth.token.revoke", call[t].target>>}
    /\ Answer(t)
    /\ UNCHANGED <<caps, account>>

EmitRevoked(t) ==
    /\ pc[t] \in {"revoked", "failed"}
    /\ Emit("Mutation", IF pc[t] = "revoked" THEN "ok" ELSE "err",
            Label(call[t].key), Caller(t))
    /\ audited' = IF pc[t] = "revoked"
                  THEN audited \cup {<<"auth.token.revoke", call[t].target>>}
                  ELSE audited
    /\ Answer(t)
    /\ UNCHANGED <<caps, account>>

-----------------------------------------------------------------------------
(* What else happens to the store.                                         *)

Expire(k) ==
    /\ Present(k) /\ ~ caps[k].expired
    /\ caps' = [caps EXCEPT ![k].expired = TRUE]
    /\ Quiet
    /\ UNCHANGED <<pc, call, audited, account>>

\* prune_capabilities: everything revoked, and what expired long enough ago.
Prune(gone) ==
    /\ \A k \in gone : Present(k) /\ (caps[k].revoked \/ caps[k].expired)
    /\ \A k \in Keys \ gone : Present(k) => ~ caps[k].revoked
    /\ gone # {}
    /\ caps' = [k \in Keys |-> IF k \in gone THEN None ELSE caps[k]]
    /\ Quiet
    /\ UNCHANGED <<pc, call, audited, account>>

-----------------------------------------------------------------------------
Handler(t) ==
    \/ Read(t)
    \/ \E outcome \in {"ok", "err"} : ServiceMutation(t, outcome)
    \/ ServiceRefused(t)
    \/ \E scopes \in SUBSET Scopes : TokenCreate(t, scopes) \/ TokenCreateRefused(t, scopes)
    \/ \E k \in Keys : TokenRevoke(t, k) \/ TokenRevokeFails(t, k)
    \/ EmitRevoked(t)

Next ==
    \/ \E t \in Threads :
        \/ \E k \in Keys, secretMatches \in BOOLEAN :
            \/ \E m \in Methods : Verify(t, m, k, secretMatches)
            \/ \E topic \in Topics : VerifyTopic(t, topic, k, secretMatches)
            \/ \E kind \in {"AuthDecision", "TopicDecision"} : Reject(t, k, secretMatches, kind)
        \/ EmitAllow(t) \/ DecideTopic(t) \/ Forbid(t) \/ Permit(t)
        \/ Handler(t)
        \/ \E n \in Names, requested \in SUBSET Scopes : Login(t, n, requested)
        \/ LoginDenied(t)
        \/ \E k \in Keys : AddCapability(t, k)
        \/ AddFails(t) \/ EmitCreated(t)
    \/ \E k \in Keys : Expire(k)
    \/ \E gone \in SUBSET Keys : Prune(gone)

Spec == Init /\ [][Next]_vars

-----------------------------------------------------------------------------
(* Properties.                                                             *)

\* "No privilege escalation" (auth_methods.rs): along any chain of tokens
\* that create tokens, no capability holds a scope that the account which
\* logged in at its beginning does not hold.
NoEscalation ==
    \A k \in Keys : Present(k) => caps[k].scopes \subseteq AccountScopes[account[k]]

\* What the code writes where it means the account n: the name of n, or, for
\* want of it, the handle of a capability of n that has been pruned.
Denotes(label, n) ==
    \/ label = n
    \/ \E k \in Keys : label = Handle(k) /\ ~ Present(k) /\ account[k] = n

\* Whatever was revoked, pruned or created between the reads that find the
\* name: a record never names anybody but the account whose credential made the
\* call, and a token never belongs to another one than the account that asked
\* for it.  A handle stands in the place of the account only when it is a handle
\* of that account's and its capability has been pruned, its own or that of a
\* caller before it in the chain of tokens.  So much is true of the fallback of
\* subject_label and resolve_owner_subject_id; that no record ever carries a
\* handle there, as the comment on subject_event says, is not.
AttributedToCaller ==
    /\ TypeOK
    /\ record # None /\ record.subject # Anonymous => Denotes(record.subject, record.caller)
    /\ \A k \in Keys : Present(k) => Denotes(caps[k].owner, account[k])

\* No change of the store goes unrecorded: once its call is answered, a token
\* that exists or is revoked has its record.
MutationsAudited ==
    \A k \in Keys :
        Present(k) /\ (\A t \in Threads : call[t].target # k) =>
            /\ {<<"auth.login", k>>, <<"auth.token.create", k>>} \cap audited # {}
            /\ caps[k].revoked => <<"auth.token.revoke", k>> \in audited
=============================================================================
