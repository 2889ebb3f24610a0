----------------------------- MODULE AuthApiProofs ----------------------------
(***************************************************************************)
(* Proofs about AuthApi, for any number of concurrent calls, keys,         *)
(* accounts and scopes: however the calls and the pruning of the store     *)
(* interleave, scopes never grow along a chain of tokens, records name the *)
(* caller's account, and every change of the store has its record.  And    *)
(* about RateLimiter, which a login passes first: the cap on tracked names *)
(* changes no decision, and bursts are bounded, for every number of names, *)
(* logins and attempts, window and cap.                                    *)
(***************************************************************************)
EXTENDS AuthApi, RateLimiter, SequenceTheorems, TLAPS

\* The account a label stands for.
AccountOf(label) == IF label \in Handles THEN account[label[2]] ELSE label

\* Who a call acts for: the account of its key, or the one that logs in.
Principal(t) == IF call[t].key = None THEN call[t].owner ELSE account[call[t].key]

\* A key that was ever stored belongs to an account, and to the right one.
KeysInv ==
    \A k \in Keys : Present(k) =>
        /\ account[k] \in Names
        /\ AccountOf(caps[k].owner) = account[k]
        /\ caps[k].scopes \subseteq AccountScopes[account[k]]

\* A call that presented a key carries no scope its account does not hold,
\* and the token it is about to create is for that account.
CallsInv ==
    \A t \in Threads :
        /\ call[t].key # None => account[call[t].key] \in Names
        /\ pc[t] \notin {"idle", "resolved", "created"} => call[t].key # None
        /\ pc[t] \in {"resolved", "created"} =>
              /\ AccountOf(call[t].owner) = Principal(t) /\ Principal(t) \in Names
              /\ \/ call[t].method = "auth.login" /\ call[t].key = None
                 \/ call[t].method = "auth.token.create" /\ call[t].key # None
        /\ pc[t] # "idle" => call[t].scopes \subseteq AccountScopes[Principal(t)]
        /\ pc[t] \in {"created", "revoked"} => call[t].target # None

RecordInv ==
    record # None /\ record.subject # Anonymous => AccountOf(record.subject) = record.caller

\* What is not recorded yet, a call is about to record.
AuditInv ==
    \A k \in Keys : Present(k) =>
        /\ \/ \E t \in Threads : pc[t] = "created" /\ call[t].target = k
           \/ {<<"auth.login", k>>, <<"auth.token.create", k>>} \cap audited # {}
        /\ caps[k].revoked =>
              \/ \E t \in Threads : pc[t] = "revoked" /\ call[t].target = k
              \/ <<"auth.token.revoke", k>> \in audited

\* A handle is written in the place of an account only when its capability is
\* gone: no key is stored twice, so it does not come back.
Gone(label) == label \in Handles => ~ Present(label[2])

GoneInv ==
    /\ \A k \in Keys : Present(k) => Gone(caps[k].owner)
    /\ \A t \in Threads : pc[t] \in {"resolved", "created"} => Gone(call[t].owner)
    /\ record # None => Gone(record.subject)

AuthInv == TypeOK /\ KeysInv /\ CallsInv /\ RecordInv /\ AuditInv

-----------------------------------------------------------------------------
(* Names of accounts.                                                      *)

LEMMA AccountOfHandle ==
    /\ \A k \in Keys : AccountOf(Handle(k)) = account[k]
    /\ \A n \in Names : AccountOf(n) = n
  BY LabelAssumption DEF AccountOf, Handle, Handles

\* What a record or a token says of a key that a call presented.
LEMMA LabelIsAccount ==
    ASSUME AuthInv, NEW k \in Keys
    PROVE  Label(k) \in Names \cup Handles /\ AccountOf(Label(k)) = account[k]
<1>1. CASE Present(k)
  BY <1>1 DEF AuthInv, KeysInv, TypeOK, Present, Label, Capabilities
<1>2. CASE ~ Present(k)
  BY <1>2, AccountOfHandle DEF Label, Handles
<1> QED
  BY <1>1, <1>2


LEMMA VerifyKeeps ==
    ASSUME AuthInv, NEW t \in Threads, NEW k \in Keys, NEW m \in Methods, NEW b \in BOOLEAN, Verify(t, m, k, b)
    PROVE  AuthInv'
<1> USE AuthAssumption DEF AuthInv
<1>0. /\ caps[k].scopes \subseteq Scopes /\ caps[k].scopes \subseteq AccountScopes[account[k]]
      /\ account[k] \in Names
  BY DEF Verify, Accepts, KeysInv, TypeOK, Present, Capabilities
<1>1. TypeOK'
  <2>1. call' \in [Threads -> Calls]
    BY <1>0 DEF Verify, Authenticate, Goto, Quiet, TypeOK, Calls, NoCall
  <2> QED
    BY <2>1 DEF Verify, Authenticate, Goto, Quiet, TypeOK
<1>2. KeysInv'
  BY <1>0 DEF Verify, Authenticate, Accepts, Goto, Quiet, TypeOK, KeysInv, Present, AccountOf
<1>3. CallsInv'
  BY <1>0 DEF Verify, Authenticate, Accepts, Goto, Quiet, TypeOK, CallsInv, Principal, AccountOf, Calls, NoCall
<1>4. RecordInv'
  BY <1>0 DEF Verify, Authenticate, Accepts, Goto, Quiet, TypeOK, RecordInv, AccountOf, AuditEvents
<1>5. AuditInv'
  BY <1>0 DEF Verify, Authenticate, Accepts, Goto, Quiet, TypeOK, AuditInv, Present
<1> QED
  BY <1>1, <1>2, <1>3, <1>4, <1>5

LEMMA VerifyTopicKeeps ==
    ASSUME AuthInv, NEW t \in Threads, NEW k \in Keys, NEW m \in Topics, NEW b \in BOOLEAN, VerifyTopic(t, m, k, b)
    PROVE  AuthInv'
<1> USE AuthAssumption DEF AuthInv
<1>0. /\ caps[k].scopes \subseteq Scopes /\ caps[k].scopes \subseteq AccountScopes[account[k]]
      /\ account[k] \in Names
  BY DEF VerifyTopic, Accepts, KeysInv, TypeOK, Present, Capabilities
<1>1. TypeOK'
  <2>1. call' \in [Threads -> Calls]
    BY <1>0 DEF VerifyTopic, Authenticate, Goto, Quiet, TypeOK, Calls, NoCall
  <2> QED
    BY <2>1 DEF VerifyTopic, Authenticate, Goto, Quiet, TypeOK
<1>2. KeysInv'
  BY <1>0 DEF VerifyTopic, Authenticate, Accepts, Goto, Quiet, TypeOK, KeysInv, Present, AccountOf
<1>3. CallsInv'
  BY <1>0 DEF VerifyTopic, Authenticate, Accepts, Goto, Quiet, TypeOK, CallsInv, Principal, AccountOf, Calls, NoCall
<1>4. RecordInv'
  BY <1>0 DEF VerifyTopic, Authenticate, Accepts, Goto, Quiet, TypeOK, RecordInv, AccountOf, AuditEvents
<1>5. AuditInv'
  BY <1>0 DEF VerifyTopic, Authenticate, Accepts, Goto, Quiet, TypeOK, AuditInv, Present
<1> QED
  BY <1>1, <1>2, <1>3, <1>4, <1>5

LEMMA RejectKeeps ==
    ASSUME AuthInv, NEW t \in Threads, NEW k \in Keys, NEW b \in BOOLEAN, NEW kind \in {"AuthDecision", "TopicDecision"}, Reject(t, k, b, kind)
    PROVE  AuthInv'
<1> USE AuthAssumption DEF AuthInv
<1>1. TypeOK'
  BY DEF Reject, Emit, TypeOK, Calls, NoCall, AuditEvents, Capabilities, Labels
<1>2. KeysInv'
  BY DEF Reject, Emit, TypeOK, KeysInv, Present, AccountOf
<1>3. CallsInv'
  BY DEF Reject, Emit, TypeOK, CallsInv, Principal, AccountOf, Calls, NoCall
<1>4. RecordInv'
  BY DEF Reject, Emit, TypeOK, RecordInv, AccountOf, AuditEvents
<1>5. AuditInv'
  BY DEF Reject, Emit, TypeOK, AuditInv, Present
<1> QED
  BY <1>1, <1>2, <1>3, <1>4, <1>5

LEMMA LoginDeniedKeeps ==
    ASSUME AuthInv, NEW t \in Threads, LoginDenied(t)
    PROVE  AuthInv'
<1> USE AuthAssumption DEF AuthInv
<1>1. TypeOK'
  BY DEF LoginDenied, Emit, TypeOK, Calls, NoCall, AuditEvents, Capabilities, Labels
<1>2. KeysInv'
  BY DEF LoginDenied, Emit, TypeOK, KeysInv, Present, AccountOf
<1>3. CallsInv'
  BY DEF LoginDenied, Emit, TypeOK, CallsInv, Principal, AccountOf, Calls, NoCall
<1>4. RecordInv'
  BY DEF LoginDenied, Emit, TypeOK, RecordInv, AccountOf, AuditEvents
<1>5. AuditInv'
  BY DEF LoginDenied, Emit, TypeOK, AuditInv, Present
<1> QED
  BY <1>1, <1>2, <1>3, <1>4, <1>5

LEMMA EmitAllowKeeps ==
    ASSUME AuthInv, NEW t \in Threads, EmitAllow(t)
    PROVE  AuthInv'
<1> USE AuthAssumption DEF AuthInv
<1>0. Label(call[t].key) \in Names \cup Handles
      /\ AccountOf(Label(call[t].key)) = Caller(t) /\ Caller(t) \in Names
  BY LabelIsAccount DEF EmitAllow, CallsInv, TypeOK, Calls, Caller
<1>1. TypeOK'
  BY <1>0 DEF EmitAllow, Emit, Goto, Quiet, Answer, TypeOK, Calls, NoCall, AuditEvents, Capabilities, Labels
<1>2. KeysInv'
  BY <1>0 DEF EmitAllow, Emit, Goto, Quiet, Answer, TypeOK, KeysInv, Present, AccountOf
<1>3. CallsInv'
  BY <1>0 DEF EmitAllow, Emit, Goto, Quiet, Answer, TypeOK, CallsInv, Principal, AccountOf, Calls, NoCall
<1>4. RecordInv'
  BY <1>0 DEF EmitAllow, Emit, Goto, Quiet, Answer, TypeOK, RecordInv, AccountOf, AuditEvents
<1>5. AuditInv'
  BY <1>0 DEF EmitAllow, Emit, Goto, Quiet, Answer, TypeOK, AuditInv, Present
<1> QED
  BY <1>1, <1>2, <1>3, <1>4, <1>5

LEMMA DecideTopicKeeps ==
    ASSUME AuthInv, NEW t \in Threads, DecideTopic(t)
    PROVE  AuthInv'
<1> USE AuthAssumption DEF AuthInv
<1>0. Label(call[t].key) \in Names \cup Handles
      /\ AccountOf(Label(call[t].key)) = Caller(t) /\ Caller(t) \in Names
  BY LabelIsAccount DEF DecideTopic, CallsInv, TypeOK, Calls, Caller
<1>1. TypeOK'
  BY <1>0 DEF DecideTopic, Emit, Goto, Quiet, Answer, TypeOK, Calls, NoCall, AuditEvents, Capabilities, Labels
<1>2. KeysInv'
  BY <1>0 DEF DecideTopic, Emit, Goto, Quiet, Answer, TypeOK, KeysInv, Present, AccountOf
<1>3. CallsInv'
  BY <1>0 DEF DecideTopic, Emit, Goto, Quiet, Answer, TypeOK, CallsInv, Principal, AccountOf, Calls, NoCall
<1>4. RecordInv'
  BY <1>0 DEF DecideTopic, Emit, Goto, Quiet, Answer, TypeOK, RecordInv, AccountOf, AuditEvents
<1>5. AuditInv'
  BY <1>0 DEF DecideTopic, Emit, Goto, Quiet, Answer, TypeOK, AuditInv, Present
<1> QED
  BY <1>1, <1>2, <1>3, <1>4, <1>5

LEMMA ForbidKeeps ==
    ASSUME AuthInv, NEW t \in Threads, Forbid(t)
    PROVE  AuthInv'
<1> USE AuthAssumption DEF AuthInv
<1>0. Label(call[t].key) \in Names \cup Handles
      /\ AccountOf(Label(call[t].key)) = Caller(t) /\ Caller(t) \in Names
  BY LabelIsAccount DEF Forbid, CallsInv, TypeOK, Calls, Caller
<1>1. TypeOK'
  BY <1>0 DEF Forbid, Emit, Goto, Quiet, Answer, TypeOK, Calls, NoCall, AuditEvents, Capabilities, Labels
<1>2. KeysInv'
  BY <1>0 DEF Forbid, Emit, Goto, Quiet, Answer, TypeOK, KeysInv, Present, AccountOf
<1>3. CallsInv'
  BY <1>0 DEF Forbid, Emit, Goto, Quiet, Answer, TypeOK, CallsInv, Principal, AccountOf, Calls, NoCall
<1>4. RecordInv'
  BY <1>0 DEF Forbid, Emit, Goto, Quiet, Answer, TypeOK, RecordInv, AccountOf, AuditEvents
<1>5. AuditInv'
  BY <1>0 DEF Forbid, Emit, Goto, Quiet, Answer, TypeOK, AuditInv, Present
<1> QED
  BY <1>1, <1>2, <1>3, <1>4, <1>5

LEMMA PermitKeeps ==
    ASSUME AuthInv, NEW t \in Threads, Permit(t)
    PROVE  AuthInv'
<1> USE AuthAssumption DEF AuthInv
<1>0. Label(call[t].key) \in Names \cup Handles
      /\ AccountOf(Label(call[t].key)) = Caller(t) /\ Caller(t) \in Names
  BY LabelIsAccount DEF Permit, CallsInv, TypeOK, Calls, Caller
<1>1. TypeOK'
  BY <1>0 DEF Permit, Emit, Goto, Quiet, Answer, TypeOK, Calls, NoCall, AuditEvents, Capabilities, Labels
<1>2. KeysInv'
  BY <1>0 DEF Permit, Emit, Goto, Quiet, Answer, TypeOK, KeysInv, Present, AccountOf
<1>3. CallsInv'
  BY <1>0 DEF Permit, Emit, Goto, Quiet, Answer, TypeOK, CallsInv, Principal, AccountOf, Calls, NoCall
<1>4. RecordInv'
  BY <1>0 DEF Permit, Emit, Goto, Quiet, Answer, TypeOK, RecordInv, AccountOf, AuditEvents
<1>5. AuditInv'
  BY <1>0 DEF Permit, Emit, Goto, Quiet, Answer, TypeOK, AuditInv, Present
<1> QED
  BY <1>1, <1>2, <1>3, <1>4, <1>5

LEMMA MutationKeeps ==
    ASSUME AuthInv, NEW t \in Threads, NEW outcome \in {"ok", "err"}, ServiceMutation(t, outcome)
    PROVE  AuthInv'
<1> USE AuthAssumption DEF AuthInv
<1>0. Label(call[t].key) \in Names \cup Handles
      /\ AccountOf(Label(call[t].key)) = Caller(t) /\ Caller(t) \in Names
  BY LabelIsAccount DEF ServiceMutation, CallsInv, TypeOK, Calls, Caller
<1>1. TypeOK'
  BY <1>0 DEF ServiceMutation, Emit, Goto, Answer, TypeOK, Calls, NoCall, AuditEvents, Capabilities, Labels
<1>2. KeysInv'
  BY <1>0 DEF ServiceMutation, Emit, Goto, Answer, TypeOK, KeysInv, Present, AccountOf
<1>3. CallsInv'
  BY <1>0 DEF ServiceMutation, Emit, Goto, Answer, TypeOK, CallsInv, Principal, AccountOf, Calls, NoCall
<1>4. RecordInv'
  BY <1>0 DEF ServiceMutation, Emit, Goto, Answer, TypeOK, RecordInv, AccountOf, AuditEvents
<1>5. AuditInv'
  BY <1>0 DEF ServiceMutation, Emit, Goto, Answer, TypeOK, AuditInv, Present
<1> QED
  BY <1>1, <1>2, <1>3, <1>4, <1>5

LEMMA EmitRevokedKeeps ==
    ASSUME AuthInv, NEW t \in Threads, EmitRevoked(t)
    PROVE  AuthInv'
<1> USE AuthAssumption DEF AuthInv
<1>0. Label(call[t].key) \in Names \cup Handles
      /\ AccountOf(Label(call[t].key)) = Caller(t) /\ Caller(t) \in Names
  BY LabelIsAccount DEF EmitRevoked, CallsInv, TypeOK, Calls, Caller
<1>1. TypeOK'
  <2>1. call' \in [Threads -> Calls]
    BY DEF EmitRevoked, Emit, Goto, Answer, TypeOK, Calls, NoCall
  <2>2. record' \in AuditEvents \cup {None}
    BY <1>0 DEF EmitRevoked, Emit, Goto, Answer, TypeOK, AuditEvents, Labels
  <2>3. audited' \subseteq {"auth.login", "auth.token.create", "auth.token.revoke"} \X Keys
    BY DEF CallsInv, EmitRevoked, Emit, Goto, Answer, TypeOK, Calls
  <2> QED
    BY <2>1, <2>2, <2>3 DEF EmitRevoked, Emit, Goto, Answer, TypeOK
<1>2. KeysInv'
  BY <1>0 DEF EmitRevoked, Emit, Goto, Answer, TypeOK, KeysInv, Present, AccountOf
<1>3. CallsInv'
  BY <1>0 DEF EmitRevoked, Emit, Goto, Answer, TypeOK, CallsInv, Principal, AccountOf, Calls, NoCall
<1>4. RecordInv'
  BY <1>0 DEF EmitRevoked, Emit, Goto, Answer, TypeOK, RecordInv, AccountOf, AuditEvents
<1>5. AuditInv'
  BY <1>0 DEF EmitRevoked, Emit, Goto, Answer, TypeOK, AuditInv, Present
<1> QED
  BY <1>1, <1>2, <1>3, <1>4, <1>5

LEMMA EmitCreatedKeeps ==
    ASSUME AuthInv, NEW t \in Threads, EmitCreated(t)
    PROVE  AuthInv'
<1> USE AuthAssumption DEF AuthInv
<1>0. /\ call[t].owner \in Names \cup Handles /\ call[t].target \in Keys
      /\ AccountOf(call[t].owner) = Principal(t) /\ Principal(t) \in Names
      /\ call[t].method = "auth.login" => call[t].owner = Principal(t)
      /\ call[t].method # "auth.login" => call[t].method = "auth.token.create" /\ Caller(t) = Principal(t)
      /\ audited' = audited \cup {<<call[t].method, call[t].target>>} /\ pc[t] = "created"
  BY DEF EmitCreated, CallsInv, TypeOK, Calls, AccountOf, Principal, Caller
<1>6. record'.subject = call[t].owner /\ record'.caller = Principal(t) /\ record' \in AuditEvents
  BY <1>0, AccountOfHandle DEF EmitCreated, Emit, AuditEvents, Labels
<1>1. TypeOK'
  <2>1. call' \in [Threads -> Calls]
    BY DEF EmitCreated, Goto, Answer, TypeOK, Calls, NoCall
  <2>2. record' \in AuditEvents \cup {None}
    BY <1>6 DEF EmitCreated, Goto, Answer, TypeOK, AuditEvents, Labels
  <2>3. audited' \subseteq {"auth.login", "auth.token.create", "auth.token.revoke"} \X Keys
    BY <1>0 DEF EmitCreated, Goto, Answer, TypeOK, Calls
  <2> QED
    BY <2>1, <2>2, <2>3 DEF EmitCreated, Goto, Answer, TypeOK
<1>2. KeysInv'
  BY <1>0 DEF EmitCreated, Emit, Goto, Answer, Caller, TypeOK, KeysInv, Present, AccountOf
<1>3. CallsInv'
  BY <1>0 DEF EmitCreated, Emit, Goto, Answer, Caller, TypeOK, CallsInv, Principal, AccountOf, Calls, NoCall
<1>4. RecordInv'
  BY <1>0, <1>6 DEF EmitCreated, RecordInv, AccountOf
<1>5. AuditInv'
  <2> SUFFICES ASSUME NEW k \in Keys, Present(k)
               PROVE  /\ \/ \E u \in Threads : pc'[u] = "created" /\ call'[u].target = k
                         \/ {<<"auth.login", k>>, <<"auth.token.create", k>>} \cap audited' # {}
                      /\ caps[k].revoked =>
                           \/ \E u \in Threads : pc'[u] = "revoked" /\ call'[u].target = k
                           \/ <<"auth.token.revoke", k>> \in audited'
    BY DEF AuditInv, Present, EmitCreated
  <2>1. \A u \in Threads \ {t} : pc'[u] = pc[u] /\ call'[u] = call[u]
    BY DEF EmitCreated, Goto, Answer, TypeOK
  <2>2. call[t].target = k => {<<"auth.login", k>>, <<"auth.token.create", k>>} \cap audited' # {}
    BY <1>0
  <2> QED
    BY <1>0, <2>1, <2>2 DEF AuditInv
<1> QED
  BY <1>1, <1>2, <1>3, <1>4, <1>5

LEMMA TokenCreateKeeps ==
    ASSUME AuthInv, NEW t \in Threads, NEW scopes \in SUBSET Scopes, TokenCreate(t, scopes)
    PROVE  AuthInv'
<1> USE AuthAssumption DEF AuthInv
<1>0. Label(call[t].key) \in Names \cup Handles
      /\ AccountOf(Label(call[t].key)) = Caller(t) /\ Caller(t) \in Names
  BY LabelIsAccount DEF TokenCreate, CallsInv, TypeOK, Calls, Caller
<1>1. TypeOK'
  <2>1. call' = [call EXCEPT ![t] = [call[t] EXCEPT !.owner = Label(call[t].key), !.scopes = scopes]]
    BY DEF TokenCreate, TypeOK
  <2>2. [call[t] EXCEPT !.owner = Label(call[t].key), !.scopes = scopes] \in Calls
    <3>1. call[t] \in Calls
      BY DEF TypeOK
    <3> QED
      BY <1>0, <3>1 DEF Calls
  <2>3. call' \in [Threads -> Calls]
    BY <2>1, <2>2 DEF TypeOK
  <2> QED
    BY <2>3 DEF TokenCreate, Goto, Quiet, TypeOK
<1>2. KeysInv'
  BY <1>0 DEF TokenCreate, Goto, Quiet, Caller, TypeOK, KeysInv, Present, AccountOf
<1>3. CallsInv'
  <2>1. /\ call'[t].owner = Label(call[t].key) /\ call'[t].key = call[t].key /\ call[t].key # None
        /\ call'[t].method = "auth.token.create" /\ call'[t].scopes = scopes
        /\ scopes \subseteq AccountScopes[account[call[t].key]] /\ pc'[t] = "resolved"
        /\ account' = account
        /\ \A u \in Threads \ {t} : pc'[u] = pc[u] /\ call'[u] = call[u]
    BY DEF TokenCreate, Goto, TypeOK, Calls, CallsInv, Principal
  <2> QED
    BY <1>0, <2>1 DEF CallsInv, Principal, AccountOf, Caller
<1>4. RecordInv'
  BY <1>0 DEF TokenCreate, Goto, Quiet, Caller, TypeOK, RecordInv, AccountOf, AuditEvents
<1>5. AuditInv'
  BY <1>0 DEF TokenCreate, Goto, Quiet, Caller, TypeOK, AuditInv, Present
<1> QED
  BY <1>1, <1>2, <1>3, <1>4, <1>5

LEMMA ReadKeeps ==
    ASSUME AuthInv, NEW t \in Threads, Read(t)
    PROVE  AuthInv'
<1> USE AuthAssumption DEF AuthInv
<1>1. TypeOK'
  BY DEF Read, Goto, Quiet, Answer, TypeOK, Calls, NoCall, AuditEvents, Capabilities, Labels
<1>2. KeysInv'
  BY DEF Read, Goto, Quiet, Answer, TypeOK, KeysInv, Present, AccountOf
<1>3. CallsInv'
  BY DEF Read, Goto, Quiet, Answer, TypeOK, CallsInv, Principal, AccountOf, Calls, NoCall
<1>4. RecordInv'
  BY DEF Read, Goto, Quiet, Answer, TypeOK, RecordInv, AccountOf, AuditEvents
<1>5. AuditInv'
  BY DEF Read, Goto, Quiet, Answer, TypeOK, AuditInv, Present
<1> QED
  BY <1>1, <1>2, <1>3, <1>4, <1>5

LEMMA ServiceRefusedKeeps ==
    ASSUME AuthInv, NEW t \in Threads, ServiceRefused(t)
    PROVE  AuthInv'
<1> USE AuthAssumption DEF AuthInv
<1>1. TypeOK'
  BY DEF ServiceRefused, Goto, Quiet, Answer, TypeOK, Calls, NoCall, AuditEvents, Capabilities, Labels
<1>2. KeysInv'
  BY DEF ServiceRefused, Goto, Quiet, Answer, TypeOK, KeysInv, Present, AccountOf
<1>3. CallsInv'
  BY DEF ServiceRefused, Goto, Quiet, Answer, TypeOK, CallsInv, Principal, AccountOf, Calls, NoCall
<1>4. RecordInv'
  BY DEF ServiceRefused, Goto, Quiet, Answer, TypeOK, RecordInv, AccountOf, AuditEvents
<1>5. AuditInv'
  BY DEF ServiceRefused, Goto, Quiet, Answer, TypeOK, AuditInv, Present
<1> QED
  BY <1>1, <1>2, <1>3, <1>4, <1>5

LEMMA AddFailsKeeps ==
    ASSUME AuthInv, NEW t \in Threads, AddFails(t)
    PROVE  AuthInv'
<1> USE AuthAssumption DEF AuthInv
<1>1. TypeOK'
  BY DEF AddFails, Goto, Quiet, Answer, TypeOK, Calls, NoCall, AuditEvents, Capabilities, Labels
<1>2. KeysInv'
  BY DEF AddFails, Goto, Quiet, Answer, TypeOK, KeysInv, Present, AccountOf
<1>3. CallsInv'
  BY DEF AddFails, Goto, Quiet, Answer, TypeOK, CallsInv, Principal, AccountOf, Calls, NoCall
<1>4. RecordInv'
  BY DEF AddFails, Goto, Quiet, Answer, TypeOK, RecordInv, AccountOf, AuditEvents
<1>5. AuditInv'
  BY DEF AddFails, Goto, Quiet, Answer, TypeOK, AuditInv, Present
<1> QED
  BY <1>1, <1>2, <1>3, <1>4, <1>5

LEMMA CreateRefusedKeeps ==
    ASSUME AuthInv, NEW t \in Threads, NEW scopes \in SUBSET Scopes, TokenCreateRefused(t, scopes)
    PROVE  AuthInv'
<1> USE AuthAssumption DEF AuthInv
<1>1. TypeOK'
  BY DEF TokenCreateRefused, Goto, Quiet, Answer, TypeOK, Calls, NoCall, AuditEvents, Capabilities, Labels
<1>2. KeysInv'
  BY DEF TokenCreateRefused, Goto, Quiet, Answer, TypeOK, KeysInv, Present, AccountOf
<1>3. CallsInv'
  BY DEF TokenCreateRefused, Goto, Quiet, Answer, TypeOK, CallsInv, Principal, AccountOf, Calls, NoCall
<1>4. RecordInv'
  BY DEF TokenCreateRefused, Goto, Quiet, Answer, TypeOK, RecordInv, AccountOf, AuditEvents
<1>5. AuditInv'
  BY DEF TokenCreateRefused, Goto, Quiet, Answer, TypeOK, AuditInv, Present
<1> QED
  BY <1>1, <1>2, <1>3, <1>4, <1>5

LEMMA LoginKeeps ==
    ASSUME AuthInv, NEW t \in Threads, NEW n \in Names, NEW requested \in SUBSET Scopes, Login(t, n, requested)
    PROVE  AuthInv'
<1> USE AuthAssumption DEF AuthInv
<1>1. TypeOK'
  BY DEF Login, Goto, Quiet, TypeOK, Calls, NoCall, AuditEvents, Capabilities, Labels
<1>2. KeysInv'
  BY DEF Login, Goto, Quiet, TypeOK, KeysInv, Present, AccountOf
<1>3. CallsInv'
  <2>1. /\ call'[t].owner = n /\ call'[t].key = None /\ call'[t].method = "auth.login"
        /\ call'[t].scopes \subseteq AccountScopes[n] /\ pc'[t] = "resolved" /\ account' = account
        /\ \A u \in Threads \ {t} : pc'[u] = pc[u] /\ call'[u] = call[u]
    BY DEF Login, Goto, TypeOK, NoCall
  <2> QED
    BY <2>1, AccountOfHandle DEF CallsInv, Principal, AccountOf
<1>4. RecordInv'
  BY DEF Login, Goto, Quiet, TypeOK, RecordInv, AccountOf, AuditEvents
<1>5. AuditInv'
  BY DEF Login, Goto, Quiet, TypeOK, AuditInv, Present
<1> QED
  BY <1>1, <1>2, <1>3, <1>4, <1>5

LEMMA AddKeeps ==
    ASSUME AuthInv, NEW t \in Threads, NEW k \in Keys, AddCapability(t, k)
    PROVE  AuthInv'
<1> USE AuthAssumption DEF AuthInv
<1>0. /\ account[k] = None /\ pc[t] = "resolved"
      /\ call[t].owner \in Names \cup Handles /\ call[t].scopes \in SUBSET Scopes
      /\ AccountOf(call[t].owner) = Principal(t) /\ Principal(t) \in Names
      /\ call[t].scopes \subseteq AccountScopes[Principal(t)]
      /\ account' = [account EXCEPT ![k] = Principal(t)]
      /\ caps' = [caps EXCEPT ![k] = [owner |-> call[t].owner, scopes |-> call[t].scopes,
                                     revoked |-> FALSE, expired |-> FALSE]]
  BY DEF AddCapability, CallsInv, TypeOK, Calls, AccountOf, Principal, Caller
<1>6. /\ account'[k] = Principal(t) /\ \A j \in Keys : account[j] \in Names => account'[j] = account[j]
      /\ \A x \in Names \cup Handles : AccountOf(x) \in Names => AccountOf(x)' = AccountOf(x)
  BY <1>0 DEF TypeOK, AccountOf, Handles, Handle
<1>1. TypeOK'
  <2>1. call' \in [Threads -> Calls]
    BY DEF AddCapability, Goto, Quiet, TypeOK, Calls, NoCall
  <2>2. caps' \in [Keys -> Capabilities \cup {None}]
    BY <1>0 DEF AddCapability, Goto, Quiet, TypeOK, Capabilities
  <2>3. account' \in [Keys -> Names \cup {None}]
    BY <1>0 DEF AddCapability, Goto, Quiet, TypeOK, Calls
  <2> QED
    BY <2>1, <2>2, <2>3 DEF AddCapability, Goto, Quiet, TypeOK
<1>2. KeysInv'
  <2> SUFFICES ASSUME NEW j \in Keys, Present(j)'
               PROVE  /\ account'[j] \in Names
                      /\ AccountOf(caps[j].owner)' = account'[j]
                      /\ caps'[j].scopes \subseteq AccountScopes[account'[j]]
    BY DEF KeysInv
  <2>1. CASE j = k
    BY <1>0, <1>6, <2>1 DEF TypeOK, AccountOf
  <2>2. CASE j # k
    <3>1. caps'[j] = caps[j] /\ caps[j] \in Capabilities /\ Present(j)
      BY <1>0, <2>2 DEF TypeOK, Present
    <3> QED
      BY <3>1, <1>6 DEF KeysInv, Capabilities, AccountOf
  <2> QED
    BY <2>1, <2>2
<1>3. CallsInv'
  BY <1>0 DEF AddCapability, Goto, Quiet, Caller, TypeOK, CallsInv, Principal, AccountOf, Calls, NoCall
<1>4. RecordInv'
  BY <1>0 DEF AddCapability, Goto, Quiet, Caller, TypeOK, RecordInv, AccountOf, AuditEvents
<1>5. AuditInv'
  BY <1>0 DEF AddCapability, Goto, Quiet, Caller, TypeOK, AuditInv, Present
<1> QED
  BY <1>1, <1>2, <1>3, <1>4, <1>5

LEMMA RevokeKeeps ==
    ASSUME AuthInv, NEW t \in Threads, NEW k \in Keys, TokenRevoke(t, k)
    PROVE  AuthInv'
<1> USE AuthAssumption DEF AuthInv
<1>1. TypeOK'
  <2>1. /\ call' = [call EXCEPT ![t].target = k] /\ caps' = [caps EXCEPT ![k].revoked = TRUE]
        /\ call[t] \in Calls /\ caps[k] \in Capabilities
    BY DEF TokenRevoke, TypeOK, Present
  <2>2. [call[t] EXCEPT !.target = k] \in Calls /\ [caps[k] EXCEPT !.revoked = TRUE] \in Capabilities
    BY <2>1 DEF Calls, Capabilities
  <2>3. call' \in [Threads -> Calls]
    BY <2>1, <2>2 DEF TypeOK
  <2>4. caps' \in [Keys -> Capabilities \cup {None}]
    BY <2>1, <2>2 DEF TypeOK
  <2> QED
    BY <2>3, <2>4 DEF TokenRevoke, Goto, Quiet, TypeOK
<1>2. KeysInv'
  BY DEF TokenRevoke, Goto, Quiet, TypeOK, KeysInv, Present, AccountOf
<1>3. CallsInv'
  BY DEF TokenRevoke, Goto, Quiet, TypeOK, CallsInv, Principal, AccountOf, Calls, NoCall
<1>4. RecordInv'
  BY DEF TokenRevoke, Goto, Quiet, TypeOK, RecordInv, AccountOf, AuditEvents
<1>5. AuditInv'
  BY DEF TokenRevoke, Goto, Quiet, TypeOK, AuditInv, Present
<1> QED
  BY <1>1, <1>2, <1>3, <1>4, <1>5

LEMMA RevokeFailsKeeps ==
    ASSUME AuthInv, NEW t \in Threads, NEW k \in Keys, TokenRevokeFails(t, k)
    PROVE  AuthInv'
<1> USE AuthAssumption DEF AuthInv
<1>1. TypeOK'
  <2>1. call' \in [Threads -> Calls]
    BY DEF TokenRevokeFails, Goto, Quiet, TypeOK, Calls, NoCall
  <2> QED
    BY <2>1 DEF TokenRevokeFails, Goto, Quiet, TypeOK
<1>2. KeysInv'
  BY DEF TokenRevokeFails, Goto, Quiet, TypeOK, KeysInv, Present, AccountOf
<1>3. CallsInv'
  BY DEF TokenRevokeFails, Goto, Quiet, TypeOK, CallsInv, Principal, AccountOf, Calls, NoCall
<1>4. RecordInv'
  BY DEF TokenRevokeFails, Goto, Quiet, TypeOK, RecordInv, AccountOf, AuditEvents
<1>5. AuditInv'
  BY DEF TokenRevokeFails, Goto, Quiet, TypeOK, AuditInv, Present
<1> QED
  BY <1>1, <1>2, <1>3, <1>4, <1>5

LEMMA ExpireKeeps ==
    ASSUME AuthInv, NEW k \in Keys, Expire(k)
    PROVE  AuthInv'
<1> USE AuthAssumption DEF AuthInv
<1>1. TypeOK'
  <2>1. caps' \in [Keys -> Capabilities \cup {None}]
    BY DEF Expire, Quiet, Present, TypeOK, Capabilities
  <2> QED
    BY <2>1 DEF Expire, Quiet, Present, TypeOK
<1>2. KeysInv'
  BY DEF Expire, Quiet, TypeOK, KeysInv, Present, AccountOf
<1>3. CallsInv'
  BY DEF Expire, Quiet, TypeOK, CallsInv, Principal, AccountOf, Calls, NoCall
<1>4. RecordInv'
  BY DEF Expire, Quiet, TypeOK, RecordInv, AccountOf, AuditEvents
<1>5. AuditInv'
  BY DEF Expire, Quiet, TypeOK, AuditInv, Present
<1> QED
  BY <1>1, <1>2, <1>3, <1>4, <1>5

LEMMA PruneKeeps ==
    ASSUME AuthInv, NEW gone \in SUBSET Keys, Prune(gone)
    PROVE  AuthInv'
<1> USE AuthAssumption DEF AuthInv
<1>1. TypeOK'
  BY DEF Prune, Quiet, TypeOK, Calls, NoCall, AuditEvents, Capabilities, Labels
<1>2. KeysInv'
  BY DEF Prune, Quiet, TypeOK, KeysInv, Present, AccountOf
<1>3. CallsInv'
  BY DEF Prune, Quiet, TypeOK, CallsInv, Principal, AccountOf, Calls, NoCall
<1>4. RecordInv'
  BY DEF Prune, Quiet, TypeOK, RecordInv, AccountOf, AuditEvents
<1>5. AuditInv'
  BY DEF Prune, Quiet, TypeOK, AuditInv, Present
<1> QED
  BY <1>1, <1>2, <1>3, <1>4, <1>5

-----------------------------------------------------------------------------
(* The invariant and what it says of the runs' properties.                 *)

LEMMA InitInv == Init => AuthInv
<1> USE AuthAssumption DEF Init
<1>1. Init => TypeOK
  BY DEF TypeOK, NoCall, Calls
<1>2. Init => KeysInv /\ CallsInv /\ RecordInv /\ AuditInv
  BY DEF KeysInv, CallsInv, RecordInv, AuditInv, Present, NoCall
<1> QED
  BY <1>1, <1>2 DEF AuthInv

LEMMA StutterKeeps == AuthInv /\ UNCHANGED vars => AuthInv'
<1> SUFFICES ASSUME AuthInv, UNCHANGED vars PROVE AuthInv'
  OBVIOUS
<1> USE DEF vars, AuthInv
<1>1. TypeOK' /\ KeysInv' /\ RecordInv'
  BY DEF TypeOK, KeysInv, RecordInv, Present, AccountOf
<1>2. CallsInv' /\ AuditInv'
  BY DEF CallsInv, AuditInv, Present, AccountOf, Principal
<1> QED
  BY <1>1, <1>2

LEMMA StepInv == AuthInv /\ [Next]_vars => AuthInv'
<1> SUFFICES ASSUME AuthInv, [Next]_vars PROVE AuthInv'
  OBVIOUS
<1>1. ASSUME NEW t \in Threads, NEW k \in Keys, NEW b \in BOOLEAN,
             \/ \E m \in Methods : Verify(t, m, k, b)
             \/ \E m \in Topics : VerifyTopic(t, m, k, b)
             \/ \E kind \in {"AuthDecision", "TopicDecision"} : Reject(t, k, b, kind)
      PROVE  AuthInv'
  BY <1>1, VerifyKeeps, VerifyTopicKeeps, RejectKeeps
<1>2. ASSUME NEW t \in Threads, EmitAllow(t) \/ DecideTopic(t) \/ Forbid(t) \/ Permit(t)
      PROVE  AuthInv'
  BY <1>2, EmitAllowKeeps, DecideTopicKeeps, ForbidKeeps, PermitKeeps
<1>3. ASSUME NEW t \in Threads, Handler(t) PROVE AuthInv'
  <2>1. CASE Read(t) \/ ServiceRefused(t) \/ EmitRevoked(t)
    BY <2>1, ReadKeeps, ServiceRefusedKeeps, EmitRevokedKeeps
  <2>2. CASE \E outcome \in {"ok", "err"} : ServiceMutation(t, outcome)
    BY <2>2, MutationKeeps
  <2>3. CASE \E scopes \in SUBSET Scopes : TokenCreate(t, scopes) \/ TokenCreateRefused(t, scopes)
    BY <2>3, TokenCreateKeeps, CreateRefusedKeeps
  <2>4. CASE \E k \in Keys : TokenRevoke(t, k) \/ TokenRevokeFails(t, k)
    BY <2>4, RevokeKeeps, RevokeFailsKeeps
  <2> QED
    BY <1>3, <2>1, <2>2, <2>3, <2>4 DEF Handler
<1>4. ASSUME NEW t \in Threads, NEW n \in Names, NEW requested \in SUBSET Scopes,
             Login(t, n, requested)
      PROVE  AuthInv'
  BY <1>4, LoginKeeps
<1>5. ASSUME NEW t \in Threads,
             LoginDenied(t) \/ AddFails(t) \/ EmitCreated(t) \/ \E k \in Keys : AddCapability(t, k)
      PROVE  AuthInv'
  BY <1>5, LoginDeniedKeeps, AddFailsKeeps, EmitCreatedKeeps, AddKeeps
<1>6. CASE (\E k \in Keys : Expire(k)) \/ (\E gone \in SUBSET Keys : Prune(gone))
  BY <1>6, ExpireKeeps, PruneKeeps
<1>7. CASE UNCHANGED vars
  BY <1>7, StutterKeeps
<1> QED
  BY <1>1, <1>2, <1>3, <1>4, <1>5, <1>6, <1>7 DEF Next

LEMMA Invariance == Spec => []AuthInv
<1> QED
  BY InitInv, StepInv, PTL DEF Spec

\* The label of a key is a handle only when the key is gone.
LEMMA LabelGone ==
    ASSUME AuthInv, GoneInv, NEW k \in Keys
    PROVE  Gone(Label(k))
<1>1. CASE Present(k)
  BY <1>1 DEF GoneInv, Label
<1>2. CASE ~ Present(k)
  BY <1>2 DEF Gone, Label, Handle
<1> QED
  BY <1>1, <1>2

\* The same of the store after a step.
GoneNext(label) == label \in Handles => caps'[label[2]] = None

\* The steps that change the store.
LEMMA CapsStep ==
    [Next]_vars =>
        \/ caps' = caps
        \/ \E t \in Threads, k \in Keys : AddCapability(t, k) \/ TokenRevoke(t, k)
        \/ \E k \in Keys : Expire(k)
        \/ \E gone \in SUBSET Keys : Prune(gone)
<1>1. ASSUME NEW t \in Threads, Handler(t)
      PROVE  caps' = caps \/ \E k \in Keys : TokenRevoke(t, k)
  BY <1>1 DEF Handler, Read, ServiceMutation, ServiceRefused, TokenCreate, TokenCreateRefused,
              TokenRevokeFails, EmitRevoked
<1>2. ASSUME NEW t \in Threads, NEW k \in Keys, NEW b \in BOOLEAN,
             \/ \E m \in Methods : Verify(t, m, k, b)
             \/ \E m \in Topics : VerifyTopic(t, m, k, b)
             \/ \E kind \in {"AuthDecision", "TopicDecision"} : Reject(t, k, b, kind)
      PROVE  caps' = caps
  BY <1>2 DEF Verify, VerifyTopic, Authenticate, Reject
<1>3. ASSUME NEW t \in Threads,
             \/ EmitAllow(t) \/ DecideTopic(t) \/ Forbid(t) \/ Permit(t) \/ LoginDenied(t)
             \/ \E n \in Names, requested \in SUBSET Scopes : Login(t, n, requested)
             \/ AddFails(t) \/ EmitCreated(t)
      PROVE  caps' = caps
  BY <1>3 DEF EmitAllow, DecideTopic, Forbid, Permit, LoginDenied, Login, AddFails, EmitCreated
<1>4. UNCHANGED vars => caps' = caps
  BY DEF vars
<1> QED
  BY <1>1, <1>2, <1>3, <1>4 DEF Next

\* What is gone stays gone: a new capability gets a key that had none.
LEMMA StaysGone ==
    ASSUME AuthInv, NEW x \in Names \cup Handles, Gone(x), AccountOf(x) \in Names,
           [Next]_vars
    PROVE  GoneNext(x)
<1> SUFFICES ASSUME x \in Handles PROVE ~ Present(x[2])'
  BY DEF GoneNext, Present
<1>1. PICK j \in Keys : x = Handle(j)
  BY DEF Handles
<1>2. x[2] = j /\ ~ Present(j) /\ account[j] \in Names /\ account[j] # None
  BY <1>1, AuthAssumption DEF Gone, AccountOf, Handle
<1>3. ASSUME caps' = caps PROVE ~ Present(j)'
  BY <1>2, <1>3 DEF Present
<1>4. ASSUME NEW t \in Threads, NEW k \in Keys, AddCapability(t, k) PROVE ~ Present(j)'
  BY <1>2, <1>4 DEF AddCapability, Present, AuthInv, TypeOK
<1>5. ASSUME NEW t \in Threads, NEW k \in Keys, TokenRevoke(t, k) PROVE ~ Present(j)'
  BY <1>2, <1>5 DEF TokenRevoke, Present, AuthInv, TypeOK
<1>6. ASSUME NEW k \in Keys, Expire(k) PROVE ~ Present(j)'
  BY <1>2, <1>6 DEF Expire, Present, AuthInv, TypeOK
<1>7. ASSUME NEW gone \in SUBSET Keys, Prune(gone) PROVE ~ Present(j)'
  BY <1>2, <1>7 DEF Prune, Present
<1>8. ~ Present(j)'
  BY <1>3, <1>4, <1>5, <1>6, <1>7, CapsStep
<1> QED
  BY <1>2, <1>8

\* The last step's record carries the label of the caller, the owner of a token
\* just created, or nobody in particular.
LEMMA RecordStep ==
    ASSUME AuthInv, [Next]_vars, record' # None
    PROVE  \/ record'.subject = Anonymous /\ caps' = caps
           \/ \E k \in Keys : record'.subject = Label(k) /\ caps' = caps
           \/ \E t \in Threads : /\ pc[t] = "created" /\ caps' = caps
                                 /\ record'.subject = call[t].owner
           \/ record' = record /\ caps' = caps
<1> DEFINE Named == \/ record'.subject = Anonymous /\ caps' = caps
                    \/ \E k \in Keys : record'.subject = Label(k) /\ caps' = caps
                    \/ \E t \in Threads : /\ pc[t] = "created" /\ caps' = caps
                                          /\ record'.subject = call[t].owner
                    \/ record' = record /\ caps' = caps
<1>1. ASSUME NEW t \in Threads, NEW k \in Keys, NEW b \in BOOLEAN,
             \/ \E m \in Methods : Verify(t, m, k, b)
             \/ \E m \in Topics : VerifyTopic(t, m, k, b)
      PROVE  Named
  BY <1>1 DEF Verify, VerifyTopic, Authenticate, Quiet
<1>2. ASSUME NEW t \in Threads,
             \/ LoginDenied(t)
             \/ \E k \in Keys, b \in BOOLEAN, kind \in {"AuthDecision", "TopicDecision"} :
                    Reject(t, k, b, kind)
      PROVE  Named
  BY <1>2 DEF LoginDenied, Reject, Emit
<1>3. ASSUME NEW t \in Threads,
             \/ EmitAllow(t) \/ DecideTopic(t) \/ Forbid(t) \/ Permit(t) \/ EmitRevoked(t)
             \/ \E outcome \in {"ok", "err"} : ServiceMutation(t, outcome)
      PROVE  Named
  <2>1. call[t].key \in Keys
    BY <1>3 DEF AuthInv, CallsInv, TypeOK, Calls, EmitAllow, DecideTopic, Forbid, Permit,
                EmitRevoked, ServiceMutation
  <2>2. record'.subject = Label(call[t].key) /\ caps' = caps
    BY <1>3 DEF EmitAllow, DecideTopic, Forbid, Permit, EmitRevoked, ServiceMutation, Emit, Quiet
  <2> QED
    BY <2>1, <2>2
<1>4. ASSUME NEW t \in Threads, EmitCreated(t)
      PROVE  Named
  BY <1>4 DEF EmitCreated, Emit
<1>5. ASSUME NEW t \in Threads,
             \/ Read(t) \/ ServiceRefused(t) \/ AddFails(t)
             \/ \E scopes \in SUBSET Scopes : TokenCreate(t, scopes) \/ TokenCreateRefused(t, scopes)
             \/ \E k \in Keys : TokenRevoke(t, k) \/ TokenRevokeFails(t, k) \/ AddCapability(t, k)
             \/ \E n \in Names, requested \in SUBSET Scopes : Login(t, n, requested)
      PROVE  Named
  BY <1>5 DEF Read, ServiceRefused, AddFails, TokenCreate, TokenCreateRefused, TokenRevoke,
              TokenRevokeFails, AddCapability, Login, Quiet
<1>6. ASSUME (\E k \in Keys : Expire(k)) \/ (\E gone \in SUBSET Keys : Prune(gone)) PROVE Named
  BY <1>6 DEF Expire, Prune, Quiet
<1>7. UNCHANGED vars => Named
  BY DEF vars
<1>8. Named
  <2> HIDE DEF Named
  <2> QED BY <1>1, <1>2, <1>3, <1>4, <1>5, <1>6, <1>7 DEF Next, Handler
<1> QED
  BY <1>8

\* The owner that a call carries is the label of its key, looked up just now,
\* the account that logs in, or what it carried before.
LEMMA OwnerStep ==
    ASSUME AuthInv, [Next]_vars, NEW t \in Threads, pc'[t] \in {"resolved", "created"}
    PROVE  \/ call'[t].owner \in Names
           \/ \E k \in Keys : call'[t].owner = Label(k) /\ caps' = caps
           \/ pc[t] \in {"resolved", "created"} /\ call'[t].owner = call[t].owner
<1> USE DEF AuthInv
<1>1. ASSUME NEW u \in Threads, NEW n \in Names, NEW requested \in SUBSET Scopes,
             Login(u, n, requested)
      PROVE  call'[t].owner \in Names \/ (pc[t] \in {"resolved", "created"} /\ call'[t] = call[t])
  BY <1>1 DEF Login, Goto, TypeOK, NoCall
<1>2. ASSUME NEW u \in Threads, NEW scopes \in SUBSET Scopes, TokenCreate(u, scopes)
      PROVE  \/ \E k \in Keys : call'[t].owner = Label(k) /\ caps' = caps
             \/ pc[t] \in {"resolved", "created"} /\ call'[t] = call[t]
  <2>1. call[u].key \in Keys /\ call[u] \in Calls
    BY <1>2 DEF CallsInv, TypeOK, Calls, TokenCreate
  <2>2. CASE t = u
    <3>1. call'[t].owner = Label(call[u].key) /\ caps' = caps
      BY <1>2, <2>1, <2>2 DEF TokenCreate, TypeOK, Calls
    <3> QED
      BY <2>1, <3>1
  <2>3. CASE t # u
    BY <1>2, <2>3 DEF TokenCreate, Goto, TypeOK
  <2> QED
    BY <2>2, <2>3
<1>3. ASSUME NEW u \in Threads, NEW k \in Keys, AddCapability(u, k)
      PROVE  pc[t] \in {"resolved", "created"} /\ call'[t].owner = call[t].owner
  <2>1. call[u] \in Calls
    BY DEF TypeOK
  <2> QED
    BY <1>3, <2>1 DEF AddCapability, Goto, TypeOK, Calls
<1>4. ASSUME NEW u \in Threads, NEW k \in Keys, NEW b \in BOOLEAN,
             \/ \E m \in Methods : Verify(u, m, k, b)
             \/ \E m \in Topics : VerifyTopic(u, m, k, b)
             \/ \E kind \in {"AuthDecision", "TopicDecision"} : Reject(u, k, b, kind)
             \/ TokenRevoke(u, k) \/ TokenRevokeFails(u, k)
      PROVE  pc[t] \in {"resolved", "created"} /\ call'[t] = call[t]
  BY <1>4 DEF Verify, VerifyTopic, Authenticate, Reject, TokenRevoke, TokenRevokeFails, Goto, TypeOK
<1>5. ASSUME NEW u \in Threads,
             \/ EmitAllow(u) \/ DecideTopic(u) \/ Forbid(u) \/ Permit(u) \/ EmitRevoked(u)
             \/ \E outcome \in {"ok", "err"} : ServiceMutation(u, outcome)
             \/ Read(u) \/ ServiceRefused(u) \/ AddFails(u) \/ EmitCreated(u) \/ LoginDenied(u)
             \/ \E scopes \in SUBSET Scopes : TokenCreateRefused(u, scopes)
      PROVE  pc[t] \in {"resolved", "created"} /\ call'[t] = call[t]
  BY <1>5 DEF EmitAllow, DecideTopic, Forbid, Permit, EmitRevoked, ServiceMutation, Read,
              ServiceRefused, AddFails, EmitCreated, LoginDenied, TokenCreateRefused, Goto, Answer, TypeOK
<1>6. ASSUME (\E k \in Keys : Expire(k)) \/ (\E gone \in SUBSET Keys : Prune(gone)) \/ UNCHANGED vars
      PROVE  pc[t] \in {"resolved", "created"} /\ call'[t] = call[t]
  BY <1>6 DEF Expire, Prune, vars
<1> QED
  BY <1>1, <1>2, <1>3, <1>4, <1>5, <1>6 DEF Next, Handler

\* A capability is stored with the owner that its call carries, and keeps it.
LEMMA StoredStep ==
    ASSUME AuthInv, [Next]_vars, NEW k \in Keys, Present(k)'
    PROVE  \/ Present(k) /\ caps'[k].owner = caps[k].owner
           \/ \E t \in Threads : pc[t] = "resolved" /\ caps'[k].owner = call[t].owner
<1> DEFINE Stored == \/ Present(k) /\ caps'[k].owner = caps[k].owner
                     \/ \E t \in Threads : pc[t] = "resolved" /\ caps'[k].owner = call[t].owner
<1> USE DEF AuthInv
<1>1. ASSUME caps' = caps PROVE Stored
  BY <1>1 DEF Present
<1>2. ASSUME NEW t \in Threads, NEW j \in Keys, AddCapability(t, j)
      PROVE  Stored
  BY <1>2 DEF AddCapability, Present, TypeOK
<1>3. ASSUME NEW j \in Keys, Expire(j) \/ \E t \in Threads : TokenRevoke(t, j)
      PROVE  Stored
  <2>1. caps[j] \in Capabilities
    BY <1>3 DEF TokenRevoke, Expire, Present, TypeOK
  <2> QED
    BY <1>3, <2>1 DEF TokenRevoke, Expire, Present, TypeOK, Capabilities
<1>4. ASSUME NEW gone \in SUBSET Keys, Prune(gone)
      PROVE  Stored
  BY <1>4 DEF Prune, Present
<1>5. Stored
  <2> HIDE DEF Stored
  <2> QED BY <1>1, <1>2, <1>3, <1>4, CapsStep
<1> QED
  BY <1>5

\* Every handle written in the place of an account is of a pruned capability.
LEMMA GoneStep == AuthInv /\ GoneInv /\ [Next]_vars => GoneInv'
<1> SUFFICES ASSUME AuthInv, GoneInv, [Next]_vars PROVE GoneInv'
  OBVIOUS
<1>1. \A x \in Names : GoneNext(x)
  BY LabelAssumption DEF GoneNext
<1>2. ASSUME NEW k \in Keys, caps' = caps PROVE GoneNext(Label(k))
  BY <1>2, LabelGone DEF Gone, GoneNext, Present
<1>3. ASSUME NEW t \in Threads, pc[t] \in {"resolved", "created"} PROVE GoneNext(call[t].owner)
  <2>1. /\ Gone(call[t].owner) /\ AccountOf(call[t].owner) \in Names
        /\ call[t].owner \in Names \cup Handles
    BY <1>3 DEF GoneInv, AuthInv, CallsInv, TypeOK, Calls, AccountOf
  <2> QED
    BY <2>1, StaysGone
<1>4. ASSUME NEW k \in Keys, Present(k) PROVE GoneNext(caps[k].owner)
  <2>1. /\ Gone(caps[k].owner) /\ AccountOf(caps[k].owner) \in Names
        /\ caps[k].owner \in Names \cup Handles
    BY <1>4 DEF GoneInv, AuthInv, KeysInv, TypeOK, Present, Capabilities
  <2> QED
    BY <2>1, StaysGone
<1>5. ASSUME NEW k \in Keys, Present(k)' PROVE GoneNext(caps'[k].owner)
  BY <1>3, <1>4, <1>5, StoredStep
<1>6. ASSUME NEW t \in Threads, pc'[t] \in {"resolved", "created"} PROVE GoneNext(call'[t].owner)
  BY <1>1, <1>2, <1>3, <1>6, OwnerStep
<1>7. ASSUME record' # None PROVE GoneNext(record'.subject)
  <2>1. GoneNext(Anonymous)
    BY LabelAssumption DEF GoneNext
  <2>2. ASSUME record' = record, caps' = caps PROVE GoneNext(record'.subject)
    BY <1>7, <2>2 DEF GoneInv, Gone, GoneNext, Present
  <2> QED
    BY <1>2, <1>3, <1>7, <2>1, <2>2, RecordStep
<1> QED
  BY <1>5, <1>6, <1>7 DEF GoneInv, Gone, GoneNext, Present

LEMMA NamesInvariance == Spec => []GoneInv
<1>1. Init => GoneInv
  BY AuthAssumption DEF Init, GoneInv, Present
<1> QED
  BY <1>1, GoneStep, Invariance, PTL DEF Spec

\* Along a chain of tokens that create tokens no scope is gained: every
\* capability's scopes are among those of the account at its beginning.
THEOREM ScopesNeverGrow == Spec => []NoEscalation
<1>1. AuthInv => NoEscalation
  BY DEF AuthInv, KeysInv, NoEscalation
<1> QED
  BY <1>1, Invariance, PTL

\* Records and tokens name the account of the credential that made the call,
\* although each name is looked up in a snapshot of its own, or in its place the
\* handle of a capability of that account which has been pruned (the fallback of
\* subject_label in api/mod.rs): never another account, and never a handle whose
\* account could have been looked up.
THEOREM RecordsNameTheCaller == Spec => []AttributedToCaller
<1>1. ASSUME AuthInv, NEW x \in Names \cup Handles, NEW n, AccountOf(x) = n, Gone(x)
      PROVE  Denotes(x, n)
  BY <1>1 DEF AccountOf, Gone, Denotes, Handles, Handle
<1>2. AuthInv /\ GoneInv => AttributedToCaller
  <2> SUFFICES ASSUME AuthInv, GoneInv PROVE AttributedToCaller
    OBVIOUS
  <2>1. ASSUME record # None, record.subject # Anonymous PROVE Denotes(record.subject, record.caller)
    <3>1. record.subject \in Names \cup Handles /\ Gone(record.subject)
      BY <2>1 DEF AuthInv, TypeOK, AuditEvents, Labels, GoneInv
    <3>2. AccountOf(record.subject) = record.caller
      BY <2>1 DEF AuthInv, RecordInv
    <3> QED
      BY <1>1, <3>1, <3>2
  <2>2. ASSUME NEW k \in Keys, Present(k) PROVE Denotes(caps[k].owner, account[k])
    BY <1>1, <2>2 DEF AuthInv, KeysInv, GoneInv, TypeOK, Present, Capabilities
  <2> QED
    BY <2>1, <2>2 DEF AuthInv, AttributedToCaller
<1> QED
  BY <1>2, Invariance, NamesInvariance, PTL

\* A token that exists, and the revocation of one, has its record as soon as
\* no call is still about to make it.
THEOREM EveryChangeRecorded == Spec => []MutationsAudited
<1>1. AuthInv => MutationsAudited
  BY DEF AuthInv, AuditInv, MutationsAudited
<1> QED
  BY <1>1, Invariance, PTL

-----------------------------------------------------------------------------
(* The rate limiter.                                                       *)

\* The two limiters differ at most in a bucket that was dropped, and whose
\* window is over: it would begin anew on its next use.
Alike(n) ==
    \/ buckets[n] = ideal[n]
    \/ buckets[n] = NoBucket /\ ideal[n] \in Bucket /\ Over(ideal[n], now)

LimiterInv ==
    /\ buckets \in [Accounts -> Bucket \cup {NoBucket}]
    /\ ideal \in [Accounts -> Bucket \cup {NoBucket}]
    /\ now \in Times
    /\ phase \in [Logins -> {"idle", "waiting", "verifying"}]
    /\ login \in [Logins -> [name : Accounts \cup {NoBucket}, at : Times]]
    /\ \A t \in Logins : phase[t] # "idle" => login[t].name \in Accounts
    /\ \A t \in Logins : login[t].at <= now
    /\ late \in BOOLEAN
    /\ late \/ \A n \in Accounts : Alike(n)

-----------------------------------------------------------------------------
(* The operators of the rate limiter.                                      *)

\* A window that is over stays over.
LEMMA StaysOver ==
    ASSUME NEW b \in Bucket, NEW at \in Times, NEW after \in Times, at <= after, Over(b, at)
    PROVE  Over(b, after)
BY LimiterAssumption DEF Over, Elapsed, Bucket, Times

\* Eviction leaves a bucket or drops one that is over.
LEMMA EvictEach ==
    ASSUME NEW bs \in [Accounts -> Bucket \cup {NoBucket}], NEW name, NEW at, NEW n \in Accounts
    PROVE  /\ Evict(bs, name, at) \in [Accounts -> Bucket \cup {NoBucket}]
           /\ \/ Evict(bs, name, at)[n] = bs[n]
              \/ Evict(bs, name, at)[n] = NoBucket /\ bs[n] \in Bucket /\ Over(bs[n], at)
BY NoBucketAssumption DEF Evict

\* A bucket that is over and none begin alike.
LEMMA OverIsNone ==
    ASSUME NEW b \in Bucket, NEW at, Over(b, at)
    PROVE  Current(b, at) = Current(NoBucket, at)
BY DEF Current

LEMMA BucketTypes ==
    ASSUME NEW b \in Bucket \cup {NoBucket}, NEW at \in Times
    PROVE  Current(b, at) \in Bucket /\ Counted(Current(b, at)) \in Bucket
<1>1. Current(b, at) \in Bucket
  BY LimiterAssumption DEF Current, Bucket, Times
<1> QED
  BY <1>1, LimiterAssumption DEF Counted, Bucket, Times

-----------------------------------------------------------------------------
(* Its invariant.                                                          *)

LEMMA CheckStep ==
    ASSUME LimiterInv, NEW t \in Logins, Check(t)
    PROVE  LimiterInv' /\ (~ late' => answer'.got = answer'.want)
<1> DEFINE n  == login[t].name
           at == login[t].at
           bs == Evict(buckets, n, at)
<1>1. n \in Accounts /\ at \in Times /\ at <= now
  BY DEF LimiterInv, Check
<1>2. bs \in [Accounts -> Bucket \cup {NoBucket}]
  BY <1>1, EvictEach DEF LimiterInv
<1>3. /\ Current(bs[n], at) \in Bucket /\ Counted(Current(bs[n], at)) \in Bucket
      /\ Current(ideal[n], at) \in Bucket /\ Counted(Current(ideal[n], at)) \in Bucket
  BY <1>1, <1>2, BucketTypes DEF LimiterInv
<1>4. /\ buckets' = [bs EXCEPT ![n] = Counted(Current(bs[n], at))]
      /\ ideal' = [ideal EXCEPT ![n] = Counted(Current(ideal[n], at))]
      /\ answer' = [got |-> Allowed(Current(bs[n], at)), want |-> Allowed(Current(ideal[n], at))]
      /\ late' = (late \/ at < now)
      /\ now' = now
  BY DEF Check
<1>5. ~ late' => at = now /\ ~ late
  <2>1. ~ late' => ~ late /\ ~ (at < now)
    BY <1>4, Zenon
  <2>2. at \in Nat /\ now \in Nat
    BY <1>1, LimiterAssumption DEF LimiterInv, Times
  <2> QED
    BY <1>1, <2>1, <2>2
<1>6. ASSUME ~ late', NEW m \in Accounts
      PROVE  bs[m] = ideal[m] \/ (bs[m] = NoBucket /\ ideal[m] \in Bucket /\ Over(ideal[m], now))
  <2>1. Alike(m) /\ at = now
    BY <1>5, <1>6 DEF LimiterInv
  <2>2. bs[m] = buckets[m] \/ (bs[m] = NoBucket /\ buckets[m] \in Bucket /\ Over(buckets[m], at))
    BY <1>1, EvictEach DEF LimiterInv
  <2> QED
    BY <2>1, <2>2, NoBucketAssumption DEF Alike
<1>7. ~ late' => Current(bs[n], at) = Current(ideal[n], at)
  BY <1>1, <1>5, <1>6, OverIsNone
<1>8. ~ late' => \A m \in Accounts : Alike(m)'
  <2> SUFFICES ASSUME ~ late', NEW m \in Accounts PROVE Alike(m)'
    OBVIOUS
  <2>1. CASE m = n
    BY <1>1, <1>2, <1>4, <1>7, <2>1 DEF Alike, LimiterInv
  <2>2. CASE m # n
    <3>1. buckets'[m] = bs[m] /\ ideal'[m] = ideal[m]
      BY <1>1, <1>2, <1>4, <2>2 DEF LimiterInv
    <3> QED
      BY <1>4, <1>6, <3>1 DEF Alike
  <2> QED
    BY <2>1, <2>2
<1>9. /\ buckets' \in [Accounts -> Bucket \cup {NoBucket}] /\ ideal' \in [Accounts -> Bucket \cup {NoBucket}]
      /\ late' \in BOOLEAN /\ now' \in Times
  BY <1>1, <1>2, <1>3, <1>4 DEF LimiterInv
<1>10. /\ phase' \in [Logins -> {"idle", "waiting", "verifying"}]
       /\ login' \in [Logins -> [name : Accounts \cup {NoBucket}, at : Times]]
       /\ \A u \in Logins : phase'[u] # "idle" => login'[u].name \in Accounts
       /\ \A u \in Logins : login'[u].at <= now'
  BY LimiterAssumption DEF LimiterInv, Check, NoLogin, Times
<1> QED
  BY <1>4, <1>7, <1>8, <1>9, <1>10 DEF LimiterInv

LEMMA LimiterStep ==
    ASSUME LimiterInv, EvictionInvisible, [LimiterNext]_limiterVars
    PROVE  LimiterInv' /\ EvictionInvisible'
<1>1. CASE \E t \in Logins : Check(t)
  BY <1>1, CheckStep DEF EvictionInvisible
<1>2. CASE Tick
  <2>1. /\ now \in Times /\ now' \in Times /\ now <= now'
        /\ UNCHANGED <<buckets, ideal, phase, login, answer, late>>
    BY <1>2, LimiterAssumption DEF Tick, LimiterInv, Times
  <2>2. \A n \in Accounts : Alike(n) => Alike(n)'
    BY <2>1, StaysOver DEF Alike
  <2>3. \A t \in Logins : login'[t].at <= now'
    BY <2>1, LimiterAssumption DEF LimiterInv, Times
  <2> QED
    BY <2>1, <2>2, <2>3 DEF LimiterInv, EvictionInvisible
<1>3. CASE \E t \in Logins, n \in Accounts : ReadClock(t, n)
  <2>1. PICK t \in Logins, n \in Accounts : ReadClock(t, n)
    BY <1>3
  <2>2. \A m \in Accounts : Alike(m) => Alike(m)'
    BY <2>1 DEF ReadClock, Alike
  <2> QED
    BY <2>1, <2>2, LimiterAssumption DEF ReadClock, LimiterInv, EvictionInvisible, Times
<1>4. CASE \E t \in Logins : WrongPassword(t)
  <2>1. PICK t \in Logins : WrongPassword(t)
    BY <1>4
  <2>2. \A m \in Accounts : Alike(m) => Alike(m)'
    BY <2>1 DEF WrongPassword, Alike
  <2> QED
    BY <2>1, <2>2, LimiterAssumption
       DEF WrongPassword, LimiterInv, EvictionInvisible, NoLogin, Times
<1>5. CASE \E t \in Logins : Success(t)
  <2>1. PICK t \in Logins : Success(t)
    BY <1>5
  <2>2. /\ buckets' = [buckets EXCEPT ![login[t].name] = NoBucket]
        /\ ideal' = [ideal EXCEPT ![login[t].name] = NoBucket] /\ now' = now
    BY <2>1 DEF Success
  <2>3. \A m \in Accounts : Alike(m) => Alike(m)'
    BY <2>2 DEF Alike, LimiterInv
  <2> QED
    BY <2>1, <2>2, <2>3, LimiterAssumption
       DEF Success, LimiterInv, EvictionInvisible, NoLogin, Times
<1>6. CASE UNCHANGED limiterVars
  <2>1. \A m \in Accounts : Alike(m) => Alike(m)'
    BY <1>6 DEF limiterVars, Alike
  <2> QED
    BY <1>6, <2>1 DEF limiterVars, LimiterInv, EvictionInvisible
<1> QED
  BY <1>1, <1>2, <1>3, <1>4, <1>5, <1>6 DEF LimiterNext

\* The invariant, with the property that it carries from call to call.
LEMMA LimiterInvariant == LimiterSpec => [](LimiterInv /\ EvictionInvisible)
<1>1. LimiterInit => LimiterInv /\ EvictionInvisible
  <2> SUFFICES ASSUME LimiterInit PROVE LimiterInv /\ EvictionInvisible
    OBVIOUS
  <2>1. login \in [Logins -> [name : Accounts \cup {NoBucket}, at : Times]]
    BY LimiterAssumption DEF LimiterInit, NoLogin, Times
  <2>2. now \in Times /\ \A t \in Logins : login[t].at <= now
    BY LimiterAssumption DEF LimiterInit, NoLogin, Times
  <2>3. \A n \in Accounts : Alike(n)
    BY DEF LimiterInit, Alike
  <2> QED
    BY <2>1, <2>2, <2>3 DEF LimiterInit, LimiterInv, EvictionInvisible
<1> QED
  BY <1>1, LimiterStep, PTL DEF LimiterSpec

\* The limiter with the cap answers every call as the one without it, up to
\* the first call whose clock reading was old (auth/ratelimit.rs check).
THEOREM CapIsInvisible == LimiterSpec => []EvictionInvisible
BY LimiterInvariant, PTL

-----------------------------------------------------------------------------
(* The bound on bursts.                                                    *)

\* What a name's bucket b says of the times s at which its logins were let
\* through: those that it does not count are not within its window, and all
\* but the last max_attempts of them older by a whole window.  A name without
\* a bucket begins anew at once: the same holds of the present.
Behind(s, b, at) ==
    IF b = NoBucket
    THEN \A i \in 1..Len(s) : i + max_attempts <= Len(s) => s[i] + window <= at
    ELSE /\ b.window_start <= at
         /\ \A i \in 1..Len(s) :
              /\ i + b.attempts <= Len(s) => s[i] <= b.window_start
              /\ i + (b.attempts + max_attempts) <= Len(s) => s[i] + window <= b.window_start

Spaced(s, b, at) ==
    /\ \A i \in 1..Len(s) : s[i] <= at
    /\ \A i \in 1..Len(s) :
          i + 2 * max_attempts <= Len(s) => s[i] + window <= s[i + 2 * max_attempts]
    /\ Behind(s, b, at)

BurstInv ==
    /\ passed \in [Accounts -> Seq(Times)]
    /\ answer \in [got : BOOLEAN, want : BOOLEAN]
    /\ ~ late => \A n \in Accounts : Spaced(passed[n], buckets[n], now)

\* The numbers that the proofs calculate with.
LEMMA Numbers ==
    /\ max_attempts \in Nat /\ max_attempts >= 1 /\ window \in Nat /\ window >= 1
    /\ 2 * max_attempts \in Nat /\ 2 * max_attempts = max_attempts + max_attempts
    /\ Times \subseteq Nat
    /\ \A b \in Bucket : b.attempts \in Nat /\ b.attempts <= max_attempts /\ b.window_start \in Nat
BY LimiterAssumption DEF Times, Bucket

LEMMA PassTimes ==
    ASSUME NEW s \in Seq(Times)
    PROVE  Len(s) \in Nat /\ \A i \in 1..Len(s) : s[i] \in Nat
BY Numbers, LenProperties, ElementOfSeq

\* Time passes.
LEMMA SpacedLater ==
    ASSUME NEW s \in Seq(Times), NEW b \in Bucket \cup {NoBucket}, NEW at \in Times, NEW after \in Times,
           at <= after, Spaced(s, b, at)
    PROVE  Spaced(s, b, after)
<1>1. /\ at \in Nat /\ after \in Nat /\ window \in Nat
      /\ Len(s) \in Nat /\ \A i \in 1..Len(s) : s[i] \in Nat
  BY Numbers, PassTimes
<1>2. \A i \in 1..Len(s) : s[i] <= after
  BY <1>1 DEF Spaced
<1>3. Behind(s, b, after)
  <2>1. CASE b = NoBucket
    BY <1>1, <2>1 DEF Spaced, Behind
  <2>2. CASE b # NoBucket
    <3>1. b.window_start \in Nat
      BY <2>2, Numbers
    <3> QED
      BY <1>1, <2>2, <3>1 DEF Spaced, Behind
  <2> QED
    BY <2>1, <2>2
<1> QED
  BY <1>2, <1>3 DEF Spaced

\* A bucket that is over is dropped by an eviction, ...
LEMMA SpacedEvicted ==
    ASSUME NEW s \in Seq(Times), NEW b \in Bucket, NEW at \in Times, Over(b, at), Spaced(s, b, at)
    PROVE  Spaced(s, NoBucket, at)
<1>1. /\ at \in Nat /\ window \in Nat /\ window >= 1 /\ max_attempts \in Nat
      /\ b.attempts \in Nat /\ b.attempts <= max_attempts /\ b.window_start \in Nat
      /\ Len(s) \in Nat /\ \A i \in 1..Len(s) : s[i] \in Nat
  BY Numbers, PassTimes
<1>2. b.window_start + window <= at
  BY <1>1 DEF Over, Elapsed
<1>3. \A i \in 1..Len(s) : i + b.attempts <= Len(s) => s[i] <= b.window_start
  BY NoBucketAssumption DEF Spaced, Behind
<1>4. ASSUME NEW i \in 1..Len(s), i + max_attempts <= Len(s) PROVE s[i] + window <= at
  <2>1. i + b.attempts <= Len(s)
    BY <1>1, <1>4
  <2>2. s[i] <= b.window_start /\ s[i] \in Nat
    BY <1>1, <1>3, <2>1
  <2> QED
    BY <1>1, <1>2, <2>2
<1> QED
  BY <1>4 DEF Spaced, Behind

\* ... or begun anew by the next use of the name, as a missing one is, ...
LEMMA SpacedCurrent ==
    ASSUME NEW s \in Seq(Times), NEW b \in Bucket \cup {NoBucket}, NEW at \in Times, Spaced(s, b, at)
    PROVE  Spaced(s, Current(b, at), at)
<1>1. CASE b = NoBucket \/ Over(b, at)
  <2> DEFINE c == [attempts |-> 0, window_start |-> at]
  <2>1. Current(b, at) = c /\ c # NoBucket
    BY <1>1, LimiterAssumption, NoBucketAssumption DEF Current, Bucket, Times
  <2>2. Spaced(s, NoBucket, at)
    BY <1>1, SpacedEvicted
  <2>3. at \in Nat /\ max_attempts \in Nat /\ window \in Nat /\ Len(s) \in Nat
        /\ \A i \in 1..Len(s) : s[i] \in Nat
    BY Numbers, PassTimes
  <2>4. /\ \A i \in 1..Len(s) : s[i] <= at
        /\ \A i \in 1..Len(s) : i + max_attempts <= Len(s) => s[i] + window <= at
    BY <2>2 DEF Spaced, Behind
  <2>5. Behind(s, c, at)
    BY <2>1, <2>3, <2>4 DEF Behind
  <2> QED
    BY <2>1, <2>2, <2>5 DEF Spaced
<1>2. CASE ~ (b = NoBucket \/ Over(b, at))
  BY <1>2 DEF Current
<1> QED
  BY <1>1, <1>2

\* ... and a login that is let through is counted in its bucket.
LEMMA SpacedCounted ==
    ASSUME NEW s \in Seq(Times), NEW b \in Bucket, NEW at \in Times, Allowed(b), Spaced(s, b, at)
    PROVE  Spaced(Append(s, at), Counted(b), at)
<1> DEFINE L == Len(s)
           s1 == Append(s, at)
           b1 == Counted(b)
<1>1. /\ at \in Nat /\ window \in Nat /\ max_attempts \in Nat /\ max_attempts >= 1
      /\ b.attempts \in Nat /\ b.window_start \in Nat /\ b.attempts < max_attempts
      /\ 2 * max_attempts \in Nat /\ 2 * max_attempts = max_attempts + max_attempts
      /\ L \in Nat /\ \A i \in 1..L : s[i] \in Nat
  BY Numbers, PassTimes DEF Allowed
<1>2. /\ b1 \in Bucket /\ b1 # NoBucket
      /\ b1.attempts = b.attempts + 1 /\ b1.window_start = b.window_start
  BY <1>1, NoBucketAssumption DEF Counted, Bucket
<1>3. /\ Len(s1) = L + 1 /\ s1[L + 1] = at
      /\ \A i \in 1..L : s1[i] = s[i]
  BY AppendProperties
<1>4. /\ \A i \in 1..L : s[i] <= at
      /\ \A i \in 1..L : i + 2 * max_attempts <= L => s[i] + window <= s[i + 2 * max_attempts]
      /\ b.window_start <= at
      /\ \A i \in 1..L : i + b.attempts <= L => s[i] <= b.window_start
      /\ \A i \in 1..L : i + (b.attempts + max_attempts) <= L => s[i] + window <= b.window_start
  BY NoBucketAssumption DEF Spaced, Behind
<1> HIDE DEF L, s1, b1
<1>5. \A i \in 1..Len(s1) : i \in 1..L \/ i = L + 1
  BY <1>1, <1>3
<1>6. \A i \in 1..Len(s1) : s1[i] <= at
  BY <1>1, <1>3, <1>4, <1>5
<1>7. ASSUME NEW i \in 1..Len(s1), i + 2 * max_attempts <= Len(s1)
      PROVE  s1[i] + window <= s1[i + 2 * max_attempts]
  <2>1. i \in 1..L /\ s1[i] = s[i] /\ s[i] \in Nat
    BY <1>1, <1>3, <1>5, <1>7
  <2>2. CASE i + 2 * max_attempts = L + 1
    <3>1. i + (b.attempts + max_attempts) <= L
      BY <1>1, <2>1, <2>2
    <3>2. s[i] + window <= b.window_start
      BY <1>4, <2>1, <3>1
    <3> QED
      BY <1>1, <1>3, <1>4, <2>1, <2>2, <3>2
  <2>3. CASE i + 2 * max_attempts <= L
    <3>1. i + 2 * max_attempts \in 1..L
      BY <1>1, <2>1, <2>3
    <3> QED
      BY <1>3, <1>4, <2>1, <2>3, <3>1
  <2> QED
    BY <1>1, <1>3, <1>7, <2>1, <2>2, <2>3
<1>8. Behind(s1, b1, at)
  <2>1. ASSUME NEW i \in 1..Len(s1), i + (b.attempts + 1) <= L + 1
        PROVE  i \in 1..L /\ i + b.attempts <= L
    BY <1>1, <1>3, <2>1
  <2>2. ASSUME NEW i \in 1..Len(s1), i + (b.attempts + 1) <= L + 1
        PROVE  s1[i] <= b.window_start
    BY <1>3, <1>4, <2>1, <2>2
  <2>3. ASSUME NEW i \in 1..Len(s1), i + ((b.attempts + 1) + max_attempts) <= L + 1
        PROVE  s1[i] + window <= b.window_start
    <3>1. i \in 1..L /\ i + (b.attempts + max_attempts) <= L
      BY <1>1, <1>3, <2>3
    <3> QED
      BY <1>3, <1>4, <3>1
  <2> QED
    BY <1>2, <1>3, <1>4, <2>2, <2>3 DEF Behind
<1> QED
  BY <1>6, <1>7, <1>8 DEF Spaced, s1, b1

\* A call of the limiter keeps the logins of every name apart.
LEMMA BurstCheck ==
    ASSUME LimiterInv, BurstInv, NEW t \in Logins, Check(t)
    PROVE  BurstInv'
<1> DEFINE n  == login[t].name
           at == login[t].at
           bs == Evict(buckets, n, at)
           c  == Current(bs[n], at)
<1>1. n \in Accounts /\ at \in Times /\ now \in Times /\ at <= now
      /\ buckets \in [Accounts -> Bucket \cup {NoBucket}] /\ passed \in [Accounts -> Seq(Times)]
  BY DEF LimiterInv, BurstInv, Check
<1>2. bs \in [Accounts -> Bucket \cup {NoBucket}]
  BY <1>1, EvictEach
<1>3. c \in Bucket
  BY <1>1, <1>2, BucketTypes
<1>4. /\ buckets' = [bs EXCEPT ![n] = Counted(c)]
      /\ answer' = [got |-> Allowed(c), want |-> Allowed(Current(ideal[n], at))]
      /\ passed' = IF Allowed(c) THEN [passed EXCEPT ![n] = Append(@, now)] ELSE passed
      /\ late' = (late \/ at < now)
      /\ now' = now
  BY DEF Check
<1> HIDE DEF n, at, bs, c
<1>5. passed' \in [Accounts -> Seq(Times)]
  <2>1. Append(passed[n], now) \in Seq(Times)
    BY <1>1, AppendProperties
  <2> QED
    BY <1>1, <1>4, <2>1
<1>6. ASSUME ~ late', NEW m \in Accounts PROVE Spaced(passed'[m], buckets'[m], now')
  <2>1. ~ late /\ at = now
    <3>1. ~ late /\ ~ (at < now)
      BY <1>4, <1>6, Zenon
    <3> QED
      BY <1>1, <3>1, Numbers
  <2>2. Spaced(passed[m], bs[m], now)
    <3>1. Spaced(passed[m], buckets[m], now) /\ passed[m] \in Seq(Times)
      BY <1>1, <2>1 DEF BurstInv
    <3>2. bs[m] = buckets[m] \/ (bs[m] = NoBucket /\ buckets[m] \in Bucket /\ Over(buckets[m], now))
      BY <1>1, <2>1, EvictEach DEF bs
    <3> QED
      BY <1>1, <3>1, <3>2, SpacedEvicted
  <2>3. CASE m # n
    BY <1>1, <1>2, <1>4, <2>2, <2>3
  <2>4. CASE m = n
    <3>1. Spaced(passed[n], c, now) /\ passed[n] \in Seq(Times)
      BY <1>1, <1>2, <2>1, <2>2, <2>4, SpacedCurrent DEF c
    <3>2. buckets'[n] = Counted(c)
      BY <1>1, <1>2, <1>4
    <3>3. CASE Allowed(c)
      <4>1. Spaced(Append(passed[n], now), Counted(c), now)
        BY <1>1, <1>3, <3>1, <3>3, SpacedCounted
      <4>2. passed'[n] = Append(passed[n], now)
        BY <1>1, <1>4, <3>3
      <4> QED
        BY <1>4, <2>4, <3>2, <4>1, <4>2
    <3>4. CASE ~ Allowed(c)
      <4>1. Counted(c) = c
        BY <3>4 DEF Counted, Allowed
      <4> QED
        BY <1>4, <2>4, <3>1, <3>2, <3>4, <4>1
    <3> QED
      BY <3>3, <3>4
  <2> QED
    BY <2>3, <2>4
<1>7. answer' \in [got : BOOLEAN, want : BOOLEAN]
  BY <1>4 DEF Allowed
<1> QED
  BY <1>5, <1>6, <1>7 DEF BurstInv

LEMMA BurstStep == LimiterInv /\ LimiterInv' /\ BurstInv /\ [LimiterNext]_limiterVars => BurstInv'
<1> SUFFICES ASSUME LimiterInv, LimiterInv', BurstInv, [LimiterNext]_limiterVars PROVE BurstInv'
  OBVIOUS
<1>1. CASE \E t \in Logins : Check(t)
  BY <1>1, BurstCheck
<1>2. CASE Tick
  <2>1. UNCHANGED <<buckets, passed, late, answer>> /\ now \in Times /\ now' \in Times /\ now <= now'
    BY <1>2, Numbers DEF Tick, LimiterInv
  <2>2. ASSUME ~ late, NEW m \in Accounts PROVE Spaced(passed[m], buckets[m], now')
    BY <2>1, <2>2, SpacedLater DEF BurstInv, LimiterInv
  <2> QED
    BY <2>1, <2>2 DEF BurstInv
<1>3. CASE \E t \in Logins : Success(t)
  <2>1. PICK t \in Logins : Success(t)
    BY <1>3
  <2> DEFINE n == login[t].name
  <2>2. /\ buckets' = [buckets EXCEPT ![n] = NoBucket] /\ passed' = [passed EXCEPT ![n] = << >>]
        /\ UNCHANGED <<now, answer, late>> /\ n \in Accounts
        /\ buckets \in [Accounts -> Bucket \cup {NoBucket}]
    BY <2>1 DEF Success, LimiterInv
  <2> HIDE DEF n
  <2>3. Spaced(<< >>, NoBucket, now)
    BY EmptySeq DEF Spaced, Behind
  <2>4. ASSUME ~ late, NEW m \in Accounts PROVE Spaced(passed'[m], buckets'[m], now)
    <3>1. CASE m = n
      BY <2>2, <2>3, <3>1 DEF BurstInv
    <3>2. CASE m # n
      BY <2>2, <2>4, <3>2 DEF BurstInv
    <3> QED
      BY <3>1, <3>2
  <2>5. passed' \in [Accounts -> Seq(Times)]
    BY <2>2, EmptySeq DEF BurstInv
  <2> QED
    BY <2>2, <2>4, <2>5 DEF BurstInv
<1>4. CASE UNCHANGED <<buckets, passed, late, now, answer>>
  BY <1>4 DEF BurstInv
<1> QED
  BY <1>1, <1>2, <1>3, <1>4 DEF LimiterNext, ReadClock, WrongPassword, limiterVars

\* Brute force is bounded (auth/ratelimit.rs check, reset): between two
\* successes no interval shorter than the window lets more than two windows'
\* attempts of a name through, for every number of names and every cap.
THEOREM BruteForceBounded == LimiterSpec => []BurstBounded
<1>1. LimiterInit => BurstInv
  <2> SUFFICES ASSUME LimiterInit PROVE BurstInv
    OBVIOUS
  <2>1. \A n \in Accounts : Spaced(<< >>, NoBucket, now)
    BY EmptySeq DEF Spaced, Behind
  <2> QED
    BY <2>1, EmptySeq DEF LimiterInit, BurstInv
<1>2. LimiterInv /\ BurstInv => BurstBounded
  <2> SUFFICES ASSUME LimiterInv, BurstInv PROVE BurstBounded
    OBVIOUS
  <2>1. LimiterTypeOK
    BY DEF LimiterInv, BurstInv, LimiterTypeOK
  <2> QED
    BY <2>1 DEF BurstInv, BurstBounded, Spaced
<1> QED
  BY <1>1, <1>2, LimiterInvariant, BurstStep, PTL DEF LimiterSpec
=============================================================================
