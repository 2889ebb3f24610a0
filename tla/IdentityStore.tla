---------------------------- MODULE IdentityStore ----------------------------
(***************************************************************************)
(* auth/store.rs (FileStore), auth/persister.rs and the verifier's use of  *)
(* the store (auth/verifier.rs, authenticate).                             *)
(*                                                                         *)
(* Request threads mutate the store or authenticate against it; one        *)
(* persister thread flushes buffered last_used timestamps and prunes.  A   *)
(* mutation is three steps, as in `mutate`: take write_lock, clone the     *)
(* published snapshot and run the closure; rename the new file into place  *)
(* (or fail); publish the clone and return.  Readers load the published    *)
(* snapshot without the lock at any point in between, and the process may  *)
(* die between any two steps and reopen the file.                          *)
(***************************************************************************)
EXTENDS IdentitySnapshot

CONSTANTS
    Clients,   \* request threads
    Persister, \* the supervised maintenance task
    Faults     \* may a write fail and the process die?

Threads == Clients \cup {Persister}

ASSUME ThreadAssumption == Persister \notin Clients /\ None \notin Threads
ASSUME FaultsAssumption == Faults \in BOOLEAN

VARIABLES
    disk,          \* identity.json, as the last completed rename left it
    snap,          \* FileStore::snap, what readers see
    write_lock,    \* FileStore::write_lock: its holder or None
    pending_touch, \* FileStore::pending_touch
    now,           \* now_secs()
    pc,            \* where each thread is
    req,           \* the mutation a thread runs: what its closure captured
    clone,         \* `next` in mutate: the clone the closure has changed
    held,          \* the capability a request looked up, and what was promised then
    minted,        \* key ids drawn by token::mint
    issued,        \* history: keys whose record reached the disk
    retired        \* history: keys whose revocation a caller was told of

vars == <<disk, snap, write_lock, pending_touch, now, pc, req, clone, held,
          minted, issued, retired>>

NoTouches == [k \in Keys |-> None]

\* A capability looked up by `authenticate`: its record, and whether its
\* revocation had been acknowledged before the request arrived.
Lookups == [key : Keys, rec : CapabilityRecord \cup {None}, retired : BOOLEAN]

PCs == {"idle", "want", "cloned", "renamed",  \* mutate
        "sweep",                              \* prune, after its mutation
        "flushed",                            \* persister, between flush and prune
        "looked", "allowed"}                  \* authenticate

TypeOK ==
    /\ disk \in Snapshot
    /\ snap \in Snapshot
    /\ write_lock \in Threads \cup {None}
    /\ pending_touch \in Touches
    /\ now \in Times
    /\ pc \in [Threads -> PCs]
    /\ req \in [Threads -> Ops \cup {None}]
    /\ clone \in [Threads -> Snapshot \cup {None}]
    /\ held \in [Clients -> Lookups \cup {None}]
    /\ minted \in SUBSET Keys
    /\ issued \in SUBSET Keys
    /\ retired \in SUBSET Keys

-----------------------------------------------------------------------------
(* FileStore::open, at start and after a crash: the file or, without one,  *)
(* the empty snapshot; nothing that was in memory survives.                *)

Open(s) ==
    /\ snap' = s
    /\ write_lock' = None
    /\ pending_touch' = NoTouches
    /\ pc' = [t \in Threads |-> "idle"]
    /\ req' = [t \in Threads |-> None]
    /\ clone' = [t \in Threads |-> None]
    /\ held' = [t \in Clients |-> None]

Init ==
    /\ disk = EmptySnapshot
    /\ snap = EmptySnapshot
    /\ write_lock = None
    /\ pending_touch = NoTouches
    /\ now = 0
    /\ pc = [t \in Threads |-> "idle"]
    /\ req = [t \in Threads |-> None]
    /\ clone = [t \in Threads |-> None]
    /\ held = [t \in Clients |-> None]
    /\ minted = {} /\ issued = {} /\ retired = {}

\* The process dies at any point and the service manager starts it again.
CrashAndReopen ==
    /\ Faults
    /\ Open(disk)
    /\ UNCHANGED <<disk, now, minted, issued, retired>>

Tick ==
    /\ now + 1 \in Times
    /\ now' = now + 1
    /\ UNCHANGED <<disk, snap, write_lock, pending_touch, pc, req, clone, held,
                   minted, issued, retired>>

-----------------------------------------------------------------------------
(* FileStore::mutate.                                                      *)

\* What a request thread asks for.  An added key is freshly minted, and a
\* lifetime counts from the present.
ClientOps ==
    {o \in AddOps : o.key \notin minted /\ (o.expires_at # None => o.expires_at >= now)}
        \cup RevokeOps \cup AccountOps

Request(t, o) ==
    /\ pc[t] = "idle"
    /\ pc' = [pc EXCEPT ![t] = "want"]
    /\ req' = [req EXCEPT ![t] = o]
    /\ minted' = IF o.op = "add_capability" THEN minted \cup {o.key} ELSE minted
    /\ UNCHANGED <<disk, snap, write_lock, pending_touch, now, clone, held, issued, retired>>

\* Where a thread goes when its mutation is over.
Return(t) ==
    IF req[t].op = "flush_last_used" THEN "flushed" ELSE "idle"

\* A slip: clone before the lock is free.
CloneUnlocked(t) ==
    /\ pc[t] = "want"
    /\ Succeeds(req[t], snap)
    /\ write_lock' = t
    /\ clone' = [clone EXCEPT ![t] = Apply(req[t], snap)]
    /\ pc' = [pc EXCEPT ![t] = "cloned"]
    /\ UNCHANGED <<disk, snap, pending_touch, now, req, held, minted, issued, retired>>

\* write_lock.lock(), load_full, clone, f(&mut next) = Ok.
Clone(t) ==
    /\ pc[t] = "want"
    /\ write_lock = None
    /\ Succeeds(req[t], snap)
    /\ write_lock' = t
    /\ clone' = [clone EXCEPT ![t] = Apply(req[t], snap)]
    /\ pc' = [pc EXCEPT ![t] = "cloned"]
    /\ UNCHANGED <<disk, snap, pending_touch, now, req, held, minted, issued, retired>>

\* f(&mut next) = Err: the guard is dropped, nothing was touched.
NotFound(t) ==
    /\ pc[t] = "want"
    /\ write_lock = None
    /\ ~ Succeeds(req[t], snap)
    /\ pc' = [pc EXCEPT ![t] = Return(t)]
    /\ req' = [req EXCEPT ![t] = None]
    /\ UNCHANGED <<disk, snap, write_lock, pending_touch, now, clone, held,
                   minted, issued, retired>>

\* write_atomic up to the rename that replaces identity.json.
Persist(t) ==
    /\ pc[t] = "cloned"
    /\ disk' = clone[t]
    /\ issued' = IF req[t].op = "add_capability" THEN issued \cup {req[t].key} ELSE issued
    /\ pc' = [pc EXCEPT ![t] = "renamed"]
    /\ UNCHANGED <<snap, write_lock, pending_touch, now, req, clone, held, minted, retired>>

\* A slip: the clone is published although it could not be written.
PersistFailsPublished(t) ==
    /\ Faults
    /\ pc[t] = "cloned"
    /\ snap' = clone[t]
    /\ write_lock' = None
    /\ pc' = [pc EXCEPT ![t] = Return(t)]
    /\ req' = [req EXCEPT ![t] = None]
    /\ clone' = [clone EXCEPT ![t] = None]
    /\ UNCHANGED <<disk, pending_touch, now, held, minted, issued, retired>>

\* write_atomic fails before or at the rename: `?` returns and drops the guard.
PersistFails(t) ==
    /\ Faults
    /\ pc[t] = "cloned"
    /\ write_lock' = None
    /\ pc' = [pc EXCEPT ![t] = Return(t)]
    /\ req' = [req EXCEPT ![t] = None]
    /\ clone' = [clone EXCEPT ![t] = None]
    /\ UNCHANGED <<disk, snap, pending_touch, now, held, minted, issued, retired>>

\* snap.store(next), Ok to the caller: a revocation is now acknowledged.
Publish(t) ==
    /\ pc[t] = "renamed"
    /\ snap' = clone[t]
    /\ write_lock' = None
    /\ pc' = [pc EXCEPT ![t] =
                IF req[t].op = "prune_capabilities" THEN "sweep" ELSE Return(t)]
    /\ req' = [req EXCEPT ![t] = None]
    /\ clone' = [clone EXCEPT ![t] = None]
    /\ retired' = IF req[t].op = "revoke_capability" THEN retired \cup {req[t].key} ELSE retired
    /\ UNCHANGED <<disk, pending_touch, now, held, minted, issued>>

Mutate(t) == Clone(t) \/ NotFound(t) \/ Persist(t) \/ Publish(t)

-----------------------------------------------------------------------------
(* The persister: every tick a flush, every 60th tick a prune after it.    *)

\* A slip: the buffer is taken and never written.
FlushDiscards ==
    /\ pc[Persister] = "idle"
    /\ pc' = [pc EXCEPT ![Persister] = "flushed"]
    /\ pending_touch' = NoTouches
    /\ UNCHANGED <<disk, snap, write_lock, now, req, clone, held, minted, issued, retired>>

\* flush_last_used: take the whole buffer; an empty one is a no-op.
FlushTake ==
    /\ pc[Persister] = "idle"
    /\ IF pending_touch = NoTouches
       THEN /\ pc' = [pc EXCEPT ![Persister] = "flushed"]
            /\ UNCHANGED req
       ELSE /\ pc' = [pc EXCEPT ![Persister] = "want"]
            /\ req' = [req EXCEPT ![Persister] =
                        [op |-> "flush_last_used", touches |-> pending_touch]]
    /\ pending_touch' = NoTouches
    /\ UNCHANGED <<disk, snap, write_lock, now, clone, held, minted, issued, retired>>

\* prune_capabilities: the pre-scan of the published snapshot, without the lock.
PruneScan ==
    /\ pc[Persister] = "flushed"
    /\ IF \E k \in Keys : Present(snap, k) /\ Removable(snap.capabilities[k], now)
       THEN /\ pc' = [pc EXCEPT ![Persister] = "want"]
            /\ req' = [req EXCEPT ![Persister] = [op |-> "prune_capabilities", now |-> now]]
       ELSE /\ pc' = [pc EXCEPT ![Persister] = "idle"]
            /\ UNCHANGED req
    /\ UNCHANGED <<disk, snap, write_lock, pending_touch, now, clone, held,
                   minted, issued, retired>>

\* A tick that is not a multiple of PRUNE_EVERY_TICKS.
PruneSkip ==
    /\ pc[Persister] = "flushed"
    /\ pc' = [pc EXCEPT ![Persister] = "idle"]
    /\ UNCHANGED <<disk, snap, write_lock, pending_touch, now, req, clone, held,
                   minted, issued, retired>>

\* Once pruned, drop the buffered touches of keys that are gone.
Sweep ==
    /\ pc[Persister] = "sweep"
    /\ pending_touch' =
            [k \in Keys |-> IF Present(snap, k) THEN pending_touch[k] ELSE None]
    /\ pc' = [pc EXCEPT ![Persister] = "idle"]
    /\ UNCHANGED <<disk, snap, write_lock, now, req, clone, held, minted, issued, retired>>

-----------------------------------------------------------------------------
(* DaemonVerifier::authenticate for a token that names key k.              *)

\* The lock-free lookup in the published snapshot.
Lookup(t, k) ==
    /\ pc[t] = "idle"
    /\ held' = [held EXCEPT ![t] =
                [key |-> k, rec |-> snap.capabilities[k], retired |-> k \in retired]]
    /\ pc' = [pc EXCEPT ![t] = "looked"]
    /\ UNCHANGED <<disk, snap, write_lock, pending_touch, now, req, clone,
                   minted, issued, retired>>

Expired(rec) == rec.expires_at # None /\ now >= rec.expires_at

\* A slip: the revoked flag is not looked at.
AcceptsRevoked(rec, secretMatches) ==
    rec # None /\ secretMatches /\ ~ Expired(rec)

Accepts(rec, secretMatches) ==
    rec # None /\ ~ rec.revoked /\ secretMatches /\ ~ Expired(rec)

\* The checks on the record that was looked up, and touch_last_used.
Decide(t, secretMatches) ==
    /\ pc[t] = "looked"
    /\ IF Accepts(held[t].rec, secretMatches)
       THEN /\ pending_touch' = [pending_touch EXCEPT ![held[t].key] = now]
            /\ pc' = [pc EXCEPT ![t] = "allowed"]
            /\ UNCHANGED held
       ELSE /\ pc' = [pc EXCEPT ![t] = "idle"]
            /\ held' = [held EXCEPT ![t] = None]
            /\ UNCHANGED pending_touch
    /\ UNCHANGED <<disk, snap, write_lock, now, req, clone, minted, issued, retired>>

\* The handler ran with the subject it was given.
Respond(t) ==
    /\ pc[t] = "allowed"
    /\ pc' = [pc EXCEPT ![t] = "idle"]
    /\ held' = [held EXCEPT ![t] = None]
    /\ UNCHANGED <<disk, snap, write_lock, pending_touch, now, req, clone,
                   minted, issued, retired>>

-----------------------------------------------------------------------------
Maintain == FlushTake \/ PruneScan \/ PruneSkip \/ Sweep

Next ==
    \/ \E t \in Clients : \E o \in ClientOps : Request(t, o)
    \/ \E t \in Threads : Mutate(t) \/ PersistFails(t)
    \/ Maintain
    \/ \E t \in Clients : \E k \in Keys : Lookup(t, k)
    \/ \E t \in Clients : \E secretMatches \in BOOLEAN : Decide(t, secretMatches)
    \/ \E t \in Clients : Respond(t)
    \/ Tick
    \/ CrashAndReopen

Spec == Init /\ [][Next]_vars

\* The runtime keeps polling the persister and a thread inside `mutate` keeps
\* running.  Taking write_lock needs strong fairness: request threads may take
\* it again and again, but each holds it for one bounded write only.
Fairness ==
    /\ WF_vars(Maintain)
    /\ \A t \in Clients : WF_vars(Mutate(t))
    /\ SF_vars(Mutate(Persister))

FairSpec == Spec /\ Fairness

-----------------------------------------------------------------------------
(* Properties.                                                             *)

\* The file changes by whole mutations, each applied to the file as the
\* previous one left it: no thread's update is lost, half applied or
\* applied twice, and Ok for a revocation means the key is unusable.
Abstract == INSTANCE IdentityMap WITH identity <- disk
Implements == Abstract!Spec

\* A request that arrives after a revocation was acknowledged is never
\* accepted, whatever was flushed, pruned, crashed or added in between.
RevocationHonoured ==
    \A t \in Clients : pc[t] = "allowed" => ~ held[t].retired

\* Readers never act on a snapshot a crash would take back: unless a
\* mutation is between its rename and its publication, both are the same.
ReadersSeeDurable ==
    /\ write_lock = None => snap = disk
    /\ write_lock # None =>
            \/ pc[write_lock] = "cloned" /\ snap = disk
            \/ pc[write_lock] = "renamed" /\ clone[write_lock] = disk

\* Only prune removes, and only what is revoked or expired for the grace
\* period: a capability that may still be used never vanishes.
OnlyDeadCapabilitiesLeave ==
    [][\A k \in Keys :
        Present(disk, k) /\ ~ Present(disk', k) =>
            LET rec == disk.capabilities[k]
            IN  rec.revoked \/ (rec.expires_at # None /\ now >= rec.expires_at + Grace)]_vars

\* A key that was pruned does not come back, not even through a touch that
\* was buffered before it was pruned and flushed after.
PrunedStaysGone ==
    [][\A k \in issued : ~ Present(disk, k) => ~ Present(disk', k)]_vars

\* last_used never goes back, although touches wait in the buffer, in a flush
\* and behind the lock while newer ones arrive.
LastUsedNeverGoesBack ==
    [][\A k \in Keys :
        LET old == disk.capabilities[k]
            new == disk'.capabilities[k]
        IN  Present(disk, k) /\ Present(disk', k) /\ old.last_used # None =>
                new.last_used # None /\ new.last_used >= old.last_used]_vars

\* Without faults, every authenticated use reaches the file (or its key is
\* pruned first).
TouchReachesDisk ==
    \A k \in Keys : \A ts \in Times :
        pending_touch[k] = ts ~>
            \/ ~ Present(disk, k)
            \/ disk.capabilities[k].last_used # None /\ disk.capabilities[k].last_used >= ts
-----------------------------------------------------------------------------
(* The inductive invariant behind the safety properties.                   *)

Mutating(t) == pc[t] \in {"want", "cloned", "renamed"}
Locked(t)   == pc[t] \in {"cloned", "renamed"}

\* write_lock excludes: its holder is the one thread inside `mutate`.
LockInv ==
    /\ \A t \in Threads : Locked(t) <=> write_lock = t
    /\ \A t \in Threads : Mutating(t) => req[t] \in Ops
    /\ \A t \in Clients : pc[t] \in {"looked", "allowed"} => held[t] \in Lookups

\* The clone is the closure's result on what is on disk, until it is on disk.
CloneInv ==
    /\ write_lock = None => snap = disk
    /\ \A t \in Threads :
        /\ pc[t] = "cloned" =>
                snap = disk /\ Succeeds(req[t], disk) /\ clone[t] = Apply(req[t], disk)
        /\ pc[t] = "renamed" =>
                /\ clone[t] = disk
                /\ req[t].op = "revoke_capability" =>
                        req[t].key \in issued /\ ~ Live(disk, req[t].key)

\* Keys are issued once: an addition in flight owns a key nobody else has.
FreshInv ==
    /\ issued \subseteq minted
    /\ \A k \in Keys : Present(disk, k) => k \in issued
    /\ \A t \in Threads :
        pc[t] \in {"want", "cloned"} /\ req[t].op = "add_capability" =>
            req[t].key \in minted \ issued
    /\ \A t, u \in Threads :
        /\ t # u
        /\ pc[t] \in {"want", "cloned"} /\ req[t].op = "add_capability"
        /\ pc[u] \in {"want", "cloned"} /\ req[u].op = "add_capability"
        => req[t].key # req[u].key

\* A retired key is dead on disk, in what readers see and in what they hold.
RetiredInv ==
    /\ \A k \in retired : k \in issued /\ ~ Live(disk, k) /\ ~ Live(snap, k)
    /\ \A t \in Clients :
        /\ pc[t] \in {"looked", "allowed"} /\ held[t].retired =>
                held[t].rec = None \/ held[t].rec.revoked
        /\ pc[t] = "allowed" => held[t].rec # None /\ ~ held[t].rec.revoked

IInv == TypeOK /\ LockInv /\ CloneInv /\ FreshInv /\ RetiredInv
=============================================================================
