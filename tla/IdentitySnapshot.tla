-------------------------- MODULE IdentitySnapshot --------------------------
(***************************************************************************)
(* auth/store.rs: the identity snapshot and the closures that FileStore    *)
(* hands to `mutate`, as requests and as functions on snapshots.  The      *)
(* abstract store (IdentityMap) and the detailed one (IdentityStore) both  *)
(* apply these.                                                            *)
(*                                                                         *)
(* A capability is the part of CapabilityRecord that a decision of the     *)
(* store depends on: names, labels, scopes and secret hashes are opaque    *)
(* here.                                                                   *)
(***************************************************************************)
EXTENDS Naturals

CONSTANTS
    Keys,      \* capability key ids; token::mint draws each one once
    Names,     \* account names
    Times,     \* unix seconds
    Grace,     \* PRUNE_GRACE_SECS
    None       \* Rust's Option::None, and a key that is not in a map

CapabilityRecord ==
    [expires_at : Times \cup {None}, revoked : BOOLEAN, last_used : Times \cup {None}]

ASSUME TimeAssumption == Times \subseteq Nat /\ 0 \in Times /\ Grace \in Nat
ASSUME NoneAssumption == None \notin Times /\ None \notin CapabilityRecord

Snapshot ==
    [capabilities : [Keys -> CapabilityRecord \cup {None}], accounts : SUBSET Names]

Touches == [Keys -> Times \cup {None}]

\* IdentitySnapshot::default(), what `open` starts from when there is no file.
EmptySnapshot == [capabilities |-> [k \in Keys |-> None], accounts |-> {}]

Present(s, k) == s.capabilities[k] # None

\* A capability the verifier can still accept: in the map and not revoked.
Live(s, k) == Present(s, k) /\ ~ s.capabilities[k].revoked

-----------------------------------------------------------------------------
(* The mutations, as requests and as functions on snapshots.               *)

AddOps     == [op : {"add_capability"}, key : Keys, expires_at : Times \cup {None}]
RevokeOps  == [op : {"revoke_capability"}, key : Keys]
AccountOps == [op : {"add_account"}, name : Names]
FlushOps   == [op : {"flush_last_used"}, touches : Touches]
PruneOps   == [op : {"prune_capabilities"}, now : Times]

Ops == AddOps \cup RevokeOps \cup AccountOps \cup FlushOps \cup PruneOps

AddCapability(s, k, exp) ==
    [s EXCEPT !.capabilities[k] =
        [expires_at |-> exp, revoked |-> FALSE, last_used |-> None]]

RevokeCapability(s, k) == [s EXCEPT !.capabilities[k].revoked = TRUE]

AddAccount(s, n) == [s EXCEPT !.accounts = @ \cup {n}]

\* Slips of flush_last_used: a record for a key that is no longer there, ...
FlushInserts(s, touches) ==
    [s EXCEPT !.capabilities =
        [k \in Keys |->
            IF touches[k] # None
            THEN [expires_at |-> None, revoked |-> FALSE, last_used |-> touches[k]]
            ELSE s.capabilities[k]]]

\* ... and a record without a touch that loses the timestamp it had.
FlushForgets(s, touches) ==
    [s EXCEPT !.capabilities =
        [k \in Keys |->
            IF Present(s, k)
            THEN [s.capabilities[k] EXCEPT !.last_used = touches[k]]
            ELSE None]]

\* Only keys still in the map take their buffered timestamp.
FlushLastUsed(s, touches) ==
    [s EXCEPT !.capabilities =
        [k \in Keys |->
            IF Present(s, k) /\ touches[k] # None
            THEN [s.capabilities[k] EXCEPT !.last_used = touches[k]]
            ELSE s.capabilities[k]]]

\* A slip: expired capabilities go without their grace period.
RemovableAtExpiry(rec, now) ==
    \/ rec.revoked
    \/ rec.expires_at # None /\ now >= rec.expires_at

Removable(rec, now) ==
    \/ rec.revoked
    \/ rec.expires_at # None /\ now >= rec.expires_at + Grace

PruneCapabilities(s, now) ==
    [s EXCEPT !.capabilities =
        [k \in Keys |->
            IF Present(s, k) /\ Removable(s.capabilities[k], now)
            THEN None
            ELSE s.capabilities[k]]]

\* Does the closure return Ok?  Only revoking an unknown key fails.
Succeeds(o, s) == o.op = "revoke_capability" => Present(s, o.key)

Apply(o, s) ==
    CASE o.op = "add_capability"     -> AddCapability(s, o.key, o.expires_at)
      [] o.op = "revoke_capability"  -> RevokeCapability(s, o.key)
      [] o.op = "add_account"        -> AddAccount(s, o.name)
      [] o.op = "flush_last_used"    -> FlushLastUsed(s, o.touches)
      [] o.op = "prune_capabilities" -> PruneCapabilities(s, o.now)

IsEmpty(s) == s.accounts = {} /\ \A k \in Keys : ~ Present(s, k)
=============================================================================
