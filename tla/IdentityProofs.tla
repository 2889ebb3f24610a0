---------------------------- MODULE IdentityProofs ----------------------------
(***************************************************************************)
(* Proofs about what is kept in identity.json.                             *)
(*                                                                         *)
(* The identity store keeps its promises for any number of keys, threads   *)
(* and seconds: the safety properties of IdentityStore, and its refinement *)
(* of IdentityMap.                                                         *)
(*                                                                         *)
(* Bootstrap, for every number of codes, attempts, names and keys: nobody  *)
(* is locked out by half a claim, the administrator is claimed once, and   *)
(* codes are bounded in guesses and in age, whatever fails, crashes,       *)
(* expires or is reset in between.                                         *)
(***************************************************************************)
EXTENDS IdentityStore, Bootstrap, TLAPS

-----------------------------------------------------------------------------
(* What the mutations do to a snapshot.                                    *)

\* A snapshot may take any other map of capabilities.
LEMMA WithCapabilities ==
    ASSUME NEW s \in Snapshot, NEW c \in [Keys -> CapabilityRecord \cup {None}]
    PROVE  [s EXCEPT !.capabilities = c] \in Snapshot
BY DEF Snapshot

\* Every closure of FileStore that returns Ok turns a snapshot into a snapshot.
LEMMA ApplyType ==
    ASSUME NEW s \in Snapshot, NEW o \in Ops, Succeeds(o, s)
    PROVE  Apply(o, s) \in Snapshot
<1> USE NoneAssumption
<1>1. CASE o \in AddOps
  BY <1>1 DEF AddOps, Apply, AddCapability, CapabilityRecord, Snapshot
<1>2. CASE o \in RevokeOps
  <2>1. o.key \in Keys /\ Apply(o, s) = RevokeCapability(s, o.key)
    BY <1>2 DEF RevokeOps, Apply
  <2>2. s.capabilities[o.key] \in CapabilityRecord
    BY <1>2, <2>1 DEF RevokeOps, Succeeds, Snapshot, Present
  <2>3. [s.capabilities[o.key] EXCEPT !.revoked = TRUE] \in CapabilityRecord
    BY <2>2 DEF CapabilityRecord
  <2> QED
    BY <2>1, <2>3 DEF RevokeCapability, Snapshot
<1>3. CASE o \in AccountOps
  BY <1>3 DEF AccountOps, Apply, AddAccount, Snapshot
<1>4. CASE o \in FlushOps
  <2>1. o.touches \in Touches /\ Apply(o, s) = FlushLastUsed(s, o.touches)
    BY <1>4 DEF FlushOps, Apply
  <2>2. ASSUME NEW k \in Keys, Present(s, k), o.touches[k] # None
        PROVE  [s.capabilities[k] EXCEPT !.last_used = o.touches[k]] \in CapabilityRecord
    BY <2>1, <2>2 DEF CapabilityRecord, Touches, Snapshot, Present
  <2> DEFINE c == [k \in Keys |->
                      IF Present(s, k) /\ o.touches[k] # None
                      THEN [s.capabilities[k] EXCEPT !.last_used = o.touches[k]]
                      ELSE s.capabilities[k]]
  <2>3. c \in [Keys -> CapabilityRecord \cup {None}]
    BY <2>2 DEF Snapshot
  <2>4. Apply(o, s) = [s EXCEPT !.capabilities = c]
    BY <2>1 DEF FlushLastUsed
  <2> HIDE DEF c
  <2>5. [s EXCEPT !.capabilities = c] \in Snapshot
    BY <2>3, WithCapabilities
  <2> QED
    BY <2>4, <2>5
<1>5. CASE o \in PruneOps
  <2>1. Apply(o, s) = PruneCapabilities(s, o.now)
    BY <1>5 DEF PruneOps, Apply
  <2> DEFINE c == [k \in Keys |->
                      IF Present(s, k) /\ Removable(s.capabilities[k], o.now)
                      THEN None
                      ELSE s.capabilities[k]]
  <2>2. c \in [Keys -> CapabilityRecord \cup {None}]
    BY DEF Snapshot
  <2>3. Apply(o, s) = [s EXCEPT !.capabilities = c]
    BY <2>1 DEF PruneCapabilities
  <2> HIDE DEF c
  <2>4. [s EXCEPT !.capabilities = c] \in Snapshot
    BY <2>2, WithCapabilities
  <2> QED
    BY <2>3, <2>4
<1> QED
  BY <1>1, <1>2, <1>3, <1>4, <1>5 DEF Ops

\* No mutation but the addition of that very key makes a dead key live.
LEMMA ApplyKeepsDead ==
    ASSUME NEW s \in Snapshot, NEW o \in Ops, Succeeds(o, s), NEW k \in Keys,
           ~ Live(s, k), o.op = "add_capability" => o.key # k
    PROVE  ~ Live(Apply(o, s), k)
<1> USE TimeAssumption, NoneAssumption DEF Snapshot, CapabilityRecord, Touches, Present, Live
<1>1. CASE o \in AddOps
  BY <1>1 DEF AddOps, Apply, AddCapability
<1>2. CASE o \in RevokeOps
  BY <1>2 DEF RevokeOps, Apply, RevokeCapability, Succeeds
<1>3. CASE o \in AccountOps
  BY <1>3 DEF AccountOps, Apply, AddAccount
<1>4. CASE o \in FlushOps
  BY <1>4 DEF FlushOps, Apply, FlushLastUsed
<1>5. CASE o \in PruneOps
  BY <1>5 DEF PruneOps, Apply, PruneCapabilities
<1> QED
  BY <1>1, <1>2, <1>3, <1>4, <1>5 DEF Ops

\* No mutation but the addition of that very key brings an absent key back.
LEMMA ApplyKeepsAbsent ==
    ASSUME NEW s \in Snapshot, NEW o \in Ops, Succeeds(o, s), NEW k \in Keys,
           ~ Present(s, k), o.op = "add_capability" => o.key # k
    PROVE  ~ Present(Apply(o, s), k)
<1> USE TimeAssumption, NoneAssumption DEF Snapshot, CapabilityRecord, Touches, Present
<1>1. CASE o \in AddOps
  BY <1>1 DEF AddOps, Apply, AddCapability
<1>2. CASE o \in RevokeOps
  BY <1>2 DEF RevokeOps, Apply, RevokeCapability, Succeeds
<1>3. CASE o \in AccountOps
  BY <1>3 DEF AccountOps, Apply, AddAccount
<1>4. CASE o \in FlushOps
  BY <1>4 DEF FlushOps, Apply, FlushLastUsed
<1>5. CASE o \in PruneOps
  BY <1>5 DEF PruneOps, Apply, PruneCapabilities
<1> QED
  BY <1>1, <1>2, <1>3, <1>4, <1>5 DEF Ops

\* Revoking a key that is there leaves it dead.
LEMMA RevokeKills ==
    ASSUME NEW s \in Snapshot, NEW o \in RevokeOps, Succeeds(o, s)
    PROVE  ~ Live(Apply(o, s), o.key)
BY NoneAssumption DEF Snapshot, CapabilityRecord, RevokeOps, Apply, RevokeCapability,
   Succeeds, Live, Present

\* The operation's name tells which kind of request it is.
LEMMA OpKinds ==
    ASSUME NEW o \in Ops
    PROVE  /\ o.op = "add_capability" => o.key \in Keys
           /\ o.op = "revoke_capability" => o \in RevokeOps /\ o.key \in Keys
BY DEF Ops, AddOps, RevokeOps, AccountOps, FlushOps, PruneOps

\* A request thread's operation is one of the store's; what it adds is fresh.
LEMMA ClientOpKinds ==
    ASSUME NEW o \in ClientOps
    PROVE  o \in Ops /\ (o.op = "add_capability" => o.key \in Keys \ minted)
BY DEF ClientOps, Ops, AddOps, RevokeOps, AccountOps

-----------------------------------------------------------------------------
(* The invariant is inductive: one lemma per conjunct, one step per action.  *)

\* Every step keeps every variable in its type.
LEMMA TypeStep == IInv /\ [Next]_vars => TypeOK'
<1> SUFFICES ASSUME IInv, [Next]_vars PROVE TypeOK'
  OBVIOUS
<1> USE ThreadAssumption, NoneAssumption, TimeAssumption DEF IInv, TypeOK, LockInv, CloneInv, Threads, Mutating, Locked
<1>1. ASSUME NEW t \in Clients, NEW o \in ClientOps, Request(t, o) PROVE TypeOK'
  BY <1>1, ClientOpKinds DEF Request, PCs
<1>2. ASSUME NEW t \in Threads, Clone(t) PROVE TypeOK'
  BY <1>2, ApplyType DEF Clone, PCs
<1>3. ASSUME NEW t \in Threads, NotFound(t) PROVE TypeOK'
  BY <1>3 DEF NotFound, PCs, Return
<1>4. ASSUME NEW t \in Threads, Persist(t) PROVE TypeOK'
  <2>1. clone[t] \in Snapshot
    BY <1>4, ApplyType DEF Persist
  <2>2. req[t].op = "add_capability" => req[t].key \in Keys
    BY <1>4, OpKinds DEF Persist
  <2> QED
    BY <1>4, <2>1, <2>2 DEF Persist, PCs
<1>5. ASSUME NEW t \in Threads, Publish(t) PROVE TypeOK'
  BY <1>5 DEF Publish, PCs, Return, Ops, RevokeOps
<1>6. ASSUME NEW t \in Threads, PersistFails(t) PROVE TypeOK'
  BY <1>6 DEF PersistFails, PCs, Return
<1>7. CASE FlushTake
  BY <1>7 DEF FlushTake, NoTouches, PCs, Ops, FlushOps, Touches
<1>8. CASE PruneScan
  BY <1>8 DEF PruneScan, PCs, Ops, PruneOps
<1>9. CASE PruneSkip
  BY <1>9 DEF PruneSkip, PCs
<1>10. CASE Sweep
  BY <1>10 DEF Sweep, PCs, Touches
<1>11. ASSUME NEW t \in Clients, NEW k \in Keys, Lookup(t, k) PROVE TypeOK'
  BY <1>11 DEF Lookup, PCs, Lookups, Snapshot
<1>12. ASSUME NEW t \in Clients, NEW secretMatches \in BOOLEAN, Decide(t, secretMatches) PROVE TypeOK'
  BY <1>12 DEF Decide, Accepts, Expired, PCs, Touches, Lookups
<1>13. ASSUME NEW t \in Clients, Respond(t) PROVE TypeOK'
  BY <1>13 DEF Respond, PCs
<1>14. CASE Tick
  BY <1>14 DEF Tick
<1>15. CASE CrashAndReopen
  BY <1>15 DEF CrashAndReopen, Open, NoTouches, PCs, Touches
<1>16. CASE UNCHANGED vars
  BY <1>16 DEF vars
<1> HIDE DEF IInv, TypeOK, LockInv, CloneInv, Threads, Mutating, Locked
<1> QED
  BY <1>1, <1>2, <1>3, <1>4, <1>5, <1>6, <1>7, <1>8, <1>9, <1>10, <1>11, <1>12, <1>13, <1>14, <1>15, <1>16 DEF Next, Mutate, Maintain

\* write_lock keeps excluding.
LEMMA LockStep == IInv /\ [Next]_vars => LockInv'
<1> SUFFICES ASSUME IInv, [Next]_vars PROVE LockInv'
  OBVIOUS
<1> USE ThreadAssumption, NoneAssumption, TimeAssumption DEF IInv, TypeOK, LockInv, Threads, Mutating, Locked
<1>1. ASSUME NEW t \in Clients, NEW o \in ClientOps, Request(t, o) PROVE LockInv'
  BY <1>1 DEF Request, ClientOps, Ops
<1>2. ASSUME NEW t \in Threads, Clone(t) PROVE LockInv'
  BY <1>2 DEF Clone
<1>3. ASSUME NEW t \in Threads, NotFound(t) PROVE LockInv'
  BY <1>3 DEF NotFound, Return
<1>4. ASSUME NEW t \in Threads, Persist(t) PROVE LockInv'
  BY <1>4 DEF Persist
<1>5. ASSUME NEW t \in Threads, Publish(t) PROVE LockInv'
  BY <1>5 DEF Publish, Return
<1>6. ASSUME NEW t \in Threads, PersistFails(t) PROVE LockInv'
  BY <1>6 DEF PersistFails, Return
<1>7. CASE FlushTake
  BY <1>7 DEF FlushTake, NoTouches, Ops, FlushOps
<1>8. CASE PruneScan
  BY <1>8 DEF PruneScan, Ops, PruneOps
<1>9. CASE PruneSkip
  BY <1>9 DEF PruneSkip
<1>10. CASE Sweep
  BY <1>10 DEF Sweep
<1>11. ASSUME NEW t \in Clients, NEW k \in Keys, Lookup(t, k) PROVE LockInv'
  BY <1>11 DEF Lookup, Lookups, Snapshot
<1>12. ASSUME NEW t \in Clients, NEW secretMatches \in BOOLEAN, Decide(t, secretMatches) PROVE LockInv'
  BY <1>12 DEF Decide, Accepts, Expired
<1>13. ASSUME NEW t \in Clients, Respond(t) PROVE LockInv'
  BY <1>13 DEF Respond
<1>14. CASE Tick
  BY <1>14 DEF Tick
<1>15. CASE CrashAndReopen
  BY <1>15 DEF CrashAndReopen, Open, NoTouches
<1>16. CASE UNCHANGED vars
  BY <1>16 DEF vars
<1> HIDE DEF IInv, TypeOK, LockInv, Threads, Mutating, Locked
<1> QED
  BY <1>1, <1>2, <1>3, <1>4, <1>5, <1>6, <1>7, <1>8, <1>9, <1>10, <1>11, <1>12, <1>13, <1>14, <1>15, <1>16 DEF Next, Mutate, Maintain

\* The clone stays the closure's result on the disk.
LEMMA CloneStep == IInv /\ [Next]_vars => CloneInv'
<1> SUFFICES ASSUME IInv, [Next]_vars PROVE CloneInv'
  OBVIOUS
<1> USE ThreadAssumption, NoneAssumption, TimeAssumption DEF IInv, TypeOK, LockInv, CloneInv, Threads, Mutating, Locked
<1>1. ASSUME NEW t \in Clients, NEW o \in ClientOps, Request(t, o) PROVE CloneInv'
  BY <1>1 DEF Request, ClientOps
<1>2. ASSUME NEW t \in Threads, Clone(t) PROVE CloneInv'
  BY <1>2 DEF Clone
<1>3. ASSUME NEW t \in Threads, NotFound(t) PROVE CloneInv'
  BY <1>3 DEF NotFound, Return
<1>4. ASSUME NEW t \in Threads, Persist(t) PROVE CloneInv'
  <2>1. req[t].op = "revoke_capability" =>
            req[t].key \in issued /\ ~ Live(clone[t], req[t].key)
    BY <1>4, OpKinds, RevokeKills DEF Persist, FreshInv, Succeeds
  <2> QED
    BY <1>4, <2>1 DEF Persist
<1>5. ASSUME NEW t \in Threads, Publish(t) PROVE CloneInv'
  BY <1>5 DEF Publish, Return
<1>6. ASSUME NEW t \in Threads, PersistFails(t) PROVE CloneInv'
  BY <1>6 DEF PersistFails, Return
<1>7. CASE FlushTake
  BY <1>7 DEF FlushTake, NoTouches
<1>8. CASE PruneScan
  BY <1>8 DEF PruneScan
<1>9. CASE PruneSkip
  BY <1>9 DEF PruneSkip
<1>10. CASE Sweep
  BY <1>10 DEF Sweep
<1>11. ASSUME NEW t \in Clients, NEW k \in Keys, Lookup(t, k) PROVE CloneInv'
  BY <1>11 DEF Lookup
<1>12. ASSUME NEW t \in Clients, NEW secretMatches \in BOOLEAN, Decide(t, secretMatches) PROVE CloneInv'
  BY <1>12 DEF Decide, Accepts, Expired
<1>13. ASSUME NEW t \in Clients, Respond(t) PROVE CloneInv'
  BY <1>13 DEF Respond
<1>14. CASE Tick
  BY <1>14 DEF Tick
<1>15. CASE CrashAndReopen
  BY <1>15 DEF CrashAndReopen, Open, NoTouches
<1>16. CASE UNCHANGED vars
  BY <1>16 DEF vars
<1> HIDE DEF IInv, TypeOK, LockInv, CloneInv, Threads, Mutating, Locked
<1> QED
  BY <1>1, <1>2, <1>3, <1>4, <1>5, <1>6, <1>7, <1>8, <1>9, <1>10, <1>11, <1>12, <1>13, <1>14, <1>15, <1>16 DEF Next, Mutate, Maintain

\* Keys stay issued at most once.
LEMMA FreshStep == IInv /\ [Next]_vars => FreshInv'
<1> SUFFICES ASSUME IInv, [Next]_vars PROVE FreshInv'
  OBVIOUS
<1> USE ThreadAssumption, NoneAssumption, TimeAssumption DEF IInv, TypeOK, LockInv, CloneInv, FreshInv, Threads, Mutating, Locked
<1>1. ASSUME NEW t \in Clients, NEW o \in ClientOps, Request(t, o) PROVE FreshInv'
  BY <1>1, ClientOpKinds DEF Request
<1>2. ASSUME NEW t \in Threads, Clone(t) PROVE FreshInv'
  BY <1>2 DEF Clone
<1>3. ASSUME NEW t \in Threads, NotFound(t) PROVE FreshInv'
  BY <1>3 DEF NotFound, Return
<1>4. ASSUME NEW t \in Threads, Persist(t) PROVE FreshInv'
  <2>1. req[t] \in Ops /\ Succeeds(req[t], disk) /\ disk' = Apply(req[t], disk)
    BY <1>4 DEF Persist
  <2>2. \A k \in Keys : Present(disk', k) => k \in issued'
    BY <1>4, <2>1, ApplyKeepsAbsent DEF Persist
  <2> QED
    BY <1>4, <2>2 DEF Persist
<1>5. ASSUME NEW t \in Threads, Publish(t) PROVE FreshInv'
  BY <1>5 DEF Publish, Return
<1>6. ASSUME NEW t \in Threads, PersistFails(t) PROVE FreshInv'
  BY <1>6 DEF PersistFails, Return
<1>7. CASE FlushTake
  BY <1>7 DEF FlushTake, NoTouches
<1>8. CASE PruneScan
  BY <1>8 DEF PruneScan
<1>9. CASE PruneSkip
  BY <1>9 DEF PruneSkip
<1>10. CASE Sweep
  BY <1>10 DEF Sweep
<1>11. ASSUME NEW t \in Clients, NEW k \in Keys, Lookup(t, k) PROVE FreshInv'
  BY <1>11 DEF Lookup
<1>12. ASSUME NEW t \in Clients, NEW secretMatches \in BOOLEAN, Decide(t, secretMatches) PROVE FreshInv'
  BY <1>12 DEF Decide, Accepts, Expired
<1>13. ASSUME NEW t \in Clients, Respond(t) PROVE FreshInv'
  BY <1>13 DEF Respond
<1>14. CASE Tick
  BY <1>14 DEF Tick
<1>15. CASE CrashAndReopen
  BY <1>15 DEF CrashAndReopen, Open, NoTouches
<1>16. CASE UNCHANGED vars
  BY <1>16 DEF vars
<1> HIDE DEF IInv, TypeOK, LockInv, CloneInv, FreshInv, Threads, Mutating, Locked
<1> QED
  BY <1>1, <1>2, <1>3, <1>4, <1>5, <1>6, <1>7, <1>8, <1>9, <1>10, <1>11, <1>12, <1>13, <1>14, <1>15, <1>16 DEF Next, Mutate, Maintain

\* Acknowledged revocations stay final.
LEMMA RetiredStep == IInv /\ [Next]_vars => RetiredInv'
<1> SUFFICES ASSUME IInv, [Next]_vars PROVE RetiredInv'
  OBVIOUS
<1> USE ThreadAssumption, NoneAssumption, TimeAssumption DEF IInv, TypeOK, LockInv, CloneInv, FreshInv, RetiredInv, Threads, Mutating, Locked
<1>1. ASSUME NEW t \in Clients, NEW o \in ClientOps, Request(t, o) PROVE RetiredInv'
  BY <1>1 DEF Request, ClientOps
<1>2. ASSUME NEW t \in Threads, Clone(t) PROVE RetiredInv'
  BY <1>2 DEF Clone
<1>3. ASSUME NEW t \in Threads, NotFound(t) PROVE RetiredInv'
  BY <1>3 DEF NotFound, Return
<1>4. ASSUME NEW t \in Threads, Persist(t) PROVE RetiredInv'
  <2>1. req[t] \in Ops /\ Succeeds(req[t], disk) /\ disk' = Apply(req[t], disk)
    BY <1>4 DEF Persist
  <2>2. ASSUME NEW k \in retired PROVE ~ Live(disk', k)
    BY <1>4, <2>1, <2>2, ApplyKeepsDead DEF Persist
  <2> QED
    BY <1>4, <2>2 DEF Persist
<1>5. ASSUME NEW t \in Threads, Publish(t) PROVE RetiredInv'
  BY <1>5 DEF Publish, Return
<1>6. ASSUME NEW t \in Threads, PersistFails(t) PROVE RetiredInv'
  BY <1>6 DEF PersistFails, Return
<1>7. CASE FlushTake
  BY <1>7 DEF FlushTake, NoTouches
<1>8. CASE PruneScan
  BY <1>8 DEF PruneScan
<1>9. CASE PruneSkip
  BY <1>9 DEF PruneSkip
<1>10. CASE Sweep
  BY <1>10 DEF Sweep
<1>11. ASSUME NEW t \in Clients, NEW k \in Keys, Lookup(t, k) PROVE RetiredInv'
  BY <1>11 DEF Lookup, Live, Present, Lookups, Snapshot, CapabilityRecord
<1>12. ASSUME NEW t \in Clients, NEW secretMatches \in BOOLEAN, Decide(t, secretMatches) PROVE RetiredInv'
  BY <1>12 DEF Decide, Accepts, Expired
<1>13. ASSUME NEW t \in Clients, Respond(t) PROVE RetiredInv'
  BY <1>13 DEF Respond
<1>14. CASE Tick
  BY <1>14 DEF Tick
<1>15. CASE CrashAndReopen
  BY <1>15 DEF CrashAndReopen, Open, NoTouches
<1>16. CASE UNCHANGED vars
  BY <1>16 DEF vars
<1> HIDE DEF IInv, TypeOK, LockInv, CloneInv, FreshInv, RetiredInv, Threads, Mutating, Locked
<1> QED
  BY <1>1, <1>2, <1>3, <1>4, <1>5, <1>6, <1>7, <1>8, <1>9, <1>10, <1>11, <1>12, <1>13, <1>14, <1>15, <1>16 DEF Next, Mutate, Maintain

-----------------------------------------------------------------------------
(* The theorems.                                                           *)

\* The invariant holds when the store opens on an empty directory.
LEMMA InitInv == Init => IInv
<1> SUFFICES ASSUME Init PROVE IInv
  OBVIOUS
<1> USE TimeAssumption, NoneAssumption, ThreadAssumption DEF Init
<1>1. EmptySnapshot \in Snapshot
  BY DEF EmptySnapshot, Snapshot
<1>2. TypeOK
  BY <1>1 DEF TypeOK, Threads, NoTouches, Touches, PCs
<1>3. \A k \in Keys : ~ Present(disk, k)
  BY DEF Present, EmptySnapshot
<1> QED
  BY <1>2, <1>3 DEF IInv, LockInv, CloneInv, FreshInv, RetiredInv, Threads, Mutating, Locked

\* The inductive invariant holds in every reachable state, whatever threads do
\* between clone, rename and publication and wherever the process dies.
THEOREM StoreInvariant == Spec => []IInv
<1>1. IInv /\ [Next]_vars => IInv'
  BY TypeStep, LockStep, CloneStep, FreshStep, RetiredStep DEF IInv
<1> QED
  BY InitInv, <1>1, PTL DEF Spec

\* Every variable of the store keeps its type: in particular the file and the
\* published snapshot are always complete snapshots.
THEOREM TypeCorrect == Spec => []TypeOK
<1>1. IInv => TypeOK
  BY DEF IInv
<1> QED
  BY StoreInvariant, <1>1, PTL

\* A request that arrives after an acknowledged revocation is never accepted.
THEOREM RevocationIsFinal == Spec => []RevocationHonoured
<1>1. IInv => RevocationHonoured
  BY DEF IInv, RetiredInv, RevocationHonoured
<1> QED
  BY StoreInvariant, <1>1, PTL

\* Unless a mutation is between rename and publication, the published snapshot
\* and the file agree.
THEOREM ReadersAgreeWithDisk == Spec => []ReadersSeeDurable
<1>1. IInv => ReadersSeeDurable
  BY DEF IInv, TypeOK, LockInv, CloneInv, ReadersSeeDurable, Locked
<1> QED
  BY StoreInvariant, <1>1, PTL

\* A pruned key never comes back to the file.
THEOREM PrunedKeysStayGone == Spec => PrunedStaysGone
<1>1. IInv /\ [Next]_vars =>
        [\A k \in issued : ~ Present(disk, k) => ~ Present(disk', k)]_vars
  <2> SUFFICES ASSUME IInv, Next, NEW k \in issued, ~ Present(disk, k)
               PROVE  ~ Present(disk', k)
    OBVIOUS
  <2>1. CASE \E t \in Threads : Persist(t)
    <3>1. PICK t \in Threads : Persist(t)
      BY <2>1
    <3>2. req[t] \in Ops /\ Succeeds(req[t], disk) /\ disk' = Apply(req[t], disk)
      BY <3>1 DEF Persist, IInv, LockInv, CloneInv, Mutating
    <3> QED
      BY <3>1, <3>2, ApplyKeepsAbsent DEF Persist, IInv, TypeOK, FreshInv
  <2>2. CASE UNCHANGED disk
    BY <2>2
  <2> QED
    BY <2>1, <2>2 DEF Next, Mutate, Maintain, Request, Clone, NotFound, PersistFails, Publish,
       FlushTake, PruneScan, PruneSkip, Sweep, Lookup, Decide, Respond, Tick, CrashAndReopen, Open
<1> QED
  BY StoreInvariant, <1>1, PTL DEF Spec, PrunedStaysGone

-----------------------------------------------------------------------------
(* What leaves the file, and the order of the timestamps in it.            *)

\* What the clock has to do with a mutation in flight: a prune was decided in
\* the past, and the persister alone flushes.
ClockInv ==
    \A t \in Threads : Mutating(t) =>
        /\ req[t].op = "prune_capabilities" => req[t].now <= now
        /\ req[t].op = "flush_last_used" => t = Persister

\* A key's last use on disk, and its touch in a flush that is not yet on disk.
Used(k) == IF Present(disk, k) THEN disk.capabilities[k].last_used ELSE None

InFlush(k) ==
    IF pc[Persister] \in {"want", "cloned"} /\ req[Persister].op = "flush_last_used"
    THEN req[Persister].touches[k]
    ELSE None

NotAfter(a, b) == a # None /\ b # None => a <= b

\* A use moves from the buffer through the flush to the disk, and a newer one
\* never overtakes an older one.
TouchInv ==
    \A k \in Keys :
        /\ NotAfter(Used(k), InFlush(k)) /\ NotAfter(InFlush(k), pending_touch[k])
        /\ NotAfter(Used(k), pending_touch[k])
        /\ NotAfter(Used(k), now) /\ NotAfter(InFlush(k), now) /\ NotAfter(pending_touch[k], now)

\* What a mutation leaves of a key that it does not remove.
LEMMA ApplyUse ==
    ASSUME NEW s \in Snapshot, NEW o \in Ops, Succeeds(o, s), NEW k \in Keys, Present(Apply(o, s), k)
    PROVE  LET new == Apply(o, s).capabilities[k].last_used
           IN  \/ o.op = "add_capability" /\ o.key = k /\ new = None
               \/ Present(s, k) /\ new = s.capabilities[k].last_used
               \/ /\ o.op = "flush_last_used" /\ Present(s, k)
                  /\ new = o.touches[k] /\ o.touches[k] # None
<1> USE NoneAssumption DEF Snapshot, CapabilityRecord, Touches, Present
<1>1. CASE o \in AddOps
  BY <1>1 DEF AddOps, Apply, AddCapability
<1>2. CASE o \in RevokeOps
  BY <1>2 DEF RevokeOps, Apply, RevokeCapability, Succeeds
<1>3. CASE o \in AccountOps
  BY <1>3 DEF AccountOps, Apply, AddAccount
<1>4. CASE o \in FlushOps
  BY <1>4 DEF FlushOps, Apply, FlushLastUsed
<1>5. CASE o \in PruneOps
  BY <1>5 DEF PruneOps, Apply, PruneCapabilities
<1> QED
  BY <1>1, <1>2, <1>3, <1>4, <1>5 DEF Ops

\* A key leaves a snapshot by a prune that finds it removable, and no other way.
LEMMA ApplyRemoves ==
    ASSUME NEW s \in Snapshot, NEW o \in Ops, Succeeds(o, s), NEW k \in Keys,
           Present(s, k), ~ Present(Apply(o, s), k)
    PROVE  o \in PruneOps /\ o.op = "prune_capabilities" /\ Removable(s.capabilities[k], o.now)
<1> USE NoneAssumption DEF Snapshot, Present
<1>1. o \notin AddOps
  <2> SUFFICES ASSUME o \in AddOps PROVE FALSE
    OBVIOUS
  <2>1. /\ Apply(o, s) = AddCapability(s, o.key, o.expires_at)
        /\ [expires_at |-> o.expires_at, revoked |-> FALSE, last_used |-> None] \in CapabilityRecord
    BY DEF AddOps, Apply, CapabilityRecord
  <2> QED
    BY <2>1 DEF AddCapability
<1>2. o \notin RevokeOps
  <2> SUFFICES ASSUME o \in RevokeOps PROVE FALSE
    OBVIOUS
  <2>1. Apply(o, s) = RevokeCapability(s, o.key) /\ s.capabilities[k] \in CapabilityRecord
    BY DEF RevokeOps, Apply
  <2>2. [s.capabilities[k] EXCEPT !.revoked = TRUE] \in CapabilityRecord
    BY <2>1 DEF CapabilityRecord
  <2>3. Apply(o, s).capabilities[k] \in {s.capabilities[k], [s.capabilities[k] EXCEPT !.revoked = TRUE]}
    <3>1. CASE o.key = k
      BY <2>1, <3>1 DEF RevokeCapability
    <3>2. CASE o.key # k
      BY <2>1, <3>2 DEF RevokeCapability
    <3> QED
      BY <3>1, <3>2
  <2> QED
    BY <2>2, <2>3
<1>3. o \notin AccountOps
  BY DEF AccountOps, Apply, AddAccount
<1>4. o \notin FlushOps
  <2> SUFFICES ASSUME o \in FlushOps PROVE FALSE
    OBVIOUS
  <2>1. o.op = "flush_last_used" /\ o.touches \in Touches
    BY DEF FlushOps
  <2>2. Apply(o, s) = FlushLastUsed(s, o.touches)
    BY <2>1 DEF Apply
  <2>3. o.touches[k] # None => [s.capabilities[k] EXCEPT !.last_used = o.touches[k]] \in CapabilityRecord
    <3>1. s.capabilities[k] \in CapabilityRecord
      OBVIOUS
    <3> QED
      BY <2>1, <3>1 DEF Touches, CapabilityRecord
  <2> QED
    BY <2>2, <2>3 DEF FlushLastUsed
<1>5. o \in PruneOps
  BY <1>1, <1>2, <1>3, <1>4 DEF Ops
<1> QED
  BY <1>5 DEF PruneOps, Apply, PruneCapabilities

\* The clock only goes on, and only the persister asks for a flush.
LEMMA ClockStep == IInv /\ ClockInv /\ [Next]_vars => ClockInv'
<1> SUFFICES ASSUME IInv, ClockInv, [Next]_vars, NEW u \in Threads, Mutating(u)'
             PROVE  /\ req'[u].op = "prune_capabilities" => req'[u].now <= now'
                    /\ req'[u].op = "flush_last_used" => u = Persister
  BY DEF ClockInv
<1>1. TypeOK /\ now \in Nat
  BY TimeAssumption DEF IInv, TypeOK
<1>2. now' \in Nat /\ now <= now'
  <2>1. CASE Tick
    BY <1>1, <2>1 DEF Tick
  <2>2. CASE now' = now
    BY <1>1, <2>2
  <2> QED
    BY <2>1, <2>2 DEF Next, Mutate, Maintain, Request, Clone, NotFound, Persist, Publish, PersistFails,
       FlushTake, PruneScan, PruneSkip, Sweep, Lookup, Decide, Respond, CrashAndReopen, vars
<1>3. CASE Mutating(u) /\ req'[u] = req[u]
  <2>1. req[u].op = "prune_capabilities" => req[u].now \in Times /\ req[u].now <= now
    BY <1>3 DEF ClockInv, IInv, LockInv, Ops, AddOps, RevokeOps, AccountOps, FlushOps, PruneOps
  <2>2. req[u].op = "prune_capabilities" => req[u].now <= now'
    <3> SUFFICES ASSUME req[u].op = "prune_capabilities" PROVE req[u].now <= now'
      OBVIOUS
    <3>1. req[u].now \in Nat /\ req[u].now <= now
      BY <2>1, TimeAssumption
    <3> QED
      BY <1>1, <1>2, <3>1
  <2> QED
    BY <1>3, <2>2 DEF ClockInv
<1>4. CASE req'[u] \in ClientOps
  BY <1>4 DEF ClientOps, AddOps, RevokeOps, AccountOps
<1>5. CASE u = Persister /\ req'[u].op = "flush_last_used"
  BY <1>5
<1>6. CASE req'[u] = [op |-> "prune_capabilities", now |-> now]
  BY <1>2, <1>6
<1>7. \/ Mutating(u) /\ req'[u] = req[u]
      \/ req'[u] \in ClientOps
      \/ u = Persister /\ req'[u].op = "flush_last_used"
      \/ req'[u] = [op |-> "prune_capabilities", now |-> now]
  <2> USE ThreadAssumption DEF Mutating, Threads, TypeOK
  <2>1. ASSUME NEW t \in Clients, NEW o \in ClientOps, Request(t, o)
        PROVE  (Mutating(u) /\ req'[u] = req[u]) \/ req'[u] \in ClientOps
    BY <1>1, <2>1 DEF Request
  <2>2. ASSUME NEW t \in Threads, Mutate(t) \/ PersistFails(t)
        PROVE  Mutating(u) /\ req'[u] = req[u]
    BY <1>1, <2>2 DEF Mutate, Clone, NotFound, Persist, Publish, PersistFails, Return
  <2>3. CASE FlushTake
    BY <1>1, <2>3 DEF FlushTake
  <2>4. CASE PruneScan
    BY <1>1, <2>4 DEF PruneScan
  <2>5. CASE PruneSkip \/ Sweep
    BY <1>1, <2>5 DEF PruneSkip, Sweep
  <2>6. ASSUME NEW t \in Clients, \/ \E k \in Keys : Lookup(t, k)
                                  \/ \E secretMatches \in BOOLEAN : Decide(t, secretMatches)
                                  \/ Respond(t)
        PROVE  Mutating(u) /\ req'[u] = req[u]
    BY <1>1, <2>6 DEF Lookup, Decide, Respond
  <2>7. CASE Tick \/ UNCHANGED vars
    BY <2>7 DEF Tick, vars
  <2>8. CASE CrashAndReopen
    BY <2>8 DEF CrashAndReopen, Open
  <2> HIDE DEF Mutating, Threads, TypeOK
  <2> QED
    BY <2>1, <2>2, <2>3, <2>4, <2>5, <2>6, <2>7, <2>8 DEF Next, Maintain
<1> QED
  BY <1>3, <1>4, <1>5, <1>6, <1>7

\* Timestamps and None, and what the clock reads.
LEMMA TouchTypes ==
    TypeOK => \A k \in Keys : Used(k) \in Times \cup {None} /\ pending_touch[k] \in Times \cup {None}
<1> SUFFICES ASSUME TypeOK, NEW k \in Keys, Present(disk, k)
             PROVE  disk.capabilities[k].last_used \in Times \cup {None}
  BY DEF TypeOK, Touches, Used
<1>1. disk.capabilities[k] \in CapabilityRecord
  BY DEF TypeOK, Snapshot, Present
<1> QED
  BY <1>1 DEF CapabilityRecord

LEMMA InFlushType == IInv => \A k \in Keys : InFlush(k) \in Times \cup {None}
<1> SUFFICES ASSUME IInv, NEW k \in Keys, pc[Persister] \in {"want", "cloned"},
                    req[Persister].op = "flush_last_used"
             PROVE  req[Persister].touches[k] \in Times \cup {None}
  BY DEF InFlush
<1>1. req[Persister] \in Ops
  BY DEF IInv, LockInv, Mutating, Threads
<1>2. req[Persister].touches \in Touches
  BY <1>1 DEF Ops, AddOps, RevokeOps, AccountOps, FlushOps, PruneOps
<1> QED
  BY <1>2 DEF Touches

\* A step that moves timestamps on: from the buffer to the flush, from the
\* flush to the disk, from the clock to the buffer, or away.
LEMMA TouchMoves ==
    ASSUME IInv, IInv', TouchInv, now' >= now, NEW k \in Keys,
           Used(k)' \in {None, Used(k), InFlush(k)},
           \/ InFlush(k)' \in {None, InFlush(k)} /\ pending_touch'[k] \in {None, pending_touch[k], now}
           \/ InFlush(k)' = pending_touch[k] /\ pending_touch'[k] = None /\ Used(k)' = Used(k)
    PROVE  /\ NotAfter(Used(k)', InFlush(k)') /\ NotAfter(InFlush(k)', pending_touch'[k])
           /\ NotAfter(Used(k)', pending_touch'[k])
           /\ NotAfter(Used(k)', now') /\ NotAfter(InFlush(k)', now') /\ NotAfter(pending_touch'[k], now')
<1>1. /\ Used(k) \in Times \cup {None} /\ pending_touch[k] \in Times \cup {None}
      /\ InFlush(k) \in Times \cup {None} /\ now \in Times /\ now' \in Times
  BY TouchTypes, InFlushType DEF IInv, TypeOK
<1>2. /\ NotAfter(Used(k), InFlush(k)) /\ NotAfter(InFlush(k), pending_touch[k])
      /\ NotAfter(Used(k), pending_touch[k])
      /\ NotAfter(Used(k), now) /\ NotAfter(InFlush(k), now) /\ NotAfter(pending_touch[k], now)
  BY DEF TouchInv
<1> DEFINE d == Used(k)  f == InFlush(k)  p == pending_touch[k]
           d1 == Used(k)'  f1 == InFlush(k)'  p1 == pending_touch'[k]
<1>3. /\ d \in Times \cup {None} /\ p \in Times \cup {None} /\ f \in Times \cup {None}
      /\ NotAfter(d, f) /\ NotAfter(f, p) /\ NotAfter(d, p)
      /\ NotAfter(d, now) /\ NotAfter(f, now) /\ NotAfter(p, now)
      /\ d1 \in {None, d, f}
      /\ (f1 \in {None, f} /\ p1 \in {None, p, now}) \/ (f1 = p /\ p1 = None /\ d1 = d)
  BY <1>1, <1>2
<1> HIDE DEF d, f, p, d1, f1, p1
<1>4. Times \subseteq Nat /\ now \in Nat /\ now' \in Nat
  BY <1>1, TimeAssumption
<1>5. /\ NotAfter(d1, f1) /\ NotAfter(f1, p1) /\ NotAfter(d1, p1)
      /\ NotAfter(d1, now') /\ NotAfter(f1, now') /\ NotAfter(p1, now')
  <2> DEFINE T == Nat \cup {None}
  <2>1. d \in T /\ f \in T /\ p \in T /\ d1 \in T /\ f1 \in T /\ p1 \in T /\ now' >= now
    BY <1>3, <1>4
  <2>2. /\ NotAfter(d1, now) /\ NotAfter(f1, now) /\ NotAfter(p1, now)
    BY <1>3, <1>4 DEF NotAfter
  <2>3. /\ NotAfter(d1, now') /\ NotAfter(f1, now') /\ NotAfter(p1, now')
    <3> SUFFICES ASSUME NEW a \in T, NotAfter(a, now), now' # None PROVE NotAfter(a, now')
      BY <2>1, <2>2 DEF NotAfter
    <3>1. CASE a = None
      BY <3>1 DEF NotAfter
    <3>2. CASE a # None
      <4>1. a <= now
        BY <1>1, <3>2, NoneAssumption DEF NotAfter
      <4>2. a <= now'
        BY <1>4, <2>1, <3>2, <4>1
      <4> QED
        BY <4>2 DEF NotAfter
    <3> QED
      BY <3>1, <3>2
  <2>4. NotAfter(d1, f1) /\ NotAfter(f1, p1) /\ NotAfter(d1, p1)
    <3>1. CASE f1 \in {None, f} /\ p1 \in {None, p, now}
      <4>1. NotAfter(f, f1) /\ NotAfter(d, f1) /\ NotAfter(d1, f1)
        BY <1>3, <1>4, <2>1, <3>1 DEF NotAfter
      <4>2. NotAfter(f1, p1)
        BY <1>3, <1>4, <2>1, <3>1 DEF NotAfter
      <4>3. NotAfter(d1, p1)
        BY <1>3, <1>4, <2>1, <3>1 DEF NotAfter
      <4> QED
        BY <4>1, <4>2, <4>3
    <3>2. CASE f1 = p /\ p1 = None /\ d1 = d
      BY <1>3, <3>2 DEF NotAfter
    <3> QED
      BY <1>3, <3>1, <3>2
  <2> QED
    BY <2>3, <2>4
<1> QED
  BY <1>5 DEF d, f, p, d1, f1, p1

\* A rename writes a key's flushed touch, or leaves its last use, or the key goes.
LEMMA PersistUse ==
    ASSUME IInv, ClockInv, NEW t \in Threads, Persist(t), NEW k \in Keys
    PROVE  /\ Used(k)' \in {None, Used(k), InFlush(k)}
           /\ Present(disk, k) /\ Present(disk', k) =>
                 Used(k)' = Used(k) \/ (Used(k)' = InFlush(k) /\ InFlush(k) # None)
<1>1. /\ req[t] \in Ops /\ Succeeds(req[t], disk) /\ disk' = Apply(req[t], disk)
      /\ disk \in Snapshot /\ pc[t] = "cloned" /\ Mutating(t)
  BY DEF Persist, IInv, TypeOK, LockInv, CloneInv, Mutating
<1>2. CASE ~ Present(disk', k)
  BY <1>2 DEF Used
<1>3. CASE Present(disk', k)
  <2>1. Used(k)' = disk'.capabilities[k].last_used
    BY <1>3 DEF Used
  <2>2. CASE req[t].op = "add_capability" /\ req[t].key = k /\ disk'.capabilities[k].last_used = None
    <3>1. ~ Present(disk, k)
      BY <1>1, <2>2 DEF IInv, FreshInv
    <3> QED
      BY <2>1, <2>2, <3>1
  <2>3. CASE Present(disk, k) /\ disk'.capabilities[k].last_used = disk.capabilities[k].last_used
    BY <2>1, <2>3 DEF Used
  <2>4. CASE /\ req[t].op = "flush_last_used" /\ Present(disk, k)
             /\ disk'.capabilities[k].last_used = req[t].touches[k] /\ req[t].touches[k] # None
    <3>1. t = Persister
      BY <1>1, <2>4 DEF ClockInv
    <3>2. InFlush(k) = req[t].touches[k]
      BY <1>1, <2>4, <3>1 DEF InFlush
    <3> QED
      BY <2>1, <2>4, <3>2
  <2> QED
    BY <1>1, <1>3, <2>2, <2>3, <2>4, ApplyUse
<1> QED
  BY <1>2, <1>3

\* Every step keeps the order of a key's timestamps.
LEMMA TouchStep == IInv /\ IInv' /\ ClockInv /\ TouchInv /\ [Next]_vars => TouchInv'
<1> SUFFICES ASSUME IInv, IInv', ClockInv, TouchInv, [Next]_vars PROVE TouchInv'
  OBVIOUS
<1> DEFINE Moves(k) ==
        /\ Used(k)' \in {None, Used(k), InFlush(k)}
        /\ \/ InFlush(k)' \in {None, InFlush(k)} /\ pending_touch'[k] \in {None, pending_touch[k], now}
           \/ InFlush(k)' = pending_touch[k] /\ pending_touch'[k] = None /\ Used(k)' = Used(k)
<1>1. TypeOK /\ now \in Nat /\ Persister \in Threads /\ Persister \notin Clients
  BY TimeAssumption, ThreadAssumption DEF IInv, TypeOK, Threads
<1>2. now' \in Nat /\ now <= now'
  <2>1. CASE Tick
    BY <1>1, <2>1 DEF Tick
  <2>2. CASE now' = now
    BY <1>1, <2>2
  <2> QED
    BY <2>1, <2>2 DEF Next, Mutate, Maintain, Request, Clone, NotFound, Persist, Publish, PersistFails,
       FlushTake, PruneScan, PruneSkip, Sweep, Lookup, Decide, Respond, CrashAndReopen, vars
<1>3. ASSUME NEW k \in Keys PROVE Moves(k)
  <2> USE DEF Used, InFlush
  <2>1. ASSUME NEW t \in Clients, NEW o \in ClientOps, Request(t, o) PROVE Moves(k)
    BY <1>1, <2>1 DEF Request, TypeOK
  <2>2. ASSUME NEW t \in Threads, Clone(t) PROVE Moves(k)
    BY <1>1, <2>2 DEF Clone, TypeOK
  <2>3. ASSUME NEW t \in Threads, NotFound(t) \/ Publish(t) \/ PersistFails(t) PROVE Moves(k)
    BY <1>1, <2>3 DEF NotFound, Publish, PersistFails, Return, TypeOK
  <2>4. ASSUME NEW t \in Threads, Persist(t) PROVE Moves(k)
    <3>1. InFlush(k)' \in {None, InFlush(k)} /\ pending_touch'[k] = pending_touch[k]
      BY <1>1, <2>4 DEF Persist, TypeOK
    <3> QED
      BY <2>4, <3>1, PersistUse
  <2>5. CASE FlushTake
    <3>1. Used(k)' = Used(k) /\ pending_touch'[k] = None
      BY <2>5 DEF FlushTake, NoTouches
    <3>2. CASE pending_touch = NoTouches
      BY <1>1, <2>5, <3>1, <3>2 DEF FlushTake, NoTouches, TypeOK
    <3>3. CASE pending_touch # NoTouches
      BY <1>1, <2>5, <3>1, <3>3 DEF FlushTake, TypeOK
    <3> QED
      BY <3>2, <3>3
  <2>6. CASE PruneScan
    BY <1>1, <2>6 DEF PruneScan, TypeOK
  <2>7. CASE PruneSkip \/ Sweep
    BY <1>1, <2>7 DEF PruneSkip, Sweep, TypeOK
  <2>8. ASSUME NEW t \in Clients, \/ \E j \in Keys : Lookup(t, j)
                                  \/ \E secretMatches \in BOOLEAN : Decide(t, secretMatches)
                                  \/ Respond(t)
        PROVE  Moves(k)
    <3>1. UNCHANGED <<disk, req>> /\ pc'[Persister] = pc[Persister]
      BY <1>1, <2>8 DEF Lookup, Decide, Respond, TypeOK
    <3>2. pending_touch'[k] \in {pending_touch[k], now}
      BY <1>1, <2>8 DEF Lookup, Decide, Respond, TypeOK, Touches
    <3> QED
      BY <3>1, <3>2
  <2>9. CASE Tick \/ UNCHANGED vars
    BY <2>9 DEF Tick, vars
  <2>10. CASE CrashAndReopen
    BY <1>1, <2>10 DEF CrashAndReopen, Open, NoTouches
  <2> HIDE DEF Used, InFlush
  <2> HIDE DEF Moves
  <2> QED
    BY <2>1, <2>2, <2>3, <2>4, <2>5, <2>6, <2>7, <2>8, <2>9, <2>10 DEF Next, Mutate, Maintain
<1> QED
  BY <1>2, <1>3, TouchMoves DEF TouchInv

\* The clock and the touches keep their order in every reachable state.
LEMMA TouchesInOrder == Spec => [](ClockInv /\ TouchInv)
<1>1. Init => ClockInv /\ TouchInv
  BY NoneAssumption, ThreadAssumption
     DEF Init, ClockInv, TouchInv, Mutating, Threads, NotAfter, Used, InFlush, Present,
         EmptySnapshot, NoTouches
<1> QED
  BY <1>1, ClockStep, TouchStep, StoreInvariant, PTL DEF Spec

\* A step changes the file only by a rename.
LEMMA OnlyRenames == [Next]_vars => disk' = disk \/ \E t \in Threads : Persist(t)
BY DEF Next, Mutate, Maintain, Request, Clone, NotFound, PersistFails, Publish,
   FlushTake, PruneScan, PruneSkip, Sweep, Lookup, Decide, Respond, Tick, CrashAndReopen, Open, vars

\* A capability leaves the file only revoked or expired for the grace period
\* (auth/store.rs prune_capabilities), however long the prune that removes it
\* waited for the lock.
THEOREM OnlyDeadLeave == Spec => OnlyDeadCapabilitiesLeave
<1>1. IInv /\ ClockInv /\ [Next]_vars =>
        [\A k \in Keys :
            Present(disk, k) /\ ~ Present(disk', k) =>
                LET rec == disk.capabilities[k]
                IN  rec.revoked \/ (rec.expires_at # None /\ now >= rec.expires_at + Grace)]_vars
  <2> SUFFICES ASSUME IInv, ClockInv, [Next]_vars, NEW k \in Keys, Present(disk, k), ~ Present(disk', k)
               PROVE  LET rec == disk.capabilities[k]
                      IN  rec.revoked \/ (rec.expires_at # None /\ now >= rec.expires_at + Grace)
    OBVIOUS
  <2>1. PICK t \in Threads : Persist(t)
    BY OnlyRenames
  <2>2. /\ req[t] \in Ops /\ Succeeds(req[t], disk) /\ disk' = Apply(req[t], disk)
        /\ disk \in Snapshot /\ now \in Times /\ Mutating(t)
    BY <2>1 DEF Persist, IInv, TypeOK, LockInv, CloneInv, Mutating
  <2>3. /\ req[t] \in PruneOps /\ req[t].op = "prune_capabilities"
        /\ Removable(disk.capabilities[k], req[t].now)
    BY <2>2, ApplyRemoves
  <2>4. req[t].now \in Times /\ req[t].now <= now
    BY <2>2, <2>3 DEF ClockInv, PruneOps
  <2>5. disk.capabilities[k].expires_at \in Times \cup {None}
    BY <2>2 DEF Snapshot, CapabilityRecord, Present
  <2>6. CASE disk.capabilities[k].revoked
    BY <2>6
  <2>7. CASE disk.capabilities[k].expires_at # None
             /\ req[t].now >= disk.capabilities[k].expires_at + Grace
    <3>1. /\ disk.capabilities[k].expires_at \in Nat /\ Grace \in Nat
          /\ req[t].now \in Nat /\ now \in Nat
      BY <2>2, <2>4, <2>5, <2>7, TimeAssumption
    <3>2. now >= disk.capabilities[k].expires_at + Grace
      BY <2>4, <2>7, <3>1
    <3> QED
      BY <2>7, <3>2
  <2> QED
    BY <2>3, <2>6, <2>7 DEF Removable
<1> QED
  BY <1>1, StoreInvariant, TouchesInOrder, PTL DEF Spec, OnlyDeadCapabilitiesLeave

\* On disk last_used never goes back (auth/store.rs flush_last_used), although
\* a flush writes what it took from the buffer long before it got the lock.
THEOREM LastUsedIsMonotone == Spec => LastUsedNeverGoesBack
<1>1. IInv /\ IInv' /\ ClockInv /\ TouchInv /\ [Next]_vars =>
        [\A k \in Keys :
            LET old == disk.capabilities[k]
                new == disk'.capabilities[k]
            IN  Present(disk, k) /\ Present(disk', k) /\ old.last_used # None =>
                    new.last_used # None /\ new.last_used >= old.last_used]_vars
  <2> SUFFICES ASSUME IInv, IInv', ClockInv, TouchInv, [Next]_vars, NEW k \in Keys,
                      Present(disk, k), Present(disk', k), Used(k) # None
               PROVE  Used(k)' # None /\ Used(k)' >= Used(k)
    BY DEF Used
  <2>1. /\ Used(k) \in Times \cup {None} /\ InFlush(k) \in Times \cup {None}
        /\ NotAfter(Used(k), InFlush(k))
    BY TouchTypes, InFlushType DEF IInv, TouchInv
  <2>2. Used(k)' = Used(k) \/ (Used(k)' = InFlush(k) /\ InFlush(k) # None)
    <3>1. CASE disk' = disk
      BY <3>1 DEF Used
    <3>2. CASE \E t \in Threads : Persist(t)
      BY <3>2, PersistUse
    <3> QED
      BY <3>1, <3>2, OnlyRenames
  <2>3. Used(k) \in Nat
    BY <2>1, TimeAssumption
  <2>4. CASE Used(k)' = Used(k)
    BY <2>3, <2>4
  <2>5. CASE Used(k)' = InFlush(k) /\ InFlush(k) # None
    <3>1. InFlush(k) \in Nat
      BY <2>1, <2>5, TimeAssumption
    <3>2. Used(k) <= InFlush(k)
      BY <2>1, <2>5 DEF NotAfter
    <3> QED
      BY <2>3, <2>5, <3>1, <3>2
  <2> QED
    BY <2>2, <2>4, <2>5
<1> QED
  BY <1>1, StoreInvariant, TouchesInOrder, PTL DEF Spec, LastUsedNeverGoesBack

-----------------------------------------------------------------------------
(* The store implements the abstract map.                                 *)

\* The abstract map and the store mean the same by a snapshot and a mutation.
LEMMA SameMutations ==
    /\ Abstract!EmptySnapshot = EmptySnapshot
    /\ Abstract!Ops = Ops
    /\ \A o, s : Abstract!Succeeds(o, s) <=> Succeeds(o, s)
    /\ \A o, s : Abstract!Apply(o, s) = Apply(o, s)
    /\ \A s, k : Abstract!Live(s, k) <=> Live(s, k)
<1>1. Abstract!EmptySnapshot = EmptySnapshot
  BY DEF Abstract!EmptySnapshot, EmptySnapshot
<1>2. Abstract!Ops = Ops
  BY DEF Abstract!Ops, Abstract!AddOps, Abstract!RevokeOps, Abstract!AccountOps, Abstract!FlushOps,
     Abstract!PruneOps, Abstract!Touches, Ops, AddOps, RevokeOps, AccountOps, FlushOps, PruneOps, Touches
<1>3. \A o, s : Abstract!Succeeds(o, s) <=> Succeeds(o, s)
  BY DEF Abstract!Succeeds, Abstract!Present, Succeeds, Present
<1>4. \A s, k : Abstract!Live(s, k) <=> Live(s, k)
  BY DEF Abstract!Live, Abstract!Present, Live, Present
<1>5. ASSUME NEW o, NEW s PROVE Abstract!Apply(o, s) = Apply(o, s)
  BY DEF Abstract!Apply, Abstract!AddCapability, Abstract!RevokeCapability, Abstract!AddAccount,
     Abstract!FlushLastUsed, Abstract!PruneCapabilities, Abstract!Removable, Abstract!Present,
     Apply, AddCapability, RevokeCapability, AddAccount, FlushLastUsed, PruneCapabilities,
     Removable, Present
<1> QED
  BY <1>1, <1>2, <1>3, <1>4, <1>5

\* The store implements the abstract map: a rename is one whole mutation of
\* the map, a publication acknowledges, and every other step is invisible.
THEOREM Refinement == Spec => Implements
<1>1. Init => Abstract!Init
  BY SameMutations DEF Init, Abstract!Init
<1>2. IInv /\ [Next]_vars => [Abstract!Next]_(Abstract!vars)
  <2> SUFFICES ASSUME IInv, [Next]_vars
               PROVE  [Abstract!Next]_(Abstract!vars)
    OBVIOUS
  <2>1. ASSUME NEW t \in Threads, Persist(t) PROVE Abstract!Next
    <3>1. req[t] \in Ops /\ Succeeds(req[t], disk) /\ disk' = Apply(req[t], disk)
      BY <2>1 DEF Persist, IInv, LockInv, CloneInv, Mutating
    <3>2. req[t].op = "add_capability" => req[t].key \notin issued
      BY <2>1 DEF Persist, IInv, FreshInv
    <3>3. Abstract!Mutate(req[t])
      BY <2>1, <3>1, <3>2, SameMutations DEF Persist, Abstract!Mutate
    <3> QED
      BY <3>1, <3>3, SameMutations DEF Abstract!Next
  <2>2. ASSUME NEW t \in Threads, Publish(t) PROVE [Abstract!Next]_(Abstract!vars)
    <3>1. CASE req[t].op = "revoke_capability"
      <4>1. req[t].key \in Keys /\ req[t].key \in issued /\ ~ Live(disk, req[t].key)
        BY <2>2, <3>1, OpKinds DEF Publish, IInv, LockInv, CloneInv, Mutating
      <4>2. Abstract!Acknowledge(req[t].key)
        BY <2>2, <3>1, <4>1, SameMutations DEF Publish, Abstract!Acknowledge
      <4> QED
        BY <4>1, <4>2 DEF Abstract!Next
    <3>2. CASE req[t].op # "revoke_capability"
      BY <2>2, <3>2 DEF Publish, Abstract!vars
    <3> QED
      BY <3>1, <3>2
  <2>3. CASE UNCHANGED <<disk, issued, retired>>
    BY <2>3 DEF Abstract!vars
  <2> QED
    BY <2>1, <2>2, <2>3 DEF Next, Mutate, Maintain, Request, Clone, NotFound, PersistFails, vars,
       FlushTake, PruneScan, PruneSkip, Sweep, Lookup, Decide, Respond, Tick, CrashAndReopen, Open
<1> QED
  BY StoreInvariant, <1>1, <1>2, PTL DEF Spec, Implements, Abstract!Spec

-----------------------------------------------------------------------------
(* Bootstrap: what the daemon's writes do to a snapshot.                   *)

\* Any capability may be stored under any key, or removed.
LEMMA WithCapability ==
    ASSUME NEW s \in Snapshot, NEW c \in [Keys -> CapabilityRecord \cup {None}]
    PROVE  /\ [s EXCEPT !.capabilities = c] \in Snapshot
           /\ [s EXCEPT !.capabilities = c].accounts = s.accounts
BY DEF Snapshot

LEMMA AddType ==
    ASSUME NEW s \in Snapshot, NEW k \in Keys
    PROVE  AddCapability(s, k, None) \in Snapshot /\ AddCapability(s, k, None).accounts = s.accounts
BY NoneAssumption DEF AddCapability, CapabilityRecord, Snapshot

LEMMA RevokeType ==
    ASSUME NEW s \in Snapshot, NEW k \in Keys, Present(s, k)
    PROVE  RevokeCapability(s, k) \in Snapshot /\ RevokeCapability(s, k).accounts = s.accounts
<1>1. s.capabilities[k] \in CapabilityRecord
  BY DEF Snapshot, Present
<1>2. [s.capabilities[k] EXCEPT !.revoked = TRUE] \in CapabilityRecord
  BY <1>1 DEF CapabilityRecord
<1> QED
  BY <1>2 DEF RevokeCapability, Snapshot

LEMMA PruneType ==
    ASSUME NEW s \in Snapshot, NEW at
    PROVE  PruneCapabilities(s, at) \in Snapshot /\ PruneCapabilities(s, at).accounts = s.accounts
<1> DEFINE c == [k \in Keys |->
                    IF Present(s, k) /\ Removable(s.capabilities[k], at)
                    THEN None
                    ELSE s.capabilities[k]]
<1>1. c \in [Keys -> CapabilityRecord \cup {None}]
  BY DEF Snapshot
<1>2. PruneCapabilities(s, at) = [s EXCEPT !.capabilities = c]
  BY DEF PruneCapabilities
<1> HIDE DEF c
<1> QED
  BY <1>1, <1>2, WithCapability

-----------------------------------------------------------------------------
(* The codes.                                                              *)

\* The state carries what history says of its code, and codes to come are
\* untouched.
CodeInv ==
    /\ boot \in States /\ code_file \in Codes \cup {None}
    /\ clock \in Times /\ generated \in 0..MaxCodes
    /\ wrong \in [Codes -> Nat] /\ born \in [Codes -> Times]
    /\ boot.mode = "Active" =>
          /\ boot.code <= generated
          /\ wrong[boot.code] = boot.attempts /\ boot.attempts < MAX_ATTEMPTS
          /\ born[boot.code] = boot.window_start
    /\ \A c \in Codes : c > generated => wrong[c] = 0
    /\ \A c \in Codes : wrong[c] <= MAX_ATTEMPTS

\* The code a submission is compared with, and its attempts, once an elapsed
\* window has replaced it: they are those of a state that CodeInv allows.
LEMMA Compared ==
    ASSUME CodeInv, boot.mode = "Active", NEW n \in {Renewed, Renewed + 1}, Generate(n)
    PROVE  /\ CurrentCode \in Codes /\ CurrentCode <= generated + Renewed
           /\ wrong[CurrentCode] = CurrentAttempts /\ CurrentAttempts \in 0..MAX_ATTEMPTS - 1
           /\ CurrentStart \in Times /\ born'[CurrentCode] = CurrentStart
           /\ Renewed = 0 => CurrentCode <= generated
           /\ born' \in [Codes -> Times] /\ generated' \in 0..MaxCodes
           /\ generated' = generated + n /\ Renewed \in {0, 1}
<1> USE BootstrapAssumption, TimeAssumption
      DEF CodeInv, Generate, Renewed, CurrentCode, CurrentAttempts, CurrentStart, Codes
<1>1. boot.code \in Codes /\ boot.attempts \in Nat /\ boot.window_start \in Times
  BY DEF States, Disabled
<1>2. born' \in [Codes -> Times]
  OBVIOUS
<1>3. CASE WindowElapsed
  BY <1>1, <1>2, <1>3
<1>4. CASE ~ WindowElapsed
  BY <1>1, <1>2, <1>4
<1> QED
  BY <1>3, <1>4

LEMMA BadCodeStep ==
    ASSUME CodeInv, NEW c, ClaimBadCode(c)
    PROVE  CodeInv'
<1>1. /\ boot.mode = "Active" /\ Generate(Renewed) /\ CurrentAttempts + 1 < MAX_ATTEMPTS
      /\ boot' = Active(CurrentCode, CurrentAttempts + 1, CurrentStart)
      /\ wrong' = [wrong EXCEPT ![CurrentCode] = @ + 1] /\ clock' = clock
  BY DEF ClaimBadCode, WrongSubmission
<1>2. /\ CurrentCode \in Codes /\ CurrentCode <= generated + Renewed
      /\ wrong[CurrentCode] = CurrentAttempts /\ CurrentAttempts \in 0..MAX_ATTEMPTS - 1
      /\ CurrentStart \in Times /\ born'[CurrentCode] = CurrentStart
      /\ born' \in [Codes -> Times] /\ generated' \in 0..MaxCodes
      /\ generated' = generated + Renewed /\ Renewed \in {0, 1}
  BY <1>1, Compared
<1>3. code_file' \in Codes \cup {None}
  BY <1>2 DEF ClaimBadCode, WriteCode, CodeInv
<1>4. boot' \in States
  BY <1>1, <1>2, BootstrapAssumption DEF Active, States
<1> HIDE DEF CurrentCode, CurrentAttempts, CurrentStart, Renewed
<1> QED
  BY <1>1, <1>2, <1>3, <1>4, BootstrapAssumption DEF Active, CodeInv, Codes

LEMMA RateLimitedStep ==
    ASSUME CodeInv, NEW c, ClaimRateLimited(c)
    PROVE  CodeInv'
<1>1. /\ boot.mode = "Active" /\ Generate(Renewed + 1)
      /\ boot' = Active(generated', 0, clock)
      /\ wrong' = [wrong EXCEPT ![CurrentCode] = @ + 1] /\ clock' = clock
      /\ code_file' \in {generated', code_file, None}
  BY DEF ClaimRateLimited, WrongSubmission, WriteCode
<1>2. /\ CurrentCode \in Codes /\ CurrentCode <= generated + Renewed
      /\ wrong[CurrentCode] = CurrentAttempts /\ CurrentAttempts \in 0..MAX_ATTEMPTS - 1
      /\ born' \in [Codes -> Times] /\ generated' \in 0..MaxCodes
      /\ generated' = generated + (Renewed + 1) /\ Renewed \in {0, 1}
  BY <1>1, Compared
<1>3. generated' \in Codes /\ CurrentCode < generated' /\ born'[generated'] = clock
  BY <1>1, <1>2, BootstrapAssumption DEF Generate, Codes, CodeInv
<1>4. boot' \in States /\ boot'.mode = "Active" /\ boot'.code = generated'
      /\ boot'.attempts = 0 /\ boot'.window_start = clock
  BY <1>1, <1>3 DEF Active, States, CodeInv
<1>5. wrong' \in [Codes -> Nat] /\ wrong'[generated'] = 0
  BY <1>1, <1>2, <1>3, BootstrapAssumption DEF CodeInv, Codes
<1>6. /\ \A d \in Codes : d > generated' => wrong'[d] = 0
      /\ \A d \in Codes : wrong'[d] <= MAX_ATTEMPTS
  BY <1>1, <1>2, <1>3, BootstrapAssumption DEF CodeInv, Codes
<1> QED
  BY <1>1, <1>2, <1>3, <1>4, <1>5, <1>6, BootstrapAssumption DEF CodeInv

LEMMA MatchesStep ==
    ASSUME CodeInv, NEW c, NEW n, ClaimMatches(c, n)
    PROVE  CodeInv' /\ c \in Codes
<1>1. /\ boot.mode = "Active" /\ Generate(Renewed) /\ c = CurrentCode
      /\ boot' = Active(CurrentCode, CurrentAttempts, CurrentStart)
      /\ wrong' = wrong /\ clock' = clock
  BY DEF ClaimMatches
<1>2. /\ CurrentCode \in Codes /\ CurrentCode <= generated + Renewed
      /\ wrong[CurrentCode] = CurrentAttempts /\ CurrentAttempts \in 0..MAX_ATTEMPTS - 1
      /\ CurrentStart \in Times /\ born'[CurrentCode] = CurrentStart
      /\ born' \in [Codes -> Times] /\ generated' \in 0..MaxCodes
      /\ generated' = generated + Renewed /\ Renewed \in {0, 1}
  BY <1>1, Compared
<1>3. code_file' \in Codes \cup {None}
  BY <1>2 DEF ClaimMatches, WriteCode, CodeInv
<1>4. boot' \in States
  BY <1>1, <1>2, BootstrapAssumption DEF Active, States
<1> QED
  BY <1>1, <1>2, <1>3, <1>4, BootstrapAssumption DEF Active, CodeInv, Codes

\* One more code, drawn clock, with or without a state that is about it.
LEMMA NewCodeStep ==
    ASSUME CodeInv, Generate(1), UNCHANGED <<wrong, clock>>, code_file' \in {generated', code_file, None},
           boot' = boot \/ boot' = Active(generated', 0, clock)
    PROVE  CodeInv'
<1>1. /\ generated' \in Codes /\ generated' = generated + 1
      /\ born' \in [Codes -> Times] /\ born'[generated'] = clock
      /\ \A c \in Codes : c <= generated => born'[c] = born[c]
  BY BootstrapAssumption DEF Generate, Codes, CodeInv
<1>2. CASE boot' = boot
  BY <1>1, <1>2, BootstrapAssumption DEF CodeInv, Codes, States, Disabled
<1>3. CASE boot' = Active(generated', 0, clock)
  <2>1. boot' \in States
    BY <1>1, <1>3 DEF Active, States, CodeInv
  <2> QED
    BY <1>1, <1>3, <2>1, BootstrapAssumption DEF Active, CodeInv, Codes
<1> QED
  BY <1>2, <1>3

LEMMA CodeStep == CodeInv /\ [BootstrapNext]_bootstrapVars => CodeInv'
<1> SUFFICES ASSUME CodeInv, [BootstrapNext]_bootstrapVars PROVE CodeInv'
  OBVIOUS
<1>1. CASE \E c \in {WrongCode} \cup 1..generated :
              ClaimBadCode(c) \/ ClaimRateLimited(c) \/ \E n \in Names : ClaimMatches(c, n)
  BY <1>1, BadCodeStep, RateLimitedStep, MatchesStep
<1>2. CASE ClaimSucceeds
  <2>1. boot' = Disabled /\ code_file' \in {None, code_file} /\ UNCHANGED <<clock, generated, wrong, born>>
    BY <1>2 DEF ClaimSucceeds
  <2> QED
    BY <2>1 DEF CodeInv, Disabled, States
<1>3. CASE ResetWrite
  BY <1>3, NewCodeStep DEF ResetWrite, WriteCode
<1>4. CASE Restart
  <2>1. CASE IsEmpty(file)
    BY <1>4, <2>1, NewCodeStep DEF Restart, Begin, WriteCode
  <2>2. CASE ~ IsEmpty(file)
    <3>1. boot' = Disabled /\ UNCHANGED <<clock, code_file, generated, wrong, born>>
      BY <1>4, <2>2 DEF Restart, Begin
    <3> QED
      BY <3>1 DEF CodeInv, Disabled, States
  <2> QED
    BY <2>1, <2>2
<1>5. CASE BootstrapTick
  BY <1>5 DEF BootstrapTick, history, CodeInv
<1>6. CASE UNCHANGED <<boot, code_file, clock, generated, wrong, born>>
  BY <1>6 DEF CodeInv
<1> QED
  BY <1>1, <1>2, <1>3, <1>4, <1>5, <1>6
     DEF BootstrapNext, Claim, ClaimAddAccount, ClaimAddCapability, ClaimFails, Daemon, Login, TokenRevoke,
         Prune, ResetAdmin, ResetRead, CodesSpent, history, bootstrapVars

-----------------------------------------------------------------------------
(* The store: what it says between the two writes of a claim.              *)

StoreInv ==
    /\ mem \in Snapshot /\ file \in Snapshot
    /\ cli \in Snapshot \cup {None}
    /\ claim \in Claims \cup {None}
    /\ claimed \in BOOLEAN /\ reset \in {"no", "done", "restarted"}

\* Until a reset the file is the daemon's copy, and a capability or a claim
\* past its first write means that there is an account.
WayIn ==
    reset = "no" =>
        /\ file = mem
        /\ mem.accounts = {} => IsEmpty(mem)
        /\ claim # None /\ claim.stage # "add_account" => mem.accounts # {}

StoreSettled == StoreInv /\ WayIn /\ SomeWayIn /\ ClaimedOnce

\* A claim on its way.
LEMMA OnItsWay == StoreInv /\ claim # None => claim \in Claims
BY DEF StoreInv

\* The daemon stores a snapshot with the accounts it had, or more of them.
LEMMA StoreStep ==
    ASSUME StoreSettled, NEW s \in Snapshot, Store(s), UNCHANGED <<boot, cli, claim, claimed, reset>>,
           mem.accounts \subseteq s.accounts, s.accounts = {} => IsEmpty(mem) /\ s = mem
    PROVE  StoreSettled'
BY DEF StoreSettled, StoreInv, WayIn, SomeWayIn, ClaimedOnce, Store

LEMMA ClaimSteps ==
    ASSUME StoreSettled, CodeInv, Claim
    PROVE  StoreSettled'
<1>1. CASE \E c \in {WrongCode} \cup 1..generated : ClaimBadCode(c) \/ ClaimRateLimited(c)
  <2>1. UNCHANGED <<mem, file, claim, cli, claimed, reset>> /\ boot.mode = "Active"
    BY <1>1 DEF ClaimBadCode, ClaimRateLimited
  <2>2. boot'.mode = "Active"
    BY <1>1 DEF ClaimBadCode, ClaimRateLimited, Active
  <2> QED
    BY <2>1, <2>2 DEF StoreSettled, StoreInv, WayIn, SomeWayIn, ClaimedOnce
<1>2. ASSUME NEW c, NEW n \in Names, ClaimMatches(c, n)
      PROVE  StoreSettled'
  <2>1. /\ UNCHANGED <<mem, file, cli, claimed, reset>> /\ boot.mode = "Active"
        /\ claim' = [name |-> n, code |-> c, stage |-> "add_account"]
    BY <1>2 DEF ClaimMatches
  <2>2. boot'.mode = "Active"
    BY <1>2 DEF ClaimMatches, Active
  <2>3. claim' \in Claims
    BY <1>2, <2>1, MatchesStep DEF Claims
  <2> QED
    BY <2>1, <2>2, <2>3 DEF StoreSettled, StoreInv, WayIn, SomeWayIn, ClaimedOnce
<1>3. CASE ClaimAddAccount
  <2>1. /\ claim \in Claims /\ claim' = [claim EXCEPT !.stage = "add_capability"]
        /\ mem' = AddAccount(mem, claim.name) /\ file' = mem'
        /\ UNCHANGED <<boot, cli, claimed, reset>> /\ claim # None
    BY <1>3, OnItsWay DEF ClaimAddAccount, Store, history, StoreSettled
  <2>2. claim' \in Claims /\ claim.name \in Names
    BY <2>1 DEF Claims
  <2>3. mem' \in Snapshot /\ mem'.accounts = mem.accounts \cup {claim.name}
    BY <2>1, <2>2 DEF AddAccount, Snapshot, StoreSettled, StoreInv
  <2> QED
    BY <2>1, <2>2, <2>3 DEF StoreSettled, StoreInv, WayIn, SomeWayIn, ClaimedOnce
<1>4. CASE ClaimAddCapability
  <2>1. PICK k \in Keys : mem' = AddCapability(mem, k, None) /\ file' = mem'
    BY <1>4 DEF ClaimAddCapability, Store
  <2>2. /\ claim \in Claims /\ claim' = [claim EXCEPT !.stage = "finish"]
        /\ UNCHANGED <<boot, cli, claimed, reset>> /\ claim # None /\ claim.stage # "add_account"
    BY <1>4, OnItsWay DEF ClaimAddCapability, history, StoreSettled
  <2>3. claim' \in Claims
    BY <2>2 DEF Claims
  <2>4. mem' \in Snapshot /\ mem'.accounts = mem.accounts
    BY <2>1, AddType DEF StoreSettled, StoreInv
  <2> QED
    BY <2>1, <2>2, <2>3, <2>4 DEF StoreSettled, StoreInv, WayIn, SomeWayIn, ClaimedOnce
<1>5. CASE ClaimFails
  BY <1>5 DEF ClaimFails, history, StoreSettled, StoreInv, WayIn, SomeWayIn, ClaimedOnce
<1>6. CASE ClaimSucceeds
  BY <1>6 DEF ClaimSucceeds, StoreSettled, StoreInv, WayIn, SomeWayIn, ClaimedOnce, Disabled
<1> QED
  BY <1>1, <1>2, <1>3, <1>4, <1>5, <1>6 DEF Claim

LEMMA DaemonSteps ==
    ASSUME StoreSettled, Daemon
    PROVE  StoreSettled'
<1>1. mem \in Snapshot
  BY DEF StoreSettled, StoreInv
<1>2. CASE Login
  <2>1. PICK k \in Keys : Store(AddCapability(mem, k, None))
    BY <1>2 DEF Login
  <2>2. mem.accounts # {} /\ UNCHANGED <<boot, cli, claim, claimed, reset>>
    BY <1>2 DEF Login, history
  <2> QED
    BY <1>1, <2>1, <2>2, AddType, StoreStep
<1>3. ASSUME NEW k \in Keys, TokenRevoke(k) PROVE StoreSettled'
  <2>1. /\ Present(mem, k) /\ Store(RevokeCapability(mem, k))
        /\ UNCHANGED <<boot, cli, claim, claimed, reset>>
    BY <1>3 DEF TokenRevoke, history
  <2>2. ~ IsEmpty(mem)
    BY <2>1 DEF IsEmpty
  <2>3. /\ RevokeCapability(mem, k) \in Snapshot
        /\ RevokeCapability(mem, k).accounts = mem.accounts
    BY <1>1, <2>1, RevokeType
  <2> QED
    BY <2>1, <2>2, <2>3 DEF StoreSettled, StoreInv, WayIn, SomeWayIn, ClaimedOnce, Store
<1>4. CASE Prune
  <2>1. /\ Store(PruneCapabilities(mem, clock)) /\ ~ IsEmpty(mem)
        /\ UNCHANGED <<boot, cli, claim, claimed, reset>>
    BY <1>4 DEF Prune, history, IsEmpty
  <2>2. /\ PruneCapabilities(mem, clock) \in Snapshot
        /\ PruneCapabilities(mem, clock).accounts = mem.accounts
    BY <1>1, PruneType
  <2> QED
    BY <2>1, <2>2 DEF StoreSettled, StoreInv, WayIn, SomeWayIn, ClaimedOnce, Store
<1> QED
  BY <1>2, <1>3, <1>4 DEF Daemon

LEMMA StoreStepAll ==
    ASSUME StoreSettled, CodeInv, [BootstrapNext]_bootstrapVars
    PROVE  StoreSettled'
<1>1. CASE ResetRead
  BY <1>1 DEF ResetRead, history, StoreSettled, StoreInv, WayIn, SomeWayIn, ClaimedOnce
<1>2. CASE ResetWrite
  <2>1. /\ cli \in Snapshot /\ file' = [cli EXCEPT !.accounts = {}] /\ cli' = None
        /\ reset' = "done" /\ UNCHANGED <<mem, boot, claim, claimed>>
    BY <1>2 DEF ResetWrite, StoreSettled, StoreInv
  <2>2. file' \in Snapshot
    BY <2>1 DEF Snapshot
  <2> QED
    BY <2>1, <2>2 DEF StoreSettled, StoreInv, WayIn, SomeWayIn, ClaimedOnce
<1>3. CASE Restart
  <2>1. /\ mem' = file /\ claim' = None /\ UNCHANGED <<file, cli>>
        /\ claimed' = (claimed /\ ~ IsEmpty(file))
        /\ reset' = IF reset = "done" THEN "restarted" ELSE reset
    BY <1>3 DEF Restart
  <2>2. ~ IsEmpty(file) => boot'.mode = "Disabled"
    BY <1>3 DEF Restart, Begin, Disabled
  <2>3. IsEmpty(file) => boot'.mode = "Active"
    BY <1>3 DEF Restart, Begin, Active
  <2>4. claimed' => ~ IsEmpty(file)
    BY <2>1, Zenon
  <2>5. claimed' \in BOOLEAN
    BY <2>1, Zenon
  <2>6. (reset' = "no" => reset = "no") /\ reset' \in {"no", "done", "restarted"}
    BY <2>1 DEF StoreSettled, StoreInv
  <2>7. StoreInv' /\ WayIn' /\ ClaimedOnce'
    BY <2>1, <2>2, <2>4, <2>5, <2>6 DEF StoreSettled, StoreInv, WayIn, ClaimedOnce
  <2>8. SomeWayIn'
    BY <2>1, <2>3, <2>6 DEF StoreSettled, StoreInv, WayIn, SomeWayIn, IsEmpty
  <2> QED
    BY <2>7, <2>8 DEF StoreSettled
<1>4. CASE BootstrapTick
  BY <1>4 DEF BootstrapTick, history, StoreSettled, StoreInv, WayIn, SomeWayIn, ClaimedOnce
<1>5. CASE UNCHANGED bootstrapVars
  BY <1>5 DEF bootstrapVars, StoreSettled, StoreInv, WayIn, SomeWayIn, ClaimedOnce
<1> QED
  BY <1>1, <1>2, <1>3, <1>4, <1>5, ClaimSteps, DaemonSteps DEF BootstrapNext, ResetAdmin, CodesSpent

-----------------------------------------------------------------------------
(* The theorems.                                                           *)

LEMMA Invariants == BootstrapSpec => [](StoreSettled /\ CodeInv)
<1>1. BootstrapInit => StoreSettled /\ CodeInv
  <2> SUFFICES ASSUME BootstrapInit PROVE StoreSettled /\ CodeInv
    OBVIOUS
  <2>1. EmptySnapshot \in Snapshot /\ IsEmpty(EmptySnapshot)
    BY DEF EmptySnapshot, Snapshot, IsEmpty, Present
  <2>2. StoreSettled
    BY <2>1 DEF BootstrapInit, StoreSettled, StoreInv, WayIn, SomeWayIn, ClaimedOnce, Active
  <2>3. CodeInv
    BY BootstrapAssumption, TimeAssumption DEF BootstrapInit, CodeInv, Active, States, Codes
  <2> QED
    BY <2>2, <2>3
<1> QED
  BY <1>1, StoreStepAll, CodeStep, PTL DEF BootstrapSpec

\* Until the first reset-admin a daemon that refuses bootstrap has an account,
\* through crashes and failed writes at any step of a claim (bootstrap.rs claim,
\* lib.rs run).
THEOREM NobodyLockedOut == BootstrapSpec => []SomeWayIn
BY Invariants, PTL DEF StoreSettled

\* After a claim that succeeded no state accepts a code, until a start finds the
\* store empty (bootstrap.rs claim, begin).
THEOREM OneAdministrator == BootstrapSpec => []ClaimedOnce
BY Invariants, PTL DEF StoreSettled

\* No code survives MAX_ATTEMPTS wrong submissions, across windows,
\* regenerations, restarts and resets (bootstrap.rs claim).
THEOREM GuessesAreBounded == BootstrapSpec => []GuessesBounded
<1>1. StoreSettled /\ CodeInv => GuessesBounded
  BY DEF StoreSettled, StoreInv, CodeInv, GuessesBounded, BootstrapTypeOK
<1> QED
  BY <1>1, Invariants, PTL

\* A claim that matches was submitted in the window of its code (bootstrap.rs
\* claim: an elapsed window has replaced the code before it is compared).
LEMMA FreshCodeStep ==
    ASSUME CodeInv, [BootstrapNext]_bootstrapVars, claim = None, claim' # None
    PROVE  clock - born[claim'.code] < TTL
<1>1. PICK c \in {WrongCode} \cup 1..generated, n \in Names : ClaimMatches(c, n)
  BY DEF BootstrapNext, Claim, ClaimBadCode, ClaimRateLimited, ClaimAddAccount, ClaimAddCapability,
         ClaimFails, ClaimSucceeds, Daemon, Login, TokenRevoke, Prune, ResetAdmin, ResetRead,
         ResetWrite, Restart, BootstrapTick, CodesSpent, bootstrapVars
<1>2. boot.mode = "Active" /\ c = CurrentCode /\ claim'.code = c
  BY <1>1 DEF ClaimMatches
<1>3. ~ WindowElapsed
  BY <1>1, <1>2, BootstrapAssumption DEF CurrentCode, WrongCode, CodeInv
<1>4. /\ c = boot.code /\ born[c] = boot.window_start
      /\ clock \in Nat /\ boot.window_start \in Nat
  BY <1>2, <1>3, TimeAssumption DEF CurrentCode, CodeInv, States, Disabled
<1> QED
  BY <1>2, <1>3, <1>4, BootstrapAssumption DEF WindowElapsed

\* A code opens nothing once its window is over or a newer code has replaced
\* it (bootstrap.rs claim).
THEOREM FreshCodes == BootstrapSpec => OnlyFreshCodesOpen
<1>1. CodeInv /\ [BootstrapNext]_bootstrapVars =>
        [claim = None /\ claim' # None => clock - born[claim'.code] < TTL]_bootstrapVars
  BY FreshCodeStep
<1> QED
  BY <1>1, Invariants, PTL DEF BootstrapSpec, OnlyFreshCodesOpen
=============================================================================
