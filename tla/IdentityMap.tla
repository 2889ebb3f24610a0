----------------------------- MODULE IdentityMap -----------------------------
(***************************************************************************)
(* What the identity store promises, without files, threads or crashes:    *)
(* one map of capabilities and accounts, changed by one whole mutation at  *)
(* a time.  The detailed store (IdentityStore) clones, writes a file and   *)
(* publishes; it implements Spec of this module with its file as           *)
(* `identity`.                                                             *)
(***************************************************************************)
EXTENDS IdentitySnapshot

VARIABLES
    identity,  \* the map
    issued,    \* keys that were ever added to it
    retired    \* keys whose revocation a caller has been told of

vars == <<identity, issued, retired>>

Init ==
    /\ identity = EmptySnapshot
    /\ issued = {}
    /\ retired = {}

\* One mutation takes effect as a whole, on the map as it is now.
Mutate(o) ==
    /\ Succeeds(o, identity)
    /\ o.op = "add_capability" => o.key \notin issued
    /\ identity' = Apply(o, identity)
    /\ issued' = IF o.op = "add_capability" THEN issued \cup {o.key} ELSE issued
    /\ UNCHANGED retired

\* A caller is told that k is revoked: only when no request can use k any more.
Acknowledge(k) ==
    /\ k \in issued /\ ~ Live(identity, k)
    /\ retired' = retired \cup {k}
    /\ UNCHANGED <<identity, issued>>

Next == (\E o \in Ops : Mutate(o)) \/ (\E k \in Keys : Acknowledge(k))

Spec == Init /\ [][Next]_vars

TypeOK ==
    /\ identity \in Snapshot
    /\ issued \in SUBSET Keys
    /\ retired \in SUBSET Keys

\* An acknowledged revocation is final: the key is never accepted again.
RetiredStaysDead == \A k \in retired : k \in issued /\ ~ Live(identity, k)
=============================================================================
