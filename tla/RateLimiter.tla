----------------------------- MODULE RateLimiter -----------------------------
(***************************************************************************)
(* auth/ratelimit.rs, as `login` (api/auth_methods.rs) uses it.  A login   *)
(* reads the clock, takes the mutex and is let through or refused by the   *)
(* bucket of its account name; verifying the password takes long, and a    *)
(* success removes the bucket.  Past max_tracked names, buckets whose      *)
(* window is over are dropped.                                             *)
(*                                                                         *)
(* `ideal` is the same limiter without the cap on tracked names: it sees   *)
(* the same calls with the same clock readings.                            *)
(***************************************************************************)
EXTENDS Naturals, FiniteSets, Sequences

CONSTANTS
    Logins,       \* that may run at once
    Accounts,     \* account names that are tried
    max_attempts,
    window,
    max_tracked,
    MaxTime,      \* bound: the last tick of the clock
    NoBucket      \* of a name that has none

ASSUME LimiterAssumption ==
    /\ max_attempts \in Nat \ {0} /\ window \in Nat \ {0} /\ max_tracked \in Nat \ {0}
    /\ MaxTime \in Nat
    /\ NoBucket \notin Accounts

Times  == 0..MaxTime
Bucket == [attempts : 0..max_attempts, window_start : Times]

ASSUME NoBucketAssumption == NoBucket \notin Bucket

VARIABLES
    buckets,  \* RateLimiter::buckets
    ideal,    \* history: the buckets of a limiter that never evicts
    now,
    phase,    \* "idle", "waiting" for the mutex, "verifying" the password
    login,    \* [name, at]: the name and the clock reading of a login
    answer,   \* history: the last decision, and the ideal limiter's
    passed,   \* history: when logins of a name were let through since its last success
    late      \* history: a call came to the mutex with an old reading

limiterVars == <<buckets, ideal, now, phase, login, answer, passed, late>>

NoLogin == [name |-> NoBucket, at |-> 0]

LimiterTypeOK ==
    /\ buckets \in [Accounts -> Bucket \cup {NoBucket}]
    /\ ideal \in [Accounts -> Bucket \cup {NoBucket}]
    /\ now \in Times
    /\ phase \in [Logins -> {"idle", "waiting", "verifying"}]
    /\ login \in [Logins -> [name : Accounts \cup {NoBucket}, at : Times]]
    /\ answer \in [got : BOOLEAN, want : BOOLEAN]
    /\ passed \in [Accounts -> Seq(Times)]
    /\ late \in BOOLEAN

LimiterInit ==
    /\ buckets = [n \in Accounts |-> NoBucket]
    /\ ideal = [n \in Accounts |-> NoBucket]
    /\ now = 0
    /\ phase = [t \in Logins |-> "idle"]
    /\ login = [t \in Logins |-> NoLogin]
    /\ answer = [got |-> TRUE, want |-> TRUE]
    /\ passed = [n \in Accounts |-> << >>]
    /\ late = FALSE

Tick ==
    /\ now < MaxTime
    /\ now' = now + 1
    /\ UNCHANGED <<buckets, ideal, phase, login, answer, passed, late>>

-----------------------------------------------------------------------------
(* RateLimiter::check.                                                     *)

\* Instant::duration_since saturates at zero.
Elapsed(at, start) == IF at >= start THEN at - start ELSE 0

Over(b, at) == Elapsed(at, b.window_start) >= window

Tracked(bs) == {n \in Accounts : bs[n] # NoBucket}

\* A slip: eviction takes the live buckets too.
EvictLive(bs, name, at) ==
    IF Cardinality(Tracked(bs)) >= max_tracked /\ bs[name] = NoBucket
    THEN [n \in Accounts |-> NoBucket]
    ELSE bs

\* Before a new name is tracked at the cap, drop the buckets that are over.
Evict(bs, name, at) ==
    IF Cardinality(Tracked(bs)) >= max_tracked /\ bs[name] = NoBucket
    THEN [n \in Accounts |-> IF bs[n] # NoBucket /\ Over(bs[n], at) THEN NoBucket ELSE bs[n]]
    ELSE bs

\* The name's bucket after entry-or-insert and the reset of an elapsed window.
Current(b, at) ==
    IF b = NoBucket \/ Over(b, at) THEN [attempts |-> 0, window_start |-> at] ELSE b

Counted(b) == IF b.attempts < max_attempts THEN [b EXCEPT !.attempts = @ + 1] ELSE b

\* A slip: the limit is not compared with.
AllowedAlways(b) == TRUE

Allowed(b) == b.attempts < max_attempts

ReadClock(t, n) ==
    /\ phase[t] = "idle"
    /\ login' = [login EXCEPT ![t] = [name |-> n, at |-> now]]
    /\ phase' = [phase EXCEPT ![t] = "waiting"]
    /\ UNCHANGED <<buckets, ideal, now, answer, passed, late>>

Check(t) ==
    LET n   == login[t].name
        at  == login[t].at
        bs  == Evict(buckets, n, at)
        b   == Current(bs[n], at)
        ib  == Current(ideal[n], at)
    IN  /\ phase[t] = "waiting"
        /\ buckets' = [bs EXCEPT ![n] = Counted(b)]
        /\ ideal' = [ideal EXCEPT ![n] = Counted(ib)]
        /\ answer' = [got |-> Allowed(b), want |-> Allowed(ib)]
        /\ passed' = IF Allowed(b) THEN [passed EXCEPT ![n] = Append(@, now)] ELSE passed
        /\ late' = (late \/ at < now)
        /\ phase' = [phase EXCEPT ![t] = IF Allowed(b) THEN "verifying" ELSE "idle"]
        /\ login' = IF Allowed(b) THEN login ELSE [login EXCEPT ![t] = NoLogin]
        /\ UNCHANGED now

-----------------------------------------------------------------------------
(* The rest of `login`.                                                    *)

WrongPassword(t) ==
    /\ phase[t] = "verifying"
    /\ phase' = [phase EXCEPT ![t] = "idle"]
    /\ login' = [login EXCEPT ![t] = NoLogin]
    /\ UNCHANGED <<buckets, ideal, now, answer, passed, late>>

\* reset: the bucket is removed, with what concurrent logins have counted.
Success(t) ==
    LET n == login[t].name
    IN  /\ phase[t] = "verifying"
        /\ buckets' = [buckets EXCEPT ![n] = NoBucket]
        /\ ideal' = [ideal EXCEPT ![n] = NoBucket]
        /\ passed' = [passed EXCEPT ![n] = << >>]
        /\ phase' = [phase EXCEPT ![t] = "idle"]
        /\ login' = [login EXCEPT ![t] = NoLogin]
        /\ UNCHANGED <<now, answer, late>>

LimiterNext ==
    \/ \E t \in Logins :
        \/ \E n \in Accounts : ReadClock(t, n)
        \/ Check(t) \/ WrongPassword(t) \/ Success(t)
    \/ Tick

LimiterSpec == LimiterInit /\ [][LimiterNext]_limiterVars

-----------------------------------------------------------------------------
(* Properties.                                                             *)

\* Brute force: between two successes, no interval of the length of the window
\* lets more than two windows' attempts of one name through, however its
\* bucket was reset, evicted and begun anew, while clock readings are fresh.
BurstBounded ==
    /\ LimiterTypeOK
    /\ ~ late =>
        \A n \in Accounts : \A i \in 1..Len(passed[n]) :
            i + 2 * max_attempts <= Len(passed[n]) =>
                passed[n][i] + window <= passed[n][i + 2 * max_attempts]

\* "they'd reset on next use anyway, so eviction changes no live limiting
\* decision" (auth/ratelimit.rs): the limiter with the cap answers every call
\* as the one without it, up to the first call whose clock reading was older
\* than the tick at which it got the mutex.
EvictionInvisible == ~ late => answer.got = answer.want
=============================================================================
