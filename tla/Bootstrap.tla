------------------------------ MODULE Bootstrap ------------------------------
(***************************************************************************)
(* auth/bootstrap.rs (BootstrapState), its caller bootstrap_claim in       *)
(* api/auth_methods.rs, the start of `run` and `reset_admin` in lib.rs.    *)
(*                                                                         *)
(* On an empty store the daemon writes a one-time code to a file; whoever  *)
(* can read the file claims the first administrator with it.  A claim      *)
(* holds the bootstrap mutex through two writes of the identity store, and *)
(* the process may die between them.  `reset-admin` is another process: it *)
(* reads identity.json, writes it back without accounts and writes a new   *)
(* code, whether or not the daemon runs.                                   *)
(*                                                                         *)
(* The identity store is the atomic one IdentityStore implements, with the *)
(* daemon's copy (`mem`) and the file (`file`) apart because reset-admin   *)
(* changes only the file.  A code is a number: the n-th one generated.     *)
(***************************************************************************)
EXTENDS IdentitySnapshot

CONSTANTS
    MaxCodes,     \* bound: codes generated in one behaviour
    MAX_ATTEMPTS, \* wrong codes before the code is regenerated
    TTL           \* DEFAULT_TTL_SECS

ASSUME BootstrapAssumption ==
    MaxCodes \in Nat \ {0} /\ MAX_ATTEMPTS \in Nat \ {0} /\ TTL \in Nat \ {0}

Codes == 1..MaxCodes

\* A code nobody generated: what a caller who cannot read the file submits.
WrongCode == 0

VARIABLES
    mem,       \* the daemon's FileStore snapshot
    file,      \* identity.json
    boot,      \* BootstrapState
    code_file, \* content of bootstrap.code: a code or None
    claim,     \* the claim that holds the bootstrap mutex past the code check, or None
    cli,       \* what reset-admin has read of identity.json, or None
    clock,     \* now_secs()
    generated, \* number of codes generated so far
    wrong,     \* history: wrong submissions against each code
    born,      \* history: when each code was generated
    claimed,   \* history: a claim succeeded and the store was not empty since at a start
    reset      \* history: "no" reset-admin yet, "done", "restarted" after it

bootstrapVars ==
    <<mem, file, boot, code_file, claim, cli, clock, generated, wrong, born, claimed, reset>>
history == <<wrong, born, claimed, reset>>

Disabled == [mode |-> "Disabled"]
Active(c, attempts, start) ==
    [mode |-> "Active", code |-> c, attempts |-> attempts, window_start |-> start]

States == {Disabled}
            \cup [mode : {"Active"}, code : Codes, attempts : Nat, window_start : Times]

Claims == [name : Names, code : Codes, stage : {"add_account", "add_capability", "finish"}]

BootstrapTypeOK ==
    /\ mem \in Snapshot
    /\ file \in Snapshot
    /\ boot \in States
    /\ code_file \in Codes \cup {None}
    /\ claim \in Claims \cup {None}
    /\ cli \in Snapshot \cup {None}
    /\ clock \in Times
    /\ generated \in 0..MaxCodes
    /\ wrong \in [Codes -> Nat]
    /\ born \in [Codes -> Times]
    /\ claimed \in BOOLEAN
    /\ reset \in {"no", "done", "restarted"}

-----------------------------------------------------------------------------
(* Codes and their file.                                                   *)

\* generate_code: n codes drawn at once leave `generated` n higher.
Generate(n) ==
    /\ generated + n <= MaxCodes
    /\ generated' = generated + n
    /\ born' = [c \in Codes |-> IF c \in generated + 1 .. generated + n THEN clock ELSE born[c]]

\* write_code is best effort: it may fail before it opens the file, or after
\* opening has truncated it.
WriteCode(c) == code_file' \in {c, code_file, None}

\* BootstrapState::begin, on the store that was just opened.
Begin(store) ==
    IF IsEmpty(store)
    THEN /\ Generate(1)
         /\ boot' = Active(generated', 0, clock)
         /\ WriteCode(generated')
    ELSE /\ boot' = Disabled
         /\ UNCHANGED <<generated, born, code_file>>

BootstrapInit ==
    /\ mem = EmptySnapshot /\ file = EmptySnapshot
    /\ clock = 0
    /\ generated = 1
    /\ boot = Active(1, 0, 0)
    /\ code_file \in {1, None}
    /\ claim = None /\ cli = None
    /\ wrong = [c \in Codes |-> 0]
    /\ born = [c \in Codes |-> 0]
    /\ claimed = FALSE /\ reset = "no"

\* The daemon dies or is stopped at any point, and `run` starts it again.
Restart ==
    /\ mem' = file
    /\ Begin(file)
    /\ claim' = None
    /\ claimed' = (claimed /\ ~ IsEmpty(file))
    /\ reset' = IF reset = "done" THEN "restarted" ELSE reset
    /\ UNCHANGED <<file, cli, clock, wrong>>

BootstrapTick ==
    /\ clock + 1 \in Times
    /\ clock' = clock + 1
    /\ UNCHANGED <<mem, file, boot, code_file, claim, cli, generated, history>>

-----------------------------------------------------------------------------
(* BootstrapState::claim, under the bootstrap mutex.                       *)

\* A slip: the last second of the window counts twice.
WindowElapsedLate == clock - boot.window_start > TTL

WindowElapsed == clock - boot.window_start >= TTL

\* The code and the attempts the submission is compared with: an elapsed
\* window has just replaced the code.
CurrentCode == IF WindowElapsed THEN generated + 1 ELSE boot.code

\* A slip: the count of wrong codes is not carried over.
AttemptsForgotten == 0

CurrentAttempts == IF WindowElapsed THEN 0 ELSE boot.attempts
CurrentStart == IF WindowElapsed THEN clock ELSE boot.window_start
Renewed == IF WindowElapsed THEN 1 ELSE 0

WrongSubmission ==
    wrong' = [wrong EXCEPT ![CurrentCode] = @ + 1]

\* A code that does not match, below the limit: BadCode.
ClaimBadCode(c) ==
    /\ claim = None /\ boot.mode = "Active"
    /\ c # CurrentCode
    /\ CurrentAttempts + 1 < MAX_ATTEMPTS
    /\ Generate(Renewed)
    /\ boot' = Active(CurrentCode, CurrentAttempts + 1, CurrentStart)
    /\ IF WindowElapsed THEN WriteCode(CurrentCode) ELSE UNCHANGED code_file
    /\ WrongSubmission
    /\ UNCHANGED <<mem, file, claim, cli, clock, claimed, reset>>

\* The last permitted wrong code: the code is regenerated, RateLimited.
ClaimRateLimited(c) ==
    /\ claim = None /\ boot.mode = "Active"
    /\ c # CurrentCode
    /\ CurrentAttempts + 1 >= MAX_ATTEMPTS
    /\ Generate(Renewed + 1)
    /\ boot' = Active(generated', 0, clock)
    /\ WriteCode(generated')
    /\ WrongSubmission
    /\ UNCHANGED <<mem, file, claim, cli, clock, claimed, reset>>

\* The code matches: the claim goes on to its two writes.
ClaimMatches(c, n) ==
    /\ claim = None /\ boot.mode = "Active"
    /\ c = CurrentCode
    /\ Generate(Renewed)
    /\ boot' = Active(CurrentCode, CurrentAttempts, CurrentStart)
    /\ IF WindowElapsed THEN WriteCode(CurrentCode) ELSE UNCHANGED code_file
    /\ claim' = [name |-> n, code |-> c, stage |-> "add_account"]
    /\ UNCHANGED <<mem, file, cli, clock, wrong, claimed, reset>>

\* A successful store mutation: file, then memory.
Store(s) == file' = s /\ mem' = s

\* A slip: the capability is stored first.
ClaimAddsCapabilityFirst ==
    /\ claim # None /\ claim.stage = "add_account"
    /\ \E k \in Keys : ~ Present(mem, k) /\ Store(AddCapability(mem, k, None))
    /\ claim' = [claim EXCEPT !.stage = "add_capability"]
    /\ UNCHANGED <<boot, code_file, cli, clock, generated, history>>

ClaimAddAccount ==
    /\ claim # None /\ claim.stage = "add_account"
    /\ Store(AddAccount(mem, claim.name))
    /\ claim' = [claim EXCEPT !.stage = "add_capability"]
    /\ UNCHANGED <<boot, code_file, cli, clock, generated, history>>

ClaimAddCapability ==
    /\ claim # None /\ claim.stage = "add_capability"
    /\ \E k \in Keys : ~ Present(mem, k) /\ Store(AddCapability(mem, k, None))
    /\ claim' = [claim EXCEPT !.stage = "finish"]
    /\ UNCHANGED <<boot, code_file, cli, clock, generated, history>>

\* hash_password or a store write fails: the error is returned, still Active.
ClaimFails ==
    /\ claim # None /\ claim.stage \in {"add_account", "add_capability"}
    /\ claim' = None
    /\ UNCHANGED <<mem, file, boot, code_file, cli, clock, generated, history>>

\* A slip: the state stays Active.
ClaimLeavesOpen ==
    /\ claim # None /\ claim.stage = "finish"
    /\ code_file' \in {None, code_file}
    /\ claim' = None
    /\ claimed' = TRUE
    /\ UNCHANGED <<mem, file, boot, cli, clock, generated, wrong, born, reset>>

\* Best-effort removal of the file, Disabled, the token to the caller.
ClaimSucceeds ==
    /\ claim # None /\ claim.stage = "finish"
    /\ code_file' \in {None, code_file}
    /\ boot' = Disabled
    /\ claim' = None
    /\ claimed' = TRUE
    /\ UNCHANGED <<mem, file, cli, clock, generated, wrong, born, reset>>

Claim ==
    \/ \E c \in {WrongCode} \cup 1..generated :
        ClaimBadCode(c) \/ ClaimRateLimited(c) \/ \E n \in Names : ClaimMatches(c, n)
    \/ ClaimAddAccount \/ ClaimAddCapability \/ ClaimFails \/ ClaimSucceeds

-----------------------------------------------------------------------------
(* What else the daemon writes to the store: each write replaces the whole *)
(* file with its own copy.                                                 *)

Login ==
    /\ mem.accounts # {}
    /\ \E k \in Keys : ~ Present(mem, k) /\ Store(AddCapability(mem, k, None))
    /\ UNCHANGED <<boot, code_file, claim, cli, clock, generated, history>>

TokenRevoke(k) ==
    /\ Present(mem, k)
    /\ Store(RevokeCapability(mem, k))
    /\ UNCHANGED <<boot, code_file, claim, cli, clock, generated, history>>

Prune ==
    /\ \E k \in Keys : Present(mem, k) /\ Removable(mem.capabilities[k], clock)
    /\ Store(PruneCapabilities(mem, clock))
    /\ UNCHANGED <<boot, code_file, claim, cli, clock, generated, history>>

Daemon == Login \/ (\E k \in Keys : TokenRevoke(k)) \/ Prune

-----------------------------------------------------------------------------
(* reset_admin, in a process of its own.                                   *)

ResetRead ==
    /\ cli = None
    /\ cli' = file
    /\ UNCHANGED <<mem, file, boot, code_file, claim, clock, generated, history>>

\* Overwrite the file with what was read, accounts cleared; write a new code.
ResetWrite ==
    /\ cli # None
    /\ file' = [cli EXCEPT !.accounts = {}]
    /\ Generate(1)
    /\ WriteCode(generated')
    /\ cli' = None
    /\ reset' = "done"
    /\ UNCHANGED <<mem, boot, claim, clock, wrong, claimed>>

ResetAdmin == ResetRead \/ ResetWrite

-----------------------------------------------------------------------------
\* The bound on codes is spent: the model, not the daemon, stops here.
CodesSpent ==
    /\ generated = MaxCodes
    /\ UNCHANGED bootstrapVars

BootstrapNext == Claim \/ Daemon \/ ResetAdmin \/ Restart \/ BootstrapTick \/ CodesSpent

BootstrapSpec == BootstrapInit /\ [][BootstrapNext]_bootstrapVars

-----------------------------------------------------------------------------
(* Properties.                                                             *)

\* Nobody is locked out by a crash or a failed write in the middle of a claim:
\* a daemon that refuses bootstrap has an account somebody can log in to.  (This
\* says nothing of what follows a reset-admin, which takes the accounts away and
\* leaves the capabilities: these keep bootstrap disabled.)
SomeWayIn ==
    reset = "no" /\ boot.mode = "Disabled" => mem.accounts # {}

\* The first administrator is claimed once: after a successful claim no state
\* accepts a code again until a start finds the store empty.  (A claim that fails
\* after add_account did not succeed: its account stays, and so does its code.)
ClaimedOnce == claimed => boot.mode = "Disabled" /\ claim = None

\* Brute force: no code survives MAX_ATTEMPTS wrong submissions, over all
\* windows, regenerations, resets and restarts.
GuessesBounded ==
    /\ BootstrapTypeOK
    /\ \A c \in Codes : wrong[c] <= MAX_ATTEMPTS
    /\ boot.mode = "Active" => wrong[boot.code] < MAX_ATTEMPTS

\* A code is worth nothing once its window is over: a claim that enters its
\* writes does so within TTL seconds of the code's generation.
OnlyFreshCodesOpen ==
    [][claim = None /\ claim' # None => clock - born[claim'.code] < TTL]_bootstrapVars
=============================================================================
