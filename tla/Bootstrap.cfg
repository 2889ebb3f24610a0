SPECIFICATION BootstrapSpec
CONSTANTS
    Keys = {k1}
    Names = {a}
    Times <- MCTimes
    MaxTime = 2
    Grace = 1
    None = None
    MaxCodes = 4
    MAX_ATTEMPTS = 2
    TTL = 2
INVARIANTS SomeWayIn ClaimedOnce GuessesBounded
PROPERTIES OnlyFreshCodesOpen
