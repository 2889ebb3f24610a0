SPECIFICATION LimiterSpec
CONSTANTS
    Logins = {t1, t2}
    Accounts = {a, b}
    max_attempts = 2
    window = 2
    max_tracked = 1
    MaxTime = 3
    NoBucket = NoBucket
SYMMETRY Symmetry
INVARIANTS BurstBounded EvictionInvisible
