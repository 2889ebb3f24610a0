SPECIFICATION FairSpec
CONSTANTS
    Keys = {k1}
    Names = {admin}
    Times <- MCTimes
    MaxTime = 2
    Grace = 1
    None = None
    Clients = {c1, c2}
    Persister = persister
    Faults = FALSE
PROPERTIES TouchReachesDisk
