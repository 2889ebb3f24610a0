SPECIFICATION Spec
CONSTANTS
    Keys = {k1, k2}
    Names = {admin}
    Times <- MCTimes
    MaxTime = 1
    Grace = 1
    None = None
    Clients = {c1, c2}
    Persister = persister
    Faults = TRUE
SYMMETRY Symmetry
INVARIANTS RevocationHonoured ReadersSeeDurable
PROPERTIES Implements OnlyDeadCapabilitiesLeave PrunedStaysGone LastUsedNeverGoesBack
