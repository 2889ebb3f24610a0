SPECIFICATION Spec
CONSTANTS
    MaxBytes = 2
    Generations = 2
    BATCH = 2
    MaxLines = 7
    MaxLives = 2
    Faults = {"write", "rotate", "tear"}
    Missing = Missing
INVARIANTS ChainHolds ErrorsLeaveAMark
