SPECIFICATION Spec
CONSTANTS
    MaxBytes = 2
    Generations = 2
    BATCH = 2
    MaxLines = 8
    MaxLives = 0
    Faults = {"rotate"}
    Missing = Missing
INVARIANTS NewestKept
