SPECIFICATION MCSpec
CONSTANTS
    MAX_LIMIT = 2
    MAX_OUTPUT = 4
    MAX_FOLLOW_LINE = 2
    LongLine = 3
    Packages = 2
    MaxEntries = 4
    MaxOthers = 1
    Lag = 1
    MaxPanics = 1
INVARIANTS AnswersAreWhole NoChildLeft FollowInOrder
PROPERTIES QueryReturns
