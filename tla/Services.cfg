SPECIFICATION MCSpec
CONSTANTS
    u1 = u1
    u2 = u2
    u3 = u3
    Callers = {c1}
    Units = {u1, u2}
    Verbs = {"start", "stop"}
    Ends = {"done", "failed", "dependency"}
    Lag = 1
    MaxJobs = 2
    MaxPanics = 1
    PAGE_SIZE = 1
    Table <- MCTable
    NameOf <- MCNameOf
    Globs <- MCGlobs
INVARIANTS NoLostWakeup OwnJobAnswers FeedTellsTruth PagesTellTheList
PROPERTIES NothingWaitsForEver
