SPECIFICATION FairSpec
CONSTANTS
    Clients = {c1, c2}
    Packages = {nginx}
    MaxJobs = 4
    RECENT_JOBS_CAPACITY = 2
    Panics = TRUE
INVARIANTS EventsNested OneAtATime StatusTellsTruth
PROPERTIES SlotFreed
