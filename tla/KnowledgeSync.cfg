CONSTANTS
    Procs = {p1, p2}
    Handlers = {h1, h2}
    MaxChanges = 3
    MaxFaults = 1
SPECIFICATION FairSpec
INVARIANTS
    TypeOK
    PendingExact
    IndexFollows
PROPERTY KeysAreFreed
CHECK_DEADLOCK FALSE
