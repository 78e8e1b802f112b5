CONSTANTS
    NumRuns = 2
    Limit = 1
    Broken = {}
    Watched = {1}
    Clients = {c1}
    Results = {"SUCCESS"}
    MaxRequests = 1
    MaxFaults = 1
SPECIFICATION FairSpec
INVARIANTS
    TypeOK
    EndIsTrue
PROPERTIES
    EndIsKept
    BuildStaysKnown
    SettledStays
    Settles
CHECK_DEADLOCK FALSE
