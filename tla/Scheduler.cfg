CONSTANTS
    Procs = {p1, p2}
    Desks = {p2}
    None = None
    Orphan = Orphan
    MaxFalls = 2
    MaxClock = 2
    MaxChanges = 2
SPECIFICATION FairSpec
INVARIANTS
    TypeOK
    ServicesAlone
    RunsAlone
PROPERTIES
    TakesOver
    InterruptedIsRecovered
