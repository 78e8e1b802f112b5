CONSTANTS
    Tabs = {t1, t2, t3}
    None = None
    SlotLimit = 2
    MaxVersion = 3
    MaxClicks = 1
SPECIFICATION Spec
INVARIANTS
    TypeOK
    RunsAsClaimed
    SlotsExact
    StaleIsUpdated
PROPERTIES
    KeepsPromise
    CardMovesForward
SYMMETRY TabSymmetry
