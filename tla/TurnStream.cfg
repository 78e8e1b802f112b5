CHECK_DEADLOCK FALSE
CONSTANTS
    MaxEvents = 2
    MaxAttempts = 2
SPECIFICATION FairSpec
INVARIANTS
    TypeOK
    WaitsForEnd
    ShownEverything
PROPERTIES
    KeepsReport
    WidgetSettles
