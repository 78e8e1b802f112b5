CHECK_DEADLOCK FALSE
CONSTANTS
    MaxEvents = 2
    MaxAttempts = 2
SPECIFICATION FairSpec
PROPERTY EndedTurnEndsStream
