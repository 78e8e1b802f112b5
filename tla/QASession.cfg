\* A deleted session stops.
CHECK_DEADLOCK FALSE
CONSTANTS
    Requests = {r1}
    SeedIds = {s1, s2}
    DraftIds = {d1, d2}
    None = None
SPECIFICATION Spec
INVARIANTS
    TypeOK
    LiveDraftSetShown
    DraftsOfLockedSeeds
    SelectionBehindScreen
    ResultIsSettled
    SeedsNeedLockedPlan
PROPERTIES
    KeepsReview
SYMMETRY Symmetry
VIEW View
