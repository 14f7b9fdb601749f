SPECIFICATION Spec
CONSTANTS
    Pages = {p1, p2}
    Textures = {t1}
    CompletedCapacity = 2
    DisplayedCapacity = 2
    NoPage = NoPage
    FlipWhileBuilding = TRUE
    UpdateLimit = 3
INVARIANTS
    RejectedIsGone
CHECK_DEADLOCK FALSE
