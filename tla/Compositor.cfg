SPECIFICATION Spec
CONSTANTS
    Pages = {p1, p2}
    Textures = {t1, t2}
    CompletedCapacity = 2
    DisplayedCapacity = 1
    NoPage = NoPage
    FlipWhileBuilding = TRUE
    UpdateLimit = 3
INVARIANTS
    RefsBalanced
    FieldIsSealed
SYMMETRY Interchangeable
CHECK_DEADLOCK FALSE
