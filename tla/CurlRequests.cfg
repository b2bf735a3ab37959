CONSTANTS
    Handles = {h1, h2, h3}
    None = None
SPECIFICATION Spec
INVARIANTS
    OnlyOpenRequestsRun
    SleepsOnlyWhenIdle
PROPERTIES
    RemoveReturns
    DestructorEnds
CHECK_DEADLOCK FALSE
