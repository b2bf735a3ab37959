\* One tag and one caller, four tasks in all
CONSTANTS
    Tags = {t1}
    Callers = {c1}
    Stop = Stop
    Delays = {0, 2}
    MaxTime = 2
    MaxScheduled = 4
SPECIFICATION Spec
INVARIANTS
    WakesInTime
    OrderIsKept
    CallIsPending
PROPERTIES
    SchedBlockEnds
    DestructorEnds
    ImplementsQueue
CHECK_DEADLOCK FALSE
