\* Calls wait for pending updates, the network is stable, a cache may be used
CONSTANTS
    Chunks = 2
    Paths = {p1}
    Operations = {"Start", "Pause", "Finalize", "Abort", "SetUri", "SetPath", "GetStatus"}
    HasMcc = TRUE
    Fallback = "delay"
    Unhurried = TRUE
    PlainServer = TRUE
    FileFaults = FALSE
    SendErrors = FALSE
    MaxCalls = 4
    MaxFailures = 2
    MaxNetFlips = 0
    MaxNoProgress = 2
SPECIFICATION Spec
INVARIANTS
    FileIsPrefix
    PausedIsQuiet
    OneRequestAtATime
PROPERTIES
    ImplementsLifecycle
    ForeignFilesSurvive
CHECK_DEADLOCK FALSE
