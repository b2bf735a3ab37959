CONSTANTS
    Chunks = 2
    Paths = {p1}
    Operations = {"Start", "Pause"}
    HasMcc = FALSE
    Fallback = "custom"
    Unhurried = FALSE
    PlainServer = TRUE
    FileFaults = FALSE
    SendErrors = FALSE
    MaxCalls = 4
    MaxFailures = 0
    MaxNetFlips = 0
    MaxNoProgress = 2
SPECIFICATION Spec
INVARIANTS
    FileIsPrefix
CHECK_DEADLOCK FALSE
