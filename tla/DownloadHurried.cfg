\* Any interleaving of calls, updates and failures, the network lost and regained
CONSTANTS
    Chunks = 1
    Paths = {p1}
    Operations = {"Start", "Pause", "Finalize", "Abort"}
    HasMcc = FALSE
    Fallback = "custom"
    Unhurried = FALSE
    PlainServer = FALSE
    FileFaults = TRUE
    SendErrors = FALSE
    MaxCalls = 3
    MaxFailures = 2
    MaxNetFlips = 2
    MaxNoProgress = 1
SPECIFICATION Spec
INVARIANTS
    EveryPieceIsCounted
    EndedIsQuiet
PROPERTIES
    CallsReturn
    LeavesTransferring
CHECK_DEADLOCK FALSE
