\* An application or a plugin with two commands; an agent that is started twice,
\* with the port file of an earlier one
CONSTANTS
    Ports = {50000}
    OldPorts = {50001}
    MaxStarts = 2
    PortReads = 2
    InitTries = 2
    MaxCreated = 2
    MaxCommands = 2
SPECIFICATION AptSpec
INVARIANTS
    OkIsEarned
    EndedIsForgotten
    NoSecondDownload
    AcquireIsAnswered
PROPERTIES
    NoServiceOnlyIfDown
    Returns
CHECK_DEADLOCK FALSE
