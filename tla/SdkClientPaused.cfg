\* Another thread of the client pauses the download that this one waits for
CONSTANTS
    Ports = {50000}
    OldPorts = {50000}
    MaxStarts = 1
    PortReads = 2
    InitTries = 2
    MaxCreated = 1
SPECIFICATION Spec
INVARIANTS
    OkMeansFinalized
CHECK_DEADLOCK FALSE
