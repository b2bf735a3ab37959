\* Two clients, two requests, one SIGHUP
CONSTANTS
    Clients = {c1, c2}
    MaxRequests = 2
    MaxHangups = 1
SPECIFICATION Spec
INVARIANTS
    CountedCallFindsAgent
    OnlyStragglersMeetTheGone
PROPERTIES
    ShutdownEnds
CHECK_DEADLOCK FALSE
