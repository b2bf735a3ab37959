\* Two downloads, with every kind of text for one of them
CONSTANTS
    Ids = {"id1", "id2"}
    Timeouts = {"30"}
    CacheHost <- MCCacheHost
    Numbers <- MCNumbers
    LowerCase <- MCLowerCase
    Creations <- MCCreations
    RawRequests <- MCRawRequests
SPECIFICATION Spec
INVARIANTS
    ArgumentsArrive
PROPERTIES
    FailedCallChangesNothing
CHECK_DEADLOCK FALSE
