\* Three requests of any kind, read in pieces of any size
CONSTANTS
    Capacity = 13
    MaxRequests = 3
    Requests <- SmallRequests
SPECIFICATION Spec
INVARIANTS
    SplitsDoNotMatter
    RequestIsHandedOver
PROPERTIES
    ExchangeEnds
CHECK_DEADLOCK FALSE
