CONSTANTS
    AdminContents <- Admin
    SdkContents <- Sdk
    Malformed = Malformed
    Missing = Missing
    Origins = {o1, o2}
    RefreshInterval = 2
    BanInterval = 2
    MaxTime = 2
    MaxEdits = 1
    MaxCalls = 2
    MaxHups = 1
    MaxFailures = 2
SYMMETRY OriginsAreAlike
SPECIFICATION Spec
INVARIANTS
    ChangesTakeEffect
PROPERTIES
    BannedHostIsAvoided
    BanIsNotTooWide
CHECK_DEADLOCK FALSE
