\* A buffer of two lines, files of two or three, two files kept
CONSTANTS
    BufferSize = 3
    MaxFileSize = 2
    MaxFiles = 2
    MaxLines = 5
    MaxClock = 5
SPECIFICATION Spec
INVARIANTS
    LinesAreInOrder
    RecentLinesAreKept
    SpaceIsBounded
    EverythingIsWritten
CHECK_DEADLOCK FALSE
