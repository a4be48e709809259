\* No process ends, and a Head is copied in one access.
CONSTANTS
    N = 2
    LapMod = 5
    WideCopies = {TRUE}
    MaxWrites = 4
    MaxCrashes = 0
SPECIFICATION Spec
INVARIANT ReaderStaysInData
CHECK_DEADLOCK FALSE
