SPECIFICATION FairParts
CONSTANTS
    Cells = 2
    Bytes = {"wide", "rep", "odd"}
    Wide = {"wide"}
    Repeating = {"rep"}
    Unsupported = {"odd"}
    Modes = {"m0", "m1"}
    Executable = {0, 1}
    Writable = {1}
    Image <- MCImage
    Entry = 0
    EntryMode = "m0"
    Points = {1, 2}
    Covers <- MCCovers
    CacheLimit = 2
    DispatchLimit = 2
    WatchLimit = 2
    LastUnit = 3
    Regions <- MCRegions
    LastGeneration = 1
    Byte = 1
    Temps <- MCTemps
    Blocks <- MCBlocks
    States <- MCStates
    Gprs = {"g0", "g1"}
    HighBytes = {"g0"}
    Values <- MCValues
    Widths = {0, 1, 16, 24, 32, 128, 256}
    Lanes = {0, 1, 15}
    Lengths <- MCLengths
    Assignments <- MCAssignments
    MaxEdits = 2
CHECK_DEADLOCK FALSE
INVARIANTS RunsCurrentCode UnitsOwned WatchedAccessStops StepIsAdmissible BlocksAreLowered
PROPERTIES ResetAllOrNothing ExecuteReturns EditsAreExact
