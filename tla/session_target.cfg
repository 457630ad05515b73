SPECIFICATION Spec
CONSTANTS
    Addresses = {a0, a1, a2}
    NoAddress = none
    Entry = a0
    Completion = a2
    Budget = 3
    SliceDispatches = 2
    TraceCapacity = 2
    BreakpointLimit = 1
    MaxGeneration = 1
CHECK_DEADLOCK FALSE
PROPERTY BreakpointReasonRetained
