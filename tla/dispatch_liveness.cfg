SPECIFICATION FairSpec
CONSTANTS
    Documents = {d1}
    MaxPending = 1
    ControlCapacity = 1
    BulkCapacity = 1
    MaxSequence = 5
    Configs = {0}
    ReadsFail = TRUE
    MaxRequest = 4
    EventCapacity = 1
    Kinds = {"hello", "assemble", "load", "subscribe", "run", "pause", "shutdown"}
    Faults = {"output", "build"}
PROPERTIES EveryRequestAnswered StopReported
