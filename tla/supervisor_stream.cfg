SPECIFICATION Spec
CONSTANTS
    Capacity = 2
    MaxCalls = 4
    MaxViews = 2
    MaxConnections = 1
    MaxSequence = 4
    PipeCapacity = 2
    Kinds = {"load", "run", "subscribe", "unsubscribe", "observe", "reset", "close"}
    Faults = {"channel", "run deadline"}
INVARIANTS DeliveredToOwner WindowCatchesUp InStep
CHECK_DEADLOCK FALSE
