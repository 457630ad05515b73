SPECIFICATION Spec
CONSTANTS
    Actions = {"inspect"}
    MaxCalls = 6
    MaxFlight = 3
    MaxSequence = 3
    MaxConnections = 2
    WorkerFails = TRUE
INVARIANTS CreditAccepted
CHECK_DEADLOCK FALSE
