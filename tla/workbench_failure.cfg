SPECIFICATION Spec
CONSTANTS
    Actions = {"load"}
    MaxCalls = 4
    MaxFlight = 2
    MaxSequence = 4
    MaxConnections = 1
    WorkerFails = TRUE
INVARIANTS DeadWorkerLosesMachine
CHECK_DEADLOCK FALSE
