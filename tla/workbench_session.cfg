SPECIFICATION FairSpec
CONSTANTS
    Actions = {"load", "run", "reset", "close", "inspect", "record", "trace"}
    MaxCalls = 4
    MaxFlight = 2
    MaxSequence = 3
    MaxConnections = 2
    WorkerFails = TRUE
INVARIANTS SubscribedWhenSettled CreditKept ShownIsOfWorker
PROPERTIES SnapshotAdvances TraceIsLatest ControlsEnd
CHECK_DEADLOCK FALSE
