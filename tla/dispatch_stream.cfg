SPECIFICATION Spec
CONSTANTS
    Documents = {}
    MaxPending = 1
    ControlCapacity = 1
    BulkCapacity = 1
    MaxSequence = 4
    Configs = {0, 1}
    ReadsFail = FALSE
    MaxRequest = 5
    EventCapacity = 1
    Kinds = {"hello", "load", "step", "edit", "reset", "observe", "close", "subscribe", "unsubscribe"}
    Faults = {"input"}
INVARIANTS StreamOrder DeltaDecodable SubscriptionFollowsSession
