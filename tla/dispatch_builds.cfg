SPECIFICATION Spec
CONSTANTS
    Documents = {d1, d2}
    MaxPending = 1
    ControlCapacity = 1
    BulkCapacity = 2
    MaxSequence = 1
    Configs = {0}
    ReadsFail = FALSE
    MaxRequest = 5
    EventCapacity = 2
    Kinds = {"hello", "assemble", "decode", "cancel_assembly", "shutdown"}
    Faults = {}
SYMMETRY DocumentSymmetry
INVARIANTS ExactlyOneReply ReservationHeld
PROPERTY ImplementsService
