SPECIFICATION Spec
CONSTANTS
    Sources = {blank, a, b}
    Blank = blank
    Oversized = {b}
    Settings = {"s0", "typing"}
    Unfinished = {"typing"}
    Overlong = {"typing"}
    Place <- MCPlace
    LastRevision = 1
    MaxIds = 2
    MaxOpen = 2
    Calls <- MCCalls
    Outputs <- MCOutputs
    Strange <- MCStrange
    MaxControl = 2
    MaxBinary = 2
    MaxObject = 3
    CallLimit = 11
    MaxMessages = 2
    Capacity = 2
    Top = 8
    Page = 2
    MaxMapped = 6
    MaxRegions = 3
    MaxHeaders = 3
    FileLimit = 4
    Alignment = 2
    Headers <- MCHeaders
    Entries <- MCEntries
    Raws <- MCRaws
    Additions <- MCAdditions
SYMMETRY TextSymmetry
CHECK_DEADLOCK FALSE
INVARIANTS ShownIsOfSource Recoverable CodecsAgree LegalAccepted PlanIsImage
PROPERTY ImplementsConduit
