SPECIFICATION Spec
CONSTANTS
    FacingId = {"f1", "f2", "f9"}
    EventId = {"e1","e2","e3"}
    Retailer = {"r1", "r2"}
    Onboarded <- OneFacing
    OpenedAt = 1
    InitialState = {"unknown"}
    Handler = {"h1"}
    Batches <- AnyArrival
    Clock = {6}
    MaxCrashes = 0
INVARIANT OrderedByOccurrence
