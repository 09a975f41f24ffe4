SPECIFICATION Spec
CONSTANTS
    FacingId = {"f1", "f2", "f9"}
    EventId = {"scan","frame"}
    Retailer = {"r1", "r2"}
    Onboarded <- OneFacing
    OpenedAt = 1
    InitialState = {"unknown"}
    Handler = {"h1"}
    Batches <- SameInstant
    Clock = {6}
    MaxCrashes = 1
INVARIANT ReplayIsNoOp
