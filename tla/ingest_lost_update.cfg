SPECIFICATION Spec
CONSTANTS
    FacingId = {"f1", "f2", "f9"}
    EventId = {"scan", "frame", "pass"}
    Retailer = {"r1", "r2"}
    Onboarded <- OneFacing
    OpenedAt = 1
    InitialState = {"unknown"}
    Handler = {"h1", "h2"}
    Batches <- Racing
    Clock = {6}
    MaxCrashes = 0
PROPERTY AppendOnly
