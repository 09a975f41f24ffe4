SPECIFICATION Spec
CONSTANTS
    FacingId = {"f1", "f2", "f9"}
    EventId = {"scan", "frame", "pass"}
    Retailer = {"r1", "r2"}
    Onboarded <- OneFacing
    OpenedAt = 1
    InitialState = {"in_stock"}
    Handler = {"h1", "h2"}
    Batches <- Racing
    Clock = {6, 7}
    MaxCrashes = 1
INVARIANTS
    HistoriesWellFormed
    NoCallThrows
    AnswersMatchLedger
