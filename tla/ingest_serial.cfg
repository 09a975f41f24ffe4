SPECIFICATION Spec
CONSTANTS
    FacingId = {"f1", "f2", "f9"}
    EventId = {"bay", "scan", "walk", "lost", "old", "mis", "sweep"}
    Retailer = {"r1", "r2"}
    Onboarded <- MCOnboarded
    OpenedAt = 1
    InitialState = {"unknown"}
    Handler = {"h1"}
    Batches <- DistinctInstants
    Clock = {6}
    MaxCrashes = 2
INVARIANTS
    AcceptedIsApplied
    NeverHalfApplied
    ReplayIsNoOp
PROPERTIES
    AppendOnly
