SPECIFICATION FairSpec
CONSTANTS
    Task = {"t1", "t2"}
    Raised = {"t1"}
    Employee = {"e1"}
    Required = 2
    Within = 1
    InitialPriority = 2
    Delay = 1
    Lag = 1
    MaxPasses = 3
    MaxBounces = 2
    Horizon = 3
PROPERTIES
    NoLimbo
    ClosesOnEvidence
    ReopensForCause
    BouncesStick
