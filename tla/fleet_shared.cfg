SPECIFICATION Spec
CONSTANTS
    Task = {"t1", "t2"}
    Facing = {"f1"}
    Tag = {"g1"}
    Worklists <- SharedWorklists
    Handled = {}
    Handler = {"h1"}
    SharedFacing = TRUE
    FacingOf <- MCFacingOf
    LaneOf <- MCLaneOf
    FirstTag <- MCFirstTag
    ModelOf <- MCModelOf
    Fleet <- MCFleet
    Deployments <- SteadyDeployments
    BindingStates = {"ok"}
    Outcomes = {"applied"}
    MayCutShort = FALSE
    MaxEvents = 2
    Horizon = 1
INVARIANTS
    CarriedOrRouted
\* The system may stop: no call is due once the horizon has passed and all is dark.
CHECK_DEADLOCK FALSE
