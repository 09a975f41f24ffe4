SPECIFICATION FairSpec
CONSTANTS
    Task = {"t1", "t2"}
    Facing = {"f1", "f2"}
    Tag = {"g1", "g2", "g3"}
    Worklists <- MCWorklists
    Handled = {"t1"}
    Handler = {"h1", "h2"}
    SharedFacing = FALSE
    FacingOf <- MCFacingOf
    LaneOf <- MCLaneOf
    FirstTag <- MCFirstTag
    ModelOf <- MCModelOf
    Fleet <- MCFleet
    Deployments <- MCDeployments
    BindingStates = {"ok", "offline", "none"}
    Outcomes = {"applied", "queued", "refused"}
    MayCutShort = TRUE
    MaxEvents = 3
    Horizon = 2
INVARIANTS
    AnswersMatchAcks
    LeasedAhead
    IndexNeverDangles
PROPERTIES
    FinishedWorkGoesDark
\* The system may stop: no call is due once the horizon has passed and all is dark.
CHECK_DEADLOCK FALSE
