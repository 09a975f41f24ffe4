SPECIFICATION MCSpec
CONSTANTS
    Task = {"t1"}
    Required = 3
    Within = 2
    Instants = {1, 2, 3, 4, 5, 6}
    MaxLooks = 5
    Inputs <- MCInputs
    Days <- MCDays
    Wirings <- MCWirings
    MaxRequests = 3
INVARIANTS
    ClosesByTheRule
    MissesNothing
    CountsEveryInstantOnce
    RanksTheGapsThemselves
    LightsSpeakTheLane
    UrgencySurvives
    PilotKeepsApart
    PilotRemembers
    BuildsOnceOrRefuses
