SPECIFICATION Spec
CONSTANTS
    Employee = {"e"}
    Gap = {1, 2}
    DepartmentOf <- MCDepartmentOf
    Worked = {1}
    MaxTime = 2
    Cuts <- MCCuts
    MaxReopens = 1
    Facing = {1, 2}
    AisleOf <- MCAisleOf
    Retained <- MCRetained
    Scopes <- MCScopes
    Formats = {"application/json", "text/csv"}
    MaxAt = 1
    MaxEvents = 2
    MaxEntries = 2
    MaxSeals = 2
    PageLimit = 1
    Panels <- MCPanels
    Views = {"last_day", "today"}
    QueueIds = {1, 2}
    Filters = {"all", "unassigned"}
    Orders = {"by_priority"}
    MaxAttempts = 2
    MaxRequests = 2
    MaxChanges = 2
INVARIANTS
    RecordTellsTheTask
    LoopReportsAddUp
    ManifestVouchesForItsBody
    ClosedPeriodsSealAlike
    PagesCoverEachOnce
    ShowsWhatIsAsked
PROPERTY RequestsSettle
\* The system may stop: once no request is in flight the screen waits for its user.
CHECK_DEADLOCK FALSE
