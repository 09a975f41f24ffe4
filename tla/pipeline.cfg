SPECIFICATION FairPipelineSpec
CONSTANTS
    FacingId = {"f1", "f2", "f3", "f9"}
    EventId = {"pass", "lost", "scan"}
    Retailer = {"r1", "r2"}
    Onboarded <- MCOnboarded
    OpenedAt = 1
    InitialState = {"unknown"}
    Topic = {"arpalus", "scans"}
    Handler = {"arpalus", "scans"}
    BoundTo <- MCBoundTo
    Log <- MCLog
    EventOf <- MCEventOf
    Batches <- BatchesOfTopics
    Clock = {6}
    MaxCrashes = 2
INVARIANT
    CommittedIsApplied
PROPERTIES
    KeepsPortContract
    PipelineDrains
