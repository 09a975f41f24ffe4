SPECIFICATION FairSpec
CONSTANTS
    Topic = {"r1", "stray"}
    Retailer = {"r1", "r2"}
    EventId = {"a", "b", "c", "no such facing"}
    BoundTo <- MCBoundTo
    Log <- MCLog
    Refused <- MCRefused
    MaxFailures = 2
INVARIANTS
    NothingLost
    NeverBoth
    SourcesAgree
PROPERTIES
    EventuallyDrained
