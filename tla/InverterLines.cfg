SPECIFICATION Spec
CONSTANTS
    Lines = {"pylon", "growatt"}
    Sizes <- PylonSizes
    MaxTime = 6
    Adrs = {2}
    PairWindow = 1
    PylonStale = 2
    MaxDelay = 1
    Patience = 2
    MaxToggles = 2
    Stale = 1
    Chunk = 3
    QueueMax = 2
    Batteries <- Dialects
    Routes = {"can", "model"}
    Harms = {"foreign", "write", "lost", "noise"}
    MaxRequests = 2
    MaxFaults = 1
INVARIANTS
    TypeOK
    ToldIsRight
    HeardIsAnswered
PROPERTY
    SilentIsNotTold
CHECK_DEADLOCK FALSE
