SPECIFICATION Spec
CONSTANTS
    Bms = {1, 2}
    Inv = {1, 2, 3}
    Webs = {80, 81}
    Ssids = {1, 2}
    Bridge = Bridge
    Forward = Forward
    Modes <- MCModes
    Valid <- MCValid
    Default <- MCDefault
    Posts <- MCPosts
    Absent = Absent
    MaxRetry = 1
    MaxPosts = 2
    MaxFaults = 3
INVARIANTS OneApplier RouteSettles SettingsAreValid RebootKeepsSettings
PROPERTY SavedIsApplied
CHECK_DEADLOCK FALSE
