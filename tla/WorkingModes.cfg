SPECIFICATION McSpec
CONSTANTS
    ModesToStart <- McModes
    Ids <- McIds
    Short <- McShort
    Limits = {TRUE, FALSE}
    MaxPosts = 2
    Bytes = 6
    PerTick = 2
    FrameMax = 4
    Gap = 2
INVARIANTS
    StartedIsWhole
    OneFrameIsLate
    FramesAreTheMessages
PROPERTY
    InverterFollowsOverride
CHECK_DEADLOCK FALSE
