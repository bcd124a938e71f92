SPECIFICATION Spec
CONSTANTS
    Routes <- McRoutes
    Stale = 2
    MaxPause = 1
    Alive = {TRUE, FALSE}
    MaxPosts = 2
INVARIANTS
    ToldIsRecent
    SettledIsOwn
PROPERTY
    LivingIsTold
