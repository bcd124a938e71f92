CONSTANTS
    Configs <- MCConfigs
    Handles = {q1, q2, q3}
    NULL = NULL
    NoConfig = NoConfig
SPECIFICATION Spec
CHECK_DEADLOCK FALSE
INVARIANTS
    DualModelIsPrimary
