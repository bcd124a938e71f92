CONSTANTS
    Candidates <- MCCandidates
    Configs = {}
    Handles = {}
    NULL = NULL
    NoConfig = NoConfig
SPECIFICATION Spec
CHECK_DEADLOCK FALSE
INVARIANTS
    SecondBmsPortIsFree
