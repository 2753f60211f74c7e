SPECIFICATION Spec
CONSTANTS
    MaxReq = 2
    Scenarios <- SafeScenarios
CHECK_DEADLOCK FALSE
INVARIANTS OneReader StreamKept ContinueFirst TrueEnds
PROPERTIES NeverCutShort
