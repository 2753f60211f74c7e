SPECIFICATION LiveSpec
CONSTANTS
    MaxReq = 1
    Scenarios <- LiveScenarios
CHECK_DEADLOCK FALSE
PROPERTIES ConnectionEnds
