SPECIFICATION LiveSpec
CONSTANTS
    Tasks = {t1, t2}
    None = None
    MaxStrays = 0
    Scenarios = {{"close", "detach", "asyncBody", "bodyError"}}
PROPERTIES ClosedEnds
