SPECIFICATION Spec
CONSTANTS
    t1 = t1
    t2 = t2
    t3 = t3
    Tasks = {t1, t2, t3}
    Schedules = {TRUE, FALSE}
    Limits <- AllLimits
    MaxId = 2
    Environment = {"goaway", "eof", "writeError", "cancel", "badHead"}
SYMMETRY Sym
CHECK_DEADLOCK FALSE
INVARIANTS NoStrandedWaiter SlotLedger GoAwayHeeded
PROPERTIES OpensWithinLimit
