SPECIFICATION Spec
CONSTANTS
    t1 = t1
    t2 = t2
    t3 = t3
    Tasks = {t1, t2, t3}
    Schedules = {TRUE}
    Limits = {1}
    MaxId = 2
    Environment = {"eof"}
SYMMETRY Sym
CHECK_DEADLOCK FALSE
INVARIANTS
    DeadFailsWaiters
