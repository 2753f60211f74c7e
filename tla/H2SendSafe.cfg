SPECIFICATION Spec
CONSTANTS
    Streams = {s1, s2}
    ConnInit = 2
    InitWindows = {0, 2}
    MaxWindow = 2
    Increments = {2}
    ConnGrant = 2
    StreamGrant = 2
    MaxSendBuf = 2
    MaxFrame = 1
    BurstFrames = 1
    Scenarios <- SafeScenes
SYMMETRY Sym
VIEW View
CHECK_DEADLOCK FALSE
INVARIANTS SendLedgers QueuesMatchFlags NoLostWakeup
