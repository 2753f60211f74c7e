SPECIFICATION LiveSpec
CONSTANTS
    Streams = {s1, s2}
    ConnInit = 2
    InitWindows = {0, 2}
    MaxWindow = 2
    Increments = {2}
    ConnGrant = 2
    StreamGrant = 2
    MaxSendBuf = 2
    MaxFrame = 1
    BurstFrames = 1
    Scenarios <- LiveScenes
CHECK_DEADLOCK FALSE
PROPERTIES SenderProgress
