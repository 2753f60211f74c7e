SPECIFICATION Spec
CONSTANTS
    Fields <- MCFields
    HashOf <- MCHashOf
    Limits <- MCLimits
    Word = 6
    RawCap = 4
    Headers <- MCHeaders
    Lists <- MCLists
    PeerLists <- MCPeerLists
    MaxAllowed = 5
    TableSizes = {2, 4, 6}
    DefaultTable = 5
    FrameSizes = {5, 7}
    DefaultFrame = 5
    MaxList = 8
    ContFloor = 3
    NSends = 2
    NSettings = 3
    NTotal = 4
    Radix = 2
    MaxSize = 7
    MaxLen = 7
    ExtLimit = 4
    MaxHeaders = 2
    MaxTrailer = 9
    MaxBuf = 5
    MaxUri = 2
    Requests <- MCRequests
    Responses <- MCResponses
    ForeignRequests <- MCForeignRequests
    Pipelined <- MCPipelined
    ForeignResponses <- MCForeignResponses
    ConnectNoContent = FALSE
CHECK_DEADLOCK FALSE
INVARIANTS TableValid RoundTrip TablesAgree BodyAgrees EndsAgree FramingOrderFree
PROPERTIES ImplementsFifo
