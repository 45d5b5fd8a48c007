\* The heartbeat with the code's times in seconds, and pings as late as they may be
\* for a peer that is kept: Period + TcpDelay = Timeout, WsInterval + WsDelay = Timeout.
\* The codec with bytes of two values: a length holds up to three.  Texts below, at
\* and above that limit, in pieces of any size.
\* Slices of up to four elements of four values; a stack of three.
\* Five bytes to echo; five connections to count.
SPECIFICATION FairSpec
CONSTANTS
    TcpInterval = 1
    WsInterval = 5
    Timeout = 10
    Period = 1
    TcpDelay = 9
    WsDelay = 5
    Base = 2
    Lengths = {1, 3, 4, 5, 7}
    MaxMessages = 3
    Values = {1, 2}
    MaxDepth = 3
    None = None
    Keys = {1, 2, 3, 4}
    MaxSlice = 4
    MaxBytes = 5
    MaxConns = 5
CHECK_DEADLOCK FALSE
INVARIANTS SilentAtMost PunctualIsKept DecodedAsSent OnlyOversizeFails OwnBytesOnly CountsTheLive
PROPERTIES SilentIsDropped AllDecoded ImplementsStackWithMin Sorts LinesAreAnswered
