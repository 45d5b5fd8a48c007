\* Four clients, a name each and a line from two of them, which the other two hear;
\* those may leave as long as not all have come.
SPECIFICATION CrowdSpec
CONSTANTS
    Conns = {c1, c2, c3, c4}
    Addrs = {c1, c2, c3, c4}
    Talkers = {c1, c2}
    Leavers = {c3, c4}
    NoAddr = NoAddr
    LinesPerTick = 1
    MaxLines = 2
    SockCap = 1
    AddressReuse = FALSE
SYMMETRY Symmetry
CHECK_DEADLOCK FALSE
INVARIANTS MapFitsPeers SleepersAreDone SameConversation
