\* Two clients, a name and two lines each; one line per tick; an address may come
\* back before its old peer is dropped.
SPECIFICATION FairSpec
CONSTANTS
    Conns = {c1, c2}
    Addrs = {a1, a2}
    Talkers = {c1}
    Leavers = {c1, c2}
    NoAddr = NoAddr
    LinesPerTick = 1
    MaxLines = 3
    SockCap = 1
    AddressReuse = TRUE
CHECK_DEADLOCK FALSE
PROPERTIES LinesMoveOn LeaversAreDropped
