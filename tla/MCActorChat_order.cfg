\* Two TCP peers and two websocket peers in two rooms, and two texts: who hears what,
\* in which order.  Nobody leaves: that only ends what is heard.
SPECIFICATION Spec
CONSTANTS
    TcpConns = {t1, t2}
    WsConns = {w1, w2}
    Rooms = {main, side}
    Main = main
    Ids = {i1, i2, i3, i4}
    NoId = NoId
    MaxRequests = 2
    ServerMayFail = FALSE
    Quitters = {}
SYMMETRY Symmetry
CHECK_DEADLOCK FALSE
INVARIANTS SenderOrder CommonOrder
