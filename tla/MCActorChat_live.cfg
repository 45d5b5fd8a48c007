\* Liveness and refinement, without symmetry: a TCP and a websocket peer, two requests.
SPECIFICATION FairSpec
CONSTANTS
    TcpConns = {t1}
    WsConns = {w1}
    Rooms = {main, side}
    Main = main
    Ids = {i1, i2}
    NoId = NoId
    MaxRequests = 2
    ServerMayFail = TRUE
    Quitters = {t1, w1}
CHECK_DEADLOCK FALSE
PROPERTIES StoppedIsUnregistered WaitEnds TextIsHeard ImplementsRoomChat
