\* Two TCP peers, three requests between them, and a server that may die.
SPECIFICATION Spec
CONSTANTS
    TcpConns = {t1, t2}
    WsConns = {}
    Rooms = {main, side}
    Main = main
    Ids = {i1, i2}
    NoId = NoId
    MaxRequests = 3
    ServerMayFail = TRUE
    Quitters = {t1, t2}
SYMMETRY IdSymmetry
CHECK_DEADLOCK FALSE
INVARIANTS
    TypeOK
    RoomMembersRegistered
    OneRoomEach
    SpokenInOwnRoom
    RepliesMatch
    ListSeesJoins
