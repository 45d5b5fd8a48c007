\* Two users and three lines between them: two of them may be joins before something is said or
\* asked.  Nobody is cut off: MCConsoleChat_live is about that.
SPECIFICATION Spec
CONSTANTS
    TcpConns = {c1, c2}
    WsConns = {}
    Rooms = {main, side}
    Main = main
    Ids = {i1, i2}
    NoId = NoId
    MaxRequests = 3
    Typists = {c1, c2}
    Quitters = {}
SYMMETRY IdSymmetry
CHECK_DEADLOCK FALSE
INVARIANTS HeardAsTyped AnswersInTurn
