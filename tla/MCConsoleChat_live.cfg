\* Two users and a line; one of them may leave, or be cut off and come back.
SPECIFICATION FairSpec
CONSTANTS
    TcpConns = {c1, c2}
    WsConns = {}
    Rooms = {main, side}
    Main = main
    Ids = {i1, i2}
    NoId = NoId
    MaxRequests = 1
    Typists = {c1, c2}
    Quitters = {c1}
CHECK_DEADLOCK FALSE
PROPERTIES EndsTogether QuestionsAreAnswered
