\* Three connections from two addresses, two lines, text or not.
SPECIFICATION Spec
CONSTANTS
    Conns = {c1, c2, c3}
    Addrs = {a1, a2}
    NoConn = NoConn
    NoAddr = NoAddr
    MaxLines = 2
    SockCap = 1
CHECK_DEADLOCK FALSE
INVARIANTS HearsTheRoom UnwrapsSucceed
