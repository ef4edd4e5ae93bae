\* The instance of sessions_live: two nodes on a network that never fails.
SPECIFICATION FairSpec
CONSTANTS
    n1 = n1
    n2 = n2
    Node = {n1, n2}
    Conn = {c1, c2, c3}
    NoConn = NoConn
    Hears <- HearsAll
    Leavers = {}
    MaxFaults = 0
    Transfers = FALSE
    MaxInFlight = 0
PROPERTIES
    StaysConnected
CHECK_DEADLOCK FALSE
