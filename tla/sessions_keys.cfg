\* Two nodes that hear each other, no failures, one packet in flight.
SPECIFICATION Spec
CONSTANTS
    n1 = n1
    n2 = n2
    Node = {n1, n2}
    Conn = {c1, c2, c3}
    NoConn = NoConn
    Hears <- HearsAll
    Leavers = {}
    MaxFaults = 0
    Transfers = FALSE
    MaxInFlight = 1
INVARIANTS
    PerConnectionKey
CHECK_DEADLOCK FALSE
