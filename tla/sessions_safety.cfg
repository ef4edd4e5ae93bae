\* Two nodes that hear each other, one network failure, one node may exit.
SPECIFICATION Spec
CONSTANTS
    n1 = n1
    n2 = n2
    Node = {n1, n2}
    Conn = {c1, c2, c3}
    NoConn = NoConn
    Hears <- HearsAll
    Leavers = {n2}
    MaxFaults = 1
    Transfers = FALSE
    MaxInFlight = 0
SYMMETRY ConnSymmetry
INVARIANTS
    TypeOK
    KeyBeforeConn
    NoDeadSender
    KeyAgreed
PROPERTY ImplementsRegistry
CHECK_DEADLOCK FALSE
