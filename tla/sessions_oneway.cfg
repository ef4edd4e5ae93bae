\* Only n1 hears the other node; packets and file tasks in both directions.
SPECIFICATION FairSpec
CONSTANTS
    n1 = n1
    n2 = n2
    Node = {n1, n2}
    Conn = {c1, c2, c3}
    NoConn = NoConn
    Hears <- HearsOneWay
    Leavers = {n2}
    MaxFaults = 0
    Transfers = TRUE
    MaxInFlight = 2
INVARIANTS
    HeadDecrypts
PROPERTIES
    StaysConnected
    DepartedForgotten
CHECK_DEADLOCK FALSE
