\* Three of eleven inputs by any of three nodes, while a session comes or goes, or a
\* packet is skipped.
SPECIFICATION Spec
CONSTANTS
    o = o
    r = r
    t = t
    general = general
    group = group
    m1 = m1
    Nobody = Nobody
    System = System
    Node = {o, r, t}
    Msg = {m1}
    Name = {general, group}
    FirstNames <- Start
    Inputs <- All
    MaxInputs = 3
    FirstPeers <- Known
    FirstConns <- Linked
    Unsteady <- Pairs
    MaxChurn = 1
INVARIANTS
    TypeOK
    ActiveIsRead
    UntickedIsPrivate
    FounderFirst
PROPERTIES
    MembersSettle
    RequestShown
    SentArrives
CHECK_DEADLOCK FALSE
