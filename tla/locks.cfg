SPECIFICATION Spec
CONSTANTS
    Reader = {r1}
    Registrar = {g1}
    Mesh = Mesh
    Reaper = Reaper
    Terminal = Terminal
    Capacity <- One
INVARIANTS
    TypeOK
    OnlyKnownKnots
CHECK_DEADLOCK FALSE
