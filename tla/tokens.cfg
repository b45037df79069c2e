SPECIFICATION Spec
CONSTANTS
    u1 = u1  u2 = u2  c1 = c1  c2 = c2
    Users = {u1, u2}
    Clients = {c1, c2}
    ACCESS_TTL = 1
    REFRESH_TTL = 2
    Faults = {"lost", "late", "crash"}
    MaxTokens = 4
    MaxTime = 2
    None = None
SYMMETRY Symmetry
INVARIANTS
    TypeOK
    OneHeir
    ShutOut
    ShutForAReason
PROPERTIES
    ImplementsSessions
\* The run stops when all pairs have been made and the clock has run out.
CHECK_DEADLOCK FALSE
