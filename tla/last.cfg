SPECIFICATION Spec
CONSTANTS
    u1 = u1  u2 = u2
    Nobody = Nobody
    Users = {u1, u2}
    Owner <- ThreeAccounts
    MayRaise = TRUE
    MayClose = TRUE
    MaxPayments = 2
INVARIANTS
    TypeOK
    ShownOnce
    ShownOrNew
