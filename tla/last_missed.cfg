SPECIFICATION Spec
CONSTANTS
    u1 = u1  u2 = u2
    Nobody = Nobody
    Users = {u1, u2}
    Owner <- ThreeAccounts
    MayRaise = FALSE
    MayClose = FALSE
    MaxPayments = 1
INVARIANTS
    NothingNewIsTrue
