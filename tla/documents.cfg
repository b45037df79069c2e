SPECIFICATION Spec
CONSTANTS
    u1 = u1  u2 = u2  p1 = p1
    Users = {u1, u2}
    MIN_ACCOUNT = 1
    MAX_ACCOUNT = 3
    MIN_CARD = 11
    MAX_CARD = 12
    Pictures = {p1}
    MaxPaid = 2
    MaxForms = 5
    MaxDay = 1
    None = None
SYMMETRY Symmetry
INVARIANTS
    TypeOK
    PaidIsSeen
    PictureKept
PROPERTIES
    NumbersKeepMeaning
    FreshStart
\* The run stops when payments, forms and days are used up.
CHECK_DEADLOCK FALSE
