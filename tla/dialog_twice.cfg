SPECIFICATION Spec
CONSTANTS
    me = me  f1 = f1  f2 = f2  p1 = p1  p2 = p2
    None = None
    Me = me
    Friends = {f1, f2}
    Numbers = {1, 2, 3}
    Opening <- FewAccounts
    Texts <- SomeTexts
    DIGITS_COUNT = 1
    PRECISION = 4
    MaxBalance = 2
    Pictures = {p1}
    MayRaise = TRUE
    AdminOps = {}
    MaxDialogs = 1
    MaxPaid = 2
    MaxChanges = 0
CHECK_DEADLOCK FALSE
INVARIANTS
    PaysOnce
