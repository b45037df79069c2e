SPECIFICATION Spec
CONSTANTS
    me = me  f1 = f1  f2 = f2  p1 = p1  p2 = p2
    None = None
    Me = me
    Friends = {f1, f2}
    Numbers = {1, 2, 3, 4}
    Opening <- ThreeAccounts
    Texts <- SomeTexts
    DIGITS_COUNT = 1
    PRECISION = 4
    MaxBalance = 2
    Pictures = {p1, p2}
    MayRaise = TRUE
    AdminOps = {"open", "save", "close", "give"}
    MaxDialogs = 2
    MaxPaid = 2
    MaxChanges = 2
CHECK_DEADLOCK FALSE
INVARIANTS
    TypeOK
    PaysOnceUnlessRaised
PROPERTIES
    PaysAsConfirmed
    PaysAsTyped
    MoneyGoesRight
    PhotoChosen
