SPECIFICATION FairSpec
CONSTANTS
    a1 = a1  a2 = a2  a3 = a3
    w1 = w1  w2 = w2  w3 = w3
    p1 = p1
    Workers = {w1, w2}
    Ids = {a1, a2}
    Numbers = {1, 2, 3}
    MinNumber = 1
    Amounts = {1, 2}
    MaxBalance = 4
    Opening <- TwoAccounts
    FormBalances = {0}
    Photos = {p1}
    NoPhoto = NoPhoto
    NoRequest = NoRequest
    AdminOps = {"open"}
    Faults = {"crash", "lost_commit", "upload"}
INVARIANTS
    TypeOK
    BooksBalance
    OutcomeMatchesBooks
    PhotoStored
PROPERTIES
    ImplementsLedger
    EveryTransferEnds
\* The run stops when every call in Ids has been made.
CHECK_DEADLOCK FALSE
