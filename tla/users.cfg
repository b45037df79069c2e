SPECIFICATION Spec
CONSTANTS
    u1 = u1  u2 = u2  p1 = p1  k1 = k1  k2 = k2
    webhook = webhook  runbot = runbot
    Users = {u1, u2}
    Dispatchers = {webhook, runbot}
    Worker = webhook
    Passwords = {p1}
    Raw = Raw
    Keys = {k1, k2}
    MayRaise = TRUE
    MaxDeletes = 1
    None = None
SYMMETRY Symmetry
INVARIANTS
    TypeOK
    BothOrNeither
    ProvedByKey
PROPERTIES
    KeyIsForLife
