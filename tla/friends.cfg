SPECIFICATION FairSpec
CONSTANTS
    u1 = u1  u2 = u2  gunicorn = gunicorn  runbot = runbot
    NoCall = NoCall
    Users = {u1, u2}
    Workers = {gunicorn, runbot}
    Ops = {"add", "accept", "reject", "remove"}
    MaxRequests = 2
CHECK_DEADLOCK FALSE
INVARIANTS
    TypeOK
    OneRequest
    AnsweredIsGone
    AcceptedTogether
PROPERTIES
    EveryCallEnds
