SPECIFICATION Spec
CONSTANTS
    c1 = c1  c2 = c2  c3 = c3
    Chats = {c1, c2, c3}
    Names <- Conversations
    Moves <- BotMoves
    MayRaise = TRUE
INVARIANTS
    TypeOK
    OneDialog
    OwnSession
    SessionReady
