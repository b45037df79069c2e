SPECIFICATION Spec
CONSTANTS
    c1 = c1  c2 = c2  c3 = c3
    Chats = {c1}
    Names <- Conversations
    Moves <- BotMoves
    MayRaise = TRUE
INVARIANTS
    CancelWorks
