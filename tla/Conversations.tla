---------------------------- MODULE Conversations ----------------------------
(***************************************************************************)
(* The nine conversations of the bot (conversations in bot.py), as a table *)
(* of what their handlers do.  A move is one way a handler can return: it  *)
(* is called in state "from", reads the keys "reads" of user_data with     *)
(* user_data[key], sets the keys "writes", and returns "to".  The state    *)
(* "entry" is the entry point; END is ConversationHandler.END, which is    *)
(* always returned by mark_conversation_end.                               *)
(***************************************************************************)

Conversations == {"password", "balance", "transfer", "history", "phone",
                  "add", "rm", "accept", "reject"}

Move(conv, from, to, reads, writes) ==
    [conv |-> conv, from |-> from, to |-> to, reads |-> reads, writes |-> writes]

BalanceMoves ==
    LET M(from, to, reads, writes) == Move("balance", from, to, reads, writes)
    IN  {M("entry", "END", {}, {}),                       \* no documents
         M("entry", "CHOICE", {}, {"documents"}),
         M("CHOICE", "CHOICE", {"documents"}, {}),        \* no such number
         M("CHOICE", "END", {"documents"}, {})}

HistoryMoves ==
    LET M(from, to, reads, writes) == Move("history", from, to, reads, writes)
    IN  {M("entry", "END", {}, {}),
         M("entry", "DOCUMENT", {}, {"documents"}),
         M("DOCUMENT", "DOCUMENT", {"documents"}, {}),
         M("DOCUMENT", "END", {"documents"}, {})}

Details == {"source_document", "destination_document", "accrual"}

TransferMove(from, to, reads, writes) == Move("transfer", from, to, reads, writes)

\* With a friend chosen: his documents, unless he has none.
FriendsDocumentsMoves ==
    LET M(to, writes) == TransferMove("DESTINATION", to, {"friend_variants"}, writes)
    IN  {M("DESTINATION", {"chosen_friend"}),
         M("DESTINATION_DOCUMENT", {"chosen_friend", "destination_documents"})}

\* Up to the account to pay from.
ChoosingMoves ==
    LET M(from, to, reads, writes) == TransferMove(from, to, reads, writes)
    IN  {M("entry", "END", {}, {}),                       \* no friends, no documents
         M("entry", "DESTINATION", {}, {"source_documents", "friend_variants"}),
         M("DESTINATION", "DESTINATION", {"friend_variants"}, {}),
         M("DESTINATION_DOCUMENT", "DESTINATION_DOCUMENT", {"destination_documents"}, {}),
         M("DESTINATION_DOCUMENT", "SOURCE_DOCUMENT",
              {"destination_documents", "source_documents"}, {"destination_document"}),
         M("SOURCE_DOCUMENT", "SOURCE_DOCUMENT", {"source_documents"}, {}),
         M("SOURCE_DOCUMENT", "ACCRUAL", {"source_documents"}, {"source_document"})}

PayingMoves ==
    LET M(from, to, reads, writes) == TransferMove(from, to, reads, writes)
    IN  {M("ACCRUAL", "ACCRUAL", {"source_document"}, {}),
         M("ACCRUAL", "PHOTO", {"source_document"}, {"accrual"}),
         M("PHOTO", "PHOTO", {}, {}),                     \* too large
         M("PHOTO", "CONFIRM", Details, {"transfer_photo"}),
         M("PHOTO", "CONFIRM", Details, {}),              \* skip
         M("CONFIRM", "END", Details, {})}

TransferMoves == ChoosingMoves \cup FriendsDocumentsMoves \cup PayingMoves

PhoneMoves ==
    LET M(from, to) == Move("phone", from, to, {}, {})
    IN  {M("entry", "INPUT"), M("INPUT", "INPUT"), M("INPUT", "END")}

AddMoves ==
    LET M(from, to) == Move("add", from, to, {}, {})
    IN  {M("entry", "INPUT"), M("INPUT", "INPUT"), M("INPUT", "END")}

RmMoves ==
    LET M(from, to, reads, writes) == Move("rm", from, to, reads, writes)
    IN  {M("entry", "INPUT", {}, {"usernames", "user"}),
         M("INPUT", "INPUT", {"usernames", "user"}, {}),
         M("INPUT", "END", {"usernames", "user"}, {})}

\* accept and reject ask in the same way (send_username_list).
AnswerMoves(c) ==
    {Move(c, "entry", "END", {}, {}),                     \* no requests
     Move(c, "entry", "INPUT", {}, {"username_list"}),
     Move(c, "INPUT", "INPUT", {"username_list"}, {}),
     Move(c, "INPUT", "END", {"username_list"}, {})}

AcceptMoves == AnswerMoves("accept")
RejectMoves == AnswerMoves("reject")

PasswordMoves ==
    LET M(from, to, reads, writes) == Move("password", from, to, reads, writes)
    IN  {M("entry", "SECRET_CONFIRMATION", {}, {}),       \* there is a password
         M("SECRET_CONFIRMATION", "END", {}, {}),
         M("SECRET_CONFIRMATION", "PASSWORD_ENTERING_IN_UPDATING", {}, {}),
         M("PASSWORD_ENTERING_IN_UPDATING", "PASSWORD_CONFIRMATION_IN_UPDATING", {}, {"password"}),
         M("PASSWORD_CONFIRMATION_IN_UPDATING", "END", {"password"}, {}),
         M("entry", "SECRET_CREATING", {}, {}),           \* there is none
         M("SECRET_CREATING", "TIP_CREATING", {}, {"secret_key_hash"}),
         M("TIP_CREATING", "PASSWORD_ENTERING_IN_CREATING", {}, {"tip"}),
         M("PASSWORD_ENTERING_IN_CREATING", "PASSWORD_CONFIRMATION_IN_CREATING", {}, {"password"}),
         M("PASSWORD_CONFIRMATION_IN_CREATING", "END", {"password"}, {}),   \* not confirmed
         M("PASSWORD_CONFIRMATION_IN_CREATING", "END",
              {"password", "secret_key_hash", "tip"}, {})}

BotMoves == PasswordMoves \cup BalanceMoves \cup TransferMoves \cup HistoryMoves
            \cup PhoneMoves \cup AddMoves \cup RmMoves \cup AcceptMoves \cup RejectMoves

=============================================================================
