------------------------------- MODULE Dialogs -------------------------------
(***************************************************************************)
(* How one user talks to the bot.  The dispatcher of python-telegram-bot   *)
(* keeps two records that are not tied together: every ConversationHandler *)
(* has a state per (chat, user), and user_data is one dictionary per user, *)
(* for all chats.  The handlers mark in user_data that a conversation is   *)
(* going on (mark_conversation_start, mark_conversation_end) and refuse    *)
(* other commands meanwhile (is_not_user_in_conversation).                 *)
(*                                                                         *)
(* Updates are handled one after another.  A handler that raises (Telegram *)
(* or the database did) is logged by the dispatcher: the conversation's    *)
(* state stays, what the handler wrote to user_data stays too.  Steps that *)
(* change nothing (a refused command, an unknown user, an edited message)  *)
(* are stuttering.  The records live in memory: a restart empties both.    *)
(***************************************************************************)
EXTENDS Naturals

CONSTANTS
    Chats,          \* chats in which the user and the bot both are
    Names,          \* the conversations
    Moves,          \* what their handlers do, see Conversations
    MayRaise        \* whether handlers may raise

VARIABLES
    active,         \* chat -> conversation -> its state there, or "none"
    user_data       \* key -> the conversation that set it

vars == <<active, user_data>>

States == {mv.from : mv \in Moves} \cup {mv.to : mv \in Moves}
Marks  == {"in_conversation", "command"}
Keys   == Marks \cup UNION {mv.writes : mv \in Moves}

ASSUME DialogsAssumption ==
    /\ MayRaise \in BOOLEAN
    /\ \A mv \in Moves : mv.conv \in Names /\ mv.to # "entry" /\ Marks \cap mv.writes = {}
    /\ "none" \notin States

Present == DOMAIN user_data

Nothing == [k \in {} |-> "none"]

\* Mutant: a new dictionary instead of new entries.
SetAnew(data, c, ks) == [k \in ks |-> c]

\* user_data after the conversation c has set the keys ks.
Set(data, c, ks) == [k \in DOMAIN data \cup ks |-> IF k \in ks THEN c ELSE data[k]]

Init ==
    /\ active = [chat \in Chats |-> [c \in Names |-> "none"]]
    /\ user_data = Nothing

-----------------------------------------------------------------------------

\* Mutant: a command starts whatever else is going on.
EverFree == "in_conversation" \in Keys

\* is_not_user_in_conversation lets a command through.
Free == "in_conversation" \notin Present

mark_conversation_start(c) == Set(user_data, c, Marks)

\* Mutant: END is kept as a state like any other.
ReturnKeepsEnd(chat, mv, data) ==
    /\ active' = [active EXCEPT ![chat][mv.conv] = mv.to]
    /\ user_data' = IF mv.to = "END" THEN Nothing ELSE data

\* A handler returns: END only through mark_conversation_end, which clears
\* user_data, else the new state with what has been set.
Return(chat, mv, data) ==
    IF mv.to = "END"
    THEN /\ active' = [active EXCEPT ![chat][mv.conv] = "none"]
         /\ user_data' = Nothing
    ELSE /\ active' = [active EXCEPT ![chat][mv.conv] = mv.to]
         /\ user_data' = data

Entry(chat, mv) ==
    /\ mv.from = "entry"
    /\ active[chat][mv.conv] = "none"
    /\ Free

\* A command that opens a conversation.
Start(chat, mv) ==
    /\ Entry(chat, mv)
    /\ Return(chat, mv, Set(mark_conversation_start(mv.conv), mv.conv, mv.writes))

\* ... whose handler raises after mark_conversation_start.
StartRaises(chat, mv) ==
    /\ MayRaise
    /\ Entry(chat, mv)
    /\ \E ks \in SUBSET mv.writes :
          user_data' = Set(mark_conversation_start(mv.conv), mv.conv, ks)
    /\ UNCHANGED active

\* A message that the conversation's present state has a handler for.
Answer(chat, mv) ==
    /\ active[chat][mv.conv] = mv.from
    /\ mv.reads \subseteq Present
    /\ Return(chat, mv, Set(user_data, mv.conv, mv.writes))

AnswerRaises(chat, mv) ==
    /\ MayRaise
    /\ active[chat][mv.conv] = mv.from
    /\ \E ks \in SUBSET mv.writes : user_data' = Set(user_data, mv.conv, ks)
    /\ UNCHANGED active

\* Mutant: /cancel takes the mark away and leaves the rest of user_data.
CancelForgetful(chat) ==
    \E c \in Names :
        /\ active[chat][c] # "none"
        /\ active' = [active EXCEPT ![chat][c] = "none"]
        /\ user_data' = [k \in Present \ {"in_conversation"} |-> user_data[k]]

\* The fallback handle_cancel; it is heard only where a conversation is going on.
Cancel(chat) ==
    \E c \in Names :
        /\ active[chat][c] # "none"
        /\ active' = [active EXCEPT ![chat][c] = "none"]
        /\ user_data' = Nothing

Restart ==
    /\ active' = [chat \in Chats |-> [c \in Names |-> "none"]]
    /\ user_data' = Nothing

Next ==
    \/ \E chat \in Chats, mv \in Moves :
          Start(chat, mv) \/ StartRaises(chat, mv) \/ Answer(chat, mv) \/ AnswerRaises(chat, mv)
    \/ \E chat \in Chats : Cancel(chat)
    \/ Restart

Spec == Init /\ [][Next]_vars

-----------------------------------------------------------------------------
(* Properties.                                                             *)

Going == {cc \in Chats \X Names : active[cc[1]][cc[2]] # "none"}

TypeOK ==
    /\ active \in [Chats -> [Names -> (States \ {"entry", "END"}) \cup {"none"}]]
    /\ Present \subseteq Keys
    /\ user_data \in [Present -> Names]

\* A user is in at most one conversation, over all chats, and it is the one
\* the refusal of another command names ("You have not finished /...").
OneDialog ==
    \A cc \in Going :
        /\ Going = {cc}
        /\ Marks \subseteq Present
        /\ user_data["command"] = cc[2]

\* What is in user_data was put there by the conversation it names: no dialog
\* ever works on what an earlier one left, whatever raised in between, and
\* none is left when commands are accepted.
OwnSession ==
    \A k \in Present : Marks \subseteq Present /\ user_data[k] = user_data["command"]

\* No handler misses a key (a KeyError the user would see as silence).
SessionReady ==
    \A cc \in Going, mv \in Moves :
        mv.conv = cc[2] /\ mv.from = active[cc[1]][cc[2]] => mv.reads \subseteq Present

\* Whoever is told to finish with /cancel can do so, in the chat he is told.
CancelWorks ==
    "in_conversation" \in Present =>
        \A chat \in Chats : \E c \in Names : active[chat][c] # "none"

=============================================================================
