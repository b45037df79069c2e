--------------------------- MODULE DialogsProofs ---------------------------
(***************************************************************************)
(* Theorems about Dialogs, for any number of chats and any conversations:  *)
(* they need nothing of the table of moves but that it names conversations *)
(* and leaves the marks alone.  Only SessionReady is about what the moves  *)
(* read and write; it is proved of the bot's own table.                    *)
(***************************************************************************)
EXTENDS Dialogs, Conversations, TLAPS

\* The records are functions over all chats and conversations.
Shape ==
    /\ active \in [Chats -> [Names -> States \cup {"none"}]]
    /\ user_data = [k \in Present |-> user_data[k]]

Inv == Shape /\ OneDialog /\ OwnSession

LEMMA InvInit == Init => Inv
PROOF
<1> SUFFICES ASSUME Init PROVE Inv
  OBVIOUS
<1>1. Present = {}
  BY DEF Init, Present, Nothing
<1>2. Shape
  BY <1>1 DEF Init, Shape, Nothing
<1>3. Going = {}
  BY DEF Init, Going
<1> QED
  BY <1>1, <1>2, <1>3 DEF Inv, OneDialog, OwnSession

\* When commands are accepted nothing is going on and nothing is left over.
LEMMA FreeIsClean ==
    ASSUME Inv, Free
    PROVE  Going = {} /\ Present = {}
PROOF
  BY DEF Inv, OneDialog, OwnSession, Free, Marks

\* Clearing everything establishes the invariant.
LEMMA Cleared ==
    ASSUME active' \in [Chats -> [Names -> States \cup {"none"}]],
           Going' = {}, user_data' = Nothing
    PROVE  Inv'
PROOF
<1>1. Present' = {}
  BY DEF Present, Nothing
<1>2. Shape'
  BY <1>1 DEF Shape, Nothing
<1> QED
  BY <1>1, <1>2 DEF Inv, OneDialog, OwnSession

\* The session of a conversation that has just begun.
LEMMA Begun ==
    ASSUME Inv, Free, NEW c \in Names, NEW ks, Marks \cap ks = {},
           user_data' = Set(mark_conversation_start(c), c, ks)
    PROVE  /\ Present' = Marks \cup ks
           /\ \A k \in Present' : user_data'[k] = c
           /\ user_data' = [k \in Present' |-> user_data'[k]]
PROOF
<1> DEFINE marked == Set(user_data, c, Marks)
<1>1. Present = {}
  BY FreeIsClean
<1>2. DOMAIN marked = Marks /\ \A k \in Marks : marked[k] = c
  BY <1>1 DEF Set, Present
<1>3. user_data' = Set(marked, c, ks)
  BY DEF mark_conversation_start
<1>4. /\ DOMAIN user_data' = Marks \cup ks
      /\ \A k \in ks : user_data'[k] = c
      /\ \A k \in Marks \ ks : user_data'[k] = c
      /\ user_data' = [k \in DOMAIN user_data' |-> user_data'[k]]
  BY <1>2, <1>3 DEF Set
<1> QED
  BY <1>4 DEF Present

\* The session of a conversation that goes on.
LEMMA GoneOn ==
    ASSUME Inv, NEW chat \in Chats, NEW c \in Names, active[chat][c] # "none",
           NEW ks, Marks \cap ks = {}, user_data' = Set(user_data, c, ks)
    PROVE  /\ Going = {<<chat, c>>}
           /\ Marks \subseteq Present'
           /\ \A k \in Present' : user_data'[k] = c
           /\ user_data' = [k \in Present' |-> user_data'[k]]
PROOF
<1>1. <<chat, c>> \in Going
  BY DEF Going
<1>2. Going = {<<chat, c>>} /\ Marks \subseteq Present /\ user_data["command"] = c
  BY <1>1 DEF Inv, OneDialog
<1>3. \A k \in Present : user_data[k] = c
  BY <1>2 DEF Inv, OwnSession
<1>4. /\ Present' = Present \cup ks
      /\ \A k \in ks : user_data'[k] = c
      /\ \A k \in Present \ ks : user_data'[k] = user_data[k]
      /\ user_data' = [k \in Present' |-> user_data'[k]]
  BY DEF Set, Present
<1> QED
  BY <1>2, <1>3, <1>4

LEMMA InvNext == Inv /\ [Next]_vars => Inv'
PROOF
<1> SUFFICES ASSUME Inv, [Next]_vars PROVE Inv'
  OBVIOUS
<1>a. active \in [Chats -> [Names -> States \cup {"none"}]]
  BY DEF Inv, Shape
<1>b. \A mv \in Moves : mv.conv \in Names /\ Marks \cap mv.writes = {}
                        /\ mv.from # "none" /\ mv.to \in States /\ mv.to # "none"
  BY DialogsAssumption DEF States
<1>1. ASSUME NEW chat \in Chats, NEW mv \in Moves, Start(chat, mv)
      PROVE  Inv'
  <2> DEFINE c == mv.conv
  <2>1. Free /\ Going = {} /\ c \in Names
    BY <1>1, <1>b, FreeIsClean DEF Start, Entry
  <2>2. CASE mv.to = "END"
    <3>1. active' = [active EXCEPT ![chat][c] = "none"] /\ user_data' = Nothing
      BY <1>1, <2>2 DEF Start, Return
    <3>2. active' \in [Chats -> [Names -> States \cup {"none"}]]
      BY <1>a, <2>1, <3>1
    <3>3. Going' = {}
      BY <1>a, <2>1, <3>1 DEF Going
    <3> QED
      BY <3>1, <3>2, <3>3, Cleared
  <2>3. CASE mv.to # "END"
    <3>1. /\ active' = [active EXCEPT ![chat][c] = mv.to]
          /\ user_data' = Set(mark_conversation_start(c), c, mv.writes)
      BY <1>1, <2>3 DEF Start, Return
    <3>2. active' \in [Chats -> [Names -> States \cup {"none"}]]
      BY <1>a, <1>b, <2>1, <3>1
    <3>3. Going' = {<<chat, c>>}
      BY <1>a, <1>b, <2>1, <3>1 DEF Going
    <3>4. /\ Present' = Marks \cup mv.writes
          /\ \A k \in Present' : user_data'[k] = c
          /\ user_data' = [k \in Present' |-> user_data'[k]]
      BY <1>b, <2>1, <3>1, Begun
    <3> QED
      BY <3>2, <3>3, <3>4 DEF Inv, Shape, OneDialog, OwnSession, Marks
  <2> QED
    BY <2>2, <2>3
<1>2. ASSUME NEW chat \in Chats, NEW mv \in Moves, StartRaises(chat, mv)
      PROVE  Inv'
  <2> DEFINE c == mv.conv
  <2>1. Free /\ Going = {} /\ c \in Names /\ active' = active
    BY <1>2, <1>b, FreeIsClean DEF StartRaises, Entry
  <2>2. PICK ks \in SUBSET mv.writes :
            user_data' = Set(mark_conversation_start(c), c, ks)
    BY <1>2 DEF StartRaises
  <2>3. /\ Present' = Marks \cup ks
        /\ \A k \in Present' : user_data'[k] = c
        /\ user_data' = [k \in Present' |-> user_data'[k]]
    BY <1>b, <2>1, <2>2, Begun
  <2>4. Going' = {}
    BY <2>1 DEF Going
  <2> QED
    BY <1>a, <2>1, <2>3, <2>4 DEF Inv, Shape, OneDialog, OwnSession, Marks
<1>3. ASSUME NEW chat \in Chats, NEW mv \in Moves, Answer(chat, mv)
      PROVE  Inv'
  <2> DEFINE c == mv.conv
  <2>0. active[chat][c] # "none" /\ c \in Names
    BY <1>3, <1>b DEF Answer
  <2>1. Going = {<<chat, c>>}
    BY <2>0 DEF Inv, OneDialog, Going
  <2>2. CASE mv.to = "END"
    <3>1. active' = [active EXCEPT ![chat][c] = "none"] /\ user_data' = Nothing
      BY <1>3, <2>2 DEF Answer, Return
    <3>2. active' \in [Chats -> [Names -> States \cup {"none"}]]
      BY <1>a, <2>0, <3>1
    <3>3. Going' = {}
      BY <1>a, <2>0, <2>1, <3>1 DEF Going
    <3> QED
      BY <3>1, <3>2, <3>3, Cleared
  <2>3. CASE mv.to # "END"
    <3>1. /\ active' = [active EXCEPT ![chat][c] = mv.to]
          /\ user_data' = Set(user_data, c, mv.writes)
      BY <1>3, <2>3 DEF Answer, Return
    <3>2. active' \in [Chats -> [Names -> States \cup {"none"}]]
      BY <1>a, <1>b, <2>0, <3>1
    <3>3. Going' = {<<chat, c>>}
      BY <1>a, <1>b, <2>0, <2>1, <3>1 DEF Going
    <3>4. /\ Marks \subseteq Present'
          /\ \A k \in Present' : user_data'[k] = c
          /\ user_data' = [k \in Present' |-> user_data'[k]]
      BY <1>b, <2>0, <3>1, GoneOn
    <3> QED
      BY <3>2, <3>3, <3>4 DEF Inv, Shape, OneDialog, OwnSession, Marks
  <2> QED
    BY <2>2, <2>3
<1>4. ASSUME NEW chat \in Chats, NEW mv \in Moves, AnswerRaises(chat, mv)
      PROVE  Inv'
  <2> DEFINE c == mv.conv
  <2>0. active[chat][c] # "none" /\ c \in Names /\ active' = active
    BY <1>4, <1>b DEF AnswerRaises
  <2>1. PICK ks \in SUBSET mv.writes : user_data' = Set(user_data, c, ks)
    BY <1>4 DEF AnswerRaises
  <2>2. /\ Going = {<<chat, c>>}
        /\ Marks \subseteq Present'
        /\ \A k \in Present' : user_data'[k] = c
        /\ user_data' = [k \in Present' |-> user_data'[k]]
    BY <1>b, <2>0, <2>1, GoneOn
  <2>3. Going' = {<<chat, c>>}
    BY <2>0, <2>2 DEF Going
  <2> QED
    BY <1>a, <2>0, <2>2, <2>3 DEF Inv, Shape, OneDialog, OwnSession, Marks
<1>5. ASSUME NEW chat \in Chats, Cancel(chat)
      PROVE  Inv'
  <2>1. PICK c \in Names : /\ active[chat][c] # "none"
                           /\ active' = [active EXCEPT ![chat][c] = "none"]
                           /\ user_data' = Nothing
    BY <1>5 DEF Cancel
  <2>2. Going = {<<chat, c>>}
    BY <2>1 DEF Inv, OneDialog, Going
  <2>3. Going' = {}
    BY <1>a, <2>1, <2>2 DEF Going
  <2>4. active' \in [Chats -> [Names -> States \cup {"none"}]]
    BY <1>a, <2>1
  <2> QED
    BY <2>1, <2>3, <2>4, Cleared
<1>6. CASE Restart
  <2>1. Going' = {} /\ active' \in [Chats -> [Names -> States \cup {"none"}]]
    BY <1>6 DEF Restart, Going
  <2> QED
    BY <1>6, <2>1, Cleared DEF Restart
<1>7. CASE UNCHANGED vars
  BY <1>7 DEF vars, Inv, Shape, OneDialog, OwnSession, Going, Present
<1> QED
  BY <1>1, <1>2, <1>3, <1>4, <1>5, <1>6, <1>7 DEF Next

\* A user is never in two conversations, in however many chats he meets the
\* bot, and the refusal of a command names the one he is in.
THEOREM NeverTwoDialogs == Spec => []OneDialog
PROOF
<1>1. Inv => OneDialog
  BY DEF Inv
<1> QED
  BY InvInit, InvNext, <1>1, PTL DEF Spec

\* No conversation finds in user_data what another one, or an earlier run of
\* itself that ended, has left there.
THEOREM SessionsAreOwn == Spec => []OwnSession
PROOF
<1>1. Inv => OwnSession
  BY DEF Inv
<1> QED
  BY InvInit, InvNext, <1>1, PTL DEF Spec

-----------------------------------------------------------------------------
(* The records' types.                                                     *)

\* What user_data can hold after a conversation has set some keys.
LEMMA SetType ==
    ASSUME NEW c \in Names, NEW ks \in SUBSET Keys,
           NEW data, DOMAIN data \subseteq Keys, data \in [DOMAIN data -> Names]
    PROVE  LET new == Set(data, c, ks)
           IN  DOMAIN new \subseteq Keys /\ new \in [DOMAIN new -> Names]
PROOF
<1> DEFINE new == Set(data, c, ks)
<1>1. DOMAIN new = DOMAIN data \cup ks
  BY DEF Set
<1>2. \A k \in DOMAIN new : new[k] \in Names
  BY <1>1 DEF Set
<1>3. new = [k \in DOMAIN new |-> new[k]]
  BY DEF Set
<1> QED
  BY <1>1, <1>2, <1>3

LEMMA TypeNext == TypeOK /\ [Next]_vars => TypeOK'
PROOF
<1> SUFFICES ASSUME TypeOK, [Next]_vars PROVE TypeOK'
  OBVIOUS
<1> DEFINE Stay == (States \ {"entry", "END"}) \cup {"none"}
           Session(data) == DOMAIN data \subseteq Keys /\ data \in [DOMAIN data -> Names]
<1>a. active \in [Chats -> [Names -> Stay]] /\ Session(user_data)
  BY DEF TypeOK, Present
<1>b. Session(Nothing)
  <2>1. DOMAIN Nothing = {}
    BY DEF Nothing
  <2>2. Nothing \in [{} -> Names]
    BY DEF Nothing
  <2> QED
    BY <2>1, <2>2
<1>c. ASSUME NEW data, Session(data), NEW c \in Names, NEW ks \in SUBSET Keys
      PROVE  Session(Set(data, c, ks))
  BY <1>c, SetType
<1>d. \A mv \in Moves :
         /\ mv.conv \in Names /\ mv.writes \subseteq Keys
         /\ mv.to # "END" => mv.to \in Stay
  BY DialogsAssumption DEF States, Keys
<1>e. ASSUME active' \in [Chats -> [Names -> Stay]], Session(user_data')
      PROVE  TypeOK'
  BY <1>e DEF TypeOK, Present, States
<1>f. ASSUME NEW chat \in Chats, NEW mv \in Moves, NEW data, Session(data),
             Return(chat, mv, data)
      PROVE  TypeOK'
  <2>1. CASE mv.to = "END"
    BY <2>1, <1>a, <1>b, <1>d, <1>e, <1>f DEF Return
  <2>2. CASE mv.to # "END"
    BY <2>2, <1>a, <1>d, <1>e, <1>f DEF Return
  <2> QED
    BY <2>1, <2>2
<1>g. ASSUME NEW c \in Names
      PROVE  Session(mark_conversation_start(c))
  <2>1. Marks \subseteq Keys
    BY DEF Keys
  <2> QED
    BY <1>a, <1>c, <2>1 DEF mark_conversation_start
<1>1. ASSUME NEW chat \in Chats, NEW mv \in Moves, Start(chat, mv)
      PROVE  TypeOK'
  <2>1. Session(Set(mark_conversation_start(mv.conv), mv.conv, mv.writes))
    BY <1>c, <1>d, <1>g
  <2> QED
    BY <1>1, <1>f, <2>1 DEF Start
<1>2. ASSUME NEW chat \in Chats, NEW mv \in Moves, StartRaises(chat, mv)
      PROVE  TypeOK'
  <2>1. PICK ks \in SUBSET mv.writes :
            user_data' = Set(mark_conversation_start(mv.conv), mv.conv, ks)
    BY <1>2 DEF StartRaises
  <2>2. Session(user_data') /\ active' = active
    BY <1>2, <1>c, <1>d, <1>g, <2>1 DEF StartRaises
  <2> QED
    BY <1>a, <1>e, <2>2
<1>3. ASSUME NEW chat \in Chats, NEW mv \in Moves, Answer(chat, mv)
      PROVE  TypeOK'
  <2>1. Session(Set(user_data, mv.conv, mv.writes))
    BY <1>a, <1>c, <1>d
  <2> QED
    BY <1>3, <1>f, <2>1 DEF Answer
<1>4. ASSUME NEW chat \in Chats, NEW mv \in Moves, AnswerRaises(chat, mv)
      PROVE  TypeOK'
  <2>1. PICK ks \in SUBSET mv.writes : user_data' = Set(user_data, mv.conv, ks)
    BY <1>4 DEF AnswerRaises
  <2>2. Session(user_data') /\ active' = active
    BY <1>4, <1>a, <1>c, <1>d, <2>1 DEF AnswerRaises
  <2> QED
    BY <1>a, <1>e, <2>2
<1>5. ASSUME NEW chat \in Chats, Cancel(chat)
      PROVE  TypeOK'
  BY <1>5, <1>a, <1>b, <1>e DEF Cancel
<1>6. CASE Restart
  BY <1>6, <1>b, <1>e DEF Restart
<1>7. CASE UNCHANGED vars
  BY <1>7, <1>a, <1>e DEF vars
<1> QED
  BY <1>1, <1>2, <1>3, <1>4, <1>5, <1>6, <1>7 DEF Next

\* No handler leaves a conversation in a state nothing listens in, and every
\* key of user_data is signed by one of the conversations.
THEOREM DialogsTyped == Spec => []TypeOK
PROOF
<1>1. Init => TypeOK
  BY DEF Init, TypeOK, Present, Nothing
<1> QED
  BY <1>1, TypeNext, PTL DEF Spec

-----------------------------------------------------------------------------
(* No handler misses a key.  The records say what every state can count    *)
(* on; the proof is that every move keeps the promise of where it leads.   *)

\* H[c][s] can be counted on in the state s of the conversation c: it covers
\* what the handlers of s read, and whoever leads to s has it or writes it.
Promised(H) ==
    \A mv \in Moves :
        /\ mv.from # "entry" => mv.reads \subseteq H[mv.conv][mv.from]
        /\ mv.to # "END" =>
              H[mv.conv][mv.to] \subseteq
                 mv.writes \cup (IF mv.from = "entry" THEN {} ELSE H[mv.conv][mv.from])

Kept(H) == \A cc \in Going : H[cc[2]][active[cc[1]][cc[2]]] \subseteq Present

\* A promise that is kept stays kept.
LEMMA KeptNext ==
    ASSUME NEW CONSTANT H, Promised(H)
    PROVE  TypeOK /\ Inv /\ Kept(H) /\ [Next]_vars => Kept(H)'
PROOF
<1> SUFFICES ASSUME TypeOK, Inv, Kept(H), [Next]_vars PROVE Kept(H)'
  OBVIOUS
<1>a. active \in [Chats -> [Names -> States \cup {"none"}]]
  BY DEF Inv, Shape
<1>b. \A mv \in Moves : mv.conv \in Names
  BY DialogsAssumption
<1>c. \A chat \in Chats, c \in Names : active[chat][c] # "entry"
  BY DialogsAssumption DEF TypeOK
<1>d. ASSUME Going' = {}
      PROVE  Kept(H)'
  BY <1>d DEF Kept
<1>1. ASSUME NEW chat \in Chats, NEW mv \in Moves, Start(chat, mv)
      PROVE  Kept(H)'
  <2> DEFINE c == mv.conv
  <2>1. Going = {} /\ c \in Names /\ mv.from = "entry"
    BY <1>1, <1>b, FreeIsClean DEF Start, Entry
  <2>2. CASE mv.to = "END"
    <3>1. active' = [active EXCEPT ![chat][c] = "none"]
      BY <1>1, <2>2 DEF Start, Return
    <3> QED
      BY <1>a, <1>d, <2>1, <3>1 DEF Going
  <2>3. CASE mv.to # "END"
    <3>1. /\ active' = [active EXCEPT ![chat][c] = mv.to]
          /\ user_data' = Set(mark_conversation_start(c), c, mv.writes)
      BY <1>1, <2>3 DEF Start, Return
    <3>2. Going' \subseteq {<<chat, c>>} /\ active'[chat][c] = mv.to
      BY <1>a, <2>1, <3>1 DEF Going
    <3>3. mv.writes \subseteq Present'
      BY <3>1 DEF Present, Set
    <3>4. H[c][mv.to] \subseteq mv.writes
      BY <2>1, <2>3 DEF Promised
    <3> QED
      BY <3>2, <3>3, <3>4 DEF Kept
  <2> QED
    BY <2>2, <2>3
<1>2. ASSUME NEW chat \in Chats, NEW mv \in Moves, StartRaises(chat, mv)
      PROVE  Kept(H)'
  <2>1. Going = {} /\ active' = active
    BY <1>2, FreeIsClean DEF StartRaises, Entry
  <2> QED
    BY <1>d, <2>1 DEF Going
<1>3. ASSUME NEW chat \in Chats, NEW mv \in Moves, Answer(chat, mv)
      PROVE  Kept(H)'
  <2> DEFINE c == mv.conv
  <2>1. active[chat][c] = mv.from /\ mv.from # "none" /\ mv.from # "entry" /\ c \in Names
    BY <1>3, <1>b, <1>c, DialogsAssumption DEF Answer, States
  <2>2. Going = {<<chat, c>>}
    BY <2>1 DEF Inv, OneDialog, Going
  <2>3. CASE mv.to = "END"
    <3>1. active' = [active EXCEPT ![chat][c] = "none"]
      BY <1>3, <2>3 DEF Answer, Return
    <3> QED
      BY <1>a, <1>d, <2>1, <2>2, <3>1 DEF Going
  <2>4. CASE mv.to # "END"
    <3>1. /\ active' = [active EXCEPT ![chat][c] = mv.to]
          /\ user_data' = Set(user_data, c, mv.writes)
      BY <1>3, <2>4 DEF Answer, Return
    <3>2. Going' \subseteq {<<chat, c>>} /\ active'[chat][c] = mv.to
      BY <1>a, <2>1, <2>2, <3>1 DEF Going
    <3>3. Present' = Present \cup mv.writes
      BY <3>1 DEF Present, Set
    <3>4. H[c][mv.from] \subseteq Present
      BY <2>1, <2>2 DEF Kept
    <3>5. H[c][mv.to] \subseteq mv.writes \cup H[c][mv.from]
      BY <2>1, <2>4 DEF Promised
    <3> QED
      BY <3>2, <3>3, <3>4, <3>5 DEF Kept
  <2> QED
    BY <2>3, <2>4
<1>4. ASSUME NEW chat \in Chats, NEW mv \in Moves, AnswerRaises(chat, mv)
      PROVE  Kept(H)'
  <2>1. active' = active /\ Present \subseteq Present'
    BY <1>4 DEF AnswerRaises, Present, Set
  <2>2. Going' = Going
    BY <2>1 DEF Going
  <2> QED
    BY <2>1, <2>2 DEF Kept
<1>5. ASSUME NEW chat \in Chats, Cancel(chat)
      PROVE  Kept(H)'
  <2>1. PICK c \in Names : /\ active[chat][c] # "none"
                           /\ active' = [active EXCEPT ![chat][c] = "none"]
    BY <1>5 DEF Cancel
  <2>2. Going = {<<chat, c>>}
    BY <2>1 DEF Inv, OneDialog, Going
  <2> QED
    BY <1>a, <1>d, <2>1, <2>2 DEF Going
<1>6. CASE Restart
  BY <1>6, <1>d DEF Restart, Going
<1>7. CASE UNCHANGED vars
  BY <1>7 DEF vars, Kept, Going, Present
<1> QED
  BY <1>1, <1>2, <1>3, <1>4, <1>5, <1>6, <1>7 DEF Next

\* With such records no handler misses a key, whatever conversations there are.
LEMMA PromisesMakeReady ==
    ASSUME NEW CONSTANT H, Promised(H)
    PROVE  Spec => []SessionReady
PROOF
<1>1. Init => TypeOK /\ Inv /\ Kept(H)
  BY InvInit DEF Init, TypeOK, Present, Nothing, Kept, Going
<1>2. TypeOK /\ Inv /\ Kept(H) /\ [Next]_vars => (TypeOK /\ Inv /\ Kept(H))'
  BY TypeNext, InvNext, KeptNext
<1>3. TypeOK /\ Inv /\ Kept(H) => SessionReady
  BY DialogsAssumption DEF TypeOK, Kept, Promised, SessionReady, Going
<1> QED
  BY <1>1, <1>2, <1>3, PTL DEF Spec

Listed == [INPUT |-> {"username_list"}]

\* What the bot's conversations promise, state by state.
BotKeys ==
    [balance  |-> [CHOICE |-> {"documents"}],
     history  |-> [DOCUMENT |-> {"documents"}],
     phone    |-> [INPUT |-> {}],
     add      |-> [INPUT |-> {}],
     rm       |-> [INPUT |-> {"usernames", "user"}],
     accept   |-> Listed,
     reject   |-> Listed,
     transfer |->
        [DESTINATION          |-> {"source_documents", "friend_variants"},
         DESTINATION_DOCUMENT |-> {"source_documents", "destination_documents"},
         SOURCE_DOCUMENT      |-> {"source_documents", "destination_document"},
         ACCRUAL              |-> {"destination_document", "source_document"},
         PHOTO                |-> Details,
         CONFIRM              |-> Details],
     password |->
        [SECRET_CONFIRMATION               |-> {},
         PASSWORD_ENTERING_IN_UPDATING     |-> {},
         PASSWORD_CONFIRMATION_IN_UPDATING |-> {"password"},
         SECRET_CREATING                   |-> {},
         TIP_CREATING                      |-> {"secret_key_hash"},
         PASSWORD_ENTERING_IN_CREATING     |-> {"secret_key_hash", "tip"},
         PASSWORD_CONFIRMATION_IN_CREATING |-> {"password", "secret_key_hash", "tip"}]]

KeepsPromise(mv) ==
    /\ mv.from # "entry" => mv.reads \subseteq BotKeys[mv.conv][mv.from]
    /\ mv.to # "END" =>
          BotKeys[mv.conv][mv.to] \subseteq
             mv.writes \cup (IF mv.from = "entry" THEN {} ELSE BotKeys[mv.conv][mv.from])

LEMMA MovesKeepPromises == \A mv \in BotMoves : KeepsPromise(mv)
PROOF
<1>1. \A mv \in PasswordMoves : KeepsPromise(mv)
  BY DEF PasswordMoves, Move, KeepsPromise, BotKeys
<1>2. \A mv \in BalanceMoves : KeepsPromise(mv)
  BY DEF BalanceMoves, Move, KeepsPromise, BotKeys
<1>3. \A mv \in HistoryMoves : KeepsPromise(mv)
  BY DEF HistoryMoves, Move, KeepsPromise, BotKeys
<1>4. \A mv \in TransferMoves : KeepsPromise(mv)
  <2>1. \A mv \in ChoosingMoves : KeepsPromise(mv)
    BY DEF ChoosingMoves, TransferMove, Move, KeepsPromise, BotKeys
  <2>2. \A mv \in FriendsDocumentsMoves : KeepsPromise(mv)
    BY DEF FriendsDocumentsMoves, TransferMove, Move, KeepsPromise, BotKeys
  <2>3. \A mv \in PayingMoves : KeepsPromise(mv)
    BY DEF PayingMoves, TransferMove, Move, KeepsPromise, BotKeys, Details
  <2> QED
    BY <2>1, <2>2, <2>3 DEF TransferMoves
<1>5. \A mv \in PhoneMoves : KeepsPromise(mv)
  BY DEF PhoneMoves, Move, KeepsPromise, BotKeys
<1>6. \A mv \in AddMoves : KeepsPromise(mv)
  BY DEF AddMoves, Move, KeepsPromise, BotKeys
<1>7. \A mv \in RmMoves : KeepsPromise(mv)
  BY DEF RmMoves, Move, KeepsPromise, BotKeys
<1>8. \A mv \in AcceptMoves \cup RejectMoves : KeepsPromise(mv)
  BY DEF AcceptMoves, RejectMoves, AnswerMoves, Move, KeepsPromise, BotKeys, Listed
<1> QED
  BY <1>1, <1>2, <1>3, <1>4, <1>5, <1>6, <1>7, <1>8 DEF BotMoves

\* No handler of the bot's nine conversations misses a key of user_data, in
\* any number of chats, whatever handlers raise half-way through their writes.
THEOREM BotSessionsReady ==
    ASSUME Moves = BotMoves
    PROVE  Spec => []SessionReady
PROOF
<1>1. Promised(BotKeys)
  BY MovesKeepPromises DEF Promised, KeepsPromise
<1> QED
  BY <1>1, PromisesMakeReady

-----------------------------------------------------------------------------
(* What the run dialogs_stuck refutes comes of handlers that raise, or of  *)
(* a second chat, and of nothing else.                                     *)

\* Where a mark is set, a conversation is going on.
Heard == Free \/ Going # {}

LEMMA HeardNext ==
    ASSUME ~MayRaise
    PROVE  Inv /\ Heard /\ [Next]_vars => Heard'
PROOF
<1> SUFFICES ASSUME Inv, Heard, [Next]_vars PROVE Heard'
  OBVIOUS
<1>a. active \in [Chats -> [Names -> States \cup {"none"}]]
  BY DEF Inv, Shape
<1>b. \A mv \in Moves : mv.conv \in Names /\ mv.to # "none"
  BY DialogsAssumption DEF States
<1>c. ASSUME user_data' = Nothing
      PROVE  Heard'
  BY <1>c DEF Heard, Free, Present, Nothing
<1>d. ASSUME NEW chat \in Chats, NEW mv \in Moves, NEW data, Return(chat, mv, data)
      PROVE  Heard'
  <2>1. CASE mv.to = "END"
    BY <1>c, <1>d, <2>1 DEF Return
  <2>2. CASE mv.to # "END"
    <3>1. active' = [active EXCEPT ![chat][mv.conv] = mv.to]
      BY <1>d, <2>2 DEF Return
    <3>2. <<chat, mv.conv>> \in Going'
      BY <1>a, <1>b, <3>1 DEF Going
    <3> QED
      BY <3>2 DEF Heard
  <2> QED
    BY <2>1, <2>2
<1>1. ASSUME NEW chat \in Chats, NEW mv \in Moves, Start(chat, mv) \/ Answer(chat, mv)
      PROVE  Heard'
  BY <1>1, <1>d DEF Start, Answer
<1>2. ASSUME NEW chat \in Chats, NEW mv \in Moves
      PROVE  ~StartRaises(chat, mv) /\ ~AnswerRaises(chat, mv)
  BY DEF StartRaises, AnswerRaises
<1>3. ASSUME NEW chat \in Chats, Cancel(chat)
      PROVE  Heard'
  BY <1>3, <1>c DEF Cancel
<1>4. CASE Restart
  BY <1>4, <1>c DEF Restart
<1>5. CASE UNCHANGED vars
  BY <1>5 DEF vars, Heard, Free, Present, Going
<1> QED
  BY <1>1, <1>2, <1>3, <1>4, <1>5 DEF Next

\* Who has one chat with the bot, whose handlers do not raise, can always
\* finish the conversation he is told to finish.
THEOREM CancelWorksInOneChat ==
    ASSUME ~MayRaise, NEW CONSTANT c, Chats = {c}
    PROVE  Spec => []CancelWorks
PROOF
<1>1. Init => Heard
  BY DEF Init, Heard, Free, Present, Nothing
<1>2. Inv /\ Heard /\ [Next]_vars => Heard'
  BY HeardNext
<1>3. Heard => CancelWorks
  BY DEF Heard, CancelWorks, Free, Going
<1> QED
  BY InvInit, InvNext, <1>1, <1>2, <1>3, PTL DEF Spec

=============================================================================
