----------------------------- MODULE UsersProofs -----------------------------
(***************************************************************************)
(* Theorems about Users, for any users, keys, passwords and any number of  *)
(* processes that run the bot.                                             *)
(***************************************************************************)
EXTENDS Users, TLAPS

USE UsersAssumption

-----------------------------------------------------------------------------
(* Type correctness.                                                       *)

Texts == [key : Keys \cup {None}, password : Passwords \cup {None}, late : BOOLEAN]

LEMMA GotoDoes ==
    ASSUME TypeOK, NEW d \in Dispatchers, NEW u \in Users, NEW state \in States,
           NEW text \in Texts, Goto(d, u, state, text)
    PROVE  /\ dialog' \in [Dispatchers -> [Users -> States]]
           /\ typed' \in [Dispatchers -> [Users -> Texts]]
           /\ dialog'[d][u] = state /\ typed'[d][u] = text
           /\ \A e \in Dispatchers, v \in Users :
                 e # d \/ v # u => dialog'[e][v] = dialog[e][v] /\ typed'[e][v] = typed[e][v]
PROOF
<1>1. /\ dialog \in [Dispatchers -> [Users -> States]]
      /\ typed \in [Dispatchers -> [Users -> Texts]]
  BY DEF TypeOK, Texts
<1>2. /\ dialog' = [dialog EXCEPT ![d][u] = state]
      /\ typed' = [typed EXCEPT ![d][u] = text]
  BY DEF Goto
<1>3. dialog' \in [Dispatchers -> [Users -> States]]
  BY <1>1, <1>2
<1>4. typed' \in [Dispatchers -> [Users -> Texts]]
  BY <1>1, <1>2
<1>5. dialog'[d][u] = state /\ typed'[d][u] = text
  BY <1>1, <1>2
<1>6. \A e \in Dispatchers, v \in Users :
         e # d \/ v # u => dialog'[e][v] = dialog[e][v] /\ typed'[e][v] = typed[e][v]
  BY <1>1, <1>2
<1> QED
  BY <1>3, <1>4, <1>5, <1>6

LEMMA NoTextIsText == NoText \in Texts
PROOF
  BY DEF NoText, Texts

\* The tables keep their type when a user gets another password.
LEMMA PasswordType ==
    ASSUME TypeOK, NEW u \in Users, NEW p \in Passwords, NEW k \in Keys \cup {None},
           NEW late \in BOOLEAN, UpdatePassword(u, p, k, late), UNCHANGED users
    PROVE  /\ password' \in [Users -> Passwords \cup {Raw, None}]
           /\ by' \in [Users -> Keys \cup {None}]
           /\ edited' \subseteq Users
           /\ \A v \in Users : v \notin users' => password'[v] = password[v]
PROOF
  BY DEF TypeOK, UpdatePassword, Writes

\* A deleted user's texts stay what they were, but for being late.
LEMMA DeletedTexts ==
    ASSUME TypeOK, NEW u \in Users, DeleteUser(u)
    PROVE  /\ typed' \in [Dispatchers -> [Users -> Texts]]
           /\ \A d \in Dispatchers, v \in Users :
                 /\ v # u => typed'[d][v] = typed[d][v]
                 /\ typed'[d][v].key = typed[d][v].key
                 /\ typed'[d][v].password = typed[d][v].password
                 /\ dialog[d][u] \in {"UPDATING", "INSERTED", "MISSED"} => typed'[d][u].late
PROOF
<1> DEFINE late(d) == dialog[d][u] \in {"UPDATING", "INSERTED", "MISSED"}
           text(d) == [typed[d][u] EXCEPT !.late = late(d)]
<1>1. typed' = [d \in Dispatchers |-> [typed[d] EXCEPT ![u] = text(d)]]
  BY DEF DeleteUser
<1>2. ASSUME NEW d \in Dispatchers
      PROVE  /\ text(d) \in Texts /\ text(d).late = late(d)
             /\ text(d).key = typed[d][u].key /\ text(d).password = typed[d][u].password
  <2>1. typed[d][u] \in Texts
    BY DEF TypeOK, Texts
  <2>2. late(d) \in BOOLEAN
    OBVIOUS
  <2> HIDE DEF late
  <2> QED
    BY <2>1, <2>2 DEF Texts
<1> HIDE DEF text
<1>3. typed \in [Dispatchers -> [Users -> Texts]]
  BY DEF TypeOK, Texts
<1>4. \A d \in Dispatchers : /\ typed'[d] \in [Users -> Texts]
                            /\ typed'[d][u] = text(d)
                            /\ \A v \in Users : v # u => typed'[d][v] = typed[d][v]
  BY <1>1, <1>2, <1>3
<1>5. typed' \in [Dispatchers -> [Users -> Texts]]
  BY <1>1, <1>4
<1> QED
  BY <1>2, <1>4, <1>5

LEMMA TypeInit == Init => TypeOK
PROOF
  BY DEF Init, TypeOK, NoText, States

LEMMA TypeNext == TypeOK /\ [Next]_vars => TypeOK'
PROOF
<1> SUFFICES ASSUME TypeOK, [Next]_vars PROVE TypeOK'
  OBVIOUS
<1> USE DEF Tables, History
<1>1. ASSUME NEW d \in Dispatchers, NEW u \in Users, handle_start(d, u) PROVE TypeOK'
  <2>1. \E state \in States : Goto(d, u, state, NoText)
    BY <1>1 DEF handle_start, States
  <2>2. /\ dialog' \in [Dispatchers -> [Users -> States]]
        /\ typed' \in [Dispatchers -> [Users -> Texts]]
    BY <2>1, GotoDoes, NoTextIsText
  <2> QED
    BY <1>1, <2>2 DEF handle_start, TypeOK, Texts
<1>2. ASSUME NEW d \in Dispatchers, NEW u \in Users, handle_confirmation_secret_key(d, u)
      PROVE  TypeOK'
  <2>1. \E state \in States, text \in Texts : Goto(d, u, state, text)
    <3>1. \A k \in Keys : [NoText EXCEPT !.key = k] \in Texts
      BY NoTextIsText DEF Texts
    <3> QED
      BY <1>2, <3>1, NoTextIsText DEF handle_confirmation_secret_key, End, States
  <2>2. /\ dialog' \in [Dispatchers -> [Users -> States]]
        /\ typed' \in [Dispatchers -> [Users -> Texts]]
    BY <2>1, GotoDoes
  <2> QED
    BY <1>2, <2>2 DEF handle_confirmation_secret_key, TypeOK, Texts
<1>3. ASSUME NEW d \in Dispatchers, NEW u \in Users, handle_confirmation_in_updating(d, u)
      PROVE  TypeOK'
  <2>1. Goto(d, u, "none", NoText) \/ UNCHANGED <<dialog, typed>>
    BY <1>3 DEF handle_confirmation_in_updating, End
  <2>2. /\ dialog' \in [Dispatchers -> [Users -> States]]
        /\ typed' \in [Dispatchers -> [Users -> Texts]]
    BY <2>1, GotoDoes, NoTextIsText DEF States, TypeOK, Texts
  <2>3. typed[d][u].key \in Keys \cup {None} /\ typed[d][u].late \in BOOLEAN
    BY DEF TypeOK
  <2>4. /\ password' \in [Users -> Passwords \cup {Raw, None}]
        /\ by' \in [Users -> Keys \cup {None}]
        /\ edited' \subseteq Users
        /\ \A v \in Users : v \notin users' => password'[v] = password[v]
    BY <1>3, <2>3, PasswordType DEF handle_confirmation_in_updating
  <2> QED
    BY <1>3, <2>2, <2>4 DEF handle_confirmation_in_updating, TypeOK, Texts
<1>4. ASSUME NEW d \in Dispatchers, NEW u \in Users, InsertKey(d, u) PROVE TypeOK'
  <2>1. \/ \E state \in States, text \in Texts : Goto(d, u, state, text)
        \/ UNCHANGED <<dialog, typed>>
    BY <1>4, NoTextIsText DEF InsertKey, Inserted, End, States, Texts
  <2>2. /\ dialog' \in [Dispatchers -> [Users -> States]]
        /\ typed' \in [Dispatchers -> [Users -> Texts]]
    BY <2>1, GotoDoes DEF TypeOK, Texts
  <2>3. UNCHANGED <<users, phone, password, key, form, deletes, by, edited>>
    BY <1>4 DEF InsertKey, Inserted
  <2> QED
    BY <2>2, <2>3 DEF TypeOK, Texts
<1>5. ASSUME NEW d \in Dispatchers, NEW u \in Users, WritePassword(d, u) PROVE TypeOK'
  <2>1. dialog' \in [Dispatchers -> [Users -> States]]
    BY <1>5 DEF WritePassword, TypeOK, States
  <2> QED
    BY <1>5, <2>1 DEF WritePassword, TypeOK
<1>6. ASSUME NEW d \in Dispatchers, NEW u \in Users, CommitKey(d, u) PROVE TypeOK'
  <2>1. \E state \in States : Goto(d, u, state, NoText)
    BY <1>6 DEF CommitKey, End, States
  <2>2. /\ dialog' \in [Dispatchers -> [Users -> States]]
        /\ typed' \in [Dispatchers -> [Users -> Texts]]
    BY <2>1, GotoDoes, NoTextIsText
  <2>3. typed[d][u].key \in Keys \cup {None} /\ typed[d][u].password \in Passwords \cup {None}
    BY DEF TypeOK
  <2>4. CASE RolledBack(u)
    BY <1>6, <2>2, <2>4 DEF CommitKey, RolledBack, TypeOK, Texts
  <2>5. CASE Committed(u, typed[d][u], dialog[d][u] = "UPDATED")
    <3>1. u \in users /\ key' \in [Users -> Keys \cup {None}]
          /\ \A v \in Users : v # u => key'[v] = key[v]
      BY <2>3, <2>5 DEF Committed, TypeOK
    <3>2. password' \in [Users -> Passwords \cup {Raw, None}]
          /\ \A v \in Users : v # u => password'[v] = password[v]
      BY <2>3, <2>5 DEF Committed, TypeOK
    <3>3. by' \in [Users -> Keys \cup {None}] /\ edited' \subseteq Users
      BY <2>3, <2>5 DEF Committed, Writes, TypeOK
    <3> QED
      BY <1>6, <2>2, <3>1, <3>2, <3>3 DEF CommitKey, TypeOK, Texts
  <2> QED
    BY <1>6, <2>4, <2>5 DEF CommitKey
<1>7. ASSUME NEW d \in Dispatchers, NEW u \in Users, handle_cancel(d, u) PROVE TypeOK'
  <2>1. /\ dialog' \in [Dispatchers -> [Users -> States]]
        /\ typed' \in [Dispatchers -> [Users -> Texts]]
    BY <1>7, GotoDoes, NoTextIsText DEF handle_cancel, End, States
  <2> QED
    BY <1>7, <2>1 DEF handle_cancel, TypeOK, Texts
<1>8. ASSUME NEW d \in Dispatchers, Restart(d) PROVE TypeOK'
  <2>1. /\ dialog' \in [Dispatchers -> [Users -> States]]
        /\ typed' \in [Dispatchers -> [Users -> Texts]]
    BY <1>8, NoTextIsText DEF Restart, TypeOK, Texts, States
  <2> QED
    BY <1>8, <2>1 DEF Restart, TypeOK, Texts
<1>9. ASSUME NEW u \in Users, Start(u) PROVE TypeOK'
  BY <1>9 DEF Start, TypeOK
<1>10. ASSUME NEW u \in Users, AdminOpen(u) PROVE TypeOK'
  BY <1>10 DEF AdminOpen, TypeOK
<1>11. ASSUME NEW u \in Users, DeleteUser(u) PROVE TypeOK'
  <2>1. /\ password' \in [Users -> Passwords \cup {Raw, None}]
        /\ key' \in [Users -> Keys \cup {None}]
        /\ by' \in [Users -> Keys \cup {None}]
        /\ password'[u] = None /\ key'[u] = None
        /\ \A v \in Users : v # u => password'[v] = password[v] /\ key'[v] = key[v]
    BY <1>11 DEF DeleteUser, Cascade, TypeOK
  <2>2. deletes' \in 0..MaxDeletes
    BY <1>11 DEF DeleteUser, TypeOK
  <2>3. edited' \subseteq Users /\ users' = users \ {u} /\ phone' \subseteq users'
    BY <1>11 DEF DeleteUser, TypeOK
  <2>4. typed' \in [Dispatchers -> [Users -> Texts]] /\ UNCHANGED <<dialog, form>>
    BY <1>11, DeletedTexts DEF DeleteUser
  <2> QED
    BY <2>1, <2>2, <2>3, <2>4 DEF TypeOK, Texts
<1>12. ASSUME NEW u \in Users, NEW k \in Keys, NEW p \in Passwords, RestUpdate(u, k, p)
       PROVE  TypeOK'
  <2>1. /\ UpdatePassword(u, p, k, FALSE)
        /\ UNCHANGED <<users, phone, key, dialog, typed, form, deletes>>
    BY <1>12 DEF RestUpdate
  <2>2. /\ password' \in [Users -> Passwords \cup {Raw, None}]
        /\ by' \in [Users -> Keys \cup {None}]
        /\ edited' \subseteq Users
        /\ \A v \in Users : v \notin users' => password'[v] = password[v]
    BY <2>1, PasswordType
  <2> QED
    BY <2>1, <2>2 DEF TypeOK
<1>13. CASE AdminSave
  <2>1. form.user \in users /\ {Raw, form.shown} \ {None} \subseteq Passwords \cup {Raw}
    BY <1>13 DEF AdminSave, TypeOK
  <2>2. /\ password' \in [Users -> Passwords \cup {Raw, None}]
        /\ by' \in [Users -> Keys \cup {None}]
        /\ \A v \in Users : v \notin users => password'[v] = password[v]
        /\ edited' \subseteq Users
    BY <1>13, <2>1 DEF AdminSave, TypeOK
  <2> QED
    BY <1>13, <2>2 DEF AdminSave, TypeOK
<1>14. ASSUME NEW u \in Users, try_set_phone(u) PROVE TypeOK'
  BY <1>14 DEF try_set_phone, TypeOK
<1>15. CASE UNCHANGED vars
  BY <1>15 DEF vars, TypeOK
<1> QED
  BY <1>1, <1>2, <1>3, <1>4, <1>5, <1>6, <1>7, <1>8, <1>9, <1>10, <1>11, <1>12,
     <1>13, <1>14, <1>15 DEF Next, handle_phone, RestPhone

\* The variables keep their types, and neither a password nor a key outlives
\* its user, in any number of processes.
THEOREM TypeCorrect == Spec => []TypeOK
PROOF
<1> QED
  BY TypeInit, TypeNext, PTL DEF Spec

-----------------------------------------------------------------------------
(* Password and key.                                                       *)

\* What a conversation that has come to its state relies on.
Conversation(d, u) ==
    /\ dialog[d][u] = "INSERTED" => u \in users \/ typed[d][u].late
    /\ dialog[d][u] = "MISSED" => typed[d][u].late
    /\ dialog[d][u] = "UPDATED" => u \in users
    /\ dialog[d][u] = "UPDATING" =>
          typed[d][u].key # None /\ (typed[d][u].late \/ typed[d][u].key = key[u])
    /\ Creating(d, u) =>
          /\ key[u] = None
          /\ typed[d][u].key # None /\ typed[d][u].password # None
          /\ \A e \in Dispatchers : Creating(e, u) => e = d

Conversations == \A d \in Dispatchers, u \in Users : Conversation(d, u)

Inv == Conversations /\ BothOrNeither /\ ProvedByKey

LEMMA InvInit == Init => Inv
PROOF
  BY DEF Init, Inv, Conversations, Conversation, Creating, BothOrNeither, ProvedByKey

\* A conversation moves to a state outside the transaction; no table changes.
LEMMA Talk ==
    ASSUME TypeOK, Inv, NEW d \in Dispatchers, NEW u \in Users, NEW text \in Texts,
           NEW state \in {"none", "STUCK", "SECRET_CONFIRMATION", "UPDATING", "CREATING"},
           Goto(d, u, state, text),
           state = "UPDATING" => text.key # None /\ text.key = key[u],
           UNCHANGED <<users, password, key, by, edited>>
    PROVE  Inv'
PROOF
<1>1. /\ dialog'[d][u] = state /\ typed'[d][u] = text
      /\ \A e \in Dispatchers, v \in Users :
            e # d \/ v # u => dialog'[e][v] = dialog[e][v] /\ typed'[e][v] = typed[e][v]
  BY GotoDoes DEF States
<1>2. ~Creating(d, u)'
  BY <1>1 DEF Creating
<1>3. \A e \in Dispatchers, v \in Users : e # d \/ v # u => Creating(e, v)' = Creating(e, v)
  BY <1>1 DEF Creating
<1>4. Conversation(d, u)'
  BY <1>1, <1>2 DEF Conversation
<1>5. ASSUME NEW e \in Dispatchers, NEW v \in Users, e # d \/ v # u
      PROVE  Conversation(e, v)'
  <2>1. Conversation(e, v)
    BY DEF Inv, Conversations
  <2> QED
    BY <1>1, <1>2, <1>3, <1>5, <2>1 DEF Conversation
<1>6. Conversations'
  BY <1>4, <1>5 DEF Conversations
<1> QED
  BY <1>6 DEF Inv, BothOrNeither, ProvedByKey, Own

\* A password written by who has given the key in place; conversations go on
\* as they were.
LEMMA Written ==
    ASSUME TypeOK, Inv, NEW u \in Users, NEW p \in Passwords, NEW k \in Keys,
           NEW late \in BOOLEAN, UpdatePassword(u, p, k, late), late \/ key[u] = k,
           UNCHANGED <<users, key>>
    PROVE  BothOrNeither' /\ ProvedByKey'
PROOF
<1>1. CASE u \in users
  <2>1. /\ password'[u] = p /\ by'[u] = k
        /\ edited' = IF late THEN edited \cup {u} ELSE edited \ {u}
        /\ \A v \in Users : v # u => password'[v] = password[v] /\ by'[v] = by[v]
    BY <1>1 DEF UpdatePassword, Writes, TypeOK
  <2> QED
    BY <2>1 DEF Inv, BothOrNeither, ProvedByKey, Own
<1>2. CASE u \notin users
  BY <1>2 DEF UpdatePassword, Inv, BothOrNeither, ProvedByKey, Own
<1> QED
  BY <1>1, <1>2

LEMMA InvNext == TypeOK /\ Inv /\ [Next]_vars => Inv'
PROOF
<1> SUFFICES ASSUME TypeOK, Inv, [Next]_vars PROVE Inv'
  OBVIOUS
<1> USE DEF Tables, History
<1>1. ASSUME NEW d \in Dispatchers, NEW u \in Users, handle_start(d, u) PROVE Inv'
  <2>1. PICK state \in {"SECRET_CONFIRMATION", "CREATING", "STUCK"} : Goto(d, u, state, NoText)
    BY <1>1 DEF handle_start
  <2> QED
    BY <1>1, <2>1, Talk, NoTextIsText DEF handle_start
<1>2. ASSUME NEW d \in Dispatchers, NEW u \in Users, handle_confirmation_secret_key(d, u)
      PROVE  Inv'
  <2>1. UNCHANGED <<users, password, key, by, edited>>
    BY <1>2 DEF handle_confirmation_secret_key
  <2>2. CASE End(d, u)
    BY <2>1, <2>2, Talk, NoTextIsText DEF End
  <2>3. ASSUME NEW k \in Keys, IsKey(u, k), Goto(d, u, "UPDATING", [NoText EXCEPT !.key = k])
        PROVE  Inv'
    <3> DEFINE text == [NoText EXCEPT !.key = k]
    <3>1. text \in Texts /\ text.key # None /\ text.key = key[u]
      BY <2>3, NoTextIsText DEF IsKey, Texts
    <3>2. Goto(d, u, "UPDATING", text)
      BY <2>3
    <3> HIDE DEF text
    <3> QED
      BY <2>1, <3>1, <3>2, Talk
  <2> QED
    BY <1>2, <2>2, <2>3 DEF handle_confirmation_secret_key
<1>3. ASSUME NEW d \in Dispatchers, NEW u \in Users, handle_confirmation_in_updating(d, u)
      PROVE  Inv'
  <2> DEFINE k == typed[d][u].key
             late == typed[d][u].late
  <2>1. PICK p \in Passwords : UpdatePassword(u, p, k, late)
    BY <1>3 DEF handle_confirmation_in_updating
  <2>2. /\ dialog[d][u] = "UPDATING" /\ UNCHANGED <<users, key>>
        /\ Goto(d, u, "none", NoText) \/ UNCHANGED <<dialog, typed>>
    BY <1>3 DEF handle_confirmation_in_updating, Message, End
  <2>3. k \in Keys /\ late \in BOOLEAN /\ (late \/ key[u] = k)
    BY <2>2 DEF Inv, Conversations, Conversation, TypeOK
  <2> HIDE DEF k, late
  <2>4. BothOrNeither' /\ ProvedByKey'
    BY <2>1, <2>2, <2>3, Written
  <2>5. CASE UNCHANGED <<dialog, typed>>
    BY <2>2, <2>4, <2>5 DEF Inv, Conversations, Conversation, Creating
  <2>6. CASE Goto(d, u, "none", NoText)
    <3>1. /\ dialog'[d][u] = "none" /\ typed'[d][u] = NoText
          /\ \A e \in Dispatchers, v \in Users :
                e # d \/ v # u => dialog'[e][v] = dialog[e][v] /\ typed'[e][v] = typed[e][v]
      BY <2>6, GotoDoes, NoTextIsText DEF States
    <3>2. \A e \in Dispatchers, v \in Users : Conversation(e, v)'
      BY <2>2, <3>1 DEF Inv, Conversations, Conversation, Creating
    <3> QED
      BY <2>4, <3>2 DEF Inv, Conversations
  <2> QED
    BY <2>2, <2>5, <2>6
<1>4. ASSUME NEW d \in Dispatchers, NEW u \in Users, InsertKey(d, u) PROVE Inv'
  <2>1. /\ dialog[d][u] = "CREATING" /\ ~KeyPending(d, u)
        /\ UNCHANGED <<users, password, key, by, edited>>
    BY <1>4 DEF InsertKey, Inserted, Message
  <2>2. CASE End(d, u)
    BY <2>1, <2>2, Talk, NoTextIsText DEF End
  <2>3. CASE UNCHANGED <<dialog, typed>>
    BY <2>1, <2>3 DEF Inv, Conversations, Conversation, Creating, BothOrNeither, ProvedByKey, Own
  <2>4. ASSUME NEW k \in Keys, NEW p \in Passwords, OneToOne(u),
               Inserted(d, u, [key |-> k, password |-> p, late |-> u \notin users])
        PROVE  Inv'
    <3> DEFINE text == [key |-> k, password |-> p, late |-> u \notin users]
    <3>1. /\ text \in Texts /\ text.key # None /\ text.password # None
          /\ u \in users \/ text.late
          /\ Goto(d, u, "INSERTED", text)
      BY <2>4 DEF Texts, Inserted
    <3> HIDE DEF text
    <3>2. /\ dialog'[d][u] = "INSERTED" /\ typed'[d][u] = text
          /\ \A e \in Dispatchers, v \in Users :
                e # d \/ v # u => dialog'[e][v] = dialog[e][v] /\ typed'[e][v] = typed[e][v]
      BY <3>1, GotoDoes DEF States
    <3>3. \A e \in Dispatchers : e # d => ~Creating(e, u) /\ ~Creating(e, u)'
      BY <2>1, <3>2 DEF KeyPending, Creating
    <3>4. Conversation(d, u)'
      BY <2>1, <2>4, <3>1, <3>2, <3>3 DEF Conversation, OneToOne
    <3>5. ASSUME NEW e \in Dispatchers, NEW v \in Users, e # d \/ v # u
          PROVE  Conversation(e, v)'
      <4>1. Conversation(e, v) /\ dialog'[e][v] = dialog[e][v] /\ typed'[e][v] = typed[e][v]
        BY <3>2, <3>5 DEF Inv, Conversations
      <4>2. Creating(e, v)' => Creating(e, v) /\ v # u
        BY <3>3, <3>5, <4>1 DEF Creating
      <4>3. v # u => \A f \in Dispatchers : Creating(f, v)' => Creating(f, v)
        BY <3>2 DEF Creating
      <4> QED
        BY <2>1, <4>1, <4>2, <4>3 DEF Conversation
    <3>6. Conversations'
      BY <3>4, <3>5 DEF Conversations
    <3> QED
      BY <2>1, <3>6 DEF Inv, BothOrNeither, ProvedByKey, Own
  <2> QED
    BY <1>4, <2>2, <2>3, <2>4 DEF InsertKey
<1>5. ASSUME NEW d \in Dispatchers, NEW u \in Users, WritePassword(d, u) PROVE Inv'
  <2> DEFINE state == IF u \in users THEN "UPDATED" ELSE "MISSED"
  <2>1. /\ dialog[d][u] = "INSERTED" /\ dialog' = [dialog EXCEPT ![d][u] = state]
        /\ UNCHANGED <<users, password, key, typed, by, edited>>
    BY <1>5 DEF WritePassword
  <2>2. /\ dialog'[d][u] = state
        /\ \A e \in Dispatchers, v \in Users :
              e # d \/ v # u => dialog'[e][v] = dialog[e][v]
    BY <2>1 DEF TypeOK
  <2>3. \A e \in Dispatchers, v \in Users : Creating(e, v)' = Creating(e, v)
    BY <2>1, <2>2 DEF Creating
  <2>4. \A e \in Dispatchers, v \in Users : Conversation(e, v)
    BY DEF Inv, Conversations
  <2>5. Conversation(d, u)'
    BY <2>1, <2>2, <2>3, <2>4 DEF Conversation
  <2>6. \A e \in Dispatchers, v \in Users : e # d \/ v # u => Conversation(e, v)'
    BY <2>1, <2>2, <2>3, <2>4 DEF Conversation
  <2> QED
    BY <2>1, <2>5, <2>6 DEF Inv, Conversations, BothOrNeither, ProvedByKey, Own
<1>6. ASSUME NEW d \in Dispatchers, NEW u \in Users, CommitKey(d, u) PROVE Inv'
  <2>1. /\ Creating(d, u) /\ UNCHANGED users
        /\ dialog[d][u] \in {"UPDATED", "MISSED"}
        /\ \/ Committed(u, typed[d][u], dialog[d][u] = "UPDATED")
           \/ RolledBack(u)
    BY <1>6 DEF CommitKey, Creating
  <2>2. PICK state \in {"none", "CREATING"} : Goto(d, u, state, NoText)
    BY <1>6 DEF CommitKey, End
  <2>3. /\ dialog'[d][u] = state /\ typed'[d][u] = NoText
        /\ \A e \in Dispatchers, v \in Users :
              e # d \/ v # u => dialog'[e][v] = dialog[e][v] /\ typed'[e][v] = typed[e][v]
    BY <2>2, GotoDoes, NoTextIsText DEF States
  <2>4. /\ key[u] = None /\ typed[d][u].key # None /\ typed[d][u].password # None
        /\ \A e \in Dispatchers : Creating(e, u) => e = d
        /\ typed[d][u].late \in BOOLEAN
        /\ dialog[d][u] = "MISSED" => typed[d][u].late
    BY <2>1 DEF Inv, Conversations, Conversation, Creating, TypeOK
  <2>5. \A v \in Users : v # u =>
           /\ key'[v] = key[v] /\ password'[v] = password[v] /\ by'[v] = by[v]
           /\ v \in edited' <=> v \in edited
    BY <2>1 DEF Committed, RolledBack, Writes, TypeOK
  <2>6. Conversation(d, u)'
    BY <2>1, <2>3, <2>4 DEF Conversation, Creating
  <2>7. ASSUME NEW e \in Dispatchers, NEW v \in Users, e # d \/ v # u
        PROVE  Conversation(e, v)'
    <3>1. Conversation(e, v) /\ dialog'[e][v] = dialog[e][v] /\ typed'[e][v] = typed[e][v]
      BY <2>3, <2>7 DEF Inv, Conversations
    <3>2. \A f \in Dispatchers : Creating(f, v)' => Creating(f, v)
      BY <2>1, <2>3 DEF Creating
    <3>3. CASE v # u
      BY <2>1, <2>5, <3>1, <3>2, <3>3 DEF Conversation
    <3>4. CASE v = u
      <4>1. ~Creating(e, v) /\ ~Creating(e, v)'
        BY <2>4, <2>7, <3>2, <3>4
      <4> QED
        BY <2>1, <2>4, <3>1, <3>4, <4>1 DEF Conversation
    <3> QED
      BY <3>3, <3>4
  <2>8. Conversations'
    BY <2>6, <2>7 DEF Conversations
  <2>9. BothOrNeither' /\ ProvedByKey'
    <3>1. CASE RolledBack(u)
      BY <2>1, <3>1 DEF RolledBack, Inv, BothOrNeither, ProvedByKey, Own
    <3>2. CASE Committed(u, typed[d][u], dialog[d][u] = "UPDATED") /\ typed[d][u].late
      <4>1. u \in edited'
        BY <3>2 DEF Committed, Writes
      <4> QED
        BY <2>5, <4>1 DEF Inv, BothOrNeither, ProvedByKey, Own
    <3>3. CASE Committed(u, typed[d][u], dialog[d][u] = "UPDATED") /\ dialog[d][u] = "UPDATED"
      <4>1. key'[u] # None /\ password'[u] # None /\ by'[u] = key'[u]
        BY <2>4, <3>3 DEF Committed, TypeOK
      <4> QED
        BY <2>1, <2>5, <4>1 DEF Inv, BothOrNeither, ProvedByKey, Own
    <3> QED
      BY <2>1, <2>4, <3>1, <3>2, <3>3
  <2> QED
    BY <2>8, <2>9 DEF Inv
<1>7. ASSUME NEW d \in Dispatchers, NEW u \in Users, handle_cancel(d, u) PROVE Inv'
  BY <1>7, Talk, NoTextIsText DEF handle_cancel, End
<1>8. ASSUME NEW d \in Dispatchers, Restart(d) PROVE Inv'
  <2>1. /\ \A v \in Users : dialog'[d][v] = "none"
        /\ \A e \in Dispatchers, v \in Users :
              e # d => dialog'[e][v] = dialog[e][v] /\ typed'[e][v] = typed[e][v]
        /\ UNCHANGED <<users, password, key, by, edited>>
    BY <1>8 DEF Restart, TypeOK
  <2>2. \A e \in Dispatchers, v \in Users :
           Creating(e, v)' => Creating(e, v) /\ e # d
    BY <2>1 DEF Creating
  <2>3. ASSUME NEW e \in Dispatchers, NEW v \in Users PROVE Conversation(e, v)'
    <3>1. Conversation(e, v)
      BY DEF Inv, Conversations
    <3>2. CASE e = d
      BY <2>1, <2>2, <3>2 DEF Conversation
    <3>3. CASE e # d
      BY <2>1, <2>2, <3>1, <3>3 DEF Conversation
    <3> QED
      BY <3>2, <3>3
  <2> QED
    BY <2>1, <2>3 DEF Inv, Conversations, BothOrNeither, ProvedByKey, Own
<1>9. ASSUME NEW u \in Users, Start(u) PROVE Inv'
  BY <1>9 DEF Start, Inv, Conversations, Conversation, Creating, BothOrNeither, ProvedByKey, Own
<1>10. ASSUME NEW u \in Users, AdminOpen(u) PROVE Inv'
  BY <1>10 DEF AdminOpen, Inv, Conversations, Conversation, Creating, BothOrNeither,
               ProvedByKey, Own
<1>11. ASSUME NEW u \in Users, DeleteUser(u) PROVE Inv'
  <2>1. /\ password'[u] = None /\ key'[u] = None
        /\ \A v \in Users : v # u => password'[v] = password[v] /\ key'[v] = key[v] /\ by'[v] = by[v]
        /\ users' = users \ {u} /\ edited' = edited \ {u}
        /\ UNCHANGED dialog
    BY <1>11 DEF DeleteUser, Cascade, TypeOK
  <2>2. \A d \in Dispatchers, v \in Users :
           /\ v # u => typed'[d][v] = typed[d][v]
           /\ typed'[d][v].key = typed[d][v].key /\ typed'[d][v].password = typed[d][v].password
           /\ dialog[d][u] \in {"UPDATING", "INSERTED", "MISSED"} => typed'[d][u].late
           /\ dialog[d][u] # "UPDATED"
    <3>1. \A d \in Dispatchers : dialog[d][u] # "UPDATED"
      BY <1>11 DEF DeleteUser, Locked
    <3> QED
      BY <1>11, <3>1, DeletedTexts
  <2>3. ASSUME NEW d \in Dispatchers, NEW v \in Users PROVE Conversation(d, v)'
    <3>1. Conversation(d, v) /\ \A e \in Dispatchers : Creating(e, v)' = Creating(e, v)
      BY <2>1 DEF Inv, Conversations, Creating
    <3> QED
      BY <2>1, <2>2, <3>1 DEF Conversation
  <2> QED
    BY <2>1, <2>2, <2>3 DEF Inv, Conversations, BothOrNeither, ProvedByKey, Own
<1>12. ASSUME NEW u \in Users, NEW k \in Keys, NEW p \in Passwords, RestUpdate(u, k, p)
       PROVE  Inv'
  <2>1. /\ UpdatePassword(u, p, k, FALSE) /\ key[u] = k
        /\ UNCHANGED <<users, key, dialog, typed>>
    BY <1>12 DEF RestUpdate, IsKey
  <2>2. BothOrNeither' /\ ProvedByKey'
    BY <2>1, Written
  <2> QED
    BY <2>1, <2>2 DEF Inv, Conversations, Conversation, Creating
<1>13. CASE AdminSave
  <2>1. form.user \in Users /\ UNCHANGED <<users, key, dialog, typed>>
    BY <1>13 DEF AdminSave, TypeOK
  <2>2. \A v \in Users \ edited' : /\ v \notin edited
                                  /\ password'[v] = password[v] /\ by'[v] = by[v]
    BY <1>13, <2>1 DEF AdminSave, TypeOK
  <2> QED
    BY <2>1, <2>2 DEF Inv, Conversations, Conversation, Creating, BothOrNeither, ProvedByKey, Own
<1>14. ASSUME NEW u \in Users, try_set_phone(u) PROVE Inv'
  BY <1>14 DEF try_set_phone, Inv, Conversations, Conversation, Creating, BothOrNeither,
               ProvedByKey, Own
<1>15. CASE UNCHANGED vars
  BY <1>15 DEF vars, Inv, Conversations, Conversation, Creating, BothOrNeither, ProvedByKey, Own
<1> QED
  BY <1>1, <1>2, <1>3, <1>4, <1>5, <1>6, <1>7, <1>8, <1>9, <1>10, <1>11, <1>12,
     <1>13, <1>14, <1>15 DEF Next, handle_phone, RestPhone

\* Unless an administrator or a conversation begun for an earlier row wrote his
\* row last, a user has a password exactly when he has a secret key, however
\* many processes create them at once.
THEOREM BothOrNone == Spec => []BothOrNeither
PROOF
<1>1. Inv => BothOrNeither
  BY DEF Inv
<1> QED
  BY TypeInit, TypeNext, InvInit, InvNext, <1>1, PTL DEF Spec

\* ... and the password was written by who had given the key in place.
THEOREM PasswordIsProved == Spec => []ProvedByKey
PROOF
<1>1. Inv => ProvedByKey
  BY DEF Inv
<1> QED
  BY TypeInit, TypeNext, InvInit, InvNext, <1>1, PTL DEF Spec

\* A key changes only from none to one, or goes with its user.
LEMMA KeyStep ==
    TypeOK /\ Inv /\ [Next]_vars => \A u \in users' : key[u] # None => key'[u] = key[u]
PROOF
<1> SUFFICES ASSUME TypeOK, Inv, [Next]_vars, NEW u \in users', key[u] # None
             PROVE  key'[u] = key[u]
  OBVIOUS
<1> USE DEF Tables, History
<1>1. ASSUME NEW d \in Dispatchers, NEW v \in Users, CommitKey(d, v) PROVE key'[u] = key[u]
  <2>1. Creating(d, v)
    BY <1>1 DEF CommitKey, Creating
  <2>2. key[v] = None
    BY <2>1 DEF Inv, Conversations, Conversation
  <2> QED
    BY <1>1, <2>2 DEF CommitKey, Committed, RolledBack, TypeOK
<1>2. ASSUME NEW v \in Users, DeleteUser(v) PROVE key'[u] = key[u]
  BY <1>2 DEF DeleteUser, Cascade, TypeOK
<1>3. ASSUME NEW d \in Dispatchers, NEW v \in Users,
             \/ handle_start(d, v) \/ handle_confirmation_secret_key(d, v)
             \/ handle_confirmation_in_updating(d, v)
             \/ InsertKey(d, v) \/ WritePassword(d, v) \/ handle_cancel(d, v)
      PROVE  key' = key
  BY <1>3 DEF handle_start, handle_confirmation_secret_key, handle_confirmation_in_updating,
              InsertKey, Inserted, WritePassword, handle_cancel
<1>4. ASSUME NEW d \in Dispatchers, Restart(d) PROVE key' = key
  BY <1>4 DEF Restart
<1>5. ASSUME NEW v \in Users, Start(v) \/ AdminOpen(v) PROVE key' = key
  BY <1>5 DEF Start, AdminOpen
<1>6. ASSUME NEW v \in Users, NEW k \in Keys, NEW p \in Passwords, RestUpdate(v, k, p)
      PROVE  key' = key
  BY <1>6 DEF RestUpdate
<1>7. ASSUME NEW v \in Users, try_set_phone(v) PROVE key' = key
  BY <1>7 DEF try_set_phone
<1>8. AdminSave \/ UNCHANGED vars => key' = key
  BY DEF AdminSave, vars
<1> QED
  BY <1>1, <1>2, <1>3, <1>4, <1>5, <1>6, <1>7, <1>8 DEF Next, handle_phone, RestPhone

\* No second creation, in whatever process, replaces the key of a user.
THEOREM KeyLasts == Spec => KeyIsForLife
PROOF
<1> QED
  BY TypeInit, TypeNext, InvInit, InvNext, KeyStep, PTL DEF Spec, KeyIsForLife

=============================================================================
