-------------------------------- MODULE Users --------------------------------
(***************************************************************************)
(* A user's password and the secret key that protects it.  They come into  *)
(* being together, at the end of the conversation /password; from then on  *)
(* the password is changed, by the bot or by the REST API, by who gives    *)
(* the key, and by administrators, whose form shows the column password as *)
(* it is and writes back whatever stands in it.                            *)
(*                                                                         *)
(* The bot may run twice, as webhook and by polling (runbot): each process *)
(* has a dispatcher that handles one message after the other and remembers *)
(* conversations of its own.  The webhook's process is the one REST worker,*)
(* which serves the REST API and the admin site as well.                   *)
(*                                                                         *)
(* Hashing is one to one here (a salted hash of the password, and of the   *)
(* key in lower case), so a hash stands for what was hashed.               *)
(***************************************************************************)
EXTENDS Naturals

CONSTANTS
    Users,         \* telegram ids
    Dispatchers,   \* the processes that run the bot
    Worker,        \* ... the one of them that serves REST and the admin site
    Passwords,
    Raw,           \* a text an administrator types in: the hash of nothing
    Keys,          \* secret keys, in lower case
    MayRaise,      \* whether a reply to a message may raise
    MaxDeletes,    \* bound: deletions of users
    None

VARIABLES
    users,         \* table telegram_users: the ids of its rows
    phone,         \* ... those of them with a phone
    password,      \* ... its column password
    key,           \* table secret_keys: the value of each user's row
    dialog,        \* per dispatcher and user, where /password is
    typed,         \* ... the key and the password in its user_data, and, as a
                   \* history, whether the row they were given for is gone (late)
    form,          \* the user form an administrator has open: [user, shown]
    deletes,
    by,            \* history: the key that who wrote the password had given
    edited         \* history: users whose row was last written by an administrator
                   \* or by a conversation that is late

vars == <<users, phone, password, key, dialog, typed, form, deletes, by, edited>>

NoText == [key |-> None, password |-> None, late |-> FALSE]

ASSUME UsersAssumption ==
    /\ Worker \in Dispatchers
    /\ None \notin Passwords \cup Keys \cup {Raw}
    /\ Raw \notin Passwords
    /\ MayRaise \in BOOLEAN
    /\ MaxDeletes \in Nat

Init ==
    /\ users = {}
    /\ phone = {}
    /\ password = [u \in Users |-> None]
    /\ key = [u \in Users |-> None]
    /\ dialog = [d \in Dispatchers |-> [u \in Users |-> "none"]]
    /\ typed = [d \in Dispatchers |-> [u \in Users |-> NoText]]
    /\ form = None
    /\ deletes = 0
    /\ by = [u \in Users |-> None]
    /\ edited = {}

-----------------------------------------------------------------------------
(* try_create_password runs in a database transaction of two statements;   *)
(* in between the dispatcher is busy.                                      *)

Creating(d, u) == dialog[d][u] \in {"INSERTED", "UPDATED", "MISSED"}

Free(d) == \A u \in Users : ~Creating(d, u)

\* Another transaction has an uncommitted secret key for u.
KeyPending(d, u) == \E e \in Dispatchers \ {d} : Creating(e, u)

\* A transaction has changed the row of u and not committed.
Locked(u) == \E d \in Dispatchers : dialog[d][u] = "UPDATED"

Goto(d, u, state, text) ==
    /\ dialog' = [dialog EXCEPT ![d][u] = state]
    /\ typed' = [typed EXCEPT ![d][u] = text]

\* mark_conversation_end
End(d, u) == Goto(d, u, "none", NoText)

Tables == <<users, phone, password, key>>
History == <<deletes, by, edited>>

\* A message of u in the state state of /password reaches dispatcher d.
Message(d, u, state) == Free(d) /\ dialog[d][u] = state

-----------------------------------------------------------------------------
(* The conversation /password.                                             *)

\* authorize_user(phone=False) lets every user in.  A password without a key,
\* and a reply that raises, leave the user marked as busy without a
\* conversation ("STUCK").
handle_start(d, u) ==
    /\ Message(d, u, "none")
    /\ u \in users
    /\ \/ password[u] # None /\ key[u] # None /\ Goto(d, u, "SECRET_CONFIRMATION", NoText)
       \/ password[u] = None /\ Goto(d, u, "CREATING", NoText)
       \/ /\ MayRaise \/ (password[u] # None /\ key[u] = None)
          /\ Goto(d, u, "STUCK", NoText)
    /\ UNCHANGED <<Tables, form, History>>

\* Mutant: the value is looked for, its user is not.
KeyOfAnybody(u, k) == \E v \in Users : key[v] = k

\* is_secret_key_correct
IsKey(u, k) == key[u] = k

handle_confirmation_secret_key(d, u) ==
    /\ Message(d, u, "SECRET_CONFIRMATION")
    /\ \E k \in Keys :
          \/ IsKey(u, k) /\ Goto(d, u, "UPDATING", [NoText EXCEPT !.key = k])
          \/ ~IsKey(u, k) /\ End(d, u)
    /\ UNCHANGED <<Tables, form, History>>

\* A conversation of u writes his row, the one it is meant for or, late, another.
Writes(u, late) == edited' = IF late THEN edited \cup {u} ELSE edited \ {u}

\* TelegramUserRepository.update_password, by who has given the key k.
UpdatePassword(u, p, k, late) ==
    /\ ~Locked(u)
    /\ password' = IF u \in users THEN [password EXCEPT ![u] = p] ELSE password
    /\ by' = IF u \in users THEN [by EXCEPT ![u] = k] ELSE by
    /\ IF u \in users THEN Writes(u, late) ELSE UNCHANGED edited

\* The password, typed twice, is stored; the reply may raise, and the user
\* may answer again.
handle_confirmation_in_updating(d, u) ==
    /\ Message(d, u, "UPDATING")
    /\ \E p \in Passwords : UpdatePassword(u, p, typed[d][u].key, typed[d][u].late)
    /\ End(d, u) \/ (MayRaise /\ UNCHANGED <<dialog, typed>>)
    /\ UNCHANGED <<users, phone, key, form, deletes>>

\* Mutant: a second key takes the place of the first.
AnyRow(u) == u \in Users

\* secret_keys has one row per user.
OneToOne(u) == key[u] = None

\* Mutant: without a transaction.
InsertedAtOnce(d, u, text) == Goto(d, u, "INSERTED", text) /\ key' = [key EXCEPT ![u] = text.key]

Inserted(d, u, text) == Goto(d, u, "INSERTED", text) /\ UNCHANGED key

\* handle_confirmation_in_creating: INSERT INTO secret_keys; it waits for an
\* uncommitted one of the same user.
InsertKey(d, u) ==
    /\ Message(d, u, "CREATING")
    /\ ~KeyPending(d, u)
    /\ \E k \in Keys, p \in Passwords :
          \/ OneToOne(u) /\ Inserted(d, u, [key |-> k, password |-> p, late |-> u \notin users])
          \/ ~OneToOne(u) /\ UNCHANGED key
             /\ (End(d, u) \/ (MayRaise /\ UNCHANGED <<dialog, typed>>))
    /\ UNCHANGED <<users, phone, password, form, History>>

\* UPDATE telegram_users; no row, no error.
WritePassword(d, u) ==
    /\ dialog[d][u] = "INSERTED"
    /\ ~Locked(u)
    /\ dialog' = [dialog EXCEPT ![d][u] = IF u \in users THEN "UPDATED" ELSE "MISSED"]
    /\ UNCHANGED <<Tables, typed, form, History>>

\* COMMIT looks at the foreign key of the new row: the transaction's changes
\* are there, ...
Committed(u, text, updated) ==
    /\ u \in users
    /\ key' = [key EXCEPT ![u] = text.key]
    /\ password' = IF updated THEN [password EXCEPT ![u] = text.password] ELSE password
    /\ by' = IF updated THEN [by EXCEPT ![u] = text.key] ELSE by
    /\ Writes(u, text.late)

\* ... or none of them, and try_create_password returns False.
RolledBack(u) == u \notin users /\ UNCHANGED <<key, password, by, edited>>

CommitKey(d, u) ==
    /\ dialog[d][u] \in {"UPDATED", "MISSED"}
    /\ Committed(u, typed[d][u], dialog[d][u] = "UPDATED") \/ RolledBack(u)
    /\ End(d, u) \/ (MayRaise /\ Goto(d, u, "CREATING", NoText))
    /\ UNCHANGED <<users, phone, form, deletes>>

handle_cancel(d, u) ==
    /\ Free(d)
    /\ dialog[d][u] \in {"SECRET_CONFIRMATION", "UPDATING", "CREATING"}
    /\ End(d, u)
    /\ UNCHANGED <<Tables, form, History>>

\* The process is replaced; a transaction it had open is rolled back.
Restart(d) ==
    /\ dialog' = [dialog EXCEPT ![d] = [u \in Users |-> "none"]]
    /\ typed' = [typed EXCEPT ![d] = [u \in Users |-> NoText]]
    /\ UNCHANGED <<Tables, form, History>>

-----------------------------------------------------------------------------
(* Elsewhere.                                                              *)

\* /start: update_or_create.
Start(u) ==
    /\ u \notin users
    /\ \E d \in Dispatchers : Free(d)
    /\ users' = users \cup {u}
    /\ UNCHANGED <<phone, password, key, dialog, typed, form, History>>

\* A phone that is valid.
try_set_phone(u) ==
    /\ u \in users
    /\ phone' = phone \cup {u}
    /\ UNCHANGED <<users, password, key, dialog, typed, form, History>>

\* The end of the conversation /phone, which excludes /password meanwhile.
handle_phone(d, u) == Message(d, u, "none") /\ try_set_phone(u)

\* TelegramUserHandlers.update_phone, of who has a password to log in with.
RestPhone(u) == Free(Worker) /\ password[u] # None /\ try_set_phone(u)

\* TelegramUserHandlers.update_password, with the right key.
RestUpdate(u, k, p) ==
    /\ Free(Worker)
    /\ u \in users
    /\ IsKey(u, k)
    /\ UpdatePassword(u, p, k, FALSE)
    /\ UNCHANGED <<users, phone, key, dialog, typed, form, deletes>>

\* An administrator opens the form of a user, and saves it with the password
\* it showed, which may have changed since, or with a text typed over it (the
\* field must not be empty).
AdminOpen(u) ==
    /\ Free(Worker)
    /\ u \in users
    /\ form' = [user |-> u, shown |-> password[u]]
    /\ UNCHANGED <<Tables, dialog, typed, History>>

AdminSave ==
    /\ Free(Worker)
    /\ form # None
    /\ form.user \in users
    /\ ~Locked(form.user)
    /\ \E p \in {Raw, form.shown} \ {None} :
          \/ p = password[form.user] /\ UNCHANGED <<password, by, edited>>
          \/ /\ p # password[form.user]
             /\ password' = [password EXCEPT ![form.user] = p]
             /\ by' = [by EXCEPT ![form.user] = None]
             /\ edited' = edited \cup {form.user}
    /\ form' = None
    /\ UNCHANGED <<users, phone, key, dialog, typed, deletes>>

\* Mutant: a foreign key without CASCADE.
CascadeNothing(u) == UNCHANGED key

Cascade(u) == key' = [key EXCEPT ![u] = None]

\* The admin site deletes the user, and the key with him.
DeleteUser(u) ==
    /\ Free(Worker)
    /\ deletes < MaxDeletes
    /\ u \in users
    /\ ~Locked(u)
    /\ users' = users \ {u}
    /\ phone' = phone \ {u}
    /\ password' = [password EXCEPT ![u] = None]
    /\ Cascade(u)
    /\ deletes' = deletes + 1
    /\ by' = [by EXCEPT ![u] = None]
    /\ edited' = edited \ {u}
    /\ typed' = [d \in Dispatchers |->
          [typed[d] EXCEPT ![u].late = dialog[d][u] \in {"UPDATING", "INSERTED", "MISSED"}]]
    /\ UNCHANGED <<dialog, form>>

Next ==
    \/ \E d \in Dispatchers, u \in Users :
          \/ handle_start(d, u) \/ handle_confirmation_secret_key(d, u)
          \/ handle_confirmation_in_updating(d, u)
          \/ InsertKey(d, u) \/ WritePassword(d, u) \/ CommitKey(d, u)
          \/ handle_cancel(d, u) \/ handle_phone(d, u)
    \/ \E d \in Dispatchers : Restart(d)
    \/ \E u \in Users : Start(u) \/ RestPhone(u) \/ AdminOpen(u) \/ DeleteUser(u)
    \/ \E u \in Users, k \in Keys, p \in Passwords : RestUpdate(u, k, p)
    \/ AdminSave

Spec == Init /\ [][Next]_vars

-----------------------------------------------------------------------------
(* Properties.                                                             *)

States == {"none", "STUCK", "SECRET_CONFIRMATION", "UPDATING", "CREATING",
           "INSERTED", "UPDATED", "MISSED"}

\* Every variable keeps its type; a key and a password are somebody's.
TypeOK ==
    /\ users \subseteq Users /\ phone \subseteq users
    /\ password \in [Users -> Passwords \cup {Raw, None}]
    /\ key \in [Users -> Keys \cup {None}]
    /\ \A u \in Users : u \notin users => password[u] = None /\ key[u] = None
    /\ dialog \in [Dispatchers -> [Users -> States]]
    /\ typed \in [Dispatchers -> [Users ->
          [key : Keys \cup {None}, password : Passwords \cup {None}, late : BOOLEAN]]]
    /\ form \in [user : Users, shown : Passwords \cup {Raw, None}] \cup {None}
    /\ deletes \in 0..MaxDeletes
    /\ by \in [Users -> Keys \cup {None}]
    /\ edited \subseteq Users

\* Users whose row was last written by themselves, over REST or in a
\* conversation that was meant for this row.
Own == Users \ edited

\* However two processes, replies that raise and crashes meet, a user has a
\* password exactly when he has a secret key: with one and not the other
\* /password would be of no use to him ever again.
BothOrNeither == \A u \in Own : password[u] = None <=> key[u] = None

\* The password in place was written by who had given the key in place.
ProvedByKey == \A u \in Own : password[u] # None => by[u] = key[u]

\* A key lasts as long as its user: no second creation, in another chat or
\* process, replaces it.
KeyIsForLife == [][\A u \in users' : key[u] # None => key'[u] = key[u]]_vars

=============================================================================
