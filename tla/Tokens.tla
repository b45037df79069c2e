-------------------------------- MODULE Tokens --------------------------------
(***************************************************************************)
(* Login and refresh on the one REST worker.  /auth/login makes a pair of  *)
(* tokens; /auth/refresh exchanges the refresh token in the cookie for a   *)
(* new pair: it revokes the row of the old token in one statement and      *)
(* creates the row of the new one in another, in autocommit mode.  A token *)
(* that is presented again after it was revoked revokes all tokens of its  *)
(* user.  Access tokens are not stored: until they are ACCESS_TTL old they *)
(* stand for the user with their telegram_id, whatever became of the       *)
(* refresh token that came with them.                                      *)
(*                                                                         *)
(* Answers may be lost, the worker may die between the two statements, and *)
(* a client may send a request with a cookie that another answer has       *)
(* replaced meanwhile (two tabs, a retry).  Requests that are refused with *)
(* 400 or 401 change nothing and are left out.                             *)
(***************************************************************************)
EXTENDS Naturals, Sequences

CONSTANTS
    Users,         \* telegram ids
    Clients,       \* browsers and apps, each with a cookie
    ACCESS_TTL,
    REFRESH_TTL,
    Faults,        \* what goes wrong: subset of {"lost", "late", "crash"}
    MaxTokens,     \* bound: pairs of tokens made
    MaxTime,       \* bound: the clock
    None

VARIABLES
    users,         \* table telegram_users: the ids of its rows
    issued,        \* every pair of tokens made: what their payloads say (user,
                   \* created), and the first pair of its session (login)
    rows,          \* table refresh_tokens: its rows
    revoked,       \* ... and those with revoked set
    held,          \* the pairs each client was answered with; the cookie
                   \* is the last of them
    clock,
    exchanging,    \* the token whose exchange is between its two statements
    client,        \* who asked for it
    shut,          \* history: when all tokens of a user were last revoked
                   \* because one was presented again; None since a login
    mishaps        \* history: users to whom a fault happened in an exchange

vars == <<users, issued, rows, revoked, held, clock, exchanging, client, shut, mishaps>>

Ids == 1..MaxTokens

ASSUME TokensAssumption ==
    /\ MaxTokens \in Nat /\ MaxTime \in Nat
    /\ ACCESS_TTL \in Nat /\ REFRESH_TTL \in Nat
    /\ None \notin Nat
    /\ None \notin Clients

Init ==
    /\ users = Users
    /\ issued = <<>>
    /\ rows = {}
    /\ revoked = {}
    /\ held = [c \in Clients |-> {}]
    /\ clock = 0
    /\ exchanging = None
    /\ client = None
    /\ shut = [u \in Users |-> None]
    /\ mishaps = {}

RowsOf(u) == {t \in rows : issued[t].user = u}
Idle == exchanging = None

\* The cookie REFRESH_TOKEN_COOKIE of a client.
IsCookie(c, t) == t \in held[c] /\ \A s \in held[c] : s <= t

\* is_token_alive
Alive(t, ttl) == clock - issued[t].created < ttl

\* JWTAuthentication.authenticate: the access token of pair t is accepted.
Authenticates(t) == Alive(t, ACCESS_TTL) /\ issued[t].user \in users

-----------------------------------------------------------------------------
(* create_access_and_refresh_tokens, and the answer with the pair.         *)

Fresh == Len(issued) + 1

\* The answer arrives, unless it is lost.
Answer(c) ==
    \/ held' = [held EXCEPT ![c] = @ \cup {Fresh}]
    \/ "lost" \in Faults /\ UNCHANGED held

Create(u, login) ==
    /\ Len(issued) < MaxTokens
    /\ issued' = Append(issued, [user |-> u, created |-> clock, login |-> login])
    /\ rows' = rows \cup {Fresh}
    /\ UNCHANGED <<users, clock>>

\* Somebody who knows the name and the password of u logs in.
Login(c, u) ==
    /\ Idle
    /\ u \in users
    /\ Create(u, Fresh)
    /\ Answer(c)
    /\ shut' = [shut EXCEPT ![u] = None]
    /\ UNCHANGED <<revoked, exchanging, client, mishaps>>

-----------------------------------------------------------------------------
(* refresh, with the token t that c has in its cookie, or had when it sent *)
(* the request.                                                            *)

Presents(c, t) ==
    /\ Idle
    /\ IsCookie(c, t) \/ ("late" \in Faults /\ t \in held[c])
    /\ t \in rows
    /\ Alive(t, REFRESH_TTL)
    /\ mishaps' = IF IsCookie(c, t) THEN mishaps ELSE mishaps \cup {issued[t].user}

\* Mutant: only the token that was presented again is looked at.
RevokeNoOther(u) == UNCHANGED revoked

\* revoke_all_refresh_tokens
RevokeAll(u) == revoked' = revoked \cup RowsOf(u)

\* It was revoked before: update_access_and_refresh_tokens returns None.
Reuse(c, t) ==
    /\ Presents(c, t)
    /\ t \in revoked
    /\ RevokeAll(issued[t].user)
    /\ shut' = [shut EXCEPT ![issued[t].user] = clock]
    /\ UNCHANGED <<users, issued, rows, held, clock, exchanging, client>>

\* Mutant: the old token is not revoked.
RevokeNothing(t) == UNCHANGED revoked

\* Mutant: one client at a time, all other tokens of the user go as well.
RevokeOthers(t) == revoked' = revoked \cup RowsOf(issued[t].user)

\* revoke_refresh_token
Revoke(t) == revoked' = revoked \cup {t}

\* Mutant: the row is found, its column revoked is not looked at.
FoundIsEnough(t) == t \in rows

Exchangeable(t) == t \notin revoked

Exchange(c, t) ==
    /\ Presents(c, t)
    /\ Exchangeable(t)
    /\ Len(issued) < MaxTokens
    /\ Revoke(t)
    /\ exchanging' = t
    /\ client' = c
    /\ UNCHANGED <<users, issued, rows, held, clock, shut>>

Finish == exchanging' = None /\ client' = None

\* The new pair; the request is answered.
ExchangeCreate ==
    LET u == issued[exchanging].user
    IN  /\ ~Idle
        /\ Create(u, issued[exchanging].login)
        /\ Answer(client)
        /\ mishaps' = IF held' = held THEN mishaps \cup {u} ELSE mishaps
        /\ Finish
        /\ UNCHANGED <<revoked, shut>>

\* The worker dies between the two statements (gunicorn kills one that takes
\* too long); the client gets no answer.
Crash ==
    /\ "crash" \in Faults
    /\ ~Idle
    /\ mishaps' = mishaps \cup {issued[exchanging].user}
    /\ Finish
    /\ UNCHANGED <<users, issued, rows, revoked, held, clock, shut>>

-----------------------------------------------------------------------------

\* Mutant: a foreign key without CASCADE.
CascadeNothing(u) == UNCHANGED <<rows, revoked>>

Cascade(u) == rows' = rows \ RowsOf(u) /\ revoked' = revoked \ RowsOf(u)

\* The admin site, on the same worker: tokens go with their user.
DeleteUser(u) ==
    /\ Idle
    /\ u \in users
    /\ users' = users \ {u}
    /\ Cascade(u)
    /\ UNCHANGED <<issued, held, clock, exchanging, client, shut, mishaps>>

\* /start, perhaps of a user who had been deleted.
Start(u) ==
    /\ u \notin users
    /\ users' = users \cup {u}
    /\ UNCHANGED <<issued, rows, revoked, held, clock, exchanging, client, shut, mishaps>>

Tick ==
    /\ clock < MaxTime
    /\ clock' = clock + 1
    /\ UNCHANGED <<users, issued, rows, revoked, held, exchanging, client, shut, mishaps>>

Next ==
    \/ \E c \in Clients, u \in Users : Login(c, u)
    \/ \E c \in Clients, t \in DOMAIN issued : Reuse(c, t) \/ Exchange(c, t)
    \/ ExchangeCreate \/ Crash \/ Tick
    \/ \E u \in Users : DeleteUser(u) \/ Start(u)

Spec == Init /\ [][Next]_vars

-----------------------------------------------------------------------------
(* Properties.                                                             *)

Pairs == [user : Users, created : 0..MaxTime, login : Ids]

TypeOK ==
    /\ users \subseteq Users
    /\ issued \in Seq(Pairs) /\ Len(issued) <= MaxTokens
    /\ revoked \subseteq rows /\ rows \subseteq DOMAIN issued
    /\ held \in [Clients -> SUBSET DOMAIN issued]
    /\ clock \in 0..MaxTime
    /\ \/ exchanging = None /\ client = None
       \/ exchanging \in revoked /\ client \in Clients
    /\ shut \in [Users -> (0..MaxTime) \cup {None}]
    /\ mishaps \subseteq Users
    /\ \A t \in DOMAIN issued :
          /\ issued[t].created <= clock
          /\ t \in rows => issued[t].user \in users

Live == rows \ revoked

\* However requests are repeated and answers lost, a session never has two
\* tokens that can be exchanged: who logged in once can refresh from one place.
OneHeir == \A s, t \in Live : issued[s].login = issued[t].login => s = t

\* A token that is presented again shuts its user's sessions: from then until
\* the next login with the password nothing of his can be exchanged, and once
\* ACCESS_TTL has passed no access token stands for him either, on any client.
ShutOut ==
    \A u \in Users : shut[u] # None =>
        /\ RowsOf(u) \subseteq revoked
        /\ \A t \in DOMAIN issued :
              issued[t].user = u /\ clock >= shut[u] + ACCESS_TTL => ~Authenticates(t)

\* Sessions are shut for a reason: as long as no answer of an exchange was
\* lost, no exchange died half way and nobody sent an outdated cookie, no
\* client of the user presents a revoked token.
ShutForAReason == \A u \in Users : shut[u] # None => u \in mishaps

\* The token that is being exchanged stands for its session in between.
Open == Live \cup ({exchanging} \ {None})

S == INSTANCE Sessions WITH
        tokens <- [t \in DOMAIN issued |-> [user |-> issued[t].user, login |-> issued[t].login]],
        open <- Open

\* The two statements of an exchange, seen from outside, are one step; what
\* can be exchanged comes from a login or an exchange and from nothing else.
ImplementsSessions == S!Spec

=============================================================================
