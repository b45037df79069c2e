---------------------------- MODULE TokensProofs ----------------------------
(***************************************************************************)
(* Theorems about Tokens, for any users, clients, lifetimes and faults.    *)
(***************************************************************************)
EXTENDS Tokens, SequenceTheorems, TLAPS

USE TokensAssumption

-----------------------------------------------------------------------------
(* Type correctness.                                                       *)

\* A new pair is appended to those that were made before.
LEMMA Issue ==
    ASSUME TypeOK, Len(issued) < MaxTokens, NEW p \in Pairs, issued' = Append(issued, p)
    PROVE  /\ issued' \in Seq(Pairs) /\ Len(issued') = Fresh /\ Len(issued') <= MaxTokens
           /\ DOMAIN issued' = DOMAIN issued \cup {Fresh}
           /\ Fresh \notin DOMAIN issued
           /\ \A t \in DOMAIN issued : issued'[t] = issued[t]
           /\ issued'[Fresh] = p
           /\ Fresh \in Ids
           /\ \A t \in DOMAIN issued : t \in Nat /\ t < Fresh
PROOF
  BY DEF TypeOK, Fresh, Ids

LEMMA Pair ==
    ASSUME TypeOK, NEW t \in DOMAIN issued
    PROVE  /\ issued[t] \in Pairs
           /\ issued[t].user \in Users /\ issued[t].login \in Ids
           /\ issued[t].created \in 0..MaxTime
           /\ t \in Nat
PROOF
<1>1. issued \in Seq(Pairs) /\ t \in 1..Len(issued)
  BY DEF TypeOK
<1>2. issued[t] \in Pairs /\ t \in Nat
  BY <1>1
<1> QED
  BY <1>2 DEF Pairs

\* A step that makes a pair for a user who exists, with a login of the past
\* or of this step.
LEMMA CreateType ==
    ASSUME TypeOK, NEW u \in users, NEW l, l \in Ids \/ l = Fresh, Create(u, l)
    PROVE  /\ [user |-> u, created |-> clock, login |-> l] \in Pairs
           /\ issued' \in Seq(Pairs) /\ Len(issued') <= MaxTokens
           /\ rows' = rows \cup {Fresh} /\ rows' \subseteq DOMAIN issued'
           /\ DOMAIN issued \subseteq DOMAIN issued'
           /\ Fresh \in DOMAIN issued'
           /\ \A t \in DOMAIN issued' :
                /\ issued'[t].created <= clock'
                /\ t \in rows' => issued'[t].user \in users'
PROOF
<1>1. Fresh \in Ids
  BY DEF Create, TypeOK, Fresh, Ids
<1>2. [user |-> u, created |-> clock, login |-> l] \in Pairs
  BY <1>1 DEF Pairs, TypeOK
<1>3. /\ issued' = Append(issued, [user |-> u, created |-> clock, login |-> l])
      /\ Len(issued) < MaxTokens
      /\ rows' = rows \cup {Fresh} /\ users' = users /\ clock' = clock
  BY DEF Create
<1>4. \A t \in DOMAIN issued' : /\ issued'[t].created <= clock'
                                /\ t \in rows' => issued'[t].user \in users'
  <2> SUFFICES ASSUME NEW t \in DOMAIN issued'
               PROVE  /\ issued'[t].created <= clock'
                      /\ t \in rows' => issued'[t].user \in users'
    OBVIOUS
  <2>1. CASE t = Fresh
    BY <1>2, <1>3, <2>1, Issue DEF TypeOK
  <2>2. CASE t # Fresh
    <3>1. t \in DOMAIN issued /\ issued'[t] = issued[t]
      BY <1>2, <1>3, <2>2, Issue
    <3> QED
      BY <1>3, <2>2, <3>1 DEF TypeOK
  <2> QED
    BY <2>1, <2>2
<1>5. /\ issued' \in Seq(Pairs) /\ Len(issued') <= MaxTokens
      /\ DOMAIN issued' = DOMAIN issued \cup {Fresh}
  BY <1>2, <1>3, Issue
<1>6. rows \subseteq DOMAIN issued
  BY DEF TypeOK
<1> QED
  BY <1>2, <1>3, <1>4, <1>5, <1>6

LEMMA AnswerType ==
    ASSUME TypeOK, NEW c \in Clients, Answer(c),
           DOMAIN issued \subseteq DOMAIN issued', Fresh \in DOMAIN issued'
    PROVE  held' \in [Clients -> SUBSET DOMAIN issued']
PROOF
  BY DEF TypeOK, Answer

LEMMA TypeInit == Init => TypeOK
PROOF
  BY DEF Init, TypeOK

LEMMA TypeNext == TypeOK /\ [Next]_vars => TypeOK'
PROOF
<1> SUFFICES ASSUME TypeOK, [Next]_vars PROVE TypeOK'
  OBVIOUS
<1>1. ASSUME NEW c \in Clients, NEW u \in Users, Login(c, u) PROVE TypeOK'
  <2>1. u \in users /\ Create(u, Fresh) /\ Answer(c)
    BY <1>1 DEF Login
  <2>2. /\ issued' \in Seq(Pairs) /\ Len(issued') <= MaxTokens
        /\ rows' = rows \cup {Fresh} /\ rows' \subseteq DOMAIN issued'
        /\ DOMAIN issued \subseteq DOMAIN issued' /\ Fresh \in DOMAIN issued'
        /\ \A t \in DOMAIN issued' :
             /\ issued'[t].created <= clock'
             /\ t \in rows' => issued'[t].user \in users'
    BY <2>1, CreateType
  <2>3. held' \in [Clients -> SUBSET DOMAIN issued']
    BY <2>1, <2>2, AnswerType
  <2> QED
    BY <1>1, <2>1, <2>2, <2>3 DEF Login, Create, TypeOK, Idle
<1>2. ASSUME NEW c \in Clients, NEW t \in DOMAIN issued, Reuse(c, t) PROVE TypeOK'
  <2>1. issued[t].user \in Users
    BY Pair
  <2>2. mishaps' \subseteq Users
    BY <1>2, <2>1 DEF Reuse, Presents, TypeOK
  <2>3. revoked' \subseteq rows /\ revoked \subseteq revoked'
    BY <1>2 DEF Reuse, RevokeAll, RowsOf, TypeOK
  <2>4. shut' \in [Users -> (0..MaxTime) \cup {None}]
    BY <1>2 DEF Reuse, TypeOK
  <2> QED
    BY <1>2, <2>2, <2>3, <2>4 DEF Reuse, TypeOK
<1>3. ASSUME NEW c \in Clients, NEW t \in DOMAIN issued, Exchange(c, t) PROVE TypeOK'
  <2>1. issued[t].user \in Users
    BY Pair
  <2>2. mishaps' \subseteq Users
    BY <1>3, <2>1 DEF Exchange, Presents, TypeOK
  <2>3. t \in rows /\ revoked' = revoked \cup {t} /\ exchanging' = t /\ client' = c
    BY <1>3 DEF Exchange, Presents, Revoke
  <2> QED
    BY <1>3, <2>2, <2>3 DEF Exchange, TypeOK
<1>4. CASE ExchangeCreate
  <2> DEFINE u == issued[exchanging].user
  <2>1. exchanging \in revoked /\ client \in Clients /\ exchanging \in rows
        /\ exchanging \in DOMAIN issued
    BY <1>4 DEF ExchangeCreate, Idle, TypeOK
  <2>2. u \in users /\ u \in Users /\ issued[exchanging].login \in Ids
    BY <2>1, Pair DEF TypeOK
  <2>3. Create(u, issued[exchanging].login) /\ Answer(client)
    BY <1>4 DEF ExchangeCreate
  <2>4. /\ issued' \in Seq(Pairs) /\ Len(issued') <= MaxTokens
        /\ rows' = rows \cup {Fresh} /\ rows' \subseteq DOMAIN issued'
        /\ DOMAIN issued \subseteq DOMAIN issued' /\ Fresh \in DOMAIN issued'
        /\ \A t \in DOMAIN issued' :
             /\ issued'[t].created <= clock'
             /\ t \in rows' => issued'[t].user \in users'
    BY <2>2, <2>3, CreateType
  <2>5. held' \in [Clients -> SUBSET DOMAIN issued']
    BY <2>1, <2>3, <2>4, AnswerType
  <2>6. mishaps' \subseteq Users
    BY <1>4, <2>2 DEF ExchangeCreate, TypeOK
  <2> QED
    BY <1>4, <2>3, <2>4, <2>5, <2>6 DEF ExchangeCreate, Create, Finish, TypeOK
<1>5. CASE Crash
  <2>1. exchanging \in DOMAIN issued
    BY <1>5 DEF Crash, Idle, TypeOK
  <2>2. mishaps' \subseteq Users
    BY <1>5, <2>1, Pair DEF Crash, TypeOK
  <2> QED
    BY <1>5, <2>2 DEF Crash, Finish, TypeOK
<1>6. CASE Tick
  <2>1. clock' = clock + 1 /\ clock \in Nat /\ clock' \in 0..MaxTime
    BY <1>6 DEF Tick, TypeOK
  <2>2. \A t \in DOMAIN issued : issued[t].created <= clock'
    <3> SUFFICES ASSUME NEW t \in DOMAIN issued PROVE issued[t].created <= clock'
      OBVIOUS
    <3>1. issued[t].created \in Nat
      BY Pair
    <3>2. issued[t].created <= clock
      BY DEF TypeOK
    <3> QED
      BY <2>1, <3>1, <3>2
  <2> QED
    BY <1>6, <2>1, <2>2 DEF Tick, TypeOK
<1>7. ASSUME NEW u \in Users, DeleteUser(u) PROVE TypeOK'
  BY <1>7 DEF DeleteUser, Cascade, RowsOf, Idle, TypeOK
<1>8. ASSUME NEW u \in Users, Start(u) PROVE TypeOK'
  BY <1>8 DEF Start, TypeOK
<1>9. CASE UNCHANGED vars
  BY <1>9 DEF vars, TypeOK
<1> QED
  BY <1>1, <1>2, <1>3, <1>4, <1>5, <1>6, <1>7, <1>8, <1>9 DEF Next

\* No refresh token outlives its user, and every variable keeps its type, in
\* all states of the worker.
THEOREM TypeCorrect == Spec => []TypeOK
PROOF
<1> QED
  BY TypeInit, TypeNext, PTL DEF Spec

-----------------------------------------------------------------------------
(* A session has one heir.                                                 *)

\* A session is named after one of the pairs made so far.
LoginsPast == \A t \in DOMAIN issued : issued[t].login <= t

\* The token in exchange counts as one that is good.
OneOpen == \A s, t \in Open : issued[s].login = issued[t].login => s = t

Heirs == LoginsPast /\ OneOpen

LEMMA OpenTokens ==
    TypeOK => /\ Open \subseteq DOMAIN issued
              /\ exchanging \notin Live
              /\ Idle => Open = Live
              /\ ~Idle => Open = Live \cup {exchanging} /\ exchanging \in DOMAIN issued
PROOF
  BY DEF TypeOK, Open, Live, Idle

\* What a login, an exchange and everything else do to the tokens that can be
\* exchanged.
LEMMA OpenLogin ==
    ASSUME TypeOK, NEW c \in Clients, NEW u \in Users, Login(c, u)
    PROVE  /\ Open' = Open \cup {Fresh}
           /\ issued' = Append(issued, [user |-> u, created |-> clock, login |-> Fresh])
           /\ [user |-> u, created |-> clock, login |-> Fresh] \in Pairs
           /\ Len(issued) < MaxTokens
PROOF
<1>1. u \in users /\ Create(u, Fresh) /\ Idle /\ UNCHANGED <<revoked, exchanging>>
  BY DEF Login
<1>2. Fresh \notin DOMAIN issued
  BY DEF TypeOK, Fresh
<1>3. rows' = rows \cup {Fresh} /\ Fresh \notin revoked
  BY <1>1, <1>2 DEF Create, TypeOK
<1>4. Open' = Open \cup {Fresh}
  BY <1>1, <1>3 DEF Open, Live, Idle
<1> QED
  BY <1>1, <1>4, CreateType DEF Create

LEMMA OpenExchanged ==
    ASSUME TypeOK, ExchangeCreate
    PROVE  LET old == issued[exchanging]
               new == [user |-> old.user, created |-> clock, login |-> old.login]
           IN  /\ exchanging \in Open
               /\ Open' = (Open \ {exchanging}) \cup {Fresh}
               /\ issued' = Append(issued, new) /\ new \in Pairs /\ Len(issued) < MaxTokens
PROOF
<1> DEFINE old == issued[exchanging]
<1>1. ~Idle /\ exchanging \in revoked /\ exchanging \in rows /\ exchanging \in DOMAIN issued
  BY DEF ExchangeCreate, Idle, TypeOK
<1>2. old.user \in users /\ old.user \in Users /\ old.login \in Ids
  BY <1>1, Pair DEF TypeOK
<1>3. Create(old.user, old.login) /\ exchanging' = None /\ UNCHANGED revoked
  BY DEF ExchangeCreate, Finish
<1>4. Fresh \notin revoked /\ exchanging \notin Live
  BY <1>1 DEF TypeOK, Fresh, Live
<1>5. rows' = rows \cup {Fresh}
  BY <1>3 DEF Create
<1>6. Live' = Live \cup {Fresh}
  BY <1>3, <1>4, <1>5 DEF Live
<1>7. Open = Live \cup {exchanging} /\ Open' = Live'
  BY <1>1, <1>3 DEF Open, Idle
<1>8. Open' = (Open \ {exchanging}) \cup {Fresh} /\ exchanging \in Open
  BY <1>4, <1>6, <1>7
<1> QED
  BY <1>2, <1>3, <1>8, CreateType DEF Create

\* A step makes a pair by a login or an exchange, or makes none and opens
\* nothing.
LEMMA OtherSteps ==
    ASSUME TypeOK, [Next]_vars
    PROVE  \/ \E c \in Clients, u \in Users : Login(c, u)
           \/ ExchangeCreate
           \/ issued' = issued /\ Open' \subseteq Open
PROOF
<1>1. ASSUME NEW c \in Clients, NEW t \in DOMAIN issued, Reuse(c, t)
      PROVE  issued' = issued /\ Open' \subseteq Open
  BY <1>1 DEF Reuse, RevokeAll, Open, Live
<1>2. ASSUME NEW c \in Clients, NEW t \in DOMAIN issued, Exchange(c, t)
      PROVE  issued' = issued /\ Open' \subseteq Open
  <2>1. /\ t \in Live /\ Idle /\ revoked' = revoked \cup {t} /\ exchanging' = t
        /\ UNCHANGED <<rows, issued>>
    BY <1>2 DEF Exchange, Presents, Exchangeable, Revoke, Live
  <2> QED
    BY <2>1 DEF Open, Live
<1>3. CASE Crash
  BY <1>3 DEF Crash, Finish, Open, Live
<1>4. CASE Tick
  BY <1>4 DEF Tick, Open, Live
<1>5. ASSUME NEW u \in Users, DeleteUser(u)
      PROVE  issued' = issued /\ Open' \subseteq Open
  BY <1>5 DEF DeleteUser, Cascade, Open, Live
<1>6. ASSUME NEW u \in Users, Start(u)
      PROVE  issued' = issued /\ Open' \subseteq Open
  BY <1>6 DEF Start, Open, Live
<1>7. CASE UNCHANGED vars
  BY <1>7 DEF vars, Open, Live
<1> QED
  BY <1>1, <1>2, <1>3, <1>4, <1>5, <1>6, <1>7 DEF Next

LEMMA HeirsInit == Init => Heirs
PROOF
  BY DEF Init, Heirs, LoginsPast, OneOpen, Open, Live

LEMMA HeirsNext == TypeOK /\ Heirs /\ [Next]_vars => Heirs'
PROOF
<1> SUFFICES ASSUME TypeOK, Heirs, [Next]_vars PROVE Heirs'
  OBVIOUS
<1> USE DEF Heirs
<1>1. ASSUME NEW c \in Clients, NEW u \in Users, Login(c, u) PROVE Heirs'
  <2> DEFINE p == [user |-> u, created |-> clock, login |-> Fresh]
  <2>1. /\ Open' = Open \cup {Fresh} /\ issued' = Append(issued, p)
        /\ p \in Pairs /\ Len(issued) < MaxTokens /\ p.login = Fresh
    BY <1>1, OpenLogin
  <2> HIDE DEF p
  <2>2. /\ DOMAIN issued' = DOMAIN issued \cup {Fresh}
        /\ \A t \in DOMAIN issued : issued'[t] = issued[t]
        /\ issued'[Fresh] = p
        /\ Fresh \in Ids
        /\ \A t \in DOMAIN issued : t \in Nat /\ t < Fresh
    BY <2>1, Issue
  <2>3. LoginsPast'
    BY <2>1, <2>2 DEF LoginsPast, Ids
  <2>4. \A t \in DOMAIN issued : issued[t].login # Fresh
    <3> SUFFICES ASSUME NEW t \in DOMAIN issued PROVE issued[t].login # Fresh
      OBVIOUS
    <3>1. issued[t].login \in Nat /\ issued[t].login <= t /\ t < Fresh /\ Fresh \in Nat
      BY <2>2, Pair DEF LoginsPast, Ids
    <3> QED
      BY <2>2, <3>1
  <2>5. Open \subseteq DOMAIN issued
    BY OpenTokens
  <2> QED
    BY <2>1, <2>2, <2>3, <2>4, <2>5 DEF OneOpen
<1>2. CASE ExchangeCreate
  <2> DEFINE old == issued[exchanging]
             p == [user |-> old.user, created |-> clock, login |-> old.login]
  <2>1. /\ exchanging \in Open /\ Open' = (Open \ {exchanging}) \cup {Fresh}
        /\ issued' = Append(issued, p) /\ p \in Pairs /\ Len(issued) < MaxTokens
        /\ p.login = issued[exchanging].login
    BY <1>2, OpenExchanged
  <2> HIDE DEF p
  <2>2. /\ DOMAIN issued' = DOMAIN issued \cup {Fresh}
        /\ \A t \in DOMAIN issued : issued'[t] = issued[t]
        /\ issued'[Fresh] = p
        /\ Fresh \in Ids
        /\ \A t \in DOMAIN issued : t \in Nat /\ t < Fresh
    BY <2>1, Issue
  <2>3. Open \subseteq DOMAIN issued
    BY OpenTokens
  <2>4. p.login <= Fresh
    <3>1. /\ issued[exchanging].login \in Nat /\ issued[exchanging].login <= exchanging
          /\ exchanging < Fresh /\ exchanging \in Nat /\ Fresh \in Nat
      BY <2>1, <2>2, <2>3, Pair DEF LoginsPast, Ids
    <3> QED
      BY <2>1, <3>1
  <2>5. LoginsPast'
    BY <2>2, <2>4 DEF LoginsPast
  <2> QED
    BY <2>1, <2>2, <2>3, <2>5 DEF OneOpen
<1>3. CASE issued' = issued /\ Open' \subseteq Open
  BY <1>3 DEF LoginsPast, OneOpen
<1> QED
  BY <1>1, <1>2, <1>3, OtherSteps

\* However requests are repeated, answers lost and workers killed, a session
\* has at most one refresh token that can be exchanged.
THEOREM SessionHasOneHeir == Spec => []OneHeir
PROOF
<1>1. TypeOK /\ Heirs => OneHeir
  BY DEF Heirs, OneOpen, OneHeir, Open
<1> QED
  BY TypeInit, TypeNext, HeirsInit, HeirsNext, <1>1, PTL DEF Spec

-----------------------------------------------------------------------------
(* Whom a repeated token shuts out.                                        *)

\* From a repeated token to the next login: no exchange of the user is under
\* way, and none of the pairs made for the user is younger than that.
Shut ==
    \A u \in Users : shut[u] # None =>
        /\ RowsOf(u) \subseteq revoked
        /\ exchanging # None => issued[exchanging].user # u
        /\ \A t \in DOMAIN issued : issued[t].user = u => issued[t].created <= shut[u]

LEMMA ShutInit == Init => Shut
PROOF
  BY DEF Init, Shut

\* A pair that is made for a user who is not shut out disturbs nobody who is.
LEMMA ShutCreate ==
    ASSUME TypeOK, Shut, NEW p \in Pairs, Len(issued) < MaxTokens,
           issued' = Append(issued, p), rows' = rows \cup {Fresh}, revoked' = revoked,
           exchanging' = None,
           \A v \in Users : shut'[v] # None => shut'[v] = shut[v] /\ v # p.user
    PROVE  Shut'
PROOF
<1>1. /\ DOMAIN issued' = DOMAIN issued \cup {Fresh}
      /\ \A t \in DOMAIN issued : issued'[t] = issued[t]
      /\ issued'[Fresh] = p
  BY Issue
<1>2. rows \subseteq DOMAIN issued
  BY DEF TypeOK
<1> SUFFICES ASSUME NEW v \in Users, shut'[v] # None
             PROVE  /\ RowsOf(v)' \subseteq revoked'
                    /\ \A t \in DOMAIN issued' :
                          issued'[t].user = v => issued'[t].created <= shut'[v]
  BY DEF Shut
<1>3. shut[v] # None /\ shut'[v] = shut[v] /\ v # p.user
  OBVIOUS
<1>4. RowsOf(v)' \subseteq RowsOf(v)
  BY <1>1, <1>2, <1>3 DEF RowsOf
<1>5. RowsOf(v) \subseteq revoked
  BY <1>3 DEF Shut
<1>6. \A t \in DOMAIN issued' : issued'[t].user = v => issued'[t].created <= shut'[v]
  BY <1>1, <1>3 DEF Shut
<1> QED
  BY <1>4, <1>5, <1>6

LEMMA ShutNext == TypeOK /\ Shut /\ [Next]_vars => Shut'
PROOF
<1> SUFFICES ASSUME TypeOK, Shut, [Next]_vars PROVE Shut'
  OBVIOUS
<1>1. ASSUME NEW c \in Clients, NEW u \in Users, Login(c, u) PROVE Shut'
  <2> DEFINE p == [user |-> u, created |-> clock, login |-> Fresh]
  <2>1. issued' = Append(issued, p) /\ p \in Pairs /\ Len(issued) < MaxTokens
    BY <1>1, OpenLogin
  <2>2. rows' = rows \cup {Fresh} /\ revoked' = revoked /\ exchanging' = None
    BY <1>1 DEF Login, Create, Idle
  <2>3. \A v \in Users : shut'[v] # None => shut'[v] = shut[v] /\ v # p.user
    BY <1>1 DEF Login, TypeOK
  <2> HIDE DEF p
  <2> QED
    BY <2>1, <2>2, <2>3, ShutCreate
<1>2. ASSUME NEW c \in Clients, NEW t \in DOMAIN issued, Reuse(c, t) PROVE Shut'
  <2> DEFINE u == issued[t].user
  <2>1. /\ Idle /\ revoked' = revoked \cup RowsOf(u) /\ shut' = [shut EXCEPT ![u] = clock]
        /\ UNCHANGED <<issued, rows, exchanging>> /\ u \in Users
    BY <1>2, Pair DEF Reuse, Presents, RevokeAll
  <2>2. \A v \in Users : v # u => shut'[v] = shut[v]
    BY <2>1 DEF TypeOK
  <2>3. shut'[u] = clock
    BY <2>1 DEF TypeOK
  <2>4. \A s \in DOMAIN issued : issued[s].created <= clock
    BY DEF TypeOK
  <2> HIDE DEF u
  <2>5. RowsOf(u) \subseteq revoked'
    BY <2>1
  <2> QED
    BY <2>1, <2>2, <2>3, <2>4, <2>5 DEF Shut, RowsOf, Idle
<1>3. ASSUME NEW c \in Clients, NEW t \in DOMAIN issued, Exchange(c, t) PROVE Shut'
  <2>1. /\ t \in rows /\ t \notin revoked /\ revoked' = revoked \cup {t}
        /\ exchanging' = t /\ UNCHANGED <<issued, rows, shut>>
    BY <1>3 DEF Exchange, Presents, Exchangeable, Revoke
  <2> QED
    BY <2>1 DEF Shut, RowsOf
<1>4. CASE ExchangeCreate
  <2> DEFINE old == issued[exchanging]
             p == [user |-> old.user, created |-> clock, login |-> old.login]
  <2>1. issued' = Append(issued, p) /\ p \in Pairs /\ Len(issued) < MaxTokens
        /\ p.user = issued[exchanging].user
    BY <1>4, OpenExchanged
  <2> HIDE DEF p
  <2>2. rows' = rows \cup {Fresh} /\ revoked' = revoked /\ exchanging' = None
        /\ exchanging # None /\ shut' = shut
    BY <1>4 DEF ExchangeCreate, Create, Finish, Idle
  <2> QED
    BY <2>1, <2>2, ShutCreate DEF Shut
<1>5. CASE Crash
  BY <1>5 DEF Crash, Finish, Shut, RowsOf
<1>6. CASE Tick
  BY <1>6 DEF Tick, Shut, RowsOf
<1>7. ASSUME NEW u \in Users, DeleteUser(u) PROVE Shut'
  <2>1. /\ rows' = rows \ RowsOf(u) /\ revoked' = revoked \ RowsOf(u)
        /\ UNCHANGED <<issued, exchanging, shut>>
    BY <1>7 DEF DeleteUser, Cascade
  <2> QED
    BY <2>1 DEF Shut, RowsOf
<1>8. ASSUME NEW u \in Users, Start(u) PROVE Shut'
  BY <1>8 DEF Start, Shut, RowsOf
<1>9. CASE UNCHANGED vars
  BY <1>9 DEF vars, Shut, RowsOf
<1> QED
  BY <1>1, <1>2, <1>3, <1>4, <1>5, <1>6, <1>7, <1>8, <1>9 DEF Next

\* A token that is presented again shuts its user out everywhere: at once as
\* far as exchanges go, ACCESS_TTL later for good, until the next login.
THEOREM ReuseShutsOut == Spec => []ShutOut
PROOF
<1>1. TypeOK /\ Shut => ShutOut
  <2> SUFFICES ASSUME TypeOK, Shut, NEW u \in Users, shut[u] # None
               PROVE  /\ RowsOf(u) \subseteq revoked
                      /\ \A t \in DOMAIN issued :
                            issued[t].user = u /\ clock >= shut[u] + ACCESS_TTL
                                => ~Authenticates(t)
    BY DEF ShutOut
  <2>1. RowsOf(u) \subseteq revoked
    BY DEF Shut
  <2>2. ASSUME NEW t \in DOMAIN issued, issued[t].user = u, clock >= shut[u] + ACCESS_TTL
        PROVE  ~Authenticates(t)
    <3>1. issued[t].created \in Nat /\ issued[t].created <= shut[u]
      BY <2>2, Pair DEF Shut
    <3>2. clock \in Nat /\ shut[u] \in Nat
      BY DEF TypeOK
    <3> QED
      BY <2>2, <3>1, <3>2 DEF Authenticates, Alive
  <2> QED
    BY <2>1, <2>2
<1> QED
  BY TypeInit, TypeNext, ShutInit, ShutNext, <1>1, PTL DEF Spec

-----------------------------------------------------------------------------
(* Sessions are shut for a reason.                                         *)

\* No pair is answered twice, and a client whose cookie is revoked though no
\* fault happened to its user waits for the answer of an exchange.
NotShared == \A c, d \in Clients : c # d => held[c] \cap held[d] = {}

CookieIsGood ==
    \A c \in Clients, t \in DOMAIN issued :
        IsCookie(c, t) /\ t \in revoked /\ issued[t].user \notin mishaps
            => exchanging = t /\ client = c

Reasons == NotShared /\ CookieIsGood /\ ShutForAReason

LEMMA ReasonsInit == Init => Reasons
PROOF
  BY DEF Init, Reasons, NotShared, CookieIsGood, ShutForAReason

\* The answer with a new pair goes to one client, whose cookie it becomes.
LEMMA NewCookie ==
    ASSUME TypeOK, NotShared, NEW c \in Clients, Answer(c),
           NEW p \in Pairs, Len(issued) < MaxTokens, issued' = Append(issued, p)
    PROVE  /\ NotShared'
           /\ \A d \in Clients, t \in DOMAIN issued : IsCookie(d, t)' => IsCookie(d, t)
           /\ held' = held \/ \A t \in DOMAIN issued : ~IsCookie(c, t)'
PROOF
<1>1. /\ Fresh \notin DOMAIN issued /\ Fresh \in Nat
      /\ \A t \in DOMAIN issued : t \in Nat /\ t < Fresh
  BY Issue DEF Ids
<1>2. held \in [Clients -> SUBSET DOMAIN issued]
  BY DEF TypeOK
<1>3. CASE held' = held
  BY <1>3 DEF NotShared, IsCookie
<1>4. CASE held' = [held EXCEPT ![c] = @ \cup {Fresh}]
  <2>1. held'[c] = held[c] \cup {Fresh} /\ \A d \in Clients : d # c => held'[d] = held[d]
    BY <1>2, <1>4
  <2>2. ASSUME NEW t \in DOMAIN issued PROVE ~IsCookie(c, t)'
    <3>1. Fresh \in held'[c] /\ ~(Fresh <= t)
      BY <1>1, <2>1
    <3> QED
      BY <3>1 DEF IsCookie
  <2>3. NotShared'
    BY <1>1, <1>2, <2>1 DEF NotShared
  <2>4. \A d \in Clients, t \in DOMAIN issued : IsCookie(d, t)' => IsCookie(d, t)
    BY <2>1, <2>2 DEF IsCookie
  <2> QED
    BY <2>2, <2>3, <2>4
<1> QED
  BY <1>3, <1>4 DEF Answer

LEMMA ReasonsNext == TypeOK /\ Reasons /\ [Next]_vars => Reasons'
PROOF
<1> SUFFICES ASSUME TypeOK, Reasons, [Next]_vars PROVE Reasons'
  OBVIOUS
<1> USE DEF Reasons
<1>1. ASSUME NEW c \in Clients, NEW u \in Users, Login(c, u) PROVE Reasons'
  <2> DEFINE p == [user |-> u, created |-> clock, login |-> Fresh]
  <2>1. issued' = Append(issued, p) /\ p \in Pairs /\ Len(issued) < MaxTokens
    BY <1>1, OpenLogin
  <2>2. Answer(c) /\ UNCHANGED <<revoked, exchanging, client, mishaps>>
        /\ shut' = [shut EXCEPT ![u] = None]
    BY <1>1 DEF Login
  <2> HIDE DEF p
  <2>3. /\ NotShared'
        /\ \A d \in Clients, t \in DOMAIN issued : IsCookie(d, t)' => IsCookie(d, t)
    BY <2>1, <2>2, NewCookie
  <2>4. /\ DOMAIN issued' = DOMAIN issued \cup {Fresh} /\ Fresh \notin DOMAIN issued
        /\ \A t \in DOMAIN issued : issued'[t] = issued[t]
    BY <2>1, Issue
  <2>5. Fresh \notin revoked
    BY <2>4 DEF TypeOK
  <2>6. CookieIsGood'
    BY <2>2, <2>3, <2>4, <2>5 DEF CookieIsGood
  <2>7. ShutForAReason'
    BY <2>2 DEF ShutForAReason, TypeOK
  <2> QED
    BY <2>3, <2>6, <2>7
<1>2. ASSUME NEW c \in Clients, NEW t \in DOMAIN issued, Reuse(c, t) PROVE Reasons'
  <2> DEFINE u == issued[t].user
  <2>1. /\ Presents(c, t) /\ t \in revoked /\ revoked' = revoked \cup RowsOf(u)
        /\ shut' = [shut EXCEPT ![u] = clock]
        /\ UNCHANGED <<issued, held, exchanging, client>> /\ u \in Users
    BY <1>2, Pair DEF Reuse, RevokeAll
  <2>2. mishaps \subseteq mishaps'
    BY <2>1 DEF Presents
  <2>3. u \in mishaps'
    <3>1. CASE IsCookie(c, t)
      <4>1. exchanging # t
        BY <2>1, Pair DEF Presents, Idle
      <4> QED
        BY <2>2, <2>1, <3>1, <4>1 DEF CookieIsGood
    <3>2. CASE ~IsCookie(c, t)
      BY <2>1, <3>2 DEF Presents
    <3> QED
      BY <3>1, <3>2
  <2>4. \A s \in revoked' : s \in revoked \/ issued[s].user = u
    BY <2>1 DEF RowsOf
  <2> HIDE DEF u
  <2>5. CookieIsGood'
    BY <2>1, <2>2, <2>3, <2>4 DEF CookieIsGood, IsCookie
  <2>6. ShutForAReason'
    BY <2>1, <2>2, <2>3 DEF ShutForAReason, TypeOK
  <2>7. NotShared'
    BY <2>1 DEF NotShared
  <2> QED
    BY <2>5, <2>6, <2>7
<1>3. ASSUME NEW c \in Clients, NEW t \in DOMAIN issued, Exchange(c, t) PROVE Reasons'
  <2>1. /\ Presents(c, t) /\ revoked' = revoked \cup {t} /\ exchanging' = t /\ client' = c
        /\ UNCHANGED <<issued, held, shut>> /\ Idle /\ t \in held[c]
    BY <1>3 DEF Exchange, Revoke, Presents, IsCookie
  <2>2. mishaps \subseteq mishaps' /\ (IsCookie(c, t) \/ issued[t].user \in mishaps')
    BY <2>1 DEF Presents
  <2>3. \A d \in Clients : IsCookie(d, t) => d = c
    BY <2>1 DEF IsCookie, NotShared
  <2>4. CookieIsGood'
    <3> SUFFICES ASSUME NEW d \in Clients, NEW s \in DOMAIN issued, IsCookie(d, s),
                        s \in revoked', issued[s].user \notin mishaps'
                 PROVE  s = t /\ d = c
      BY <2>1 DEF CookieIsGood, IsCookie
    <3>1. s = t
      <4> SUFFICES ASSUME s # t PROVE FALSE
        OBVIOUS
      <4>1. exchanging = s
        BY <2>1, <2>2 DEF CookieIsGood
      <4> QED
        BY <2>1, <4>1, Pair DEF Idle
    <3> QED
      BY <2>3, <3>1
  <2>5. NotShared' /\ ShutForAReason'
    BY <2>1, <2>2 DEF NotShared, ShutForAReason
  <2> QED
    BY <2>4, <2>5
<1>4. CASE ExchangeCreate
  <2> DEFINE old == issued[exchanging]
             p == [user |-> old.user, created |-> clock, login |-> old.login]
  <2>1. issued' = Append(issued, p) /\ p \in Pairs /\ Len(issued) < MaxTokens
    BY <1>4, OpenExchanged
  <2> HIDE DEF p
  <2>2. /\ Answer(client) /\ UNCHANGED <<revoked, shut>>
        /\ mishaps' = IF held' = held THEN mishaps \cup {issued[exchanging].user} ELSE mishaps
        /\ ~Idle
    BY <1>4 DEF ExchangeCreate
  <2>3. client \in Clients /\ mishaps \subseteq mishaps'
    BY <2>2 DEF TypeOK, Idle
  <2> PICK c \in Clients : c = client
    BY <2>3
  <2>4. /\ NotShared'
        /\ \A d \in Clients, t \in DOMAIN issued : IsCookie(d, t)' => IsCookie(d, t)
        /\ held' = held \/ \A t \in DOMAIN issued : ~IsCookie(c, t)'
    <3>1. Answer(c)
      BY <2>2 DEF Answer
    <3> QED
      BY <2>1, <3>1, NewCookie
  <2>5. /\ DOMAIN issued' = DOMAIN issued \cup {Fresh} /\ Fresh \notin DOMAIN issued
        /\ \A t \in DOMAIN issued : issued'[t] = issued[t]
    BY <2>1, Issue
  <2>6. CookieIsGood'
    <3> SUFFICES ASSUME NEW d \in Clients, NEW s \in DOMAIN issued', IsCookie(d, s)',
                        s \in revoked, issued'[s].user \notin mishaps'
                 PROVE  FALSE
      BY <2>2 DEF CookieIsGood
    <3>1. s \in DOMAIN issued /\ issued'[s] = issued[s]
      BY <2>5 DEF TypeOK
    <3>2. exchanging = s /\ c = d
      BY <2>3, <2>4, <3>1 DEF CookieIsGood
    <3>3. held' # held
      BY <2>2, <3>1, <3>2
    <3> QED
      BY <2>4, <3>1, <3>2, <3>3
  <2>7. ShutForAReason'
    BY <2>2, <2>3 DEF ShutForAReason
  <2> QED
    BY <2>4, <2>6, <2>7
<1>5. CASE Crash
  BY <1>5 DEF Crash, NotShared, CookieIsGood, IsCookie, ShutForAReason
<1>6. CASE Tick
  BY <1>6 DEF Tick, NotShared, CookieIsGood, IsCookie, ShutForAReason
<1>7. ASSUME NEW u \in Users, DeleteUser(u) PROVE Reasons'
  BY <1>7 DEF DeleteUser, Cascade, NotShared, CookieIsGood, IsCookie, ShutForAReason
<1>8. ASSUME NEW u \in Users, Start(u) PROVE Reasons'
  BY <1>8 DEF Start, NotShared, CookieIsGood, IsCookie, ShutForAReason
<1>9. CASE UNCHANGED vars
  BY <1>9 DEF vars, NotShared, CookieIsGood, IsCookie, ShutForAReason
<1> QED
  BY <1>1, <1>2, <1>3, <1>4, <1>5, <1>6, <1>7, <1>8, <1>9 DEF Next

\* Nobody is shut out by requests that all went well.
THEOREM NobodyShutWithoutMishap == Spec => []ShutForAReason
PROOF
<1>1. Reasons => ShutForAReason
  BY DEF Reasons
<1> QED
  BY TypeInit, TypeNext, ReasonsInit, ReasonsNext, <1>1, PTL DEF Spec

-----------------------------------------------------------------------------
(* Refinement.                                                             *)

View == [t \in DOMAIN issued |-> [user |-> issued[t].user, login |-> issued[t].login]]

\* What Sessions sees of a new pair.
LEMMA ViewAppend ==
    ASSUME TypeOK, NEW p \in Pairs, Len(issued) < MaxTokens, issued' = Append(issued, p)
    PROVE  /\ View' = Append(View, [user |-> p.user, login |-> p.login])
           /\ Len(View) + 1 = Fresh
PROOF
<1> DEFINE V == [user : Users, login : Ids]
           e == [user |-> p.user, login |-> p.login]
<1>1. /\ DOMAIN issued' = DOMAIN issued \cup {Fresh} /\ Fresh \notin DOMAIN issued
      /\ \A t \in DOMAIN issued : issued'[t] = issued[t]
      /\ issued'[Fresh] = p
  BY Issue
<1>2. DOMAIN issued = 1..Len(issued) /\ Len(issued) \in Nat
  BY DEF TypeOK
<1>3. \A t \in DOMAIN issued : [user |-> issued[t].user, login |-> issued[t].login] \in V
  BY Pair
<1>4. View \in [1..Len(issued) -> V]
  BY <1>2, <1>3 DEF View
<1>5. View \in Seq(V) /\ Len(View) = Len(issued)
  <2>1. View \in Seq(V)
    BY <1>2, <1>4, SeqDef
  <2> QED
    BY <1>2, <1>4, <2>1, LenProperties
<1>6. e \in V
  BY DEF Pairs
<1> HIDE DEF V, e
<1>7. /\ DOMAIN Append(View, e) = DOMAIN issued \cup {Fresh}
      /\ Append(View, e)[Fresh] = e
      /\ \A t \in DOMAIN issued : Append(View, e)[t] = View[t]
  BY <1>2, <1>5, <1>6, AppendProperties DEF Fresh
<1>8. /\ DOMAIN View' = DOMAIN issued \cup {Fresh}
      /\ View'[Fresh] = e
      /\ \A t \in DOMAIN issued : View'[t] = View[t]
  BY <1>1 DEF View, e
<1>9. Append(View, e) = [t \in DOMAIN issued \cup {Fresh} |-> Append(View, e)[t]]
  <2>1. Append(View, e) \in Seq(V)
    BY <1>5, <1>6, AppendProperties
  <2>2. Append(View, e) \in [1..Len(Append(View, e)) -> V]
    BY <2>1, LenProperties
  <2> QED
    BY <1>7, <2>2
<1>10. View' = [t \in DOMAIN issued \cup {Fresh} |-> View'[t]]
  BY <1>1 DEF View
<1>11. View' = Append(View, e)
  BY <1>7, <1>8, <1>9, <1>10
<1> QED
  BY <1>5, <1>11 DEF Fresh, e

LEMMA SessionsInit == Init => S!Init
PROOF
  BY DEF Init, S!Init, Open, Live

LEMMA SessionsNext == TypeOK /\ [Next]_vars => [S!Next]_(S!vars)
PROOF
<1> SUFFICES ASSUME TypeOK, [Next]_vars PROVE [S!Next]_(S!vars)
  OBVIOUS
<1>1. ASSUME NEW c \in Clients, NEW u \in Users, Login(c, u) PROVE S!Login(u)
  <2> DEFINE p == [user |-> u, created |-> clock, login |-> Fresh]
  <2>1. /\ Open' = Open \cup {Fresh} /\ issued' = Append(issued, p)
        /\ p \in Pairs /\ Len(issued) < MaxTokens /\ p.user = u /\ p.login = Fresh
    BY <1>1, OpenLogin
  <2> HIDE DEF p
  <2>2. View' = Append(View, [user |-> u, login |-> Fresh]) /\ Len(View) + 1 = Fresh
    BY <2>1, ViewAppend
  <2> QED
    BY <2>1, <2>2 DEF S!Login, S!Fresh, View
<1>2. CASE ExchangeCreate
  <2> DEFINE old == issued[exchanging]
             p == [user |-> old.user, created |-> clock, login |-> old.login]
  <2>1. /\ exchanging \in Open /\ Open' = (Open \ {exchanging}) \cup {Fresh}
        /\ issued' = Append(issued, p) /\ p \in Pairs /\ Len(issued) < MaxTokens
        /\ p.user = old.user /\ p.login = old.login
    BY <1>2, OpenExchanged
  <2> HIDE DEF p
  <2>2. View' = Append(View, [user |-> old.user, login |-> old.login]) /\ Len(View) + 1 = Fresh
    BY <2>1, ViewAppend
  <2>3. View[exchanging] = [user |-> old.user, login |-> old.login]
    BY <2>1, OpenTokens DEF View
  <2>4. S!Exchange(exchanging)
    BY <2>1, <2>2, <2>3 DEF S!Exchange, S!Fresh, View
  <2> QED
    BY <2>1, <2>4 DEF S!Next, S!Exchange, S!Fresh
<1>3. CASE issued' = issued /\ Open' \subseteq Open
  <2>1. Open' = Open \ (Open \ Open') /\ Open \ Open' \in SUBSET Open
    BY <1>3
  <2>2. S!Close(Open \ Open')
    BY <1>3, <2>1 DEF S!Close
  <2> QED
    BY <2>1, <2>2 DEF S!Next
<1>4. (\E c \in Clients, u \in Users : Login(c, u)) => S!Next
  BY <1>1 DEF S!Next
<1> QED
  BY <1>2, <1>3, <1>4, OtherSteps

\* The exchange in two statements implements the exchange in one step of
\* Sessions, whatever is lost, repeated or cut short.
THEOREM ExchangeIsOneStep == Spec => ImplementsSessions
PROOF
<1> QED
  BY TypeInit, TypeNext, SessionsInit, SessionsNext, PTL DEF Spec, S!Spec, ImplementsSessions

=============================================================================
