-------------------------------- MODULE Friends --------------------------------
(***************************************************************************)
(* Friend requests and friendships.  A user asks, accepts, rejects and     *)
(* removes through the REST API (FriendHandlers) or through the bot (the   *)
(* conversations /add, /accept, /reject and /rm); the processes behind the *)
(* two run side by side.  A call is a series of database statements, each  *)
(* on the tables as they are then (READ COMMITTED); only the two inserts   *)
(* and the delete of an acceptance are one database transaction.           *)
(*                                                                         *)
(* A friendship is two rows, <<u, v>> and <<v, u>> (a symmetrical          *)
(* ManyToManyField).  add() is two INSERTs ... ON CONFLICT DO NOTHING,     *)
(* which wait for another transaction that has inserted the same row and   *)
(* not ended; remove() is one DELETE of both rows.                         *)
(***************************************************************************)
EXTENDS Integers, Sequences, FiniteSets

CONSTANTS
    Users,
    Workers,      \* processes that handle calls, each one at a time
    Ops,          \* what users do: subset of {"add", "accept", "reject", "remove"}
    MaxRequests,  \* bound: friend requests created
    NoCall        \* call[w] when w handles none

VARIABLES
    asked,        \* every request created, by its id: <<source, destination>>
    requests,     \* table friend_requests: the ids of its rows
    friends,      \* table of friendships, committed: a set of pairs
    answered,     \* history: <<id, "accepted" or "rejected">>
    met,          \* history: pairs that were friends, what /rm may still list
    removed,      \* history: pairs that somebody removed
    pc, call,     \* where each worker is, and in which call
    inserted      \* rows of friendships in each worker's open transaction

vars == <<asked, requests, friends, answered, met, removed, pc, call, inserted>>

Pairs == Users \X Users
Calls == [pair : Pairs, row : 0..MaxRequests]

ASSUME FriendsAssumption ==
    /\ Users # {}
    /\ IsFiniteSet(Workers)
    /\ MaxRequests \in Nat
    /\ NoCall \notin Calls

Mirror(p) == <<p[2], p[1]>>

\* Rows of friend_requests with this source and destination.
RowsOf(p) == {i \in requests : asked[i] = p}

Init ==
    /\ asked = <<>>
    /\ requests = {}
    /\ friends = {}
    /\ answered = {}
    /\ met = {}
    /\ removed = {}
    /\ pc = [w \in Workers |-> "idle"]
    /\ call = [w \in Workers |-> NoCall]
    /\ inserted = [w \in Workers |-> {}]

Tables == <<asked, requests, friends, answered, met, removed>>

Goto(w, next, p, row) ==
    /\ pc' = [pc EXCEPT ![w] = next]
    /\ call' = [call EXCEPT ![w] = [pair |-> p, row |-> row]]

\* Mutant: the call ends and leaves its transaction open.
DoneOpen(w) ==
    /\ pc' = [pc EXCEPT ![w] = "idle"]
    /\ call' = [call EXCEPT ![w] = NoCall]
    /\ UNCHANGED inserted

Done(w) ==
    /\ pc' = [pc EXCEPT ![w] = "idle"]
    /\ call' = [call EXCEPT ![w] = NoCall]
    /\ inserted' = [inserted EXCEPT ![w] = {}]

-----------------------------------------------------------------------------
(* The source asks the destination.                                        *)

Creating == {w \in Workers : pc[w] \in {"exists", "create"}}

\* is_friend_exists; a call it ends changes nothing.  Only the bot refuses
\* users who ask themselves.
Add(w, p) ==
    /\ "add" \in Ops /\ pc[w] = "idle"
    /\ Len(asked) + Cardinality(Creating) < MaxRequests
    /\ p \notin friends
    /\ Goto(w, "exists", p, 0)
    /\ UNCHANGED <<Tables, inserted>>

\* FriendRequestService.try_create
AddExists(w) ==
    /\ pc[w] = "exists"
    /\ IF RowsOf(call[w].pair) # {}
       THEN Done(w)
       ELSE Goto(w, "create", call[w].pair, 0) /\ UNCHANGED inserted
    /\ UNCHANGED Tables

\* Mutant: no unique_together.
AnyRow(p) == p \in Pairs

\* unique_together lets the row in; else an IntegrityError leaves the handler.
Unique(p) == RowsOf(p) = {}

AddCreate(w) ==
    LET p == call[w].pair
    IN  /\ pc[w] = "create"
        /\ IF Unique(p)
           THEN /\ asked' = Append(asked, p)
                /\ requests' = requests \cup {Len(asked) + 1}
           ELSE UNCHANGED <<asked, requests>>
        /\ Done(w)
        /\ UNCHANGED <<friends, answered, met, removed>>

-----------------------------------------------------------------------------
(* The destination accepts: FriendRequestService.try_accept.               *)

\* The request is read outside of the transaction; without one the answer is
\* False at once.
Accept(w, p) ==
    /\ "accept" \in Ops /\ pc[w] = "idle"
    /\ \E i \in RowsOf(p) : Goto(w, "insert", p, i)
    /\ UNCHANGED <<Tables, inserted>>

\* Mutant: the mirror row is left to a signal that does not come.
WantedOnce(w) == IF pc[w] = "insert" THEN {call[w].pair} ELSE {}

\* The row the next INSERT of w adds.
Wanted(w) ==
    CASE pc[w] = "insert" -> {call[w].pair}
      [] pc[w] = "mirror" -> {Mirror(call[w].pair)}
      [] OTHER -> {}

WaitsFor(w, v) == v # w /\ Wanted(w) \cap inserted[v] # {}

Insert(w, from, to) ==
    /\ pc[w] = from
    /\ \A v \in Workers : ~WaitsFor(w, v)
    /\ inserted' = [inserted EXCEPT ![w] = @ \cup (Wanted(w) \ friends)]
    /\ pc' = [pc EXCEPT ![w] = to]
    /\ UNCHANGED <<Tables, call>>

AcceptInsert(w) == Insert(w, "insert", "mirror")
AcceptMirror(w) == Insert(w, "mirror", "commit")

\* Mutant: the request stays.
RequestKept(i) == requests

\* request.delete(), of zero rows when it has gone meanwhile.
RequestDeleted(i) == requests \ {i}

\* The delete and COMMIT; True is returned.
AcceptCommit(w) ==
    /\ pc[w] = "commit"
    /\ requests' = RequestDeleted(call[w].row)
    /\ friends' = friends \cup inserted[w]
    /\ met' = met \cup inserted[w]
    /\ answered' = answered \cup {<<call[w].row, "accepted">>}
    /\ Done(w)
    /\ UNCHANGED <<asked, removed>>

\* Mutant: nobody looks for deadlocks.
DeadlockIgnored(w) == FALSE

\* Two acceptances that wait for each other's rows.
InDeadlock(w) == \E v \in Workers : WaitsFor(w, v) /\ WaitsFor(v, w)

\* PostgreSQL aborts one of them; an OperationalError leaves the handler.
DeadlockVictim(w) ==
    /\ InDeadlock(w)
    /\ Done(w)
    /\ UNCHANGED Tables

\* The process dies; the server rolls its transaction back.
Crash(w) ==
    /\ pc[w] # "idle"
    /\ Done(w)
    /\ UNCHANGED Tables

-----------------------------------------------------------------------------
(* The destination rejects, a friend removes.                              *)

\* try_reject is one DELETE.
Reject(w, p) ==
    /\ "reject" \in Ops /\ pc[w] = "idle"
    /\ requests' = requests \ RowsOf(p)
    /\ answered' = answered \cup {<<i, "rejected">> : i \in RowsOf(p)}
    /\ UNCHANGED <<asked, friends, met, removed, pc, call, inserted>>

\* REST looks the friend up in the friend's rows, the bot in an older list.
Remove(w, p) ==
    /\ "remove" \in Ops /\ pc[w] = "idle"
    /\ Mirror(p) \in met
    /\ Goto(w, "remove", p, 0)
    /\ UNCHANGED <<Tables, inserted>>

RemoveDelete(w) ==
    /\ pc[w] = "remove"
    /\ friends' = friends \ {call[w].pair, Mirror(call[w].pair)}
    /\ removed' = removed \cup {call[w].pair, Mirror(call[w].pair)}
    /\ Done(w)
    /\ UNCHANGED <<asked, requests, answered, met>>

-----------------------------------------------------------------------------

Step(w) ==
    \/ AddExists(w) \/ AddCreate(w)
    \/ AcceptInsert(w) \/ AcceptMirror(w) \/ AcceptCommit(w)
    \/ RemoveDelete(w)

Next ==
    \E w \in Workers :
        \/ \E p \in Pairs : Add(w, p) \/ Accept(w, p) \/ Reject(w, p) \/ Remove(w, p)
        \/ Step(w)
        \/ DeadlockVictim(w)
        \/ Crash(w)

Spec == Init /\ [][Next]_vars

\* A process goes on with its call, the server looks for deadlocks, and a row
\* that is released goes to a transaction that waits for it (strong fairness).
FairSpec ==
    /\ Spec
    /\ \A w \in Workers :
          /\ WF_vars(Step(w)) /\ WF_vars(DeadlockVictim(w))
          /\ SF_vars(AcceptInsert(w)) /\ SF_vars(AcceptMirror(w))

-----------------------------------------------------------------------------
(* Properties.                                                             *)

TypeOK ==
    /\ asked \in Seq(Pairs) /\ Len(asked) <= MaxRequests
    /\ requests \subseteq DOMAIN asked
    /\ friends \subseteq met /\ met \subseteq Pairs /\ removed \subseteq met
    /\ answered \subseteq (DOMAIN asked) \X {"accepted", "rejected"}
    /\ pc \in [Workers -> {"idle", "exists", "create", "insert", "mirror", "commit", "remove"}]
    /\ call \in [Workers -> Calls \cup {NoCall}]
    /\ inserted \in [Workers -> SUBSET Pairs]
    /\ \A w \in Workers :
          /\ pc[w] = "idle" <=> call[w] = NoCall
          /\ inserted[w] # {} => pc[w] \in {"mirror", "commit"}

\* However many calls look for it and create it at the same time, there is
\* at most one request of one user to another.
OneRequest == \A i, j \in requests : asked[i] = asked[j] => i = j

\* A request that was answered, by whichever of several calls, is gone.  (It may
\* have been answered twice: an acceptance that has read the request makes
\* friends although a rejection deletes the request first.)
AnsweredIsGone == \A a \in answered : a[1] \notin requests

\* Until somebody removes a friend, friendship is symmetrical however many
\* acceptances of the two users' requests interleave, abort or die.  (A removal
\* between the two inserts of an acceptance by users who are friends already
\* leaves half a friendship.)
AcceptedTogether == \A p \in friends : Mirror(p) \in friends \cup removed

\* Every call ends: acceptances do not wait for each other for ever.
EveryCallEnds == \A w \in Workers : pc[w] # "idle" ~> pc[w] = "idle"

=============================================================================
