----------------------------- MODULE Notifications -----------------------------
(***************************************************************************)
(* /last: the payments a user has not seen yet.  The handler, in the bot's *)
(* process, makes a list of the user's new transactions, marks all his     *)
(* transactions as viewed with two UPDATEs, one for each side, and sends   *)
(* the list, message by message; each of these is a step of its own.       *)
(* Meanwhile transfers commit, and accounts are closed, in the process of  *)
(* the REST API and the admin site.  A transfer is one step here, its      *)
(* COMMIT (see Transfer).                                                  *)
(*                                                                         *)
(* Messages go out in the order of created_at, which is taken before       *)
(* COMMIT; the model leaves the order open.                                *)
(***************************************************************************)
EXTENDS Naturals, Sequences

CONSTANTS
    Users,
    Owner,        \* account number -> its owner
    MayRaise,     \* whether handle_last may raise, or its process die
    MayClose,     \* whether administrators close accounts
    MaxPayments,  \* bound: transactions
    Nobody        \* reader while no /last is handled

VARIABLES
    accounts,     \* table bank_accounts
    paid,         \* every transaction ever, by its id
    rows,         \* table transactions: the ids of its rows
    source_viewed, destination_viewed,   \* the rows with that flag
    pc, reader,   \* where handle_last is, and for whom
    pending,      \* transactions listed, and not sent yet
    sent,         \* history: <<user, id>> for each message, in order
    excused       \* history: <<user, id>> that may never be shown

tables == <<accounts, paid, rows, source_viewed, destination_viewed>>
vars == <<tables, pc, reader, pending, sent, excused>>

Payments == [source : DOMAIN Owner, destination : DOMAIN Owner]

ASSUME NotificationsAssumption ==
    /\ Owner \in [DOMAIN Owner -> Users]
    /\ Nobody \notin Users
    /\ {MayRaise, MayClose} \subseteq BOOLEAN
    /\ MaxPayments \in Nat

FromUser(u) == {i \in rows : Owner[paid[i].source] = u}
ToUser(u)   == {i \in rows : Owner[paid[i].destination] = u}

get_new_transactions(u) ==
    (FromUser(u) \ source_viewed) \cup (ToUser(u) \ destination_viewed)

Init ==
    /\ accounts = DOMAIN Owner
    /\ paid = <<>>
    /\ rows = {}
    /\ source_viewed = {}
    /\ destination_viewed = {}
    /\ pc = "idle"
    /\ reader = Nobody
    /\ pending = {}
    /\ sent = <<>>
    /\ excused = {}

-----------------------------------------------------------------------------
(* handle_last                                                             *)

handle_last(u) ==
    /\ pc = "idle"
    /\ pc' = "mark_source"
    /\ reader' = u
    /\ pending' = get_new_transactions(u)
    /\ UNCHANGED <<tables, sent, excused>>

MarkSource ==
    /\ pc = "mark_source"
    /\ source_viewed' = source_viewed \cup FromUser(reader)
    /\ pc' = "mark_destination"
    /\ UNCHANGED <<accounts, paid, rows, destination_viewed, reader, pending, sent, excused>>

\* Mutant: the destination's flag is set where the user is the source.
SourceAgain(u) == FromUser(u)

\* Mutant: no WHERE, everybody's transactions are marked.
AllRows(u) == rows

\* The rows of the second UPDATE.
DestinationRows(u) == ToUser(u)

\* "nothing": the list was empty, the user is told that nothing is new.
MarkDestination ==
    /\ pc = "mark_destination"
    /\ destination_viewed' = destination_viewed \cup DestinationRows(reader)
    /\ pc' = IF pending = {} THEN "nothing" ELSE "send"
    /\ UNCHANGED <<accounts, paid, rows, source_viewed, reader, pending, sent, excused>>

\* Mutant: the list outlives the handler.
EndKeepsList ==
    /\ pc' = "idle"
    /\ reader' = Nobody
    /\ UNCHANGED pending

End ==
    /\ pc' = "idle"
    /\ reader' = Nobody
    /\ pending' = {}

\* The accounts of a transaction are fetched when its message is put together.
Fetched(i) == {paid[i].source, paid[i].destination} \subseteq accounts

Send ==
    /\ pc = "send"
    /\ \E i \in pending :
          /\ Fetched(i)
          /\ sent' = Append(sent, <<reader, i>>)
          /\ pending' = pending \ {i}
    /\ UNCHANGED <<tables, pc, reader, excused>>

\* "This was the last payment", or "there were no new payments".
Finish ==
    /\ pc \in {"send", "nothing"}
    /\ pending = {}
    /\ End
    /\ UNCHANGED <<tables, sent, excused>>

\* What was listed, is marked by now and has not been sent is lost.
Lost == {<<reader, i>> : i \in pending \ get_new_transactions(reader)}

Raise == End /\ excused' = excused \cup Lost

\* The database or Telegram refuses, or the process dies.
LastRaises ==
    /\ MayRaise
    /\ pc # "idle"
    /\ Raise
    /\ UNCHANGED <<tables, sent>>

\* The message arrives, Telegram's answer does not.
SendRaises ==
    /\ MayRaise
    /\ pc = "send"
    /\ \E i \in pending : Fetched(i) /\ sent' = Append(sent, <<reader, i>>)
    /\ Raise
    /\ UNCHANGED tables

\* An account of the transaction is gone: BankAccount.DoesNotExist.
FetchRaises ==
    /\ pc = "send"
    /\ \E i \in pending : ~Fetched(i)
    /\ Raise
    /\ UNCHANGED <<tables, sent>>

-----------------------------------------------------------------------------
(* Meanwhile.                                                              *)

\* The one whose list is made already, and whose flag is still to be set.
Between(t) ==
    {reader} \cap
        ((IF pc = "mark_source" THEN {Owner[t.source]} ELSE {}) \cup
         (IF pc \in {"mark_source", "mark_destination"} THEN {Owner[t.destination]} ELSE {}))

Transfer(t) ==
    /\ Len(paid) < MaxPayments
    /\ {t.source, t.destination} \subseteq accounts
    /\ paid' = Append(paid, t)
    /\ rows' = rows \cup {Len(paid) + 1}
    /\ excused' = excused \cup (Between(t) \X {Len(paid) + 1})
    /\ UNCHANGED <<accounts, source_viewed, destination_viewed, pc, reader, pending, sent>>

\* on_delete=CASCADE
Close(n) ==
    /\ MayClose
    /\ n \in accounts
    /\ accounts' = accounts \ {n}
    /\ rows' = {i \in rows : n \notin {paid[i].source, paid[i].destination}}
    /\ UNCHANGED <<paid, source_viewed, destination_viewed, pc, reader, pending, sent, excused>>

Next ==
    \/ \E u \in Users : handle_last(u)
    \/ MarkSource \/ MarkDestination \/ Send \/ Finish
    \/ LastRaises \/ SendRaises \/ FetchRaises
    \/ \E t \in Payments : Transfer(t)
    \/ \E n \in DOMAIN Owner : Close(n)

Spec == Init /\ [][Next]_vars

-----------------------------------------------------------------------------
(* Properties.                                                             *)

Ids == DOMAIN paid

TypeOK ==
    /\ accounts \subseteq DOMAIN Owner
    /\ paid \in Seq(Payments)
    /\ rows \subseteq Ids
    /\ source_viewed \subseteq Ids /\ destination_viewed \subseteq Ids
    /\ pc \in {"idle", "mark_source", "mark_destination", "send", "nothing"}
    /\ reader \in Users \cup {Nobody}
    /\ pc = "idle" <=> reader = Nobody
    /\ pending \subseteq Ids
    /\ pc \in {"idle", "nothing"} => pending = {}
    /\ sent \in Seq(Users \X Ids)
    /\ excused \subseteq Users \X Ids

\* Nobody is shown a payment twice, whatever raised in between, and nobody is
\* shown one of others.
ShownOnce ==
    /\ \A i, j \in DOMAIN sent : i # j => sent[i] # sent[j]
    /\ \A i \in DOMAIN sent :
          LET t == paid[sent[i][2]]
          IN  sent[i][1] \in {Owner[t.source], Owner[t.destination]}

Shown(u, i) == \E k \in DOMAIN sent : sent[k] = <<u, i>>

Accounted(u, i) ==
    Shown(u, i) \/ i \in get_new_transactions(u) \/ (u = reader /\ i \in pending)

\* A payment stays new to each side until that side is shown it, unless the
\* handler raised after it had marked it, or the payment was committed between
\* the list and the UPDATE of that side: nothing else is ever lost.
ShownOrNew ==
    \A u \in Users : \A i \in FromUser(u) \cup ToUser(u) :
        Accounted(u, i) \/ <<u, i>> \in excused

\* Whoever is told that nothing is new has been shown everything, except what
\* was committed since and will be shown next time.
NothingNewIsTrue ==
    pc = "nothing" =>
        \A i \in FromUser(reader) \cup ToUser(reader) : Accounted(reader, i)

=============================================================================
