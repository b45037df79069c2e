------------------------------ MODULE Transfer ------------------------------
(***************************************************************************)
(* TransferService.try_transfer as it really runs: several processes (the  *)
(* gunicorn worker with the REST API, the admin site and the bot webhook,  *)
(* and `manage.py runbot`) share one PostgreSQL database at its default    *)
(* isolation level, READ COMMITTED.  A transfer is a database transaction  *)
(* of two UPDATEs, a photo upload and an INSERT, then COMMIT.              *)
(*                                                                         *)
(* An UPDATE locks the row it changes until the end of the transaction and *)
(* keeps the new version private (dirty) until COMMIT; an UPDATE of a row  *)
(* somebody else has locked waits and then works on the committed version. *)
(* An UPDATE of a row that does not exist changes zero rows and is no      *)
(* error.  Foreign keys are DEFERRABLE INITIALLY DEFERRED (Django), so     *)
(* they are looked at by COMMIT.                                           *)
(***************************************************************************)
EXTENDS Integers, FiniteSetsExt

CONSTANTS
    Workers,       \* threads of control that can run a transfer
    Ids,           \* calls of try_transfer (its id_, one uuid4 a call); a bound
    Numbers,       \* account numbers
    MinNumber,     \* BankAccount._MIN_NUMBER_VALUE
    Amounts,       \* sizes of transfers that pass validate_accrual
    MaxBalance,    \* the largest value of numeric(20, 2)
    Opening,       \* the accounts that exist at first, with their balances
    FormBalances,  \* balances an administrator types in
    Photos,        \* storage keys of pictures
    NoPhoto,
    NoRequest,     \* value of request[w] when w runs no transfer
    AdminOps,      \* what administrators do: subset of {"open", "save", "close"}
    Faults         \* what goes wrong: subset of {"crash", "upload", "lost_commit"}

VARIABLES
    balance,       \* committed bank_accounts: number -> balance
    transactions,  \* committed rows of transactions
    issued,        \* every number an account ever had: what a bot dialog may
                   \* still hold in user_data
    media,         \* keys of the files in the object storage
    pc,            \* where each worker is
    request,       \* the row each worker is about to declare
    dirty,         \* row versions of each worker's open database transaction
    outcome        \* what each call of try_transfer came to

vars == <<balance, transactions, issued, media, pc, request, dirty, outcome>>

\* The abstract ledger, over the committed tables.
Books == INSTANCE Ledger

Accounts == DOMAIN balance
Rows     == Books!Rows
NoRows   == [n \in {} |-> 0]

ASSUME TransferAssumption ==
    /\ Numbers \subseteq Nat
    /\ MinNumber \in Numbers
    /\ MaxBalance \in Nat
    /\ Amounts \subseteq Nat \ {0}
    /\ FormBalances \subseteq 0..MaxBalance
    /\ DOMAIN Opening \subseteq Numbers
    /\ Opening \in [DOMAIN Opening -> 0..MaxBalance]
    /\ NoPhoto \notin Photos
    /\ NoRequest \notin Rows

Init ==
    /\ balance = Opening
    /\ transactions = {}
    /\ issued = DOMAIN Opening
    /\ media = {}
    /\ pc = [w \in Workers |-> "idle"]
    /\ request = [w \in Workers |-> NoRequest]
    /\ dirty = [w \in Workers |-> NoRows]
    /\ outcome = [i \in Ids |-> "new"]

-----------------------------------------------------------------------------
(* Row locks and row versions.                                             *)

Held(w) == DOMAIN dirty[w]

\* Mutant: no row locks, each UPDATE works on what was committed last.
NeverLocked(w, n) == FALSE

LockedByOther(w, n) == \E v \in Workers \ {w} : n \in Held(v)

\* Mutant: forms write past a row lock.
NothingLocked(n) == FALSE

Locked(n) == \E v \in Workers : n \in Held(v)

\* Mutant: balance read once from the committed row, not from the own version.
CommittedVersion(w, n) == balance[n]

Version(w, n) == IF n \in Held(w) THEN dirty[w][n] ELSE balance[n]

\* The row the next statement of w wants to update.
Wanted(w) ==
    CASE pc[w] = "subtract" -> {request[w].source}
      [] pc[w] = "accrue"   -> {request[w].destination}
      [] OTHER              -> {}

WaitsFor(w, v) == v # w /\ Wanted(w) \cap Held(v) # {}

\* Mutant: nobody looks for deadlocks.
DeadlockIgnored(w) == FALSE

\* w is part of a cycle of waiting transactions.
InDeadlock(w) ==
    \E C \in SUBSET Workers :
        /\ w \in C
        /\ \A v \in C : /\ \E u \in C : WaitsFor(v, u)
                        /\ \E u \in C : WaitsFor(u, v)

-----------------------------------------------------------------------------
(* How a call of try_transfer ends.                                        *)

Finish(w, result) ==
    /\ pc' = [pc EXCEPT ![w] = "idle"]
    /\ request' = [request EXCEPT ![w] = NoRequest]
    /\ dirty' = [dirty EXCEPT ![w] = NoRows]
    /\ outcome' = [outcome EXCEPT ![request[w].id] = result]

\* "failed": IntegrityError was caught and None returned;
\* "error":  another exception left try_transfer, or its process died.
Rollback(w, result) ==
    /\ Finish(w, result)
    /\ UNCHANGED <<balance, transactions, issued>>

-----------------------------------------------------------------------------
(* A call of try_transfer begins.                                          *)

Begin(w, t) ==
    /\ pc[w] = "idle"
    /\ outcome[t.id] = "new"
    /\ pc' = [pc EXCEPT ![w] = "subtract"]
    /\ request' = [request EXCEPT ![w] = t]
    /\ outcome' = [outcome EXCEPT ![t.id] = "running"]
    /\ UNCHANGED <<balance, transactions, issued, media, dirty>>

\* BankHandlers.transfer looks both accounts up and refuses equal ones.
RestTransfer(w, t) ==
    /\ {t.source, t.destination} \subseteq Accounts
    /\ t.source # t.destination
    /\ Begin(w, t)

\* handle_transfer takes the accounts from user_data, however old they are;
\* a user who befriended himself over REST may pay himself.
BotConfirm(w, t) ==
    /\ {t.source, t.destination} \subseteq issued
    /\ Begin(w, t)

-----------------------------------------------------------------------------
(* UPDATE bank_accounts SET balance = balance + delta WHERE number = n     *)

\* Mutant: no check_balance constraint.
NoCheckBalance(b) == b \in Int

CheckBalance(b) == b >= 0               \* constraint check_balance
FitsColumn(b) == b \in -MaxBalance..MaxBalance

UpdateNoRow(w, n, next) ==
    /\ n \notin Accounts
    /\ pc' = [pc EXCEPT ![w] = next]
    /\ UNCHANGED <<balance, transactions, issued, media, request, dirty, outcome>>

UpdateRow(w, n, delta, next) ==
    /\ n \in Accounts
    /\ ~LockedByOther(w, n)
    /\ LET new == Version(w, n) + delta
       IN  /\ FitsColumn(new)
           /\ CheckBalance(new)
           /\ dirty' = [dirty EXCEPT ![w] =
                 [m \in Held(w) \cup {n} |-> IF m = n THEN new ELSE dirty[w][m]]]
    /\ pc' = [pc EXCEPT ![w] = next]
    /\ UNCHANGED <<balance, transactions, issued, media, request, outcome>>

\* The column overflows (DataError), else the CHECK fails (IntegrityError).
UpdateFails(w, n, delta) ==
    /\ n \in Accounts
    /\ ~LockedByOther(w, n)
    /\ LET new == Version(w, n) + delta
       IN  \/ ~FitsColumn(new) /\ Rollback(w, "error")
           \/ FitsColumn(new) /\ ~CheckBalance(new) /\ Rollback(w, "failed")
    /\ UNCHANGED media

Update(w, n, delta, next) ==
    \/ UpdateNoRow(w, n, next)
    \/ UpdateRow(w, n, delta, next)
    \/ UpdateFails(w, n, delta)

Subtract(w) ==
    /\ pc[w] = "subtract"
    /\ Update(w, request[w].source, -request[w].accrual, "accrue")

Accrue(w) ==
    /\ pc[w] = "accrue"
    /\ Update(w, request[w].destination, request[w].accrual, "declare")

-----------------------------------------------------------------------------
(* TransactionRepository.declare: the file is stored while the INSERT is   *)
(* being built, after the accrual has been fitted to its column.           *)

FitsAccrual(t) == t.accrual <= MaxBalance

PhotoOf(t) == {t.photo} \ {NoPhoto}

\* Mutant: a failed upload is logged and the row inserted all the same.
DeclareRowUnstored(w) ==
    /\ media' \in {media, media \cup PhotoOf(request[w])}
    /\ pc' = [pc EXCEPT ![w] = "commit"]
    /\ UNCHANGED <<balance, transactions, issued, request, dirty, outcome>>

DeclareRow(w) ==
    /\ FitsAccrual(request[w])
    /\ media' = media \cup PhotoOf(request[w])
    /\ pc' = [pc EXCEPT ![w] = "commit"]
    /\ UNCHANGED <<balance, transactions, issued, request, dirty, outcome>>

DeclareFails(w) ==
    /\ \/ ~FitsAccrual(request[w])
       \/ "upload" \in Faults /\ PhotoOf(request[w]) # {}
    /\ Rollback(w, "error")
    /\ UNCHANGED media

Declare(w) ==
    /\ pc[w] = "declare"
    /\ DeclareRow(w) \/ DeclareFails(w)

-----------------------------------------------------------------------------
(* COMMIT, at the end of the atomic block.                                 *)

\* Mutant: foreign keys without a database constraint.
NoForeignKeys(t) == t \in Rows

ForeignKeysHold(t) == {t.source, t.destination} \subseteq Accounts

\* Mutant: any exception, not only IntegrityError, is turned into None.
CatchAllResults == {"done", "failed"}

\* The connection may break after the server has committed: the caller then
\* gets an exception for a transfer that took place.
CommitResults == {"done"} \cup (IF "lost_commit" \in Faults THEN {"error"} ELSE {})

CommitRows(w) ==
    /\ ForeignKeysHold(request[w])
    /\ balance' = [n \in Accounts |-> Version(w, n)]
    /\ transactions' = transactions \cup {request[w]}
    /\ \E result \in CommitResults : Finish(w, result)
    /\ UNCHANGED <<issued, media>>

CommitFails(w) ==
    /\ ~ForeignKeysHold(request[w])
    /\ Rollback(w, "failed")
    /\ UNCHANGED media

Commit(w) ==
    /\ pc[w] = "commit"
    /\ CommitRows(w) \/ CommitFails(w)

-----------------------------------------------------------------------------
(* What the database and the operating system do.                          *)

\* The worker's process dies; the server rolls its transaction back.
Crash(w) ==
    /\ "crash" \in Faults
    /\ pc[w] # "idle"
    /\ Rollback(w, "error")
    /\ UNCHANGED media

\* PostgreSQL picks a transaction of the cycle and aborts it: psycopg2 raises
\* an OperationalError, which try_transfer does not catch.
DeadlockVictim(w) ==
    /\ InDeadlock(w)
    /\ Rollback(w, "error")
    /\ UNCHANGED media

-----------------------------------------------------------------------------
(* Administrators: each form is one short transaction that waits for the   *)
(* row's lock.                                                             *)

\* BankAccount.generate_number: one more than the last.
NextNumber(n) ==
    IF Accounts = {} THEN n = MinNumber
    ELSE n - 1 \in Accounts /\ \A m \in Accounts : m < n

AdminOpen(n, b) ==
    /\ "open" \in AdminOps
    /\ NextNumber(n)
    /\ balance' = [m \in Accounts \cup {n} |-> IF m = n THEN b ELSE balance[m]]
    /\ issued' = issued \cup {n}
    /\ UNCHANGED <<transactions, media, pc, request, dirty, outcome>>

\* The form writes the whole row: the balance it showed, or another.
AdminSave(n, b) ==
    /\ "save" \in AdminOps
    /\ n \in Accounts
    /\ ~Locked(n)
    /\ balance' = [balance EXCEPT ![n] = b]
    /\ UNCHANGED <<transactions, issued, media, pc, request, dirty, outcome>>

\* on_delete=CASCADE takes the account's transactions, and django_cleanup
\* their files.
AdminClose(n) ==
    /\ "close" \in AdminOps
    /\ n \in Accounts
    /\ ~Locked(n)
    /\ balance' = [m \in Accounts \ {n} |-> balance[m]]
    /\ transactions' = transactions \ Books!RowsOf(n)
    /\ media' = media \ UNION {PhotoOf(t) : t \in Books!RowsOf(n)}
    /\ UNCHANGED <<issued, pc, request, dirty, outcome>>

-----------------------------------------------------------------------------

Statement(w) == Subtract(w) \/ Accrue(w) \/ Declare(w) \/ Commit(w)

Next ==
    \/ \E w \in Workers, t \in Rows : RestTransfer(w, t) \/ BotConfirm(w, t)
    \/ \E w \in Workers : Statement(w) \/ Crash(w) \/ DeadlockVictim(w)
    \/ \E n \in Numbers, b \in FormBalances : AdminOpen(n, b) \/ AdminSave(n, b)
    \/ \E n \in Numbers : AdminClose(n)

Spec == Init /\ [][Next]_vars

\* A worker that has begun goes on, and the server looks for deadlocks.
Fairness == \A w \in Workers : WF_vars(Statement(w)) /\ WF_vars(DeadlockVictim(w))

FairSpec == Spec /\ Fairness

-----------------------------------------------------------------------------
(* Properties.                                                             *)

Versions == UNION {[S -> 0..MaxBalance] : S \in SUBSET Numbers}

\* Every variable keeps its type; in particular no balance, committed or not
\* yet, is ever negative or wider than its column.
TypeOK ==
    /\ balance \in Versions
    /\ transactions \subseteq Rows
    /\ issued \subseteq Numbers
    /\ media \subseteq Photos
    /\ pc \in [Workers -> {"idle", "subtract", "accrue", "declare", "commit"}]
    /\ request \in [Workers -> Rows \cup {NoRequest}]
    /\ dirty \in [Workers -> Versions]
    /\ outcome \in [Ids -> {"new", "running", "done", "failed", "error"}]

\* The accounts whose UPDATE has been sent by w, whatever it changed.
Touched(w) ==
    CASE pc[w] = "accrue" -> {request[w].source}
      [] pc[w] \in {"declare", "commit"} -> {request[w].source, request[w].destination}
      [] OTHER -> {}

\* What those UPDATEs were to add to the balance of n.
Change(w, n) ==
    IF pc[w] = "accrue" THEN -request[w].accrual ELSE Books!Effect(request[w], n)

LocksExclusive == \A v, w \in Workers : v # w => Held(v) \cap Held(w) = {}

VersionsCurrent ==
    \A w \in Workers :
        /\ Held(w) = Touched(w) \cap Accounts
        /\ \A n \in Held(w) : dirty[w][n] = balance[n] + Change(w, n)

\* No lost update: what a transfer will commit for an account is always the
\* balance committed now, whoever committed it and when, plus this transfer's
\* own change, and it has a version of every existing account it updated.
\* (An administrator's form may still write an old balance over it afterwards.)
NoLostUpdate == LocksExclusive /\ VersionsCurrent

\* Every account holds what it opened with (an account opened later: nothing),
\* plus what the recorded transactions brought it, minus what they took:
\* history and balance agree after any interleaving, rollback and crash, when
\* nobody edits balances or closes accounts.
BooksBalance ==
    \A n \in Accounts :
        balance[n] = (IF n \in DOMAIN Opening THEN Opening[n] ELSE 0) +
            MapThenSumSet(LAMBDA t : Books!Effect(t, n), transactions)

\* What try_transfer reports is what happened: a call that returned None, is
\* still running or has not begun has left no row; and while no account is
\* closed, a call that returned a Transaction has left exactly its row.
OutcomeMatchesBooks ==
    \A i \in Ids :
        LET rows == {t \in transactions : t.id = i}
        IN  /\ outcome[i] \in {"new", "running", "failed"} => rows = {}
            /\ outcome[i] = "done" /\ "close" \notin AdminOps => rows # {}
            /\ \A t, u \in rows : t = u

\* The strengthening that makes the two invariants above inductive: what a
\* call in progress may rely on.
CallsInProgress ==
    \A w \in Workers : pc[w] # "idle" =>
        /\ outcome[request[w].id] = "running"
        /\ {request[w].source, request[w].destination} \subseteq issued
        /\ \A v \in Workers \ {w} : pc[v] # "idle" => request[v].id # request[w].id

NumbersIssued ==
    /\ Accounts \subseteq issued
    /\ "close" \notin AdminOps => issued = Accounts

Funded ==
    \A w \in Workers :
        /\ pc[w] \in {"accrue", "declare", "commit"}
        /\ request[w].source \in Accounts
        => balance[request[w].source] >= request[w].accrual

\* No account number is given out again while a transfer may still hold it.
\* (If one is, between the UPDATE of its row, which changed none, and COMMIT,
\* whose foreign key then holds, the transfer is recorded and its money gone.)
NoReuse == ~({"open", "close"} \subseteq AdminOps)

IInv == CallsInProgress /\ NumbersIssued /\ OutcomeMatchesBooks /\ NoLostUpdate /\ Funded

\* The picture of every recorded transaction can be fetched.
PhotoStored == \A t \in transactions : PhotoOf(t) \subseteq media

\* The detailed program implements the ledger.
ImplementsLedger == Books!Spec

\* Every call of try_transfer ends: no transfer waits for ever for a lock.
EveryTransferEnds == \A i \in Ids : outcome[i] = "running" ~> outcome[i] # "running"

=============================================================================
