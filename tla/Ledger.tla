------------------------------- MODULE Ledger -------------------------------
(***************************************************************************)
(* What Antonion promises about money, with no trace of how it is done:    *)
(* a set of bank accounts with a balance each, and a set of recorded       *)
(* transactions.  A transfer is one indivisible step that moves an amount  *)
(* between two existing accounts, never more than the source holds, and    *)
(* records exactly that movement.  Administrators open, edit and close     *)
(* accounts; closing one takes its transactions with it.                   *)
(*                                                                         *)
(* Amounts are counted in hundredths (BankAccount.DECIMAL_PLACES = 2).     *)
(* Module Transfer is shown to implement this one.                         *)
(***************************************************************************)
EXTENDS Integers

CONSTANTS
    Ids,          \* identities of transfers, one per call of try_transfer
    Numbers,      \* account numbers
    Amounts,      \* sizes of transfers
    MaxBalance,   \* the largest value of numeric(20, 2)
    Opening,      \* the accounts that exist at first, with their balances
    Photos,       \* storage keys of the pictures sent with a transfer
    NoPhoto       \* stands for a transfer without a picture

VARIABLES
    balance,       \* table bank_accounts: number -> balance
    transactions   \* table transactions: a set of rows

ledgerVars == <<balance, transactions>>

Accounts == DOMAIN balance

Rows == [id : Ids, source : Numbers, destination : Numbers,
         accrual : Amounts, photo : Photos \cup {NoPhoto}]

\* The rows of Transaction that hang on an account by a foreign key.
RowsOf(n) == {t \in transactions : n \in {t.source, t.destination}}

\* What the row t adds to the account n; nothing when it pays itself.
Effect(t, n) ==
    (IF n = t.destination THEN t.accrual ELSE 0)
    - (IF n = t.source THEN t.accrual ELSE 0)

-----------------------------------------------------------------------------

Init ==
    /\ balance = Opening
    /\ transactions = {}

Transfer(t) ==
    /\ \A u \in transactions : u.id # t.id
    /\ {t.source, t.destination} \subseteq Accounts
    /\ balance[t.source] >= t.accrual
    /\ balance[t.destination] + Effect(t, t.destination) <= MaxBalance
    /\ balance' = [n \in Accounts |-> balance[n] + Effect(t, n)]
    /\ transactions' = transactions \cup {t}

Open(n, b) ==
    /\ n \notin Accounts
    /\ balance' = [m \in Accounts \cup {n} |-> IF m = n THEN b ELSE balance[m]]
    /\ UNCHANGED transactions

Save(n, b) ==
    /\ n \in Accounts
    /\ balance' = [balance EXCEPT ![n] = b]
    /\ UNCHANGED transactions

Close(n) ==
    /\ n \in Accounts
    /\ balance' = [m \in Accounts \ {n} |-> balance[m]]
    /\ transactions' = transactions \ RowsOf(n)

Next ==
    \/ \E t \in Rows : Transfer(t)
    \/ \E n \in Numbers, b \in 0..MaxBalance : Open(n, b) \/ Save(n, b)
    \/ \E n \in Numbers : Close(n)

Spec == Init /\ [][Next]_ledgerVars

=============================================================================
