------------------------------ MODULE Documents ------------------------------
(***************************************************************************)
(* Accounts and cards, what their numbers stand for over time, and what    *)
(* hangs on them: payments and the pictures that were sent with them.      *)
(*                                                                         *)
(* A card is another number of an account.  Payments are made to numbers   *)
(* and recorded with the accounts these stand for at that time; histories  *)
(* are asked for by number, later.  The admin site opens, edits and closes *)
(* documents; a number that was freed is given out again when it was the   *)
(* last.  Payments are one step (see Transfer) and may always be refused;  *)
(* what they do to balances is the matter of Ledger.                       *)
(***************************************************************************)
EXTENDS Integers, FiniteSets, Sequences

CONSTANTS
    Users,
    MIN_ACCOUNT, MAX_ACCOUNT,   \* numbers of DIGITS_COUNT digits
    MIN_CARD, MAX_CARD,
    Pictures,      \* pictures sent to the bot, by file_unique_id
    MaxPaid,       \* bound: payments
    MaxForms,      \* bound: what administrators do
    MaxDay,        \* bound: days
    None

VARIABLES
    accounts,      \* table bank_accounts: number -> owner
    cards,         \* table bank_cards: number -> account
    paid,          \* history: every payment, with the numbers it was made to
    rows,          \* table transactions: the payments recorded in it
    media,         \* keys of the files in the object storage
    day,
    forms,
    excused        \* history: payments whose numbers have lost their meaning

vars == <<accounts, cards, paid, rows, media, day, forms, excused>>

AccountNumbers == MIN_ACCOUNT..MAX_ACCOUNT
CardNumbers == MIN_CARD..MAX_CARD
Numbers == AccountNumbers \cup CardNumbers

ASSUME DocumentsAssumption ==
    /\ {MIN_ACCOUNT, MAX_ACCOUNT, MIN_CARD, MAX_CARD, MaxPaid, MaxForms, MaxDay} \subseteq Nat
    /\ AccountNumbers \cap CardNumbers = {}
    /\ None \notin Numbers
    /\ Pictures \cap Nat = {}

Init ==
    /\ accounts = [n \in {} |-> None]
    /\ cards = [n \in {} |-> None]
    /\ paid = <<>>
    /\ rows = {}
    /\ media = {}
    /\ day = 0
    /\ forms = 0
    /\ excused = {}

-----------------------------------------------------------------------------
(* Queries.                                                                *)

\* get_bank_account_by_document_number: the accounts it finds.
ByNumber(n) == {a \in DOMAIN accounts : a = n \/ (n \in DOMAIN cards /\ cards[n] = a)}

\* get_bank_account, get_card of user u.
Own(u, n) == {a \in ByNumber(n) : accounts[a] = u}

AccountsOf(u) == {a \in DOMAIN accounts : accounts[a] = u}

\* Mutant: only what the account paid.
PaidBy(a) == {i \in rows : paid[i].source = a}

\* TransactionRepository.get_transactions
get_transactions(a) == {i \in rows : a \in {paid[i].source, paid[i].destination}}

\* The account or the card with number n, if it is user u's.
try_get_account(u, n) == {a \in DOMAIN accounts : a = n /\ accounts[a] = u}
try_get_card(u, n) == {c \in DOMAIN cards : c = n /\ accounts[cards[c]] = u}

get_bank_account_from_document(n) == IF n \in DOMAIN cards THEN cards[n] ELSE n

get_account_history(u, n) == UNION {get_transactions(a) : a \in try_get_account(u, n)}

get_card_history(u, n) ==
    UNION {get_transactions(get_bank_account_from_document(c)) : c \in try_get_card(u, n)}

\* What the owner of a number is answered.
History(n) == UNION {get_account_history(u, n) \cup get_card_history(u, n) : u \in Users}

-----------------------------------------------------------------------------
(* Payments.                                                               *)

Fresh == Len(paid) + 1

\* upload_to="transactions/%Y/%m/%d/"
Key(name) == <<name, day>>

Pay(payment) ==
    /\ paid' = Append(paid, payment)
    /\ rows' = rows \cup {Fresh}
    /\ media' = media \cup ({payment.photo} \ {None})
    /\ UNCHANGED <<accounts, cards, day, forms, excused>>

\* Mutant: a name that two requests may have.
PhotoName(u) == u

\* The moment of the request, here as its payment's place in the history.
UniqueName(u) == Fresh

\* BankHandlers.transfer
RestTransfer(u, s, d, photo) ==
    /\ Len(paid) < MaxPaid
    /\ \E source \in Own(u, s), destination \in ByNumber(d) :
          /\ source # destination
          /\ Pay([source |-> source, destination |-> destination, numbers |-> {s, d},
                  photo |-> IF photo THEN Key(UniqueName(u)) ELSE None, rest |-> TRUE])

\* handle_transfer: the accounts a user chose in the bot (see TransferDialog).
BotTransfer(source, destination, photo) ==
    /\ Len(paid) < MaxPaid
    /\ {source, destination} \subseteq DOMAIN accounts
    /\ Pay([source |-> source, destination |-> destination, numbers |-> {source, destination},
            photo |-> IF photo \in Pictures THEN Key(photo) ELSE None, rest |-> FALSE])

-----------------------------------------------------------------------------
(* The forms of the admin site.                                            *)

\* Mutant: the next number from the number of rows.
NumberByCount(n, numbers, min) == n = min + Cardinality(numbers)

\* generate_number: one more than the last.
generate_number(n, numbers, min) ==
    IF numbers = {} THEN n = min
    ELSE n - 1 \in numbers /\ \A m \in numbers : m < n

Form ==
    /\ forms < MaxForms
    /\ forms' = forms + 1
    /\ UNCHANGED <<paid, day>>

Put(f, n, value) == [m \in DOMAIN f \cup {n} |-> IF m = n THEN value ELSE f[m]]

\* save() with a number that a row has already would overwrite that row; one
\* too long for its column is refused.
OpenAccount(n, u) ==
    /\ Form
    /\ generate_number(n, DOMAIN accounts, MIN_ACCOUNT)
    /\ accounts' = Put(accounts, n, u)
    /\ UNCHANGED <<cards, rows, media, excused>>

IssueCard(n, a) ==
    /\ Form
    /\ a \in DOMAIN accounts
    /\ generate_number(n, DOMAIN cards, MIN_CARD)
    /\ cards' = Put(cards, n, a)
    /\ UNCHANGED <<accounts, rows, media, excused>>

\* An account is given to another user.
GiveAccount(n, u) ==
    /\ Form
    /\ n \in DOMAIN accounts
    /\ accounts' = [accounts EXCEPT ![n] = u]
    /\ UNCHANGED <<cards, rows, media, excused>>

\* The payments made to one of the numbers.
MadeTo(numbers) == {i \in DOMAIN paid : paid[i].numbers \cap numbers # {}}

\* A card is moved to another account.
MoveCard(n, a) ==
    /\ Form
    /\ n \in DOMAIN cards /\ a \in DOMAIN accounts
    /\ cards' = [cards EXCEPT ![n] = a]
    /\ excused' = excused \cup MadeTo({n})
    /\ UNCHANGED <<accounts, rows, media>>

DeleteCard(n) ==
    /\ Form
    /\ n \in DOMAIN cards
    /\ cards' = [m \in DOMAIN cards \ {n} |-> cards[m]]
    /\ excused' = excused \cup MadeTo({n})
    /\ UNCHANGED <<accounts, rows, media>>

\* Mutant: a foreign key without CASCADE.
CardsStay(closed) == {}

CardsOf(closed) == {n \in DOMAIN cards : cards[n] \in closed}

\* Mutant: the other account's payments stay.
RowsFrom(closed) == {i \in rows : paid[i].source \in closed}

RowsOf(closed) == {i \in rows : {paid[i].source, paid[i].destination} \cap closed # {}}

\* Deletion of accounts: CASCADE takes their cards and payments, and
\* django_cleanup the files of these.
Delete(closed) ==
    /\ Form
    /\ accounts' = [n \in DOMAIN accounts \ closed |-> accounts[n]]
    /\ cards' = [n \in DOMAIN cards \ CardsOf(closed) |-> cards[n]]
    /\ rows' = rows \ RowsOf(closed)
    /\ media' = media \ {paid[i].photo : i \in RowsOf(closed)}
    /\ excused' = excused \cup MadeTo(CardsOf(closed))
          \cup {i \in DOMAIN paid : {paid[i].source, paid[i].destination} \cap closed # {}}

CloseAccount(n) == n \in DOMAIN accounts /\ Delete({n})

\* ... with their owner.
DeleteOwner(u) == Delete(AccountsOf(u))

NextDay ==
    /\ day < MaxDay
    /\ day' = day + 1
    /\ UNCHANGED <<accounts, cards, paid, rows, media, forms, excused>>

Next ==
    \/ \E u \in Users, s, d \in Numbers, photo \in BOOLEAN : RestTransfer(u, s, d, photo)
    \/ \E s, d \in AccountNumbers, photo \in Pictures \cup {None} : BotTransfer(s, d, photo)
    \/ \E n \in AccountNumbers, u \in Users : OpenAccount(n, u) \/ GiveAccount(n, u)
    \/ \E n \in CardNumbers, a \in AccountNumbers : IssueCard(n, a) \/ MoveCard(n, a)
    \/ \E n \in CardNumbers : DeleteCard(n)
    \/ \E n \in AccountNumbers : CloseAccount(n)
    \/ \E u \in Users : DeleteOwner(u)
    \/ NextDay

Spec == Init /\ [][Next]_vars

-----------------------------------------------------------------------------
(* Properties.                                                             *)

Names == Pictures \cup (1..MaxPaid)
Payments == [source : AccountNumbers, destination : AccountNumbers, numbers : SUBSET Numbers,
             photo : (Names \X (0..MaxDay)) \cup {None}, rest : BOOLEAN]

\* Every variable keeps its type; every card and every row in the table of
\* payments refers to accounts that exist, and a number is of one document.
TypeOK ==
    /\ DOMAIN accounts \subseteq AccountNumbers
    /\ accounts \in [DOMAIN accounts -> Users]
    /\ DOMAIN cards \subseteq CardNumbers
    /\ cards \in [DOMAIN cards -> DOMAIN accounts]
    /\ paid \in Seq(Payments) /\ Len(paid) <= MaxPaid
    /\ rows \subseteq DOMAIN paid
    /\ \A i \in rows : {paid[i].source, paid[i].destination} \subseteq DOMAIN accounts
    /\ media \subseteq Names \X (0..MaxDay)
    /\ day \in 0..MaxDay
    /\ forms \in 0..MaxForms
    /\ excused \subseteq DOMAIN paid

\* A number means one document from its opening until that is gone: none that is
\* opened, whatever was opened and closed before, gets the number of one there
\* is, and whose an account or a card is changes by the form that says so alone.
NumbersKeepMeaning ==
    [][/\ \A n \in DOMAIN accounts, u \in Users : ~OpenAccount(n, u)
       /\ \A n \in DOMAIN cards, a \in AccountNumbers : ~IssueCard(n, a)
       /\ \A n \in DOMAIN accounts \cap DOMAIN accounts' :
             accounts'[n] = accounts[n] \/ GiveAccount(n, accounts'[n])
       /\ \A n \in DOMAIN cards \cap DOMAIN cards' :
             cards'[n] = cards[n] \/ MoveCard(n, cards'[n])]_vars

\* Who is given the number of an account that was closed finds nothing of the
\* account before: no payments in its history, and no card that pays from it.
FreshStart ==
    [][\A n \in DOMAIN accounts' \ DOMAIN accounts :
          /\ \A i \in rows' : n \notin {paid'[i].source, paid'[i].destination}
          /\ \A c \in DOMAIN cards' : cards'[c] # n]_vars

\* A payment is in the history of both numbers it was made with, unless since
\* then a card of the two was moved or deleted, or one of the two accounts was
\* closed, which takes the payment out of the other's history, too.
PaidIsSeen ==
    \A i \in DOMAIN paid \ excused : \A n \in paid[i].numbers : i \in History(n)

\* The picture of a recorded payment can be fetched, unless the bot was sent
\* the same picture twice on one day and the other payment has been deleted.
PictureKept ==
    \A i \in rows : paid[i].photo # None =>
        \/ paid[i].photo \in media
        \/ ~paid[i].rest /\ \E j \in DOMAIN paid \ rows : paid[j].photo = paid[i].photo

=============================================================================
