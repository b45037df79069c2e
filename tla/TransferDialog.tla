---------------------------- MODULE TransferDialog ----------------------------
(***************************************************************************)
(* The conversation /transfer with what it keeps in user_data, over the    *)
(* tables it reads and the payments it makes.  Dialogs shows that a user   *)
(* has one conversation at a time, on data of its own, so one user suffices*)
(* here; Transfer shows that a payment is one indivisible step.            *)
(*                                                                         *)
(* Between two messages of the user anything may happen to the tables: the *)
(* documents in user_data are as old as the conversation.  A handler may   *)
(* raise wherever it talks to Telegram, the storage or the database; what  *)
(* it did before that stays done, the conversation's state does not move,  *)
(* and the user may send the same or another message again.                *)
(***************************************************************************)
EXTENDS Amounts, SequencesExt

CONSTANTS
    Me,            \* the user
    Friends,       \* his friends, as listed by /transfer
    Numbers,       \* account numbers; a card stands for its account
    Opening,       \* number -> [owner, balance] at first
    Texts,         \* amounts a user types in
    MaxBalance,    \* bound on balances
    Pictures,      \* pictures that are small enough
    None,          \* no value (a missing key of user_data)
    MayRaise,      \* whether handlers may raise
    AdminOps,      \* what administrators do: subset of {"open", "save", "close", "give"}
    MaxDialogs,    \* bound: conversations
    MaxPaid,       \* bound: payments
    MaxChanges     \* bound: what administrators do

VARIABLES
    accounts,      \* table bank_accounts: number -> [owner, balance]
    state,         \* the conversation's state, "none" outside of it
    data,          \* user_data
    dialog,        \* history: how many conversations there were
    shown,         \* history: the details the user saw last
    picture,       \* history: the picture he sent last in this dialog
    skipped,       \* history: whether his last answer about it was /skip
    text,          \* history: the amount he typed last that was accepted
    paid,          \* history: the payments made, in order
    raised,        \* history: the conversations in which a handler raised
    given,         \* history: <<user, account>>, when the user lost the account
                   \* since this dialog listed his accounts
    changes        \* how often administrators did something

vars == <<accounts, state, data, dialog, shown, picture, skipped, text, paid, raised,
          given, changes>>

Users == {Me} \cup Friends
Exists(n) == n \in DOMAIN accounts

\* Mutant: the owner is left out of the query.
AccountsOfAnybody(u) == DOMAIN accounts

\* get_bank_accounts, get_cards
AccountsOf(u) == {n \in DOMAIN accounts : accounts[n].owner = u}

ASSUME TransferDialogAssumption ==
    /\ Me \notin Friends
    /\ Numbers \subseteq Nat
    /\ Texts \subseteq Decimals
    /\ DOMAIN Opening \subseteq Numbers
    /\ Opening \in [DOMAIN Opening -> [owner : Users, balance : 0..MaxBalance]]
    /\ None \notin Pictures \cup Users /\ None \notin Int
    /\ \A S \in SUBSET Numbers : S # None
    /\ MayRaise \in BOOLEAN
    /\ {MaxBalance, MaxDialogs, MaxPaid, MaxChanges} \subseteq Nat

\* user_data as mark_conversation_end leaves it.
Cleared == [source_documents |-> None, chosen_friend |-> None,
            destination_documents |-> None, destination_document |-> None,
            source_document |-> None, accrual |-> None, transfer_photo |-> None]

Init ==
    /\ accounts = Opening
    /\ state = "none"
    /\ data = Cleared
    /\ dialog = 0
    /\ shown = None
    /\ picture = None
    /\ skipped = FALSE
    /\ text = None
    /\ paid = <<>>
    /\ raised = {}
    /\ given = {}
    /\ changes = 0

-----------------------------------------------------------------------------
(* How a handler ends.                                                     *)

\* It returns the state next, with new user_data.
Return(next, new) == state' = next /\ data' = new /\ UNCHANGED <<raised, changes>>

\* It raises, after it has made user_data new: the state stays.
Raise(new) ==
    /\ MayRaise
    /\ data' = new
    /\ raised' = raised \cup {dialog}
    /\ UNCHANGED <<state, changes>>

\* Mutant: END without clearing user_data.
EndKeeps == Return("none", data)

\* mark_conversation_end
End == Return("none", Cleared)

\* It returns next, or raises after it has written to user_data.
ReturnOrRaise(next, new) == Return(next, new) \/ Raise(new)

Quiet == UNCHANGED <<accounts, dialog, shown, picture, skipped, text, paid>>

-----------------------------------------------------------------------------

\* get_documents_order: the documents and the balances they were read with.
Documents(u) == [n \in AccountsOf(u) |-> accounts[n].balance]

\* A conversation whose start raises hangs (see Dialogs) or never began.
handle_start ==
    /\ state = "none"
    /\ dialog < MaxDialogs
    /\ AccountsOf(Me) # {}
    /\ dialog' = dialog + 1
    /\ Return("DESTINATION", [data EXCEPT !.source_documents = Documents(Me)])
    /\ shown' = None
    /\ picture' = None
    /\ skipped' = FALSE
    /\ text' = None
    /\ given' = {}
    /\ UNCHANGED <<accounts, paid>>

handle_getting_destination ==
    /\ state = "DESTINATION"
    /\ \E f \in Friends :
          LET chosen == [data EXCEPT !.chosen_friend = f]
          IN  IF AccountsOf(f) = {}
              THEN Return(state, chosen) /\ UNCHANGED given
              ELSE \/ /\ ReturnOrRaise("DESTINATION_DOCUMENT",
                           [chosen EXCEPT !.destination_documents = AccountsOf(f)])
                      /\ given' = given \ ({f} \X Numbers)
                   \/ Raise(chosen) /\ UNCHANGED given
    /\ Quiet

\* Listing the source documents reads the accounts behind cards, now.
Listed(fresh) ==
    [n \in DOMAIN data.source_documents |->
        IF n \in fresh THEN accounts[n].balance ELSE data.source_documents[n]]

handle_getting_destination_document ==
    /\ state = "DESTINATION_DOCUMENT"
    /\ \E n \in data.destination_documents,
          fresh \in SUBSET (DOMAIN data.source_documents \cap DOMAIN accounts) :
             ReturnOrRaise("SOURCE_DOCUMENT",
                [data EXCEPT !.destination_document = n, !.source_documents = Listed(fresh)])
    /\ UNCHANGED given
    /\ Quiet

handle_getting_source_document ==
    /\ state = "SOURCE_DOCUMENT"
    /\ \E n \in DOMAIN data.source_documents :
          /\ data.source_documents[n] # 0
          /\ ReturnOrRaise("ACCRUAL", [data EXCEPT !.source_document = n])
    /\ UNCHANGED given
    /\ Quiet

\* can_extract_from compares with the balance as it was read.
CanExtract(a) == a <= data.source_documents[data.source_document]

\* An amount that is not valid, or more than there is, is asked for again;
\* one with too many digits for the decimal context makes the handler raise.
handle_getting_accrual ==
    /\ state = "ACCRUAL"
    /\ \E t \in Texts :
          LET a == parse_accrual(t)
          IN  \/ a = Unrepresentable /\ Raise(data) /\ UNCHANGED text
              \/ /\ a > 0 /\ CanExtract(a)
                 /\ ReturnOrRaise("PHOTO", [data EXCEPT !.accrual = a])
                 /\ text' = t
    /\ UNCHANGED <<accounts, dialog, shown, picture, skipped, paid, given>>

DetailsOf(d) == [source |-> d.source_document, destination |-> d.destination_document,
                 accrual |-> d.accrual]

\* _send_transfer_details: shown to the user, unless sending raises; a reply
\* may also be delivered and its answer lost.
SendDetails(d) ==
    \/ Return("CONFIRM", d) /\ shown' = DetailsOf(d)
    \/ Raise(d) /\ shown' \in {shown, DetailsOf(d)}

handle_getting_photo ==
    /\ state = "PHOTO"
    /\ \E p \in Pictures : SendDetails([data EXCEPT !.transfer_photo = p]) /\ picture' = p
    /\ skipped' = FALSE
    /\ UNCHANGED <<accounts, dialog, text, paid, given>>

\* Mutant: the details are left out when there is no picture.
SkipUnshown == Return("CONFIRM", data) /\ UNCHANGED shown

SkipDetails == SendDetails(data)

handle_skip_getting_photo ==
    /\ state = "PHOTO"
    /\ SkipDetails
    /\ skipped' = TRUE
    /\ UNCHANGED <<accounts, dialog, picture, text, paid, given>>

-----------------------------------------------------------------------------
(* /confirm                                                                *)

\* Mutant: no check_balance constraint.
CanPayUnchecked(s, d, a) == Exists(s) /\ Exists(d) /\ accounts[d].balance + a <= MaxBalance

\* try_transfer: the balances after it, when it succeeds (see Ledger).
CanPay(s, d, a) ==
    /\ Exists(s) /\ Exists(d)
    /\ accounts[s].balance >= a
    /\ s # d => accounts[d].balance + a <= MaxBalance

Moved(s, d, a) ==
    [n \in DOMAIN accounts |->
        [accounts[n] EXCEPT !.balance = @ + (IF n = d THEN a ELSE 0) - (IF n = s THEN a ELSE 0)]]

Payment == [dialog |-> dialog, source |-> data.source_document,
            destination |-> data.destination_document, photo |-> data.transfer_photo,
            accrual |-> data.accrual]

Pay ==
    /\ CanPay(Payment.source, Payment.destination, Payment.accrual)
    /\ Len(paid) < MaxPaid
    /\ accounts' = Moved(Payment.source, Payment.destination, Payment.accrual)
    /\ paid' = Append(paid, Payment)

\* Mutant: the state is returned again, not END.
PaidStays == Pay /\ Return(state, data)

\* The user and the recipient are told, then the conversation ends; telling
\* them may raise (the recipient has blocked the bot), the payment is made.
\* A process that dies after COMMIT leaves what a normal end leaves.
Paid ==
    /\ Pay
    /\ End \/ Raise(data)

NotPaid ==
    /\ ~CanPay(Payment.source, Payment.destination, Payment.accrual)
    /\ End
    /\ UNCHANGED <<accounts, paid>>

handle_transfer ==
    /\ state = "CONFIRM"
    /\ Paid \/ NotPaid
    /\ UNCHANGED <<dialog, shown, picture, skipped, text, given>>

handle_cancel == state # "none" /\ End /\ UNCHANGED given /\ Quiet

\* The process is replaced: user_data and the state were in its memory.
Restart == state # "none" /\ Return("none", Cleared) /\ UNCHANGED given /\ Quiet

-----------------------------------------------------------------------------
(* Administrators and other users, meanwhile.                              *)

\* The accounts whose owners lose them.
Lost(new) ==
    {<<accounts[n].owner, n>> : n \in
        {m \in DOMAIN accounts : m \notin DOMAIN new \/ new[m].owner # accounts[m].owner}}

Tables(new) ==
    /\ changes < MaxChanges
    /\ changes' = changes + 1
    /\ accounts' = new
    /\ given' = given \cup Lost(new)
    /\ UNCHANGED <<state, data, dialog, shown, picture, skipped, text, paid, raised>>

\* The next number after the last (BankAccount.generate_number).
Open(n, u) ==
    /\ "open" \in AdminOps
    /\ ~Exists(n) /\ \A m \in DOMAIN accounts : m < n
    /\ n > 1 => Exists(n - 1)
    /\ Tables([m \in DOMAIN accounts \cup {n} |->
                  IF m = n THEN [owner |-> u, balance |-> 0] ELSE accounts[m]])

\* A balance changes: a form is saved, another user pays.
Save(n, b) ==
    "save" \in AdminOps /\ Exists(n) /\ Tables([accounts EXCEPT ![n].balance = b])

Close(n) ==
    "close" \in AdminOps /\ Exists(n) /\ Tables([m \in DOMAIN accounts \ {n} |-> accounts[m]])

\* The account is given to another owner.
Give(n, u) ==
    "give" \in AdminOps /\ Exists(n) /\ Tables([accounts EXCEPT ![n].owner = u])

Next ==
    \/ handle_start \/ handle_getting_destination \/ handle_getting_destination_document
    \/ handle_getting_source_document \/ handle_getting_accrual
    \/ handle_getting_photo \/ handle_skip_getting_photo
    \/ handle_transfer \/ handle_cancel \/ Restart
    \/ \E n \in Numbers, u \in Users : Open(n, u) \/ Give(n, u)
    \/ \E n \in Numbers, b \in 0..MaxBalance : Save(n, b)
    \/ \E n \in Numbers : Close(n)

Spec == Init /\ [][Next]_vars

-----------------------------------------------------------------------------
(* Properties.                                                             *)

Choice(S) == S \cup {None}

TypeOK ==
    /\ DOMAIN accounts \subseteq Numbers
    /\ accounts \in [DOMAIN accounts -> [owner : Users, balance : 0..MaxBalance]]
    /\ state \in {"none", "DESTINATION", "DESTINATION_DOCUMENT", "SOURCE_DOCUMENT",
                  "ACCRUAL", "PHOTO", "CONFIRM"}
    /\ DOMAIN data = DOMAIN Cleared
    /\ data.chosen_friend \in Choice(Friends)
    /\ {data.destination_document, data.source_document} \subseteq Choice(Numbers)
    /\ data.accrual \in Choice(1..MaxBalance)
    /\ text \in Choice(Texts)
    /\ {data.transfer_photo, picture} \subseteq Choice(Pictures)
    /\ dialog \in 0..MaxDialogs /\ raised \subseteq 1..dialog
    /\ Len(paid) <= MaxPaid
    /\ given \subseteq Users \X Numbers /\ skipped \in BOOLEAN
    /\ changes \in 0..MaxChanges

\* The last payment, of a step that makes one.
NewPayment == paid'[Len(paid')]

\* Whatever raised before, whatever the user answered in between: what is
\* paid is what the details said that he saw last.
PaysAsConfirmed == [][paid' # paid => DetailsOf(
    [source_document |-> NewPayment.source, destination_document |-> NewPayment.destination,
     accrual |-> NewPayment.accrual]) = shown]_vars

\* What is paid is what the user typed, to the hundredth, and an amount of
\* more places is rounded by at most half a hundredth, up or down.
PaysAsTyped == [][paid' # paid =>
    LET places == -text.exponent - DECIMAL_PLACES
        error  == NewPayment.accrual * TenTo[places] - text.digits
    IN  IF places <= 0 THEN NewPayment.accrual = text.digits * TenTo[-places]
        ELSE 2 * error \in -TenTo[places]..TenTo[places]]_vars

\* A payment takes from an account of the user's and brings money to one of
\* the friend he chose, unless whose account it was lost it (it got another
\* owner, or was closed and its number given out again) after this very
\* conversation had listed his accounts.
MoneyGoesRight == [][paid' # paid =>
    /\ <<Me, NewPayment.source>> \in given \/ accounts[NewPayment.source].owner = Me
    /\ \/ <<data.chosen_friend, NewPayment.destination>> \in given
       \/ accounts[NewPayment.destination].owner = data.chosen_friend]_vars

SameDialog(i, j) == i # j /\ paid[i].dialog = paid[j].dialog

\* One conversation makes at most one payment.
PaysOnce == \A i, j \in DOMAIN paid : ~SameDialog(i, j)

\* ... that is to say, one in which no handler raised.
PaysOnceUnlessRaised == \A i, j \in DOMAIN paid : SameDialog(i, j) => paid[i].dialog \in raised

\* The picture that goes with a payment is the one the user sent last in this
\* conversation, of however many, and none when he sent none; one he then took
\* back with /skip goes along only where a handler raised (the picture is kept
\* before the details are shown).
PhotoChosen == [][paid' # paid =>
    /\ NewPayment.photo = picture
    /\ skipped /\ picture # None => dialog \in raised]_vars

=============================================================================
