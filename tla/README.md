# Antonion: verification project

Antonion is a small bank behind a Telegram bot and a REST API (Django 3.2,
PostgreSQL 14, python-telegram-bot 13, django-ninja). This directory holds TLA+
models of its logic, the TLC configurations that check them on small instances,
and theorems about them that TLAPS has checked. `PROJECT.json` ties every
definition to the lines it models, every property to a run, and every run to
what it shows. Paths below are relative to `src/src/app/internal/`.

To check: `tlc -config <run>.cfg <MC module>` for a run, `tlapm <X>Proofs.tla`
for the theorems.

## 1. The system

Who runs what. One gunicorn worker (synchronous, `config/gunicorn.conf.py:5`)
serves the REST API, the admin site and the bot's webhook, one request after
the other; `manage.py runbot` polls Telegram in another process. Every process
talks to one PostgreSQL database in autocommit mode at READ COMMITTED; the
repository opens transactions explicitly, in three places (`TransferService`,
`FriendRequestService`, `TelegramUserService`). What the bot remembers of a
conversation is in the memory of its process. `docker-compose.yml` restarts
whatever dies.

| Component | State | Operations | Correct when |
|---|---|---|---|
| Transfers: `bank/domain/services/TransferService.py`, `bank/db/repositories/` | tables `bank_accounts`, `transactions`; files in the storage | `try_transfer` (two UPDATEs, upload, INSERT, COMMIT), the forms of the admin site | money is neither made nor lost, balances are never negative, the table of transactions and the balances tell the same story, what the caller is told is what happened, every call ends |
| Conversations: `bot.py`, `general/bot/`, the packages `bot/` | per chat and user the state of each `ConversationHandler`; per user `user_data` | commands, answers, `/cancel`, restarts | one conversation at a time, on its own data, every handler finds the keys it reads, `/cancel` ends it |
| `/transfer`: `bank/presentation/handlers/bot/transfer/` | the part of `user_data` it fills, step by step | eight handlers | what is paid is what the user confirmed, once, from his account to the friend he chose |
| Friends: `user/domain/services/FriendRequestService.py`, `FriendService.py` | tables of requests and of friendships | ask, accept, reject, remove, from REST and from the bot | friendship is symmetrical, a request is answered once, the bot's answers are true |
| New payments: `bank/presentation/handlers/bot/commands.py`, `TransactionService.py` | two flags per transaction | `/last` | every transaction is shown to both sides once |
| Bank documents: `bank/db/models/` | accounts, cards and their numbers | the admin forms, `generate_number`, cascades, lookups by number | a number is one document's and keeps its meaning; histories and pictures follow their payments |
| Amounts: `TransferService.validate_accrual`, `parse_accrual` | none | parsing, validation | what is admitted fits the columns; rounding does not create money |
| Tokens: `authentication/` | table `refresh_tokens`, the clients' cookies | login, refresh | a session has one token to refresh with, a token presented twice ends it, and only a mishap makes that happen to its owner |
| Users: `user/domain/services/TelegramUserService.py` | users, passwords, secret keys, phones | `/start`, `/phone`, `/password`, REST, the admin form | a password comes with its secret key and is changed by who knows it; a key lasts as long as its user |
| Pictures | files in the object storage, under `transactions/<day>/<name>` | upload with a transfer (part of `Transfer`), removal with a transaction (part of `Documents`) | a recorded picture can be fetched |
| The rest | none of their own | routers, schemas, REST errors, metrics, logging, admin declarations, migrations | not modelled: declarations and output |

How they interact: handlers call services, services repositories, repositories
the database; there are no messages or callbacks between components, only the
shared tables and `user_data`. What is hard is therefore (a) statements of
different processes interleaved on the same rows, (b) what a dialog or a handler
read earlier and uses later, (c) exceptions between two effects: Telegram, the
storage or the database may fail after something has been done, (d) processes
that die. `PROJECT.json` lists each such place under "hazards".

## 2. The modules

| Module | What it is |
|---|---|
| `Ledger` | the abstract bank: a transfer is one step that moves money and records it |
| `Transfer` | `try_transfer`, statement by statement, by several workers; implements `Ledger` |
| `MCTransfer` | small instances of it |
| `TransferProofs` | theorems about it |
| `Conversations` | a table of what the handlers of the nine conversations do |
| `Dialogs` | the dispatcher: states per chat, `user_data` per user |
| `MCDialogs` | the two together |
| `DialogsProofs` | theorems about `Dialogs`, for every table of conversations and for the bot's |
| `TransferDialog` | the conversation `/transfer` with its data, over payments as in `Ledger` |
| `Amounts` | the decimal numbers a user types, and what `parse_accrual` makes of them; part of `TransferDialog` |
| `MCTransferDialog` | small instances of it |
| `TransferDialogProofs` | theorems about it, about `Amounts`, and that it implements `Dialogs` and `Ledger` |
| `Friends` | requests and friendships, statement by statement |
| `MCFriends` | two users and two processes |
| `FriendsProofs` | theorems about it |
| `Notifications` | `/last`: list, mark, send, while transfers commit |
| `MCNotifications` | two users with three accounts |
| `NotificationsProofs` | theorems about it |
| `Sessions` | the abstract exchange: a session's token is replaced in one step |
| `Tokens` | login and refresh, statement by statement, with clients and faults; implements `Sessions` |
| `MCTokens` | two users, two clients |
| `TokensProofs` | theorems about it |
| `Users` | registration, phone, password and secret key, in several processes |
| `MCUsers` | two users, the webhook beside `runbot` |
| `UsersProofs` | theorems about it |
| `Documents` | accounts, cards, their numbers, histories and pictures over time |
| `MCDocuments` | two users, three account numbers and two card numbers |
| `DocumentsProofs` | theorems about it |

A component's state is that of its tables and of whoever is in the middle of
something; a step of another component on the same tables appears as an action
of its own (the forms of the admin site in `Transfer`, `TransferDialog`,
`Documents`, `Users`; COMMIT of a transfer in `Notifications`). `Transfer`
shows that a transfer is one step of `Ledger`; that is why `TransferDialog`,
`Notifications` and `Documents` have payments in one step.

Mutants. Above some definitions there is another one whose comment begins with
"Mutant:". It is what a plausible bug would make of the definition below it, and
no specification uses it; put in that definition's place it breaks the property
that `PROJECT.json` pairs it with.

### Transfer

State: `balance` and `transactions` are the committed tables, `dirty[w]` the row
versions of the database transaction that worker w has open (a row in its domain
is locked by w), `pc[w]` and `request[w]` where w is in `try_transfer`,
`outcome` what each call came to, `issued` every number an account ever had,
`media` the stored files.

Actions: `RestTransfer` and `BotConfirm` begin a call (the first after looking
the accounts up and comparing them, the second with accounts as old as the
dialog); `Subtract`, `Accrue`, `Declare`, `Commit` are its statements with every
way they fail: no row, the CHECK, the width of the column, the upload, the
deferred foreign keys at COMMIT. `Crash`, `DeadlockVictim` and a lost answer to
COMMIT are what happens to it; `AdminOpen`, `AdminSave`, `AdminClose` are the
forms of the admin site. An UPDATE waits while another worker holds the row and
then works on the version committed last, as PostgreSQL does at READ COMMITTED.
Amounts count hundredths.

| Run | Instance | Shows |
|---|---|---|
| `transfer_core` | 2 workers and calls, 2 accounts and a third opened, pictures, failing uploads, crashes, lost answers | types, the books balance, outcomes are true, recorded pictures are stored, `Ledger` is implemented, every call ends |
| `transfer_closing` | 2 workers, 3 calls, accounts closed and edited, amounts wider than the column | no update is lost, `Ledger` is implemented although accounts vanish between the two UPDATEs |

Accounts are opened in one run and closed in the other: with both, a number that
is given out again between two statements of a transfer breaks `NoLostUpdate`
and `Ledger` (see section 4).

Bounds. Two accounts suffice for every conflict: a transaction touches two rows,
and cycles of waiting need only opposite directions (with three accounts three
workers could form a longer cycle; `InDeadlock` is stated for any length, and the
theorems hold for any number of workers). Each call of `try_transfer` is used
once (`Ids`), with two of them in flight. `BooksBalance` is checked where
administrators open accounts but do not edit or close them. Balances and amounts lie around 0 and around the limit of
the column, where the CHECK and the width decide. Deadlock is not checked by TLC
where all calls may have been used up; a system without requests rests.

Fairness. A worker that has begun goes on with its statements (weak fairness of
`Statement`: the process is running or dead), and PostgreSQL looks for deadlocks
(weak fairness of `DeadlockVictim`, `deadlock_timeout`). Nothing is assumed of
requests, crashes or administrators. Weak fairness is enough for lock waits
because calls are finite in number and a holder always ends.

### Dialogs

State: `active[chat][c]`, the state of conversation c in a chat, and `user_data`,
a map from keys to the conversation that wrote them; what the values are does
not matter here. `Conversations` gives each handler's possible moves: state
before, state after, keys read with `user_data[key]`, keys written. `Start`,
`Answer`, `Cancel` are handlers that return; `StartRaises` and `AnswerRaises`
are handlers that raise after writing some of their keys, in which case
python-telegram-bot keeps the conversation's state. `Restart` empties both
records, they are in memory.

| Run | Instance | Shows |
|---|---|---|
| `dialogs` | 3 chats, all conversations, raising handlers, restarts | `OneDialog`, `OwnSession`, `SessionReady` |
| `dialogs_stuck` | 1 chat | **violated**: a user whose first handler raised can neither go on nor cancel (finding) |

The instance is the real table of conversations; users do not share any record
(`user_data` and states are kept per user), so one user is the general case. `CancelWorks` fails in a second way, without any exception,
when `Chats` has two members: who opened a conversation in one chat is refused in
another, where nothing hears the /cancel he is told to use.

### TransferDialog

State: the table of accounts, the state of the conversation, its `user_data` as
a record, and histories: how many conversations there were, the details shown
last, the picture sent last in this one (`picture`) and whether the user then took
/skip (`skipped`), the payments made, the conversations in which a handler raised,
and who lost which account since this conversation listed it (`given`: emptied when
a conversation begins, and of a friend's accounts when they are listed). Each handler is one
action; a payment is one step, which `Transfer` justifies. An amount is typed as
a decimal number of digits and exponent (`Texts`), and `parse_accrual` of
`Amounts` rounds it, half to even, to hundredths, refuses it, or raises the
`InvalidOperation` that the handler does not expect. `MayRaise` says
whether handlers may raise, `AdminOps` what happens to the tables between two
messages. Balances in `source_documents` are as old as the conversation; those
of cards are read when the list is shown.

| Run | Instance | Shows |
|---|---|---|
| `dialog` | 3 accounts and a fourth, handlers that raise anywhere, accounts edited, opened, closed, given away | every payment is what was shown last, from the user's account to the chosen friend, and of the amount typed to half a hundredth, with the picture of this conversation sent last; where nothing raised, it is the only one of its conversation |
| `dialog_twice` | raising handlers | **violated**: /confirm pays twice after the recipient could not be told (finding) |

Bounds: two conversations (`MaxDialogs`), so that one can find what another
left, two payments (`MaxPaid`), two steps of administrators (`MaxChanges`: enough
to close an account and give its number out again), two pictures, so that the
second answer after an exception can differ from the first, five texts: a
hundredth, two that are rounded up and down, one too large for the balances and
one too large for the decimal context (whose precision is 4 digits here, 28 in
Python). `MoneyGoesRight` excepts accounts that their owner lost (or that came back under
an old number) after this conversation listed them: an administrator who does that
redirects the payment, and no line of the repository says otherwise. What was lost
before, or before an earlier conversation ended, is not excepted.
`PhotoChosen` has one exception: a picture is kept before the details are sent, so
when sending raises, a later /skip does not remove it and it goes along. It says
that only a conversation in which a handler raised pays with a skipped picture.
TLC's deadlock check is off because conversations are bounded.

### Friends

State: `asked` (every request by its id), `requests` (the rows there are),
`friends` (committed pairs; a friendship is two of them), `pc`, `call` and
`inserted` for each process, and the histories `answered`, `met`, `removed`.
A call is its statements: look for a friendship, look for a request, create it;
read a request, insert a pair, insert its mirror, delete the request and commit;
look up a friend, delete both rows. INSERT ... ON CONFLICT DO NOTHING waits for
the same row uncommitted elsewhere, which can close a cycle when two users
accept each other.

| Run | Instance | Shows |
|---|---|---|
| `friends` | 2 users, 2 processes, 2 requests, all operations, crashes | `OneRequest`, `AnsweredIsGone`, `AcceptedTogether` (a friendship is symmetrical until somebody removes it), `EveryCallEnds` |

What the bot says to the users afterwards is not part of the state.

Bounds: one friendship concerns two users, and the two processes are the ones
deployed; asking oneself over REST is included. Two requests allow mutual
requests and a repeated one. Fairness: a process goes on with its call, the
server looks for deadlocks, and a released row goes to a transaction that waits
for it (strong fairness of the two inserts; PostgreSQL queues waiting
transactions). The deadlock check of TLC is off because requests are bounded and
users may stop.

### Notifications

State: `paid` (every transaction by its id), `rows` (those still in the table),
`source_viewed` and `destination_viewed` (the two flags), `accounts`, where
`handle_last` is (`pc`, `reader`, the list `pending`), and the histories `sent` and
`excused`. `handle_last` makes the list; `MarkSource` and `MarkDestination` are the
two UPDATEs, which mark all rows of that side there are by then; `Send` sends one
message; `LastRaises`, `SendRaises` (delivered, but the answer was lost) and
`FetchRaises` (an account of the transaction has been closed) end the handler in
the middle. `Transfer` is the COMMIT of a transfer and `Close` the cascade of an
administrator's deletion, in the other process; one dispatcher handles one /last
at a time. The order of messages is left open.

| Run | Instance | Shows |
|---|---|---|
| `last` | 2 users, 3 accounts, 2 payments, raising handlers, closed accounts | `ShownOnce`; `ShownOrNew`: what was listed is lost only by a handler that raised after marking it, what was not listed only by a COMMIT between the list and its side's UPDATE |
| `last_missed` | nothing raises | **violated**: the user is told that nothing is new although a payment was marked unseen (finding) |

Bounds: two payments, so that one can be listed while another arrives; a user
with two accounts, so that a payment can have both sides with one user.

### Tokens

State: `users`, `rows` and `revoked` are the tables; `issued` is every pair of
tokens ever made, with what its payload says and the login its session began
with; `held[c]` are the pairs a client was answered with, the last of which is
its cookie; `exchanging` and `client` are where the worker is between the two
statements of an exchange; `shut` and `mishaps` are histories.

Actions: `Login`; `Exchange` and `ExchangeCreate`, the two autocommitted
statements of `update_access_and_refresh_tokens`; `Reuse`, a revoked token
presented again; `DeleteUser` with its cascade, `Start`, `Tick`. Faults: an
answer is lost (`"lost"`), the worker dies between the two statements
(`"crash"`), a request carries a cookie that another answer has replaced
meanwhile (`"late"`: two tabs, a retry). The REST worker is one synchronous
process, so exchanges do not overlap; the bot's process and the clock go on
meanwhile. An access token is accepted for `ACCESS_TTL` whatever became of its
refresh token, as `JWTAuthentication` never looks at the table. `Sessions` is
what this promises: a session's token is replaced in one step, sessions may be
closed, and nothing but a login opens one. The token in exchange stands for its
session in between (`Open`).

| Run | Instance | Shows |
|---|---|---|
| `tokens` | 2 users, 2 clients, all faults | `OneHeir`: a session never has two tokens that can be exchanged; `ShutOut`: a token presented twice ends all sessions of its user, and his access tokens after `ACCESS_TTL`; `ShutForAReason`: that happens to nobody without a mishap; `Sessions` is implemented |

Bounds: four pairs (`MaxTokens`) are a login, an exchange, and a second of each,
enough for a token to be presented again while its heirs have heirs; three moments
(`MaxTime` 2) with `ACCESS_TTL` 1 and `REFRESH_TTL` 2 have access tokens expire
before refresh tokens and both in time. Clients are symmetrical, and so are users.

### Users

State: `users`, `phone`, `password`, `key` are columns of `telegram_users` and
`secret_keys`; `dialog[d][u]` and `typed[d][u]` are where dispatcher d is in
user u's `/password`, its database transaction included (`INSERTED`, `UPDATED`,
`MISSED`); `form` is the user form an administrator has open. Histories: `by`, the
key given for the password in place; `typed[d][u].late`, whether the row a
conversation was begun for is gone; `edited`, the users whose row was last written by
an administrator or by a conversation that is late.

Actions: the handlers of `/password`; `InsertKey`, `WritePassword`, `CommitKey`
are `try_create_password`, whose INSERT waits for another uncommitted key of the
same user and whose COMMIT looks at the foreign key; `handle_phone`, `RestPhone`,
`RestUpdate`; `Start`; `AdminOpen` and `AdminSave` (the form writes the column
`password` back as it was shown, or a text typed over it); `DeleteUser` with its
cascade; `Restart`. A reply may raise after its handler has written. The two
dispatchers are the webhook's, in the process that serves REST and the admin
site too (`Worker`), and `runbot`'s. One is busy from `InsertKey` to `CommitKey`.

| Run | Instance | Shows |
|---|---|---|
| `users` | 2 users, 2 dispatchers, 2 keys, raising replies, restarts, one deletion | `BothOrNeither`: a password exactly with a key; `ProvedByKey`: the password in place was written by who gave the key in place; `KeyIsForLife` |

Bounds: two keys, so that one can be wrong; one password, since only its presence
and its origin (`by`) matter; one deletion (`MaxDeletes`), after which the user may
return while old conversations go on. `BothOrNeither` and `ProvedByKey`
except what the code does not promise, rows in `edited`: an administrator's text, and
what a conversation that outlived a deletion writes to the row of who has registered
again (its transaction may store the key without the password). The exception is the
row's, not the user's: his next update of his own ends it. `handle_start` asks for no
phone (`authorize_user(phone=False)`).

### Documents

State: `accounts` and `cards` (number to owner, number to account), `paid` (every
payment with the numbers it was made to and the accounts these stood for),
`rows` (those still in the table), `media` (storage keys), `day`, and the
history `excused`.

Actions: `RestTransfer` by numbers of accounts or cards, `BotTransfer` by accounts
already chosen, each with a picture or without; the admin forms `OpenAccount`,
`IssueCard` (with `generate_number`), `GiveAccount`, `MoveCard`, `DeleteCard`,
`CloseAccount`, and `DeleteOwner`; deletions take cards, payments and their files
along (CASCADE, django_cleanup). `History` is what the owner of a number is
answered, through `get_account_history` or `get_card_history`.

| Run | Instance | Shows |
|---|---|---|
| `documents` | 2 users, 3 account numbers, 2 card numbers, 2 payments, 5 forms, 2 days, one picture for the bot | `PaidIsSeen`, `PictureKept`, `NumbersKeepMeaning`, `FreshStart` |

Bounds: two payments can share a picture, a day and an account; five forms open
two accounts and a card, close one and give its number out again. `PaidIsSeen`
excepts payments whose card was moved or deleted since and those that went with an
account (`excused`): the code keeps nothing of them. `PictureKept` excepts a
picture sent to the bot twice on one day, when the other payment was deleted: its
storage key is shared, and the file goes with the first.
`NumbersKeepMeaning` rests on the one synchronous worker that serves the admin site:
`generate_number` and the `save` that follows it are one step here. With more workers
two forms could be given the same number, and the second `save` would overwrite the
first account.

## 3. What is proved

TLAPS has checked the following for all values of the constants that satisfy
the modules' named assumptions: any number of workers, calls, accounts, chats,
users' conversations, any amounts.

`TransferProofs`:
- `TypeCorrect`: `Spec => []TypeOK`. No balance, committed or not, is negative
  or wider than its column. `TypeInv` strengthens it by the shape of a call in
  progress.
- `OutcomesAreTrue`: `Spec => []OutcomeMatchesBooks`. A call that reported
  nothing, or None, has left no row. It is not inductive alone: a row of a call
  that has ended must not be added later, so it needs `CallsInProgress` (a
  worker's call is "running" and no other worker's) and `NumbersIssued`.
- `UpdatesAreNotLost`: `NoReuse => (Spec => []NoLostUpdate)`: no transfer loses an
  update. (An administrator's form may; see below.) Locks are
  exclusive, and every uncommitted version is the balance committed now plus the
  transfer's own change. The step that needs thought is another worker's COMMIT:
  it changes balances only of rows it holds, and those are not held elsewhere.
  `NoReuse` (accounts are not both opened and closed) is needed: with a number
  given out again between two statements it is false (section 4).
- `TransferImplementsLedger`: `NoReuse => (Spec => Books!Spec)`. Only COMMIT and
  the forms change the committed tables; COMMIT maps to `Ledger!Transfer`, by
  `NoLostUpdate`, by `Funded` (the source's committed balance covers what was
  taken from it while its row is locked) and by the foreign keys; every other
  step is a stutter.
- `BooksAlwaysBalance`: `NobodyEdits => (Spec => []BooksBalance)`, where
  administrators open empty accounts and neither edit nor close any (each of which
  makes the property false at once). `MapThenSumSet` folds in an order that `CHOOSE`
  picks; `SumStep` and `SumInAnyOrder` show that a new row adds its effect all the
  same. They are proved by looking at a smallest finite set that goes wrong
  (`MinimalSubset`). The invariant `Balanced` adds that the rows are finitely many,
  that they refer to existing accounts, so that a new account starts without
  history, and that no account goes away.
- `PicturesAreStored`: `"close" \notin AdminOps => (Spec => []PhotoStored)`. A picture
  is stored before its row is committed (`Stored`). Closing an account removes the
  files of its rows, two of which may share one, so the assumption is needed.
- `NobodyWaitsInVain`: with finitely many workers, in every set of them that is
  closed under waiting, some transfer under way waits for nobody or is in a cycle the
  server sees. This is the safety core of `EveryTransferEnds`, for any number of
  workers and cycles of any length. Locks end with their transaction
  (`LocksReturned`), so only transfers under way are waited for; and a smallest group
  in which everybody waits for a member is a cycle (`WaitingEndsInDeadlock`).

`DialogsProofs`:
- `NeverTwoDialogs`: `Spec => []OneDialog`, and `SessionsAreOwn`:
  `Spec => []OwnSession`, for every table of conversations whose moves do not
  touch the two marks. The argument: a conversation can begin only when the mark
  is absent, the mark is present whenever one is going on, and everything that
  takes the mark away empties `user_data` and ends that conversation.
- `DialogsTyped`: `Spec => []TypeOK`, for every such table.
- `BotSessionsReady`: with the bot's own table, `Spec => []SessionReady`: no handler
  ends in a KeyError. `BotKeys` promises for each state the keys that `user_data` has
  there, and every move keeps the promise of the state it leads to
  (`MovesKeepPromises`); `PromisesMakeReady` derives the property for any table with
  such promises.
- `CancelWorksInOneChat`: where no handler raises and the user has one chat,
  `Spec => []CancelWorks`. The run `dialogs_stuck` refutes it where one raises, and
  it fails with two chats; the theorem shows that there is no third way.

`NotificationsProofs`:
- `TypeCorrect`, and `NothingTwice`: `Spec => []ShownOnce`. It needs to know that
  what was shown is not new any more (`SentIsOld`), that what is listed was not
  shown before (`ListIsUnshown`), and that each flag of a listed row is set by the
  time the first message goes out (`ListIsMarked`).
- `NothingElseLost`: `Spec => []ShownOrNew`. The strengthening `LateIsExcused` says
  that whatever is new to the reader without being on the list arrived after the
  list was made, until that side's UPDATE has run.

`TransferDialogProofs`, for any texts and any precision of the decimal context:
- `TypeCorrect`, `OnePayment` (`Spec => []PaysOnceUnlessRaised`),
  `WhatIsPaidWasShown` (`PaysAsConfirmed`), `MoneyGoesWhereChosen`
  (`MoneyGoesRight`), `PictureOfThisDialog` (`PhotoChosen`). The invariant `Ready`
  says for each state what `user_data` holds: which keys are set, that what was
  chosen is among what was offered, and that what was offered is the user's or his
  friend's, unless he lost it since it was listed. `EndsPaid`: after its payment a
  conversation goes on only when a handler raised. `PhotoKept`: the picture kept is
  the one sent last, and there is one before the confirmation, or after a /skip, only
  where a handler raised.
- `PaidAsTyped` (`PaysAsTyped`): `RoundNearest` says that `Round` is within half a
  hundredth of the text, whatever its digits and exponent; `Typed` that an amount in
  `user_data` is the rounded one of the text answered with. `TenTo` is a recursive
  function; that it is what its equation says is proved by hand, with a smallest
  number at which it would not be (`LeastNumber`, `TenToStep`).
- `OnePaymentWithoutRaising`: `~MayRaise => (Spec => []PaysOnce)`. Together with the
  run `dialog_twice`: a handler that raises is the only cause of a second payment.
- `DialogIsInTable`: `Spec => Talks!Spec`. The conversation in detail implements
  `Dialogs` with one chat and the moves of `/transfer`: each handler reads, writes
  and returns what its row of `Conversations` says. So what is proved of the table
  holds of the handlers, and `SessionReady` of the record that holds real data.
- `DialogImplementsLedger`: `"close" \notin AdminOps => (Spec => Books!Spec)`. A
  confirmed payment is `Ledger!Transfer`, all else is an administrator or a stutter.
  (Closing an account deletes its rows in the ledger; the history of payments that
  `TransferDialog` keeps for its properties does not forget.)

`FriendsProofs`, for any users and finitely many processes:
- `TypeCorrect`, `RequestsAreUnique` (`OneRequest`), `AnswersAreFinal`
  (`AnsweredIsGone`), `FriendsBothWays` (`AcceptedTogether`). `Working` says what a
  call has done so far: each of the two rows it has passed is its own uncommitted
  one, or was there, or was removed since. `MetBoth`: whoever met one way met the
  other. `Budget` bounds the requests being created.
- `WaitsEnd`: acceptances never wait in a longer chain than two, nor in a longer
  cycle, for any number of processes; `InDeadlock`, which looks for cycles of two,
  misses none. The invariant `Rows`: no two acceptances have inserted the same row,
  and one that waits at its second row has inserted at most the first.

`TokensProofs`, for any users, clients, lifetimes and faults:
- `TypeCorrect`: tokens never outlive their user.
- `SessionHasOneHeir`: the invariant is about `Open`, the live tokens and the one in
  exchange: two of one session are equal, and the login of a pair is in its past.
- `ReuseShutsOut`: `Shut` adds that no token of a shut user is in exchange and that
  none of his was made after he was shut.
- `NobodyShutWithoutMishap`: an answer belongs to one client (`NotShared`), and
  without a mishap its cookie is not revoked, except the one it is exchanging
  (`CookieIsGood`).
- `ExchangeIsOneStep`: `Spec => S!Spec`. `ExchangeCreate` maps to `Sessions!Exchange`,
  revocations, the crash and deletions to `Close`; the first statement of an
  exchange and everything else are stutters.

`UsersProofs`, for any number of processes:
- `TypeCorrect`, `BothOrNone` (`BothOrNeither`), `PasswordIsProved` (`ProvedByKey`),
  `KeyLasts` (`KeyIsForLife`). `Conversation` says for each state of `/password` what
  is known of the tables while the transaction is open: no key is there yet, nobody
  else inserts one, and the key given before an update is the user's unless the
  conversation is late; so is one whose UPDATE finds no row.

`DocumentsProofs`, for any numbers, users and bounds:
- `TypeCorrect` (cards and recorded payments refer to accounts that exist),
  `MeaningKept` (`NumbersKeepMeaning`: the number of a new document is no other's,
  and documents change hands by the form that says so alone),
  `StartsFresh` (`FreshStart`), `PaymentsAreSeen` (`PaidIsSeen`: `Seen` says that each
  number of a payment still leads to one of its two accounts), `PicturesStay`
  (`PictureKept`: names of pictures sent through the API are their payment's alone).

The assumptions are those named in the modules, which bound constants and keep
sorts apart (a move of a conversation does not lead back to its entry, `None` is
no picture, user, number or amount), and those stated in the theorem. Nothing is
assumed of the operators.

Only model-checked: liveness (`EveryTransferEnds`, `EveryCallEnds`), which is out of
the prover's reach. `NobodyWaitsInVain` and `WaitsEnd` prove what it rests on, that
someone can always go on; that he does is what fairness says and TLC checks. There is
no general induction over data either; the sums and powers above were proved without.
The three properties that runs refute are not theorems, but `CancelWorksInOneChat` and
`OnePaymentWithoutRaising` say under which condition two of them hold.

## 4. Findings

Three runs are expected to be violated; `PROJECT.json` quotes, for each, the line
of the repository that says otherwise.

- `dialogs_stuck`: a user whose first handler raised is locked in a conversation he
  cannot cancel.
- `dialog_twice`: a second payment is made after the recipient could not be told.
- `last_missed`: a payment is marked as seen by a user who never saw it.

Other things the models show, or that reading for them showed; no line of the
repository says otherwise, and no run is kept for them. The properties that hold
name their exceptions.

- An account is closed before a transfer's UPDATE, which finds no row, and its number
  is given out again before COMMIT, whose foreign keys are then satisfied: the other
  half of the transfer is committed alone, and money is lost or made. `NoReuse` in `TransferProofs` and the separate
  instances of `transfer_core` and `transfer_closing` are due to this.
- The form of an account shows a balance and writes it back: saved after a transfer
  has been committed meanwhile, it undoes that side of it. `NoLostUpdate` is about
  what transfers write; `AdminSave`, and `Save` of `Ledger`, admit any balance.
- A removal between the two INSERTs of an acceptance leaves half a friendship
  (`AcceptedTogether` excepts pairs that somebody removed).
- `try_accept` reads the request before its transaction: one that is rejected in
  between makes friends all the same, and both calls succeed.
- `handle_accept` takes a request that was accepted before for one that was
  withdrawn; `handle_reject` ignores the result of `try_reject`.
- REST takes amounts as floats: `Decimal(0.1)` has more than two places and is
  refused, `Decimal(0.25)` is not.
- The admin form of a user shows the stored hash and writes it back, which undoes a
  change of password made meanwhile; a text typed there is stored as it is.
- Usernames are unique and as old as their owner's last `/start`; who takes over a
  name gets an IntegrityError from `/start` until then.
- `RevokedRefreshTokenException` and `IntegrityException` have no handler in
  `general/rest/api.py`: they end as 500.

## 5. What is left

- Liveness of `/transfer` and `/password` would need assumptions on users, whom the
  code does not hurry.
- One composition of all components over the same tables is beyond TLC; each module
  instead has the others' steps on its tables (section 2).
- Names and usernames in `Users`, and the floats of the REST API in `Amounts`.

## 6. Not modelled, and why

- Routers, schemas, the mapping of exceptions to HTTP statuses, metrics, logging,
  templates and formatting carry no state. Read-only handlers (balances, friend
  lists, profile) are single queries; histories are in `Documents`.
- Repository interfaces and the wiring of services are abstract methods and
  constructors; migrations, settings and deployment were read for what the models
  assume (constraints, isolation level, number of processes, restarts).
- The names `/start` refreshes: nothing depends on them but their display and the
  search for a user by name. The admin site's own users and its login are Django's.
- The hashing of passwords (taken to be one to one), the signing of tokens (taken to
  be unforgeable) and cookies' attributes are the libraries'.
- Delivery by Telegram: updates arrive in any order the actions allow; an update
  delivered again after its answer was lost is one more message.
- PostgreSQL, Django's ORM and python-telegram-bot are modelled only by what the code
  relies on: row locks, deadlock detection, deferred foreign keys, ON CONFLICT DO
  NOTHING, one-to-one constraints, cascades, and the fate of an exception in a
  handler.
