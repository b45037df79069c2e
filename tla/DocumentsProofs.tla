--------------------------- MODULE DocumentsProofs ---------------------------
(***************************************************************************)
(* Theorems about Documents, for any numbers, users, pictures and bounds.  *)
(***************************************************************************)
EXTENDS Documents, TLAPS

USE DocumentsAssumption

-----------------------------------------------------------------------------
(* Lemmas about the helpers.                                               *)

\* The number of a new document is no other document's.
LEMMA NumberIsNew ==
    ASSUME NEW numbers, numbers \subseteq Nat, NEW min \in Nat, NEW n \in Nat,
           generate_number(n, numbers, min)
    PROVE  n \notin numbers
PROOF
  BY DEF generate_number

LEMMA Payment ==
    ASSUME TypeOK, NEW i \in DOMAIN paid
    PROVE  /\ paid[i] \in Payments /\ i \in Nat
           /\ paid[i].source \in AccountNumbers /\ paid[i].destination \in AccountNumbers
           /\ paid[i].numbers \subseteq Numbers
           /\ paid[i].photo # None => paid[i].photo \in Names \X (0..MaxDay)
PROOF
<1>1. paid \in Seq(Payments) /\ i \in 1..Len(paid)
  BY DEF TypeOK
<1>2. paid[i] \in Payments /\ i \in Nat
  BY <1>1
<1> QED
  BY <1>2 DEF Payments

LEMMA PayDoes ==
    ASSUME TypeOK, Len(paid) < MaxPaid, NEW p \in Payments, paid' = Append(paid, p)
    PROVE  /\ paid' \in Seq(Payments) /\ Len(paid') <= MaxPaid
           /\ DOMAIN paid' = DOMAIN paid \cup {Fresh} /\ Fresh \notin DOMAIN paid
           /\ \A i \in DOMAIN paid : paid'[i] = paid[i]
           /\ paid'[Fresh] = p
PROOF
  BY DEF TypeOK, Fresh

\* What a payment through the API or in the bot is: its two numbers lead to
\* its two accounts, and only a picture sent to the bot has a name that may be
\* used twice.
RestPhoto(p) == p.rest /\ p.photo # None => p.photo[1] = Fresh
BotPhoto(p) == ~p.rest /\ p.photo # None => p.photo[1] \in Pictures
Leads(p) == \A n \in p.numbers : p.source \in ByNumber(n) \/ p.destination \in ByNumber(n)

LEMMA RestIsPayment ==
    ASSUME TypeOK, NEW u \in Users, NEW s \in Numbers, NEW d \in Numbers, NEW photo \in BOOLEAN,
           RestTransfer(u, s, d, photo)
    PROVE  \E p \in Payments :
              /\ Len(paid) < MaxPaid /\ Pay(p)
              /\ {p.source, p.destination} \subseteq DOMAIN accounts
              /\ RestPhoto(p) /\ BotPhoto(p) /\ Leads(p)
PROOF
<1>1. PICK source \in Own(u, s), destination \in ByNumber(d) :
         Pay([source |-> source, destination |-> destination, numbers |-> {s, d},
              photo |-> IF photo THEN Key(UniqueName(u)) ELSE None, rest |-> TRUE])
  BY DEF RestTransfer
<1> DEFINE ph == IF photo THEN Key(UniqueName(u)) ELSE None
           p == [source |-> source, destination |-> destination, numbers |-> {s, d},
                 photo |-> ph, rest |-> TRUE]
<1>2. Len(paid) < MaxPaid /\ Len(paid) \in Nat
  BY DEF RestTransfer, TypeOK
<1>3. source \in DOMAIN accounts /\ destination \in DOMAIN accounts
      /\ source \in ByNumber(s) /\ destination \in ByNumber(d)
  BY DEF Own, ByNumber
<1>4. ph \in (Names \X (0..MaxDay)) \cup {None} /\ (ph # None => ph[1] = Fresh)
  <2>1. Fresh \in Names /\ day \in 0..MaxDay
    BY <1>2 DEF Fresh, Names, TypeOK
  <2> QED
    BY <2>1 DEF Key, UniqueName
<1> HIDE DEF ph
<1>5. source \in AccountNumbers /\ destination \in AccountNumbers
  BY <1>3 DEF TypeOK
<1>6. p \in Payments
  BY <1>4, <1>5 DEF Payments
<1>7. /\ p.source = source /\ p.destination = destination /\ p.numbers = {s, d}
      /\ p.photo = ph /\ p.rest
  OBVIOUS
<1>8. Pay(p)
  BY <1>1 DEF ph
<1> HIDE DEF p
<1> QED
  BY <1>2, <1>3, <1>4, <1>6, <1>7, <1>8 DEF RestPhoto, BotPhoto, Leads

LEMMA BotIsPayment ==
    ASSUME TypeOK, NEW s \in AccountNumbers, NEW d \in AccountNumbers,
           NEW photo \in Pictures \cup {None}, BotTransfer(s, d, photo)
    PROVE  \E p \in Payments :
              /\ Len(paid) < MaxPaid /\ Pay(p)
              /\ {p.source, p.destination} \subseteq DOMAIN accounts
              /\ RestPhoto(p) /\ BotPhoto(p) /\ Leads(p)
PROOF
<1> DEFINE ph == IF photo \in Pictures THEN Key(photo) ELSE None
           p == [source |-> s, destination |-> d, numbers |-> {s, d},
                 photo |-> ph, rest |-> FALSE]
<1>1. Len(paid) < MaxPaid /\ s \in DOMAIN accounts /\ d \in DOMAIN accounts /\ Pay(p)
  BY DEF BotTransfer
<1>2. ph \in (Names \X (0..MaxDay)) \cup {None} /\ (ph # None => ph[1] \in Pictures)
  BY DEF Key, Names, TypeOK
<1> HIDE DEF ph
<1>3. p \in Payments
  BY <1>2 DEF Payments, Numbers
<1>4. /\ p.source = s /\ p.destination = d /\ p.numbers = {s, d}
      /\ p.photo = ph /\ ~p.rest
  OBVIOUS
<1>5. s \in ByNumber(s) /\ d \in ByNumber(d)
  BY <1>1 DEF ByNumber
<1> HIDE DEF p
<1> QED
  BY <1>1, <1>2, <1>3, <1>4, <1>5 DEF RestPhoto, BotPhoto, Leads

-----------------------------------------------------------------------------
(* Type correctness.                                                       *)

LEMMA TypeInit == Init => TypeOK
PROOF
<1> SUFFICES ASSUME Init PROVE TypeOK
  OBVIOUS
<1>1. DOMAIN accounts = {} /\ DOMAIN cards = {}
  BY DEF Init
<1>2. accounts \in [DOMAIN accounts -> Users] /\ cards \in [DOMAIN cards -> DOMAIN accounts]
  BY <1>1 DEF Init
<1>3. paid \in Seq(Payments) /\ Len(paid) = 0 /\ DOMAIN paid = {}
  BY DEF Init
<1> QED
  BY <1>1, <1>2, <1>3 DEF Init, TypeOK

LEMMA TypePay ==
    ASSUME TypeOK, NEW p \in Payments, Len(paid) < MaxPaid, Pay(p),
           {p.source, p.destination} \subseteq DOMAIN accounts
    PROVE  TypeOK'
PROOF
<1>1. /\ paid' = Append(paid, p) /\ rows' = rows \cup {Fresh}
      /\ media' = media \cup ({p.photo} \ {None})
      /\ UNCHANGED <<accounts, cards, day, forms, excused>>
  BY DEF Pay
<1>2. /\ paid' \in Seq(Payments) /\ Len(paid') <= MaxPaid
      /\ DOMAIN paid' = DOMAIN paid \cup {Fresh} /\ Fresh \notin DOMAIN paid
      /\ \A i \in DOMAIN paid : paid'[i] = paid[i]
      /\ paid'[Fresh] = p
  BY <1>1, PayDoes
<1>3. media' \subseteq Names \X (0..MaxDay)
  BY <1>1 DEF Payments, TypeOK
<1>4. rows' \subseteq DOMAIN paid' /\ excused' \subseteq DOMAIN paid'
  BY <1>1, <1>2 DEF TypeOK
<1>5. \A i \in rows' : {paid'[i].source, paid'[i].destination} \subseteq DOMAIN accounts'
  BY <1>1, <1>2 DEF TypeOK
<1> QED
  BY <1>1, <1>2, <1>3, <1>4, <1>5 DEF TypeOK

LEMMA TypeDelete ==
    ASSUME TypeOK, NEW closed, closed \subseteq AccountNumbers, Delete(closed)
    PROVE  TypeOK'
PROOF
<1>1. /\ forms < MaxForms /\ forms' = forms + 1 /\ UNCHANGED <<paid, day>>
      /\ accounts' = [n \in DOMAIN accounts \ closed |-> accounts[n]]
      /\ cards' = [n \in DOMAIN cards \ CardsOf(closed) |-> cards[n]]
      /\ rows' = rows \ RowsOf(closed)
      /\ media' \subseteq media
      /\ excused' = excused \cup MadeTo(CardsOf(closed))
          \cup {i \in DOMAIN paid : {paid[i].source, paid[i].destination} \cap closed # {}}
  BY DEF Delete, Form
<1>2. /\ DOMAIN accounts' = DOMAIN accounts \ closed
      /\ accounts' \in [DOMAIN accounts' -> Users]
  BY <1>1 DEF TypeOK
<1>3. /\ DOMAIN cards' = DOMAIN cards \ CardsOf(closed)
      /\ cards' \in [DOMAIN cards' -> DOMAIN accounts']
  BY <1>1, <1>2 DEF TypeOK, CardsOf
<1>4. excused' \subseteq DOMAIN paid'
  BY <1>1 DEF TypeOK, MadeTo
<1>5. \A i \in rows' : {paid'[i].source, paid'[i].destination} \subseteq DOMAIN accounts'
  BY <1>1, <1>2 DEF TypeOK, RowsOf
<1>6. forms' \in 0..MaxForms
  BY <1>1 DEF TypeOK
<1> QED
  BY <1>1, <1>2, <1>3, <1>4, <1>5, <1>6 DEF TypeOK

LEMMA TypeNext == TypeOK /\ [Next]_vars => TypeOK'
PROOF
<1> SUFFICES ASSUME TypeOK, [Next]_vars PROVE TypeOK'
  OBVIOUS
<1>1. ASSUME NEW u \in Users, NEW s \in Numbers, NEW d \in Numbers, NEW photo \in BOOLEAN,
             RestTransfer(u, s, d, photo)
      PROVE  TypeOK'
  BY <1>1, RestIsPayment, TypePay
<1>2. ASSUME NEW s \in AccountNumbers, NEW d \in AccountNumbers,
             NEW photo \in Pictures \cup {None}, BotTransfer(s, d, photo)
      PROVE  TypeOK'
  BY <1>2, BotIsPayment, TypePay
<1>3. ASSUME Form PROVE forms' \in 0..MaxForms /\ UNCHANGED <<paid, day>>
  BY <1>3 DEF Form, TypeOK
<1>4. ASSUME NEW n \in AccountNumbers, NEW u \in Users, OpenAccount(n, u) PROVE TypeOK'
  <2>1. /\ Form /\ accounts' = Put(accounts, n, u)
        /\ UNCHANGED <<cards, rows, media, excused>>
    BY <1>4 DEF OpenAccount
  <2>2. DOMAIN accounts' = DOMAIN accounts \cup {n} /\ accounts' \in [DOMAIN accounts' -> Users]
    BY <2>1 DEF Put, TypeOK
  <2>3. cards' \in [DOMAIN cards' -> DOMAIN accounts']
    BY <2>1, <2>2 DEF TypeOK
  <2> QED
    BY <1>3, <2>1, <2>2, <2>3 DEF TypeOK
<1>5. ASSUME NEW n \in AccountNumbers, NEW u \in Users, GiveAccount(n, u) PROVE TypeOK'
  <2>1. /\ Form /\ accounts' = [accounts EXCEPT ![n] = u]
        /\ UNCHANGED <<cards, rows, media, excused>>
    BY <1>5 DEF GiveAccount
  <2>2. DOMAIN accounts' = DOMAIN accounts /\ accounts' \in [DOMAIN accounts' -> Users]
    BY <2>1 DEF TypeOK
  <2> QED
    BY <1>3, <2>1, <2>2 DEF TypeOK, Numbers
<1>6. ASSUME NEW n \in CardNumbers, NEW a \in AccountNumbers, IssueCard(n, a) PROVE TypeOK'
  <2>1. /\ Form /\ a \in DOMAIN accounts /\ cards' = Put(cards, n, a)
        /\ UNCHANGED <<accounts, rows, media, excused>>
    BY <1>6 DEF IssueCard
  <2>2. DOMAIN cards' = DOMAIN cards \cup {n} /\ cards' \in [DOMAIN cards' -> DOMAIN accounts]
    BY <2>1 DEF Put, TypeOK
  <2> QED
    BY <1>3, <2>1, <2>2 DEF TypeOK
<1>7. ASSUME NEW n \in CardNumbers, NEW a \in AccountNumbers, MoveCard(n, a) PROVE TypeOK'
  <2>1. /\ Form /\ a \in DOMAIN accounts /\ cards' = [cards EXCEPT ![n] = a]
        /\ excused' = excused \cup MadeTo({n})
        /\ UNCHANGED <<accounts, rows, media>>
    BY <1>7 DEF MoveCard
  <2>2. DOMAIN cards' = DOMAIN cards /\ cards' \in [DOMAIN cards' -> DOMAIN accounts]
    BY <2>1 DEF TypeOK
  <2> QED
    BY <1>3, <2>1, <2>2 DEF TypeOK, Numbers, MadeTo
<1>8. ASSUME NEW n \in CardNumbers, DeleteCard(n) PROVE TypeOK'
  <2>1. /\ Form /\ cards' = [m \in DOMAIN cards \ {n} |-> cards[m]]
        /\ excused' = excused \cup MadeTo({n})
        /\ UNCHANGED <<accounts, rows, media>>
    BY <1>8 DEF DeleteCard
  <2>2. DOMAIN cards' = DOMAIN cards \ {n} /\ cards' \in [DOMAIN cards' -> DOMAIN accounts]
    BY <2>1 DEF TypeOK
  <2> QED
    BY <1>3, <2>1, <2>2 DEF TypeOK, MadeTo
<1>9. ASSUME NEW n \in AccountNumbers, CloseAccount(n) PROVE TypeOK'
  BY <1>9, TypeDelete DEF CloseAccount
<1>10. ASSUME NEW u \in Users, DeleteOwner(u) PROVE TypeOK'
  <2>1. AccountsOf(u) \subseteq AccountNumbers
    BY DEF AccountsOf, TypeOK
  <2> QED
    BY <1>10, <2>1, TypeDelete DEF DeleteOwner
<1>11. CASE NextDay
  BY <1>11 DEF NextDay, TypeOK
<1>12. CASE UNCHANGED vars
  BY <1>12 DEF vars, TypeOK
<1> QED
  BY <1>1, <1>2, <1>4, <1>5, <1>6, <1>7, <1>8, <1>9, <1>10, <1>11, <1>12 DEF Next

\* Every card and every recorded payment refers to accounts that exist, under
\* whatever administrators do.
THEOREM TypeCorrect == Spec => []TypeOK
PROOF
<1> QED
  BY TypeInit, TypeNext, PTL DEF Spec

-----------------------------------------------------------------------------
(* Numbers keep their meaning.                                             *)

\* A document that is opened gets a number that is no other's.
LEMMA NewNumbers ==
    ASSUME TypeOK
    PROVE  /\ \A n \in DOMAIN accounts, u \in Users : ~OpenAccount(n, u)
           /\ \A n \in DOMAIN cards, a \in AccountNumbers : ~IssueCard(n, a)
PROOF
<1>1. DOMAIN accounts \subseteq MIN_ACCOUNT..MAX_ACCOUNT /\ DOMAIN cards \subseteq MIN_CARD..MAX_CARD
  BY DEF TypeOK, AccountNumbers, CardNumbers
<1>2. \A n \in DOMAIN accounts : ~generate_number(n, DOMAIN accounts, MIN_ACCOUNT)
  BY <1>1, NumberIsNew
<1>3. \A n \in DOMAIN cards : ~generate_number(n, DOMAIN cards, MIN_CARD)
  BY <1>1, NumberIsNew
<1> QED
  BY <1>2, <1>3 DEF OpenAccount, IssueCard

\* What each step does to a document that exists before and after it, and to
\* a number that becomes an account.
LEMMA MeaningStep ==
    ASSUME TypeOK, [Next]_vars
    PROVE  /\ \A n \in DOMAIN accounts \cap DOMAIN accounts' :
                 accounts'[n] = accounts[n] \/ GiveAccount(n, accounts'[n])
           /\ \A n \in DOMAIN cards \cap DOMAIN cards' :
                 cards'[n] = cards[n] \/ MoveCard(n, cards'[n])
           /\ DOMAIN accounts' \subseteq DOMAIN accounts \/ UNCHANGED <<paid, rows, cards>>
PROOF
<1> DEFINE Goal == /\ \A n \in DOMAIN accounts \cap DOMAIN accounts' :
                         accounts'[n] = accounts[n] \/ GiveAccount(n, accounts'[n])
                   /\ \A n \in DOMAIN cards \cap DOMAIN cards' :
                         cards'[n] = cards[n] \/ MoveCard(n, cards'[n])
                   /\ DOMAIN accounts' \subseteq DOMAIN accounts \/ UNCHANGED <<paid, rows, cards>>
<1>1. ASSUME UNCHANGED <<accounts, cards>> PROVE Goal
  BY <1>1
<1>2. ASSUME NEW u \in Users, NEW s \in Numbers, NEW d \in Numbers, NEW photo \in BOOLEAN,
             RestTransfer(u, s, d, photo)
      PROVE  Goal
  BY <1>1, <1>2, RestIsPayment DEF Pay
<1>3. ASSUME NEW s \in AccountNumbers, NEW d \in AccountNumbers,
             NEW photo \in Pictures \cup {None}, BotTransfer(s, d, photo)
      PROVE  Goal
  BY <1>1, <1>3, BotIsPayment DEF Pay
<1>4. ASSUME NEW n \in AccountNumbers, NEW u \in Users, OpenAccount(n, u) PROVE Goal
  <2>1. /\ generate_number(n, DOMAIN accounts, MIN_ACCOUNT)
        /\ accounts' = Put(accounts, n, u) /\ UNCHANGED <<paid, rows, cards>>
    BY <1>4 DEF OpenAccount, Form
  <2>2. n \notin DOMAIN accounts
    BY <2>1, NumberIsNew DEF TypeOK, AccountNumbers
  <2>3. \A m \in DOMAIN accounts : m # n => accounts'[m] = accounts[m]
    BY <2>1 DEF Put, TypeOK
  <2> QED
    BY <2>1, <2>2, <2>3
<1>5. ASSUME NEW n \in AccountNumbers, NEW u \in Users, GiveAccount(n, u) PROVE Goal
  <2>1. n \in DOMAIN accounts /\ accounts' = [accounts EXCEPT ![n] = u] /\ UNCHANGED cards
    BY <1>5 DEF GiveAccount
  <2>2. accounts'[n] = u /\ \A m \in DOMAIN accounts : m # n => accounts'[m] = accounts[m]
    BY <2>1 DEF TypeOK
  <2>3. GiveAccount(n, accounts'[n])
    BY <1>5, <2>2
  <2> QED
    BY <2>1, <2>2, <2>3
<1>6. ASSUME NEW n \in CardNumbers, NEW a \in AccountNumbers, IssueCard(n, a) PROVE Goal
  <2>1. /\ generate_number(n, DOMAIN cards, MIN_CARD) /\ a \in DOMAIN accounts
        /\ cards' = Put(cards, n, a) /\ UNCHANGED accounts
    BY <1>6 DEF IssueCard
  <2>2. n \notin DOMAIN cards
    BY <2>1, NumberIsNew DEF TypeOK, CardNumbers
  <2>3. \A m \in DOMAIN cards : m # n => cards'[m] = cards[m]
    BY <2>1 DEF Put, TypeOK
  <2> QED
    BY <2>1, <2>2, <2>3
<1>7. ASSUME NEW n \in CardNumbers, NEW a \in AccountNumbers, MoveCard(n, a) PROVE Goal
  <2>1. n \in DOMAIN cards /\ cards' = [cards EXCEPT ![n] = a] /\ UNCHANGED accounts
    BY <1>7 DEF MoveCard
  <2>2. cards'[n] = a /\ \A m \in DOMAIN cards : m # n => cards'[m] = cards[m]
    BY <2>1 DEF TypeOK
  <2>3. MoveCard(n, cards'[n])
    BY <1>7, <2>2
  <2> QED
    BY <2>1, <2>2, <2>3
<1>8. ASSUME NEW n \in CardNumbers, DeleteCard(n) PROVE Goal
  BY <1>8 DEF DeleteCard
<1>9. ASSUME NEW closed, Delete(closed) PROVE Goal
  BY <1>9 DEF Delete
<1>10. NextDay \/ UNCHANGED vars => Goal
  BY DEF NextDay, vars
<1>11. Next \/ UNCHANGED vars
  OBVIOUS
<1> HIDE DEF Goal
<1>12. Goal
  BY <1>2, <1>3, <1>4, <1>5, <1>6, <1>7, <1>8, <1>9, <1>10, <1>11
     DEF Next, CloseAccount, DeleteOwner
<1> QED
  BY <1>12 DEF Goal

\* No new document takes the number of one that exists.
THEOREM MeaningKept == Spec => NumbersKeepMeaning
PROOF
<1>1. TypeOK /\ [Next]_vars =>
        [/\ \A n \in DOMAIN accounts, u \in Users : ~OpenAccount(n, u)
         /\ \A n \in DOMAIN cards, a \in AccountNumbers : ~IssueCard(n, a)
         /\ \A n \in DOMAIN accounts \cap DOMAIN accounts' :
               accounts'[n] = accounts[n] \/ GiveAccount(n, accounts'[n])
         /\ \A n \in DOMAIN cards \cap DOMAIN cards' :
               cards'[n] = cards[n] \/ MoveCard(n, cards'[n])]_vars
  BY MeaningStep, NewNumbers
<1> QED
  BY TypeInit, TypeNext, <1>1, PTL DEF Spec, NumbersKeepMeaning

\* A number that is given out again brings nothing of its former account.
THEOREM StartsFresh == Spec => FreshStart
PROOF
<1>1. TypeOK /\ [Next]_vars =>
        [\A n \in DOMAIN accounts' \ DOMAIN accounts :
            /\ \A i \in rows' : n \notin {paid'[i].source, paid'[i].destination}
            /\ \A c \in DOMAIN cards' : cards'[c] # n]_vars
  <2> SUFFICES ASSUME TypeOK, [Next]_vars, NEW n \in DOMAIN accounts' \ DOMAIN accounts
               PROVE  /\ \A i \in rows' : n \notin {paid'[i].source, paid'[i].destination}
                      /\ \A c \in DOMAIN cards' : cards'[c] # n
    OBVIOUS
  <2>1. UNCHANGED <<paid, rows, cards>>
    BY MeaningStep
  <2> QED
    BY <2>1 DEF TypeOK
<1> QED
  BY TypeInit, TypeNext, <1>1, PTL DEF Spec, FreshStart

-----------------------------------------------------------------------------
(* Payments are seen, and their pictures kept.                             *)

\* A payment that is not excused is recorded, and its numbers lead to it.
Seen ==
    \A i \in DOMAIN paid \ excused :
        /\ i \in rows
        /\ \A n \in paid[i].numbers :
              paid[i].source \in ByNumber(n) \/ paid[i].destination \in ByNumber(n)

\* Names of pictures sent through the API are their payment's alone.
PhotoNames ==
    \A i \in DOMAIN paid : paid[i].photo # None =>
        paid[i].photo[1] \in IF paid[i].rest THEN {i} ELSE Pictures

Inv == Seen /\ PhotoNames /\ PictureKept

LEMMA InvInit == Init => Inv
PROOF
<1> SUFFICES ASSUME Init PROVE Inv
  OBVIOUS
<1>1. DOMAIN paid = {} /\ rows = {}
  BY DEF Init
<1> QED
  BY <1>1 DEF Inv, Seen, PhotoNames, PictureKept

LEMMA InvPay ==
    ASSUME TypeOK, Inv, NEW p \in Payments, Len(paid) < MaxPaid, Pay(p),
           RestPhoto(p), BotPhoto(p), Leads(p)
    PROVE  Inv'
PROOF
<1>1. /\ paid' = Append(paid, p) /\ rows' = rows \cup {Fresh}
      /\ media' = media \cup ({p.photo} \ {None})
      /\ UNCHANGED <<accounts, cards, excused>>
  BY DEF Pay
<1>2. /\ DOMAIN paid' = DOMAIN paid \cup {Fresh} /\ Fresh \notin DOMAIN paid
      /\ \A i \in DOMAIN paid : paid'[i] = paid[i]
      /\ paid'[Fresh] = p
  BY <1>1, PayDoes
<1>3. rows \subseteq DOMAIN paid
  BY DEF TypeOK
<1>4. \A n : ByNumber(n)' = ByNumber(n)
  BY <1>1 DEF ByNumber
<1>5. Seen'
  BY <1>1, <1>2, <1>4 DEF Inv, Seen, Leads
<1>6. PhotoNames'
  BY <1>2 DEF Inv, PhotoNames, RestPhoto, BotPhoto
<1>7. PictureKept'
  BY <1>1, <1>2, <1>3 DEF Inv, PictureKept
<1> QED
  BY <1>5, <1>6, <1>7 DEF Inv

\* A form that takes nothing away from those that lead to the payments not
\* excused, and no payment and no picture.
LEMMA InvForm ==
    ASSUME TypeOK, Inv, UNCHANGED <<paid, rows, media>>, excused \subseteq excused',
           \A i \in DOMAIN paid \ excused' : \A n \in paid[i].numbers :
               ByNumber(n) \subseteq ByNumber(n)'
    PROVE  Inv'
PROOF
  BY DEF Inv, Seen, PhotoNames, PictureKept

LEMMA InvDelete ==
    ASSUME TypeOK, Inv, NEW closed, Delete(closed)
    PROVE  Inv'
PROOF
<1>1. /\ UNCHANGED paid
      /\ accounts' = [n \in DOMAIN accounts \ closed |-> accounts[n]]
      /\ cards' = [n \in DOMAIN cards \ CardsOf(closed) |-> cards[n]]
      /\ rows' = rows \ RowsOf(closed)
      /\ media' = media \ {paid[i].photo : i \in RowsOf(closed)}
      /\ excused' = excused \cup MadeTo(CardsOf(closed))
          \cup {i \in DOMAIN paid : {paid[i].source, paid[i].destination} \cap closed # {}}
  BY DEF Delete, Form
<1>2. rows \subseteq DOMAIN paid /\ RowsOf(closed) \subseteq rows
  BY DEF TypeOK, RowsOf
<1>3. Seen'
  <2> SUFFICES ASSUME NEW i \in DOMAIN paid, i \notin excused'
               PROVE  /\ i \in rows'
                      /\ \A n \in paid[i].numbers :
                            \/ paid[i].source \in ByNumber(n)'
                            \/ paid[i].destination \in ByNumber(n)'
    BY <1>1 DEF Seen
  <2>1. /\ i \notin excused /\ i \notin MadeTo(CardsOf(closed))
        /\ paid[i].source \notin closed /\ paid[i].destination \notin closed
    BY <1>1
  <2>2. i \in rows'
    BY <1>1, <2>1 DEF Inv, Seen, RowsOf
  <2>3. ASSUME NEW n \in paid[i].numbers, NEW a \in ByNumber(n), a \notin closed
        PROVE  a \in ByNumber(n)'
    <3>1. n \notin CardsOf(closed)
      BY <2>1 DEF MadeTo
    <3> QED
      BY <1>1, <2>3, <3>1 DEF ByNumber
  <2> QED
    BY <2>1, <2>2, <2>3 DEF Inv, Seen
<1>4. PhotoNames'
  BY <1>1 DEF Inv, PhotoNames
<1>5. PictureKept'
  <2> SUFFICES ASSUME NEW i \in rows', paid[i].photo # None, paid[i].photo \notin media'
               PROVE  ~paid[i].rest /\ \E j \in DOMAIN paid \ rows' : paid[j].photo = paid[i].photo
    BY <1>1 DEF PictureKept
  <2>1. i \in rows /\ i \notin RowsOf(closed) /\ i \in DOMAIN paid
    BY <1>1, <1>2
  <2>2. CASE paid[i].photo \notin media
    BY <1>1, <2>1, <2>2 DEF Inv, PictureKept
  <2>3. CASE paid[i].photo \in media
    <3>1. PICK j \in RowsOf(closed) : paid[j].photo = paid[i].photo
      BY <1>1, <2>3
    <3>2. j # i /\ j \in DOMAIN paid \ rows'
      BY <1>1, <1>2, <2>1, <3>1
    <3>3. paid[i].photo[1] \in IF paid[i].rest THEN {i} ELSE Pictures
      BY <2>1 DEF Inv, PhotoNames
    <3>4. paid[i].photo[1] \in IF paid[j].rest THEN {j} ELSE Pictures
      BY <3>1, <3>2 DEF Inv, PhotoNames
    <3>5. i \in Nat /\ j \in Nat
      BY <2>1, <3>2, Payment
    <3>6. ~paid[i].rest
      BY <3>2, <3>3, <3>4, <3>5
    <3> QED
      BY <3>1, <3>2, <3>6
  <2> QED
    BY <2>2, <2>3
<1> QED
  BY <1>3, <1>4, <1>5 DEF Inv

LEMMA InvNext == TypeOK /\ Inv /\ [Next]_vars => Inv'
PROOF
<1> SUFFICES ASSUME TypeOK, Inv, [Next]_vars PROVE Inv'
  OBVIOUS
<1>1. ASSUME NEW u \in Users, NEW s \in Numbers, NEW d \in Numbers, NEW photo \in BOOLEAN,
             RestTransfer(u, s, d, photo)
      PROVE  Inv'
  BY <1>1, RestIsPayment, InvPay
<1>2. ASSUME NEW s \in AccountNumbers, NEW d \in AccountNumbers,
             NEW photo \in Pictures \cup {None}, BotTransfer(s, d, photo)
      PROVE  Inv'
  BY <1>2, BotIsPayment, InvPay
<1>3. ASSUME NEW n \in AccountNumbers, NEW u \in Users, OpenAccount(n, u) PROVE Inv'
  <2>1. /\ accounts' = Put(accounts, n, u)
        /\ UNCHANGED <<paid, rows, media, cards, excused>>
    BY <1>3 DEF OpenAccount, Form
  <2>2. DOMAIN accounts' = DOMAIN accounts \cup {n}
    BY <2>1 DEF Put, TypeOK
  <2>3. \A m : ByNumber(m) \subseteq ByNumber(m)'
    BY <2>1, <2>2 DEF ByNumber
  <2> QED
    BY <2>1, <2>3, InvForm
<1>4. ASSUME NEW n \in AccountNumbers, NEW u \in Users, GiveAccount(n, u) PROVE Inv'
  <2>1. /\ DOMAIN accounts' = DOMAIN accounts
        /\ UNCHANGED <<paid, rows, media, cards, excused>>
    BY <1>4 DEF GiveAccount, Form, TypeOK
  <2>2. \A m : ByNumber(m) \subseteq ByNumber(m)'
    BY <2>1 DEF ByNumber
  <2> QED
    BY <2>1, <2>2, InvForm
<1>5. ASSUME NEW n \in CardNumbers, NEW a \in AccountNumbers, IssueCard(n, a) PROVE Inv'
  <2>1. /\ generate_number(n, DOMAIN cards, MIN_CARD) /\ a \in DOMAIN accounts
        /\ cards' = Put(cards, n, a)
        /\ UNCHANGED <<paid, rows, media, accounts, excused>>
    BY <1>5 DEF IssueCard, Form
  <2>2. n \notin DOMAIN cards
    BY <2>1, NumberIsNew DEF TypeOK, CardNumbers
  <2>3. /\ DOMAIN cards' = DOMAIN cards \cup {n}
        /\ \A m \in DOMAIN cards : cards'[m] = cards[m]
    BY <2>1, <2>2 DEF Put, TypeOK
  <2>4. \A m : ByNumber(m) \subseteq ByNumber(m)'
    BY <2>1, <2>3 DEF ByNumber
  <2> QED
    BY <2>1, <2>4, InvForm
<1>6. ASSUME NEW n \in CardNumbers, NEW a \in AccountNumbers, MoveCard(n, a) PROVE Inv'
  <2>1. /\ cards' = [cards EXCEPT ![n] = a] /\ excused' = excused \cup MadeTo({n})
        /\ UNCHANGED <<paid, rows, media, accounts>>
    BY <1>6 DEF MoveCard, Form
  <2>2. /\ DOMAIN cards' = DOMAIN cards
        /\ \A m \in DOMAIN cards : m # n => cards'[m] = cards[m]
    BY <2>1 DEF TypeOK
  <2>3. \A i \in DOMAIN paid \ excused' : n \notin paid[i].numbers
    BY <2>1 DEF MadeTo
  <2>4. \A i \in DOMAIN paid \ excused' : \A m \in paid[i].numbers : ByNumber(m) \subseteq ByNumber(m)'
    BY <2>1, <2>2, <2>3 DEF ByNumber
  <2> QED
    BY <2>1, <2>4, InvForm
<1>7. ASSUME NEW n \in CardNumbers, DeleteCard(n) PROVE Inv'
  <2>1. /\ cards' = [m \in DOMAIN cards \ {n} |-> cards[m]]
        /\ excused' = excused \cup MadeTo({n})
        /\ UNCHANGED <<paid, rows, media, accounts>>
    BY <1>7 DEF DeleteCard, Form
  <2>2. \A i \in DOMAIN paid \ excused' : n \notin paid[i].numbers
    BY <2>1 DEF MadeTo
  <2>3. \A i \in DOMAIN paid \ excused' : \A m \in paid[i].numbers : ByNumber(m) \subseteq ByNumber(m)'
    BY <2>1, <2>2 DEF ByNumber
  <2> QED
    BY <2>1, <2>3, InvForm
<1>8. ASSUME NEW n \in AccountNumbers, CloseAccount(n) PROVE Inv'
  BY <1>8, InvDelete DEF CloseAccount
<1>9. ASSUME NEW u \in Users, DeleteOwner(u) PROVE Inv'
  BY <1>9, InvDelete DEF DeleteOwner
<1>10. NextDay \/ UNCHANGED vars => Inv'
  <2> SUFFICES ASSUME UNCHANGED <<accounts, cards, paid, rows, media, excused>> PROVE Inv'
    BY DEF NextDay, vars
  <2>1. \A m : ByNumber(m) \subseteq ByNumber(m)'
    BY DEF ByNumber
  <2> QED
    BY <2>1, InvForm
<1> QED
  BY <1>1, <1>2, <1>3, <1>4, <1>5, <1>6, <1>7, <1>8, <1>9, <1>10 DEF Next

\* A payment is in the history of the numbers it was made with for as long as
\* these mean what they meant.
THEOREM PaymentsAreSeen == Spec => []PaidIsSeen
PROOF
<1>1. TypeOK /\ Inv => PaidIsSeen
  <2> SUFFICES ASSUME TypeOK, Inv, NEW i \in DOMAIN paid \ excused, NEW n \in paid[i].numbers
               PROVE  i \in History(n)
    BY DEF PaidIsSeen
  <2>1. PICK a \in ByNumber(n) : a \in {paid[i].source, paid[i].destination}
    BY DEF Inv, Seen
  <2>2. i \in get_transactions(a)
    BY <2>1 DEF Inv, Seen, get_transactions
  <2>3. a \in DOMAIN accounts /\ accounts[a] \in Users
    BY <2>1 DEF ByNumber, TypeOK
  <2>4. CASE a = n
    <3>1. a \in try_get_account(accounts[a], n)
      BY <2>3, <2>4 DEF try_get_account
    <3>2. i \in get_account_history(accounts[a], n)
      BY <2>2, <3>1 DEF get_account_history
    <3> QED
      BY <2>3, <3>2 DEF History
  <2>5. CASE n \in DOMAIN cards /\ cards[n] = a
    <3>1. n \in try_get_card(accounts[a], n) /\ get_bank_account_from_document(n) = a
      BY <2>3, <2>5 DEF try_get_card, get_bank_account_from_document
    <3>2. i \in get_card_history(accounts[a], n)
      BY <2>2, <3>1 DEF get_card_history
    <3> QED
      BY <2>3, <3>2 DEF History
  <2> QED
    BY <2>1, <2>4, <2>5 DEF ByNumber
<1> QED
  BY TypeInit, TypeNext, InvInit, InvNext, <1>1, PTL DEF Spec

\* A picture sent through the API stays as long as its payment.
THEOREM PicturesStay == Spec => []PictureKept
PROOF
<1>1. Inv => PictureKept
  BY DEF Inv
<1> QED
  BY TypeInit, TypeNext, InvInit, InvNext, <1>1, PTL DEF Spec

=============================================================================
