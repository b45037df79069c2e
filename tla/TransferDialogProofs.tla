------------------------- MODULE TransferDialogProofs -------------------------
(***************************************************************************)
(* Safety theorems about TransferDialog, for any accounts, friends, texts, *)
(* pictures and bounds; first what they need of Amounts.                   *)
(***************************************************************************)
EXTENDS TransferDialog, Conversations, FiniteSetTheorems, TLAPS

-----------------------------------------------------------------------------
(* Powers of ten.  The recursion of TenTo is justified by hand: it has a   *)
(* solution on every 0..k, any two solutions agree, and the solutions      *)
(* together are the function.                                              *)

\* A set of numbers that is not empty has a least one.
LEMMA LeastNumber ==
    ASSUME NEW T, T \subseteq Nat, T # {}
    PROVE  \E m \in T : \A k \in T : m <= k
PROOF
<1>1. PICK k \in T : TRUE
  OBVIOUS
<1> DEFINE S == 0..k
           D == {U \in SUBSET S : \E j \in T : U = 0..j}
<1>2. IsFiniteSet(S)
  BY FS_Interval
<1>3. 0..k \in D
  BY <1>1
<1>4. IsWellFoundedOn(StrictSubsetOrdering(S), SUBSET S)
  BY <1>2, FS_StrictSubsetOrderingWellFounded, FS_FiniteSubsetsOfFinite
<1>5. PICK m \in D : \A U \in D : ~(<<U, m>> \in StrictSubsetOrdering(S))
  <2>1. D \subseteq SUBSET S /\ D # {}
    BY <1>3
  <2> HIDE DEF D, S
  <2> QED
    BY <1>4, <2>1, WFMin
<1>6. PICK j \in T : m = 0..j
  BY <1>5
<1>7. ASSUME NEW i \in T, i < j
      PROVE  FALSE
  <2>1. 0..i \subseteq m /\ 0..i # m /\ 0..i \in D
    BY <1>5, <1>6, <1>7
  <2> QED
    BY <1>5, <2>1 DEF StrictSubsetOrdering
<1> QED
  BY <1>6, <1>7

IsTenTo(f, S) == f = [n \in S |-> IF n = 0 THEN 1 ELSE 10 * f[n - 1]]

\* Solutions agree where both are defined.
LEMMA TenTosAgree ==
    ASSUME NEW k \in Nat, NEW l \in Nat, NEW f, NEW g,
           IsTenTo(f, 0..k), IsTenTo(g, 0..l), NEW n \in 0..k, n <= l
    PROVE  f[n] = g[n]
PROOF
<1> DEFINE T == {i \in Nat : i <= k /\ i <= l /\ f[i] # g[i]}
<1> SUFFICES ASSUME T # {} PROVE FALSE
  OBVIOUS
<1>1. PICK m \in T : \A i \in T : m <= i
  <2>1. T \subseteq Nat /\ T # {}
    OBVIOUS
  <2> HIDE DEF T
  <2> QED
    BY <2>1, LeastNumber
<1>2. CASE m = 0
  <2>1. f[m] = 1 /\ g[m] = 1
    BY <1>2 DEF IsTenTo
  <2> QED
    BY <2>1
<1>3. CASE m # 0
  <2>1. m - 1 \in Nat /\ m - 1 \notin T
    BY <1>1, <1>3
  <2>2. f[m - 1] = g[m - 1]
    BY <2>1
  <2>3. f[m] = 10 * f[m - 1] /\ g[m] = 10 * g[m - 1]
    BY <1>3 DEF IsTenTo
  <2> QED
    BY <2>2, <2>3
<1> QED
  BY <1>2, <1>3

\* There is a solution on every 0..k.
LEMMA TenTosExist == \A k \in Nat : \E f : IsTenTo(f, 0..k)
PROOF
<1> DEFINE T == {k \in Nat : ~ \E f : IsTenTo(f, 0..k)}
<1> SUFFICES ASSUME T # {} PROVE FALSE
  OBVIOUS
<1>1. PICK m \in T : \A k \in T : m <= k
  <2>1. T \subseteq Nat /\ T # {}
    OBVIOUS
  <2> HIDE DEF T
  <2> QED
    BY <2>1, LeastNumber
<1>2. CASE m = 0
  <2> DEFINE f == [n \in 0..0 |-> 1]
  <2>1. f = [n \in 0..0 |-> IF n = 0 THEN 1 ELSE 10 * f[n - 1]]
    OBVIOUS
  <2>2. IsTenTo(f, 0..m)
    BY <1>2, <2>1 DEF IsTenTo
  <2> QED
    BY <1>1, <2>2
<1>3. CASE m # 0
  <2>1. m - 1 \in Nat /\ m - 1 \notin T
    BY <1>1, <1>3
  <2>2. PICK f : IsTenTo(f, 0..(m - 1))
    BY <2>1
  <2> DEFINE g == [n \in 0..m |-> IF n = m THEN 10 * f[m - 1] ELSE f[n]]
  <2>3. \A n \in 0..(m - 1) : f[n] = IF n = 0 THEN 1 ELSE 10 * f[n - 1]
    BY <2>1, <2>2 DEF IsTenTo
  <2>4. \A n \in 0..m : g[n] = IF n = 0 THEN 1 ELSE 10 * g[n - 1]
    <3> SUFFICES ASSUME NEW n \in 0..m
                 PROVE  g[n] = IF n = 0 THEN 1 ELSE 10 * g[n - 1]
      OBVIOUS
    <3>1. CASE n = m
      BY <1>3, <2>1, <3>1
    <3>2. CASE n # m
      BY <2>1, <2>3, <3>2
    <3> QED
      BY <3>1, <3>2
  <2>5. IsTenTo(g, 0..m)
    <3>1. g = [n \in 0..m |-> g[n]]
      OBVIOUS
    <3> HIDE DEF g
    <3> QED
      BY <2>4, <3>1 DEF IsTenTo
  <2> QED
    BY <1>1, <2>5
<1> QED
  BY <1>2, <1>3

\* TenTo is the function its recursion says it is.
LEMMA TenToStep == TenTo = [n \in Nat |-> IF n = 0 THEN 1 ELSE 10 * TenTo[n - 1]]
PROOF
<1> DEFINE F(k) == CHOOSE f : IsTenTo(f, 0..k)
           g == [n \in Nat |-> F(n)[n]]
<1>1. ASSUME NEW k \in Nat PROVE IsTenTo(F(k), 0..k)
  BY TenTosExist
<1>2. ASSUME NEW n \in Nat
      PROVE  g[n] = IF n = 0 THEN 1 ELSE 10 * g[n - 1]
  <2>1. IsTenTo(F(n), 0..n)
    BY <1>1
  <2>2. F(n)[n] = IF n = 0 THEN 1 ELSE 10 * F(n)[n - 1]
    <3> HIDE DEF F
    <3> QED
      BY <2>1 DEF IsTenTo
  <2>3. CASE n # 0
    <3>1. n - 1 \in Nat /\ n - 1 \in 0..n /\ n - 1 <= n - 1
      BY <2>3
    <3>2. IsTenTo(F(n - 1), 0..(n - 1))
      BY <1>1, <3>1
    <3>3. F(n)[n - 1] = F(n - 1)[n - 1]
      <4> HIDE DEF F
      <4> QED
        BY <2>1, <3>1, <3>2, TenTosAgree
    <3>4. g[n] = F(n)[n] /\ g[n - 1] = F(n - 1)[n - 1]
      BY <3>1
    <3> HIDE DEF F, g
    <3> QED
      BY <2>2, <2>3, <3>3, <3>4
  <2>4. CASE n = 0
    <3>1. g[n] = F(n)[n]
      OBVIOUS
    <3> HIDE DEF F, g
    <3> QED
      BY <2>2, <2>4, <3>1
  <2> QED
    BY <2>3, <2>4
<1>3. IsTenTo(g, Nat)
  <2>1. g = [n \in Nat |-> g[n]]
    OBVIOUS
  <2> HIDE DEF g
  <2> QED
    BY <1>2, <2>1 DEF IsTenTo
<1>4. TenTo = CHOOSE f : IsTenTo(f, Nat)
  BY DEF TenTo, IsTenTo
<1>5. IsTenTo(TenTo, Nat)
  <2> HIDE DEF g
  <2> QED
    BY <1>3, <1>4
<1> QED
  BY <1>5 DEF IsTenTo

\* Powers of ten are positive numbers.
LEMMA TenToType == TenTo \in [Nat -> Nat \ {0}]
PROOF
<1> DEFINE T == {n \in Nat : TenTo[n] \notin Nat \ {0}}
<1>1. T = {}
  <2> SUFFICES ASSUME T # {} PROVE FALSE
    OBVIOUS
  <2>1. PICK m \in T : \A k \in T : m <= k
    <3>1. T \subseteq Nat /\ T # {}
      OBVIOUS
    <3> HIDE DEF T
    <3> QED
      BY <3>1, LeastNumber
  <2>2. CASE m = 0
    <3>1. TenTo[m] = 1
      BY <2>2, TenToStep
    <3> QED
      BY <3>1
  <2>3. CASE m # 0
    <3>1. m - 1 \in Nat /\ m - 1 \notin T
      BY <2>1, <2>3
    <3>2. TenTo[m] = 10 * TenTo[m - 1]
      BY <2>3, TenToStep
    <3> QED
      BY <3>1, <3>2
  <2> QED
    BY <2>2, <2>3
<1>2. \A n \in Nat : TenTo[n] \in Nat \ {0}
  BY <1>1
<1>3. TenTo = [n \in Nat |-> TenTo[n]]
  BY TenToStep
<1> HIDE DEF T
<1> QED
  BY <1>2, <1>3

-----------------------------------------------------------------------------
(* What a typed amount comes to.                                           *)

LEMMA Division ==
    ASSUME NEW m \in Nat, NEW d \in Nat \ {0}
    PROVE  m \div d \in Nat /\ m % d \in 0..(d - 1) /\ m = (m \div d) * d + (m % d)
PROOF
  OBVIOUS

\* Rounding half to even goes to a nearest multiple: by half a step at most.
LEMMA HalfEvenNearest ==
    ASSUME NEW m \in Nat, NEW d \in Nat \ {0}
    PROVE  HalfEven(m, d) \in Nat /\ 2 * (HalfEven(m, d) * d - m) \in -d..d
PROOF
<1> DEFINE q == m \div d
           r == m % d
           h == HalfEven(m, d)
<1>1. q \in Nat /\ r \in 0..(d - 1) /\ m = q * d + r
  BY Division
<1>2. \/ 2 * r <= d /\ h = q
      \/ 2 * r >= d /\ h = q + 1
  BY <1>1 DEF HalfEven
<1> HIDE DEF q, r, h
<1>3. q * d \in Nat /\ (q + 1) * d = q * d + d
  BY <1>1
<1>4. 2 * (h * d - m) \in -d..d
  BY <1>1, <1>2, <1>3
<1> QED
  BY <1>1, <1>2, <1>4 DEF h

\* Round is the typed number in hundredths: exact when it has no more places,
\* else within half a hundredth.
LEMMA RoundNearest ==
    ASSUME NEW x \in Decimals
    PROVE  LET places == -x.exponent - DECIMAL_PLACES
           IN  /\ Round(x) \in Nat
               /\ places <= 0 => Round(x) = x.digits * TenTo[-places]
               /\ places > 0 => 2 * (Round(x) * TenTo[places] - x.digits)
                                   \in -TenTo[places]..TenTo[places]
PROOF
<1> DEFINE places == -x.exponent - DECIMAL_PLACES
<1>1. x.digits \in Nat /\ x.exponent \in Int /\ places \in Int
      /\ x.exponent + DECIMAL_PLACES = -places
  BY DEF Decimals, DECIMAL_PLACES
<1>2. CASE places <= 0
  <2>1. Round(x) = x.digits * TenTo[-places]
    BY <1>1, <1>2 DEF Round
  <2>2. TenTo[-places] \in Nat
    BY <1>1, <1>2, TenToType
  <2> HIDE DEF places
  <2> QED
    BY <1>1, <1>2, <2>1, <2>2 DEF places
<1>3. CASE places > 0
  <2> DEFINE d == TenTo[places]
  <2>1. d \in Nat \ {0}
    BY <1>1, <1>3, TenToType
  <2>2. Round(x) = HalfEven(x.digits, d)
    BY <1>1, <1>3 DEF Round
  <2>3. Round(x) \in Nat /\ 2 * (Round(x) * d - x.digits) \in -d..d
    <3> HIDE DEF d, places
    <3> QED
      BY <1>1, <2>1, <2>2, HalfEvenNearest
  <2> HIDE DEF places
  <2> QED
    BY <1>1, <1>3, <2>3 DEF places
<1> QED
  BY <1>1, <1>2, <1>3

\* An amount comes to a number of hundredths or to one of the two errors.
LEMMA ParseType ==
    ASSUME NEW x \in Decimals
    PROVE  /\ parse_accrual(x) \in Int
           /\ parse_accrual(x) > 0 => parse_accrual(x) = Round(x)
PROOF
<1>1. Round(x) \in Nat
  BY RoundNearest
<1> QED
  BY <1>1 DEF parse_accrual, Unrepresentable, Invalid

-----------------------------------------------------------------------------
(* The inductive invariant: what user_data holds in each state.            *)

USE TransferDialogAssumption

States == {"none", "DESTINATION", "DESTINATION_DOCUMENT", "SOURCE_DOCUMENT",
           "ACCRUAL", "PHOTO", "CONFIRM"}

\* The account n is u's, or he lost it since it was listed.
Held(n, u) == <<u, n>> \in given \/ (n \in DOMAIN accounts /\ accounts[n].owner = u)

Fields(d) ==
    /\ DOMAIN d = DOMAIN Cleared
    /\ d.chosen_friend \in Choice(Friends)
    /\ d.destination_document \in Choice(Numbers)
    /\ d.source_document \in Choice(Numbers)
    /\ d.accrual \in Choice(1..MaxBalance)
    /\ d.transfer_photo \in Choice(Pictures)

MyDocuments(s) ==
    /\ DOMAIN s \subseteq Numbers
    /\ s \in [DOMAIN s -> 0..MaxBalance]
    /\ \A n \in DOMAIN s : Held(n, Me)

FriendsDocuments(f, ds) ==
    /\ f \in Friends
    /\ ds \subseteq Numbers
    /\ \A n \in ds : Held(n, f)

Ready(st, d) ==
    /\ Fields(d)
    /\ st = "none" => d = Cleared
    /\ st # "none" => MyDocuments(d.source_documents)
    /\ st \notin {"none", "DESTINATION"} =>
          FriendsDocuments(d.chosen_friend, d.destination_documents)
    /\ st \in {"SOURCE_DOCUMENT", "ACCRUAL", "PHOTO", "CONFIRM"} =>
          d.destination_document \in d.destination_documents
    /\ st \in {"ACCRUAL", "PHOTO", "CONFIRM"} => d.source_document \in DOMAIN d.source_documents
    /\ st \in {"PHOTO", "CONFIRM"} => d.accrual \in 1..MaxBalance

\* The picture in user_data is the one sent last; there is one before CONFIRM,
\* or after a /skip, only where a handler raised.
PhotoKept ==
    state # "none" =>
        /\ data.transfer_photo = picture
        /\ picture # None /\ (state = "CONFIRM" => skipped) => dialog \in raised

Payments == [dialog : 1..MaxDialogs, source : Numbers, destination : Numbers,
             photo : Choice(Pictures), accrual : 1..MaxBalance]

\* After its payment a conversation goes on only if a handler raised.
EndsPaid ==
    \A i \in DOMAIN paid :
        /\ paid[i].dialog <= dialog
        /\ paid[i].dialog = dialog => state = "none" \/ dialog \in raised

Inv ==
    /\ TypeOK
    /\ paid \in Seq(Payments)
    /\ state # "none" => dialog >= 1
    /\ Ready(state, data)
    /\ state = "CONFIRM" => shown = DetailsOf(data)
    /\ PhotoKept
    /\ EndsPaid
    /\ PaysOnceUnlessRaised

-----------------------------------------------------------------------------
(* Lemmas.                                                                 *)

LEMMA FieldNames ==
    /\ DOMAIN Cleared = {"source_documents", "chosen_friend", "destination_documents",
                         "destination_document", "source_document", "accrual", "transfer_photo"}
    /\ Fields(Cleared)
PROOF
  BY DEF Cleared, Fields, Choice

\* Whatever is ready stays so while who had a document has it, or is marked.
LEMMA ReadyKept ==
    ASSUME NEW st, NEW d, Ready(st, d),
           \A n \in Numbers, u \in Users : Held(n, u) => Held(n, u)'
    PROVE  Ready(st, d)'
PROOF
<1>1. MyDocuments(d.source_documents) => MyDocuments(d.source_documents)'
  BY DEF MyDocuments, Users
<1>2. FriendsDocuments(d.chosen_friend, d.destination_documents)
         => FriendsDocuments(d.chosen_friend, d.destination_documents)'
  BY DEF FriendsDocuments, Users
<1>3. Fields(d)'
  BY DEF Ready, Fields
<1> QED
  BY <1>1, <1>2, <1>3 DEF Ready

\* The picture in new goes with the state st that follows.
PhotoStep(st, new) ==
    st # "none" =>
        /\ new.transfer_photo = picture'
        /\ picture' # None /\ (st = "CONFIRM" => skipped') => dialog \in raised'

\* A handler that answers without a payment: it returns the state st, or it
\* raises in it; what it leaves is ready, whatever it has listed again.
LEMMA Answer ==
    ASSUME Inv, NEW st \in States, NEW new, Ready(st, new)', state # "none",
           Return(st, new) \/ (st = state /\ Raise(new)),
           UNCHANGED <<accounts, paid, dialog>>, given' \subseteq given,
           text' \in Choice(Texts), picture' \in Choice(Pictures), skipped' \in BOOLEAN,
           state' = "CONFIRM" => shown' = DetailsOf(new),
           PhotoStep(st, new)
    PROVE  Inv'
PROOF
<1>1. /\ state' = st /\ data' = new /\ UNCHANGED changes
      /\ raised' = raised \/ raised' = raised \cup {dialog}
  BY DEF Return, Raise
<1>2. dialog \in 1..MaxDialogs
  BY DEF Inv, TypeOK
<1>3. raised \subseteq raised' /\ raised' \subseteq 1..dialog'
  BY <1>1, <1>2 DEF Inv, TypeOK
<1>4. Ready(state, data)'
  BY <1>1 DEF Ready, Fields
<1>5. TypeOK'
  BY <1>1, <1>3, <1>4 DEF Inv, TypeOK, Ready, Fields, States
<1>6. PhotoKept'
  BY <1>1 DEF PhotoKept, PhotoStep
<1>7. EndsPaid'
  BY <1>1, <1>3 DEF Inv, EndsPaid
<1>8. PaysOnceUnlessRaised'
  BY <1>3 DEF Inv, PaysOnceUnlessRaised, SameDialog
<1> QED
  BY <1>1, <1>4, <1>5, <1>6, <1>7, <1>8 DEF Inv, DetailsOf

\* ... and one that lists nobody's documents again.
LEMMA Talk ==
    ASSUME Inv, NEW st \in States, NEW new, Ready(st, new), state # "none",
           Return(st, new) \/ (st = state /\ Raise(new)),
           UNCHANGED <<accounts, paid, dialog, given>>,
           text' \in Choice(Texts), picture' \in Choice(Pictures), skipped' \in BOOLEAN,
           state' = "CONFIRM" => shown' = DetailsOf(new),
           PhotoStep(st, new)
    PROVE  Inv'
PROOF
<1>1. Ready(st, new)'
  BY ReadyKept DEF Held
<1> QED
  BY <1>1, Answer

-----------------------------------------------------------------------------
(* The steps.                                                              *)

LEMMA InvInit == Init => Inv
PROOF
<1> SUFFICES ASSUME Init PROVE Inv
  OBVIOUS
<1>1. paid \in Seq(Payments) /\ Len(paid) = 0 /\ DOMAIN paid = {}
  BY DEF Init
<1>2. Ready(state, data)
  BY FieldNames DEF Init, Ready
<1>3. TypeOK
  <2>1. given \subseteq Users \X Numbers /\ skipped \in BOOLEAN
    BY DEF Init
  <2> QED
    BY <1>1, <1>2, <2>1 DEF Init, TypeOK, Ready, Fields, Choice
<1> QED
  BY <1>1, <1>2, <1>3 DEF Init, Inv, PhotoKept, EndsPaid, PaysOnceUnlessRaised

LEMMA InvStart == ASSUME Inv, handle_start PROVE Inv'
PROOF
<1> DEFINE docs == Documents(Me)
<1>1. /\ state = "none" /\ dialog < MaxDialogs /\ dialog' = dialog + 1
      /\ state' = "DESTINATION" /\ data' = [data EXCEPT !.source_documents = docs]
      /\ shown' = None /\ picture' = None /\ skipped' = FALSE /\ text' = None /\ given' = {}
      /\ UNCHANGED <<raised, changes, accounts, paid>>
  BY DEF handle_start, Return
<1>2. data = Cleared
  BY <1>1 DEF Inv, Ready
<1>3. /\ DOMAIN docs \subseteq Numbers /\ docs \in [DOMAIN docs -> 0..MaxBalance]
      /\ \A n \in DOMAIN docs : n \in DOMAIN accounts /\ accounts[n].owner = Me
  BY DEF Documents, AccountsOf, Inv, TypeOK
<1> HIDE DEF docs
<1>4. data'.source_documents = docs
  BY <1>1, <1>2, FieldNames
<1>5. MyDocuments(data.source_documents)'
  BY <1>1, <1>3, <1>4 DEF MyDocuments, Held
<1>6. Fields(data)' /\ data'.transfer_photo = None
  BY <1>1, <1>2, FieldNames DEF Fields, Cleared
<1>7. Ready(state, data)'
  BY <1>1, <1>5, <1>6 DEF Ready
<1>8. dialog \in 0..MaxDialogs /\ raised \subseteq 1..dialog
  BY DEF Inv, TypeOK
<1>9. TypeOK'
  <2>1. given' \subseteq Users \X Numbers /\ skipped' \in BOOLEAN
    BY <1>1
  <2> QED
    BY <1>1, <1>6, <1>8, <2>1 DEF Inv, TypeOK, Fields, Choice
<1>10. EndsPaid'
  <2>1. ASSUME NEW i \in DOMAIN paid PROVE paid[i].dialog \in Nat /\ paid[i].dialog <= dialog
    <3>1. paid[i] \in Payments
      BY DEF Inv
    <3> QED
      BY <3>1 DEF Inv, EndsPaid, Payments
  <2> QED
    BY <1>1, <1>8, <2>1 DEF EndsPaid
<1>11. PaysOnceUnlessRaised'
  BY <1>1 DEF Inv, PaysOnceUnlessRaised, SameDialog
<1> QED
  BY <1>1, <1>6, <1>7, <1>8, <1>9, <1>10, <1>11 DEF Inv, PhotoKept

\* Before CONFIRM a handler that leaves the picture alone keeps PhotoKept.
LEMMA SamePhoto ==
    ASSUME Inv, state \notin {"none", "CONFIRM"}, UNCHANGED <<picture, skipped, dialog>>,
           NEW st, NEW new, new.transfer_photo = data.transfer_photo,
           raised \subseteq raised'
    PROVE  PhotoStep(st, new)
PROOF
  BY DEF Inv, PhotoKept, PhotoStep

LEMMA InvDestination == ASSUME Inv, handle_getting_destination PROVE Inv'
PROOF
<1>1. PICK f \in Friends :
        LET chosen == [data EXCEPT !.chosen_friend = f]
        IN  \/ (Return(state, chosen) \/ Raise(chosen)) /\ UNCHANGED given
            \/ /\ ReturnOrRaise("DESTINATION_DOCUMENT",
                    [chosen EXCEPT !.destination_documents = AccountsOf(f)])
               /\ given' = given \ ({f} \X Numbers)
  BY DEF handle_getting_destination
<1>2. state = "DESTINATION" /\ Quiet
  BY DEF handle_getting_destination
<1> PICK chosen : chosen = [data EXCEPT !.chosen_friend = f]
  OBVIOUS
<1> PICK listed : listed = [chosen EXCEPT !.destination_documents = AccountsOf(f)]
  OBVIOUS
<1>3. Ready("DESTINATION", data) /\ Fields(data)
  BY <1>2 DEF Inv, Ready
<1>4. /\ Fields(chosen) /\ chosen.chosen_friend = f
      /\ chosen.source_documents = data.source_documents
      /\ chosen.transfer_photo = data.transfer_photo
  BY <1>3, FieldNames DEF Fields, Choice
<1>5. /\ Fields(listed) /\ listed.chosen_friend = f
      /\ listed.source_documents = data.source_documents
      /\ listed.destination_documents = AccountsOf(f)
      /\ listed.transfer_photo = data.transfer_photo
  BY <1>4, FieldNames DEF Fields
<1>6. Ready("DESTINATION", chosen)
  BY <1>3, <1>4 DEF Ready
<1>7. \/ (Return(state, chosen) \/ Raise(chosen)) /\ UNCHANGED given
      \/ /\ Return("DESTINATION_DOCUMENT", listed) \/ Raise(listed)
         /\ given' = given \ ({f} \X Numbers)
  BY <1>1 DEF ReturnOrRaise
<1>8. /\ UNCHANGED <<accounts, dialog, shown, picture, skipped, text, paid>>
      /\ text' \in Choice(Texts) /\ picture' \in Choice(Pictures) /\ skipped' \in BOOLEAN
  BY <1>2 DEF Quiet, Inv, TypeOK
<1>9. raised \subseteq raised' /\ state' # "CONFIRM"
  BY <1>2, <1>7 DEF Return, Raise
<1>10. \A st : PhotoStep(st, chosen) /\ PhotoStep(st, listed)
  BY <1>2, <1>4, <1>5, <1>8, <1>9, SamePhoto
<1>11. CASE (Return(state, chosen) \/ Raise(chosen)) /\ UNCHANGED given
  BY <1>2, <1>6, <1>8, <1>9, <1>10, <1>11, Talk DEF States
<1>12. CASE /\ Return("DESTINATION_DOCUMENT", listed) \/ Raise(listed)
            /\ given' = given \ ({f} \X Numbers)
  <2> PICK docs, theirs : docs = data.source_documents /\ theirs = AccountsOf(f)
    OBVIOUS
  <2>1. f # Me /\ given' \subseteq given
    BY <1>12
  <2>2. MyDocuments(docs)'
    <3>1. MyDocuments(docs)
      BY <1>3 DEF Ready
    <3>2. \A n \in DOMAIN docs : Held(n, Me)'
      BY <1>8, <1>12, <2>1, <3>1 DEF MyDocuments, Held
    <3> QED
      BY <3>1, <3>2 DEF MyDocuments
  <2>3. FriendsDocuments(f, theirs)'
    BY <1>8 DEF FriendsDocuments, AccountsOf, Held, Inv, TypeOK
  <2>4. Ready("DESTINATION", listed)' /\ Ready("DESTINATION_DOCUMENT", listed)'
    BY <1>5, <2>2, <2>3 DEF Ready, Fields
  <2> QED
    BY <1>2, <1>8, <1>9, <1>10, <1>12, <2>1, <2>4, Answer DEF States
<1> QED
  BY <1>7, <1>11, <1>12

LEMMA InvDestinationDocument == ASSUME Inv, handle_getting_destination_document PROVE Inv'
PROOF
<1>1. PICK n \in data.destination_documents,
           fresh \in SUBSET (DOMAIN data.source_documents \cap DOMAIN accounts) :
         ReturnOrRaise("SOURCE_DOCUMENT",
            [data EXCEPT !.destination_document = n, !.source_documents = Listed(fresh)])
  BY DEF handle_getting_destination_document
<1>2. state = "DESTINATION_DOCUMENT" /\ Quiet /\ UNCHANGED given
  BY DEF handle_getting_destination_document
<1> PICK listed : listed = Listed(fresh)
  OBVIOUS
<1> PICK new : new = [data EXCEPT !.destination_document = n, !.source_documents = listed]
  OBVIOUS
<1>3. Ready("DESTINATION_DOCUMENT", data) /\ Fields(data)
  BY <1>2 DEF Inv, Ready
<1>4. MyDocuments(listed)
  <2>1. /\ DOMAIN listed = DOMAIN data.source_documents
        /\ MyDocuments(data.source_documents)
    BY <1>3 DEF Listed, Ready
  <2>2. listed \in [DOMAIN listed -> 0..MaxBalance]
    BY <2>1 DEF Listed, MyDocuments, Inv, TypeOK
  <2> QED
    BY <2>1, <2>2 DEF MyDocuments
<1>5. /\ DOMAIN new = DOMAIN Cleared /\ new.destination_document = n
      /\ new.source_documents = listed
      /\ new.chosen_friend = data.chosen_friend
      /\ new.destination_documents = data.destination_documents
      /\ new.source_document = data.source_document
      /\ new.accrual = data.accrual /\ new.transfer_photo = data.transfer_photo
  BY <1>3, FieldNames DEF Fields
<1>6. n \in Choice(Numbers)
  BY <1>3 DEF Ready, FriendsDocuments, Choice
<1>7. Fields(new)
  BY <1>3, <1>5, <1>6 DEF Fields
<1>8. Ready("DESTINATION_DOCUMENT", new) /\ Ready("SOURCE_DOCUMENT", new)
  BY <1>3, <1>4, <1>5, <1>7 DEF Ready
<1>9. Return("SOURCE_DOCUMENT", new) \/ Raise(new)
  BY <1>1 DEF ReturnOrRaise
<1>10. /\ UNCHANGED <<accounts, dialog, shown, picture, skipped, text, paid, given>>
       /\ text' \in Choice(Texts) /\ picture' \in Choice(Pictures) /\ skipped' \in BOOLEAN
  BY <1>2 DEF Quiet, Inv, TypeOK
<1>11. raised \subseteq raised' /\ state' # "CONFIRM"
  BY <1>2, <1>9 DEF Return, Raise
<1>12. \A st : PhotoStep(st, new)
  BY <1>2, <1>5, <1>10, <1>11, SamePhoto
<1> QED
  BY <1>2, <1>8, <1>9, <1>10, <1>11, <1>12, Talk DEF States

LEMMA InvSourceDocument == ASSUME Inv, handle_getting_source_document PROVE Inv'
PROOF
<1>1. PICK n \in DOMAIN data.source_documents :
         ReturnOrRaise("ACCRUAL", [data EXCEPT !.source_document = n])
  BY DEF handle_getting_source_document
<1>2. state = "SOURCE_DOCUMENT" /\ Quiet /\ UNCHANGED given
  BY DEF handle_getting_source_document
<1> PICK new : new = [data EXCEPT !.source_document = n]
  OBVIOUS
<1>3. Ready("SOURCE_DOCUMENT", data) /\ Fields(data)
  BY <1>2 DEF Inv, Ready
<1>4. /\ DOMAIN new = DOMAIN Cleared /\ new.source_document = n
      /\ new.source_documents = data.source_documents
      /\ new.chosen_friend = data.chosen_friend
      /\ new.destination_documents = data.destination_documents
      /\ new.destination_document = data.destination_document
      /\ new.accrual = data.accrual /\ new.transfer_photo = data.transfer_photo
  BY <1>3, FieldNames DEF Fields
<1>5. n \in Choice(Numbers)
  BY <1>3 DEF Ready, MyDocuments, Choice
<1>6. Fields(new)
  BY <1>3, <1>4, <1>5 DEF Fields
<1>7. Ready("SOURCE_DOCUMENT", new) /\ Ready("ACCRUAL", new)
  BY <1>3, <1>4, <1>6 DEF Ready
<1>8. Return("ACCRUAL", new) \/ Raise(new)
  BY <1>1 DEF ReturnOrRaise
<1>9. /\ UNCHANGED <<accounts, dialog, shown, picture, skipped, text, paid, given>>
      /\ text' \in Choice(Texts) /\ picture' \in Choice(Pictures) /\ skipped' \in BOOLEAN
  BY <1>2 DEF Quiet, Inv, TypeOK
<1>10. raised \subseteq raised' /\ state' # "CONFIRM"
  BY <1>2, <1>8 DEF Return, Raise
<1>11. \A st : PhotoStep(st, new)
  BY <1>2, <1>4, <1>9, <1>10, SamePhoto
<1> QED
  BY <1>2, <1>7, <1>8, <1>9, <1>10, <1>11, Talk DEF States

LEMMA InvAccrual == ASSUME Inv, handle_getting_accrual PROVE Inv'
PROOF
<1>1. PICK t \in Texts :
        \/ Raise(data) /\ UNCHANGED text
        \/ /\ parse_accrual(t) > 0 /\ CanExtract(parse_accrual(t))
           /\ ReturnOrRaise("PHOTO", [data EXCEPT !.accrual = parse_accrual(t)])
           /\ text' = t
  BY DEF handle_getting_accrual
<1>2. state = "ACCRUAL" /\ UNCHANGED <<accounts, dialog, shown, picture, skipped, paid, given>>
  BY DEF handle_getting_accrual
<1>3. Ready("ACCRUAL", data) /\ Fields(data)
  BY <1>2 DEF Inv, Ready
<1>4. text' \in Choice(Texts) /\ picture' \in Choice(Pictures) /\ skipped' \in BOOLEAN
  BY <1>1, <1>2 DEF Inv, TypeOK, Choice
<1>5. CASE Raise(data)
  <2> PICK new : new = data
    OBVIOUS
  <2>1. raised \subseteq raised' /\ state' # "CONFIRM"
    BY <1>2, <1>5 DEF Raise
  <2>2. \A st : PhotoStep(st, new)
    BY <1>2, <2>1, SamePhoto
  <2>3. Ready("ACCRUAL", new) /\ Raise(new)
    BY <1>3, <1>5 DEF Raise
  <2> QED
    BY <1>2, <1>4, <2>1, <2>2, <2>3, Talk DEF States
<1>6. CASE /\ parse_accrual(t) > 0 /\ CanExtract(parse_accrual(t))
           /\ ReturnOrRaise("PHOTO", [data EXCEPT !.accrual = parse_accrual(t)])
  <2> PICK a : a = parse_accrual(t)
    OBVIOUS
  <2> PICK new : new = [data EXCEPT !.accrual = a]
    OBVIOUS
  <2>1. a \in 1..MaxBalance
    <3>1. a \in Int /\ a > 0
      BY <1>6, ParseType
    <3>2. data.source_documents[data.source_document] \in 0..MaxBalance
      BY <1>3 DEF Ready, MyDocuments
    <3> QED
      BY <1>6, <3>1, <3>2 DEF CanExtract
  <2>2. /\ DOMAIN new = DOMAIN Cleared /\ new.accrual = a
        /\ new.source_documents = data.source_documents
        /\ new.chosen_friend = data.chosen_friend
        /\ new.destination_documents = data.destination_documents
        /\ new.destination_document = data.destination_document
        /\ new.source_document = data.source_document
        /\ new.transfer_photo = data.transfer_photo
    BY <1>3, FieldNames DEF Fields
  <2>3. Fields(new)
    BY <1>3, <2>1, <2>2 DEF Fields, Choice
  <2>4. Ready("ACCRUAL", new) /\ Ready("PHOTO", new)
    BY <1>3, <2>1, <2>2, <2>3 DEF Ready
  <2>5. Return("PHOTO", new) \/ Raise(new)
    BY <1>6 DEF ReturnOrRaise
  <2>6. raised \subseteq raised' /\ state' # "CONFIRM"
    BY <1>2, <2>5 DEF Return, Raise
  <2>7. \A st : PhotoStep(st, new)
    BY <1>2, <2>2, <2>6, SamePhoto
  <2> QED
    BY <1>2, <1>4, <2>4, <2>5, <2>6, <2>7, Talk DEF States
<1> QED
  BY <1>1, <1>5, <1>6

\* The details are shown with the data new: with a picture, or after /skip.
LEMMA InvDetails ==
    ASSUME Inv, state = "PHOTO", UNCHANGED <<accounts, dialog, text, paid, given>>,
           NEW new, SendDetails(new), NEW p \in Choice(Pictures), picture' = p,
           \/ new = [data EXCEPT !.transfer_photo = p] /\ skipped' = FALSE
           \/ new = data /\ p = picture /\ skipped' = TRUE
    PROVE  Inv'
PROOF
<1>1. Ready("PHOTO", data) /\ Fields(data)
  BY DEF Inv, Ready
<1>2. /\ DOMAIN new = DOMAIN Cleared /\ new.accrual = data.accrual
      /\ new.source_documents = data.source_documents
      /\ new.chosen_friend = data.chosen_friend
      /\ new.destination_documents = data.destination_documents
      /\ new.destination_document = data.destination_document
      /\ new.source_document = data.source_document
      /\ new.transfer_photo = p
  BY <1>1, FieldNames DEF Fields, Inv, PhotoKept
<1>3. Fields(new)
  BY <1>1, <1>2 DEF Fields
<1>4. Ready("PHOTO", new) /\ Ready("CONFIRM", new)
  BY <1>1, <1>2, <1>3 DEF Ready
<1>5. text' \in Choice(Texts)
  BY DEF Inv, TypeOK
<1>6. skipped' = FALSE \/ (p # None => dialog \in raised)
  BY DEF Inv, PhotoKept
<1>7. CASE Return("CONFIRM", new) /\ shown' = DetailsOf(new)
  <2>1. PhotoStep("CONFIRM", new)
    BY <1>2, <1>6, <1>7 DEF PhotoStep, Return
  <2> QED
    BY <1>4, <1>5, <1>7, <2>1, Talk DEF States, Return
<1>8. CASE Raise(new)
  <2>1. state' = "PHOTO" /\ PhotoStep("PHOTO", new)
    BY <1>2, <1>8 DEF Raise, PhotoStep
  <2> QED
    BY <1>4, <1>5, <1>8, <2>1, Talk DEF States
<1> QED
  BY <1>7, <1>8 DEF SendDetails

LEMMA InvPhoto ==
    ASSUME Inv, handle_getting_photo \/ handle_skip_getting_photo
    PROVE  Inv'
PROOF
<1>1. CASE handle_getting_photo
  <2>1. PICK p \in Pictures : SendDetails([data EXCEPT !.transfer_photo = p]) /\ picture' = p
    BY <1>1 DEF handle_getting_photo
  <2> PICK new : new = [data EXCEPT !.transfer_photo = p]
    OBVIOUS
  <2>2. SendDetails(new)
    BY <2>1 DEF SendDetails, DetailsOf, Return, Raise
  <2>3. state = "PHOTO" /\ UNCHANGED <<accounts, dialog, text, paid, given>>
        /\ skipped' = FALSE /\ p \in Choice(Pictures)
    BY <1>1 DEF handle_getting_photo, Choice
  <2> QED
    BY <2>1, <2>2, <2>3, InvDetails
<1>2. CASE handle_skip_getting_photo
  <2> PICK new : new = data
    OBVIOUS
  <2>1. SendDetails(new)
    BY <1>2 DEF handle_skip_getting_photo, SkipDetails, SendDetails, DetailsOf, Return, Raise
  <2>2. state = "PHOTO" /\ UNCHANGED <<accounts, dialog, picture, text, paid, given>>
        /\ skipped' = TRUE /\ picture \in Choice(Pictures)
    BY <1>2 DEF handle_skip_getting_photo, Inv, TypeOK
  <2> PICK p \in Choice(Pictures) : p = picture
    BY <2>2
  <2> QED
    BY <2>1, <2>2, InvDetails
<1> QED
  BY <1>1, <1>2

LEMMA EndIsReady == Ready("none", Cleared)
PROOF
  BY FieldNames DEF Ready

\* /confirm: what a payment needs is there.
LEMMA PaymentType ==
    ASSUME Inv, state = "CONFIRM"
    PROVE  /\ Payment \in Payments
           /\ Payment.accrual \in 1..MaxBalance
PROOF
<1>1. Ready("CONFIRM", data) /\ Fields(data) /\ dialog \in 1..MaxDialogs
  BY DEF Inv, Ready, TypeOK
<1>2. /\ data.source_document \in Numbers /\ data.destination_document \in Numbers
      /\ data.accrual \in 1..MaxBalance /\ data.transfer_photo \in Choice(Pictures)
  BY <1>1 DEF Ready, Fields, MyDocuments, FriendsDocuments
<1> QED
  BY <1>1, <1>2 DEF Payment, Payments

LEMMA MovedType ==
    ASSUME Inv, NEW s, NEW d, NEW a \in 1..MaxBalance, CanPay(s, d, a)
    PROVE  LET new == Moved(s, d, a)
           IN  /\ DOMAIN new = DOMAIN accounts
               /\ new \in [DOMAIN accounts -> [owner : Users, balance : 0..MaxBalance]]
               /\ \A n \in DOMAIN accounts : new[n].owner = accounts[n].owner
PROOF
<1> DEFINE new == Moved(s, d, a)
           moved(n) == accounts[n].balance + (IF n = d THEN a ELSE 0) - (IF n = s THEN a ELSE 0)
<1>1. ASSUME NEW n \in DOMAIN accounts
      PROVE  /\ accounts[n] \in [owner : Users, balance : 0..MaxBalance]
             /\ moved(n) \in 0..MaxBalance
  <2>1. accounts[n] \in [owner : Users, balance : 0..MaxBalance]
    BY DEF Inv, TypeOK
  <2> QED
    BY <2>1 DEF CanPay, Exists
<1>2. \A n \in DOMAIN accounts : new[n] = [accounts[n] EXCEPT !.balance = moved(n)]
  BY DEF Moved
<1> HIDE DEF moved
<1>3. \A n \in DOMAIN accounts : /\ new[n] \in [owner : Users, balance : 0..MaxBalance]
                                 /\ new[n].owner = accounts[n].owner
  BY <1>1, <1>2
<1>4. DOMAIN new = DOMAIN accounts /\ new = [n \in DOMAIN accounts |-> new[n]]
  BY DEF Moved
<1> HIDE DEF new
<1>5. new \in [DOMAIN accounts -> [owner : Users, balance : 0..MaxBalance]]
  BY <1>3, <1>4
<1> QED
  BY <1>3, <1>4, <1>5 DEF new

LEMMA InvPaid ==
    ASSUME Inv, state = "CONFIRM", Paid,
           UNCHANGED <<dialog, shown, picture, skipped, text, given>>
    PROVE  Inv'
PROOF
<1>1. /\ CanPay(Payment.source, Payment.destination, Payment.accrual)
      /\ Len(paid) < MaxPaid
      /\ accounts' = Moved(Payment.source, Payment.destination, Payment.accrual)
      /\ paid' = Append(paid, Payment)
  BY DEF Paid, Pay
<1>2. /\ UNCHANGED changes
      /\ \/ state' = "none" /\ data' = Cleared /\ raised' = raised
         \/ state' = "CONFIRM" /\ data' = data /\ raised' = raised \cup {dialog}
  BY DEF Paid, End, Return, Raise
<1>3. Payment \in Payments /\ Payment.accrual \in 1..MaxBalance /\ Payment.dialog = dialog
  BY PaymentType DEF Payment
<1>4. /\ DOMAIN accounts' = DOMAIN accounts
      /\ accounts' \in [DOMAIN accounts -> [owner : Users, balance : 0..MaxBalance]]
      /\ \A n \in DOMAIN accounts : accounts'[n].owner = accounts[n].owner
  BY <1>1, <1>3, MovedType
<1> PICK p : p = Payment
  OBVIOUS
<1>5. /\ paid' \in Seq(Payments) /\ Len(paid') <= MaxPaid
      /\ DOMAIN paid' = DOMAIN paid \cup {Len(paid) + 1} /\ Len(paid) + 1 \notin DOMAIN paid
      /\ \A i \in DOMAIN paid : paid'[i] = paid[i]
      /\ paid'[Len(paid) + 1] = p /\ p.dialog = dialog
  BY <1>1, <1>3 DEF Inv, TypeOK
<1>6. \A n \in Numbers, u \in Users : Held(n, u) => Held(n, u)'
  BY <1>2, <1>4 DEF Held
<1>7. Ready(state, data)'
  <2> PICK st, d : st = state' /\ d = data'
    OBVIOUS
  <2>1. Ready(st, d)
    BY <1>2, EndIsReady DEF Inv
  <2>2. Ready(st, d)'
    BY <1>6, <2>1, ReadyKept
  <2> QED
    BY <2>2 DEF Ready, Fields
<1>8. dialog \in 1..MaxDialogs /\ raised \subseteq raised' /\ raised' \subseteq 1..dialog
  BY <1>2 DEF Inv, TypeOK
<1>9. TypeOK'
  BY <1>2, <1>4, <1>5, <1>7, <1>8 DEF Inv, TypeOK, Ready, Fields
<1>10. EndsPaid'
  BY <1>2, <1>5, <1>8 DEF Inv, EndsPaid
<1>11. PaysOnceUnlessRaised'
  <2>1. \A i \in DOMAIN paid : paid[i].dialog = dialog => dialog \in raised
    BY DEF Inv, EndsPaid
  <2> QED
    BY <1>5, <1>8, <2>1 DEF Inv, PaysOnceUnlessRaised, SameDialog
<1>12. PhotoKept'
  BY <1>2 DEF Inv, PhotoKept
<1>13. state' = "CONFIRM" => shown' = DetailsOf(data)'
  BY <1>2 DEF Inv, DetailsOf
<1> QED
  BY <1>5, <1>7, <1>8, <1>9, <1>10, <1>11, <1>12, <1>13 DEF Inv

LEMMA InvEnd ==
    ASSUME Inv, state # "none", Return("none", Cleared),
           UNCHANGED <<accounts, dialog, shown, picture, skipped, text, paid, given>>
    PROVE  Inv'
PROOF
<1>1. text' \in Choice(Texts) /\ picture' \in Choice(Pictures) /\ skipped' \in BOOLEAN
  BY DEF Inv, TypeOK
<1>2. state' # "CONFIRM"
  BY DEF Return
<1> PICK new : new = Cleared
  OBVIOUS
<1>3. Return("none", new) /\ Ready("none", new) /\ PhotoStep("none", new)
  BY EndIsReady DEF Return, PhotoStep
<1> QED
  BY <1>1, <1>2, <1>3, Talk DEF States

\* What administrators do leaves each document with its owner, or marks it.
LEMMA InvTables ==
    ASSUME Inv, NEW new, Tables(new), DOMAIN new \subseteq Numbers,
           new \in [DOMAIN new -> [owner : Users, balance : 0..MaxBalance]]
    PROVE  Inv'
PROOF
<1>1. /\ changes < MaxChanges /\ changes' = changes + 1 /\ accounts' = new
      /\ given' = given \cup Lost(new)
      /\ UNCHANGED <<state, data, dialog, shown, picture, skipped, text, paid, raised>>
  BY DEF Tables
<1>2. \A n \in Numbers, u \in Users : Held(n, u) => Held(n, u)'
  BY <1>1 DEF Held, Lost
<1>3. Ready(state, data)'
  <2> PICK st, d : st = state /\ d = data
    OBVIOUS
  <2>1. Ready(st, d)'
    BY <1>2, ReadyKept DEF Inv
  <2> QED
    BY <1>1, <2>1 DEF Ready, Fields
<1>4. changes' \in 0..MaxChanges /\ given' \subseteq Users \X Numbers
  BY <1>1 DEF Inv, TypeOK, Lost
<1>5. TypeOK'
  BY <1>1, <1>4 DEF Inv, TypeOK
<1> QED
  BY <1>1, <1>3, <1>5 DEF Inv, DetailsOf, PhotoKept, EndsPaid, PaysOnceUnlessRaised, SameDialog

LEMMA InvAdmin ==
    ASSUME Inv, NEW n \in Numbers,
           \/ \E u \in Users : Open(n, u) \/ Give(n, u)
           \/ \E b \in 0..MaxBalance : Save(n, b)
           \/ Close(n)
    PROVE  Inv'
PROOF
<1>1. /\ DOMAIN accounts \subseteq Numbers
      /\ accounts \in [DOMAIN accounts -> [owner : Users, balance : 0..MaxBalance]]
  BY DEF Inv, TypeOK
<1>2. ASSUME NEW u \in Users, Open(n, u) PROVE Inv'
  <2> PICK new : new = [m \in DOMAIN accounts \cup {n} |->
                          IF m = n THEN [owner |-> u, balance |-> 0] ELSE accounts[m]]
    OBVIOUS
  <2>1. Tables(new) /\ n \notin DOMAIN accounts
    BY <1>2 DEF Open, Tables, Exists
  <2>2. /\ DOMAIN new \subseteq Numbers
        /\ new \in [DOMAIN new -> [owner : Users, balance : 0..MaxBalance]]
    BY <1>1, <2>1
  <2> QED
    BY <1>1, <2>1, <2>2, InvTables
<1>3. ASSUME NEW u \in Users, Give(n, u) PROVE Inv'
  <2> PICK new : new = [accounts EXCEPT ![n].owner = u]
    OBVIOUS
  <2>1. Tables(new)
    BY <1>3 DEF Give, Tables
  <2>2. /\ DOMAIN new \subseteq Numbers
        /\ new \in [DOMAIN new -> [owner : Users, balance : 0..MaxBalance]]
    BY <1>1
  <2> QED
    BY <1>1, <2>1, <2>2, InvTables
<1>4. ASSUME NEW b \in 0..MaxBalance, Save(n, b) PROVE Inv'
  <2> PICK new : new = [accounts EXCEPT ![n].balance = b]
    OBVIOUS
  <2>1. Tables(new)
    BY <1>4 DEF Save, Tables
  <2>2. /\ DOMAIN new \subseteq Numbers
        /\ new \in [DOMAIN new -> [owner : Users, balance : 0..MaxBalance]]
    BY <1>1
  <2> QED
    BY <1>1, <2>1, <2>2, InvTables
<1>5. CASE Close(n)
  <2> PICK new : new = [m \in DOMAIN accounts \ {n} |-> accounts[m]]
    OBVIOUS
  <2>1. Tables(new)
    BY <1>5 DEF Close, Tables
  <2>2. /\ DOMAIN new \subseteq Numbers
        /\ new \in [DOMAIN new -> [owner : Users, balance : 0..MaxBalance]]
    BY <1>1
  <2> QED
    BY <1>1, <2>1, <2>2, InvTables
<1> QED
  BY <1>2, <1>3, <1>4, <1>5

LEMMA InvNext == Inv /\ [Next]_vars => Inv'
PROOF
<1> SUFFICES ASSUME Inv, [Next]_vars PROVE Inv'
  OBVIOUS
<1>1. CASE handle_transfer
  BY <1>1, InvPaid, InvEnd DEF handle_transfer, NotPaid, End
<1>2. CASE handle_cancel \/ Restart
  BY <1>2, InvEnd DEF handle_cancel, Restart, End, Quiet
<1>3. CASE UNCHANGED vars
  BY <1>3 DEF vars, Inv, TypeOK, Ready, Fields, MyDocuments, FriendsDocuments, Held, DetailsOf,
              PhotoKept, EndsPaid, PaysOnceUnlessRaised, SameDialog
<1> QED
  BY <1>1, <1>2, <1>3, InvStart, InvDestination, InvDestinationDocument, InvSourceDocument,
     InvAccrual, InvPhoto, InvAdmin DEF Next

LEMMA Invariance == Spec => []Inv
PROOF
<1> QED
  BY InvInit, InvNext, PTL DEF Spec

-----------------------------------------------------------------------------
(* The theorems.                                                           *)

\* The variables keep their types; in particular no amount in user_data is
\* more than a balance can be.
THEOREM TypeCorrect == Spec => []TypeOK
PROOF
<1>1. Inv => TypeOK
  BY DEF Inv
<1> QED
  BY Invariance, <1>1, PTL

\* A conversation in which no handler raises pays at most once.
THEOREM OnePayment == Spec => []PaysOnceUnlessRaised
PROOF
<1>1. Inv => PaysOnceUnlessRaised
  BY DEF Inv
<1> QED
  BY Invariance, <1>1, PTL

NeverRaised == raised = {}

\* Nobody pays twice in a conversation when no handler raises: the run
\* dialog_twice has no other cause.
THEOREM OnePaymentWithoutRaising ==
    ASSUME ~MayRaise
    PROVE  Spec => []PaysOnce
PROOF
<1>1. Init => NeverRaised
  BY DEF Init, NeverRaised
<1>2. NeverRaised /\ [Next]_vars => NeverRaised'
  <2> SUFFICES ASSUME [Next]_vars PROVE raised' = raised
    BY DEF NeverRaised
  <2>1. \A next, new : Return(next, new) => raised' = raised
    BY DEF Return
  <2>2. \A new : ~Raise(new)
    BY DEF Raise
  <2>3. \A new : Tables(new) => raised' = raised
    BY DEF Tables
  <2> QED
    BY <2>1, <2>2, <2>3
       DEF Next, handle_start, handle_getting_destination,
           handle_getting_destination_document, handle_getting_source_document,
           handle_getting_accrual, handle_getting_photo, handle_skip_getting_photo,
           SkipDetails, SendDetails, ReturnOrRaise, handle_transfer, Paid, NotPaid, End,
           handle_cancel, Restart, Open, Give, Save, Close, vars
<1>3. Inv /\ NeverRaised => PaysOnce
  BY DEF Inv, NeverRaised, PaysOnceUnlessRaised, PaysOnce
<1> QED
  BY Invariance, <1>1, <1>2, <1>3, PTL DEF Spec

\* The only step that pays is /confirm.
LEMMA PayStep ==
    ASSUME Inv, [Next]_vars, paid' # paid
    PROVE  /\ state = "CONFIRM" /\ NewPayment = Payment /\ Payment \in Payments
           /\ CanPay(Payment.source, Payment.destination, Payment.accrual)
           /\ UNCHANGED <<dialog, shown, picture, skipped, text, given>>
PROOF
<1>1. handle_transfer
  <2>1. \A new : Tables(new) => paid' = paid
    BY DEF Tables
  <2>2. Quiet => paid' = paid
    BY DEF Quiet
  <2> QED
    BY <2>1, <2>2 DEF Next, handle_start, handle_getting_destination,
         handle_getting_destination_document, handle_getting_source_document,
         handle_getting_accrual, handle_getting_photo, handle_skip_getting_photo,
         handle_cancel, Restart, Open, Give, Save, Close, vars
<1>2. Pay /\ state = "CONFIRM" /\ UNCHANGED <<dialog, shown, picture, skipped, text, given>>
  BY <1>1 DEF handle_transfer, Paid, NotPaid
<1>3. Payment \in Payments
  BY <1>2, PaymentType
<1>4. NewPayment = Payment
  <2>1. paid \in Seq(Payments) /\ paid' = Append(paid, Payment)
    BY <1>2 DEF Pay, Inv
  <2> PICK p \in Payments : p = Payment
    BY <1>3
  <2>2. paid'[Len(paid')] = p
    BY <2>1
  <2> QED
    BY <2>2 DEF NewPayment
<1> QED
  BY <1>2, <1>3, <1>4 DEF Pay

\* Nothing is paid but what the user saw last and confirmed.
THEOREM WhatIsPaidWasShown == Spec => PaysAsConfirmed
PROOF
<1>1. ASSUME Inv, [Next]_vars, paid' # paid
      PROVE  DetailsOf([source_document |-> NewPayment.source,
                        destination_document |-> NewPayment.destination,
                        accrual |-> NewPayment.accrual]) = shown
  BY <1>1, PayStep DEF Inv, DetailsOf, Payment
<1> QED
  BY Invariance, <1>1, PTL DEF Spec, PaysAsConfirmed

\* The money is the user's and goes to the friend he chose, unless the owner
\* of one of the two accounts lost it after this conversation had listed it.
THEOREM MoneyGoesWhereChosen == Spec => MoneyGoesRight
PROOF
<1>1. ASSUME Inv, [Next]_vars, paid' # paid
      PROVE  /\ \/ <<Me, NewPayment.source>> \in given
                \/ accounts[NewPayment.source].owner = Me
             /\ \/ <<data.chosen_friend, NewPayment.destination>> \in given
                \/ accounts[NewPayment.destination].owner = data.chosen_friend
  BY <1>1, PayStep DEF Inv, Ready, MyDocuments, FriendsDocuments, Held, Payment
<1> QED
  BY Invariance, <1>1, PTL DEF Spec, MoneyGoesRight

\* The picture of a payment is the one sent last in this conversation; one
\* that was then skipped goes along only where a handler raised.
THEOREM PictureOfThisDialog == Spec => PhotoChosen
PROOF
<1>1. ASSUME Inv, [Next]_vars, paid' # paid
      PROVE  /\ NewPayment.photo = picture
             /\ skipped /\ picture # None => dialog \in raised
  BY <1>1, PayStep DEF Inv, PhotoKept, Payment
<1> QED
  BY Invariance, <1>1, PTL DEF Spec, PhotoChosen

\* Once an amount has been accepted, user_data has what it comes to.
Typed ==
    state \in {"PHOTO", "CONFIRM"} => text \in Texts /\ data.accrual = parse_accrual(text)

LEMMA TypedNext == Inv /\ Typed /\ [Next]_vars => Typed'
PROOF
<1> SUFFICES ASSUME Inv, Typed, [Next]_vars, state' \in {"PHOTO", "CONFIRM"}
             PROVE  text' \in Texts /\ data'.accrual = parse_accrual(text')
  BY DEF Typed
<1>a. DOMAIN data = DOMAIN Cleared
  BY DEF Inv, TypeOK
<1>1. CASE handle_getting_accrual
  <2>1. PICK t \in Texts :
          \/ Raise(data)
          \/ /\ ReturnOrRaise("PHOTO", [data EXCEPT !.accrual = parse_accrual(t)])
             /\ text' = t
    BY <1>1 DEF handle_getting_accrual
  <2>2. state = "ACCRUAL"
    BY <1>1 DEF handle_getting_accrual
  <2>3. text' = t /\ data' = [data EXCEPT !.accrual = parse_accrual(t)]
    BY <2>1, <2>2 DEF ReturnOrRaise, Return, Raise
  <2> QED
    BY <1>a, <2>3, FieldNames
<1>2. CASE handle_getting_photo \/ handle_skip_getting_photo
  <2>1. state = "PHOTO" /\ text' = text
    BY <1>2 DEF handle_getting_photo, handle_skip_getting_photo
  <2>2. data'.accrual = data.accrual
    BY <1>2, <1>a, FieldNames
       DEF handle_getting_photo, handle_skip_getting_photo, SkipDetails, SendDetails,
           Return, Raise
  <2> QED
    BY <2>1, <2>2 DEF Typed
<1>3. CASE handle_transfer
  <2>1. state = "CONFIRM" /\ text' = text /\ data' = data
    BY <1>3 DEF handle_transfer, Paid, NotPaid, End, Return, Raise
  <2> QED
    BY <2>1 DEF Typed
<1>4. CASE UNCHANGED <<state, data, text>>
  BY <1>4 DEF Typed
<1>5. ASSUME \/ handle_start \/ handle_getting_destination
             \/ handle_getting_destination_document \/ handle_getting_source_document
             \/ handle_cancel \/ Restart
      PROVE  FALSE
  BY <1>5 DEF handle_start, handle_getting_destination, handle_getting_destination_document,
       handle_getting_source_document, handle_cancel, Restart, End, ReturnOrRaise, Return, Raise
<1>6. ASSUME NEW new, Tables(new)
      PROVE  UNCHANGED <<state, data, text>>
  BY <1>6 DEF Tables
<1> QED
  BY <1>1, <1>2, <1>3, <1>4, <1>5, <1>6 DEF Next, Open, Give, Save, Close, vars

\* What is paid is what the user typed, in hundredths: to the hundredth, or
\* rounded by at most half of one, for any amount and any number of places.
THEOREM PaidAsTyped == Spec => PaysAsTyped
PROOF
<1> DEFINE Places == -text.exponent - DECIMAL_PLACES
           Right  == IF Places <= 0 THEN NewPayment.accrual = text.digits * TenTo[-Places]
                     ELSE 2 * (NewPayment.accrual * TenTo[Places] - text.digits)
                             \in -TenTo[Places]..TenTo[Places]
<1>1. Init => Typed
  BY DEF Init, Typed
<1>2. ASSUME Inv, Typed, [Next]_vars, paid' # paid
      PROVE  Right
  <2>1. state = "CONFIRM" /\ NewPayment = Payment /\ Payment \in Payments
    BY <1>2, PayStep
  <2>2. /\ text \in Texts /\ text \in Decimals
        /\ Payment.accrual = parse_accrual(text) /\ Payment.accrual \in 1..MaxBalance
    BY <1>2, <2>1 DEF Typed, Payment, Payments
  <2>3. NewPayment.accrual = Round(text)
    BY <2>1, <2>2, ParseType
  <2>4. text.exponent \in Int
    BY <2>2 DEF Decimals
  <2> QED
    BY <2>2, <2>3, <2>4, RoundNearest DEF DECIMAL_PLACES
<1>3. Inv /\ Typed /\ [Next]_vars => (paid' # paid => Right)
  BY <1>2
<1> QED
  BY Invariance, TypedNext, <1>1, <1>3, PTL DEF Spec, PaysAsTyped

-----------------------------------------------------------------------------
(* The conversation is the one of the table.  With the user's only chat    *)
(* with the bot and no other conversation, TransferDialog implements       *)
(* Dialogs, with the moves that Conversations lists for /transfer: what is *)
(* proved there of user_data is true of the data that is kept here.        *)

\* The keys of user_data; friend_variants are Friends, who do not change here.
PresentKeys ==
    IF state = "none" THEN {}
    ELSE {"in_conversation", "command", "source_documents", "friend_variants"}
         \cup {k \in DOMAIN Cleared : data[k] # None}

Talks == INSTANCE Dialogs WITH
            Chats     <- {"chat"},
            Names     <- {"transfer"},
            Moves     <- TransferMoves,
            active    <- [chat \in {"chat"} |-> [c \in {"transfer"} |-> state]],
            user_data <- [k \in PresentKeys |-> "transfer"]

\* Who sets keys adds them to those he finds.
LEMMA SetAdds ==
    ASSUME NEW P, NEW ks
    PROVE  Talks!Set([k \in P |-> "transfer"], "transfer", ks)
               = [k \in P \cup ks |-> "transfer"]
PROOF
  BY DEF Talks!Set

\* A step that answers as the move mv says.
LEMMA Answers ==
    ASSUME NEW mv \in TransferMoves, mv.conv = "transfer", mv.from = state,
           mv.reads \subseteq PresentKeys,
           \/ /\ mv.to # "END" /\ state' = mv.to
              /\ PresentKeys' = PresentKeys \cup mv.writes
           \/ mv.to = "END" /\ state' = "none"
    PROVE  [Talks!Next]_Talks!vars
PROOF
<1>1. Talks!Answer("chat", mv)
  <2>1. Talks!Present = PresentKeys
    BY DEF Talks!Present
  <2>2. CASE mv.to = "END"
    <3>1. state' = "none" /\ PresentKeys' = {}
      BY <2>2 DEF PresentKeys
    <3> QED
      BY <2>1, <2>2, <3>1 DEF Talks!Answer, Talks!Return, Talks!Nothing
  <2>3. CASE mv.to # "END"
    <3>1. state' = mv.to /\ PresentKeys' = PresentKeys \cup mv.writes
      BY <2>3
    <3>2. Talks!Set([k \in PresentKeys |-> "transfer"], "transfer", mv.writes)
              = [k \in PresentKeys' |-> "transfer"]
      BY <3>1, SetAdds
    <3> QED
      BY <2>1, <2>3, <3>1, <3>2 DEF Talks!Answer, Talks!Return
  <2> QED
    BY <2>2, <2>3
<1> QED
  BY <1>1 DEF Talks!Next

\* A step that raises after it has set some of the keys of the move mv.
LEMMA AnswersRaising ==
    ASSUME NEW mv \in TransferMoves, mv.conv = "transfer", mv.from = state,
           MayRaise, state' = state,
           NEW ks \in SUBSET mv.writes, PresentKeys' = PresentKeys \cup ks
    PROVE  [Talks!Next]_Talks!vars
PROOF
<1>1. Talks!Set([k \in PresentKeys |-> "transfer"], "transfer", ks)
          = [k \in PresentKeys' |-> "transfer"]
  BY SetAdds
<1>2. Talks!AnswerRaises("chat", mv)
  BY <1>1 DEF Talks!AnswerRaises
<1> QED
  BY <1>2 DEF Talks!Next

LEMMA TalksStart == ASSUME Inv, handle_start PROVE [Talks!Next]_Talks!vars
PROOF
<1> DEFINE mv == TransferMove("entry", "DESTINATION", {},
                              {"source_documents", "friend_variants"})
<1>1. mv \in TransferMoves
  BY DEF TransferMoves, ChoosingMoves
<1>2. /\ state = "none" /\ state' = "DESTINATION" /\ data = Cleared
      /\ data' = [data EXCEPT !.source_documents = Documents(Me)]
  BY DEF handle_start, Return, Inv, Ready
<1>3. /\ PresentKeys = {}
      /\ PresentKeys' = {"in_conversation", "command", "source_documents", "friend_variants"}
  BY <1>2 DEF PresentKeys, Cleared
<1>4. Talks!Set(Talks!Set([k \in PresentKeys |-> "transfer"], "transfer", Talks!Marks),
                "transfer", mv.writes) = [k \in PresentKeys' |-> "transfer"]
  <2>1. (PresentKeys \cup Talks!Marks) \cup mv.writes = PresentKeys'
    BY <1>3 DEF Talks!Marks, TransferMove, Move
  <2> QED
    BY <2>1, SetAdds
<1>5. /\ mv.from = "entry" /\ mv.to = "DESTINATION" /\ mv.conv = "transfer"
  BY DEF TransferMove, Move
<1>6. Talks!Start("chat", mv)
  <2> HIDE DEF mv
  <2> QED
    BY <1>2, <1>3, <1>4, <1>5
       DEF Talks!Start, Talks!Entry, Talks!Free, Talks!Present, Talks!Return,
           Talks!mark_conversation_start
<1> QED
  BY <1>1, <1>6 DEF Talks!Next

\* The keys after the field f has been set.
LEMMA SetField ==
    ASSUME NEW new, NEW f \in DOMAIN Cleared, NEW v, v # None,
           DOMAIN data = DOMAIN Cleared, state # "none", state' # "none",
           data' = [data EXCEPT ![f] = v]
    PROVE  PresentKeys' = PresentKeys \cup {f}
PROOF
  BY DEF PresentKeys

LEMMA TalksNext == Inv /\ [Next]_vars => [Talks!Next]_Talks!vars
PROOF
<1> SUFFICES ASSUME Inv, [Next]_vars PROVE [Talks!Next]_Talks!vars
  OBVIOUS
<1>a. DOMAIN data = DOMAIN Cleared
  BY DEF Inv, TypeOK
<1>b. None \notin Int /\ None \notin SUBSET Numbers
  OBVIOUS
<1>c. state # "none" =>
        {"source_documents", "friend_variants"} \subseteq PresentKeys
  BY DEF PresentKeys
<1>d. ASSUME NEW f \in DOMAIN Cleared, data[f] # None, state # "none"
      PROVE  f \in PresentKeys
  BY <1>d DEF PresentKeys
<1>e. ASSUME UNCHANGED <<state, data>>
      PROVE  [Talks!Next]_Talks!vars
  BY <1>e DEF PresentKeys, Talks!vars
<1>1. CASE handle_start
  BY <1>1, TalksStart
<1>2. CASE handle_getting_destination
  <2> DEFINE mv1 == TransferMove("DESTINATION", "DESTINATION", {"friend_variants"},
                                 {"chosen_friend"})
             mv2 == TransferMove("DESTINATION", "DESTINATION_DOCUMENT", {"friend_variants"},
                                 {"chosen_friend", "destination_documents"})
  <2>1. mv1 \in TransferMoves /\ mv2 \in TransferMoves
    BY DEF TransferMoves, FriendsDocumentsMoves
  <2>2. PICK f \in Friends :
          \/ Return(state, [data EXCEPT !.chosen_friend = f])
          \/ Raise([data EXCEPT !.chosen_friend = f])
          \/ ReturnOrRaise("DESTINATION_DOCUMENT",
                [data EXCEPT !.chosen_friend = f, !.destination_documents = AccountsOf(f)])
    BY <1>2 DEF handle_getting_destination
  <2>3. state = "DESTINATION" /\ f # None /\ AccountsOf(f) # None
    <3>1. AccountsOf(f) \subseteq Numbers
      BY DEF AccountsOf, Inv, TypeOK
    <3> QED
      BY <1>2, <1>b, <3>1 DEF handle_getting_destination, Users
  <2>4. CASE Return(state, [data EXCEPT !.chosen_friend = f])
    <3>1. state' = state /\ PresentKeys' = PresentKeys \cup {"chosen_friend"}
      BY <1>a, <2>3, <2>4, FieldNames DEF Return, PresentKeys
    <3> QED
      BY <1>c, <2>1, <2>3, <3>1, Answers DEF TransferMove, Move
  <2>5. CASE Raise([data EXCEPT !.chosen_friend = f])
    <3>1. MayRaise /\ state' = state /\ PresentKeys' = PresentKeys \cup {"chosen_friend"}
      BY <1>a, <2>3, <2>5, FieldNames DEF Raise, PresentKeys
    <3> QED
      BY <2>1, <2>3, <3>1, AnswersRaising DEF TransferMove, Move
  <2>6. CASE ReturnOrRaise("DESTINATION_DOCUMENT",
                [data EXCEPT !.chosen_friend = f, !.destination_documents = AccountsOf(f)])
    <3>1. PresentKeys' = PresentKeys \cup {"chosen_friend", "destination_documents"}
      BY <1>a, <2>3, <2>6, FieldNames DEF ReturnOrRaise, Return, Raise, PresentKeys
    <3>2. CASE state' = "DESTINATION_DOCUMENT"
      BY <1>c, <2>1, <2>3, <3>1, <3>2, Answers DEF TransferMove, Move
    <3>3. CASE MayRaise /\ state' = state
      BY <2>1, <2>3, <3>1, <3>3, AnswersRaising DEF TransferMove, Move
    <3> QED
      BY <2>6, <3>2, <3>3 DEF ReturnOrRaise, Return, Raise
  <2> QED
    BY <2>2, <2>4, <2>5, <2>6
<1>3. CASE handle_getting_destination_document
  <2> DEFINE mv == TransferMove("DESTINATION_DOCUMENT", "SOURCE_DOCUMENT",
                       {"destination_documents", "source_documents"}, {"destination_document"})
  <2>1. mv \in TransferMoves
    BY DEF TransferMoves, ChoosingMoves
  <2>2. state = "DESTINATION_DOCUMENT" /\ data.destination_documents \subseteq Numbers
    BY <1>3 DEF handle_getting_destination_document, Inv, Ready, FriendsDocuments
  <2>3. PICK n \in data.destination_documents : \E fresh :
          ReturnOrRaise("SOURCE_DOCUMENT",
             [data EXCEPT !.destination_document = n, !.source_documents = Listed(fresh)])
    BY <1>3 DEF handle_getting_destination_document
  <2>4. n # None /\ "destination_documents" \in PresentKeys
    BY <1>b, <1>d, <2>2, FieldNames
  <2>5. PresentKeys' = PresentKeys \cup {"destination_document"}
    BY <1>a, <2>2, <2>3, <2>4, FieldNames DEF ReturnOrRaise, Return, Raise, PresentKeys
  <2>6. CASE state' = "SOURCE_DOCUMENT"
    BY <1>c, <2>1, <2>2, <2>4, <2>5, <2>6, Answers DEF TransferMove, Move
  <2>7. CASE MayRaise /\ state' = state
    BY <2>1, <2>2, <2>5, <2>7, AnswersRaising DEF TransferMove, Move
  <2> QED
    BY <2>3, <2>6, <2>7 DEF ReturnOrRaise, Return, Raise
<1>4. CASE handle_getting_source_document
  <2> DEFINE mv == TransferMove("SOURCE_DOCUMENT", "ACCRUAL", {"source_documents"},
                                {"source_document"})
  <2>1. mv \in TransferMoves
    BY DEF TransferMoves, ChoosingMoves
  <2>2. state = "SOURCE_DOCUMENT" /\ DOMAIN data.source_documents \subseteq Numbers
    BY <1>4 DEF handle_getting_source_document, Inv, Ready, MyDocuments
  <2>3. PICK n \in DOMAIN data.source_documents :
          ReturnOrRaise("ACCRUAL", [data EXCEPT !.source_document = n])
    BY <1>4 DEF handle_getting_source_document
  <2>4. n # None
    BY <2>2
  <2>5. PresentKeys' = PresentKeys \cup {"source_document"}
    BY <1>a, <2>2, <2>3, <2>4, FieldNames DEF ReturnOrRaise, Return, Raise, PresentKeys
  <2>6. CASE state' = "ACCRUAL"
    BY <1>c, <2>1, <2>2, <2>5, <2>6, Answers DEF TransferMove, Move
  <2>7. CASE MayRaise /\ state' = state
    BY <2>1, <2>2, <2>5, <2>7, AnswersRaising DEF TransferMove, Move
  <2> QED
    BY <2>3, <2>6, <2>7 DEF ReturnOrRaise, Return, Raise
<1>5. CASE handle_getting_accrual
  <2> DEFINE mv == TransferMove("ACCRUAL", "PHOTO", {"source_document"}, {"accrual"})
  <2>1. mv \in TransferMoves
    BY DEF TransferMoves, PayingMoves
  <2>2. state = "ACCRUAL" /\ data.source_document \in Numbers
    BY <1>5 DEF handle_getting_accrual, Inv, Ready, MyDocuments
  <2>3. PICK t \in Texts :
          Raise(data) \/ ReturnOrRaise("PHOTO", [data EXCEPT !.accrual = parse_accrual(t)])
    BY <1>5 DEF handle_getting_accrual
  <2>4. parse_accrual(t) # None /\ "source_document" \in PresentKeys
    <3>1. parse_accrual(t) \in Int
      BY ParseType
    <3> QED
      BY <1>b, <1>d, <2>2, <3>1, FieldNames
  <2>5. CASE Raise(data)
    <3>1. MayRaise /\ state' = state /\ PresentKeys' = PresentKeys \cup {}
      BY <2>5 DEF Raise, PresentKeys
    <3>2. {} \in SUBSET mv.writes
      OBVIOUS
    <3> QED
      BY <2>1, <2>2, <3>1, <3>2, AnswersRaising DEF TransferMove, Move
  <2>6. CASE ReturnOrRaise("PHOTO", [data EXCEPT !.accrual = parse_accrual(t)])
    <3>1. PresentKeys' = PresentKeys \cup {"accrual"}
      BY <1>a, <2>2, <2>4, <2>6, FieldNames DEF ReturnOrRaise, Return, Raise, PresentKeys
    <3>2. CASE state' = "PHOTO"
      BY <2>1, <2>2, <2>4, <3>1, <3>2, Answers DEF TransferMove, Move
    <3>3. CASE MayRaise /\ state' = state
      BY <2>1, <2>2, <3>1, <3>3, AnswersRaising DEF TransferMove, Move
    <3> QED
      BY <2>6, <3>2, <3>3 DEF ReturnOrRaise, Return, Raise
  <2> QED
    BY <2>3, <2>5, <2>6
<1>6. CASE handle_getting_photo \/ handle_skip_getting_photo
  <2> DEFINE mv1 == TransferMove("PHOTO", "CONFIRM", Details, {"transfer_photo"})
             mv2 == TransferMove("PHOTO", "CONFIRM", Details, {})
  <2>1. mv1 \in TransferMoves /\ mv2 \in TransferMoves
    BY DEF TransferMoves, PayingMoves
  <2>2. /\ state = "PHOTO"
        /\ data.source_document \in Numbers /\ data.destination_document \in Numbers
        /\ data.accrual \in 1..MaxBalance
    BY <1>6 DEF handle_getting_photo, handle_skip_getting_photo, Inv, Ready, MyDocuments,
                FriendsDocuments
  <2>3. Details \subseteq PresentKeys
    BY <1>b, <1>d, <2>2, FieldNames DEF Details
  <2>4. ASSUME NEW p \in Pictures, SendDetails([data EXCEPT !.transfer_photo = p])
        PROVE  [Talks!Next]_Talks!vars
    <3>1. PresentKeys' = PresentKeys \cup {"transfer_photo"}
      BY <1>a, <2>2, <2>4, FieldNames DEF SendDetails, Return, Raise, PresentKeys
    <3>2. CASE state' = "CONFIRM"
      BY <2>1, <2>2, <2>3, <3>1, <3>2, Answers DEF TransferMove, Move
    <3>3. CASE MayRaise /\ state' = state
      BY <2>1, <2>2, <3>1, <3>3, AnswersRaising DEF TransferMove, Move
    <3> QED
      BY <2>4, <3>2, <3>3 DEF SendDetails, Return, Raise
  <2>5. CASE SendDetails(data)
    <3>1. PresentKeys' = PresentKeys \cup {}
      BY <2>2, <2>5 DEF SendDetails, Return, Raise, PresentKeys
    <3>2. CASE state' = "CONFIRM"
      BY <2>1, <2>2, <2>3, <3>1, <3>2, Answers DEF TransferMove, Move
    <3>3. CASE MayRaise /\ state' = state
      BY <2>1, <2>2, <3>1, <3>3, AnswersRaising DEF TransferMove, Move
    <3> QED
      BY <2>5, <3>2, <3>3 DEF SendDetails, Return, Raise
  <2> QED
    BY <1>6, <2>4, <2>5 DEF handle_getting_photo, handle_skip_getting_photo, SkipDetails
<1>7. CASE handle_transfer
  <2> DEFINE mv == TransferMove("CONFIRM", "END", Details, {})
  <2>1. mv \in TransferMoves
    BY DEF TransferMoves, PayingMoves
  <2>2. /\ state = "CONFIRM"
        /\ data.source_document \in Numbers /\ data.destination_document \in Numbers
        /\ data.accrual \in 1..MaxBalance
    BY <1>7 DEF handle_transfer, Inv, Ready, MyDocuments, FriendsDocuments
  <2>3. Details \subseteq PresentKeys
    BY <1>b, <1>d, <2>2, FieldNames DEF Details
  <2>4. CASE state' = "none"
    BY <2>1, <2>2, <2>3, <2>4, Answers DEF TransferMove, Move
  <2>5. CASE Raise(data)
    <3>1. MayRaise /\ state' = state /\ PresentKeys' = PresentKeys \cup {}
      BY <2>5 DEF Raise, PresentKeys
    <3> QED
      BY <2>1, <2>2, <3>1, AnswersRaising DEF TransferMove, Move
  <2> QED
    BY <1>7, <2>4, <2>5 DEF handle_transfer, Paid, NotPaid, End, Return
<1>8. CASE handle_cancel \/ Restart
  <2>1. state # "none" /\ state' = "none" /\ PresentKeys' = {}
    BY <1>8 DEF handle_cancel, Restart, End, Return, PresentKeys
  <2>2. Talks!Cancel("chat")
    BY <2>1 DEF Talks!Cancel, Talks!Nothing
  <2> QED
    BY <2>2 DEF Talks!Next
<1>9. ASSUME NEW new, Tables(new)
      PROVE  [Talks!Next]_Talks!vars
  BY <1>9, <1>e DEF Tables
<1>10. CASE UNCHANGED vars
  BY <1>10, <1>e DEF vars
<1> QED
  BY <1>1, <1>2, <1>3, <1>4, <1>5, <1>6, <1>7, <1>8, <1>9, <1>10
     DEF Next, Open, Give, Save, Close

\* The conversation /transfer, with all it keeps and whatever raises, is the
\* one that the table of conversations describes.
THEOREM DialogIsInTable == Spec => Talks!Spec
PROOF
<1>1. Init => Talks!Init
  BY DEF Init, PresentKeys, Talks!Init, Talks!Nothing
<1> QED
  BY Invariance, TalksNext, <1>1, PTL DEF Spec, Talks!Spec

-----------------------------------------------------------------------------
(* The conversation's payments are transfers of the ledger, which the      *)
(* interleaved statements of Transfer implement too.                       *)

\* The row of the payment number i.
Row(i) == [id |-> i, source |-> paid[i].source, destination |-> paid[i].destination,
           accrual |-> paid[i].accrual, photo |-> paid[i].photo]

Books == INSTANCE Ledger WITH
            Ids          <- 1..MaxPaid,
            Amounts      <- 1..MaxBalance,
            Opening      <- [n \in DOMAIN Opening |-> Opening[n].balance],
            Photos       <- Pictures,
            NoPhoto      <- None,
            balance      <- [n \in DOMAIN accounts |-> accounts[n].balance],
            transactions <- {Row(i) : i \in DOMAIN paid}

\* A payment is one transfer of the ledger, under a new identity.
LEMMA PayTransfers ==
    ASSUME Inv, Pay, Payment \in Payments
    PROVE  [Books!Next]_Books!ledgerVars
PROOF
<1> PICK i : i = Len(paid) + 1
  OBVIOUS
<1> PICK t : t = [id |-> i, source |-> Payment.source, destination |-> Payment.destination,
                  accrual |-> Payment.accrual, photo |-> Payment.photo]
  OBVIOUS
<1>1. /\ CanPay(t.source, t.destination, t.accrual)
      /\ Len(paid) < MaxPaid
      /\ accounts' = Moved(t.source, t.destination, t.accrual)
      /\ paid' = Append(paid, Payment)
  BY DEF Pay
<1>2. /\ paid \in Seq(Payments) /\ Len(paid) \in Nat
      /\ \A n \in DOMAIN accounts : accounts[n].balance \in 0..MaxBalance
                                    /\ DOMAIN accounts[n] = {"owner", "balance"}
  BY DEF Inv, TypeOK
<1>3. i \in 1..MaxPaid
  BY <1>1, <1>2
<1>4. t \in Books!Rows
  BY <1>3 DEF Payments, Choice, Books!Rows
<1>5. /\ DOMAIN paid = 1..Len(paid) /\ DOMAIN paid' = DOMAIN paid \cup {i}
      /\ paid'[i] = Payment
      /\ \A j \in DOMAIN paid : paid'[j] = paid[j]
  <2> PICK p \in Payments : p = Payment
    OBVIOUS
  <2>1. paid' = Append(paid, p)
    BY <1>1
  <2>2. /\ DOMAIN paid = 1..Len(paid) /\ DOMAIN paid' = DOMAIN paid \cup {i}
        /\ paid'[i] = p
        /\ \A j \in DOMAIN paid : paid'[j] = paid[j]
    BY <1>2, <2>1
  <2> QED
    BY <2>2
<1>6. {Row(j) : j \in DOMAIN paid}' = {Row(j) : j \in DOMAIN paid} \cup {t}
  <2>1. Row(i)' = t
    BY <1>5 DEF Row
  <2>2. \A j \in DOMAIN paid : Row(j)' = Row(j)
    BY <1>5 DEF Row
  <2> QED
    BY <1>5, <2>1, <2>2
<1>7. \A u \in {Row(j) : j \in DOMAIN paid} : u.id # t.id
  BY <1>2, <1>5 DEF Row
<1>8. /\ DOMAIN accounts' = DOMAIN accounts
      /\ \A n \in DOMAIN accounts :
            accounts'[n].balance = accounts[n].balance + Books!Effect(t, n)
  BY <1>1, <1>2 DEF Moved, Books!Effect, Payments
<1>9. /\ {t.source, t.destination} \subseteq DOMAIN accounts
      /\ accounts[t.source].balance >= t.accrual
      /\ accounts[t.destination].balance + Books!Effect(t, t.destination) <= MaxBalance
  BY <1>1, <1>2 DEF CanPay, Exists, Books!Effect, Payments
<1>10. Books!Transfer(t)
  BY <1>6, <1>7, <1>8, <1>9 DEF Books!Transfer, Books!Accounts
<1> QED
  BY <1>4, <1>10 DEF Books!Next

LEMMA BooksNext ==
    ASSUME "close" \notin AdminOps
    PROVE  Inv /\ [Next]_vars => [Books!Next]_Books!ledgerVars
PROOF
<1> SUFFICES ASSUME Inv, [Next]_vars PROVE [Books!Next]_Books!ledgerVars
  OBVIOUS
<1>a. ASSUME UNCHANGED <<accounts, paid>>
      PROVE  [Books!Next]_Books!ledgerVars
  BY <1>a DEF Books!ledgerVars, Row
<1>b. accounts \in [DOMAIN accounts -> [owner : Users, balance : 0..MaxBalance]]
  BY DEF Inv, TypeOK
<1>c. ASSUME paid' = paid
      PROVE  {Row(i) : i \in DOMAIN paid}' = {Row(i) : i \in DOMAIN paid}
  BY <1>c DEF Row
<1>1. CASE handle_transfer
  <2>1. CASE Pay
    BY <1>1, <2>1, PaymentType, PayTransfers DEF handle_transfer
  <2>2. CASE UNCHANGED <<accounts, paid>>
    BY <1>a, <2>2
  <2> QED
    BY <1>1, <2>1, <2>2 DEF handle_transfer, Paid, NotPaid
<1>2. ASSUME NEW n \in Numbers, NEW u \in Users, Open(n, u)
      PROVE  [Books!Next]_Books!ledgerVars
  <2>1. /\ n \notin DOMAIN accounts /\ paid' = paid
        /\ accounts' = [m \in DOMAIN accounts \cup {n} |->
                          IF m = n THEN [owner |-> u, balance |-> 0] ELSE accounts[m]]
    BY <1>2 DEF Open, Tables, Exists
  <2>2. /\ DOMAIN accounts' = DOMAIN accounts \cup {n}
        /\ \A m \in DOMAIN accounts' :
              accounts'[m].balance = IF m = n THEN 0 ELSE accounts[m].balance
    BY <2>1
  <2>3. Books!Open(n, 0)
    BY <1>c, <2>1, <2>2 DEF Books!Open, Books!Accounts
  <2>4. 0 \in 0..MaxBalance
    OBVIOUS
  <2> QED
    BY <2>3, <2>4 DEF Books!Next
<1>3. ASSUME NEW n \in Numbers, NEW b \in 0..MaxBalance, Save(n, b)
      PROVE  [Books!Next]_Books!ledgerVars
  <2>1. n \in DOMAIN accounts /\ paid' = paid /\ accounts' = [accounts EXCEPT ![n].balance = b]
    BY <1>3 DEF Save, Tables, Exists
  <2>2. /\ DOMAIN accounts' = DOMAIN accounts
        /\ \A m \in DOMAIN accounts :
              accounts'[m].balance = IF m = n THEN b ELSE accounts[m].balance
    BY <1>b, <2>1
  <2>3. Books!Save(n, b)
    BY <1>c, <2>1, <2>2 DEF Books!Save, Books!Accounts
  <2> QED
    BY <2>3 DEF Books!Next
<1>4. ASSUME NEW n \in Numbers, NEW u \in Users, Give(n, u)
      PROVE  [Books!Next]_Books!ledgerVars
  <2>1. paid' = paid /\ accounts' = [accounts EXCEPT ![n].owner = u]
    BY <1>4 DEF Give, Tables
  <2>2. /\ DOMAIN accounts' = DOMAIN accounts
        /\ \A m \in DOMAIN accounts : accounts'[m].balance = accounts[m].balance
    BY <1>b, <2>1
  <2> QED
    BY <1>c, <2>1, <2>2 DEF Books!ledgerVars
<1>5. ASSUME NEW n \in Numbers
      PROVE  ~Close(n)
  BY DEF Close
<1>6. CASE \/ handle_start \/ handle_getting_destination
           \/ handle_getting_destination_document \/ handle_getting_source_document
           \/ handle_getting_accrual \/ handle_getting_photo \/ handle_skip_getting_photo
           \/ handle_cancel \/ Restart
  BY <1>6, <1>a DEF handle_start, handle_getting_destination,
       handle_getting_destination_document, handle_getting_source_document,
       handle_getting_accrual, handle_getting_photo, handle_skip_getting_photo,
       handle_cancel, Restart, Quiet
<1>7. CASE UNCHANGED vars
  BY <1>7, <1>a DEF vars
<1> QED
  BY <1>1, <1>2, <1>3, <1>4, <1>5, <1>6, <1>7 DEF Next

\* What a user pays in conversations, whatever raises, are transfers of the
\* ledger among the other things that happen to accounts.  (An account that
\* is closed takes its payments with it, which "paid" remembers.)
THEOREM DialogImplementsLedger ==
    ASSUME "close" \notin AdminOps
    PROVE  Spec => Books!Spec
PROOF
<1>1. Init => Books!Init
  BY DEF Init, Books!Init
<1>2. Inv /\ [Next]_vars => [Books!Next]_Books!ledgerVars
  BY BooksNext
<1> QED
  BY Invariance, <1>1, <1>2, PTL DEF Spec, Books!Spec

=============================================================================
