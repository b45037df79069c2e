-------------------------- MODULE NotificationsProofs --------------------------
(***************************************************************************)
(* Theorems about Notifications, for any users, accounts and payments.     *)
(***************************************************************************)
EXTENDS Notifications, TLAPS

USE NotificationsAssumption DEF Ids

\* The users whom payment i concerns.
Parties(i) == {Owner[paid[i].source], Owner[paid[i].destination]}

\* A later table of payments has the earlier ones.
Extends(p, q) == /\ DOMAIN p \subseteq DOMAIN q
                 /\ \A i \in DOMAIN p : q[i] = p[i]

LEMMA TransferAppends ==
    ASSUME TypeOK, NEW t \in Payments, paid' = Append(paid, t)
    PROVE  /\ paid' \in Seq(Payments)
           /\ Ids' = Ids \cup {Len(paid) + 1}
           /\ Len(paid) + 1 \notin Ids
           /\ Extends(paid, paid')
           /\ paid'[Len(paid) + 1] = t
PROOF
  BY DEF TypeOK, Extends

LEMMA SentLater ==
    ASSUME NEW A, NEW B, A \subseteq B, NEW s \in Seq(Users \X A)
    PROVE  s \in Seq(Users \X B)
PROOF
<1>1. Users \X A \subseteq Users \X B
  OBVIOUS
<1> QED
  BY <1>1

LEMMA NewAreIds == TypeOK => \A u : get_new_transactions(u) \subseteq Ids
PROOF
  BY DEF TypeOK, get_new_transactions, FromUser, ToUser

LEMMA TypeStep == TypeOK /\ [Next]_vars => TypeOK'
PROOF
<1> SUFFICES ASSUME TypeOK, [Next]_vars PROVE TypeOK'
  OBVIOUS
<1>1. ASSUME NEW u \in Users, handle_last(u) PROVE TypeOK'
  BY <1>1, NewAreIds DEF TypeOK, handle_last, tables
<1>2. CASE MarkSource
  BY <1>2 DEF TypeOK, MarkSource, FromUser
<1>3. CASE MarkDestination
  BY <1>3 DEF TypeOK, MarkDestination, DestinationRows, ToUser
<1>4. CASE Send
  <2>1. PICK i \in pending : sent' = Append(sent, <<reader, i>>) /\ pending' = pending \ {i}
    BY <1>4 DEF Send
  <2>2. reader \in Users /\ i \in Ids
    BY <1>4 DEF TypeOK, Send
  <2>3. sent' \in Seq(Users \X Ids)
    BY <2>1, <2>2 DEF TypeOK
  <2> QED
    BY <1>4, <2>1, <2>3 DEF TypeOK, Send, tables
<1>5. CASE Finish
  BY <1>5 DEF TypeOK, Finish, End, tables
<1>6. pc # "idle" => Lost \subseteq Users \X Ids
  BY DEF TypeOK, Lost
<1>7. CASE LastRaises
  BY <1>6, <1>7 DEF TypeOK, LastRaises, Raise, End, tables
<1>8. CASE SendRaises
  <2>1. PICK i \in pending : sent' = Append(sent, <<reader, i>>)
    BY <1>8 DEF SendRaises
  <2>2. sent' \in Seq(Users \X Ids)
    BY <1>8, <2>1 DEF TypeOK, SendRaises
  <2> QED
    BY <1>6, <1>8, <2>2 DEF TypeOK, SendRaises, Raise, End, tables
<1>9. CASE FetchRaises
  BY <1>6, <1>9 DEF TypeOK, FetchRaises, Raise, End, tables
<1>10. ASSUME NEW t \in Payments, Transfer(t) PROVE TypeOK'
  <2>1. /\ paid' \in Seq(Payments)
        /\ Ids' = Ids \cup {Len(paid) + 1}
    BY <1>10, TransferAppends DEF Transfer
  <2>2. sent' \in Seq(Users \X Ids')
    BY <1>10, <2>1, SentLater DEF TypeOK, Transfer
  <2>3. Between(t) \subseteq Users
    BY DEF Between, Payments
  <2>4. excused' \subseteq Users \X Ids'
    BY <1>10, <2>1, <2>3 DEF TypeOK, Transfer
  <2> QED
    BY <1>10, <2>1, <2>2, <2>4 DEF TypeOK, Transfer
<1>11. ASSUME NEW n \in DOMAIN Owner, Close(n) PROVE TypeOK'
  BY <1>11 DEF TypeOK, Close
<1>12. CASE UNCHANGED vars
  BY <1>12 DEF TypeOK, vars, tables
<1> QED
  BY <1>1, <1>2, <1>3, <1>4, <1>5, <1>7, <1>8, <1>9, <1>10, <1>11, <1>12 DEF Next

\* Every variable of /last and of its tables keeps its type.
THEOREM TypeCorrect == Spec => []TypeOK
PROOF
<1>1. Init => TypeOK
  BY DEF Init, TypeOK, Payments
<1> QED
  BY <1>1, TypeStep, PTL DEF Spec

-----------------------------------------------------------------------------
(* Nothing is shown twice.                                                 *)

NoneTwice == \A i, j \in DOMAIN sent : i # j => sent[i] # sent[j]

\* What was shown concerns the user and is not new to him any more.
SentIsOld ==
    \A k \in DOMAIN sent :
        /\ sent[k][1] \in Parties(sent[k][2])
        /\ sent[k][2] \notin get_new_transactions(sent[k][1])

\* What is listed concerns the reader and was not shown before.
ListIsUnshown ==
    \A i \in pending : reader \in Parties(i) /\ \A k \in DOMAIN sent : sent[k] # <<reader, i>>

\* The rows listed are marked, one side after the other, before any is sent.
ListIsMarked ==
    \A i \in pending \cap rows :
        /\ pc \in {"mark_destination", "send"} /\ Owner[paid[i].source] = reader
           => i \in source_viewed
        /\ pc = "send" /\ Owner[paid[i].destination] = reader => i \in destination_viewed

ShowInv == TypeOK /\ NoneTwice /\ SentIsOld /\ ListIsUnshown /\ ListIsMarked

\* Marking, closing, and the end of a handler leave what was shown as it is
\* and never make anything new again.
LEMMA NothingNew ==
    ASSUME ShowInv, UNCHANGED <<paid, sent>>, rows' \subseteq rows,
           source_viewed \subseteq source_viewed', destination_viewed \subseteq destination_viewed'
    PROVE  NoneTwice' /\ SentIsOld'
PROOF
<1>1. NoneTwice'
  BY DEF ShowInv, NoneTwice
<1>2. ASSUME NEW u PROVE get_new_transactions(u)' \subseteq get_new_transactions(u)
  BY DEF get_new_transactions, FromUser, ToUser
<1>3. SentIsOld'
  BY <1>2 DEF ShowInv, SentIsOld, Parties
<1> QED
  BY <1>1, <1>3

\* A message about a listed payment, once its list is marked.
LEMMA OneMore ==
    ASSUME ShowInv, pc = "send", NEW i \in pending,
           sent' = Append(sent, <<reader, i>>), UNCHANGED tables
    PROVE  NoneTwice' /\ SentIsOld'
PROOF
<1> DEFINE n == Len(sent) + 1
<1>1. /\ sent \in Seq(Users \X Ids)
      /\ <<reader, i>> \in Users \X Ids
  BY DEF ShowInv, TypeOK
<1>2. /\ DOMAIN sent' = DOMAIN sent \cup {n}
      /\ n \notin DOMAIN sent
      /\ sent'[n] = <<reader, i>>
      /\ \A k \in DOMAIN sent : sent'[k] = sent[k]
  BY <1>1
<1> HIDE DEF n
<1>3. NoneTwice'
  BY <1>2 DEF ShowInv, NoneTwice, ListIsUnshown
<1>4. i \notin get_new_transactions(reader)
  BY DEF ShowInv, ListIsMarked, get_new_transactions, FromUser, ToUser
<1>5. reader \in Parties(i)
  BY DEF ShowInv, ListIsUnshown
<1>6. ASSUME NEW k \in DOMAIN sent'
      PROVE  /\ sent'[k][1] \in Parties(sent'[k][2])
             /\ sent'[k][2] \notin get_new_transactions(sent'[k][1])
  <2>1. CASE k = n
    BY <1>2, <1>4, <1>5, <2>1
  <2>2. CASE k \in DOMAIN sent
    BY <1>2, <2>2 DEF ShowInv, SentIsOld
  <2> QED
    BY <1>2, <2>1, <2>2
<1>7. \A u, j : /\ Parties(j)' = Parties(j)
                /\ get_new_transactions(u)' = get_new_transactions(u)
  BY DEF Parties, get_new_transactions, FromUser, ToUser, tables
<1>8. SentIsOld'
  BY <1>6, <1>7 DEF SentIsOld
<1> QED
  BY <1>3, <1>8

LEMMA ShowStep == ShowInv /\ [Next]_vars => ShowInv'
PROOF
<1> SUFFICES ASSUME ShowInv, [Next]_vars PROVE ShowInv'
  OBVIOUS
<1>t. TypeOK'
  BY TypeStep DEF ShowInv
<1> USE DEF ShowInv
<1>1. ASSUME NEW u \in Users, handle_last(u) PROVE ShowInv'
  <2>1. NoneTwice' /\ SentIsOld'
    BY <1>1, NothingNew DEF handle_last, tables
  <2>2. \A i \in get_new_transactions(u) : u \in Parties(i)
    BY DEF get_new_transactions, FromUser, ToUser, Parties
  <2>3. \A i \in get_new_transactions(u) : \A k \in DOMAIN sent : sent[k] # <<u, i>>
    BY DEF SentIsOld
  <2>4. ListIsUnshown'
    BY <1>1, <2>2, <2>3 DEF handle_last, ListIsUnshown, Parties, tables
  <2>5. ListIsMarked'
    BY <1>1 DEF handle_last, ListIsMarked
  <2> QED
    BY <1>t, <2>1, <2>4, <2>5
<1>2. CASE MarkSource
  <2>1. NoneTwice' /\ SentIsOld'
    BY <1>2, NothingNew DEF MarkSource
  <2>2. ListIsUnshown'
    BY <1>2 DEF MarkSource, ListIsUnshown, Parties
  <2>3. ListIsMarked'
    BY <1>2 DEF MarkSource, ListIsMarked, FromUser
  <2> QED
    BY <1>t, <2>1, <2>2, <2>3
<1>3. CASE MarkDestination
  <2>1. NoneTwice' /\ SentIsOld'
    BY <1>3, NothingNew DEF MarkDestination
  <2>2. ListIsUnshown'
    BY <1>3 DEF MarkDestination, ListIsUnshown, Parties
  <2>3. ListIsMarked'
    BY <1>3 DEF MarkDestination, ListIsMarked, DestinationRows, ToUser
  <2> QED
    BY <1>t, <2>1, <2>2, <2>3
<1>4. CASE Send
  <2>1. PICK i \in pending : sent' = Append(sent, <<reader, i>>) /\ pending' = pending \ {i}
    BY <1>4 DEF Send
  <2>2. NoneTwice' /\ SentIsOld'
    BY <1>4, <2>1, OneMore DEF Send
  <2>3. ListIsUnshown'
    <3>1. sent \in Seq(Users \X Ids) /\ <<reader, i>> \in Users \X Ids
      BY <1>4 DEF TypeOK, Send
    <3>2. \A k \in DOMAIN sent' : sent'[k] = <<reader, i>> \/ (k \in DOMAIN sent /\ sent'[k] = sent[k])
      BY <2>1, <3>1
    <3>3. \A j \in pending' : <<reader, j>> # <<reader, i>>
      BY <2>1
    <3> QED
      BY <1>4, <2>1, <3>2, <3>3 DEF Send, ListIsUnshown, Parties, tables
  <2>4. ListIsMarked'
    BY <1>4, <2>1 DEF Send, ListIsMarked, tables
  <2> QED
    BY <1>t, <2>2, <2>3, <2>4
<1>5. ASSUME End, UNCHANGED tables, NoneTwice', SentIsOld' PROVE ShowInv'
  BY <1>5, <1>t DEF End, ListIsUnshown, ListIsMarked
<1>6. CASE Finish
  BY <1>5, <1>6, NothingNew DEF Finish, tables
<1>7. CASE LastRaises
  BY <1>5, <1>7, NothingNew DEF LastRaises, Raise, tables
<1>8. CASE SendRaises
  BY <1>5, <1>8, OneMore DEF SendRaises, Raise
<1>9. CASE FetchRaises
  BY <1>5, <1>9, NothingNew DEF FetchRaises, Raise, tables
<1>10. ASSUME NEW t \in Payments, Transfer(t) PROVE ShowInv'
  <2> DEFINE n == Len(paid) + 1
  <2>1. n \notin Ids /\ Extends(paid, paid')
    BY <1>10, TransferAppends DEF Transfer
  <2>2. rows' = rows \cup {n} /\ UNCHANGED <<source_viewed, destination_viewed, pc, reader, pending, sent>>
    BY <1>10 DEF Transfer
  <2>3. rows \subseteq Ids /\ pending \subseteq Ids /\ \A k \in DOMAIN sent : sent[k][2] \in Ids
    BY DEF TypeOK
  <2> HIDE DEF n
  <2>4. \A i \in Ids : paid'[i] = paid[i] /\ Parties(i)' = Parties(i)
    BY <2>1 DEF Extends, Parties
  <2>5. ASSUME NEW u, NEW i \in Ids, i \in get_new_transactions(u)'
        PROVE  i \in get_new_transactions(u)
    BY <2>1, <2>2, <2>4, <2>5 DEF get_new_transactions, FromUser, ToUser
  <2>6. NoneTwice'
    BY <2>2 DEF NoneTwice
  <2>7. SentIsOld'
    BY <2>2, <2>3, <2>4, <2>5 DEF SentIsOld
  <2>8. ListIsUnshown'
    BY <2>2, <2>3, <2>4 DEF ListIsUnshown
  <2>9. ListIsMarked'
    BY <2>1, <2>2, <2>3, <2>4 DEF ListIsMarked
  <2> QED
    BY <1>t, <2>6, <2>7, <2>8, <2>9
<1>11. ASSUME NEW m \in DOMAIN Owner, Close(m) PROVE ShowInv'
  <2>1. NoneTwice' /\ SentIsOld'
    BY <1>11, NothingNew DEF Close
  <2>2. ListIsUnshown' /\ ListIsMarked'
    BY <1>11 DEF Close, ListIsUnshown, ListIsMarked, Parties
  <2> QED
    BY <1>t, <2>1, <2>2
<1>12. CASE UNCHANGED vars
  <2>1. NoneTwice' /\ SentIsOld'
    BY <1>12, NothingNew DEF vars, tables
  <2>2. ListIsUnshown' /\ ListIsMarked'
    BY <1>12 DEF vars, tables, ListIsUnshown, ListIsMarked, Parties
  <2> QED
    BY <1>t, <2>1, <2>2
<1> QED
  BY <1>1, <1>2, <1>3, <1>4, <1>6, <1>7, <1>8, <1>9, <1>10, <1>11, <1>12 DEF Next

\* However often /last is asked for, whatever raises in between and whatever
\* transfers commit meanwhile, no user is shown a payment twice.
THEOREM NothingTwice == Spec => []ShownOnce
PROOF
<1>1. Init => ShowInv
  BY DEF Init, ShowInv, TypeOK, Payments, NoneTwice, SentIsOld, ListIsUnshown, ListIsMarked
<1>2. ShowInv => ShownOnce
  BY DEF ShowInv, NoneTwice, SentIsOld, ShownOnce, Parties
<1> QED
  BY <1>1, <1>2, ShowStep, PTL DEF Spec

-----------------------------------------------------------------------------
(* Nothing is lost but what is excused.                                    *)

\* What is new to the reader without being listed was committed after the
\* list was made; the UPDATEs still to come will mark it unseen.
LateIsExcused ==
    /\ pc = "mark_source" =>
          \A i \in get_new_transactions(reader) \ pending : <<reader, i>> \in excused
    /\ pc = "mark_destination" =>
          \A i \in (ToUser(reader) \ destination_viewed) \ pending : <<reader, i>> \in excused

KeepInv == TypeOK /\ LateIsExcused /\ ShownOrNew

LEMMA ShownStays ==
    ASSUME TypeOK, NEW v \in Users, NEW j \in Ids, sent' = Append(sent, <<v, j>>)
    PROVE  /\ \A u, i : Shown(u, i) => Shown(u, i)'
           /\ \E k \in DOMAIN sent' : sent'[k] = <<v, j>>
PROOF
<1>1. /\ DOMAIN sent' = DOMAIN sent \cup {Len(sent) + 1}
      /\ sent'[Len(sent) + 1] = <<v, j>>
      /\ \A k \in DOMAIN sent : sent'[k] = sent[k]
  BY DEF TypeOK
<1> QED
  BY <1>1 DEF Shown

\* The handler ends with its list empty, or with what it lost excused.
LEMMA EndKeeps ==
    ASSUME KeepInv, End, UNCHANGED tables, pc # "idle",
           \A u, i : Shown(u, i) => Shown(u, i)',
           excused \subseteq excused',
           \A i \in pending : i \in get_new_transactions(reader) \/ <<reader, i>> \in excused'
    PROVE  LateIsExcused' /\ ShownOrNew'
PROOF
<1>1. LateIsExcused'
  BY DEF End, LateIsExcused
<1>2. \A u : /\ get_new_transactions(u)' = get_new_transactions(u)
             /\ FromUser(u)' = FromUser(u)
             /\ ToUser(u)' = ToUser(u)
  BY DEF get_new_transactions, FromUser, ToUser, tables
<1>3. ShownOrNew'
  BY <1>2 DEF KeepInv, ShownOrNew, Accounted
<1> QED
  BY <1>1, <1>3

LEMMA KeepStep == KeepInv /\ [Next]_vars => KeepInv'
PROOF
<1> SUFFICES ASSUME KeepInv, [Next]_vars PROVE KeepInv'
  OBVIOUS
<1>t. TypeOK'
  BY TypeStep DEF KeepInv
<1> USE DEF KeepInv
<1>0. ASSUME UNCHANGED tables
      PROVE  \A u : /\ get_new_transactions(u)' = get_new_transactions(u)
                    /\ FromUser(u)' = FromUser(u)
                    /\ ToUser(u)' = ToUser(u)
  BY <1>0 DEF get_new_transactions, FromUser, ToUser, tables
<1>1. ASSUME NEW v \in Users, handle_last(v) PROVE KeepInv'
  <2>1. LateIsExcused'
    BY <1>0, <1>1 DEF handle_last, LateIsExcused
  <2>2. pending = {}
    BY <1>1 DEF handle_last, TypeOK
  <2>3. ShownOrNew'
    BY <1>0, <1>1, <2>2 DEF handle_last, ShownOrNew, Accounted, Shown
  <2> QED
    BY <1>t, <2>1, <2>3
<1>2. CASE MarkSource
  <2>1. \A u : /\ FromUser(u)' = FromUser(u)
               /\ ToUser(u)' = ToUser(u)
    BY <1>2 DEF MarkSource, FromUser, ToUser
  <2>2. LateIsExcused'
    BY <1>2, <2>1 DEF MarkSource, LateIsExcused, get_new_transactions
  <2>3. \A u \in Users \ {reader} : FromUser(u) \cap FromUser(reader) = {}
    BY DEF FromUser
  <2>4. \A u \in Users \ {reader} : get_new_transactions(u)' = get_new_transactions(u)
    BY <1>2, <2>1, <2>3 DEF MarkSource, get_new_transactions
  <2>5. \A i \in get_new_transactions(reader) : i \in pending \/ <<reader, i>> \in excused
    BY <1>2 DEF MarkSource, LateIsExcused
  <2>6. ShownOrNew'
    BY <1>2, <2>1, <2>4, <2>5 DEF MarkSource, ShownOrNew, Accounted, Shown
  <2> QED
    BY <1>t, <2>2, <2>6
<1>3. CASE MarkDestination
  <2>1. \A u : /\ FromUser(u)' = FromUser(u)
               /\ ToUser(u)' = ToUser(u)
    BY <1>3 DEF MarkDestination, FromUser, ToUser
  <2>2. LateIsExcused'
    BY <1>3 DEF MarkDestination, LateIsExcused
  <2>3. \A u \in Users \ {reader} : ToUser(u) \cap ToUser(reader) = {}
    BY DEF ToUser
  <2>4. \A u \in Users \ {reader} : get_new_transactions(u)' = get_new_transactions(u)
    BY <1>3, <2>1, <2>3 DEF MarkDestination, DestinationRows, get_new_transactions
  <2>5. \A i \in get_new_transactions(reader) \ get_new_transactions(reader)' :
           i \in pending \/ <<reader, i>> \in excused
    BY <1>3, <2>1 DEF MarkDestination, DestinationRows, LateIsExcused, get_new_transactions
  <2>6. ShownOrNew'
    BY <1>3, <2>1, <2>4, <2>5 DEF MarkDestination, ShownOrNew, Accounted, Shown
  <2> QED
    BY <1>t, <2>2, <2>6
<1>4. CASE Send
  <2>1. PICK i \in pending : sent' = Append(sent, <<reader, i>>) /\ pending' = pending \ {i}
    BY <1>4 DEF Send
  <2>2. reader \in Users /\ i \in Ids
    BY <1>4 DEF TypeOK, Send
  <2>3. Shown(reader, i)' /\ \A u, j : Shown(u, j) => Shown(u, j)'
    <3>1. \A u, j : Shown(u, j) => Shown(u, j)'
      BY <2>1, <2>2, ShownStays
    <3>2. \E k \in DOMAIN sent' : sent'[k] = <<reader, i>>
      BY <2>1, <2>2, ShownStays
    <3>3. reader' = reader
      BY <1>4 DEF Send
    <3> QED
      BY <3>1, <3>2, <3>3 DEF Shown
  <2>4. LateIsExcused'
    BY <1>4 DEF Send, LateIsExcused
  <2>5. ShownOrNew'
    BY <1>0, <1>4, <2>1, <2>3 DEF Send, ShownOrNew, Accounted
  <2> QED
    BY <1>t, <2>4, <2>5
<1>5. \A i \in pending : i \in get_new_transactions(reader) \/ <<reader, i>> \in Lost
  BY DEF Lost
<1>6. CASE Finish
  <2>1. \A u, i : Shown(u, i) => Shown(u, i)'
    BY <1>6 DEF Finish, Shown
  <2> QED
    BY <1>t, <1>6, <2>1, EndKeeps DEF Finish
<1>7. CASE LastRaises \/ FetchRaises
  <2>1. \A u, i : Shown(u, i) => Shown(u, i)'
    BY <1>7 DEF LastRaises, FetchRaises, Shown
  <2> QED
    BY <1>t, <1>5, <1>7, <2>1, EndKeeps DEF LastRaises, FetchRaises, Raise
<1>8. CASE SendRaises
  <2>1. PICK i \in pending : sent' = Append(sent, <<reader, i>>)
    BY <1>8 DEF SendRaises
  <2>2. reader \in Users /\ i \in Ids
    BY <1>8 DEF TypeOK, SendRaises
  <2>3. \A u, j : Shown(u, j) => Shown(u, j)'
    BY <2>1, <2>2, ShownStays
  <2> QED
    BY <1>t, <1>5, <1>8, <2>3, EndKeeps DEF SendRaises, Raise
<1>10. ASSUME NEW t \in Payments, Transfer(t) PROVE KeepInv'
  <2> DEFINE n == Len(paid) + 1
  <2>1. n \notin Ids /\ Extends(paid, paid') /\ paid'[n] = t
    BY <1>10, TransferAppends DEF Transfer
  <2>2. /\ rows' = rows \cup {n} /\ excused' = excused \cup (Between(t) \X {n})
        /\ UNCHANGED <<source_viewed, destination_viewed, pc, reader, pending, sent>>
    BY <1>10 DEF Transfer
  <2>3. /\ rows \subseteq Ids /\ pending \subseteq Ids
        /\ source_viewed \subseteq Ids /\ destination_viewed \subseteq Ids
    BY DEF TypeOK
  <2> HIDE DEF n
  <2>4. ASSUME NEW u
        PROVE  /\ FromUser(u)' = FromUser(u) \cup (IF Owner[t.source] = u THEN {n} ELSE {})
               /\ ToUser(u)' = ToUser(u) \cup (IF Owner[t.destination] = u THEN {n} ELSE {})
    BY <2>1, <2>2, <2>3 DEF FromUser, ToUser, Extends
  <2>5. LateIsExcused'
    <3>1. CASE pc = "mark_source"
      <4>1. \A i \in get_new_transactions(reader)' :
               i \in get_new_transactions(reader)
               \/ (i = n /\ reader \in {Owner[t.source], Owner[t.destination]})
        BY <2>2, <2>4 DEF get_new_transactions
      <4>2. reader \in {Owner[t.source], Owner[t.destination]} => <<reader, n>> \in excused'
        BY <2>2, <3>1 DEF Between
      <4>3. \A i \in (get_new_transactions(reader) \ pending)' : <<reader, i>> \in excused'
        BY <2>2, <3>1, <4>1, <4>2 DEF LateIsExcused
      <4> QED
        BY <2>2, <3>1, <4>3 DEF LateIsExcused
    <3>2. CASE pc = "mark_destination"
      BY <2>2, <2>4, <3>2 DEF LateIsExcused, Between
    <3> QED
      BY <2>2, <3>1, <3>2 DEF LateIsExcused
  <2>6. ASSUME NEW u \in Users, NEW i \in FromUser(u)' \cup ToUser(u)'
        PROVE  Accounted(u, i)' \/ <<u, i>> \in excused'
    <3>1. CASE i = n
      BY <2>1, <2>2, <2>3, <2>4, <2>6, <3>1 DEF Accounted, get_new_transactions
    <3>2. CASE i # n
      BY <2>2, <2>4, <2>6, <3>2 DEF ShownOrNew, Accounted, get_new_transactions, Shown
    <3> QED
      BY <3>1, <3>2
  <2> QED
    BY <1>t, <2>5, <2>6 DEF ShownOrNew
<1>11. ASSUME NEW m \in DOMAIN Owner, Close(m) PROVE KeepInv'
  <2>1. \A u : /\ FromUser(u)' = FromUser(u) \cap rows'
               /\ ToUser(u)' = ToUser(u) \cap rows'
    BY <1>11 DEF Close, FromUser, ToUser
  <2>2. LateIsExcused'
    BY <1>11, <2>1 DEF Close, LateIsExcused, get_new_transactions
  <2>3. ShownOrNew'
    BY <1>11, <2>1 DEF Close, ShownOrNew, Accounted, get_new_transactions, Shown
  <2> QED
    BY <1>t, <2>2, <2>3
<1>12. CASE UNCHANGED vars
  <2>1. LateIsExcused' /\ ShownOrNew'
    BY <1>0, <1>12 DEF vars, tables, LateIsExcused, ShownOrNew, Accounted, Shown
  <2> QED
    BY <1>t, <2>1
<1> QED
  BY <1>1, <1>2, <1>3, <1>4, <1>6, <1>7, <1>8, <1>10, <1>11, <1>12 DEF Next

\* A payment is lost to a side only if the handler raised after it had marked
\* it, or it was committed between the list and that side's UPDATE.
THEOREM NothingElseLost == Spec => []ShownOrNew
PROOF
<1>1. Init => KeepInv
  BY DEF Init, KeepInv, TypeOK, Payments, LateIsExcused, ShownOrNew, FromUser, ToUser
<1>2. KeepInv => ShownOrNew
  BY DEF KeepInv
<1> QED
  BY <1>1, <1>2, KeepStep, PTL DEF Spec

=============================================================================
