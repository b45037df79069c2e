---------------------------- MODULE FriendsProofs ----------------------------
(***************************************************************************)
(* Safety theorems about Friends, for any users, any finite number of      *)
(* processes and any bound on the requests.                                *)
(***************************************************************************)
EXTENDS Friends, FiniteSetTheorems, TLAPS

USE FriendsAssumption

-----------------------------------------------------------------------------
(* The inductive invariant.                                                *)

\* Requests that are being created have a place left.
Budget == Len(asked) + Cardinality(Creating) <= MaxRequests

\* What a call has done so far: which request it has read, and that each of
\* the two rows it has passed is its own, or was there, or was removed since.
Passed(w, p) ==
    /\ p \in inserted[w] \cup met
    /\ p \in inserted[w] \cup friends \cup removed

Working(w) ==
    /\ inserted[w] \subseteq {call[w].pair, Mirror(call[w].pair)}
    /\ pc[w] \in {"insert", "mirror", "commit"} => call[w].row \in DOMAIN asked
    /\ pc[w] \in {"mirror", "commit"} => Passed(w, call[w].pair)
    /\ pc[w] = "commit" => Passed(w, Mirror(call[w].pair))
    /\ pc[w] = "remove" => call[w].pair \in met

\* Who met one way met the other way.
MetBoth == \A p \in met : Mirror(p) \in met

AllWorking == \A w \in Workers : Working(w)

Inv == TypeOK /\ Budget /\ AllWorking /\ MetBoth

-----------------------------------------------------------------------------
(* Lemmas.                                                                 *)

LEMMA MirrorTwice ==
    ASSUME NEW p \in Pairs
    PROVE  Mirror(p) \in Pairs /\ Mirror(Mirror(p)) = p
PROOF
  BY DEF Pairs, Mirror

LEMMA Answers ==
    ASSUME TypeOK, NEW w \in Workers, pc[w] # "idle"
    PROVE  call[w] \in Calls /\ call[w].pair \in Pairs /\ call[w].row \in 0..MaxRequests
PROOF
<1>1. call[w] \in Calls
  BY DEF TypeOK
<1> QED
  BY <1>1 DEF Calls

\* One worker moves on; the others are where they were.
Others(w) ==
    \A v \in Workers \ {w} : pc'[v] = pc[v] /\ call'[v] = call[v] /\ inserted'[v] = inserted[v]

States == {"idle", "exists", "create", "insert", "mirror", "commit", "remove"}

Processes ==
    /\ pc \in [Workers -> States]
    /\ call \in [Workers -> Calls \cup {NoCall}]
    /\ inserted \in [Workers -> SUBSET Pairs]
    /\ \A w \in Workers :
          /\ pc[w] = "idle" <=> call[w] = NoCall
          /\ inserted[w] # {} => pc[w] \in {"mirror", "commit"}

LEMMA GotoDoes ==
    ASSUME TypeOK, NEW w \in Workers, NEW next \in {"exists", "create", "insert", "remove"},
           NEW p \in Pairs, NEW row \in 0..MaxRequests,
           pc[w] \in {"idle", "exists"}, Goto(w, next, p, row), UNCHANGED inserted
    PROVE  /\ Processes' /\ Others(w)
           /\ pc'[w] = next /\ call'[w].pair = p /\ call'[w].row = row /\ inserted'[w] = {}
PROOF
<1>1. [pair |-> p, row |-> row] \in Calls
  BY DEF Calls
<1>2. /\ pc' = [pc EXCEPT ![w] = next]
      /\ call' = [call EXCEPT ![w] = [pair |-> p, row |-> row]]
  BY DEF Goto
<1>3. Others(w)
  BY <1>2 DEF Others, TypeOK
<1>4. /\ pc'[w] = next /\ call'[w] = [pair |-> p, row |-> row] /\ inserted'[w] = {}
      /\ call'[w] # NoCall
  BY <1>1, <1>2 DEF TypeOK
<1>5. pc' \in [Workers -> States] /\ call' \in [Workers -> Calls \cup {NoCall}]
  BY <1>1, <1>2 DEF TypeOK, States
<1>6. \A v \in Workers : /\ pc'[v] = "idle" <=> call'[v] = NoCall
                         /\ inserted'[v] # {} => pc'[v] \in {"mirror", "commit"}
  BY <1>3, <1>4 DEF Others, TypeOK
<1> QED
  BY <1>3, <1>4, <1>5, <1>6 DEF Processes, TypeOK

LEMMA DoneDoes ==
    ASSUME TypeOK, NEW w \in Workers, Done(w)
    PROVE  Processes' /\ Others(w) /\ pc'[w] = "idle" /\ inserted'[w] = {}
PROOF
<1>1. /\ pc' = [pc EXCEPT ![w] = "idle"]
      /\ call' = [call EXCEPT ![w] = NoCall]
      /\ inserted' = [inserted EXCEPT ![w] = {}]
  BY DEF Done
<1>2. Others(w)
  BY <1>1 DEF Others, TypeOK
<1>3. pc'[w] = "idle" /\ call'[w] = NoCall /\ inserted'[w] = {}
  BY <1>1 DEF TypeOK
<1>4. /\ pc' \in [Workers -> States] /\ call' \in [Workers -> Calls \cup {NoCall}]
      /\ inserted' \in [Workers -> SUBSET Pairs]
  BY <1>1 DEF TypeOK, States
<1>5. \A v \in Workers : /\ pc'[v] = "idle" <=> call'[v] = NoCall
                         /\ inserted'[v] # {} => pc'[v] \in {"mirror", "commit"}
  BY <1>2, <1>3 DEF Others, TypeOK
<1> QED
  BY <1>2, <1>3, <1>4, <1>5 DEF Processes

LEMMA CreatingFinite ==
    IsFiniteSet(Creating) /\ Cardinality(Creating) \in Nat
PROOF
<1>1. Creating \subseteq Workers
  BY DEF Creating
<1> QED
  BY <1>1, FS_Subset, FS_CardinalityType

\* Nobody starts to create a request.
LEMMA BudgetKept ==
    ASSUME TypeOK, Budget, UNCHANGED asked, NEW w \in Workers, Others(w),
           pc'[w] \in {"exists", "create"} => pc[w] \in {"exists", "create"}
    PROVE  Budget'
PROOF
<1>1. Creating' \subseteq Creating
  BY DEF Creating, Others
<1>2. Cardinality(Creating') <= Cardinality(Creating) /\ Cardinality(Creating') \in Nat
  BY <1>1, CreatingFinite, FS_Subset, FS_CardinalityType
<1>3. Len(asked) \in Nat
  BY DEF TypeOK
<1>4. (Cardinality(Creating))' = Cardinality(Creating')
  OBVIOUS
<1> QED
  BY <1>2, <1>3, <1>4, CreatingFinite DEF Budget

\* Others go on undisturbed when requests and rows are only added and rows of
\* friendships that go are recorded as removed.
LEMMA OthersWork ==
    ASSUME AllWorking, NEW w \in Workers, Others(w),
           DOMAIN asked \subseteq DOMAIN asked', met \subseteq met',
           friends \cup removed \subseteq friends' \cup removed',
           Working(w)'
    PROVE  AllWorking'
PROOF
<1> SUFFICES ASSUME NEW v \in Workers, v # w PROVE Working(v)'
  BY DEF AllWorking
<1>1. Working(v) /\ pc'[v] = pc[v] /\ call'[v] = call[v] /\ inserted'[v] = inserted[v]
  BY DEF AllWorking, Others
<1>2. \A p : Passed(v, p) => Passed(v, p)'
  BY <1>1 DEF Passed
<1> QED
  BY <1>1, <1>2 DEF Working

LEMMA IdleWorks ==
    ASSUME NEW w \in Workers, pc'[w] = "idle", inserted'[w] = {}
    PROVE  Working(w)'
PROOF
  BY DEF Working

\* A worker ends its call and no table changes.
LEMMA JustDone ==
    ASSUME Inv, NEW w \in Workers, Done(w), UNCHANGED Tables
    PROVE  Inv'
PROOF
<1>1. Processes' /\ Others(w) /\ pc'[w] = "idle" /\ inserted'[w] = {}
  BY DoneDoes DEF Inv
<1>2. TypeOK'
  BY <1>1 DEF Inv, TypeOK, Tables, Processes, States
<1>3. Budget'
  BY <1>1, BudgetKept DEF Inv, Tables
<1>4. Working(w)'
  BY <1>1, IdleWorks
<1>5. AllWorking'
  BY <1>1, <1>4, OthersWork DEF Inv, Tables
<1> QED
  BY <1>2, <1>3, <1>5 DEF Inv, MetBoth, Tables

\* A worker takes or continues a call, and no table changes.
LEMMA JustGoes ==
    ASSUME Inv, NEW w \in Workers, NEW next \in {"create", "insert", "remove"},
           NEW p \in Pairs, NEW row \in 0..MaxRequests,
           pc[w] \in {"idle", "exists"}, Goto(w, next, p, row), UNCHANGED <<Tables, inserted>>,
           next = "create" => pc[w] = "exists",
           next = "insert" => row \in DOMAIN asked,
           next = "remove" => p \in met
    PROVE  Inv'
PROOF
<1>1. /\ Processes' /\ Others(w)
      /\ pc'[w] = next /\ call'[w].pair = p /\ call'[w].row = row /\ inserted'[w] = {}
  BY GotoDoes DEF Inv
<1>2. TypeOK'
  BY <1>1 DEF Inv, TypeOK, Tables, Processes, States
<1>3. Budget'
  BY <1>1, BudgetKept DEF Inv, Tables
<1>4. Working(w)'
  BY <1>1 DEF Working, Tables
<1>5. AllWorking'
  BY <1>1, <1>4, OthersWork DEF Inv, Tables
<1> QED
  BY <1>2, <1>3, <1>5 DEF Inv, MetBoth, Tables

-----------------------------------------------------------------------------
(* The steps.                                                              *)

LEMMA InvInit == Init => Inv
PROOF
<1> SUFFICES ASSUME Init PROVE Inv
  OBVIOUS
<1>1. Creating = {} /\ Len(asked) = 0
  BY DEF Init, Creating
<1>2. Budget
  BY <1>1, FS_EmptySet DEF Budget
<1>3. TypeOK
  BY DEF Init, TypeOK
<1> QED
  BY <1>2, <1>3 DEF Init, Inv, AllWorking, Working, MetBoth

LEMMA InvAdd ==
    ASSUME Inv, NEW w \in Workers, NEW p \in Pairs, Add(w, p)
    PROVE  Inv'
PROOF
<1>1. /\ pc[w] = "idle" /\ Len(asked) + Cardinality(Creating) < MaxRequests
      /\ Goto(w, "exists", p, 0) /\ UNCHANGED <<Tables, inserted>>
  BY DEF Add
<1>2. /\ Processes' /\ Others(w)
      /\ pc'[w] = "exists" /\ call'[w].pair = p /\ call'[w].row = 0 /\ inserted'[w] = {}
  BY <1>1, GotoDoes DEF Inv
<1>3. TypeOK'
  BY <1>1, <1>2 DEF Inv, TypeOK, Tables, Processes, States
<1>4. Budget'
  <2>1. Creating' = Creating \cup {w} /\ w \notin Creating
    BY <1>1, <1>2 DEF Creating, Others
  <2>2. Cardinality(Creating') = Cardinality(Creating) + 1
    BY <2>1, CreatingFinite, FS_AddElement
  <2>3. Len(asked) \in Nat /\ asked' = asked
    BY <1>1 DEF Inv, TypeOK, Tables
  <2> QED
    BY <1>1, <2>2, <2>3, CreatingFinite DEF Budget
<1>5. Working(w)'
  BY <1>2 DEF Working
<1>6. AllWorking'
  BY <1>1, <1>2, <1>5, OthersWork DEF Inv, Tables
<1> QED
  BY <1>1, <1>3, <1>4, <1>6 DEF Inv, MetBoth, Tables

\* The request that AddCreate creates is the last and the only one of its
\* source and destination.
LEMMA Created ==
    ASSUME Inv, NEW w \in Workers, AddCreate(w)
    PROVE  LET p == call[w].pair
           IN  /\ p \in Pairs /\ Done(w)
               /\ UNCHANGED <<friends, answered, met, removed>>
               /\ \/ /\ asked' = Append(asked, p) /\ Len(asked) < MaxRequests
                     /\ DOMAIN asked' = DOMAIN asked \cup {Len(asked) + 1}
                     /\ Len(asked) + 1 \notin DOMAIN asked
                     /\ \A i \in DOMAIN asked : asked'[i] = asked[i]
                     /\ asked'[Len(asked) + 1] = p
                     /\ requests' = requests \cup {Len(asked) + 1}
                     /\ RowsOf(p) = {}
                  \/ UNCHANGED <<asked, requests>>
PROOF
<1> DEFINE p == call[w].pair
<1>1. /\ pc[w] = "create" /\ Done(w) /\ UNCHANGED <<friends, answered, met, removed>>
      /\ \/ asked' = Append(asked, p) /\ requests' = requests \cup {Len(asked) + 1} /\ Unique(p)
         \/ UNCHANGED <<asked, requests>>
  BY DEF AddCreate
<1>2. p \in Pairs /\ asked \in Seq(Pairs) /\ Len(asked) \in Nat
  BY <1>1, Answers DEF Inv, TypeOK
<1>3. Len(asked) < MaxRequests
  <2>1. w \in Creating
    BY <1>1 DEF Creating
  <2>2. Cardinality(Creating) # 0
    BY <2>1, CreatingFinite, FS_EmptySet
  <2> QED
    BY <1>2, <2>2, CreatingFinite DEF Inv, Budget
<1> HIDE DEF p
<1>4. asked' = Append(asked, p) =>
         /\ DOMAIN asked' = DOMAIN asked \cup {Len(asked) + 1}
         /\ Len(asked) + 1 \notin DOMAIN asked
         /\ \A i \in DOMAIN asked : asked'[i] = asked[i]
         /\ asked'[Len(asked) + 1] = p
  BY <1>2
<1>5. p = call[w].pair
  BY DEF p
<1> QED
  BY <1>1, <1>2, <1>3, <1>4, <1>5 DEF Unique

LEMMA InvAddCreate ==
    ASSUME Inv, NEW w \in Workers, AddCreate(w)
    PROVE  Inv'
PROOF
<1>1. CASE UNCHANGED <<asked, requests>>
  BY <1>1, Created, JustDone DEF Tables
<1>2. CASE asked' # asked
  <2> DEFINE p == call[w].pair
  <2>1. /\ p \in Pairs /\ Done(w)
        /\ UNCHANGED <<friends, answered, met, removed>>
        /\ asked' = Append(asked, p) /\ Len(asked) < MaxRequests
        /\ DOMAIN asked' = DOMAIN asked \cup {Len(asked) + 1}
        /\ requests' = requests \cup {Len(asked) + 1}
    BY <1>2, Created
  <2> HIDE DEF p
  <2>2. Processes' /\ Others(w) /\ pc'[w] = "idle" /\ inserted'[w] = {}
    BY <2>1, DoneDoes DEF Inv
  <2>3. /\ asked' \in Seq(Pairs) /\ Len(asked') = Len(asked) + 1 /\ Len(asked) \in Nat
    BY <2>1 DEF Inv, TypeOK
  <2>4. TypeOK'
    <3>1. requests' \subseteq DOMAIN asked' /\ answered' \subseteq (DOMAIN asked') \X {"accepted", "rejected"}
      BY <2>1 DEF Inv, TypeOK
    <3> QED
      BY <2>1, <2>2, <2>3, <3>1 DEF Inv, TypeOK, Processes, States
  <2>5. Budget'
    <3>1. w \in Creating /\ Creating' = Creating \ {w}
      BY <2>2 DEF AddCreate, Creating, Others
    <3>2. Cardinality(Creating') = Cardinality(Creating) - 1
      BY <3>1, CreatingFinite, FS_RemoveElement
    <3> QED
      BY <2>3, <3>2, CreatingFinite DEF Inv, Budget
  <2>6. Working(w)'
    BY <2>2, IdleWorks
  <2>7. AllWorking'
    BY <2>1, <2>2, <2>6, OthersWork DEF Inv
  <2> QED
    BY <2>1, <2>4, <2>5, <2>7 DEF Inv, MetBoth
<1> QED
  BY <1>1, <1>2, Created

LEMMA InvInsert ==
    ASSUME Inv, NEW w \in Workers, AcceptInsert(w) \/ AcceptMirror(w)
    PROVE  Inv'
PROOF
<1> DEFINE p == call[w].pair
           row == IF pc[w] = "insert" THEN p ELSE Mirror(p)
           to == IF pc[w] = "insert" THEN "mirror" ELSE "commit"
<1>1. /\ pc[w] \in {"insert", "mirror"} /\ UNCHANGED <<Tables, call>>
      /\ inserted' = [inserted EXCEPT ![w] = @ \cup ({row} \ friends)]
      /\ pc' = [pc EXCEPT ![w] = to]
  BY DEF AcceptInsert, AcceptMirror, Insert, Wanted
<1>2. p \in Pairs /\ Mirror(p) \in Pairs /\ row \in {p, Mirror(p)}
  BY <1>1, Answers, MirrorTwice DEF Inv
<1>3. /\ pc'[w] = to /\ inserted'[w] = inserted[w] \cup ({row} \ friends)
      /\ to \in {"mirror", "commit"} /\ Others(w) /\ call'[w] = call[w]
  BY <1>1 DEF Inv, TypeOK, Others
<1>4. inserted' \in [Workers -> SUBSET Pairs] /\ pc' \in [Workers -> States]
  BY <1>1, <1>2 DEF Inv, TypeOK, States
<1>5. Processes'
  <2>1. \A v \in Workers : /\ pc'[v] = "idle" <=> call'[v] = NoCall
                           /\ inserted'[v] # {} => pc'[v] \in {"mirror", "commit"}
    BY <1>1, <1>3 DEF Others, Inv, TypeOK
  <2> QED
    BY <1>1, <1>4, <2>1 DEF Processes, Inv, TypeOK
<1>6. TypeOK'
  BY <1>1, <1>5 DEF Inv, TypeOK, Tables, Processes, States
<1>7. Budget'
  BY <1>1, <1>3, BudgetKept DEF Inv, Tables
<1>8. Working(w)'
  <2>1. Working(w) /\ UNCHANGED <<asked, met, friends, removed>>
    BY <1>1 DEF Inv, AllWorking, Tables
  <2>2. friends \subseteq met
    BY DEF Inv, TypeOK
  <2>3. \A q : Passed(w, q) \/ q = row => Passed(w, q)'
    BY <1>3, <2>1, <2>2 DEF Passed
  <2>4. inserted'[w] \subseteq {p, Mirror(p)}
    BY <1>2, <1>3, <2>1 DEF Working
  <2>5. CASE pc[w] = "insert"
    BY <1>3, <2>1, <2>3, <2>4, <2>5 DEF Working
  <2>6. CASE pc[w] = "mirror"
    BY <1>3, <2>1, <2>3, <2>4, <2>6 DEF Working
  <2> QED
    BY <1>1, <2>5, <2>6
<1>9. AllWorking'
  BY <1>1, <1>3, <1>8, OthersWork DEF Inv, Tables
<1> QED
  BY <1>1, <1>6, <1>7, <1>9 DEF Inv, MetBoth, Tables

\* What an acceptance commits: both rows, or what is missing was removed.
LEMMA Commits ==
    ASSUME Inv, NEW w \in Workers, pc[w] = "commit"
    PROVE  /\ call[w].row \in DOMAIN asked
           /\ inserted[w] \subseteq Pairs
           /\ \A p \in inserted[w] : /\ Mirror(p) \in inserted[w] \cup met
                                     /\ Mirror(p) \in inserted[w] \cup friends \cup removed
PROOF
<1>1. Working(w) /\ inserted[w] \subseteq Pairs
  BY DEF Inv, AllWorking, TypeOK
<1>2. call[w].pair \in Pairs
  BY Answers DEF Inv
<1>3. Mirror(Mirror(call[w].pair)) = call[w].pair
  BY <1>2, MirrorTwice
<1> QED
  BY <1>1, <1>3 DEF Working, Passed

LEMMA InvCommit ==
    ASSUME Inv, NEW w \in Workers, AcceptCommit(w)
    PROVE  Inv'
PROOF
<1>1. /\ pc[w] = "commit" /\ requests' = requests \ {call[w].row}
      /\ friends' = friends \cup inserted[w] /\ met' = met \cup inserted[w]
      /\ answered' = answered \cup {<<call[w].row, "accepted">>}
      /\ Done(w) /\ UNCHANGED <<asked, removed>>
  BY DEF AcceptCommit, RequestDeleted
<1>2. Processes' /\ Others(w) /\ pc'[w] = "idle" /\ inserted'[w] = {}
  BY <1>1, DoneDoes DEF Inv
<1>3. TypeOK'
  BY <1>1, <1>2, Commits DEF Inv, TypeOK, Processes, States
<1>4. Budget'
  BY <1>1, <1>2, BudgetKept DEF Inv
<1>5. Working(w)'
  BY <1>2, IdleWorks
<1>6. AllWorking'
  BY <1>1, <1>2, <1>5, OthersWork DEF Inv
<1>7. MetBoth'
  BY <1>1, Commits DEF Inv, MetBoth
<1> QED
  BY <1>3, <1>4, <1>6, <1>7 DEF Inv

LEMMA InvReject ==
    ASSUME Inv, NEW w \in Workers, NEW p \in Pairs, Reject(w, p)
    PROVE  Inv'
PROOF
<1>1. /\ requests' \subseteq requests
      /\ answered' = answered \cup {<<i, "rejected">> : i \in RowsOf(p)}
      /\ UNCHANGED <<asked, friends, met, removed, pc, call, inserted>>
  BY DEF Reject
<1>2. RowsOf(p) \subseteq DOMAIN asked
  BY DEF RowsOf, Inv, TypeOK
<1>3. answered' \subseteq (DOMAIN asked) \X {"accepted", "rejected"}
  BY <1>1, <1>2 DEF Inv, TypeOK
<1>4. TypeOK'
  BY <1>1, <1>3 DEF Inv, TypeOK
<1>5. Budget'
  BY <1>1 DEF Inv, Budget, Creating
<1>6. AllWorking'
  BY <1>1 DEF Inv, AllWorking, Working, Passed
<1> QED
  BY <1>1, <1>4, <1>5, <1>6 DEF Inv, MetBoth

LEMMA InvRemoveDelete ==
    ASSUME Inv, NEW w \in Workers, RemoveDelete(w)
    PROVE  Inv'
PROOF
<1> DEFINE both == {call[w].pair, Mirror(call[w].pair)}
<1>1. /\ pc[w] = "remove" /\ friends' = friends \ both /\ removed' = removed \cup both
      /\ Done(w) /\ UNCHANGED <<asked, requests, answered, met>>
  BY DEF RemoveDelete
<1>2. both \subseteq met
  BY <1>1 DEF Inv, AllWorking, Working, MetBoth
<1> HIDE DEF both
<1>3. Processes' /\ Others(w) /\ pc'[w] = "idle" /\ inserted'[w] = {}
  BY <1>1, DoneDoes DEF Inv
<1>4. TypeOK'
  BY <1>1, <1>2, <1>3 DEF Inv, TypeOK, Processes, States
<1>5. Budget'
  BY <1>1, <1>3, BudgetKept DEF Inv
<1>6. Working(w)'
  BY <1>3, IdleWorks
<1>7. AllWorking'
  BY <1>1, <1>3, <1>6, OthersWork DEF Inv
<1> QED
  BY <1>1, <1>4, <1>5, <1>7 DEF Inv, MetBoth

LEMMA InvNext == Inv /\ [Next]_vars => Inv'
PROOF
<1> SUFFICES ASSUME Inv, [Next]_vars PROVE Inv'
  OBVIOUS
<1>1. ASSUME NEW w \in Workers, AddExists(w) PROVE Inv'
  <2>1. pc[w] = "exists" /\ call[w].pair \in Pairs /\ 0 \in 0..MaxRequests
    BY <1>1, Answers DEF AddExists, Inv
  <2>2. CASE Done(w)
    BY <1>1, <2>2, JustDone DEF AddExists
  <2>3. CASE Goto(w, "create", call[w].pair, 0) /\ UNCHANGED inserted
    <3> PICK p \in Pairs : p = call[w].pair
      BY <2>1
    <3>1. Goto(w, "create", p, 0)
      BY <2>3 DEF Goto
    <3>2. UNCHANGED Tables
      BY <1>1 DEF AddExists
    <3> QED
      BY <2>1, <2>3, <3>1, <3>2, JustGoes
  <2> QED
    BY <1>1, <2>2, <2>3 DEF AddExists
<1>2. ASSUME NEW w \in Workers, NEW p \in Pairs, Accept(w, p) PROVE Inv'
  <2>1. PICK i \in RowsOf(p) : Goto(w, "insert", p, i)
    BY <1>2 DEF Accept
  <2>2. pc[w] = "idle" /\ UNCHANGED <<Tables, inserted>>
    BY <1>2 DEF Accept
  <2>3. i \in DOMAIN asked /\ i \in 0..MaxRequests
    BY DEF RowsOf, Inv, TypeOK
  <2> QED
    BY <2>1, <2>2, <2>3, JustGoes
<1>3. ASSUME NEW w \in Workers, NEW p \in Pairs, Remove(w, p) PROVE Inv'
  <2>1. /\ pc[w] = "idle" /\ Mirror(p) \in met /\ Goto(w, "remove", p, 0)
        /\ UNCHANGED <<Tables, inserted>> /\ 0 \in 0..MaxRequests
    BY <1>3 DEF Remove
  <2>2. p \in met
    BY <2>1, MirrorTwice DEF Inv, MetBoth
  <2> QED
    BY <2>1, <2>2, JustGoes
<1>4. ASSUME NEW w \in Workers, DeadlockVictim(w) \/ Crash(w) PROVE Inv'
  BY <1>4, JustDone DEF DeadlockVictim, Crash
<1>5. CASE UNCHANGED vars
  BY <1>5 DEF vars, Inv, TypeOK, Budget, Creating, AllWorking, Working, Passed, MetBoth
<1> QED
  BY <1>1, <1>2, <1>3, <1>4, <1>5, InvAdd, InvAddCreate, InvInsert, InvCommit, InvReject,
     InvRemoveDelete DEF Next, Step

LEMMA Invariance == Spec => []Inv
PROOF
<1> QED
  BY InvInit, InvNext, PTL DEF Spec

-----------------------------------------------------------------------------
(* The theorems.                                                           *)

\* The variables keep their types; in particular who is removed was met, and
\* only an acceptance under way has rows nobody else sees.
THEOREM TypeCorrect == Spec => []TypeOK
PROOF
<1>1. Inv => TypeOK
  BY DEF Inv
<1> QED
  BY Invariance, <1>1, PTL

\* How the requests and the answers change.
LEMMA Requests ==
    ASSUME Inv, [Next]_vars
    PROVE  \/ \E w \in Workers : AddCreate(w)
           \/ \E w \in Workers : AcceptCommit(w)
           \/ \E w \in Workers, p \in Pairs : Reject(w, p)
           \/ UNCHANGED <<asked, requests, answered>>
PROOF
  BY DEF Next, Step, Add, AddExists, Accept, AcceptInsert, AcceptMirror, Insert, DeadlockVictim,
         Crash, Remove, RemoveDelete, Tables, vars

\* Any number of calls that look for a request and create it at the same time
\* leave one.
THEOREM RequestsAreUnique == Spec => []OneRequest
PROOF
<1>1. Init => OneRequest
  BY DEF Init, OneRequest
<1>2. Inv /\ OneRequest /\ [Next]_vars => OneRequest'
  <2> SUFFICES ASSUME Inv, OneRequest, [Next]_vars PROVE OneRequest'
    OBVIOUS
  <2>1. ASSUME NEW w \in Workers, AddCreate(w) PROVE OneRequest'
    <3>1. requests \subseteq DOMAIN asked
      BY DEF Inv, TypeOK
    <3> QED
      BY <2>1, <3>1, Created DEF OneRequest, RowsOf
  <2>2. ASSUME asked' = asked, requests' \subseteq requests PROVE OneRequest'
    BY <2>2 DEF OneRequest
  <2> QED
    BY <2>1, <2>2, Requests DEF AcceptCommit, RequestDeleted, Reject
<1> QED
  BY Invariance, <1>1, <1>2, PTL DEF Spec

\* An answered request does not come back.
THEOREM AnswersAreFinal == Spec => []AnsweredIsGone
PROOF
<1>1. Init => AnsweredIsGone
  BY DEF Init, AnsweredIsGone
<1>2. Inv /\ AnsweredIsGone /\ [Next]_vars => AnsweredIsGone'
  <2> SUFFICES ASSUME Inv, AnsweredIsGone, [Next]_vars PROVE AnsweredIsGone'
    OBVIOUS
  <2>1. ASSUME NEW w \in Workers, AddCreate(w) PROVE AnsweredIsGone'
    <3>1. \A a \in answered : a[1] \in DOMAIN asked
      BY DEF Inv, TypeOK
    <3> QED
      BY <2>1, <3>1, Created DEF AnsweredIsGone
  <2>2. ASSUME NEW w \in Workers, AcceptCommit(w) PROVE AnsweredIsGone'
    BY <2>2 DEF AcceptCommit, RequestDeleted, AnsweredIsGone
  <2>3. ASSUME NEW w \in Workers, NEW p \in Pairs, Reject(w, p) PROVE AnsweredIsGone'
    BY <2>3 DEF Reject, AnsweredIsGone
  <2>4. CASE UNCHANGED <<asked, requests, answered>>
    BY <2>4 DEF AnsweredIsGone
  <2> QED
    BY <2>1, <2>2, <2>3, <2>4, Requests
<1> QED
  BY Invariance, <1>1, <1>2, PTL DEF Spec

\* Acceptances that interleave, abort or die leave no half of a friendship:
\* where one row is missing, somebody has removed it.
THEOREM FriendsBothWays == Spec => []AcceptedTogether
PROOF
<1>1. Init => AcceptedTogether
  BY DEF Init, AcceptedTogether
<1>2. Inv /\ AcceptedTogether /\ [Next]_vars => AcceptedTogether'
  <2> SUFFICES ASSUME Inv, AcceptedTogether, [Next]_vars PROVE AcceptedTogether'
    OBVIOUS
  <2>1. ASSUME NEW w \in Workers, AcceptCommit(w) PROVE AcceptedTogether'
    BY <2>1, Commits DEF AcceptCommit, AcceptedTogether
  <2>2. ASSUME NEW w \in Workers, RemoveDelete(w) PROVE AcceptedTogether'
    BY <2>2 DEF RemoveDelete, AcceptedTogether
  <2>3. \/ \E w \in Workers : AcceptCommit(w) \/ RemoveDelete(w)
        \/ UNCHANGED <<friends, removed>>
    BY DEF Next, Step, Add, AddExists, AddCreate, Accept, AcceptInsert, AcceptMirror, Insert,
           DeadlockVictim, Crash, Reject, Remove, Tables, vars
  <2> QED
    BY <2>1, <2>2, <2>3 DEF AcceptedTogether
<1> QED
  BY Invariance, <1>1, <1>2, PTL DEF Spec

-----------------------------------------------------------------------------
(* Waiting for rows.                                                       *)

\* Rows not committed yet: no two acceptances have inserted the same one, and
\* one that is about to insert the mirror row has inserted at most the other.
Rows ==
    /\ \A v, w \in Workers : v # w => inserted[v] \cap inserted[w] = {}
    /\ \A w \in Workers : pc[w] = "mirror" => inserted[w] \subseteq {call[w].pair}

\* Chains of waiting acceptances are short: who waits for one that waits too
\* waits for one that goes on next but one, or the two ahead of it are the cycle
\* of two that InDeadlock looks for.  There are no longer cycles.
WaitsAreShort ==
    \A w, v, u \in Workers :
        WaitsFor(w, v) /\ WaitsFor(v, u)
        => InDeadlock(v) \/ \A x \in Workers : ~WaitsFor(u, x)

LEMMA RowsKept ==
    ASSUME Inv, Rows, NEW w \in Workers, Others(w),
           inserted'[w] \in {{}, inserted[w]}, pc'[w] = "mirror" => inserted'[w] = {}
    PROVE  Rows'
PROOF
  BY DEF Rows, Others

LEMMA RowsInsert ==
    ASSUME Inv, Rows, NEW w \in Workers, AcceptInsert(w) \/ AcceptMirror(w)
    PROVE  Rows'
PROOF
<1>1. /\ pc[w] \in {"insert", "mirror"}
      /\ \A v \in Workers : ~WaitsFor(w, v)
      /\ call' = call
      /\ Others(w)
      /\ inserted'[w] = inserted[w] \cup (Wanted(w) \ friends)
      /\ pc'[w] = IF pc[w] = "insert" THEN "mirror" ELSE "commit"
  BY DEF AcceptInsert, AcceptMirror, Insert, Inv, TypeOK, Others
<1>2. ASSUME NEW v \in Workers \ {w}
      PROVE  inserted'[w] \cap inserted'[v] = {}
  <2>1. Wanted(w) \cap inserted[v] = {} /\ inserted[w] \cap inserted[v] = {}
    BY <1>1 DEF WaitsFor, Rows
  <2> QED
    BY <1>1, <2>1 DEF Others
<1>3. pc'[w] = "mirror" => inserted'[w] \subseteq {call'[w].pair}
  BY <1>1 DEF Wanted, Inv, TypeOK
<1> QED
  BY <1>1, <1>2, <1>3 DEF Rows, Others

LEMMA RowsNext == Inv /\ Rows /\ [Next]_vars => Rows'
PROOF
<1> SUFFICES ASSUME Inv, Rows, [Next]_vars PROVE Rows'
  OBVIOUS
<1>1. ASSUME NEW w \in Workers, Done(w) PROVE Rows'
  BY <1>1, RowsKept DEF Done, Others, Inv, TypeOK
<1>2. ASSUME NEW w \in Workers, NEW next, NEW p, NEW row, pc[w] \notin {"mirror", "commit"},
             next # "mirror", Goto(w, next, p, row), UNCHANGED inserted
      PROVE  Rows'
  BY <1>2, RowsKept DEF Goto, Others, Inv, TypeOK
<1>3. ASSUME NEW w \in Workers, NEW p \in Pairs, Add(w, p)
      PROVE  Rows'
  BY <1>2, <1>3 DEF Add, Tables
<1>4. ASSUME NEW w \in Workers, AddExists(w)
      PROVE  Rows'
  BY <1>1, <1>2, <1>4 DEF AddExists
<1>5. ASSUME NEW w \in Workers, AddCreate(w) \/ AcceptCommit(w) \/ RemoveDelete(w)
                                \/ DeadlockVictim(w) \/ Crash(w)
      PROVE  Rows'
  BY <1>1, <1>5 DEF AddCreate, AcceptCommit, RemoveDelete, DeadlockVictim, Crash
<1>6. ASSUME NEW w \in Workers, NEW p \in Pairs, Accept(w, p) \/ Remove(w, p)
      PROVE  Rows'
  BY <1>2, <1>6 DEF Accept, Remove
<1>7. ASSUME UNCHANGED <<pc, call, inserted>>
      PROVE  Rows'
  BY <1>7 DEF Rows
<1>8. ASSUME NEW w \in Workers, NEW p \in Pairs, Reject(w, p)
      PROVE  Rows'
  BY <1>7, <1>8 DEF Reject
<1>9. CASE UNCHANGED vars
  BY <1>7, <1>9 DEF vars
<1> QED
  BY <1>3, <1>4, <1>5, <1>6, <1>8, <1>9, RowsInsert DEF Next, Step

\* Who waits at the mirror row waits for one who has inserted it: as the first
\* of two rows, who then wants the row of the other, or as the second, who is
\* ready to commit.
LEMMA ShortWaits == Inv /\ Rows => WaitsAreShort
PROOF
<1> SUFFICES ASSUME Inv, Rows, NEW w \in Workers, NEW v \in Workers, NEW u \in Workers,
                    WaitsFor(w, v), WaitsFor(v, u), NEW x \in Workers, WaitsFor(u, x)
             PROVE  InDeadlock(v)
  BY DEF WaitsAreShort
<1>1. /\ inserted[v] # {} /\ inserted[u] # {}
      /\ Wanted(v) # {} /\ Wanted(u) # {}
      /\ u # v
  BY DEF WaitsFor
<1>2. pc[v] = "mirror" /\ pc[u] = "mirror"
  BY <1>1 DEF Wanted, Inv, TypeOK
<1> DEFINE p == call[v].pair
           q == call[u].pair
<1>3. p \in Pairs /\ q \in Pairs
  BY <1>2, Answers DEF Inv
<1>4. inserted[v] = {p} /\ inserted[u] = {q}
  BY <1>1, <1>2 DEF Rows
<1>5. Wanted(v) = {Mirror(p)} /\ Wanted(u) = {Mirror(q)}
  BY <1>2 DEF Wanted
<1>6. Mirror(p) = q
  BY <1>4, <1>5 DEF WaitsFor
<1>7. Mirror(q) = p
  BY <1>3, <1>6, MirrorTwice
<1> QED
  BY <1>1, <1>4, <1>5, <1>6, <1>7 DEF InDeadlock, WaitsFor

\* Acceptances never wait in a longer chain or cycle than the model of
\* PostgreSQL's deadlock detection sees, for any number of processes and users.
THEOREM WaitsEnd == Spec => []WaitsAreShort
PROOF
<1>1. Init => Rows
  BY DEF Init, Rows
<1> QED
  BY <1>1, Invariance, RowsNext, ShortWaits, PTL DEF Spec

=============================================================================
