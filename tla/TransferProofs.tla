--------------------------- MODULE TransferProofs ---------------------------
(***************************************************************************)
(* Theorems about Transfer, for any number of workers, calls, accounts and *)
(* amounts.                                                                *)
(***************************************************************************)
EXTENDS Transfer, FiniteSetTheorems, TLAPS

-----------------------------------------------------------------------------
(* Tables of row versions.                                                 *)

\* A table of versions maps some of the numbers to balances.
LEMMA VersionsType ==
    ASSUME NEW f \in Versions
    PROVE  /\ DOMAIN f \subseteq Numbers
           /\ f \in [DOMAIN f -> 0..MaxBalance]
           /\ \A n \in DOMAIN f : f[n] \in 0..MaxBalance /\ f[n] \in Int
PROOF
<1>1. PICK S \in SUBSET Numbers : f \in [S -> 0..MaxBalance]
  BY DEF Versions
<1>2. DOMAIN f = S
  BY <1>1
<1>3. MaxBalance \in Nat
  BY TransferAssumption
<1> QED
  BY <1>1, <1>2, <1>3

\* Any function from a set of numbers to balances is a table of versions.
LEMMA VersionsIntro ==
    ASSUME NEW S, NEW f, S \subseteq Numbers, f \in [S -> 0..MaxBalance]
    PROVE  f \in Versions
PROOF
  BY DEF Versions

\* The empty table is one.
LEMMA NoRowsType == NoRows \in Versions /\ DOMAIN NoRows = {}
PROOF
<1>1. NoRows \in [{} -> 0..MaxBalance]
  BY DEF NoRows
<1>2. DOMAIN NoRows = {}
  BY DEF NoRows
<1> QED
  BY <1>1, <1>2, VersionsIntro

-----------------------------------------------------------------------------
(* Type correctness.                                                       *)

\* A worker that is not idle has a row to declare.
Busy == \A w \in Workers : pc[w] # "idle" => request[w] \in Rows

TypeInv == TypeOK /\ Busy

\* A row has these fields.
LEMMA RowType ==
    ASSUME NEW t \in Rows
    PROVE  /\ t.id \in Ids
           /\ t.source \in Numbers
           /\ t.destination \in Numbers
           /\ t.accrual \in Amounts
           /\ t.accrual \in Nat
           /\ t.accrual > 0
           /\ PhotoOf(t) \subseteq Photos
PROOF
<1>1. Amounts \subseteq Nat \ {0}
  BY TransferAssumption
<1>2. /\ t.id \in Ids
      /\ t.source \in Numbers
      /\ t.destination \in Numbers
      /\ t.accrual \in Amounts
      /\ t.photo \in Photos \cup {NoPhoto}
  BY DEF Rows, Books!Rows
<1>3. PhotoOf(t) \subseteq Photos
  BY <1>2 DEF PhotoOf
<1>4. t.accrual \in Nat /\ t.accrual # 0
  BY <1>1, <1>2
<1>5. t.accrual > 0
  BY <1>4
<1> QED
  BY <1>2, <1>3, <1>4, <1>5

\* The initial state has the types.
LEMMA TypeInit == Init => TypeInv
PROOF
<1> SUFFICES ASSUME Init PROVE TypeInv
  OBVIOUS
<1>1. Opening \in Versions
  BY TransferAssumption, VersionsIntro
<1>2. balance \in Versions
  BY <1>1 DEF Init
<1>3. dirty \in [Workers -> Versions]
  BY NoRowsType DEF Init
<1>4. transactions \subseteq Rows /\ issued \subseteq Numbers /\ media \subseteq Photos
  BY TransferAssumption DEF Init
<1>5. /\ pc \in [Workers -> {"idle", "subtract", "accrue", "declare", "commit"}]
      /\ request \in [Workers -> Rows \cup {NoRequest}]
      /\ outcome \in [Ids -> {"new", "running", "done", "failed", "error"}]
      /\ Busy
  BY DEF Init, Busy
<1> QED
  BY <1>2, <1>3, <1>4, <1>5 DEF TypeInv, TypeOK

\* The end of a call keeps the types of what it changes.
LEMMA FinishType ==
    ASSUME TypeInv, NEW w \in Workers, NEW result \in {"done", "failed", "error"},
           Finish(w, result)
    PROVE  /\ pc' \in [Workers -> {"idle", "subtract", "accrue", "declare", "commit"}]
           /\ request' \in [Workers -> Rows \cup {NoRequest}]
           /\ dirty' \in [Workers -> Versions]
           /\ outcome' \in [Ids -> {"new", "running", "done", "failed", "error"}]
           /\ Busy'
PROOF
<1>1. dirty' \in [Workers -> Versions]
  BY NoRowsType DEF TypeInv, TypeOK, Finish
<1>2. /\ pc' \in [Workers -> {"idle", "subtract", "accrue", "declare", "commit"}]
      /\ request' \in [Workers -> Rows \cup {NoRequest}]
  BY DEF TypeInv, TypeOK, Finish
<1>3. outcome' \in [Ids -> {"new", "running", "done", "failed", "error"}]
  BY DEF TypeInv, TypeOK, Finish
<1>4. Busy'
  <2> SUFFICES ASSUME NEW v \in Workers, pc'[v] # "idle"
               PROVE  request'[v] \in Rows
    BY DEF Busy
  <2>1. v # w
    BY DEF Finish, TypeInv, TypeOK
  <2>2. pc'[v] = pc[v] /\ request'[v] = request[v]
    BY <2>1 DEF Finish, TypeInv, TypeOK
  <2> QED
    BY <2>2 DEF TypeInv, Busy
<1> QED
  BY <1>1, <1>2, <1>3, <1>4


\* Neither does a rollback disturb the committed tables.
LEMMA RollbackType ==
    ASSUME TypeInv, NEW w \in Workers, NEW result \in {"failed", "error"},
           Rollback(w, result), UNCHANGED media
    PROVE  TypeInv'
PROOF
<1>1. Finish(w, result) /\ UNCHANGED <<balance, transactions, issued>>
  BY DEF Rollback
<1>2. balance' \in Versions /\ transactions' \subseteq Rows
      /\ issued' \subseteq Numbers /\ media' \subseteq Photos
  BY <1>1 DEF TypeInv, TypeOK
<1> QED
  BY <1>1, <1>2, FinishType DEF TypeInv, TypeOK

\* A new version of the row n beside those w already holds.
LEMMA UpdateRowType ==
    ASSUME TypeInv, NEW w \in Workers, pc[w] # "idle",
           NEW n \in Numbers, NEW delta \in Int,
           NEW next \in {"accrue", "declare"}, UpdateRow(w, n, delta, next)
    PROVE  /\ TypeInv'
           /\ Held(w)' = Held(w) \cup {n}
           /\ dirty'[w][n] = Version(w, n) + delta
           /\ dirty'[w][n] \in 0..MaxBalance
           /\ \A m \in Held(w) : m # n => dirty'[w][m] = dirty[w][m]
           /\ \A v \in Workers : v # w => dirty'[v] = dirty[v]
PROOF
<1> DEFINE new == Version(w, n) + delta
           table == [m \in Held(w) \cup {n} |-> IF m = n THEN new ELSE dirty[w][m]]
<1>0. dirty \in [Workers -> Versions] /\ balance \in Versions /\ MaxBalance \in Nat
  BY TransferAssumption DEF TypeInv, TypeOK
<1>1. /\ n \in Accounts
      /\ FitsColumn(new)
      /\ CheckBalance(new)
      /\ dirty' = [dirty EXCEPT ![w] = table]
      /\ pc' = [pc EXCEPT ![w] = next]
      /\ UNCHANGED <<balance, transactions, issued, media, request, outcome>>
  BY DEF UpdateRow
<1>2. new \in 0..MaxBalance
  <2>1. new \in -MaxBalance..MaxBalance /\ new >= 0
    BY <1>1 DEF FitsColumn, CheckBalance
  <2> QED
    BY <2>1, <1>0
<1>3. /\ Held(w) \subseteq Numbers
      /\ \A m \in Held(w) : dirty[w][m] \in 0..MaxBalance
  <2>1. dirty[w] \in Versions
    BY <1>0
  <2> QED
    BY <2>1, VersionsType DEF Held
<1>4. table \in [Held(w) \cup {n} -> 0..MaxBalance]
  BY <1>2, <1>3
<1>5. table \in Versions
  BY <1>3, <1>4, VersionsIntro
<1>6. dirty' \in [Workers -> Versions] /\ dirty'[w] = table
      /\ \A v \in Workers : v # w => dirty'[v] = dirty[v]
  BY <1>0, <1>1, <1>5
<1>7. Held(w)' = Held(w) \cup {n}
  BY <1>6 DEF Held
<1>8. dirty'[w][n] = new /\ \A m \in Held(w) : m # n => dirty'[w][m] = dirty[w][m]
  BY <1>6
<1>9. pc' \in [Workers -> {"idle", "subtract", "accrue", "declare", "commit"}]
      /\ Busy'
  BY <1>1 DEF TypeInv, TypeOK, Busy
<1>10. TypeInv'
  BY <1>1, <1>6, <1>9 DEF TypeInv, TypeOK
<1> QED
  BY <1>2, <1>6, <1>7, <1>8, <1>10

\* Any outcome of an UPDATE keeps the types.
LEMMA UpdateType ==
    ASSUME TypeInv, NEW w \in Workers, pc[w] # "idle",
           NEW n \in Numbers, NEW delta \in Int,
           NEW next \in {"accrue", "declare"}, Update(w, n, delta, next)
    PROVE  TypeInv'
PROOF
<1>1. CASE UpdateNoRow(w, n, next)
  BY <1>1 DEF UpdateNoRow, TypeInv, TypeOK, Busy
<1>2. CASE UpdateRow(w, n, delta, next)
  BY <1>2, UpdateRowType
<1>3. CASE UpdateFails(w, n, delta)
  <2>1. PICK result \in {"failed", "error"} : Rollback(w, result) /\ UNCHANGED media
    BY <1>3 DEF UpdateFails
  <2> QED
    BY <2>1, RollbackType
<1> QED
  BY <1>1, <1>2, <1>3 DEF Update

\* What COMMIT installs is a table of versions with the same accounts.
LEMMA CommitType ==
    ASSUME TypeInv, NEW w \in Workers, pc[w] # "idle", CommitRows(w)
    PROVE  TypeInv' /\ Accounts' = Accounts
PROOF
<1>1. PICK result \in {"done", "failed", "error"} :
          /\ Finish(w, result)
          /\ balance' = [n \in Accounts |-> Version(w, n)]
          /\ transactions' = transactions \cup {request[w]}
          /\ UNCHANGED <<issued, media>>
  BY DEF CommitRows, CommitResults
<1>2. dirty[w] \in Versions /\ balance \in Versions
  BY DEF TypeInv, TypeOK
<1>3. Accounts \subseteq Numbers
  BY <1>2, VersionsType DEF Accounts
<1>4. \A n \in Accounts : Version(w, n) \in 0..MaxBalance
  BY <1>2, VersionsType DEF Version, Held, Accounts
<1>5. balance' \in [Accounts -> 0..MaxBalance]
  BY <1>1, <1>4
<1>6. balance' \in Versions /\ Accounts' = Accounts
  BY <1>3, <1>5, VersionsIntro DEF Accounts
<1>7. transactions' \subseteq Rows
  BY <1>1 DEF TypeInv, TypeOK, Busy
<1>8. issued' \subseteq Numbers /\ media' \subseteq Photos
  BY <1>1 DEF TypeInv, TypeOK
<1> QED
  BY <1>1, <1>6, <1>7, <1>8, FinishType DEF TypeInv, TypeOK

\* Every step keeps the types.
LEMMA TypeNext == TypeInv /\ [Next]_vars => TypeInv'
PROOF
<1> SUFFICES ASSUME TypeInv, [Next]_vars PROVE TypeInv'
  OBVIOUS
<1>1. ASSUME NEW w \in Workers, NEW t \in Rows, Begin(w, t)
      PROVE  TypeInv'
  BY <1>1, RowType DEF Begin, TypeInv, TypeOK, Busy
<1>2. ASSUME NEW w \in Workers, NEW t \in Rows, RestTransfer(w, t) \/ BotConfirm(w, t)
      PROVE  TypeInv'
  BY <1>1, <1>2 DEF RestTransfer, BotConfirm
<1>3. ASSUME NEW w \in Workers, Subtract(w)
      PROVE  TypeInv'
  <2>1. request[w] \in Rows /\ pc[w] # "idle"
    BY <1>3 DEF Subtract, TypeInv, Busy
  <2>2. request[w].source \in Numbers /\ -request[w].accrual \in Int
    BY <2>1, RowType
  <2> QED
    BY <1>3, <2>1, <2>2, UpdateType DEF Subtract
<1>4. ASSUME NEW w \in Workers, Accrue(w)
      PROVE  TypeInv'
  <2>1. request[w] \in Rows /\ pc[w] # "idle"
    BY <1>4 DEF Accrue, TypeInv, Busy
  <2>2. request[w].destination \in Numbers /\ request[w].accrual \in Int
    BY <2>1, RowType
  <2> QED
    BY <1>4, <2>1, <2>2, UpdateType DEF Accrue
<1>5. ASSUME NEW w \in Workers, Declare(w)
      PROVE  TypeInv'
  <2>1. CASE DeclareRow(w)
    <3>1. request[w] \in Rows
      BY <1>5 DEF Declare, TypeInv, Busy
    <3>2. media' \subseteq Photos
      BY <2>1, <3>1, RowType DEF DeclareRow, TypeInv, TypeOK
    <3>3. /\ pc' \in [Workers -> {"idle", "subtract", "accrue", "declare", "commit"}]
          /\ Busy'
      BY <2>1, <3>1 DEF DeclareRow, TypeInv, TypeOK, Busy
    <3> QED
      BY <2>1, <3>2, <3>3 DEF DeclareRow, TypeInv, TypeOK
  <2>2. CASE DeclareFails(w)
    BY <2>2, RollbackType DEF DeclareFails
  <2> QED
    BY <1>5, <2>1, <2>2 DEF Declare
<1>6. ASSUME NEW w \in Workers, Commit(w)
      PROVE  TypeInv'
  <2>1. CASE CommitRows(w)
    BY <1>6, <2>1, CommitType DEF Commit
  <2>2. CASE CommitFails(w)
    BY <2>2, RollbackType DEF CommitFails
  <2> QED
    BY <1>6, <2>1, <2>2 DEF Commit
<1>7. ASSUME NEW w \in Workers, Crash(w) \/ DeadlockVictim(w)
      PROVE  TypeInv'
  BY <1>7, RollbackType DEF Crash, DeadlockVictim
<1>8. ASSUME NEW n \in Numbers, NEW b \in FormBalances, AdminOpen(n, b)
      PROVE  TypeInv'
  <2>1. balance \in Versions /\ b \in 0..MaxBalance
    BY TransferAssumption DEF TypeInv, TypeOK
  <2>2. balance' \in [Accounts \cup {n} -> 0..MaxBalance]
    BY <1>8, <2>1, VersionsType DEF AdminOpen, Accounts
  <2>3. balance' \in Versions
    BY <2>1, <2>2, VersionsType, VersionsIntro DEF Accounts
  <2> QED
    BY <1>8, <2>3 DEF AdminOpen, TypeInv, TypeOK, Busy
<1>9. ASSUME NEW n \in Numbers, NEW b \in FormBalances, AdminSave(n, b)
      PROVE  TypeInv'
  <2>1. balance \in Versions /\ b \in 0..MaxBalance
    BY TransferAssumption DEF TypeInv, TypeOK
  <2>2. balance' \in [Accounts -> 0..MaxBalance]
    BY <1>9, <2>1, VersionsType DEF AdminSave, Accounts
  <2>3. balance' \in Versions
    BY <2>1, <2>2, VersionsType, VersionsIntro DEF Accounts
  <2> QED
    BY <1>9, <2>3 DEF AdminSave, TypeInv, TypeOK, Busy
<1>10. ASSUME NEW n \in Numbers, AdminClose(n)
       PROVE  TypeInv'
  <2>1. balance \in Versions
    BY DEF TypeInv, TypeOK
  <2>2. balance' \in [Accounts \ {n} -> 0..MaxBalance]
    BY <1>10, <2>1, VersionsType DEF AdminClose, Accounts
  <2>3. balance' \in Versions
    BY <2>1, <2>2, VersionsType, VersionsIntro DEF Accounts
  <2>4. transactions' \subseteq Rows /\ media' \subseteq Photos
    BY <1>10 DEF AdminClose, TypeInv, TypeOK
  <2> QED
    BY <1>10, <2>3, <2>4 DEF AdminClose, TypeInv, TypeOK, Busy
<1>11. CASE UNCHANGED vars
  BY <1>11 DEF vars, TypeInv, TypeOK, Busy
<1> QED
  BY <1>2, <1>3, <1>4, <1>5, <1>6, <1>7, <1>8, <1>9, <1>10, <1>11 DEF Next, Statement

\* No balance is ever negative or too wide for its column, committed or not:
\* the CHECK of bank_accounts and numeric(20, 2) hold in every interleaving.
THEOREM TypeCorrect == Spec => []TypeOK
PROOF
<1>1. TypeInv => TypeOK
  BY DEF TypeInv
<1> QED
  BY TypeInit, TypeNext, <1>1, PTL DEF Spec

-----------------------------------------------------------------------------
(* The steps, sorted by what they change.                                  *)

\* Only a call in progress can be rolled back.
RolledBack(w) ==
    /\ pc[w] # "idle"
    /\ \E result \in {"failed", "error"} : Rollback(w, result)
    /\ UNCHANGED media

Subtracted(w) ==
    /\ pc[w] = "subtract"
    /\ \/ UpdateNoRow(w, request[w].source, "accrue")
       \/ UpdateRow(w, request[w].source, -request[w].accrual, "accrue")

Accrued(w) ==
    /\ pc[w] = "accrue"
    /\ \/ UpdateNoRow(w, request[w].destination, "declare")
       \/ UpdateRow(w, request[w].destination, request[w].accrual, "declare")

\* Every way an UPDATE, an INSERT, a COMMIT or the server aborts is a rollback.
LEMMA Steps ==
    ASSUME [Next]_vars
    PROVE  \/ \E w \in Workers, t \in Rows :
                  Begin(w, t) /\ {t.source, t.destination} \subseteq Accounts \cup issued
           \/ \E w \in Workers : RolledBack(w)
           \/ \E w \in Workers : Subtracted(w)
           \/ \E w \in Workers : Accrued(w)
           \/ \E w \in Workers : pc[w] = "declare" /\ DeclareRow(w)
           \/ \E w \in Workers : pc[w] = "commit" /\ CommitRows(w)
           \/ \E n \in Numbers, b \in FormBalances : AdminOpen(n, b)
           \/ \E n \in Numbers, b \in FormBalances : AdminSave(n, b)
           \/ \E n \in Numbers : AdminClose(n)
           \/ UNCHANGED vars
PROOF
<1>1. ASSUME NEW w \in Workers, NEW t \in Rows, RestTransfer(w, t) \/ BotConfirm(w, t)
      PROVE  Begin(w, t) /\ {t.source, t.destination} \subseteq Accounts \cup issued
  BY <1>1 DEF RestTransfer, BotConfirm
<1>2. ASSUME NEW w \in Workers, Subtract(w)
      PROVE  Subtracted(w) \/ RolledBack(w)
  BY <1>2 DEF Subtract, Update, UpdateFails, Subtracted, RolledBack
<1>3. ASSUME NEW w \in Workers, Accrue(w)
      PROVE  Accrued(w) \/ RolledBack(w)
  BY <1>3 DEF Accrue, Update, UpdateFails, Accrued, RolledBack
<1>4. ASSUME NEW w \in Workers, Declare(w)
      PROVE  (pc[w] = "declare" /\ DeclareRow(w)) \/ RolledBack(w)
  BY <1>4 DEF Declare, DeclareFails, RolledBack
<1>5. ASSUME NEW w \in Workers, Commit(w)
      PROVE  (pc[w] = "commit" /\ CommitRows(w)) \/ RolledBack(w)
  BY <1>5 DEF Commit, CommitFails, RolledBack
<1>6. ASSUME NEW w \in Workers, Crash(w)
      PROVE  RolledBack(w)
  BY <1>6 DEF Crash, RolledBack
<1>7. ASSUME NEW w \in Workers, DeadlockVictim(w)
      PROVE  RolledBack(w)
  <2>1. PICK u : WaitsFor(w, u)
    BY <1>7 DEF DeadlockVictim, InDeadlock
  <2>2. Wanted(w) # {}
    BY <2>1 DEF WaitsFor
  <2>3. pc[w] # "idle"
    BY <2>2 DEF Wanted
  <2> QED
    BY <1>7, <2>3 DEF DeadlockVictim, RolledBack
<1>8. CASE Next
  BY <1>1, <1>2, <1>3, <1>4, <1>5, <1>6, <1>7, <1>8 DEF Next, Statement
<1> QED
  BY <1>8

-----------------------------------------------------------------------------
(* Calls, their outcomes and their rows.                                   *)

Calls == CallsInProgress /\ NumbersIssued /\ OutcomeMatchesBooks

LEMMA CallsInit == Init => Calls
PROOF
<1> SUFFICES ASSUME Init PROVE Calls
  OBVIOUS
<1>1. CallsInProgress
  BY DEF Init, CallsInProgress
<1>2. NumbersIssued
  BY DEF Init, NumbersIssued, Accounts
<1>3. OutcomeMatchesBooks
  BY DEF Init, OutcomeMatchesBooks
<1> QED
  BY <1>1, <1>2, <1>3 DEF Calls

\* A step that changes neither calls nor tables keeps what is said of them.
LEMMA CallsUnchanged ==
    ASSUME TypeInv, Calls,
           UNCHANGED <<transactions, issued, request, outcome>>, Accounts' = Accounts,
           \A w \in Workers : pc'[w] = "idle" <=> pc[w] = "idle"
    PROVE  Calls'
PROOF
<1>1. CallsInProgress'
  BY DEF Calls, CallsInProgress
<1>2. NumbersIssued'
  BY DEF Calls, NumbersIssued
<1>3. OutcomeMatchesBooks'
  BY DEF Calls, OutcomeMatchesBooks
<1> QED
  BY <1>1, <1>2, <1>3 DEF Calls

\* A call that ends leaves the other calls as they were.
LEMMA CallsFinish ==
    ASSUME TypeInv, Calls, NEW w \in Workers, pc[w] # "idle",
           NEW result \in {"done", "failed", "error"}, Finish(w, result),
           UNCHANGED issued
    PROVE  /\ CallsInProgress'
           /\ outcome' = [outcome EXCEPT ![request[w].id] = result]
           /\ request[w].id \in Ids
           /\ outcome[request[w].id] = "running"
           /\ \A t \in transactions : t.id # request[w].id
PROOF
<1>1. request[w] \in Rows /\ request[w].id \in Ids
  BY RowType DEF TypeInv, Busy
<1>2. outcome[request[w].id] = "running"
  BY DEF Calls, CallsInProgress
<1>3. \A t \in transactions : t.id # request[w].id
  BY <1>1, <1>2 DEF Calls, OutcomeMatchesBooks
<1>4. CallsInProgress'
  <2> SUFFICES ASSUME NEW v \in Workers, pc'[v] # "idle"
               PROVE  /\ outcome'[request'[v].id] = "running"
                      /\ {request'[v].source, request'[v].destination} \subseteq issued'
                      /\ \A u \in Workers \ {v} : pc'[u] # "idle" => request'[u].id # request'[v].id
    BY DEF CallsInProgress
  <2>1. \A u \in Workers : pc'[u] # "idle" =>
            u # w /\ pc[u] # "idle" /\ request'[u] = request[u]
    BY DEF Finish, TypeInv, TypeOK
  <2>2. request[v].id # request[w].id /\ request[v].id \in Ids
    BY <2>1, RowType DEF Calls, CallsInProgress, TypeInv, Busy
  <2>3. outcome'[request[v].id] = "running"
    BY <2>1, <2>2 DEF Calls, CallsInProgress, Finish, TypeInv, TypeOK
  <2>4. {request'[v].source, request'[v].destination} \subseteq issued'
    BY <2>1 DEF Calls, CallsInProgress
  <2>5. \A u \in Workers \ {v} : pc'[u] # "idle" => request'[u].id # request'[v].id
    BY <2>1 DEF Calls, CallsInProgress
  <2> QED
    BY <2>1, <2>3, <2>4, <2>5
<1>5. outcome' = [outcome EXCEPT ![request[w].id] = result]
  BY DEF Finish
<1> QED
  BY <1>1, <1>2, <1>3, <1>4, <1>5

LEMMA CallsNext == TypeInv /\ Calls /\ [Next]_vars => Calls'
PROOF
<1> SUFFICES ASSUME TypeInv, Calls, [Next]_vars PROVE Calls'
  OBVIOUS
<1>0. outcome \in [Ids -> {"new", "running", "done", "failed", "error"}]
      /\ transactions \subseteq Rows
  BY DEF TypeInv, TypeOK
<1>1. ASSUME NEW w \in Workers, NEW t \in Rows, Begin(w, t),
             {t.source, t.destination} \subseteq Accounts \cup issued
      PROVE  Calls'
  <2>1. t.id \in Ids /\ outcome' = [outcome EXCEPT ![t.id] = "running"]
        /\ outcome[t.id] = "new"
    BY <1>1, RowType DEF Begin
  <2>2. UNCHANGED <<balance, transactions, issued>>
    BY <1>1 DEF Begin
  <2>3. /\ pc'[w] # "idle" /\ request'[w] = t
        /\ \A v \in Workers \ {w} : pc'[v] = pc[v] /\ request'[v] = request[v]
    BY <1>1 DEF Begin, TypeInv, TypeOK
  <2>4. \A v \in Workers : pc[v] # "idle" =>
            request[v].id \in Ids /\ outcome[request[v].id] = "running"
    BY RowType DEF TypeInv, Busy, Calls, CallsInProgress
  <2>5. {t.source, t.destination} \subseteq issued'
    BY <1>1, <2>2 DEF Calls, NumbersIssued
  <2>6. CallsInProgress'
    <3> SUFFICES ASSUME NEW v \in Workers, pc'[v] # "idle"
                 PROVE  /\ outcome'[request'[v].id] = "running"
                        /\ {request'[v].source, request'[v].destination} \subseteq issued'
                        /\ \A u \in Workers \ {v} : pc'[u] # "idle" => request'[u].id # request'[v].id
      BY DEF CallsInProgress
    <3>1. CASE v = w
      BY <3>1, <1>0, <2>1, <2>3, <2>4, <2>5
    <3>2. CASE v # w
      <4>1. pc[v] # "idle" /\ request'[v] = request[v]
        BY <3>2, <2>3
      <4>2. outcome'[request[v].id] = "running" /\ request[v].id # t.id
        BY <4>1, <1>0, <2>1, <2>4
      <4>3. {request[v].source, request[v].destination} \subseteq issued'
        BY <4>1, <2>2 DEF Calls, CallsInProgress
      <4>4. \A u \in Workers \ {v} : pc'[u] # "idle" => request'[u].id # request[v].id
        BY <4>1, <4>2, <2>3 DEF Calls, CallsInProgress
      <4> QED
        BY <4>1, <4>2, <4>3, <4>4
    <3> QED
      BY <3>1, <3>2
  <2>7. NumbersIssued'
    BY <2>2 DEF Calls, NumbersIssued, Accounts
  <2>8. OutcomeMatchesBooks'
    BY <1>0, <2>1, <2>2 DEF Calls, OutcomeMatchesBooks
  <2> QED
    BY <2>6, <2>7, <2>8 DEF Calls
<1>2. ASSUME NEW w \in Workers, RolledBack(w)
      PROVE  Calls'
  <2>1. PICK result \in {"failed", "error"} : Rollback(w, result)
    BY <1>2 DEF RolledBack
  <2>2. pc[w] # "idle" /\ Finish(w, result) /\ UNCHANGED <<balance, transactions, issued>>
    BY <1>2, <2>1 DEF RolledBack, Rollback
  <2>3. /\ CallsInProgress'
        /\ outcome' = [outcome EXCEPT ![request[w].id] = result]
        /\ request[w].id \in Ids
        /\ \A t \in transactions : t.id # request[w].id
    BY <2>2, CallsFinish
  <2>4. NumbersIssued'
    BY <2>2 DEF Calls, NumbersIssued, Accounts
  <2>5. OutcomeMatchesBooks'
    BY <1>0, <2>2, <2>3 DEF Calls, OutcomeMatchesBooks
  <2> QED
    BY <2>3, <2>4, <2>5 DEF Calls
<1>3. ASSUME NEW w \in Workers, Subtracted(w)
      PROVE  Calls'
  BY <1>3, CallsUnchanged
     DEF Subtracted, UpdateNoRow, UpdateRow, Accounts, TypeInv, TypeOK
<1>4. ASSUME NEW w \in Workers, Accrued(w)
      PROVE  Calls'
  BY <1>4, CallsUnchanged
     DEF Accrued, UpdateNoRow, UpdateRow, Accounts, TypeInv, TypeOK
<1>5. ASSUME NEW w \in Workers, pc[w] = "declare", DeclareRow(w)
      PROVE  Calls'
  BY <1>5, CallsUnchanged DEF DeclareRow, Accounts, TypeInv, TypeOK
<1>6. ASSUME NEW w \in Workers, pc[w] = "commit", CommitRows(w)
      PROVE  Calls'
  <2>1. PICK result \in {"done", "failed", "error"} :
            /\ Finish(w, result)
            /\ result # "failed"
            /\ transactions' = transactions \cup {request[w]}
            /\ UNCHANGED issued
    BY <1>6 DEF CommitRows, CommitResults
  <2>2. /\ CallsInProgress'
        /\ outcome' = [outcome EXCEPT ![request[w].id] = result]
        /\ request[w].id \in Ids
        /\ \A t \in transactions : t.id # request[w].id
    BY <1>6, <2>1, CallsFinish
  <2>3. NumbersIssued'
    BY <1>6, <2>1, CommitType DEF Calls, NumbersIssued
  <2>4. OutcomeMatchesBooks'
    BY <1>0, <2>1, <2>2 DEF Calls, OutcomeMatchesBooks
  <2> QED
    BY <2>2, <2>3, <2>4 DEF Calls
<1>7. ASSUME NEW n \in Numbers, NEW b \in FormBalances, AdminOpen(n, b)
      PROVE  Calls'
  <2>1. CallsInProgress'
    BY <1>7 DEF AdminOpen, Calls, CallsInProgress
  <2>2. NumbersIssued'
    BY <1>7 DEF AdminOpen, Calls, NumbersIssued, Accounts
  <2>3. OutcomeMatchesBooks'
    BY <1>7 DEF AdminOpen, Calls, OutcomeMatchesBooks
  <2> QED
    BY <2>1, <2>2, <2>3 DEF Calls
<1>8. ASSUME NEW n \in Numbers, NEW b \in FormBalances, AdminSave(n, b)
      PROVE  Calls'
  BY <1>8, CallsUnchanged DEF AdminSave, Accounts
<1>9. ASSUME NEW n \in Numbers, AdminClose(n)
      PROVE  Calls'
  <2>1. CallsInProgress'
    BY <1>9 DEF AdminClose, Calls, CallsInProgress
  <2>2. NumbersIssued'
    BY <1>9 DEF AdminClose, Calls, NumbersIssued, Accounts
  <2>3. OutcomeMatchesBooks'
    BY <1>9 DEF AdminClose, Calls, OutcomeMatchesBooks
  <2> QED
    BY <2>1, <2>2, <2>3 DEF Calls
<1>10. CASE UNCHANGED vars
  BY <1>10, CallsUnchanged DEF vars, Accounts
<1> QED
  BY Steps, <1>1, <1>2, <1>3, <1>4, <1>5, <1>6, <1>7, <1>8, <1>9, <1>10

\* What try_transfer reports is what the table of transactions says, whatever
\* interleaves with it and wherever it is cut off.
THEOREM OutcomesAreTrue == Spec => []OutcomeMatchesBooks
PROOF
<1>1. Init => TypeInv /\ Calls
  BY TypeInit, CallsInit
<1>2. (TypeInv /\ Calls) /\ [Next]_vars => (TypeInv /\ Calls)'
  BY TypeNext, CallsNext
<1>3. TypeInv /\ Calls => OutcomeMatchesBooks
  BY DEF Calls
<1> QED
  BY <1>1, <1>2, <1>3, PTL DEF Spec

-----------------------------------------------------------------------------
(* Row versions: no update is lost.                                        *)

Locks == NoLostUpdate /\ Funded

LEMMA LocksInit == Init => Locks
PROOF
  BY NoRowsType DEF Init, Locks, NoLostUpdate, LocksExclusive, VersionsCurrent,
                    Funded, Held, Touched

\* Between two steps that leave the balances of the rows a worker holds, and
\* all of its own state, what is said of that worker stays true.
LEMMA WorkerUnchanged ==
    ASSUME TypeInv, Locks, NEW w \in Workers,
           pc'[w] = pc[w], request'[w] = request[w], dirty'[w] = dirty[w],
           Touched(w) \cap Accounts' = Touched(w) \cap Accounts,
           \A n \in Held(w) : balance'[n] = balance[n]
    PROVE  /\ Held(w)' = Touched(w)' \cap Accounts'
           /\ \A n \in Held(w)' : dirty'[w][n] = balance'[n] + Change(w, n)'
           /\ pc'[w] \in {"accrue", "declare", "commit"} /\ request'[w].source \in Accounts'
                 => balance'[request'[w].source] >= request'[w].accrual
PROOF
<1>1. Held(w)' = Held(w) /\ Touched(w)' = Touched(w)
  BY DEF Held, Touched
<1>2. \A n : Change(w, n)' = Change(w, n)
  BY DEF Change, Books!Effect
<1>3. /\ Held(w) = Touched(w) \cap Accounts
      /\ \A n \in Held(w) : dirty[w][n] = balance[n] + Change(w, n)
  BY DEF Locks, NoLostUpdate, VersionsCurrent
<1>4. ASSUME pc'[w] \in {"accrue", "declare", "commit"}, request'[w].source \in Accounts'
      PROVE  balance'[request'[w].source] >= request'[w].accrual
  <2>1. request[w].source \in Touched(w)
    BY <1>4 DEF Touched
  <2>2. request[w].source \in Held(w) /\ request[w].source \in Accounts
    BY <2>1, <1>3, <1>4
  <2>3. balance[request[w].source] >= request[w].accrual
    BY <2>2, <1>4 DEF Locks, Funded
  <2> QED
    BY <2>2, <2>3
<1> QED
  BY <1>1, <1>2, <1>3, <1>4

\* A worker with nothing in hand claims nothing.
LEMMA WorkerIdle ==
    ASSUME NEW w \in Workers, pc'[w] \in {"idle", "subtract"}, dirty'[w] = NoRows
    PROVE  /\ Held(w)' = Touched(w)' \cap Accounts'
           /\ \A n \in Held(w)' : dirty'[w][n] = balance'[n] + Change(w, n)'
           /\ pc'[w] \in {"accrue", "declare", "commit"} /\ request'[w].source \in Accounts'
                 => balance'[request'[w].source] >= request'[w].accrual
PROOF
<1>1. Held(w)' = {} /\ Touched(w)' = {}
  BY NoRowsType DEF Held, Touched
<1> QED
  BY <1>1

\* The worker-wise facts make up the invariant.
LEMMA LocksIntro ==
    ASSUME LocksExclusive',
           \A w \in Workers :
              /\ Held(w)' = Touched(w)' \cap Accounts'
              /\ \A n \in Held(w)' : dirty'[w][n] = balance'[n] + Change(w, n)'
              /\ pc'[w] \in {"accrue", "declare", "commit"} /\ request'[w].source \in Accounts'
                    => balance'[request'[w].source] >= request'[w].accrual
    PROVE  Locks'
PROOF
<1>1. VersionsCurrent'
  BY DEF VersionsCurrent
<1>2. Funded'
  BY DEF Funded
<1> QED
  BY <1>1, <1>2 DEF Locks, NoLostUpdate

\* The first UPDATE takes the accrual off the committed balance of the source,
\* or finds no account.
LEMMA SubtractedWorker ==
    ASSUME TypeInv, Locks, NEW w \in Workers, Subtracted(w)
    PROVE  /\ pc'[w] = "accrue"
           /\ UNCHANGED <<balance, request>>
           /\ Held(w)' = Touched(w)' \cap Accounts'
           /\ \A n \in Held(w)' : dirty'[w][n] = balance'[n] + Change(w, n)'
           /\ request'[w].source \in Accounts' =>
                 balance'[request'[w].source] >= request'[w].accrual
           /\ \A n \in Held(w)' \ Held(w) : ~LockedByOther(w, n)
           /\ \A v \in Workers \ {w} : pc'[v] = pc[v] /\ dirty'[v] = dirty[v]
PROOF
<1> DEFINE s == request[w].source
           a == request[w].accrual
<1>1. pc[w] = "subtract" /\ request[w] \in Rows
  BY DEF Subtracted, TypeInv, Busy
<1>2. s \in Numbers /\ a \in Nat /\ -a \in Int
  BY <1>1, RowType
<1>3. Held(w) = {}
  BY <1>1 DEF Locks, NoLostUpdate, VersionsCurrent, Touched
<1>4. CASE UpdateNoRow(w, s, "accrue")
  <2>1. pc'[w] = "accrue" /\ UNCHANGED <<balance, request, dirty>> /\ s \notin Accounts
        /\ \A v \in Workers \ {w} : pc'[v] = pc[v]
    BY <1>4 DEF UpdateNoRow, TypeInv, TypeOK
  <2>2. Touched(w)' = {s} /\ Held(w)' = {} /\ s \notin Accounts'
    BY <1>3, <2>1 DEF Touched, Held, Accounts
  <2> QED
    BY <2>1, <2>2
<1>5. CASE UpdateRow(w, s, -a, "accrue")
  <2>1. /\ pc'[w] = "accrue" /\ UNCHANGED <<balance, request>> /\ s \in Accounts
        /\ ~LockedByOther(w, s)
        /\ \A v \in Workers \ {w} : pc'[v] = pc[v]
    BY <1>5 DEF UpdateRow, TypeInv, TypeOK
  <2>2. /\ Held(w)' = {s}
        /\ dirty'[w][s] = Version(w, s) + -a
        /\ dirty'[w][s] \in 0..MaxBalance
        /\ \A v \in Workers : v # w => dirty'[v] = dirty[v]
    BY <1>1, <1>2, <1>3, <1>5, UpdateRowType
  <2>3. Version(w, s) = balance[s] /\ balance[s] \in Int
    BY <1>3, <2>1, VersionsType DEF Version, TypeInv, TypeOK, Accounts
  <2>4. balance[s] >= a
    BY <1>2, <2>2, <2>3, TransferAssumption
  <2>5. Touched(w)' = {s} /\ Change(w, s)' = -a /\ s \in Accounts'
    BY <2>1 DEF Touched, Change, Accounts
  <2> QED
    BY <2>1, <2>2, <2>3, <2>4, <2>5
<1> QED
  BY <1>4, <1>5 DEF Subtracted

\* The second UPDATE adds it to the destination.
LEMMA AccruedWorker ==
    ASSUME TypeInv, Locks, NEW w \in Workers, Accrued(w)
    PROVE  /\ pc'[w] = "declare"
           /\ UNCHANGED <<balance, request>>
           /\ Held(w)' = Touched(w)' \cap Accounts'
           /\ \A n \in Held(w)' : dirty'[w][n] = balance'[n] + Change(w, n)'
           /\ \A n \in Held(w)' \ Held(w) : ~LockedByOther(w, n)
           /\ \A v \in Workers \ {w} : pc'[v] = pc[v] /\ dirty'[v] = dirty[v]
PROOF
<1> DEFINE s == request[w].source
           d == request[w].destination
           a == request[w].accrual
<1>1. pc[w] = "accrue" /\ request[w] \in Rows
  BY DEF Accrued, TypeInv, Busy
<1>2. d \in Numbers /\ a \in Nat /\ a \in Int
  BY <1>1, RowType
<1>3. Held(w) = {s} \cap Accounts
      /\ \A n \in Held(w) : dirty[w][n] = balance[n] + -a
  BY <1>1 DEF Locks, NoLostUpdate, VersionsCurrent, Touched, Change
<1>4. \A n \in Accounts : balance[n] \in Int
  BY VersionsType DEF TypeInv, TypeOK, Accounts
<1>5. CASE UpdateNoRow(w, d, "declare")
  <2>1. pc'[w] = "declare" /\ UNCHANGED <<balance, request, dirty>> /\ d \notin Accounts
        /\ \A v \in Workers \ {w} : pc'[v] = pc[v]
    BY <1>5 DEF UpdateNoRow, TypeInv, TypeOK
  <2>2. /\ Touched(w)' = {s, d} /\ Held(w)' = {s} \cap Accounts
        /\ Accounts' = Accounts
    BY <1>3, <2>1 DEF Touched, Held, Accounts
  <2>3. \A n \in Held(w)' : Change(w, n)' = -a
    BY <1>2, <2>1, <2>2 DEF Change, Books!Effect
  <2> QED
    BY <1>3, <2>1, <2>2, <2>3
<1>6. CASE UpdateRow(w, d, a, "declare")
  <2>1. /\ pc'[w] = "declare" /\ UNCHANGED <<balance, request>> /\ d \in Accounts
        /\ ~LockedByOther(w, d) /\ Accounts' = Accounts
        /\ \A v \in Workers \ {w} : pc'[v] = pc[v]
    BY <1>6 DEF UpdateRow, TypeInv, TypeOK, Accounts
  <2>2. /\ Held(w)' = Held(w) \cup {d}
        /\ dirty'[w][d] = Version(w, d) + a
        /\ \A m \in Held(w) : m # d => dirty'[w][m] = dirty[w][m]
        /\ \A v \in Workers : v # w => dirty'[v] = dirty[v]
    BY <1>1, <1>2, <1>6, UpdateRowType
  <2>3. Touched(w)' = {s, d}
    BY <2>1 DEF Touched
  <2>4. \A n : Change(w, n)' = (IF n = d THEN a ELSE 0) - (IF n = s THEN a ELSE 0)
    BY <2>1 DEF Change, Books!Effect
  <2>5. dirty'[w][d] = balance[d] + Change(w, d)'
    <3>1. CASE d = s
      BY <3>1, <1>2, <1>3, <1>4, <2>1, <2>2, <2>4 DEF Version
    <3>2. CASE d # s
      BY <3>2, <1>2, <1>3, <1>4, <2>1, <2>2, <2>4 DEF Version
    <3> QED
      BY <3>1, <3>2
  <2>6. \A m \in Held(w) : m # d => dirty'[w][m] = balance[m] + Change(w, m)'
    BY <1>2, <1>3, <1>4, <2>2, <2>4
  <2> QED
    BY <1>3, <2>1, <2>2, <2>3, <2>5, <2>6
<1> QED
  BY <1>5, <1>6 DEF Accrued

\* A lock that is taken keeps the locks exclusive.
LEMMA LocksStayExclusive ==
    ASSUME Locks, NEW w \in Workers,
           \A n \in Held(w)' \ Held(w) : ~LockedByOther(w, n),
           \A v \in Workers \ {w} : dirty'[v] = dirty[v]
    PROVE  LocksExclusive'
PROOF
<1>1. \A v \in Workers \ {w} : Held(v)' = Held(v)
  BY DEF Held
<1>2. \A v \in Workers \ {w} : Held(w)' \cap Held(v) = {}
  BY DEF Locks, NoLostUpdate, LocksExclusive, LockedByOther
<1>3. \A v \in Workers \ {w} : Held(w)' \cap Held(v)' = {}
  BY <1>1, <1>2
<1>4. \A u, v \in Workers \ {w} : u # v => Held(u)' \cap Held(v)' = {}
  BY <1>1 DEF Locks, NoLostUpdate, LocksExclusive
<1> QED
  BY <1>3, <1>4 DEF LocksExclusive

\* So does a transaction that ends.
LEMMA LocksReleased ==
    ASSUME TypeInv, Locks, NEW w \in Workers, NEW result, Finish(w, result)
    PROVE  /\ LocksExclusive'
           /\ pc'[w] = "idle" /\ dirty'[w] = NoRows
           /\ \A v \in Workers \ {w} :
                 pc'[v] = pc[v] /\ request'[v] = request[v] /\ dirty'[v] = dirty[v]
PROOF
<1>1. /\ pc'[w] = "idle" /\ dirty'[w] = NoRows
      /\ \A v \in Workers \ {w} :
            pc'[v] = pc[v] /\ request'[v] = request[v] /\ dirty'[v] = dirty[v]
  BY DEF Finish, TypeInv, TypeOK
<1>2. Held(w)' = {}
  BY <1>1, NoRowsType DEF Held
<1> QED
  BY <1>1, <1>2, LocksStayExclusive


LEMMA LocksNext ==
    ASSUME NoReuse
    PROVE  TypeInv /\ Calls /\ Locks /\ [Next]_vars => Locks'
PROOF
<1> SUFFICES ASSUME TypeInv, Calls, Locks, [Next]_vars PROVE Locks'
  OBVIOUS
<1> DEFINE Fine(v) ==
        /\ Held(v)' = Touched(v)' \cap Accounts'
        /\ \A n \in Held(v)' : dirty'[v][n] = balance'[n] + Change(v, n)'
        /\ pc'[v] \in {"accrue", "declare", "commit"} /\ request'[v].source \in Accounts'
              => balance'[request'[v].source] >= request'[v].accrual
<1>a. ASSUME NEW v \in Workers, pc[v] \in {"idle", "subtract"}
      PROVE  dirty[v] = NoRows
  <2>1. Held(v) = {}
    BY <1>a DEF Locks, NoLostUpdate, VersionsCurrent, Touched
  <2>2. dirty[v] = [n \in Held(v) |-> dirty[v][n]]
    BY VersionsType DEF Held, TypeInv, TypeOK
  <2> QED
    BY <2>1, <2>2 DEF NoRows
<1>b. ASSUME LocksExclusive', \A v \in Workers : Fine(v)
      PROVE  Locks'
  BY <1>b, LocksIntro
<1>1. ASSUME NEW w \in Workers, NEW t \in Rows, Begin(w, t)
      PROVE  Locks'
  <2>1. /\ pc[w] = "idle" /\ pc'[w] = "subtract"
        /\ UNCHANGED <<balance, dirty>>
        /\ \A v \in Workers \ {w} : pc'[v] = pc[v] /\ request'[v] = request[v]
    BY <1>1 DEF Begin, TypeInv, TypeOK
  <2>2. Fine(w)
    BY <1>a, <2>1, WorkerIdle
  <2>3. \A v \in Workers \ {w} : Fine(v)
    BY <2>1, WorkerUnchanged DEF Accounts
  <2>4. LocksExclusive'
    BY <2>1 DEF Locks, NoLostUpdate, LocksExclusive, Held
  <2> QED
    BY <1>b, <2>2, <2>3, <2>4
<1>2. ASSUME NEW w \in Workers, RolledBack(w)
      PROVE  Locks'
  <2>1. PICK result : Finish(w, result) /\ UNCHANGED balance
    BY <1>2 DEF RolledBack, Rollback
  <2>2. Fine(w)
    BY <2>1, LocksReleased, WorkerIdle
  <2>3. \A v \in Workers \ {w} : Fine(v)
    BY <2>1, LocksReleased, WorkerUnchanged DEF Accounts
  <2> QED
    BY <1>b, <2>1, <2>2, <2>3, LocksReleased
<1>3. ASSUME NEW w \in Workers, Subtracted(w)
      PROVE  Locks'
  <2>1. Fine(w) /\ LocksExclusive'
    BY <1>3, SubtractedWorker, LocksStayExclusive
  <2>2. \A v \in Workers \ {w} : Fine(v)
    BY <1>3, SubtractedWorker, WorkerUnchanged DEF Accounts
  <2> QED
    BY <1>b, <2>1, <2>2
<1>4. ASSUME NEW w \in Workers, Accrued(w)
      PROVE  Locks'
  <2>1. /\ pc[w] = "accrue" /\ UNCHANGED <<balance, request>>
    BY <1>4, AccruedWorker DEF Accrued
  <2>2. request'[w].source \in Accounts' => balance'[request'[w].source] >= request'[w].accrual
    BY <2>1 DEF Locks, Funded, Accounts
  <2>3. Fine(w) /\ LocksExclusive'
    BY <1>4, <2>2, AccruedWorker, LocksStayExclusive
  <2>4. \A v \in Workers \ {w} : Fine(v)
    BY <1>4, AccruedWorker, WorkerUnchanged DEF Accounts
  <2> QED
    BY <1>b, <2>3, <2>4
<1>5. ASSUME NEW w \in Workers, pc[w] = "declare", DeclareRow(w)
      PROVE  Locks'
  <2>1. /\ pc'[w] = "commit" /\ UNCHANGED <<balance, request, dirty>>
        /\ \A v \in Workers \ {w} : pc'[v] = pc[v]
    BY <1>5 DEF DeclareRow, TypeInv, TypeOK
  <2>2. /\ Held(w)' = Held(w) /\ Touched(w)' = Touched(w) /\ Accounts' = Accounts
        /\ \A n : Change(w, n)' = Change(w, n)
    BY <1>5, <2>1 DEF Held, Touched, Accounts, Change, Books!Effect
  <2>3. Fine(w)
    BY <1>5, <2>1, <2>2 DEF Locks, NoLostUpdate, VersionsCurrent, Funded
  <2>4. \A v \in Workers \ {w} : Fine(v)
    BY <2>1, WorkerUnchanged DEF Accounts
  <2>5. LocksExclusive'
    BY <2>1 DEF Locks, NoLostUpdate, LocksExclusive, Held
  <2> QED
    BY <1>b, <2>3, <2>4, <2>5
<1>6. ASSUME NEW w \in Workers, pc[w] = "commit", CommitRows(w)
      PROVE  Locks'
  <2>1. PICK result : /\ Finish(w, result)
                      /\ balance' = [n \in Accounts |-> Version(w, n)]
    BY <1>6 DEF CommitRows
  <2>2. Fine(w)
    BY <2>1, LocksReleased, WorkerIdle
  <2>3. Accounts' = Accounts /\ \A n \in Accounts \ Held(w) : balance'[n] = balance[n]
    BY <2>1 DEF Accounts, Version
  <2>4. ASSUME NEW v \in Workers \ {w}
        PROVE  Fine(v)
    <3>1. Held(v) \subseteq Accounts /\ Held(v) \cap Held(w) = {}
      BY DEF Locks, NoLostUpdate, VersionsCurrent, LocksExclusive
    <3> QED
      BY <2>1, <2>3, <3>1, LocksReleased, WorkerUnchanged
  <2> QED
    BY <1>b, <2>1, <2>2, <2>4, LocksReleased
<1>7. ASSUME NEW n \in Numbers, NEW b \in FormBalances, AdminOpen(n, b)
      PROVE  Locks'
  <2>1. UNCHANGED <<pc, request, dirty>> /\ Accounts' = Accounts \cup {n}
        /\ \A m \in Accounts : m # n => balance'[m] = balance[m]
    BY <1>7 DEF AdminOpen, Accounts
  <2>2. issued = Accounts
    BY <1>7 DEF AdminOpen, NoReuse, Calls, NumbersIssued
  <2>3. n \notin Accounts
    <3>1. Accounts \subseteq Numbers /\ Numbers \subseteq Nat
      BY TransferAssumption, VersionsType DEF TypeInv, TypeOK, Accounts
    <3>2. n \notin Accounts \/ n < n
      BY <1>7 DEF AdminOpen, NextNumber
    <3> QED
      BY <3>1, <3>2
  <2>4. ASSUME NEW v \in Workers
        PROVE  Fine(v)
    <3>1. Touched(v) \subseteq Accounts
      BY <2>2 DEF Touched, Calls, CallsInProgress
    <3>2. Touched(v) \cap Accounts' = Touched(v) \cap Accounts
          /\ n \notin Held(v) /\ Held(v) \subseteq Accounts
      BY <2>1, <2>3, <3>1 DEF Locks, NoLostUpdate, VersionsCurrent
    <3> QED
      BY <2>1, <3>2, WorkerUnchanged
  <2>5. LocksExclusive'
    BY <2>1 DEF Locks, NoLostUpdate, LocksExclusive, Held
  <2> QED
    BY <1>b, <2>4, <2>5
<1>8. ASSUME NEW n \in Numbers, NEW b \in FormBalances, AdminSave(n, b)
      PROVE  Locks'
  <2>1. UNCHANGED <<pc, request, dirty>> /\ Accounts' = Accounts
        /\ \A m \in Accounts : m # n => balance'[m] = balance[m]
    BY <1>8 DEF AdminSave, Accounts
  <2>2. ASSUME NEW v \in Workers
        PROVE  Fine(v)
    <3>1. n \notin Held(v) /\ Held(v) \subseteq Accounts
      BY <1>8 DEF AdminSave, Locked, Locks, NoLostUpdate, VersionsCurrent
    <3> QED
      BY <2>1, <3>1, WorkerUnchanged
  <2>3. LocksExclusive'
    BY <2>1 DEF Locks, NoLostUpdate, LocksExclusive, Held
  <2> QED
    BY <1>b, <2>2, <2>3
<1>9. ASSUME NEW n \in Numbers, AdminClose(n)
      PROVE  Locks'
  <2>1. UNCHANGED <<pc, request, dirty>> /\ Accounts' = Accounts \ {n}
        /\ \A m \in Accounts : m # n => balance'[m] = balance[m]
    BY <1>9 DEF AdminClose, Accounts
  <2>2. ASSUME NEW v \in Workers
        PROVE  Fine(v)
    <3>1. n \notin Held(v) /\ Held(v) = Touched(v) \cap Accounts
      BY <1>9 DEF AdminClose, Locked, Locks, NoLostUpdate, VersionsCurrent
    <3>2. Touched(v) \cap Accounts' = Touched(v) \cap Accounts
      BY <1>9, <2>1, <3>1 DEF AdminClose
    <3> QED
      BY <2>1, <3>1, <3>2, WorkerUnchanged
  <2>3. LocksExclusive'
    BY <2>1 DEF Locks, NoLostUpdate, LocksExclusive, Held
  <2> QED
    BY <1>b, <2>2, <2>3
<1>10. CASE UNCHANGED vars
  <2>1. \A v \in Workers : Fine(v)
    BY <1>10, WorkerUnchanged DEF vars, Accounts
  <2>2. LocksExclusive'
    BY <1>10 DEF vars, Locks, NoLostUpdate, LocksExclusive, Held
  <2> QED
    BY <1>b, <2>1, <2>2
<1> QED
  BY Steps, <1>1, <1>2, <1>3, <1>4, <1>5, <1>6, <1>7, <1>8, <1>9, <1>10

\* The inductive invariant of the module.
Inductive == TypeInv /\ Calls /\ Locks

LEMMA InductiveInvariant ==
    ASSUME NoReuse
    PROVE  Spec => []Inductive
PROOF
<1>1. Init => Inductive
  BY TypeInit, CallsInit, LocksInit DEF Inductive
<1>2. Inductive /\ [Next]_vars => Inductive'
  BY TypeNext, CallsNext, LocksNext DEF Inductive
<1> QED
  BY <1>1, <1>2, PTL DEF Spec

\* No transfer loses an update: whatever other transfers and administrators
\* commit between its statements, it builds on that, as long as numbers are not
\* given out twice.  (That a form does not write an old balance over a transfer
\* that has been committed is not said; AdminSave may.)
THEOREM UpdatesAreNotLost ==
    ASSUME NoReuse
    PROVE  Spec => []NoLostUpdate
PROOF
<1>1. Inductive => NoLostUpdate
  BY DEF Inductive, Locks
<1> QED
  BY <1>1, InductiveInvariant, PTL

-----------------------------------------------------------------------------
(* Refinement.                                                             *)

\* A COMMIT that succeeds is one transfer of the ledger.
LEMMA CommitTransfers ==
    ASSUME TypeInv, Calls, Locks, NEW w \in Workers, pc[w] = "commit", CommitRows(w)
    PROVE  request[w] \in Rows /\ Books!Transfer(request[w])
PROOF
<1> DEFINE t == request[w]
<1>1. t \in Rows /\ pc[w] # "idle"
  BY DEF TypeInv, Busy
<1>2. /\ balance' = [n \in Accounts |-> Version(w, n)]
      /\ transactions' = transactions \cup {t}
      /\ t.source \in Accounts /\ t.destination \in Accounts
  BY DEF CommitRows, ForeignKeysHold
<1>3. \A u \in transactions : u.id # t.id
  <2>1. outcome[t.id] = "running" /\ t.id \in Ids
    BY <1>1, RowType DEF Calls, CallsInProgress
  <2> QED
    BY <2>1 DEF Calls, OutcomeMatchesBooks
<1>4. balance[t.source] >= t.accrual
  BY <1>2 DEF Locks, Funded
<1>5. /\ Held(w) = {t.source, t.destination}
      /\ \A n \in Held(w) : dirty[w][n] = balance[n] + Books!Effect(t, n)
  BY <1>2 DEF Locks, NoLostUpdate, VersionsCurrent, Touched, Change
<1>6. \A n \in Accounts : balance[n] \in Int
  BY VersionsType DEF TypeInv, TypeOK, Accounts
<1>7. \A n \in Accounts : Version(w, n) = balance[n] + Books!Effect(t, n)
  <2> SUFFICES ASSUME NEW n \in Accounts
               PROVE  Version(w, n) = balance[n] + Books!Effect(t, n)
    OBVIOUS
  <2>1. CASE n \in Held(w)
    BY <2>1, <1>5 DEF Version
  <2>2. CASE n \notin Held(w)
    <3>1. Books!Effect(t, n) = 0
      BY <2>2, <1>5 DEF Books!Effect
    <3> QED
      BY <2>2, <3>1, <1>6 DEF Version
  <2> QED
    BY <2>1, <2>2
<1>8. balance[t.destination] + Books!Effect(t, t.destination) <= MaxBalance
  <2>1. dirty[w][t.destination] \in 0..MaxBalance
    BY <1>5, VersionsType DEF TypeInv, TypeOK, Held
  <2> QED
    BY <2>1, <1>5, TransferAssumption
<1>9. balance' = [n \in Accounts |-> balance[n] + Books!Effect(t, n)]
  BY <1>2, <1>7
<1> QED
  BY <1>1, <1>2, <1>3, <1>4, <1>8, <1>9 DEF Books!Transfer, Books!Accounts, Accounts

LEMMA LedgerInit == Init => Books!Init
PROOF
  BY DEF Init, Books!Init

\* Every step of the program is a step of the ledger or leaves it alone.
LEMMA LedgerNext ==
    TypeInv /\ Calls /\ Locks /\ [Next]_vars => [Books!Next]_Books!ledgerVars
PROOF
<1> SUFFICES ASSUME TypeInv, Calls, Locks, [Next]_vars
             PROVE  [Books!Next]_Books!ledgerVars
  OBVIOUS
<1>a. ASSUME UNCHANGED <<balance, transactions>>
      PROVE  [Books!Next]_Books!ledgerVars
  BY <1>a DEF Books!ledgerVars
<1>1. ASSUME NEW w \in Workers, NEW t \in Rows, Begin(w, t)
      PROVE  [Books!Next]_Books!ledgerVars
  BY <1>1, <1>a DEF Begin
<1>2. ASSUME NEW w \in Workers, RolledBack(w)
      PROVE  [Books!Next]_Books!ledgerVars
  BY <1>2, <1>a DEF RolledBack, Rollback
<1>3. ASSUME NEW w \in Workers, Subtracted(w) \/ Accrued(w) \/ DeclareRow(w)
      PROVE  [Books!Next]_Books!ledgerVars
  BY <1>3, <1>a DEF Subtracted, Accrued, UpdateNoRow, UpdateRow, DeclareRow
<1>4. ASSUME NEW w \in Workers, pc[w] = "commit", CommitRows(w)
      PROVE  [Books!Next]_Books!ledgerVars
  BY <1>4, CommitTransfers DEF Books!Next, Rows
<1>5. ASSUME NEW n \in Numbers, NEW b \in FormBalances, AdminOpen(n, b)
      PROVE  [Books!Next]_Books!ledgerVars
  <2>1. n \notin Accounts
    <3>1. Accounts \subseteq Numbers /\ Numbers \subseteq Nat
      BY TransferAssumption, VersionsType DEF TypeInv, TypeOK, Accounts
    <3>2. n \notin Accounts \/ n < n
      BY <1>5 DEF AdminOpen, NextNumber
    <3> QED
      BY <3>1, <3>2
  <2>2. Books!Open(n, b) /\ b \in 0..MaxBalance
    BY <1>5, <2>1, TransferAssumption DEF AdminOpen, Books!Open, Books!Accounts, Accounts
  <2> QED
    BY <2>2 DEF Books!Next
<1>6. ASSUME NEW n \in Numbers, NEW b \in FormBalances, AdminSave(n, b)
      PROVE  [Books!Next]_Books!ledgerVars
  <2>1. Books!Save(n, b) /\ b \in 0..MaxBalance
    BY <1>6, TransferAssumption DEF AdminSave, Books!Save, Books!Accounts, Accounts
  <2> QED
    BY <2>1 DEF Books!Next
<1>7. ASSUME NEW n \in Numbers, AdminClose(n)
      PROVE  [Books!Next]_Books!ledgerVars
  <2>1. Books!Close(n)
    BY <1>7 DEF AdminClose, Books!Close, Books!Accounts, Accounts
  <2> QED
    BY <2>1 DEF Books!Next
<1>8. CASE UNCHANGED vars
  BY <1>8, <1>a DEF vars
<1> QED
  BY Steps, <1>1, <1>2, <1>3, <1>4, <1>5, <1>6, <1>7, <1>8

\* try_transfer, its statements interleaved with everybody else's, its process
\* killed anywhere, implements the ledger's indivisible transfer.
THEOREM TransferImplementsLedger ==
    ASSUME NoReuse
    PROVE  Spec => ImplementsLedger
PROOF
<1>1. Inductive /\ [Next]_vars => [Books!Next]_Books!ledgerVars
  BY LedgerNext DEF Inductive
<1> QED
  BY <1>1, LedgerInit, InductiveInvariant, PTL DEF Spec, ImplementsLedger, Books!Spec

-----------------------------------------------------------------------------
(* Sums over finite sets of rows.  The community module's fold is defined  *)
(* with CHOOSE over an order that CHOOSE picks; what is needed of it is    *)
(* that a new row adds its effect, in whatever order the rows are added.   *)
(* All of it is proved by looking at a smallest set that goes wrong.       *)

\* Among sets of subsets of a finite set there is a minimal one.
LEMMA MinimalSubset ==
    ASSUME NEW S, IsFiniteSet(S), NEW T, T \subseteq SUBSET S, T # {}
    PROVE  \E m \in T : \A U \in T : U \subseteq m => U = m
PROOF
<1>1. IsWellFoundedOn(StrictSubsetOrdering(S), SUBSET S)
  BY FS_StrictSubsetOrderingWellFounded, FS_FiniteSubsetsOfFinite
<1>2. PICK m \in T : \A U \in T : ~(<<U, m>> \in StrictSubsetOrdering(S))
  BY <1>1, WFMin
<1>3. \A U \in T : U \subseteq m => U = m
  BY <1>2 DEF StrictSubsetOrdering
<1> QED
  BY <1>3

\* What the rows in S bring the account n.
Sum(n, S) == MapThenSumSet(LAMBDA t : Books!Effect(t, n), S)

Pick(s) == CHOOSE x \in s : TRUE

IsSum(g, n, S) ==
    g = [s \in SUBSET S |->
           IF s = {} THEN 0 ELSE Books!Effect(Pick(s), n) + g[s \ {Pick(s)}]]

LEMMA SumIsChosen ==
    ASSUME NEW n, NEW S
    PROVE  Sum(n, S) = (CHOOSE g : IsSum(g, n, S))[S]
PROOF
  BY DEF Sum, IsSum, MapThenSumSet, MapThenFoldSet, Pick

LEMMA PickType == \A s : s # {} => Pick(s) \in s
PROOF
  BY DEF Pick

\* Two such functions agree where both are defined.
LEMMA SumsAgree ==
    ASSUME NEW n, NEW U, IsFiniteSet(U), NEW V, NEW g, NEW h,
           IsSum(g, n, U), IsSum(h, n, V), NEW W \in SUBSET U, W \subseteq V
    PROVE  g[W] = h[W]
PROOF
<1> DEFINE T == {X \in SUBSET U : X \subseteq V /\ g[X] # h[X]}
<1> SUFFICES ASSUME T # {} PROVE FALSE
  OBVIOUS
<1>1. PICK m \in T : \A X \in T : X \subseteq m => X = m
  <2>1. T \subseteq SUBSET U /\ T # {}
    OBVIOUS
  <2> HIDE DEF T
  <2> QED
    BY <2>1, MinimalSubset
<1>2. CASE m = {}
  <2>1. g[m] = 0 /\ h[m] = 0
    BY <1>2 DEF IsSum
  <2> QED
    BY <2>1
<1>3. CASE m # {}
  <2> DEFINE p == Pick(m)
             r == m \ {p}
  <2>1. p \in m
    BY <1>3, PickType
  <2>2. r \notin T
    BY <1>1, <2>1
  <2>3. g[r] = h[r]
    BY <2>2
  <2>4. g[m] = Books!Effect(p, n) + g[r]
    BY <1>3 DEF IsSum
  <2>5. h[m] = Books!Effect(p, n) + h[r]
    BY <1>3 DEF IsSum
  <2> QED
    BY <2>3, <2>4, <2>5
<1> QED
  BY <1>2, <1>3

\* There is one for every finite set.
LEMMA SumExists ==
    ASSUME NEW n, NEW S, IsFiniteSet(S)
    PROVE  \E g : IsSum(g, n, S)
PROOF
<1> DEFINE T == {U \in SUBSET S : ~ \E g : IsSum(g, n, U)}
<1> SUFFICES ASSUME T # {} PROVE FALSE
  OBVIOUS
<1>1. PICK m \in T : \A U \in T : U \subseteq m => U = m
  <2>1. T \subseteq SUBSET S /\ T # {}
    OBVIOUS
  <2> HIDE DEF T
  <2> QED
    BY <2>1, MinimalSubset
<1> DEFINE G(u) == CHOOSE g : IsSum(g, n, u)
           Rest(s) == s \ {Pick(s)}
           h == [s \in SUBSET m |->
                   IF s = {} THEN 0 ELSE Books!Effect(Pick(s), n) + G(Rest(s))[Rest(s)]]
<1>2. ASSUME NEW u \in SUBSET m, u # m
      PROVE  IsSum(G(u), n, u) /\ IsFiniteSet(u)
  <2>1. u \notin T
    BY <1>1, <1>2
  <2>2. \E g : IsSum(g, n, u)
    BY <2>1
  <2>3. IsFiniteSet(u)
    BY FS_Subset
  <2> QED
    BY <2>2, <2>3
<1>3. ASSUME NEW s \in SUBSET m, s # {}
      PROVE  G(Rest(s))[Rest(s)] = h[Rest(s)]
  <2> DEFINE u == Rest(s)
             v == Rest(u)
  <2>1. u \in SUBSET m /\ u # m
    BY <1>3, PickType
  <2>2. IsSum(G(u), n, u) /\ IsFiniteSet(u)
    BY <1>2, <2>1
  <2>3. CASE u = {}
    <3>1. G(u)[u] = 0
      BY <2>2, <2>3 DEF IsSum
    <3>2. h[u] = 0
      BY <2>1, <2>3
    <3> QED
      BY <3>1, <3>2
  <2>4. CASE u # {}
    <3>1. v \in SUBSET u /\ v \in SUBSET m /\ v # m
      BY <2>1, <2>4, PickType
    <3>2. G(u)[u] = Books!Effect(Pick(u), n) + G(u)[v]
      BY <2>2, <2>4 DEF IsSum
    <3>3. h[u] = Books!Effect(Pick(u), n) + G(v)[v]
      BY <2>1, <2>4
    <3>4. IsSum(G(v), n, v)
      BY <1>2, <3>1
    <3>5. G(u)[v] = G(v)[v]
      <4> HIDE DEF G, u, v
      <4> QED
        BY <2>2, <3>1, <3>4, SumsAgree
    <3> QED
      BY <3>2, <3>3, <3>5
  <2> QED
    BY <2>3, <2>4
<1>4. IsSum(h, n, m)
  <2> DEFINE sum(s) == IF s = {} THEN 0 ELSE Books!Effect(Pick(s), n) + h[Rest(s)]
  <2>1. ASSUME NEW s \in SUBSET m
        PROVE  h[s] = sum(s)
    <3>1. s # {} => G(Rest(s))[Rest(s)] = h[Rest(s)]
      BY <1>3
    <3>2. h[s] = IF s = {} THEN 0
                 ELSE Books!Effect(Pick(s), n) + G(Rest(s))[Rest(s)]
      OBVIOUS
    <3> HIDE DEF G, h, Rest
    <3> QED
      BY <3>1, <3>2
  <2>2. h = [s \in SUBSET m |-> h[s]]
    OBVIOUS
  <2>3. h = [s \in SUBSET m |-> sum(s)]
    <3> HIDE DEF h, sum
    <3> QED
      BY <2>1, <2>2
  <2> QED
    BY <2>3 DEF IsSum
<1> QED
  BY <1>1, <1>4

\* One step of the sum.
LEMMA SumStep ==
    ASSUME NEW n, NEW S, IsFiniteSet(S)
    PROVE  /\ S = {} => Sum(n, S) = 0
           /\ S # {} => Sum(n, S) = Books!Effect(Pick(S), n) + Sum(n, S \ {Pick(S)})
PROOF
<1> DEFINE G(u) == CHOOSE g : IsSum(g, n, u)
           R == S \ {Pick(S)}
<1>1. IsSum(G(S), n, S)
  BY SumExists
<1>2. IsFiniteSet(R)
  BY FS_Subset
<1>3. IsSum(G(R), n, R)
  BY <1>2, SumExists
<1>4. G(S)[R] = G(R)[R]
  BY <1>1, <1>3, SumsAgree
<1>5. Sum(n, S) = G(S)[S] /\ Sum(n, R) = G(R)[R]
  BY SumIsChosen
<1>6. S = {} => G(S)[S] = 0
  BY <1>1 DEF IsSum
<1>7. S # {} => G(S)[S] = Books!Effect(Pick(S), n) + G(S)[R]
  BY <1>1 DEF IsSum
<1> QED
  BY <1>4, <1>5, <1>6, <1>7

LEMMA SumType ==
    ASSUME NEW n, NEW S, IsFiniteSet(S), \A t \in S : Books!Effect(t, n) \in Int
    PROVE  Sum(n, S) \in Int
PROOF
<1> DEFINE T == {U \in SUBSET S : Sum(n, U) \notin Int}
<1> SUFFICES ASSUME T # {} PROVE FALSE
  OBVIOUS
<1>1. PICK m \in T : \A U \in T : U \subseteq m => U = m
  <2>1. T \subseteq SUBSET S /\ T # {}
    OBVIOUS
  <2> HIDE DEF T
  <2> QED
    BY <2>1, MinimalSubset
<1>2. IsFiniteSet(m)
  BY FS_Subset
<1>3. m # {}
  <2>1. m = {} => Sum(n, m) = 0
    BY <1>2, SumStep
  <2> QED
    BY <1>1, <2>1
<1>4. Pick(m) \in m /\ m \ {Pick(m)} \notin T
  BY <1>1, <1>3, PickType
<1>5. Sum(n, m) = Books!Effect(Pick(m), n) + Sum(n, m \ {Pick(m)})
  BY <1>2, <1>3, SumStep
<1> QED
  BY <1>1, <1>4, <1>5

\* Any row can be taken to be the last one added.
LEMMA SumInAnyOrder ==
    ASSUME NEW n, NEW S, IsFiniteSet(S), \A t \in S : Books!Effect(t, n) \in Int,
           NEW x \in S
    PROVE  Sum(n, S) = Sum(n, S \ {x}) + Books!Effect(x, n)
PROOF
<1> DEFINE Fine(U, y) == Sum(n, U) = Sum(n, U \ {y}) + Books!Effect(y, n)
           T == {U \in SUBSET S : \E y \in U : ~Fine(U, y)}
<1> SUFFICES ASSUME T # {} PROVE FALSE
  OBVIOUS
<1>1. PICK m \in T : \A U \in T : U \subseteq m => U = m
  <2>1. T \subseteq SUBSET S /\ T # {}
    OBVIOUS
  <2> HIDE DEF T
  <2> QED
    BY <2>1, MinimalSubset
<1>2. \A U \in SUBSET m : IsFiniteSet(U) /\ Sum(n, U) \in Int
  <2> SUFFICES ASSUME NEW U \in SUBSET m PROVE IsFiniteSet(U) /\ Sum(n, U) \in Int
    OBVIOUS
  <2>1. IsFiniteSet(U)
    BY FS_Subset
  <2> QED
    BY <2>1, SumType
<1>3. PICK y \in m : ~Fine(m, y)
  BY <1>1
<1> DEFINE p == Pick(m)
           Rest == (m \ {p}) \ {y}
<1>4. p \in m
  BY <1>3, PickType
<1>5. Sum(n, m) = Books!Effect(p, n) + Sum(n, m \ {p})
  BY <1>2, <1>3, SumStep
<1>6. Books!Effect(p, n) \in Int /\ Books!Effect(y, n) \in Int
  BY <1>3, <1>4
<1>7. y # p
  BY <1>2, <1>3, <1>5, <1>6
<1>8. Sum(n, m \ {p}) = Sum(n, Rest) + Books!Effect(y, n)
  <2>1. m \ {p} \notin T /\ m \ {p} \in SUBSET S /\ y \in m \ {p}
    BY <1>1, <1>4, <1>7
  <2> QED
    BY <2>1
<1>9. Sum(n, m \ {y}) = Sum(n, Rest) + Books!Effect(p, n)
  <2>1. m \ {y} \notin T /\ m \ {y} \in SUBSET S /\ p \in m \ {y}
    BY <1>1, <1>4, <1>7
  <2>2. (m \ {y}) \ {p} = Rest
    OBVIOUS
  <2> QED
    BY <2>1, <2>2
<1>10. Sum(n, Rest) \in Int
  BY <1>2
<1> QED
  BY <1>3, <1>5, <1>6, <1>8, <1>9, <1>10

LEMMA SumZero ==
    ASSUME NEW n, NEW S, IsFiniteSet(S), \A t \in S : Books!Effect(t, n) = 0
    PROVE  Sum(n, S) = 0
PROOF
<1> DEFINE T == {U \in SUBSET S : Sum(n, U) # 0}
<1> SUFFICES ASSUME T # {} PROVE FALSE
  OBVIOUS
<1>1. PICK m \in T : \A U \in T : U \subseteq m => U = m
  <2>1. T \subseteq SUBSET S /\ T # {}
    OBVIOUS
  <2> HIDE DEF T
  <2> QED
    BY <2>1, MinimalSubset
<1>2. IsFiniteSet(m)
  BY FS_Subset
<1>3. m # {}
  <2>1. m = {} => Sum(n, m) = 0
    BY <1>2, SumStep
  <2> QED
    BY <1>1, <2>1
<1>4. Pick(m) \in m /\ m \ {Pick(m)} \notin T
  BY <1>1, <1>3, PickType
<1>5. Sum(n, m) = Books!Effect(Pick(m), n) + Sum(n, m \ {Pick(m)})
  BY <1>2, <1>3, SumStep
<1> QED
  BY <1>1, <1>4, <1>5

-----------------------------------------------------------------------------
(* History and balance.                                                    *)

\* Administrators do no more than open accounts, which hold nothing at first.
NobodyEdits == AdminOps \subseteq {"open"} /\ FormBalances \subseteq {0}

OpenedWith(n) == IF n \in DOMAIN Opening THEN Opening[n] ELSE 0

\* BooksBalance with what it rests on: the table is finite, no row refers to
\* an account that does not exist, and no account goes away.
Balanced ==
    /\ IsFiniteSet(transactions)
    /\ \A t \in transactions : {t.source, t.destination} \subseteq Accounts
    /\ DOMAIN Opening \subseteq Accounts
    /\ \A n \in Accounts : balance[n] = OpenedWith(n) + Sum(n, transactions)

LEMMA EffectType == \A t \in Rows : \A n : Books!Effect(t, n) \in Int
PROOF
<1> SUFFICES ASSUME NEW t \in Rows, NEW n PROVE Books!Effect(t, n) \in Int
  OBVIOUS
<1>1. t.accrual \in Nat
  BY RowType
<1> QED
  BY <1>1 DEF Books!Effect

LEMMA BalancedInit == Init => Balanced
PROOF
<1> SUFFICES ASSUME Init PROVE Balanced
  OBVIOUS
<1>1. transactions = {} /\ IsFiniteSet(transactions)
  BY FS_EmptySet DEF Init
<1>2. \A n : Sum(n, transactions) = 0
  BY <1>1, SumStep
<1>3. Accounts = DOMAIN Opening /\ \A n \in Accounts : balance[n] = Opening[n]
  BY DEF Init, Accounts
<1>4. \A n \in DOMAIN Opening : Opening[n] \in Int
  BY TransferAssumption
<1> QED
  BY <1>1, <1>2, <1>3, <1>4 DEF Balanced, OpenedWith

\* A new row brings every account its effect.
LEMMA RowAdds ==
    ASSUME TypeInv, IsFiniteSet(transactions),
           NEW t \in Rows, t \notin transactions, NEW n
    PROVE  /\ IsFiniteSet(transactions \cup {t})
           /\ Sum(n, transactions) \in Int
           /\ Sum(n, transactions \cup {t}) = Sum(n, transactions) + Books!Effect(t, n)
PROOF
<1> DEFINE all == transactions \cup {t}
<1>1. IsFiniteSet(all)
  BY FS_AddElement
<1>2. \A u \in all : Books!Effect(u, n) \in Int
  BY EffectType DEF TypeInv, TypeOK
<1>3. Sum(n, all) = Sum(n, all \ {t}) + Books!Effect(t, n)
  <2> HIDE DEF all
  <2>1. t \in all
    BY DEF all
  <2> QED
    BY <1>1, <1>2, <2>1, SumInAnyOrder
<1>4. all \ {t} = transactions
  OBVIOUS
<1>5. Sum(n, transactions) \in Int
  BY <1>2, SumType
<1> QED
  BY <1>1, <1>3, <1>4, <1>5

LEMMA BalancedNext ==
    ASSUME NobodyEdits
    PROVE  Inductive /\ Balanced /\ [Next]_vars => Balanced'
PROOF
<1> SUFFICES ASSUME TypeInv, Calls, Locks, Balanced, [Next]_vars PROVE Balanced'
  BY DEF Inductive
<1>a. ASSUME UNCHANGED <<balance, transactions>>
      PROVE  Balanced'
  <2>1. Accounts' = Accounts
    BY <1>a DEF Accounts
  <2> QED
    BY <1>a, <2>1 DEF Balanced
<1>1. ASSUME NEW w \in Workers, pc[w] = "commit", CommitRows(w)
      PROVE  Balanced'
  <2> DEFINE t == request[w]
  <2>1. t \in Rows /\ Books!Transfer(t)
    BY <1>1, CommitTransfers
  <2>2. /\ t \notin transactions
        /\ {t.source, t.destination} \subseteq Accounts
        /\ balance' = [n \in Accounts |-> balance[n] + Books!Effect(t, n)]
        /\ transactions' = transactions \cup {t}
    BY <2>1 DEF Books!Transfer, Books!Accounts, Accounts
  <2>3. Accounts' = Accounts
    BY <2>2 DEF Accounts
  <2>4. IsFiniteSet(transactions')
    BY <2>1, <2>2, RowAdds DEF Balanced
  <2>5. ASSUME NEW n \in Accounts
        PROVE  balance'[n] = OpenedWith(n) + Sum(n, transactions')
    <3>1. /\ Sum(n, transactions) \in Int
          /\ Sum(n, transactions') = Sum(n, transactions) + Books!Effect(t, n)
      BY <2>1, <2>2, RowAdds DEF Balanced
    <3>2. balance'[n] = balance[n] + Books!Effect(t, n)
      BY <2>2
    <3>3. balance[n] = OpenedWith(n) + Sum(n, transactions)
      BY DEF Balanced
    <3>4. OpenedWith(n) \in Int
      BY TransferAssumption DEF OpenedWith
    <3>5. Books!Effect(t, n) \in Int
      BY <2>1, EffectType
    <3> QED
      BY <3>1, <3>2, <3>3, <3>4, <3>5
  <2> QED
    BY <2>2, <2>3, <2>4, <2>5 DEF Balanced
<1>2. ASSUME NEW n \in Numbers, NEW b \in FormBalances, AdminOpen(n, b)
      PROVE  Balanced'
  <2>1. /\ Accounts' = Accounts \cup {n}
        /\ balance'[n] = b /\ b = 0
        /\ \A m \in Accounts : m # n => balance'[m] = balance[m]
        /\ transactions' = transactions
    BY <1>2 DEF AdminOpen, Accounts, NobodyEdits
  <2>2. n \notin Accounts
    <3>1. Accounts \subseteq Numbers /\ Numbers \subseteq Nat
      BY TransferAssumption, VersionsType DEF TypeInv, TypeOK, Accounts
    <3>2. n \notin Accounts \/ n < n
      BY <1>2 DEF AdminOpen, NextNumber
    <3> QED
      BY <3>1, <3>2
  <2>3. \A t \in transactions : Books!Effect(t, n) = 0
    <3> SUFFICES ASSUME NEW t \in transactions PROVE Books!Effect(t, n) = 0
      OBVIOUS
    <3>1. n # t.source /\ n # t.destination
      BY <2>2 DEF Balanced
    <3> QED
      BY <3>1 DEF Books!Effect
  <2>4. Sum(n, transactions) = 0
    BY <2>3, SumZero DEF Balanced
  <2>5. OpenedWith(n) = 0
    BY <2>2 DEF Balanced, OpenedWith
  <2> QED
    BY <2>1, <2>2, <2>4, <2>5 DEF Balanced
<1>3. ASSUME NEW n \in Numbers
      PROVE  /\ ~AdminClose(n)
             /\ \A b \in FormBalances : ~AdminSave(n, b)
  BY DEF AdminClose, AdminSave, NobodyEdits
<1>4. ASSUME NEW w \in Workers, \/ \E t \in Rows : Begin(w, t)
                                \/ RolledBack(w)
                                \/ Subtracted(w)
                                \/ Accrued(w)
                                \/ DeclareRow(w)
      PROVE  Balanced'
  BY <1>4, <1>a
     DEF Begin, RolledBack, Rollback, Subtracted, Accrued, UpdateNoRow, UpdateRow, DeclareRow
<1>5. CASE UNCHANGED vars
  BY <1>5, <1>a DEF vars
<1> QED
  BY Steps, <1>1, <1>2, <1>3, <1>4, <1>5

\* Every account holds what it was opened with and what the recorded
\* transactions brought and took, for any number of transfers, workers and
\* accounts, whatever rolls back or dies; administrators may open accounts,
\* but edit and close none.
THEOREM BooksAlwaysBalance ==
    ASSUME NobodyEdits
    PROVE  Spec => []BooksBalance
PROOF
<1>1. NoReuse
  BY DEF NobodyEdits, NoReuse
<1>2. Inductive /\ Balanced /\ [Next]_vars => Balanced'
  BY BalancedNext
<1>3. Balanced => BooksBalance
  BY DEF Balanced, BooksBalance, OpenedWith, Sum
<1> QED
  BY <1>1, <1>2, <1>3, InductiveInvariant, BalancedInit, PTL DEF Spec

-----------------------------------------------------------------------------
(* Pictures.                                                               *)

\* PhotoStored holds because a picture is stored before its row is inserted.
Stored ==
    /\ PhotoStored
    /\ \A w \in Workers : pc[w] = "commit" => PhotoOf(request[w]) \subseteq media

LEMMA StoredNext ==
    ASSUME "close" \notin AdminOps
    PROVE  TypeInv /\ Stored /\ [Next]_vars => Stored'
PROOF
<1> SUFFICES ASSUME TypeInv, Stored, [Next]_vars PROVE Stored'
  OBVIOUS
<1>a. ASSUME media \subseteq media', transactions' = transactions,
             \A w \in Workers : pc'[w] = "commit" =>
                pc[w] = "commit" /\ request'[w] = request[w]
      PROVE  Stored'
  BY <1>a DEF Stored, PhotoStored, PhotoOf
<1>b. ASSUME NEW w \in Workers, NEW result, Finish(w, result)
      PROVE  \A v \in Workers : pc'[v] = "commit" =>
                pc[v] = "commit" /\ request'[v] = request[v]
  BY <1>b DEF Finish, TypeInv, TypeOK
<1>1. ASSUME NEW w \in Workers, NEW t \in Rows, Begin(w, t)
      PROVE  Stored'
  BY <1>1, <1>a DEF Begin, TypeInv, TypeOK
<1>2. ASSUME NEW w \in Workers, RolledBack(w)
      PROVE  Stored'
  BY <1>2, <1>a, <1>b DEF RolledBack, Rollback
<1>3. ASSUME NEW w \in Workers, Subtracted(w) \/ Accrued(w)
      PROVE  Stored'
  BY <1>3, <1>a DEF Subtracted, Accrued, UpdateNoRow, UpdateRow, TypeInv, TypeOK
<1>4. ASSUME NEW w \in Workers, DeclareRow(w)
      PROVE  Stored'
  <2>1. /\ UNCHANGED <<transactions, request>>
        /\ media' = media \cup PhotoOf(request[w])
        /\ \A v \in Workers : v # w => pc'[v] = pc[v]
    BY <1>4 DEF DeclareRow, TypeInv, TypeOK
  <2> QED
    BY <2>1 DEF Stored, PhotoStored, PhotoOf
<1>5. ASSUME NEW w \in Workers, pc[w] = "commit", CommitRows(w)
      PROVE  Stored'
  <2>1. PICK result : Finish(w, result)
    BY <1>5 DEF CommitRows
  <2>2. transactions' = transactions \cup {request[w]} /\ media' = media
    BY <1>5 DEF CommitRows
  <2> QED
    BY <1>5, <1>b, <2>1, <2>2 DEF Stored, PhotoStored, PhotoOf
<1>6. ASSUME NEW n \in Numbers, NEW b \in FormBalances, AdminOpen(n, b) \/ AdminSave(n, b)
      PROVE  Stored'
  BY <1>6, <1>a DEF AdminOpen, AdminSave
<1>7. ASSUME NEW n \in Numbers
      PROVE  ~AdminClose(n)
  BY DEF AdminClose
<1>8. CASE UNCHANGED vars
  BY <1>8, <1>a DEF vars
<1> QED
  BY Steps, <1>1, <1>2, <1>3, <1>4, <1>5, <1>6, <1>7, <1>8

\* The picture of every recorded transaction can be fetched, whatever rolls
\* back, dies or fails to upload, while no account is closed.
THEOREM PicturesAreStored ==
    ASSUME "close" \notin AdminOps
    PROVE  Spec => []PhotoStored
PROOF
<1>1. Init => Stored
  BY DEF Init, Stored, PhotoStored
<1>2. TypeInv /\ Stored /\ [Next]_vars => Stored'
  BY StoredNext
<1>3. Stored => PhotoStored
  BY DEF Stored
<1> QED
  BY <1>1, <1>2, <1>3, TypeInit, TypeNext, PTL DEF Spec

-----------------------------------------------------------------------------
(* Waiting for locks.                                                      *)

Waits(w) == \E v \in Workers : WaitsFor(w, v)

\* A set of workers who wait for nobody outside it.
Closed(S) == \A w \in S, v \in Workers : WaitsFor(w, v) => v \in S

\* Whomever a transfer waits for, directly or not, there is one among them that
\* is under way and either waits for nobody or is in a cycle the server sees.
NobodyStuck ==
    \A S \in SUBSET Workers :
        Closed(S) /\ (\E w \in S : pc[w] # "idle")
        => \E v \in S : pc[v] # "idle" /\ (~Waits(v) \/ InDeadlock(v))

\* Locks end with their transaction: no lock is left behind by a transfer that
\* committed, failed or died.
LocksReturned == \A w \in Workers : pc[w] = "idle" => Held(w) = {}

LEMMA LocksReturnedNext == TypeInv /\ LocksReturned /\ [Next]_vars => LocksReturned'
PROOF
<1> SUFFICES ASSUME TypeInv, LocksReturned, [Next]_vars PROVE LocksReturned'
  OBVIOUS
<1>a. ASSUME NEW w \in Workers, \A v \in Workers \ {w} : pc'[v] = pc[v] /\ dirty'[v] = dirty[v],
             pc'[w] = "idle" => DOMAIN dirty'[w] = {}
      PROVE  LocksReturned'
  BY <1>a DEF LocksReturned, Held
<1>b. ASSUME NEW w \in Workers, NEW result, Finish(w, result)
      PROVE  LocksReturned'
  <2>1. /\ \A v \in Workers \ {w} : pc'[v] = pc[v] /\ dirty'[v] = dirty[v]
        /\ dirty'[w] = NoRows
    BY <1>b DEF Finish, TypeInv, TypeOK
  <2> QED
    BY <1>a, <2>1, NoRowsType
<1>1. ASSUME NEW w \in Workers, NEW t \in Rows, Begin(w, t)
      PROVE  LocksReturned'
  BY <1>1, <1>a DEF Begin, TypeInv, TypeOK
<1>2. ASSUME NEW w \in Workers, RolledBack(w)
      PROVE  LocksReturned'
  BY <1>2, <1>b DEF RolledBack, Rollback
<1>3. ASSUME NEW w \in Workers, Subtracted(w) \/ Accrued(w)
      PROVE  LocksReturned'
  BY <1>3, <1>a DEF Subtracted, Accrued, UpdateNoRow, UpdateRow, TypeInv, TypeOK
<1>4. ASSUME NEW w \in Workers, DeclareRow(w)
      PROVE  LocksReturned'
  BY <1>4, <1>a DEF DeclareRow, TypeInv, TypeOK
<1>5. ASSUME NEW w \in Workers, CommitRows(w)
      PROVE  LocksReturned'
  BY <1>5, <1>b DEF CommitRows
<1>6. ASSUME UNCHANGED <<pc, dirty>>
      PROVE  LocksReturned'
  BY <1>6 DEF LocksReturned, Held
<1>7. ASSUME NEW n \in Numbers, NEW b \in FormBalances, AdminOpen(n, b) \/ AdminSave(n, b)
      PROVE  LocksReturned'
  BY <1>6, <1>7 DEF AdminOpen, AdminSave
<1>8. ASSUME NEW n \in Numbers, AdminClose(n)
      PROVE  LocksReturned'
  BY <1>6, <1>8 DEF AdminClose
<1>9. CASE UNCHANGED vars
  BY <1>6, <1>9 DEF vars
<1> QED
  BY Steps, <1>1, <1>2, <1>3, <1>4, <1>5, <1>7, <1>8, <1>9

\* A smallest group in which everybody waits for a member is a cycle: without
\* somebody for whom nobody in it waits it would be such a group still.
LEMMA WaitingEndsInDeadlock ==
    ASSUME IsFiniteSet(Workers), NEW B, B \subseteq Workers, B # {},
           \A w \in B : \E v \in B : WaitsFor(w, v)
    PROVE  \E w \in B : InDeadlock(w)
PROOF
<1> DEFINE T == {C \in SUBSET B : C # {} /\ \A w \in C : \E v \in C : WaitsFor(w, v)}
<1>1. IsFiniteSet(B) /\ T \subseteq SUBSET B /\ B \in T
  BY FS_Subset
<1>2. PICK m \in T : \A U \in T : U \subseteq m => U = m
  <2> HIDE DEF T
  <2> QED
    BY <1>1, MinimalSubset
<1>3. m \subseteq B /\ m # {} /\ \A w \in m : \E v \in m : WaitsFor(w, v)
  BY <1>2
<1>4. ASSUME NEW v \in m
      PROVE  \E u \in m : WaitsFor(u, v)
  <2>1. SUFFICES ASSUME \A u \in m : ~WaitsFor(u, v) PROVE FALSE
    OBVIOUS
  <2>2. PICK u \in m : WaitsFor(v, u)
    BY <1>3
  <2>3. u \in m \ {v}
    BY <2>1, <2>2
  <2>4. \A w \in m \ {v} : \E x \in m \ {v} : WaitsFor(w, x)
    BY <1>3, <2>1
  <2>5. m \ {v} \in T
    BY <1>3, <2>3, <2>4
  <2> QED
    BY <1>2, <2>5
<1>5. PICK w \in m : TRUE
  BY <1>3
<1>6. m \in SUBSET Workers
  BY <1>3
<1>7. InDeadlock(w)
  BY <1>3, <1>4, <1>5, <1>6 DEF InDeadlock
<1> QED
  BY <1>3, <1>5, <1>7

LEMMA ReturnedLocksGoOn ==
    ASSUME IsFiniteSet(Workers), LocksReturned
    PROVE  NobodyStuck
PROOF
<1> SUFFICES ASSUME NEW S \in SUBSET Workers, Closed(S), NEW w \in S, pc[w] # "idle",
                    \A v \in S : pc[v] # "idle" => Waits(v)
             PROVE  \E v \in S : pc[v] # "idle" /\ InDeadlock(v)
  BY DEF NobodyStuck
<1> DEFINE B == {v \in S : pc[v] # "idle"}
<1>1. ASSUME NEW v \in B
      PROVE  \E u \in B : WaitsFor(v, u)
  <2>1. PICK u \in Workers : WaitsFor(v, u)
    BY DEF Waits
  <2>2. Held(u) # {}
    BY <2>1 DEF WaitsFor
  <2>3. u \in B
    BY <2>1, <2>2 DEF Closed, LocksReturned
  <2> QED
    BY <2>1, <2>3
<1>2. PICK v \in B : InDeadlock(v)
  BY <1>1, WaitingEndsInDeadlock
<1> QED
  BY <1>2

\* Transfers never all wait: among those a transfer waits for, directly or not,
\* some transfer goes on, or PostgreSQL can abort one of a cycle.  With any finite
\* number of workers, whatever fails; it is what EveryTransferEnds rests on.
THEOREM NobodyWaitsInVain ==
    ASSUME IsFiniteSet(Workers)
    PROVE  Spec => []NobodyStuck
PROOF
<1>1. Init => LocksReturned
  BY NoRowsType DEF Init, LocksReturned, Held
<1>2. TypeInv /\ LocksReturned /\ [Next]_vars => LocksReturned'
  BY LocksReturnedNext
<1>3. LocksReturned => NobodyStuck
  BY ReturnedLocksGoOn
<1> QED
  BY <1>1, <1>2, <1>3, TypeInit, TypeNext, PTL DEF Spec

=============================================================================
