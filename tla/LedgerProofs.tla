---------------------------- MODULE LedgerProofs ----------------------------
(***************************************************************************)
(* Theorems about Ledger for any finite set of wallets, any requests and   *)
(* any amounts.                                                            *)
(***************************************************************************)
EXTENDS Ledger, FiniteSetTheorems, SequenceTheorems, WellFoundedInduction, TLAPS

-----------------------------------------------------------------------------
(* The inductive invariant.                                                *)

Working == {"resolve", "lock_first", "lock_second", "validate"}

\* A session's object for w is what w was at the object's version.
ObjectsHonest ==
    \A r \in Request, w \in Wallet : identity[r][w] # NotLoaded =>
        /\ identity[r][w].version <= Len(ledger[w])
        /\ identity[r][w].balance = BalanceAt(w, identity[r][w].version)

\* A working request has its parameters, and the objects its next checks read.
SessionsReady ==
    \A r \in Request : pc[r] \in Working =>
        /\ job[r] \in Job
        /\ identity[r][job[r].user] # NotLoaded
        /\ pc[r] \in {"resolve", "lock_second"} => job[r].kind = "transfer"
        /\ (pc[r] # "resolve" /\ job[r].kind = "transfer") =>
              /\ job[r].to \in Wallet \ {job[r].user}
              /\ identity[r][job[r].to] # NotLoaded

\* The row locks a request must hold where it stands.
Holding(r) ==
    IF pc[r] = "lock_second" THEN {LockOrder(job[r])[1]}
    ELSE IF pc[r] # "validate" THEN {}
    ELSE IF job[r].kind = "deposit" THEN {job[r].user}
    ELSE {job[r].user, job[r].to}

LocksHeld ==
    \A r \in Request, w \in Wallet : lockOwner[w] = r <=> w \in Holding(r)

\* Balances of committed rows, and of the openings, are not negative.
BalancesFunded ==
    \A w \in Wallet : \A i \in DOMAIN ledger[w] : ledger[w][i].after >= 0

IInv ==
    /\ TypeOK
    /\ SessionsReady
    /\ ObjectsHonest
    /\ LocksHeld
    /\ AuditMatchesBalance
    /\ NoPhantomBalance
    /\ BalancesFunded

\* BalanceAt with the books as a parameter, to speak of them before and after
\* a step.
Book(books, w, n) == IF n = 0 THEN Opening[w] ELSE books[w][n].after

-----------------------------------------------------------------------------
(* Facts about the operators.                                              *)

\* Loading a row keeps the objects a session has and adds an honest one.
LEMMA LoadFacts ==
    ASSUME TypeOK, NEW r \in Request, NEW w \in Wallet
    PROVE  /\ Load(identity[r], w) \in [Wallet -> Image \cup {NotLoaded}]
           /\ Load(identity[r], w)[w] # NotLoaded
           /\ \A v \in Wallet : identity[r][v] # NotLoaded =>
                Load(identity[r], w)[v] = identity[r][v]
           /\ \A v \in Wallet : Load(identity[r], w)[v] = identity[r][v] \/
                /\ Load(identity[r], w)[v].version = Len(ledger[v])
                /\ Load(identity[r], w)[v].balance = balance[v]
<1> DEFINE new == [balance |-> balance[w], active |-> active[w],
                   version |-> Len(ledger[w])]
<1>1. new \in Image
  <2>1. ledger[w] \in Seq(Row) /\ Len(ledger[w]) \in Nat
    BY LenProperties DEF TypeOK
  <2> QED BY <2>1 DEF TypeOK, Image
<1>2. new # NotLoaded
  BY <1>1, EmptyAssumption
<1>3. identity[r] \in [Wallet -> Image \cup {NotLoaded}]
  BY DEF TypeOK
<1>4. CASE identity[r][w] # NotLoaded
  BY <1>3, <1>4 DEF Load
<1>5. CASE identity[r][w] = NotLoaded
  <2>1. Load(identity[r], w) = [identity[r] EXCEPT ![w] = new]
    BY <1>5 DEF Load
  <2> HIDE DEF new
  <2>2. /\ Load(identity[r], w) \in [Wallet -> Image \cup {NotLoaded}]
        /\ Load(identity[r], w)[w] = new
        /\ \A v \in Wallet \ {w} : Load(identity[r], w)[v] = identity[r][v]
    BY <2>1, <1>1, <1>3
  <2>3. new.version = Len(ledger[w]) /\ new.balance = balance[w]
    BY DEF new
  <2> QED BY <2>2, <2>3, <1>2, <1>5
<1> QED BY <1>4, <1>5

\* The locks of a request with valid parameters: its wallets, ascending.
LEMMA LockOrderFacts ==
    ASSUME NEW j \in Job,
           j.kind = "transfer" => j.to \in Wallet \ {j.user}
    PROVE  /\ j.user \in Wallet
           /\ j.kind \in {"deposit", "transfer"}
           /\ j.amount \in Amount
           /\ j.kind = "deposit" => LockOrder(j) = <<j.user>>
           /\ j.kind = "transfer" =>
                /\ LockOrder(j)[1] \in Wallet /\ LockOrder(j)[2] \in Wallet
                /\ LockOrder(j)[1] < LockOrder(j)[2]
                /\ {LockOrder(j)[1], LockOrder(j)[2]} = {j.user, j.to}
<1>1. /\ j.user \in Wallet
      /\ j.kind \in {"deposit", "transfer"}
      /\ j.amount \in Amount
  BY DEF Job
<1>2. ASSUME j.kind = "deposit" PROVE LockOrder(j) = <<j.user>>
  BY <1>2 DEF LockOrder
<1>3. ASSUME j.kind = "transfer"
      PROVE  /\ LockOrder(j)[1] \in Wallet /\ LockOrder(j)[2] \in Wallet
             /\ LockOrder(j)[1] < LockOrder(j)[2]
             /\ {LockOrder(j)[1], LockOrder(j)[2]} = {j.user, j.to}
  <2>1. j.user \in Nat /\ j.to \in Nat /\ j.to # j.user
    BY <1>1, <1>3, WalletAssumption
  <2>2. CASE j.user < j.to
    <3>1. LockOrder(j) = <<j.user, j.to>>
      BY <1>3, <2>2 DEF LockOrder
    <3> QED BY <3>1, <2>1, <2>2, <1>1, <1>3
  <2>3. CASE ~(j.user < j.to)
    <3>1. LockOrder(j) = <<j.to, j.user>>
      BY <1>3, <2>3 DEF LockOrder
    <3> QED BY <3>1, <2>1, <2>3, <1>1, <1>3
  <2> QED BY <2>2, <2>3
<1> QED BY <1>1, <1>2, <1>3

\* A row is well typed, starts from the session's balance and moves it by delta.
LEMMA RowFacts ==
    ASSUME TypeOK, SessionsReady,
           NEW r \in Request, pc[r] = "validate",
           NEW w \in Wallet, identity[r][w] # NotLoaded,
           NEW type \in {"DEPOSIT", "DEBIT", "CREDIT"},
           NEW counterpart \in Wallet \cup {Nobody},
           NEW delta \in Int
    PROVE  LET row == RowOf(r, w, type, counterpart, delta)
           IN  /\ row \in Row
               /\ row.type = type
               /\ row.amount = job[r].amount
               /\ row.version = identity[r][w].version
               /\ row.before = identity[r][w].balance
               /\ row.after = identity[r][w].balance + delta
<1>1. identity[r][w] \in Image
  BY DEF TypeOK
<1>2. job[r] \in Job /\ job[r].amount \in Amount
  BY DEF SessionsReady, Working, Job
<1> QED BY <1>1, <1>2 DEF RowOf, Row, Image

\* What a commit does to the committed state, wallet by wallet.
LEMMA PostFacts ==
    ASSUME TypeOK, NEW D \in SUBSET Wallet, NEW rows \in [D -> Row], Post(rows)
    PROVE  /\ balance' \in [Wallet -> Int]
           /\ ledger' \in [Wallet -> Seq(Row)]
           /\ \A w \in D :
                /\ balance'[w] = rows[w].after
                /\ Len(ledger'[w]) = Len(ledger[w]) + 1
                /\ DOMAIN ledger'[w] = 1 .. Len(ledger[w]) + 1
                /\ ledger'[w][Len(ledger[w]) + 1] = rows[w]
                /\ \A i \in 1 .. Len(ledger[w]) : ledger'[w][i] = ledger[w][i]
           /\ \A w \in Wallet \ D :
                balance'[w] = balance[w] /\ ledger'[w] = ledger[w]
<1>1. \A w \in D : rows[w] \in Row /\ rows[w].after \in Int
  BY DEF Row
<1>2. \A w \in Wallet : /\ ledger[w] \in Seq(Row)
                       /\ Len(ledger[w]) \in Nat
                       /\ DOMAIN ledger[w] = 1 .. Len(ledger[w])
  BY LenProperties DEF TypeOK
<1>3. /\ \A w \in Wallet : balance'[w] = IF w \in D THEN rows[w].after
                                                   ELSE balance[w]
      /\ \A w \in Wallet : ledger'[w] = IF w \in D
                                         THEN Append(ledger[w], rows[w])
                                         ELSE ledger[w]
      /\ balance' = [w \in Wallet |-> balance'[w]]
      /\ ledger' = [w \in Wallet |-> ledger'[w]]
  BY DEF Post
<1>4. ASSUME NEW w \in Wallet
      PROVE  balance'[w] \in Int /\ ledger'[w] \in Seq(Row)
  <2>1. ledger[w] \in Seq(Row) /\ balance[w] \in Int
    BY <1>2 DEF TypeOK
  <2>2. CASE w \in D
    <3>1. Append(ledger[w], rows[w]) \in Seq(Row)
      BY <2>1, <2>2, <1>1
    <3> QED BY <3>1, <2>2, <1>1, <1>3
  <2>3. CASE w \notin D
    BY <2>1, <2>3, <1>3
  <2> QED BY <2>2, <2>3
<1>5. ASSUME NEW w \in D
      PROVE  /\ balance'[w] = rows[w].after
             /\ Len(ledger'[w]) = Len(ledger[w]) + 1
             /\ DOMAIN ledger'[w] = 1 .. Len(ledger[w]) + 1
             /\ ledger'[w][Len(ledger[w]) + 1] = rows[w]
             /\ \A i \in 1 .. Len(ledger[w]) : ledger'[w][i] = ledger[w][i]
  <2>1. ledger'[w] = Append(ledger[w], rows[w]) /\ balance'[w] = rows[w].after
    BY <1>3
  <2> QED BY <2>1, <1>1, <1>2
<1> QED BY <1>3, <1>4, <1>5

\* The rows of a payment, whatever its kind: one for every wallet it holds the
\* lock of, computed from the session's object for that wallet.
RowsComputed(r, rows) ==
    /\ DOMAIN rows = Holding(r)
    /\ DOMAIN rows \subseteq Wallet
    /\ rows \in [DOMAIN rows -> Row]
    /\ \A w \in DOMAIN rows :
        /\ identity[r][w] # NotLoaded
        /\ identity[r][w].active
        /\ rows[w].version = identity[r][w].version
        /\ rows[w].before = identity[r][w].balance
        /\ rows[w].after = IF rows[w].type = "DEBIT"
                           THEN rows[w].before - rows[w].amount
                           ELSE rows[w].before + rows[w].amount
        /\ rows[w].after >= 0

\* Objects of a session are never negative.
LEMMA ObjectsFunded ==
    ASSUME TypeOK, ObjectsHonest, BalancesFunded,
           NEW r \in Request, NEW w \in Wallet, identity[r][w] # NotLoaded
    PROVE  /\ identity[r][w] \in Image
           /\ identity[r][w].balance \in Nat
<1>1. identity[r][w] \in Image
  BY DEF TypeOK
<1>2. /\ identity[r][w].balance \in Int
      /\ identity[r][w].version \in 0 .. Len(ledger[w])
      /\ identity[r][w].balance = BalanceAt(w, identity[r][w].version)
  <2>1. Len(ledger[w]) \in Nat
    BY LenProperties DEF TypeOK
  <2> QED BY <1>1, <2>1 DEF ObjectsHonest, Image
<1>3. CASE identity[r][w].version = 0
  BY <1>1, <1>2, <1>3, OpeningAssumption DEF BalanceAt
<1>4. CASE identity[r][w].version # 0
  <2>1. identity[r][w].version \in DOMAIN ledger[w]
    <3>1. DOMAIN ledger[w] = 1 .. Len(ledger[w]) /\ Len(ledger[w]) \in Nat
      BY LenProperties DEF TypeOK
    <3> QED BY <3>1, <1>2, <1>4
  <2> QED BY <2>1, <1>1, <1>2, <1>4 DEF BalanceAt, BalancesFunded
<1> QED BY <1>3, <1>4

LEMMA DepositRowsComputed ==
    ASSUME TypeOK, SessionsReady, ObjectsHonest, BalancesFunded,
           NEW r \in Request, pc[r] = "validate", job[r].kind = "deposit",
           Acceptable(r)
    PROVE  RowsComputed(r, DepositRows(r))
<1> DEFINE w == job[r].user
           row == RowOf(r, w, "DEPOSIT", Nobody, job[r].amount)
<1>1. /\ w \in Wallet /\ identity[r][w] # NotLoaded
      /\ job[r].amount \in Nat \ {0}
  BY LockOrderFacts, AmountAssumption DEF SessionsReady, Working
<1>2. identity[r][w].balance \in Nat
  BY <1>1, ObjectsFunded
<1>3. /\ row \in Row
      /\ row.type = "DEPOSIT"
      /\ row.amount = job[r].amount
      /\ row.version = identity[r][w].version
      /\ row.before = identity[r][w].balance
      /\ row.after = identity[r][w].balance + job[r].amount
  BY <1>1, RowFacts
<1>4. Holding(r) = {w}
  BY DEF Holding
<1>5. identity[r][w].active
  BY DEF Acceptable
<1>6. DepositRows(r) = [v \in {w} |-> row]
  BY DEF DepositRows
<1> HIDE DEF row, w
<1> QED BY <1>1, <1>2, <1>3, <1>4, <1>5, <1>6 DEF RowsComputed

LEMMA TransferRowsComputed ==
    ASSUME TypeOK, SessionsReady, ObjectsHonest, BalancesFunded,
           NEW r \in Request, pc[r] = "validate", job[r].kind = "transfer",
           Acceptable(r)
    PROVE  RowsComputed(r, TransferRows(r))
<1> DEFINE from == job[r].user
           to == job[r].to
           debit == RowOf(r, from, "DEBIT", to, -job[r].amount)
           credit == RowOf(r, to, "CREDIT", from, job[r].amount)
<1>1. /\ from \in Wallet /\ to \in Wallet \ {from}
      /\ identity[r][from] # NotLoaded /\ identity[r][to] # NotLoaded
      /\ job[r].amount \in Nat \ {0}
  BY LockOrderFacts, AmountAssumption DEF SessionsReady, Working
<1>2. identity[r][from].balance \in Nat /\ identity[r][to].balance \in Nat
  BY <1>1, ObjectsFunded
<1>3. /\ debit \in Row
      /\ debit.type = "DEBIT"
      /\ debit.amount = job[r].amount
      /\ debit.version = identity[r][from].version
      /\ debit.before = identity[r][from].balance
      /\ debit.after = identity[r][from].balance + -job[r].amount
  BY <1>1, RowFacts
<1>4. /\ credit \in Row
      /\ credit.type = "CREDIT"
      /\ credit.amount = job[r].amount
      /\ credit.version = identity[r][to].version
      /\ credit.before = identity[r][to].balance
      /\ credit.after = identity[r][to].balance + job[r].amount
  BY <1>1, RowFacts
<1>5. Holding(r) = {from, to}
  BY DEF Holding
<1>6. /\ identity[r][from].active /\ identity[r][to].active
      /\ identity[r][from].balance >= job[r].amount
  BY DEF Acceptable
<1>7. TransferRows(r) = [w \in {from, to} |-> IF w = from THEN debit ELSE credit]
  BY DEF TransferRows
<1> HIDE DEF debit, credit, from, to
<1>8. /\ TransferRows(r)[from] = debit /\ TransferRows(r)[to] = credit
      /\ TransferRows(r) \in [{from, to} -> Row]
      /\ DOMAIN TransferRows(r) = {from, to}
  BY <1>1, <1>3, <1>4, <1>7
<1> QED BY <1>1, <1>2, <1>3, <1>4, <1>5, <1>6, <1>8 DEF RowsComputed

-----------------------------------------------------------------------------
(* Type correctness.                                                       *)

\* Every step keeps the types.  SessionsReady is what types the rows a commit
\* writes: a working request has parameters and loaded objects.
LEMMA TypeStep ==
    ASSUME IInv, [Next]_vars
    PROVE  TypeOK'
<1> USE DEF IInv
<1>1. ASSUME NEW r \in Request, NEW j \in Job, Authenticate(r, j)
      PROVE  TypeOK'
  <2>1. Load(identity[r], j.user) \in [Wallet -> Image \cup {NotLoaded}]
    BY LoadFacts DEF Job
  <2> QED BY <1>1, <2>1 DEF Authenticate, TypeOK, Stage
<1>2. ASSUME NEW r \in Request, ResolveReceiver(r)
      PROVE  TypeOK'
  <2>1. Load(identity[r], job[r].to) \in [Wallet -> Image \cup {NotLoaded}]
    BY <1>2, LoadFacts DEF ResolveReceiver
  <2> QED BY <1>2, <2>1 DEF ResolveReceiver, TypeOK, Stage
<1>3. ASSUME NEW r \in Request, NEW w \in Wallet, LockRow(r, w)
      PROVE  /\ lockOwner' \in [Wallet -> Request \cup {NoRequest}]
             /\ identity' \in [Request -> [Wallet -> Image \cup {NotLoaded}]]
  <2>1. Load(identity[r], w) \in [Wallet -> Image \cup {NotLoaded}]
    BY LoadFacts
  <2> QED BY <1>3, <2>1 DEF LockRow, TypeOK
<1>4. ASSUME NEW r \in Request, LockFirst(r)
      PROVE  TypeOK'
  <2>1. LockOrder(job[r])[1] \in Wallet
    <3>1. /\ job[r] \in Job
          /\ job[r].kind = "transfer" => job[r].to \in Wallet \ {job[r].user}
      BY <1>4 DEF LockFirst, SessionsReady, Working
    <3> QED BY <3>1, LockOrderFacts
  <2> QED BY <1>4, <2>1, <1>3 DEF LockFirst, TypeOK, Stage
<1>5. ASSUME NEW r \in Request, LockSecond(r)
      PROVE  TypeOK'
  <2>1. LockOrder(job[r])[2] \in Wallet
    <3>1. /\ job[r] \in Job /\ job[r].kind = "transfer"
          /\ job[r].to \in Wallet \ {job[r].user}
      BY <1>5 DEF LockSecond, SessionsReady, Working
    <3> QED BY <3>1, LockOrderFacts
  <2> QED BY <1>5, <2>1, <1>3 DEF LockSecond, TypeOK, Stage
<1>6. ASSUME NEW r \in Request, NEW stage \in Stage, EndAs(r, stage),
             balance' \in [Wallet -> Int], ledger' \in [Wallet -> Seq(Row)]
      PROVE  TypeOK'
  <2>1. lockOwner' \in [Wallet -> Request \cup {NoRequest}]
    BY <1>6 DEF EndAs, Release, TypeOK
  <2> QED BY <1>6, <2>1 DEF EndAs, TypeOK
<1>7. ASSUME NEW r \in Request, RejectReceiver(r) \/ Reject(r) \/ Abort(r)
      PROVE  TypeOK'
  BY <1>6, <1>7 DEF RejectReceiver, Reject, Abort, TypeOK, Stage
<1>8. ASSUME NEW r \in Request, CommitDeposit(r)
      PROVE  TypeOK'
  <2>1. RowsComputed(r, DepositRows(r))
    BY <1>8, DepositRowsComputed DEF CommitDeposit
  <2>2. balance' \in [Wallet -> Int] /\ ledger' \in [Wallet -> Seq(Row)]
    BY <1>8, <2>1, PostFacts DEF CommitDeposit, RowsComputed
  <2> QED BY <1>8, <2>2, <1>6 DEF CommitDeposit, Stage
<1>9. ASSUME NEW r \in Request, CommitTransfer(r)
      PROVE  TypeOK'
  <2>1. RowsComputed(r, TransferRows(r))
    BY <1>9, TransferRowsComputed DEF CommitTransfer
  <2>2. balance' \in [Wallet -> Int] /\ ledger' \in [Wallet -> Seq(Row)]
    BY <1>9, <2>1, PostFacts DEF CommitTransfer, RowsComputed
  <2> QED BY <1>9, <2>2, <1>6 DEF CommitTransfer, Stage
<1>10. ASSUME NEW w \in Wallet, SupportSetsActive(w)
       PROVE  TypeOK'
  BY <1>10 DEF SupportSetsActive, TypeOK
<1>11. CASE UNCHANGED vars
  BY <1>11 DEF vars, TypeOK
<1> QED BY <1>1, <1>2, <1>4, <1>5, <1>7, <1>8, <1>9, <1>10, <1>11 DEF Next, Handle

\* A session becomes ready at authentication, gains the receiver's object, and
\* is emptied only when its request ends.
LEMMA SessionsStep ==
    ASSUME IInv, [Next]_vars
    PROVE  SessionsReady'
<1> USE DEF IInv
<1>1. ASSUME NEW r \in Request, NEW j \in Job, Authenticate(r, j)
      PROVE  SessionsReady'
  <2>1. j.user \in Wallet /\ j.kind \in {"deposit", "transfer"}
    BY DEF Job
  <2>2. Load(identity[r], j.user)[j.user] # NotLoaded
    BY <2>1, LoadFacts
  <2> QED BY <1>1, <2>1, <2>2 DEF Authenticate, SessionsReady, TypeOK, Working
<1>2. ASSUME NEW r \in Request, ResolveReceiver(r)
      PROVE  SessionsReady'
  <2>1. /\ job[r] \in Job /\ job[r].user \in Wallet
        /\ job[r].to \in Wallet \ {job[r].user} /\ job[r].kind = "transfer"
        /\ identity[r][job[r].user] # NotLoaded
    BY <1>2 DEF ResolveReceiver, SessionsReady, Working, Job
  <2>2. /\ Load(identity[r], job[r].to)[job[r].to] # NotLoaded
        /\ Load(identity[r], job[r].to)[job[r].user] # NotLoaded
    BY <2>1, LoadFacts
  <2> QED BY <1>2, <2>1, <2>2 DEF ResolveReceiver, SessionsReady, TypeOK, Working
<1>3. ASSUME NEW r \in Request, NEW w \in Wallet, LockRow(r, w),
             NEW stage \in {"lock_second", "validate"},
             pc[r] \in {"lock_first", "lock_second"},
             stage = "lock_second" => job[r].kind = "transfer",
             pc' = [pc EXCEPT ![r] = stage], job' = job
      PROVE  SessionsReady'
  <2>1. /\ job[r] \in Job /\ job[r].user \in Wallet
        /\ identity[r][job[r].user] # NotLoaded
        /\ job[r].kind = "transfer" =>
             /\ job[r].to \in Wallet \ {job[r].user}
             /\ identity[r][job[r].to] # NotLoaded
    BY <1>3 DEF SessionsReady, Working, Job
  <2>2. \A v \in Wallet : identity[r][v] # NotLoaded =>
                          Load(identity[r], w)[v] # NotLoaded
    BY LoadFacts
  <2> QED BY <1>3, <2>1, <2>2 DEF LockRow, SessionsReady, TypeOK, Working
<1>4. ASSUME NEW r \in Request, LockFirst(r)
      PROVE  SessionsReady'
  <2>1. /\ job[r] \in Job
        /\ job[r].kind = "transfer" => job[r].to \in Wallet \ {job[r].user}
    BY <1>4 DEF LockFirst, SessionsReady, Working
  <2>2. LockOrder(job[r])[1] \in Wallet /\ job[r].kind \in {"deposit", "transfer"}
    BY <2>1, LockOrderFacts
  <2> QED BY <1>4, <2>2, <1>3 DEF LockFirst
<1>5. ASSUME NEW r \in Request, LockSecond(r)
      PROVE  SessionsReady'
  <2>1. /\ job[r] \in Job /\ job[r].kind = "transfer"
        /\ job[r].to \in Wallet \ {job[r].user}
    BY <1>5 DEF LockSecond, SessionsReady, Working
  <2>2. LockOrder(job[r])[2] \in Wallet
    BY <2>1, LockOrderFacts
  <2> QED BY <1>5, <2>2, <1>3 DEF LockSecond
<1>6. ASSUME NEW r \in Request, NEW stage \in Ended, EndAs(r, stage)
      PROVE  SessionsReady'
  BY <1>6 DEF EndAs, Ended, SessionsReady, TypeOK, Working
<1>7. ASSUME NEW r \in Request,
             \/ RejectReceiver(r) \/ Reject(r) \/ Abort(r)
             \/ CommitDeposit(r) \/ CommitTransfer(r)
      PROVE  SessionsReady'
  BY <1>6, <1>7 DEF RejectReceiver, Reject, Abort, CommitDeposit, CommitTransfer,
                    Ended
<1>8. ASSUME NEW w \in Wallet, SupportSetsActive(w)
      PROVE  SessionsReady'
  BY <1>8 DEF SupportSetsActive, SessionsReady
<1>9. CASE UNCHANGED vars
  BY <1>9 DEF vars, SessionsReady
<1> QED BY <1>1, <1>2, <1>4, <1>5, <1>7, <1>8, <1>9 DEF Next, Handle

-----------------------------------------------------------------------------
(* Row locks.                                                              *)

\* A request holds exactly the locks its place in the handler calls for.
LEMMA LocksStep ==
    ASSUME IInv, [Next]_vars
    PROVE  LocksHeld'
<1> USE DEF IInv
<1>1. ASSUME NEW q \in Request, pc'[q] = pc[q], job'[q] = job[q]
      PROVE  Holding(q)' = Holding(q)
  BY <1>1 DEF Holding
<1>2. ASSUME NEW r \in Request, NEW j \in Job, Authenticate(r, j)
      PROVE  LocksHeld'
  <2>1. Holding(r) = {} /\ Holding(r)' = {}
    BY <1>2 DEF Authenticate, Holding, TypeOK
  <2>2. \A q \in Request \ {r} : pc'[q] = pc[q] /\ job'[q] = job[q]
    BY <1>2 DEF Authenticate, TypeOK
  <2> QED BY <1>2, <1>1, <2>1, <2>2 DEF Authenticate, LocksHeld
<1>3. ASSUME NEW r \in Request, ResolveReceiver(r)
      PROVE  LocksHeld'
  <2>1. Holding(r) = {} /\ Holding(r)' = {}
    BY <1>3 DEF ResolveReceiver, Holding, TypeOK
  <2>2. \A q \in Request \ {r} : pc'[q] = pc[q] /\ job'[q] = job[q]
    BY <1>3 DEF ResolveReceiver, TypeOK
  <2> QED BY <1>3, <1>1, <2>1, <2>2 DEF ResolveReceiver, LocksHeld
<1>4. ASSUME NEW r \in Request, NEW w \in Wallet, LockRow(r, w),
             Holding(r)' = Holding(r) \cup {w},
             \A q \in Request \ {r} : pc'[q] = pc[q] /\ job'[q] = job[q]
      PROVE  LocksHeld'
  <2>1. lockOwner[w] = NoRequest /\ lockOwner' = [lockOwner EXCEPT ![w] = r]
    BY <1>4 DEF LockRow
  <2>2. \A q \in Request : w \notin Holding(q)
    BY <2>1, NoneAssumption DEF LocksHeld
  <2>3. \A q \in Request \ {r} : Holding(q)' = Holding(q)
    BY <1>4, <1>1
  <2> QED BY <1>4, <2>1, <2>2, <2>3 DEF LocksHeld, TypeOK
<1>5. ASSUME NEW r \in Request, LockFirst(r)
      PROVE  LocksHeld'
  <2>1. /\ job[r] \in Job /\ pc[r] = "lock_first"
        /\ job[r].kind = "transfer" => job[r].to \in Wallet \ {job[r].user}
    BY <1>5 DEF LockFirst, SessionsReady, Working
  <2>2. /\ LockOrder(job[r])[1] \in Wallet
        /\ job[r].kind \in {"deposit", "transfer"}
        /\ job[r].kind = "deposit" => LockOrder(job[r])[1] = job[r].user
    BY <2>1, LockOrderFacts
  <2>3. /\ pc' = [pc EXCEPT ![r] = IF job[r].kind = "deposit" THEN "validate"
                                                              ELSE "lock_second"]
        /\ job' = job
    BY <1>5 DEF LockFirst
  <2>4. Holding(r) = {}
    BY <2>1 DEF Holding
  <2>5. Holding(r)' = {LockOrder(job[r])[1]}
    <3>1. CASE job[r].kind = "deposit"
      <4>1. pc'[r] = "validate"
        BY <2>3, <3>1 DEF TypeOK
      <4> QED BY <4>1, <3>1, <2>2, <2>3 DEF Holding
    <3>2. CASE job[r].kind # "deposit"
      <4>1. pc'[r] = "lock_second"
        BY <2>3, <3>2 DEF TypeOK
      <4> QED BY <4>1, <2>3 DEF Holding
    <3> QED BY <3>1, <3>2
  <2>6. \A q \in Request \ {r} : pc'[q] = pc[q] /\ job'[q] = job[q]
    BY <2>3 DEF TypeOK
  <2>7. LockRow(r, LockOrder(job[r])[1])
    BY <1>5 DEF LockFirst
  <2> QED BY <2>2, <2>4, <2>5, <2>6, <2>7, <1>4
<1>6. ASSUME NEW r \in Request, LockSecond(r)
      PROVE  LocksHeld'
  <2>1. /\ job[r] \in Job /\ pc[r] = "lock_second" /\ job[r].kind = "transfer"
        /\ job[r].to \in Wallet \ {job[r].user}
    BY <1>6 DEF LockSecond, SessionsReady, Working
  <2>2. /\ LockOrder(job[r])[2] \in Wallet
        /\ {LockOrder(job[r])[1], LockOrder(job[r])[2]} = {job[r].user, job[r].to}
    BY <2>1, LockOrderFacts
  <2>3. pc' = [pc EXCEPT ![r] = "validate"] /\ job' = job
    BY <1>6 DEF LockSecond
  <2>4. Holding(r) = {LockOrder(job[r])[1]}
    BY <2>1 DEF Holding
  <2>5. Holding(r)' = {job[r].user, job[r].to}
    <3>1. pc'[r] = "validate"
      BY <2>3 DEF TypeOK
    <3> QED BY <3>1, <2>1, <2>3 DEF Holding
  <2>6. \A q \in Request \ {r} : pc'[q] = pc[q] /\ job'[q] = job[q]
    BY <2>3 DEF TypeOK
  <2>7. LockRow(r, LockOrder(job[r])[2])
    BY <1>6 DEF LockSecond
  <2>8. Holding(r)' = Holding(r) \cup {LockOrder(job[r])[2]}
    BY <2>2, <2>4, <2>5
  <2> QED BY <2>2, <2>6, <2>7, <2>8, <1>4
<1>7. ASSUME NEW r \in Request, NEW stage \in Ended, EndAs(r, stage)
      PROVE  LocksHeld'
  <2>1. Holding(r)' = {}
    <3>1. pc'[r] \in Ended
      BY <1>7 DEF EndAs, TypeOK
    <3> QED BY <3>1 DEF Holding, Ended
  <2>2. \A q \in Request \ {r} : pc'[q] = pc[q] /\ job'[q] = job[q]
    BY <1>7 DEF EndAs, TypeOK
  <2>3. \A w \in Wallet : lockOwner'[w] = IF lockOwner[w] = r THEN NoRequest
                                                              ELSE lockOwner[w]
    BY <1>7 DEF EndAs, Release
  <2>4. \A q \in Request \ {r} : Holding(q)' = Holding(q)
    BY <1>1, <2>2
  <2> QED BY <2>1, <2>3, <2>4, NoneAssumption DEF LocksHeld
<1>8. ASSUME NEW r \in Request,
             \/ RejectReceiver(r) \/ Reject(r) \/ Abort(r)
             \/ CommitDeposit(r) \/ CommitTransfer(r)
      PROVE  LocksHeld'
  BY <1>7, <1>8 DEF RejectReceiver, Reject, Abort, CommitDeposit, CommitTransfer,
                    Ended
<1>9. ASSUME NEW w \in Wallet, SupportSetsActive(w)
      PROVE  LocksHeld'
  BY <1>1, <1>9 DEF SupportSetsActive, LocksHeld
<1>10. CASE UNCHANGED vars
  BY <1>1, <1>10 DEF vars, LocksHeld
<1> QED BY <1>2, <1>3, <1>5, <1>6, <1>8, <1>9, <1>10 DEF Next, Handle

-----------------------------------------------------------------------------
(* The books: sessions' objects against rows, rows against balances.       *)

\* A step that leaves balances and rows alone and at most loads honest objects
\* or empties sessions keeps the three invariants of the books.
LEMMA BooksUnchanged ==
    ASSUME IInv, balance' = balance, ledger' = ledger,
           \A q \in Request, v \in Wallet : identity'[q][v] # NotLoaded =>
                \/ identity'[q][v] = identity[q][v]
                \/ /\ identity'[q][v].version = Len(ledger[v])
                   /\ identity'[q][v].balance = balance[v]
    PROVE  ObjectsHonest' /\ AuditMatchesBalance' /\ NoPhantomBalance' /\ BalancesFunded'
<1>1. \A w, n : BalanceAt(w, n)' = BalanceAt(w, n)
  BY DEF BalanceAt
<1>2. AuditMatchesBalance' /\ NoPhantomBalance' /\ BalancesFunded'
  BY <1>1 DEF IInv, AuditMatchesBalance, NoPhantomBalance, BalancesFunded
<1>3. ASSUME NEW q \in Request, NEW v \in Wallet, identity'[q][v] # NotLoaded
      PROVE  /\ identity'[q][v].version <= Len(ledger[v])
             /\ identity'[q][v].balance = BalanceAt(v, identity'[q][v].version)
  <2>1. Len(ledger[v]) \in Nat
    BY LenProperties DEF IInv, TypeOK
  <2>2. balance[v] = BalanceAt(v, Len(ledger[v]))
    BY DEF IInv, AuditMatchesBalance
  <2> QED BY <1>3, <2>1, <2>2 DEF IInv, ObjectsHonest
<1> QED BY <1>1, <1>2, <1>3 DEF ObjectsHonest

\* A commit keeps them: the new row starts from a balance the wallet had at an
\* earlier version, and the new balance is the row's.
LEMMA BooksPosted ==
    ASSUME IInv, NEW r \in Request, NEW rows, RowsComputed(r, rows), Post(rows),
           \A q \in Request, v \in Wallet : identity'[q][v] # NotLoaded =>
                identity'[q][v] = identity[q][v]
    PROVE  ObjectsHonest' /\ AuditMatchesBalance' /\ NoPhantomBalance' /\ BalancesFunded'
<1> DEFINE D == DOMAIN rows
<1>1. D \subseteq Wallet /\ rows \in [D -> Row]
  BY DEF RowsComputed
<1>2. /\ \A w \in D :
          /\ balance'[w] = rows[w].after
          /\ Len(ledger'[w]) = Len(ledger[w]) + 1
          /\ DOMAIN ledger'[w] = 1 .. Len(ledger[w]) + 1
          /\ ledger'[w][Len(ledger[w]) + 1] = rows[w]
          /\ \A i \in 1 .. Len(ledger[w]) : ledger'[w][i] = ledger[w][i]
      /\ \A w \in Wallet \ D :
            balance'[w] = balance[w] /\ ledger'[w] = ledger[w]
  BY <1>1, PostFacts DEF IInv
<1>3. \A w \in Wallet : /\ Len(ledger[w]) \in Nat
                       /\ DOMAIN ledger[w] = 1 .. Len(ledger[w])
  BY LenProperties DEF IInv, TypeOK
<1> HIDE DEF D
<1>4. ASSUME NEW w \in Wallet, NEW n \in 0 .. Len(ledger[w])
      PROVE  Book(ledger', w, n) = Book(ledger, w, n)
  <2>1. CASE n = 0
    BY <2>1 DEF Book
  <2>2. CASE n # 0
    <3>1. n \in 1 .. Len(ledger[w])
      BY <2>2, <1>3
    <3>2. ledger'[w][n] = ledger[w][n]
      BY <3>1, <1>2
    <3> QED BY <2>2, <3>2 DEF Book
  <2> QED BY <2>1, <2>2
<1>5. ASSUME NEW w \in D
      PROVE  /\ identity[r][w].version \in 0 .. Len(ledger[w])
             /\ rows[w].version = identity[r][w].version
             /\ rows[w].before = Book(ledger, w, rows[w].version)
  <2>1. /\ identity[r][w] # NotLoaded /\ w \in Wallet
        /\ rows[w].version = identity[r][w].version
        /\ rows[w].before = identity[r][w].balance
    BY <1>1, <1>5 DEF RowsComputed, D
  <2>2. identity[r][w] \in Image
    BY <2>1 DEF IInv, TypeOK
  <2> QED BY <2>1, <2>2, <1>3 DEF IInv, ObjectsHonest, Image, BalanceAt, Book
<1>6. ObjectsHonest'
  <2> SUFFICES ASSUME NEW q \in Request, NEW v \in Wallet,
                      identity'[q][v] # NotLoaded
               PROVE  /\ identity'[q][v].version <= Len(ledger'[v])
                      /\ identity'[q][v].balance =
                            Book(ledger', v, identity'[q][v].version)
    BY DEF ObjectsHonest, BalanceAt, Book
  <2>1. identity'[q][v] = identity[q][v] /\ identity[q][v] \in Image
    BY DEF IInv, TypeOK
  <2>2. /\ identity[q][v].version \in 0 .. Len(ledger[v])
        /\ identity[q][v].balance = Book(ledger, v, identity[q][v].version)
    BY <2>1, <1>3 DEF IInv, ObjectsHonest, Image, BalanceAt, Book
  <2>3. Len(ledger[v]) <= Len(ledger'[v])
    BY <1>2, <1>3
  <2>4. Len(ledger'[v]) \in Nat
    BY <1>2, <1>3
  <2>5. Book(ledger', v, identity[q][v].version) =
           Book(ledger, v, identity[q][v].version)
    BY <2>2, <1>4
  <2> QED BY <2>1, <2>2, <2>3, <2>4, <2>5, <1>3
<1>7. AuditMatchesBalance'
  <2> SUFFICES ASSUME NEW w \in Wallet
               PROVE  balance'[w] = BalanceAt(w, Len(ledger[w]))'
    BY DEF AuditMatchesBalance
  <2>1. CASE w \in D
    BY <2>1, <1>2, <1>3 DEF BalanceAt
  <2>2. CASE w \notin D
    BY <2>2, <1>2, <1>3 DEF BalanceAt, IInv, AuditMatchesBalance
  <2> QED BY <2>1, <2>2
<1>8. ASSUME NEW w \in Wallet, NEW i \in DOMAIN ledger'[w]
      PROVE  /\ ledger'[w][i].version < i
             /\ ledger'[w][i].before = Book(ledger', w, ledger'[w][i].version)
             /\ ledger'[w][i].after =
                    IF ledger'[w][i].type = "DEBIT"
                    THEN ledger'[w][i].before - ledger'[w][i].amount
                    ELSE ledger'[w][i].before + ledger'[w][i].amount
             /\ ledger'[w][i].after >= 0
  <2>1. CASE i \in DOMAIN ledger[w]
    <3>1. ledger'[w][i] = ledger[w][i]
      BY <2>1, <1>2, <1>3
    <3>2. ledger[w][i] \in Row
      BY <2>1, <1>3, ElementOfSeq DEF IInv, TypeOK
    <3>3. /\ ledger[w][i].version < i
          /\ ledger[w][i].before = Book(ledger, w, ledger[w][i].version)
          /\ ledger[w][i].after =
                    IF ledger[w][i].type = "DEBIT"
                    THEN ledger[w][i].before - ledger[w][i].amount
                    ELSE ledger[w][i].before + ledger[w][i].amount
          /\ ledger[w][i].after >= 0
      BY <2>1 DEF IInv, NoPhantomBalance, BalancesFunded, BalanceAt, Book
    <3>4. ledger[w][i].version \in 0 .. Len(ledger[w])
      BY <2>1, <3>2, <3>3, <1>3 DEF Row
    <3>5. Book(ledger', w, ledger[w][i].version) =
             Book(ledger, w, ledger[w][i].version)
      BY <3>4, <1>4
    <3> QED BY <3>1, <3>3, <3>5
  <2>2. CASE i \notin DOMAIN ledger[w]
    <3>1. w \in D /\ i = Len(ledger[w]) + 1 /\ ledger'[w][i] = rows[w]
      BY <2>2, <1>8, <1>2, <1>3
    <3>2. /\ rows[w].after = IF rows[w].type = "DEBIT"
                             THEN rows[w].before - rows[w].amount
                             ELSE rows[w].before + rows[w].amount
          /\ rows[w].after >= 0
      BY <3>1 DEF RowsComputed, D
    <3>3. /\ rows[w].version \in 0 .. Len(ledger[w])
          /\ rows[w].before = Book(ledger, w, rows[w].version)
      BY <3>1, <1>5
    <3>4. Book(ledger', w, rows[w].version) = Book(ledger, w, rows[w].version)
      BY <3>3, <1>4
    <3> QED BY <3>1, <3>2, <3>3, <3>4, <1>3
  <2> QED BY <2>1, <2>2
<1>9. NoPhantomBalance' /\ BalancesFunded'
  BY <1>8 DEF NoPhantomBalance, BalancesFunded, BalanceAt, Book
<1> QED BY <1>6, <1>7, <1>9

\* Every step keeps the books: most leave the rows alone, the two commits
\* post rows that the session's honest objects explain.
LEMMA BooksStep ==
    ASSUME IInv, [Next]_vars
    PROVE  ObjectsHonest' /\ AuditMatchesBalance' /\ NoPhantomBalance' /\ BalancesFunded'
<1> DEFINE Books == ObjectsHonest' /\ AuditMatchesBalance' /\ NoPhantomBalance'
                       /\ BalancesFunded'
<1>1. ASSUME NEW r \in Request, NEW w \in Wallet,
             identity' = [identity EXCEPT ![r] = Load(@, w)],
             balance' = balance, ledger' = ledger
      PROVE  Books
  <2>1. TypeOK
    BY DEF IInv
  <2>2. ASSUME NEW q \in Request, NEW v \in Wallet, identity'[q][v] # NotLoaded
        PROVE  \/ identity'[q][v] = identity[q][v]
               \/ /\ identity'[q][v].version = Len(ledger[v])
                  /\ identity'[q][v].balance = balance[v]
    <3>1. CASE q = r
      BY <1>1, <2>1, <3>1, LoadFacts DEF TypeOK
    <3>2. CASE q # r
      BY <1>1, <2>1, <3>2 DEF TypeOK
    <3> QED BY <3>1, <3>2
  <2> QED BY <1>1, <2>2, BooksUnchanged
<1>2. ASSUME NEW r \in Request, NEW stage, EndAs(r, stage)
      PROVE  \A q \in Request, v \in Wallet : identity'[q][v] # NotLoaded =>
                identity'[q][v] = identity[q][v]
  BY <1>2 DEF EndAs, IInv, TypeOK
<1>3. ASSUME NEW r \in Request, NEW j \in Job, Authenticate(r, j)
      PROVE  Books
  BY <1>1, <1>3 DEF Authenticate, Job
<1>4. ASSUME NEW r \in Request, ResolveReceiver(r)
      PROVE  Books
  BY <1>1, <1>4 DEF ResolveReceiver
<1>5. ASSUME NEW r \in Request, LockFirst(r)
      PROVE  Books
  <2>1. LockOrder(job[r])[1] \in Wallet
    <3>1. /\ job[r] \in Job
          /\ job[r].kind = "transfer" => job[r].to \in Wallet \ {job[r].user}
      BY <1>5 DEF LockFirst, IInv, SessionsReady, Working
    <3> QED BY <3>1, LockOrderFacts
  <2> QED BY <1>1, <1>5, <2>1 DEF LockFirst, LockRow
<1>6. ASSUME NEW r \in Request, LockSecond(r)
      PROVE  Books
  <2>1. LockOrder(job[r])[2] \in Wallet
    <3>1. /\ job[r] \in Job /\ job[r].kind = "transfer"
          /\ job[r].to \in Wallet \ {job[r].user}
      BY <1>6 DEF LockSecond, IInv, SessionsReady, Working
    <3> QED BY <3>1, LockOrderFacts
  <2> QED BY <1>1, <1>6, <2>1 DEF LockSecond, LockRow
<1>7. ASSUME NEW r \in Request, RejectReceiver(r) \/ Reject(r) \/ Abort(r)
      PROVE  Books
  <2>1. /\ balance' = balance /\ ledger' = ledger
        /\ \E stage \in Ended : EndAs(r, stage)
    BY <1>7 DEF RejectReceiver, Reject, Abort, Ended
  <2> QED BY <1>2, <2>1, BooksUnchanged
<1>8. ASSUME NEW r \in Request, CommitDeposit(r)
      PROVE  Books
  <2>1. RowsComputed(r, DepositRows(r))
    BY <1>8, DepositRowsComputed DEF CommitDeposit, IInv
  <2>2. Post(DepositRows(r)) /\ EndAs(r, "done")
    BY <1>8 DEF CommitDeposit
  <2> QED BY <1>2, <2>1, <2>2, BooksPosted
<1>9. ASSUME NEW r \in Request, CommitTransfer(r)
      PROVE  Books
  <2>1. RowsComputed(r, TransferRows(r))
    BY <1>9, TransferRowsComputed DEF CommitTransfer, IInv
  <2>2. Post(TransferRows(r)) /\ EndAs(r, "done")
    BY <1>9 DEF CommitTransfer
  <2> QED BY <1>2, <2>1, <2>2, BooksPosted
<1>10. ASSUME balance' = balance, ledger' = ledger, identity' = identity
       PROVE  Books
  BY <1>10, BooksUnchanged
<1>11. ASSUME NEW w \in Wallet, SupportSetsActive(w)
       PROVE  Books
  BY <1>10, <1>11 DEF SupportSetsActive
<1>12. CASE UNCHANGED vars
  BY <1>10, <1>12 DEF vars
<1> QED BY <1>3, <1>4, <1>5, <1>6, <1>7, <1>8, <1>9, <1>11, <1>12 DEF Next, Handle

\* IInv holds at the start.
LEMMA InitIInv == Init => IInv
<1> SUFFICES ASSUME Init PROVE IInv
  OBVIOUS
<1>1. TypeOK
  BY OpeningAssumption, EmptySeq DEF Init, TypeOK, Stage
<1>2. /\ \A w \in Wallet : Len(ledger[w]) = 0 /\ DOMAIN ledger[w] = {}
      /\ \A r \in Request, w \in Wallet : identity[r][w] = NotLoaded
      /\ \A r \in Request : pc[r] = "idle"
      /\ \A w \in Wallet : balance[w] = Opening[w] /\ lockOwner[w] = NoRequest
  BY DEF Init
<1>3. ObjectsHonest /\ AuditMatchesBalance /\ NoPhantomBalance /\ BalancesFunded
  BY <1>2 DEF ObjectsHonest, AuditMatchesBalance, NoPhantomBalance,
              BalancesFunded, BalanceAt
<1>4. SessionsReady
  BY <1>2 DEF SessionsReady, Working
<1>5. LocksHeld
  BY <1>2, NoneAssumption DEF LocksHeld, Holding
<1> QED BY <1>1, <1>3, <1>4, <1>5 DEF IInv

\* IInv is inductive.
LEMMA StepIInv == IInv /\ [Next]_vars => IInv'
<1> SUFFICES ASSUME IInv, [Next]_vars PROVE IInv'
  OBVIOUS
<1> QED BY TypeStep, SessionsStep, LocksStep, BooksStep DEF IInv

\* IInv holds in every reachable state.
THEOREM Inductive == Spec => []IInv
<1>1. Init => IInv
  BY InitIInv
<1>2. IInv /\ [Next]_vars => IInv'
  BY StepIInv
<1> QED BY <1>1, <1>2, PTL DEF Spec

-----------------------------------------------------------------------------
(* The theorems.                                                           *)

\* Every variable keeps its type, the rows of the ledger included.
THEOREM TypeCorrect == Spec => []TypeOK
<1>1. IInv => TypeOK
  BY DEF IInv
<1> QED BY <1>1, Inductive, PTL

\* A wallet's balance is always the one its last committed row left.
THEOREM AuditCorrect == Spec => []AuditMatchesBalance
<1>1. IInv => AuditMatchesBalance
  BY DEF IInv
<1> QED BY <1>1, Inductive, PTL

\* Every row starts from a balance its wallet had at an earlier commit.
THEOREM RowsGrounded == Spec => []NoPhantomBalance
<1>1. IInv => NoPhantomBalance
  BY DEF IInv
<1> QED BY <1>1, Inductive, PTL

\* No interleaving of payments drives a wallet below zero.
THEOREM Funded == Spec => []NeverOverdrawn
<1>1. IInv => NeverOverdrawn
  <2> SUFFICES ASSUME IInv, NEW w \in Wallet
               PROVE  balance[w] >= 0
    BY DEF IInv, NeverOverdrawn, BalancesFunded
  <2>1. /\ balance[w] = BalanceAt(w, Len(ledger[w]))
        /\ \A i \in DOMAIN ledger[w] : ledger[w][i].after >= 0
    BY DEF IInv, AuditMatchesBalance, BalancesFunded
  <2>2. Len(ledger[w]) \in Nat /\ DOMAIN ledger[w] = 1 .. Len(ledger[w])
    BY LenProperties DEF IInv, TypeOK
  <2>3. Opening[w] \in Nat
    BY OpeningAssumption
  <2> QED BY <2>1, <2>2, <2>3 DEF BalanceAt
<1> QED BY <1>1, Inductive, PTL

\* A non-empty set of wallets has one with the highest UUID.
LEMMA HighestWallet ==
    ASSUME NEW W \in SUBSET Wallet, W # {}
    PROVE  \E x \in W : \A y \in W : y <= x
<1> DEFINE Above(x) == {w \in Wallet : w > x}
           T == {Above(x) : x \in W}
<1>1. IsWellFoundedOn(StrictSubsetOrdering(Wallet), SUBSET Wallet)
  BY FS_StrictSubsetOrderingWellFounded, FS_FiniteSubsetsOfFinite, WalletAssumption
<1>2. T \subseteq SUBSET Wallet /\ T # {}
  OBVIOUS
<1>3. \E A \in T : \A B \in T : <<B, A>> \notin StrictSubsetOrdering(Wallet)
  <2> HIDE DEF T
  <2> QED BY <1>1, <1>2, WFMin
<1>4. PICK x \in W : \A B \in T : <<B, Above(x)>> \notin StrictSubsetOrdering(Wallet)
  BY <1>3
<1>5. ASSUME NEW y \in W, ~(y <= x) PROVE FALSE
  <2>1. x \in Nat /\ y \in Nat /\ y \in Wallet
    BY WalletAssumption
  <2>2. y \in Above(x) /\ y \notin Above(y) /\ Above(y) \subseteq Above(x)
    <3>1. x < y /\ ~(y < y)
      BY <1>5, <2>1
    <3>2. ASSUME NEW z \in Wallet, y < z PROVE x < z
      BY <2>1, <3>1, <3>2, WalletAssumption
    <3> QED BY <2>1, <3>1, <3>2
  <2>3. <<Above(y), Above(x)>> \in StrictSubsetOrdering(Wallet)
    BY <2>2 DEF StrictSubsetOrdering
  <2> QED BY <1>4, <2>3
<1> QED BY <1>5

\* Payments never wait for each other in a circle.  Of the wallets that are
\* waited for, take the one with the highest UUID: its holder, if it waited,
\* would wait for a wallet above the one it holds.
THEOREM DeadlockFree == Spec => []NoCircularWait
<1>1. IInv => NoCircularWait
  <2> SUFFICES ASSUME IInv, Waiting # {}
               PROVE  \E r \in Waiting : lockOwner[Wanted(r)] \notin Waiting
    BY DEF NoCircularWait
  <2>1. ASSUME NEW r \in Waiting
        PROVE  /\ r \in Request
               /\ Wanted(r) \in Wallet
               /\ pc[r] = "lock_second" =>
                     /\ LockOrder(job[r])[1] \in Wallet
                     /\ LockOrder(job[r])[1] < Wanted(r)
               /\ pc[r] # "lock_second" => Holding(r) = {}
    <3>1. /\ r \in Request /\ pc[r] \in {"lock_first", "lock_second"}
          /\ job[r] \in Job
          /\ job[r].kind = "transfer" => job[r].to \in Wallet \ {job[r].user}
          /\ pc[r] = "lock_second" => job[r].kind = "transfer"
      BY DEF Waiting, IInv, SessionsReady, Working
    <3>2. CASE pc[r] = "lock_first"
      BY <3>1, <3>2, LockOrderFacts DEF Wanted, Holding
    <3>3. CASE pc[r] = "lock_second"
      BY <3>1, <3>3, LockOrderFacts DEF Wanted
    <3> QED BY <3>1, <3>2, <3>3
  <2> DEFINE W == {Wanted(r) : r \in Waiting}
  <2>2. W \in SUBSET Wallet /\ W # {}
    BY <2>1
  <2>3. PICK x \in W : \A y \in W : y <= x
    BY <2>2, HighestWallet
  <2>4. PICK r \in Waiting : Wanted(r) = x
    OBVIOUS
  <2>5. ASSUME lockOwner[x] \in Waiting PROVE FALSE
    <3> DEFINE h == lockOwner[x]
    <3>1. h \in Request /\ x \in Holding(h)
      BY <2>1, <2>2, <2>5 DEF IInv, LocksHeld
    <3>2. pc[h] = "lock_second" /\ x = LockOrder(job[h])[1]
      BY <2>1, <2>5, <3>1 DEF Holding
    <3>3. x < Wanted(h) /\ Wanted(h) <= x
      BY <2>1, <2>3, <2>5, <3>2
    <3>4. x \in Nat /\ Wanted(h) \in Nat
      BY <2>1, <2>2, <2>5, WalletAssumption
    <3> HIDE DEF h
    <3> QED BY <3>3, <3>4
  <2> QED BY <2>4, <2>5
<1> QED BY <1>1, Inductive, PTL

\* A row written on a frozen wallet comes from the holder of the wallet's row
\* lock, whose session read the wallet before the freeze.
THEOREM FreezeRespected == Spec => FreezeStopsLaterRequests
<1> DEFINE Late(w) == (~active[w] /\ ledger'[w] # ledger[w]) =>
              \E r \in Request : /\ pc[r] = "validate" /\ pc'[r] = "done"
                                 /\ lockOwner[w] = r
                                 /\ identity[r][w].active
<1>1. ASSUME IInv, [Next]_vars, NEW w \in Wallet
      PROVE  Late(w)
  <2>1. ASSUME NEW r \in Request, NEW rows, RowsComputed(r, rows), Post(rows),
               EndAs(r, "done"), pc[r] = "validate", ledger'[w] # ledger[w]
        PROVE  /\ pc'[r] = "done"
               /\ lockOwner[w] = r
               /\ identity[r][w].active
    <3>1. w \in DOMAIN rows
      BY <2>1 DEF Post
    <3>2. w \in Holding(r) /\ identity[r][w].active
      BY <2>1, <3>1 DEF RowsComputed
    <3>3. lockOwner[w] = r
      BY <1>1, <3>2 DEF IInv, LocksHeld
    <3>4. pc'[r] = "done"
      BY <1>1, <2>1 DEF EndAs, IInv, TypeOK
    <3> QED BY <3>2, <3>3, <3>4
  <2>2. ASSUME NEW r \in Request, CommitDeposit(r)
        PROVE  Late(w)
    <3>1. RowsComputed(r, DepositRows(r))
      BY <1>1, <2>2, DepositRowsComputed DEF CommitDeposit, IInv
    <3> QED BY <2>1, <2>2, <3>1 DEF CommitDeposit
  <2>3. ASSUME NEW r \in Request, CommitTransfer(r)
        PROVE  Late(w)
    <3>1. RowsComputed(r, TransferRows(r))
      BY <1>1, <2>3, TransferRowsComputed DEF CommitTransfer, IInv
    <3> QED BY <2>1, <2>3, <3>1 DEF CommitTransfer
  <2>4. ASSUME ledger' = ledger PROVE Late(w)
    BY <2>4
  <2>5. \/ ledger' = ledger
        \/ \E r \in Request : CommitDeposit(r) \/ CommitTransfer(r)
    BY <1>1 DEF Next, Handle, Authenticate, ResolveReceiver, RejectReceiver,
                LockFirst, LockSecond, Reject, Abort, SupportSetsActive, vars
  <2> QED BY <2>2, <2>3, <2>4, <2>5
<1>2. IInv /\ [Next]_vars => [\A w \in Wallet : Late(w)]_vars
  BY <1>1
<1> QED BY <1>2, Inductive, PTL DEF Spec, FreezeStopsLaterRequests

-----------------------------------------------------------------------------
(* Double entry.                                                           *)

\* Only a request that has answered 200 has rows.
EntriesClosed ==
    \A w \in Wallet : \A i \in DOMAIN ledger[w] :
        pc[ledger[w][i].request] = "done"

\* A request writes at most one row on a wallet.
OneRowEach ==
    \A w \in Wallet : \A i, k \in DOMAIN ledger[w] :
        ledger[w][i].request = ledger[w][k].request => i = k

OtherHalf(type) == IF type = "DEBIT" THEN "CREDIT" ELSE "DEBIT"

\* Rows a and b, on v and w, are the two halves of one transfer.
Halves(a, v, b, w) ==
    /\ a.type = OtherHalf(b.type)
    /\ a.request = b.request
    /\ a.amount = b.amount
    /\ a.counterpart = w
    /\ b.counterpart = v

Paired ==
    \A w \in Wallet : \A k \in DOMAIN ledger[w] : ledger[w][k].type # "DEPOSIT" =>
        \E v \in Wallet \ {w} : \E i \in DOMAIN ledger[v] :
            Halves(ledger[v][i], v, ledger[w][k], w)

EntriesInv == EntriesClosed /\ OneRowEach /\ Paired

\* After a commit a wallet has the rows it had and at most the one just
\* written, as its last.
LEMMA RowsAdded ==
    ASSUME TypeOK, NEW r \in Request, NEW rows, RowsComputed(r, rows), Post(rows)
    PROVE  /\ \A w \in Wallet : \A i \in DOMAIN ledger[w] :
                i \in DOMAIN ledger'[w] /\ ledger'[w][i] = ledger[w][i]
           /\ \A w \in DOMAIN rows :
                /\ Len(ledger[w]) + 1 \in DOMAIN ledger'[w]
                /\ ledger'[w][Len(ledger[w]) + 1] = rows[w]
           /\ \A w \in Wallet : \A i \in DOMAIN ledger'[w] :
                \/ i \in DOMAIN ledger[w]
                \/ /\ w \in DOMAIN rows
                   /\ i = Len(ledger[w]) + 1
                   /\ i \notin DOMAIN ledger[w]
<1> DEFINE D == DOMAIN rows
<1>1. D \in SUBSET Wallet /\ rows \in [D -> Row]
  BY DEF RowsComputed
<1>2. \A w \in Wallet : Len(ledger[w]) \in Nat /\ DOMAIN ledger[w] = 1 .. Len(ledger[w])
  BY LenProperties DEF TypeOK
<1>3. /\ \A w \in D :
           /\ DOMAIN ledger'[w] = 1 .. Len(ledger[w]) + 1
           /\ ledger'[w][Len(ledger[w]) + 1] = rows[w]
           /\ \A i \in 1 .. Len(ledger[w]) : ledger'[w][i] = ledger[w][i]
      /\ \A w \in Wallet \ D : ledger'[w] = ledger[w]
  <2> HIDE DEF D
  <2> QED BY <1>1, PostFacts
<1>4. ASSUME NEW w \in D
      PROVE  /\ Len(ledger[w]) + 1 \in DOMAIN ledger'[w]
             /\ \A i \in DOMAIN ledger[w] :
                  i \in DOMAIN ledger'[w] /\ ledger'[w][i] = ledger[w][i]
             /\ \A i \in DOMAIN ledger'[w] \ DOMAIN ledger[w] : i = Len(ledger[w]) + 1
  <2>1. Len(ledger[w]) \in Nat /\ DOMAIN ledger[w] = 1 .. Len(ledger[w])
    BY <1>1, <1>2
  <2>2. DOMAIN ledger'[w] = 1 .. Len(ledger[w]) + 1
    BY <1>3
  <2> QED BY <1>3, <2>1, <2>2
<1> QED BY <1>1, <1>3, <1>4

\* A commit that writes rows of its own request, both halves of a transfer,
\* keeps the entries in order.
LEMMA EntriesPosted ==
    ASSUME TypeOK, EntriesInv, NEW r \in Request, NEW rows, pc[r] = "validate",
           RowsComputed(r, rows), Post(rows), EndAs(r, "done"),
           \A w \in DOMAIN rows : rows[w].request = r,
           \A w \in DOMAIN rows : rows[w].type # "DEPOSIT" =>
               \E v \in DOMAIN rows \ {w} : Halves(rows[v], v, rows[w], w)
    PROVE  EntriesInv'
<1>1. /\ \A w \in Wallet : \A i \in DOMAIN ledger[w] :
           i \in DOMAIN ledger'[w] /\ ledger'[w][i] = ledger[w][i]
      /\ \A w \in DOMAIN rows :
           /\ Len(ledger[w]) + 1 \in DOMAIN ledger'[w]
           /\ ledger'[w][Len(ledger[w]) + 1] = rows[w]
      /\ \A w \in Wallet : \A i \in DOMAIN ledger'[w] :
           \/ i \in DOMAIN ledger[w]
           \/ /\ w \in DOMAIN rows
              /\ i = Len(ledger[w]) + 1
              /\ i \notin DOMAIN ledger[w]
  BY RowsAdded
<1>2. DOMAIN rows \subseteq Wallet
  BY DEF RowsComputed
<1>3. pc'[r] = "done" /\ \A q \in Request \ {r} : pc'[q] = pc[q]
  BY DEF EndAs, TypeOK
<1>4. \A w \in Wallet : \A i \in DOMAIN ledger[w] :
        ledger[w][i].request \in Request \ {r}
  <2> SUFFICES ASSUME NEW w \in Wallet, NEW i \in DOMAIN ledger[w]
               PROVE  ledger[w][i].request \in Request \ {r}
    OBVIOUS
  <2>1. ledger[w][i] \in Row
    BY ElementOfSeq DEF TypeOK
  <2> QED BY <2>1 DEF EntriesInv, EntriesClosed, Row
<1>5. EntriesClosed'
  <2> SUFFICES ASSUME NEW w \in Wallet, NEW i \in DOMAIN ledger'[w]
               PROVE  pc'[ledger'[w][i].request] = "done"
    BY DEF EntriesClosed
  <2>1. CASE i \in DOMAIN ledger[w]
    BY <1>1, <1>3, <1>4, <2>1 DEF EntriesInv, EntriesClosed
  <2>2. CASE i \notin DOMAIN ledger[w]
    BY <1>1, <1>3, <2>2
  <2> QED BY <2>1, <2>2
<1>6. OneRowEach'
  <2> SUFFICES ASSUME NEW w \in Wallet,
                      NEW i \in DOMAIN ledger'[w], NEW k \in DOMAIN ledger'[w],
                      ledger'[w][i].request = ledger'[w][k].request
               PROVE  i = k
    BY DEF OneRowEach
  <2>1. CASE i \in DOMAIN ledger[w] /\ k \in DOMAIN ledger[w]
    BY <1>1, <2>1 DEF EntriesInv, OneRowEach
  <2>2. ASSUME NEW n \in DOMAIN ledger'[w] PROVE
          /\ n \in DOMAIN ledger[w] => ledger'[w][n].request # r
          /\ n \notin DOMAIN ledger[w] =>
               n = Len(ledger[w]) + 1 /\ ledger'[w][n].request = r
    BY <1>1, <1>4
  <2> QED BY <2>1, <2>2
<1>7. Paired'
  <2> SUFFICES ASSUME NEW w \in Wallet, NEW k \in DOMAIN ledger'[w],
                      ledger'[w][k].type # "DEPOSIT"
               PROVE  \E v \in Wallet \ {w} : \E i \in DOMAIN ledger'[v] :
                         Halves(ledger'[v][i], v, ledger'[w][k], w)
    BY DEF Paired
  <2>1. CASE k \in DOMAIN ledger[w]
    <3>1. ledger'[w][k] = ledger[w][k]
      BY <1>1, <2>1
    <3>2. PICK v \in Wallet \ {w} : \E i \in DOMAIN ledger[v] :
                Halves(ledger[v][i], v, ledger[w][k], w)
      BY <2>1, <3>1 DEF EntriesInv, Paired
    <3>3. PICK i \in DOMAIN ledger[v] : Halves(ledger[v][i], v, ledger[w][k], w)
      BY <3>2
    <3>4. i \in DOMAIN ledger'[v] /\ ledger'[v][i] = ledger[v][i]
      BY <1>1
    <3> QED BY <3>1, <3>3, <3>4
  <2>2. CASE k \notin DOMAIN ledger[w]
    <3>1. w \in DOMAIN rows /\ ledger'[w][k] = rows[w]
      BY <1>1, <2>2
    <3>2. PICK v \in DOMAIN rows \ {w} : Halves(rows[v], v, rows[w], w)
      BY <3>1
    <3> QED BY <1>1, <1>2, <3>1, <3>2
  <2> QED BY <2>1, <2>2
<1> QED BY <1>5, <1>6, <1>7 DEF EntriesInv

\* Steps that write no row keep the entries: none takes back an answer.
LEMMA EntriesUnchanged ==
    ASSUME TypeOK, EntriesInv, ledger' = ledger,
           \A q \in Request : pc[q] = "done" => pc'[q] = "done"
    PROVE  EntriesInv'
<1>1. ASSUME NEW w \in Wallet, NEW i \in DOMAIN ledger[w]
      PROVE  pc'[ledger[w][i].request] = "done"
  <2>1. ledger[w][i] \in Row
    BY ElementOfSeq DEF TypeOK
  <2> QED BY <2>1 DEF EntriesInv, EntriesClosed, Row
<1> QED BY <1>1 DEF EntriesInv, EntriesClosed, OneRowEach, Paired

LEMMA EntriesStep ==
    ASSUME IInv, EntriesInv, [Next]_vars
    PROVE  EntriesInv'
<1>1. ASSUME NEW r \in Request, CommitDeposit(r)
      PROVE  EntriesInv'
  <2>1. RowsComputed(r, DepositRows(r))
    BY <1>1, DepositRowsComputed DEF CommitDeposit, IInv
  <2>2. \A w \in DOMAIN DepositRows(r) :
          DepositRows(r)[w].request = r /\ DepositRows(r)[w].type = "DEPOSIT"
    BY DEF DepositRows, RowOf
  <2> QED BY <1>1, <2>1, <2>2, EntriesPosted DEF CommitDeposit, IInv
<1>2. ASSUME NEW r \in Request, CommitTransfer(r)
      PROVE  EntriesInv'
  <2> DEFINE from == job[r].user
             to == job[r].to
             rows == TransferRows(r)
  <2>1. RowsComputed(r, rows)
    BY <1>2, TransferRowsComputed DEF CommitTransfer, IInv
  <2>2. to # from
    BY <1>2 DEF CommitTransfer, IInv, SessionsReady, Working
  <2>3. DOMAIN rows = {from, to}
    BY DEF TransferRows
  <2>4. /\ rows[from] = RowOf(r, from, "DEBIT", to, -job[r].amount)
        /\ rows[to] = RowOf(r, to, "CREDIT", from, job[r].amount)
    BY <2>2 DEF TransferRows
  <2> HIDE DEF rows
  <2>5. /\ rows[from].request = r /\ rows[to].request = r
        /\ Halves(rows[from], from, rows[to], to)
        /\ Halves(rows[to], to, rows[from], from)
    BY <2>4 DEF RowOf, Halves, OtherHalf
  <2>6. \A w \in DOMAIN rows :
          /\ rows[w].request = r
          /\ \E v \in DOMAIN rows \ {w} : Halves(rows[v], v, rows[w], w)
    BY <2>2, <2>3, <2>5
  <2> QED BY <1>2, <2>1, <2>6, EntriesPosted DEF CommitTransfer, IInv, rows
<1>3. ASSUME NEW r \in Request,
             \/ \E j \in Job : Authenticate(r, j)
             \/ ResolveReceiver(r) \/ RejectReceiver(r) \/ LockFirst(r)
             \/ LockSecond(r) \/ Reject(r) \/ Abort(r)
      PROVE  ledger' = ledger /\ \A q \in Request : pc[q] = "done" => pc'[q] = "done"
  <2>1. /\ ledger' = ledger
        /\ pc[r] # "done"
        /\ \E stage : pc' = [pc EXCEPT ![r] = stage]
    BY <1>3 DEF Authenticate, ResolveReceiver, RejectReceiver, LockFirst,
                LockSecond, Reject, Abort, EndAs, Ended
  <2> QED BY <2>1 DEF IInv, TypeOK
<1>4. ASSUME (\E w \in Wallet : SupportSetsActive(w)) \/ UNCHANGED vars
      PROVE  ledger' = ledger /\ pc' = pc
  BY <1>4 DEF SupportSetsActive, vars
<1>5. TypeOK
  BY DEF IInv
<1> QED BY <1>1, <1>2, <1>3, <1>4, <1>5, EntriesUnchanged DEF Next, Handle

\* Paired rows are paired one to one, because a request has one row a wallet.
LEMMA EntriesPairedOnce ==
    ASSUME TypeOK, EntriesInv
    PROVE  DoubleEntry
<1>1. ASSUME NEW w \in Wallet, NEW k \in DOMAIN ledger[w],
             ledger[w][k].type # "DEPOSIT"
      PROVE  \E v \in Wallet \ {w} :
                Cardinality({i \in RowsOf(v, OtherHalf(ledger[w][k].type)) :
                                Mirrors(w, k, v, i)}) = 1
  <2>0. PICK v \in Wallet \ {w} : \E n \in DOMAIN ledger[v] :
                Halves(ledger[v][n], v, ledger[w][k], w)
    BY <1>1 DEF EntriesInv, Paired
  <2>1. PICK n \in DOMAIN ledger[v] : Halves(ledger[v][n], v, ledger[w][k], w)
    BY <2>0
  <2> DEFINE M == {i \in RowsOf(v, OtherHalf(ledger[w][k].type)) : Mirrors(w, k, v, i)}
  <2>2. n \in M
    BY <2>1 DEF Halves, RowsOf, Mirrors
  <2>3. ASSUME NEW i \in M PROVE i = n
    BY <2>2, <2>3 DEF EntriesInv, OneRowEach, RowsOf, Mirrors
  <2>4. M = {n}
    BY <2>2, <2>3
  <2> QED BY <2>4, FS_Singleton
<1>2. ASSUME NEW w \in Wallet, NEW k \in RowsOf(w, "DEBIT")
      PROVE  \E v \in Wallet \ {w} :
                Cardinality({i \in RowsOf(v, "CREDIT") : Mirrors(w, k, v, i)}) = 1
  <2>1. k \in DOMAIN ledger[w] /\ ledger[w][k].type = "DEBIT"
    BY DEF RowsOf
  <2>2. OtherHalf(ledger[w][k].type) = "CREDIT"
    BY <2>1 DEF OtherHalf
  <2> QED BY <1>1, <2>1, <2>2
<1>3. ASSUME NEW w \in Wallet, NEW k \in RowsOf(w, "CREDIT")
      PROVE  \E v \in Wallet \ {w} :
                Cardinality({i \in RowsOf(v, "DEBIT") : Mirrors(w, k, v, i)}) = 1
  <2>1. k \in DOMAIN ledger[w] /\ ledger[w][k].type = "CREDIT"
    BY DEF RowsOf
  <2>2. OtherHalf(ledger[w][k].type) = "DEBIT"
    BY <2>1 DEF OtherHalf
  <2> QED BY <1>1, <2>1, <2>2
<1> QED BY <1>2, <1>3 DEF DoubleEntry

\* Every DEBIT has its one CREDIT on the other wallet, and the reverse, in
\* every committed state, whatever overlaps, fails or is frozen in between.
THEOREM EntriesDouble == Spec => []DoubleEntry
<1>1. Init => EntriesInv
  BY DEF Init, EntriesInv, EntriesClosed, OneRowEach, Paired
<1>2. IInv /\ EntriesInv /\ [Next]_vars => EntriesInv'
  BY EntriesStep
<1>3. IInv /\ EntriesInv => DoubleEntry
  BY EntriesPairedOnce DEF IInv
<1> QED BY <1>1, <1>2, <1>3, Inductive, PTL DEF Spec

-----------------------------------------------------------------------------
(* Sums.  The library's induction principles take an operator; those below *)
(* go by minimal counterexamples instead, which are sets.                  *)

\* The library's sum of f over S, by a shorter name.
SumOver(f, S) == SumFunctionOnSet(f, S)

\* g adds f over the sets of D, taking one element away at a time.
Adds(g, f, D) ==
    g = [s \in D |-> IF s = {} THEN 0
                     ELSE f[CHOOSE x \in s : TRUE]
                             + g[s \ {CHOOSE x \in s : TRUE}]]

\* Sums are folds, and folds use a function that CHOOSE picks.
LEMMA SumDef ==
    ASSUME NEW f, NEW S
    PROVE  SumOver(f, S) = (CHOOSE g : Adds(g, f, SUBSET S))[S]
BY DEF SumOver, SumFunctionOnSet, FoldFunctionOnSet, MapThenFoldSet, Adds

\* Sets of numbers have a least one.
LEMMA LeastNat ==
    ASSUME NEW T \in SUBSET Nat, T # {}
    PROVE  \E n \in T : \A m \in T : n <= m
<1>1. PICK n \in T : \A m \in T : <<m, n>> \notin OpToRel(<, Nat)
  BY NatLessThanWellFounded, WFMin
<1>2. ASSUME NEW m \in T PROVE n <= m
  <2>1. ~(m < n)
    BY <1>1 DEF OpToRel
  <2> QED BY <2>1
<1> QED BY <1>2

\* Such a function exists on the sets of at most n elements, and so, for a
\* finite set, on all its subsets.
LEMMA AdderExists ==
    ASSUME NEW f, NEW S, IsFiniteSet(S)
    PROVE  \E g : Adds(g, f, SUBSET S)
<1> DEFINE Upto(n) == {s \in SUBSET S : Cardinality(s) <= n}
           T == {n \in Nat : ~ \E g : Adds(g, f, Upto(n))}
<1>1. \A s \in SUBSET S : IsFiniteSet(s) /\ Cardinality(s) \in Nat
  BY FS_Subset, FS_CardinalityType
<1>2. \E g : Adds(g, f, Upto(0))
  <2>1. \A s \in Upto(0) : s = {}
    BY <1>1, FS_EmptySet
  <2>2. Adds([s \in Upto(0) |-> 0], f, Upto(0))
    BY <2>1 DEF Adds
  <2> QED BY <2>2
<1>3. ASSUME NEW n \in Nat, NEW h, Adds(h, f, Upto(n))
      PROVE  \E g : Adds(g, f, Upto(n + 1))
  <2> DEFINE Rest(s) == s \ {CHOOSE x \in s : TRUE}
             Add(k, s) == IF s = {} THEN 0
                          ELSE f[CHOOSE x \in s : TRUE] + k[Rest(s)]
             g == [s \in Upto(n + 1) |-> Add(h, s)]
  <2>1. ASSUME NEW s \in Upto(n + 1), s # {}
        PROVE  Rest(s) \in Upto(n)
    <3>1. (CHOOSE x \in s : TRUE) \in s
      BY <2>1
    <3>2. IsFiniteSet(s)
      BY <1>1
    <3>3. Cardinality(Rest(s)) = Cardinality(s) - 1
      BY <3>1, <3>2, FS_RemoveElement
    <3> QED BY <1>1, <3>3
  <2>2. Upto(n) \subseteq Upto(n + 1)
    BY <1>1
  <2>3. ASSUME NEW s \in Upto(n) PROVE g[s] = h[s]
    <3>1. h[s] = Add(h, s)
      BY <1>3 DEF Adds
    <3> QED BY <2>2, <3>1
  <2>4. \A s \in Upto(n + 1) : Add(h, s) = Add(g, s)
    <3> SUFFICES ASSUME NEW s \in Upto(n + 1) PROVE Add(h, s) = Add(g, s)
      OBVIOUS
    <3>1. s # {} => h[Rest(s)] = g[Rest(s)]
      BY <2>1, <2>3
    <3> HIDE DEF g, Rest
    <3> QED BY <3>1
  <2>5. g = [s \in Upto(n + 1) |-> Add(g, s)]
    BY <2>4
  <2>6. Adds(g, f, Upto(n + 1))
    BY <2>5 DEF Adds
  <2> QED BY <2>6
<1>4. ASSUME NEW n \in T PROVE n \in Nat /\ ~ \E g : Adds(g, f, Upto(n))
  BY <1>4
<1>5. ASSUME NEW n \in Nat, n \notin T PROVE \E g : Adds(g, f, Upto(n))
  BY <1>5
<1> HIDE DEF T, Upto
<1>6. T = {}
  <2> SUFFICES ASSUME T # {} PROVE FALSE
    OBVIOUS
  <2>1. PICK n \in T : \A m \in T : n <= m
    <3>1. T \in SUBSET Nat
      BY <1>4
    <3> QED BY <3>1, LeastNat
  <2>2. n \in Nat /\ n # 0
    BY <1>2, <1>4
  <2>3. n - 1 \in Nat /\ ~(n <= n - 1)
    BY <2>2
  <2>4. PICK h : Adds(h, f, Upto(n - 1))
    BY <2>1, <2>3, <1>5
  <2>5. \E g : Adds(g, f, Upto((n - 1) + 1))
    BY <2>3, <2>4, <1>3
  <2>6. (n - 1) + 1 = n
    BY <2>2
  <2> QED BY <2>5, <2>6, <1>4
<1>7. Cardinality(S) \in Nat /\ Upto(Cardinality(S)) = SUBSET S
  BY <1>1, FS_Subset, FS_CardinalityType DEF Upto
<1> QED BY <1>5, <1>6, <1>7

\* A non-empty set of subsets has a minimal one.
LEMMA LeastSubset ==
    ASSUME NEW S, IsFiniteSet(S), NEW T \in SUBSET SUBSET S, T # {}
    PROVE  \E V \in T : \A x \in V : V \ {x} \notin T
<1>1. IsWellFoundedOn(StrictSubsetOrdering(S), SUBSET S)
  BY FS_StrictSubsetOrderingWellFounded, FS_FiniteSubsetsOfFinite
<1>2. PICK V \in T : \A U \in T : <<U, V>> \notin StrictSubsetOrdering(S)
  BY <1>1, WFMin
<1>3. ASSUME NEW x \in V, V \ {x} \in T PROVE FALSE
  <2>1. <<V \ {x}, V>> \in StrictSubsetOrdering(S)
    BY <1>3 DEF StrictSubsetOrdering
  <2> QED BY <1>2, <1>3, <2>1
<1> QED BY <1>3

\* Any function that adds f over the subsets of S gives the sums of f.
LEMMA SumOfSubset ==
    ASSUME NEW f, NEW S, IsFiniteSet(S), NEW g, Adds(g, f, SUBSET S),
           NEW U \in SUBSET S
    PROVE  g[U] = SumOver(f, U)
<1> DEFINE h == CHOOSE k : Adds(k, f, SUBSET U)
           T == {V \in SUBSET U : g[V] # h[V]}
<1>1. IsFiniteSet(U)
  BY FS_Subset
<1>2. Adds(h, f, SUBSET U)
  BY <1>1, AdderExists
<1> HIDE DEF h
<1>3. T = {}
  <2> SUFFICES ASSUME T # {} PROVE FALSE
    OBVIOUS
  <2>1. PICK V \in T : \A x \in V : V \ {x} \notin T
    <3>1. T \in SUBSET SUBSET U
      OBVIOUS
    <3> HIDE DEF T
    <3> QED BY <1>1, <3>1, LeastSubset
  <2> DEFINE c == CHOOSE x \in V : TRUE
  <2>2. V \in SUBSET U /\ V \in SUBSET S /\ g[V] # h[V]
    OBVIOUS
  <2>3. CASE V = {}
    BY <1>2, <2>2, <2>3 DEF Adds
  <2>4. CASE V # {}
    <3>1. c \in V
      BY <2>4
    <3>2. V \ {c} \in SUBSET U /\ g[V \ {c}] = h[V \ {c}]
      BY <2>1, <2>2, <3>1
    <3>3. g[V] = f[c] + g[V \ {c}]
      BY <2>2, <2>4 DEF Adds
    <3>4. h[V] = f[c] + h[V \ {c}]
      BY <1>2, <2>2, <2>4 DEF Adds
    <3> QED BY <2>2, <3>2, <3>3, <3>4
  <2> QED BY <2>3, <2>4
<1>4. g[U] = h[U]
  BY <1>3
<1> QED BY <1>4, SumDef DEF h

\* The sum of nothing is 0, and taking any one element away takes its value
\* away, whichever element the fold takes first.
LEMMA SumFacts ==
    ASSUME NEW S, IsFiniteSet(S), NEW f, \A x \in S : f[x] \in Int
    PROVE  /\ SumOver(f, {}) = 0
           /\ SumOver(f, S) \in Int
           /\ \A x \in S : /\ SumOver(f, S \ {x}) \in Int
                          /\ SumOver(f, S) = f[x] + SumOver(f, S \ {x})
<1> DEFINE Adding(V, x) == /\ SumOver(f, V \ {x}) \in Int
                           /\ SumOver(f, V) = f[x] + SumOver(f, V \ {x})
           Bad == {V \in SUBSET S : \/ SumOver(f, V) \notin Int
                                   \/ \E x \in V : ~ Adding(V, x)}
<1>1. PICK g : Adds(g, f, SUBSET S)
  BY AdderExists
<1>2. \A V \in SUBSET S : g[V] = SumOver(f, V)
  BY <1>1, SumOfSubset
<1>3. SumOver(f, {}) = 0
  <2>1. g[{}] = 0
    BY <1>1 DEF Adds
  <2> QED BY <1>2, <2>1
<1>4. ASSUME NEW V \in SUBSET S, V # {}
      PROVE  \E c \in V : SumOver(f, V) = f[c] + SumOver(f, V \ {c})
  <2> DEFINE c == CHOOSE x \in V : TRUE
  <2>1. c \in V
    BY <1>4
  <2>2. g[V] = f[c] + g[V \ {c}]
    BY <1>1, <1>4 DEF Adds
  <2> HIDE DEF c
  <2>3. V \ {c} \in SUBSET S
    OBVIOUS
  <2>4. g[V] = SumOver(f, V) /\ g[V \ {c}] = SumOver(f, V \ {c})
    BY <1>2, <2>3
  <2> QED BY <2>1, <2>2, <2>4
<1>5. ASSUME NEW V \in SUBSET S, V \notin Bad
      PROVE  /\ SumOver(f, V) \in Int
             /\ \A x \in V : Adding(V, x)
  BY <1>5
<1>6. Bad = {}
  <2> SUFFICES ASSUME Bad # {} PROVE FALSE
    OBVIOUS
  <2>1. PICK V \in Bad : \A x \in V : V \ {x} \notin Bad
    <3>1. Bad \in SUBSET SUBSET S
      OBVIOUS
    <3> HIDE DEF Bad
    <3> QED BY <3>1, LeastSubset
  <2>2. /\ V \in SUBSET S
        /\ ~ (SumOver(f, V) \in Int /\ \A x \in V : Adding(V, x))
    OBVIOUS
  <2> HIDE DEF Bad
  <2>3. V # {}
    <3> SUFFICES ASSUME V = {} PROVE FALSE
      OBVIOUS
    <3>1. SumOver(f, V) = 0
      BY <1>3
    <3>2. \A x \in V : Adding(V, x)
      OBVIOUS
    <3> HIDE DEF Adding
    <3> QED BY <2>2, <3>1, <3>2
  <2>4. PICK c \in V : SumOver(f, V) = f[c] + SumOver(f, V \ {c})
    BY <1>4, <2>2, <2>3
  <2>5. \A x \in V : V \ {x} \in SUBSET S /\ V \ {x} \notin Bad
    BY <2>1, <2>2
  <2>6. \A x \in V : SumOver(f, V \ {x}) \in Int /\ f[x] \in Int
    BY <1>5, <2>2, <2>5
  <2>7. ASSUME NEW x \in V, x # c
        PROVE  SumOver(f, V) = f[x] + SumOver(f, V \ {x})
    <3> DEFINE rest == SumOver(f, (V \ {c}) \ {x})
    <3>1. rest \in Int /\ SumOver(f, V \ {c}) = f[x] + rest
      BY <1>5, <2>5, <2>7
    <3>2. SumOver(f, V \ {x}) = f[c] + SumOver(f, (V \ {x}) \ {c})
      BY <1>5, <2>5, <2>7
    <3>3. (V \ {x}) \ {c} = (V \ {c}) \ {x}
      OBVIOUS
    <3>4. SumOver(f, V \ {x}) = f[c] + rest
      BY <3>2, <3>3
    <3> HIDE DEF rest
    <3> QED BY <2>4, <2>6, <3>1, <3>4
  <2>8. SumOver(f, V) \in Int
    BY <2>4, <2>6
  <2>9. \A x \in V : Adding(V, x)
    BY <2>4, <2>6, <2>7
  <2> QED BY <2>2, <2>8, <2>9
<1>7. \A V \in SUBSET S : SumOver(f, V) \in Int /\ \A x \in V : Adding(V, x)
  BY <1>5, <1>6
<1> QED BY <1>3, <1>7

\* Functions that agree on S have the same sum.
LEMMA SumSame ==
    ASSUME NEW S, IsFiniteSet(S), NEW f, NEW h,
           \A x \in S : f[x] \in Int /\ h[x] = f[x]
    PROVE  SumOver(h, S) = SumOver(f, S)
<1> DEFINE Bad == {V \in SUBSET S : SumOver(h, V) # SumOver(f, V)}
<1>1. Bad = {}
  <2> SUFFICES ASSUME Bad # {} PROVE FALSE
    OBVIOUS
  <2>1. PICK V \in Bad : \A x \in V : V \ {x} \notin Bad
    <3>1. Bad \in SUBSET SUBSET S
      OBVIOUS
    <3> HIDE DEF Bad
    <3> QED BY <3>1, LeastSubset
  <2>2. /\ V \in SUBSET S /\ SumOver(h, V) # SumOver(f, V)
        /\ \A x \in V : SumOver(h, V \ {x}) = SumOver(f, V \ {x})
    BY <2>1
  <2>3. IsFiniteSet(V)
    BY <2>2, FS_Subset
  <2> HIDE DEF Bad
  <2>4. \A x \in V : f[x] \in Int /\ h[x] \in Int /\ h[x] = f[x]
    BY <2>2
  <2>5. /\ SumOver(f, {}) = 0
        /\ \A x \in V : SumOver(f, V) = f[x] + SumOver(f, V \ {x})
    BY <2>3, <2>4, SumFacts
  <2>6. /\ SumOver(h, {}) = 0
        /\ \A x \in V : SumOver(h, V) = h[x] + SumOver(h, V \ {x})
    BY <2>3, <2>4, SumFacts
  <2> QED BY <2>2, <2>4, <2>5, <2>6
<1> QED BY <1>1

\* Changing one value changes the sum by as much.
LEMMA SumChange ==
    ASSUME NEW S, IsFiniteSet(S), NEW x \in S, NEW f, NEW h,
           \A y \in S : f[y] \in Int /\ h[y] \in Int,
           \A y \in S \ {x} : h[y] = f[y]
    PROVE  SumOver(h, S) = SumOver(f, S) + (h[x] - f[x])
<1>1. IsFiniteSet(S \ {x})
  BY FS_RemoveElement
<1>2. SumOver(h, S \ {x}) = SumOver(f, S \ {x})
  BY <1>1, SumSame
<1>3. /\ SumOver(f, S) = f[x] + SumOver(f, S \ {x})
      /\ SumOver(h, S) = h[x] + SumOver(h, S \ {x})
      /\ SumOver(f, S \ {x}) \in Int
  BY SumFacts
<1> QED BY <1>2, <1>3

-----------------------------------------------------------------------------
(* Money.                                                                  *)

\* Deposited with the books as a parameter.
Deposits(books, w) ==
    LET R == {i \in DOMAIN books[w] : books[w][i].type = "DEPOSIT"}
    IN  SumOver([i \in R |-> books[w][i].amount], R)

LEMMA DepositsType ==
    ASSUME NEW books \in [Wallet -> Seq(Row)], NEW w \in Wallet
    PROVE  /\ IsFiniteSet(DOMAIN books[w])
           /\ \A i \in DOMAIN books[w] : books[w][i].amount \in Int
           /\ Deposits(books, w) \in Int
<1> DEFINE R == {i \in DOMAIN books[w] : books[w][i].type = "DEPOSIT"}
           f == [i \in R |-> books[w][i].amount]
<1>1. IsFiniteSet(DOMAIN books[w])
  <2>1. DOMAIN books[w] = 1 .. Len(books[w]) /\ Len(books[w]) \in Nat
    BY LenProperties
  <2> QED BY <2>1, FS_Interval
<1>2. ASSUME NEW i \in DOMAIN books[w] PROVE books[w][i].amount \in Int
  <2>1. books[w][i] \in Row
    BY ElementOfSeq
  <2>2. books[w][i].amount \in Amount
    BY <2>1 DEF Row
  <2>3. \A a \in Amount : a \in Int
    BY AmountAssumption
  <2> QED BY <2>2, <2>3
<1>3. IsFiniteSet(R) /\ \A i \in R : f[i] \in Int
  BY <1>1, <1>2, FS_Subset
<1>4. SumOver(f, R) \in Int
  <2> HIDE DEF f, R
  <2> QED BY <1>3, SumFacts
<1> QED BY <1>1, <1>2, <1>4 DEF Deposits

AllUpToDate == \A w \in Wallet : \A i \in DOMAIN ledger[w] : UpToDate(w, i)

\* What a commit adds to the deposits of a wallet.
LEMMA DepositsPosted ==
    ASSUME TypeOK, TypeOK', NEW r \in Request, NEW rows, RowsComputed(r, rows),
           Post(rows), NEW w \in Wallet
    PROVE  Deposits(ledger', w) =
              IF w \in DOMAIN rows /\ rows[w].type = "DEPOSIT"
              THEN Deposits(ledger, w) + rows[w].amount
              ELSE Deposits(ledger, w)
<1> DEFINE n == Len(ledger[w]) + 1
           R == {i \in DOMAIN ledger[w] : ledger[w][i].type = "DEPOSIT"}
           f == [i \in R |-> ledger[w][i].amount]
           RR == {i \in DOMAIN ledger'[w] : ledger'[w][i].type = "DEPOSIT"}
           ff == [i \in RR |-> ledger'[w][i].amount]
<1>1. /\ \A i \in DOMAIN ledger[w] :
           i \in DOMAIN ledger'[w] /\ ledger'[w][i] = ledger[w][i]
      /\ w \in DOMAIN rows => n \in DOMAIN ledger'[w] /\ ledger'[w][n] = rows[w]
      /\ \A i \in DOMAIN ledger'[w] :
           \/ i \in DOMAIN ledger[w]
           \/ w \in DOMAIN rows /\ i = n /\ i \notin DOMAIN ledger[w]
  BY RowsAdded
<1>2. n \notin DOMAIN ledger[w]
  <2>1. Len(ledger[w]) \in Nat /\ DOMAIN ledger[w] = 1 .. Len(ledger[w])
    BY LenProperties DEF TypeOK
  <2> QED BY <2>1
<1>3. /\ IsFiniteSet(DOMAIN ledger'[w])
      /\ \A i \in DOMAIN ledger'[w] : ledger'[w][i].amount \in Int
  BY DepositsType DEF TypeOK
<1>4. \A i \in R : i \in RR /\ ff[i] = f[i]
  BY <1>1
<1>5. IsFiniteSet(RR) /\ IsFiniteSet(R) /\ \A i \in RR : ff[i] \in Int
  <2>1. RR \in SUBSET DOMAIN ledger'[w] /\ R \in SUBSET RR
    BY <1>4
  <2>2. IsFiniteSet(RR) /\ IsFiniteSet(R)
    BY <2>1, <1>3, FS_Subset
  <2> QED BY <2>2, <1>3
<1>6. Deposits(ledger, w) = SumOver(f, R) /\ Deposits(ledger', w) = SumOver(ff, RR)
  BY DEF Deposits
<1>7. CASE w \in DOMAIN rows /\ rows[w].type = "DEPOSIT"
  <2>1. n \in RR /\ RR \ {n} = R /\ ff[n] = rows[w].amount
    BY <1>1, <1>2, <1>7
  <2> HIDE DEF n, R, f, RR, ff
  <2>2. /\ SumOver(ff, RR) = ff[n] + SumOver(ff, R)
        /\ SumOver(ff, R) \in Int
    BY <1>5, <2>1, SumFacts
  <2>3. SumOver(ff, R) = SumOver(f, R)
    <3>1. \A i \in R : f[i] \in Int /\ ff[i] = f[i]
      BY <1>4, <1>5
    <3> QED BY <1>5, <3>1, SumSame
  <2>4. ff[n] \in Int
    BY <1>5, <2>1
  <2> QED BY <1>6, <1>7, <2>1, <2>2, <2>3, <2>4
<1>8. CASE ~(w \in DOMAIN rows /\ rows[w].type = "DEPOSIT")
  <2>1. RR = R
    BY <1>1, <1>2, <1>8
  <2> HIDE DEF R, f, RR, ff
  <2>2. \A i \in R : f[i] \in Int /\ ff[i] = f[i]
    BY <1>4, <1>5
  <2>3. SumOver(ff, R) = SumOver(f, R)
    BY <1>5, <2>2, SumSame
  <2> QED BY <1>6, <1>8, <2>1, <2>3
<1> QED BY <1>7, <1>8

\* A commit whose rows are up to date moves the balances by the amounts of the
\* rows, and follows commits whose rows were.
LEMMA PostedUpToDate ==
    ASSUME TypeOK, AuditMatchesBalance, ObjectsHonest,
           NEW r \in Request, NEW rows, RowsComputed(r, rows), Post(rows),
           AllUpToDate'
    PROVE  /\ AllUpToDate
           /\ \A w \in DOMAIN rows : balance'[w] =
                IF rows[w].type = "DEBIT" THEN balance[w] - rows[w].amount
                                          ELSE balance[w] + rows[w].amount
           /\ \A w \in Wallet \ DOMAIN rows : balance'[w] = balance[w]
<1>1. /\ \A w \in Wallet : \A i \in DOMAIN ledger[w] :
           i \in DOMAIN ledger'[w] /\ ledger'[w][i] = ledger[w][i]
      /\ \A w \in DOMAIN rows :
           /\ Len(ledger[w]) + 1 \in DOMAIN ledger'[w]
           /\ ledger'[w][Len(ledger[w]) + 1] = rows[w]
  BY RowsAdded
<1>2. AllUpToDate
  BY <1>1 DEF AllUpToDate, UpToDate
<1>3. ASSUME NEW w \in DOMAIN rows
      PROVE  balance'[w] = IF rows[w].type = "DEBIT"
                           THEN balance[w] - rows[w].amount
                           ELSE balance[w] + rows[w].amount
  <2>1. /\ w \in Wallet /\ identity[r][w] # NotLoaded
        /\ rows[w].version = identity[r][w].version
        /\ rows[w].before = identity[r][w].balance
        /\ rows[w].after = IF rows[w].type = "DEBIT"
                           THEN rows[w].before - rows[w].amount
                           ELSE rows[w].before + rows[w].amount
    BY DEF RowsComputed
  <2>2. balance'[w] = rows[w].after
    BY <2>1 DEF Post
  <2>3. Len(ledger[w]) \in Nat
    BY <2>1, LenProperties DEF TypeOK
  <2>4. rows[w].version = (Len(ledger[w]) + 1) - 1
    BY <1>1, <2>1 DEF AllUpToDate, UpToDate
  <2>5. rows[w].version = Len(ledger[w])
    BY <2>3, <2>4
  <2>6. rows[w].before = balance[w]
    BY <2>1, <2>5 DEF ObjectsHonest, AuditMatchesBalance
  <2> QED BY <2>1, <2>2, <2>6
<1>4. \A w \in Wallet \ DOMAIN rows : balance'[w] = balance[w]
  BY DEF Post
<1> QED BY <1>2, <1>3, <1>4

\* The money of some balances and books, as Ledger adds it up.
Conserved(money, books) ==
    SumOver(money, Wallet) = SumOver(Opening, Wallet)
                                + SumOver([w \in Wallet |-> Deposits(books, w)], Wallet)

LEMMA MoneyAsSums ==
    ASSUME TypeOK
    PROVE  MoneyConserved <=> Conserved(balance, ledger)
<1>1. \A w \in Wallet : Deposited(w) = Deposits(ledger, w)
  BY DEF Deposited, Deposits, RowsOf, SumFunction, SumOver
<1>2. [w \in Wallet |-> Deposited(w)] = [w \in Wallet |-> Deposits(ledger, w)]
  BY <1>1
<1>3. DOMAIN balance = Wallet /\ DOMAIN Opening = Wallet
  BY OpeningAssumption DEF TypeOK
<1> QED BY <1>2, <1>3 DEF MoneyConserved, Conserved, SumFunction, SumOver

\* Commits of rows that are up to date conserve the money.
LEMMA MoneyPosted ==
    ASSUME TypeOK, AuditMatchesBalance, ObjectsHonest, TypeOK',
           NEW r \in Request, NEW rows, RowsComputed(r, rows), Post(rows),
           AllUpToDate', Conserved(balance, ledger),
           \/ \E u \in Wallet : DOMAIN rows = {u} /\ rows[u].type = "DEPOSIT"
           \/ \E u \in Wallet, v \in Wallet :
                /\ u # v /\ DOMAIN rows = {u, v}
                /\ rows[u].type = "DEBIT" /\ rows[v].type = "CREDIT"
                /\ rows[u].amount = rows[v].amount
    PROVE  Conserved(balance', ledger')
<1> DEFINE d == [w \in Wallet |-> Deposits(ledger, w)]
           dd == [w \in Wallet |-> Deposits(ledger', w)]
<1>1. /\ \A w \in Wallet : /\ balance[w] \in Int /\ balance'[w] \in Int
                           /\ d[w] \in Int /\ dd[w] \in Int
                           /\ Opening[w] \in Int
      /\ IsFiniteSet(Wallet)
  <2>1. \A w \in Wallet : balance[w] \in Int /\ balance'[w] \in Int
    BY DEF TypeOK
  <2>2. \A w \in Wallet : Deposits(ledger, w) \in Int
    BY DepositsType DEF TypeOK
  <2>3. \A w \in Wallet : Deposits(ledger', w) \in Int
    BY DepositsType DEF TypeOK
  <2>4. \A w \in Wallet : Opening[w] \in Int
    BY OpeningAssumption
  <2> QED BY <2>1, <2>2, <2>3, <2>4, WalletAssumption
<1>2. /\ \A w \in DOMAIN rows : balance'[w] =
                IF rows[w].type = "DEBIT" THEN balance[w] - rows[w].amount
                                          ELSE balance[w] + rows[w].amount
      /\ \A w \in Wallet \ DOMAIN rows : balance'[w] = balance[w]
  BY PostedUpToDate
<1>3. \A w \in Wallet : dd[w] = IF w \in DOMAIN rows /\ rows[w].type = "DEPOSIT"
                               THEN d[w] + rows[w].amount ELSE d[w]
  BY DepositsPosted
<1>4. \A w \in DOMAIN rows : rows[w].amount \in Int
  BY AmountAssumption DEF RowsComputed, Row
<1>5. SumOver(balance, Wallet) = SumOver(Opening, Wallet) + SumOver(d, Wallet)
  BY DEF Conserved
<1> HIDE DEF d, dd
<1>6. /\ SumOver(balance, Wallet) \in Int /\ SumOver(d, Wallet) \in Int
      /\ SumOver(Opening, Wallet) \in Int
  BY <1>1, SumFacts
<1>7. ASSUME NEW u \in Wallet, DOMAIN rows = {u}, rows[u].type = "DEPOSIT"
      PROVE  SumOver(balance', Wallet) = SumOver(Opening, Wallet) + SumOver(dd, Wallet)
  <2>1. SumOver(balance', Wallet) = SumOver(balance, Wallet) + (balance'[u] - balance[u])
    BY <1>1, <1>2, <1>7, SumChange
  <2>2. SumOver(dd, Wallet) = SumOver(d, Wallet) + (dd[u] - d[u])
    BY <1>1, <1>3, <1>7, SumChange
  <2>3. balance'[u] = balance[u] + rows[u].amount /\ dd[u] = d[u] + rows[u].amount
    BY <1>2, <1>3, <1>7
  <2>4. /\ balance[u] \in Int /\ d[u] \in Int /\ rows[u].amount \in Int
    BY <1>1, <1>4, <1>7
  <2> QED BY <1>5, <1>6, <2>1, <2>2, <2>3, <2>4
<1>8. ASSUME NEW u \in Wallet, NEW v \in Wallet, u # v, DOMAIN rows = {u, v},
             rows[u].type = "DEBIT", rows[v].type = "CREDIT",
             rows[u].amount = rows[v].amount
      PROVE  SumOver(balance', Wallet) = SumOver(Opening, Wallet) + SumOver(dd, Wallet)
  <2> DEFINE half == [balance EXCEPT ![u] = balance'[u]]
  <2>1. /\ half[u] = balance'[u]
        /\ \A w \in Wallet \ {u} : half[w] = balance[w]
        /\ \A w \in Wallet : half[w] \in Int
    BY <1>1 DEF TypeOK
  <2> HIDE DEF half
  <2>2. SumOver(half, Wallet) = SumOver(balance, Wallet) + (half[u] - balance[u])
    BY <1>1, <2>1, SumChange
  <2>3. \A w \in Wallet \ {v} : balance'[w] = half[w]
    BY <1>2, <1>8, <2>1
  <2>4. SumOver(balance', Wallet) = SumOver(half, Wallet) + (balance'[v] - half[v])
    BY <1>1, <2>1, <2>3, SumChange
  <2>5. /\ balance'[u] = balance[u] - rows[u].amount
        /\ balance'[v] = balance[v] + rows[u].amount
        /\ half[v] = balance[v]
    BY <1>2, <1>8, <2>1
  <2>6. SumOver(dd, Wallet) = SumOver(d, Wallet)
    <3>1. \A w \in Wallet : d[w] \in Int /\ dd[w] = d[w]
      BY <1>1, <1>3, <1>8
    <3> QED BY <1>1, <3>1, SumSame
  <2>7. balance[u] \in Int /\ balance[v] \in Int /\ rows[u].amount \in Int
    BY <1>1, <1>4, <1>8
  <2> QED BY <1>5, <1>6, <2>1, <2>2, <2>4, <2>5, <2>6, <2>7
<1>9. SumOver(balance', Wallet) = SumOver(Opening, Wallet) + SumOver(dd, Wallet)
  BY <1>7, <1>8
<1> QED BY <1>9 DEF Conserved, dd

\* What SerialMoneyConserved says, over the parametrised sums.
SerialMoney == AllUpToDate => Conserved(balance, ledger)

LEMMA MoneyStep ==
    ASSUME IInv, IInv', SerialMoney, [Next]_vars
    PROVE  SerialMoney'
<1>1. TypeOK /\ AuditMatchesBalance /\ ObjectsHonest /\ TypeOK'
  BY DEF IInv
<1>2. ASSUME NEW r \in Request, NEW rows, RowsComputed(r, rows), Post(rows),
           \/ \E u \in Wallet : DOMAIN rows = {u} /\ rows[u].type = "DEPOSIT"
           \/ \E u \in Wallet, v \in Wallet :
                /\ u # v /\ DOMAIN rows = {u, v}
                /\ rows[u].type = "DEBIT" /\ rows[v].type = "CREDIT"
                /\ rows[u].amount = rows[v].amount
      PROVE  SerialMoney'
  <2> SUFFICES ASSUME AllUpToDate' PROVE Conserved(balance', ledger')
    BY DEF SerialMoney
  <2>1. Conserved(balance, ledger)
    BY <1>1, <1>2, PostedUpToDate DEF SerialMoney
  <2> QED BY <1>1, <1>2, <2>1, MoneyPosted
<1>3. ASSUME NEW r \in Request, CommitDeposit(r)
      PROVE  SerialMoney'
  <2>1. RowsComputed(r, DepositRows(r)) /\ Post(DepositRows(r))
    BY <1>3, DepositRowsComputed DEF CommitDeposit, IInv
  <2>2. job[r].user \in Wallet
    BY <1>3 DEF CommitDeposit, IInv, SessionsReady, Working, Job
  <2>3. /\ DOMAIN DepositRows(r) = {job[r].user}
        /\ DepositRows(r)[job[r].user].type = "DEPOSIT"
    BY DEF DepositRows, RowOf
  <2> QED BY <1>2, <2>1, <2>2, <2>3
<1>4. ASSUME NEW r \in Request, CommitTransfer(r)
      PROVE  SerialMoney'
  <2> DEFINE from == job[r].user
             to == job[r].to
  <2>1. RowsComputed(r, TransferRows(r)) /\ Post(TransferRows(r))
    BY <1>4, TransferRowsComputed DEF CommitTransfer, IInv
  <2>2. from \in Wallet /\ to \in Wallet /\ from # to
    BY <1>4 DEF CommitTransfer, IInv, SessionsReady, Working, Job
  <2>3. /\ DOMAIN TransferRows(r) = {from, to}
        /\ TransferRows(r)[from].type = "DEBIT"
        /\ TransferRows(r)[to].type = "CREDIT"
        /\ TransferRows(r)[from].amount = TransferRows(r)[to].amount
    BY <2>2 DEF TransferRows, RowOf
  <2> QED BY <1>2, <2>1, <2>2, <2>3
<1>5. ASSUME balance' = balance, ledger' = ledger
      PROVE  SerialMoney'
  BY <1>5 DEF SerialMoney, AllUpToDate, UpToDate
<1>6. \/ balance' = balance /\ ledger' = ledger
      \/ \E r \in Request : CommitDeposit(r) \/ CommitTransfer(r)
  BY DEF Next, Handle, Authenticate, ResolveReceiver, RejectReceiver,
         LockFirst, LockSecond, Reject, Abort, SupportSetsActive, vars
<1> QED BY <1>3, <1>4, <1>5, <1>6

\* Nothing has been deposited at the start.
LEMMA MoneyInit ==
    ASSUME Init
    PROVE  SerialMoney
<1> DEFINE d == [w \in Wallet |-> Deposits(ledger, w)]
<1>1. \A w \in Wallet : d[w] = 0
  <2> SUFFICES ASSUME NEW w \in Wallet PROVE Deposits(ledger, w) = 0
    OBVIOUS
  <2> DEFINE R == {i \in DOMAIN ledger[w] : ledger[w][i].type = "DEPOSIT"}
             f == [i \in R |-> ledger[w][i].amount]
  <2>1. R = {}
    BY DEF Init
  <2> HIDE DEF R, f
  <2>2. SumOver(f, R) = 0
    BY <2>1, FS_EmptySet, SumFacts
  <2> QED BY <2>2 DEF Deposits, R, f
<1> HIDE DEF d
<1>2. SumOver(d, Wallet) = 0
  <2> DEFINE Bad == {V \in SUBSET Wallet : SumOver(d, V) # 0}
  <2> SUFFICES ASSUME Bad # {} PROVE FALSE
    OBVIOUS
  <2>1. PICK V \in Bad : \A x \in V : V \ {x} \notin Bad
    <3>1. Bad \in SUBSET SUBSET Wallet
      OBVIOUS
    <3> HIDE DEF Bad
    <3> QED BY <3>1, LeastSubset, WalletAssumption
  <2>2. /\ V \in SUBSET Wallet /\ SumOver(d, V) # 0
        /\ \A x \in V : SumOver(d, V \ {x}) = 0
    BY <2>1
  <2> HIDE DEF Bad
  <2>3. IsFiniteSet(V) /\ \A x \in V : d[x] \in Int /\ d[x] = 0
    <3>1. IsFiniteSet(V)
      BY <2>2, FS_Subset, WalletAssumption
    <3> QED BY <1>1, <2>2, <3>1
  <2>4. SumOver(d, {}) = 0 /\ \A x \in V : SumOver(d, V) = d[x] + SumOver(d, V \ {x})
    BY <2>3, SumFacts
  <2>5. PICK x \in V : TRUE
    BY <2>2, <2>4
  <2>6. SumOver(d, V) = d[x] + SumOver(d, V \ {x})
    BY <2>4
  <2> QED BY <2>2, <2>3, <2>6
<1>3. SumOver(Opening, Wallet) \in Int
  <2>1. \A w \in Wallet : Opening[w] \in Int
    BY OpeningAssumption
  <2> QED BY <2>1, SumFacts, WalletAssumption
<1>4. SumOver(balance, Wallet) = SumOver(Opening, Wallet) + SumOver(d, Wallet)
  BY <1>2, <1>3 DEF Init
<1> QED BY <1>4 DEF SerialMoney, Conserved, d

\* As long as no two payments overlap on a wallet, money is neither lost nor
\* made: the wallets hold what they opened with and what was deposited.
THEOREM SerialConserved == Spec => []SerialMoneyConserved
<1>1. Init => SerialMoney
  BY MoneyInit
<1>2. IInv /\ IInv' /\ SerialMoney /\ [Next]_vars => SerialMoney'
  BY MoneyStep
<1>3. IInv /\ SerialMoney => SerialMoneyConserved
  BY MoneyAsSums DEF IInv, SerialMoney, SerialMoneyConserved, AllUpToDate
<1> QED BY <1>1, <1>2, <1>3, Inductive, PTL DEF Spec

=============================================================================
