------------------------------- MODULE Ledger -------------------------------
(***************************************************************************)
(* Deposits and peer-to-peer transfers against the wallets table           *)
(* (app/services/wallet_service.py: deposit, transfer_money), as seen by   *)
(* PostgreSQL (READ COMMITTED, row locks) and by SQLAlchemy's sessions.    *)
(*                                                                         *)
(* Every HTTP request has one session.  A session keeps an identity map:   *)
(* the first query that returns a row builds the object, and a later query *)
(* that returns the same row hands back that object unrefreshed, a         *)
(* SELECT ... FOR UPDATE included, because none of the queries asks for    *)
(* populate_existing.  The authentication dependency loads the user and,   *)
(* through User.wallets (lazy="selectin"), the user's wallet, in the same  *)
(* session and before any lock is taken.                                   *)
(*                                                                         *)
(* A user is identified with the primary wallet registration creates for   *)
(* that user, and a wallet with the rank of its UUID.                      *)
(***************************************************************************)
EXTENDS Integers, Sequences, FiniteSets, Functions

CONSTANTS
    Wallet,     \* wallets (and their owners), numbered in UUID order
    Request,    \* HTTP requests, each one call of POST /deposit or /transfer
    Amount,     \* validated amounts: positive, in units of a cent
    Opening,    \* balance of each wallet when the model starts
    NoRequest,  \* owner of a row lock nobody holds
    Nobody,     \* an email address no account has
    NoJob,      \* parameters of a request not yet sent, or answered
    NotLoaded   \* a wallet a session has no object for

ASSUME WalletAssumption  == Wallet \subseteq Nat /\ IsFiniteSet(Wallet)
ASSUME AmountAssumption  == Amount \subseteq Nat \ {0}
ASSUME OpeningAssumption == Opening \in [Wallet -> Nat]
ASSUME NoneAssumption    ==
    NoRequest \notin Request /\ Nobody \notin Wallet

VARIABLES
    balance,   \* wallets.balance, committed
    active,    \* wallets.is_active, committed
    ledger,    \* committed transactions rows of each wallet, in commit order
    lockOwner, \* holder of each wallet's row lock
    pc,        \* where each request's handler is
    job,       \* what each request asked for
    identity   \* identity map of each request's session

vars == <<balance, active, ledger, lockOwner, pc, job, identity>>

-----------------------------------------------------------------------------
(* Types.  `version' is auxiliary: the number of rows the wallet's ledger  *)
(* had when the session read it.                                           *)

Job ==
    [kind : {"deposit"}, user : Wallet, to : {Nobody}, amount : Amount]
    \cup
    [kind : {"transfer"}, user : Wallet, to : Wallet \cup {Nobody},
     amount : Amount]

Image == [balance : Int, active : BOOLEAN, version : Nat]

ASSUME EmptyAssumption == NotLoaded \notin Image /\ NoJob \notin Job

Row == [request : Request, type : {"DEPOSIT", "DEBIT", "CREDIT"},
        counterpart : Wallet \cup {Nobody}, amount : Amount,
        before : Int, after : Int, version : Nat]

Stage == {"idle", "resolve", "lock_first", "lock_second", "validate",
          "done", "failed"}

Ended == {"done", "failed"}

\* The balance a wallet had after its n-th row.
BalanceAt(w, n) == IF n = 0 THEN Opening[w] ELSE ledger[w][n].after

-----------------------------------------------------------------------------
(* Sessions and locks.                                                     *)

\* The session's objects after a query that returns wallet w.
Load(objects, w) ==
    IF objects[w] # NotLoaded THEN objects
    ELSE [objects EXCEPT ![w] = [balance |-> balance[w], active |-> active[w],
                                 version |-> Len(ledger[w])]]

\* Fault: the caller's wallet first, whatever its UUID.
CallerFirst(j) ==
    IF j.kind = "deposit" THEN <<j.user>> ELSE <<j.user, j.to>>

\* The row locks a request takes, in order: deposit locks the caller's wallet,
\* transfer_money both wallets, the lower UUID first.
LockOrder(j) ==
    IF j.kind = "deposit" THEN <<j.user>>
    ELSE IF j.user < j.to THEN <<j.user, j.to>>
    ELSE <<j.to, j.user>>

\* SELECT ... FOR UPDATE on w by request r, once the row is free.
LockRow(r, w) ==
    /\ lockOwner[w] = NoRequest
    /\ lockOwner' = [lockOwner EXCEPT ![w] = r]
    /\ identity' = [identity EXCEPT ![r] = Load(@, w)]

\* Commit, rollback or loss of the connection gives every row lock back.
Release(r) ==
    lockOwner' = [w \in Wallet |->
                    IF lockOwner[w] = r THEN NoRequest ELSE lockOwner[w]]

\* The request's transaction ends: its locks are gone and so are its session
\* and its parameters.
EndAs(r, stage) ==
    /\ Release(r)
    /\ pc' = [pc EXCEPT ![r] = stage]
    /\ identity' = [identity EXCEPT ![r] = [w \in Wallet |-> NotLoaded]]
    /\ job' = [job EXCEPT ![r] = NoJob]
    /\ UNCHANGED active

-----------------------------------------------------------------------------
(* The steps of a request.                                                 *)

\* get_current_user: the first query of the session loads the caller and the
\* caller's wallet.
Authenticate(r, j) ==
    /\ pc[r] = "idle"
    /\ job' = [job EXCEPT ![r] = j]
    /\ identity' = [identity EXCEPT ![r] = Load(@, j.user)]
    /\ pc' = [pc EXCEPT ![r] = IF j.kind = "deposit" THEN "lock_first"
                                                     ELSE "resolve"]
    /\ UNCHANGED <<balance, active, ledger, lockOwner>>

\* transfer_money steps 1 to 3: the receiver is found by email, with the
\* receiver's wallet in the same session, and is not the caller.
ResolveReceiver(r) ==
    /\ pc[r] = "resolve"
    /\ job[r].to \in Wallet \ {job[r].user}
    /\ identity' = [identity EXCEPT ![r] = Load(@, job[r].to)]
    /\ pc' = [pc EXCEPT ![r] = "lock_first"]
    /\ UNCHANGED <<balance, active, ledger, lockOwner, job>>

\* 404 (nobody has that address) or 400 (the caller's own address).
RejectReceiver(r) ==
    /\ pc[r] = "resolve"
    /\ job[r].to \in {Nobody, job[r].user}
    /\ EndAs(r, "failed")
    /\ UNCHANGED <<balance, ledger>>

LockFirst(r) ==
    /\ pc[r] = "lock_first"
    /\ LockRow(r, LockOrder(job[r])[1])
    /\ pc' = [pc EXCEPT ![r] = IF job[r].kind = "deposit" THEN "validate"
                                                          ELSE "lock_second"]
    /\ UNCHANGED <<balance, active, ledger, job>>

LockSecond(r) ==
    /\ pc[r] = "lock_second"
    /\ LockRow(r, LockOrder(job[r])[2])
    /\ pc' = [pc EXCEPT ![r] = "validate"]
    /\ UNCHANGED <<balance, active, ledger, job>>

\* Faults: the insufficient-funds test dropped; the receiver's frozen test dropped.
AcceptableUnfunded(r) ==
    /\ identity[r][job[r].user].active
    /\ job[r].kind = "transfer" => identity[r][job[r].to].active

AcceptableFrozenReceiver(r) ==
    /\ identity[r][job[r].user].active
    /\ job[r].kind = "transfer" =>
        identity[r][job[r].user].balance >= job[r].amount

\* The checks made after the locks, on the session's objects.
Acceptable(r) ==
    /\ identity[r][job[r].user].active
    /\ job[r].kind = "transfer" =>
        /\ identity[r][job[r].to].active
        /\ identity[r][job[r].user].balance >= job[r].amount

\* Fault: an error answer that leaves the transaction open.
RejectKeepingLocks(r) ==
    /\ pc[r] = "validate"
    /\ ~Acceptable(r)
    /\ pc' = [pc EXCEPT ![r] = "failed"]
    /\ UNCHANGED <<balance, active, ledger, lockOwner, job, identity>>

\* 403, 400: the HTTPException rolls the transaction back.
Reject(r) ==
    /\ pc[r] = "validate"
    /\ ~Acceptable(r)
    /\ EndAs(r, "failed")
    /\ UNCHANGED <<balance, ledger>>

\* Faults: a row built after the balance was overwritten; a signed amount.
RowAfterUpdate(r, w, type, counterpart, delta) ==
    [request |-> r, type |-> type, counterpart |-> counterpart,
     amount |-> job[r].amount, before |-> identity[r][w].balance + delta,
     after |-> identity[r][w].balance + 2 * delta,
     version |-> identity[r][w].version]

RowSigned(r, w, type, counterpart, delta) ==
    [request |-> r, type |-> type, counterpart |-> counterpart,
     amount |-> delta, before |-> identity[r][w].balance,
     after |-> identity[r][w].balance + delta,
     version |-> identity[r][w].version]

\* The transactions row written on w by request r, moving its balance by delta.
RowOf(r, w, type, counterpart, delta) ==
    [request |-> r, type |-> type, counterpart |-> counterpart,
     amount |-> job[r].amount, before |-> identity[r][w].balance,
     after |-> identity[r][w].balance + delta,
     version |-> identity[r][w].version]

\* The rows a payment writes, by wallet: PENDING for a deposit, and for a
\* transfer the COMPLETED halves of one double entry.
DepositRows(r) ==
    [w \in {job[r].user} |-> RowOf(r, w, "DEPOSIT", Nobody, job[r].amount)]

\* Fault: the receiver's half is forgotten.
DebitRows(r) ==
    [w \in {job[r].user} |-> RowOf(r, w, "DEBIT", job[r].to, -job[r].amount)]

TransferRows(r) ==
    [w \in {job[r].user, job[r].to} |->
        IF w = job[r].user
        THEN RowOf(r, w, "DEBIT", job[r].to, -job[r].amount)
        ELSE RowOf(r, w, "CREDIT", job[r].user, job[r].amount)]

\* Fault: the row is written and the balance left to the bank's webhook.
PostUncredited(rows) ==
    /\ ledger' = [w \in Wallet |-> IF w \in DOMAIN rows
                                   THEN Append(ledger[w], rows[w])
                                   ELSE ledger[w]]
    /\ UNCHANGED balance

\* UPDATE wallets and INSERT INTO transactions, in one commit.
Post(rows) ==
    /\ balance' = [w \in Wallet |-> IF w \in DOMAIN rows THEN rows[w].after
                                                         ELSE balance[w]]
    /\ ledger' = [w \in Wallet |-> IF w \in DOMAIN rows
                                   THEN Append(ledger[w], rows[w])
                                   ELSE ledger[w]]

CommitDeposit(r) ==
    /\ pc[r] = "validate"
    /\ job[r].kind = "deposit"
    /\ Acceptable(r)
    /\ Post(DepositRows(r))
    /\ EndAs(r, "done")

CommitTransfer(r) ==
    /\ pc[r] = "validate"
    /\ job[r].kind = "transfer"
    /\ Acceptable(r)
    /\ Post(TransferRows(r))
    /\ EndAs(r, "done")

\* An exception, a cancelled request or a dead process before the commit.
Abort(r) ==
    /\ pc[r] \notin {"idle"} \cup Ended
    /\ EndAs(r, "failed")
    /\ UNCHANGED <<balance, ledger>>

\* Support freezes or reopens a wallet from outside the application: an
\* UPDATE of one row, which waits for the row lock.
SupportSetsActive(w) ==
    /\ lockOwner[w] = NoRequest
    /\ active' = [active EXCEPT ![w] = ~@]
    /\ UNCHANGED <<balance, ledger, lockOwner, pc, job, identity>>

-----------------------------------------------------------------------------

Init ==
    /\ balance = Opening
    /\ active = [w \in Wallet |-> TRUE]
    /\ ledger = [w \in Wallet |-> <<>>]
    /\ lockOwner = [w \in Wallet |-> NoRequest]
    /\ pc = [r \in Request |-> "idle"]
    /\ job = [r \in Request |-> NoJob]
    /\ identity = [r \in Request |-> [w \in Wallet |-> NotLoaded]]

\* The handler's own steps, which the event loop keeps running.
Handle(r) ==
    \/ ResolveReceiver(r)
    \/ RejectReceiver(r)
    \/ LockFirst(r)
    \/ LockSecond(r)
    \/ Reject(r)
    \/ CommitDeposit(r)
    \/ CommitTransfer(r)

Next ==
    \/ \E r \in Request :
        \/ \E j \in Job : Authenticate(r, j)
        \/ Handle(r)
        \/ Abort(r)
    \/ \E w \in Wallet : SupportSetsActive(w)

Spec == Init /\ [][Next]_vars

\* A handler that can take its next step takes it.  Nothing makes clients
\* send requests, requests abort, or support act.
FairSpec == Spec /\ \A r \in Request : WF_vars(Handle(r))

-----------------------------------------------------------------------------
(* Correctness.                                                            *)

\* Types of the committed state and of the sessions.
TypeOK ==
    /\ balance \in [Wallet -> Int]
    /\ active \in [Wallet -> BOOLEAN]
    /\ ledger \in [Wallet -> Seq(Row)]
    /\ lockOwner \in [Wallet -> Request \cup {NoRequest}]
    /\ pc \in [Request -> Stage]
    /\ job \in [Request -> Job \cup {NoJob}]
    /\ identity \in [Request -> [Wallet -> Image \cup {NotLoaded}]]

\* wallets.balance is the balance_after of the wallet's last committed row:
\* deposit and transfer_money write the balance and the row that explains it
\* in one transaction, whatever else is in flight.
AuditMatchesBalance ==
    \A w \in Wallet : balance[w] = BalanceAt(w, Len(ledger[w]))

\* However stale a session's object, the balance_before of a row is one the
\* wallet really had, at a commit earlier than the row, and balance_after
\* differs from it by the amount, up for money in and down for money out.
NoPhantomBalance ==
    \A w \in Wallet : \A i \in DOMAIN ledger[w] :
        LET row == ledger[w][i]
        IN  /\ row.version < i
            /\ row.before = BalanceAt(w, row.version)
            /\ row.after = IF row.type = "DEBIT" THEN row.before - row.amount
                                                ELSE row.before + row.amount

\* No wallet goes below zero, now or in any row, even when several transfers
\* are judged against balances that are out of date (the insufficient-funds
\* check; the table has no CHECK constraint behind it).
NeverOverdrawn ==
    \A w \in Wallet :
        /\ balance[w] >= 0
        /\ \A i \in DOMAIN ledger[w] : ledger[w][i].after >= 0

RowsOf(w, type) == {i \in DOMAIN ledger[w] : ledger[w][i].type = type}

\* Row i of v is the other half of row k of w: same transfer, same amount,
\* each naming the other's wallet.
Mirrors(w, k, v, i) ==
    /\ ledger[v][i].request = ledger[w][k].request
    /\ ledger[v][i].amount = ledger[w][k].amount
    /\ ledger[v][i].counterpart = w
    /\ ledger[w][k].counterpart = v

\* Double entry: every DEBIT has exactly one CREDIT on its counterpart wallet
\* and every CREDIT its DEBIT, in every state another session could read.
DoubleEntry ==
    \A w \in Wallet :
        /\ \A k \in RowsOf(w, "DEBIT") :
              \E v \in Wallet \ {w} :
                 Cardinality({i \in RowsOf(v, "CREDIT") : Mirrors(w, k, v, i)}) = 1
        /\ \A k \in RowsOf(w, "CREDIT") :
              \E v \in Wallet \ {w} :
                 Cardinality({i \in RowsOf(v, "DEBIT") : Mirrors(w, k, v, i)}) = 1

\* A row whose session had read everything committed before it.
UpToDate(w, i) == ledger[w][i].version = i - 1

Deposited(w) ==
    SumFunction([i \in RowsOf(w, "DEPOSIT") |-> ledger[w][i].amount])

\* The money in all wallets is what they opened with and what was deposited.
MoneyConserved ==
    SumFunction(balance) =
        SumFunction(Opening) + SumFunction([w \in Wallet |-> Deposited(w)])

\* Money is conserved as long as no two payments overlapped on a wallet, that
\* is while every row was computed from the balance its predecessor left.
SerialMoneyConserved ==
    (\A w \in Wallet : \A i \in DOMAIN ledger[w] : UpToDate(w, i))
        => MoneyConserved

\* Requests blocked on a row lock, and the request each one waits for.
Wanted(r) ==
    LockOrder(job[r])[IF pc[r] = "lock_first" THEN 1 ELSE 2]

Waiting == {r \in Request : /\ pc[r] \in {"lock_first", "lock_second"}
                            /\ lockOwner[Wanted(r)] # NoRequest}

\* The ascending lock order at work: of the requests that wait for a row lock,
\* some one waits for a request that itself waits for nothing, so deposits and
\* transfers in opposite directions can never all be waiting on each other.
NoCircularWait ==
    Waiting # {} => \E r \in Waiting : lockOwner[Wanted(r)] \notin Waiting

\* A payment can still land on a wallet after support froze it, but only for a
\* request that had read the wallet before the freeze: every row written while
\* the wallet is frozen comes from a session whose object says it was active.
FreezeStopsLaterRequests ==
    [][\A w \in Wallet : (~active[w] /\ ledger'[w] # ledger[w]) =>
          \E r \in Request : /\ pc[r] = "validate" /\ pc'[r] = "done"
                             /\ lockOwner[w] = r
                             /\ identity[r][w].active]_vars

\* Every request that passed authentication gets an answer, none stays blocked
\* on a row lock for ever: as each request is sent once, it is enough that time
\* and again no request is between authentication and its end.
RequestsFinish ==
    []<>(\A r \in Request : pc[r] \in {"idle"} \cup Ended)

=============================================================================
