# OWallet in TLA+

OWallet is a wallet service: a FastAPI application on PostgreSQL and Redis,
Celery workers, and a React client. The modules here model what it does with
money, with requests that are repeated, with accounts and sessions, with
notifications and with limits, where several requests, workers or browser tabs
act at once and where things fail in the middle. TLC checks every module on
small instances; TLAPS proves every safety property the runs check, but for
those the code violates, for every instance. Definitions keep the names of the
code, and each is translated from the lines `PROJECT.json` gives for it.

Contents: [1 the system](#1-the-system), [2 the modules](#2-the-modules),
[3 the runs](#3-the-runs), [4 fairness](#4-fairness), [5 the proofs](#5-the-proofs),
[6 disagreements found](#6-where-the-code-and-its-documentation-disagree),
[7 what is left out](#7-what-is-left-out), [8 plan](#8-plan).

To check: `tlc -config MCLedger.cfg MCLedger` and likewise for the other
configurations; `tlapm LedgerProofs.tla` and likewise for the other `*Proofs`
modules.

## 1. The system

| Component | State | Operations | Hard because | Correct when |
|---|---|---|---|---|
| Wallet payments (`wallet_service.deposit`, `transfer_money`) | `wallets.balance`, `is_active`; `transactions` rows; row locks; each session's identity map | deposit, transfer | requests interleave between authentication, lock and commit; two locks per transfer; a locked read need not be a fresh one | books agree with balances, nobody is overdrawn, double entry is whole, money is conserved, no deadlock, a frozen wallet is respected |
| Deposit confirmation (`webhook_tasks`, `cleanup_tasks`, `celery_app`) | `transactions.status`; broker queue; workers | publish, confirm, retry, give up, hourly sweep | at-least-once delivery, workers killed anywhere, lost messages, replies lost after a commit, sweep against task | a deposit settles, and once; it fails only for a cause |
| Balance cache (`get_wallet_balance`) | one Redis key per user, 30 s | look aside, fill, delete after a payment | a fill may race a delete; a delete may fail | stale only for a known cause, and not for long |
| Idempotency (`IdempotentRoute`, `idempotency_service`) | Redis lock per key, 30 s; row per key, 24 h | lock, check, pay, store, release; clean up | lock, payment and row are in three places; the lock may expire or Redis be away | a key pays once; only what was paid for the same body is replayed; no key stays locked |
| Sessions, server (`auth_service`, `security`) | `refresh:{user_id}` in Redis; `users.is_active` | login, refresh (rotation), logout | rotation is GET, DEL, SET in separate commands | one successor per token; a logout holds; an honest client stays in |
| Sessions, client (`axios.ts`, `authStore.ts`, `ProtectedRoute.tsx`, `Navbar.tsx`, the login and register pages) | localStorage, shared by tabs: the tokens and the flag `isAuthenticated`; `isRefreshing`, `refreshQueue` per tab | register, log in, attach token, refresh on 401, queue, force logout, guard the routes | several requests meet a 401 at once, a login with wrong credentials among them; several tabs; reloads; tokens and flag are written by different code | every call ends; no refresh without need; tokens and flag agree |
| Registration (`register_user`) | `users`, `wallets` rows, then the first refresh token | check the address, INSERT, commit, SET | check, then INSERT; the second INSERT waits for the first; Redis may fail after the commit | an address is claimed once and the answers say so; an account has one wallet; everybody is answered |
| Rate limiter (`rate_limiter.py`) | one Redis counter per user | INCR and EXPIRE NX in one MULTI | a fixed window; refused tries count; replies and keys get lost | fewer than two limits' worth of transfers in any window's time; refusals are deserved and end |
| Notifications (end of `transfer_money`, `notification_tasks.py`) | broker queue, workers; no table | two `.delay` calls after the commit, send, retry, give up | at-least-once delivery, and nothing records a sending | sent once, and again only for a named mishap; nobody is forgotten |
| Transaction history (`get_transactions`) | none of its own | COUNT, then one page | two snapshots per page, offsets into a list that changes; the client shows the old page while the next one loads | a reader misses or repeats rows only as far as the list changed, or clicked on unseen |
| Health checks, logging, headers, configuration, rendering | none that others read | | | |

How they interact: a payment request passes `IdempotentRoute`, which wraps the
route; the route authenticates with `get_current_user` in the same database
session the payment uses; a transfer then passes the rate limiter; the service
commits, deletes cache keys in Redis and enqueues Celery tasks; the workers
meet the deposit again through its `transactions` row. The client reaches all
of it through one axios instance whose interceptors keep the session alive.

The hazards, each at the line where it bites and with the properties that watch
it, are in `PROJECT.json`.

## 2. The modules

```
Ledger            payments, sessions, row locks        LedgerProofs   (TLAPS)
DepositPromise    what a status promises   <--refines-- Deposits      workers, broker, sweep
Deposits                                               DepositsProofs
BalanceCache      readers and payments around Redis    BalanceCacheProofs
Idempotency       a key's lock, row and payment        IdempotencyProofs
RateLimiter       a user's transfer counter            RateLimiterProofs
Notifications     two messages after a transfer        NotificationsProofs
History           pages read while rows commit         HistoryProofs
AccountPromise    an address is claimed once  <--refines-- Registration
Sessions          refresh token, rotation, logout
  <--extends-- Registration    how the account comes about
  <--extends-- Browser         tabs, interceptors, router     SessionsProofs
```

`MC*.tla` hold what TLC needs beside constants: symmetry sets, opening balances,
which users a payment affects. Where constants are enough the run checks the
module itself.

### Ledger

A user is identified with the primary wallet registration makes for that user,
a wallet with the rank of its UUID. `balance`, `active` and `ledger` are what
PostgreSQL has committed (`ledger[w]` the rows of wallet `w` in commit order);
`lockOwner` are its row locks; `pc` and `job` are the handlers; `identity` is
each session's identity map. The module turns on that map: `Load` keeps an
object the session has already, since none of the queries asks for
`populate_existing`, so `LockRow` may lock a row and return an older object.
`Image.version` and `Row.version` record how many rows the wallet had when it
was read; they take part in no guard.

| Action | Code |
|---|---|
| `Authenticate` | `get_current_user`, with `User.wallets` loaded alongside |
| `ResolveReceiver`, `RejectReceiver` | steps 1 to 3 of `transfer_money` |
| `LockFirst`, `LockSecond` | `SELECT ... FOR UPDATE`, lower UUID first |
| `Acceptable`, `Reject` | checks after the locks; `HTTPException` rolls back |
| `CommitDeposit`, `CommitTransfer` | rows and balances in one commit (`Post`) |
| `Abort` | an exception, a cancelled request or a dead process before the commit |
| `SupportSetsActive` | external: nothing in the application freezes a wallet, yet it checks for it |

Money is in cents in the model; the code's `Numeric` columns and validated
amounts neither round nor overflow at these sizes. READ COMMITTED appears as:
every query sees what is committed when it runs, every lock waits, and an
autoflush shows nobody anything before the commit.

### DepositPromise and Deposits

`DepositPromise` is the abstract specification: a deposit is accepted, completed
or given up, once. `Deposits` is how that comes about. `status`, `credited` and
`stale` are the database, `queue` counts the copies of each message the broker
holds, `worker` is each process's unacknowledged message and where its task is.
`credited` is there for one question, whether a failed deposit keeps its money.
The instance `Promise` maps `status` to itself, so `KeepsPromise` says that
every step of every worker is a legal step of a deposit, or none.

`Take` to `Acknowledge` are a task from delivery to acknowledgement, with the
row lock held in phases `confirm` and `fail` (`Locked`). `LockTransaction`
combines the guards `AlreadyProcessed` stands for. `CountStuck` and `FailStuck`
are the sweep's two statements; the second one waits for locked rows and looks
at their status again, which PostgreSQL does for an `UPDATE` under READ
COMMITTED. Faults: `Crash` (the message goes back), `TimeLimit` and
`BrokerLoses` (it does not), `TaskRaises`, `MarkRaises`, `ConfirmUnheard` (the
commit happened, the task does not know), `PublishFails`.

### BalanceCache

A balance is its version, the number of payments that have changed the wallet.
A reader's `view` is the version its session loaded at authentication, because
`_get_primary_wallet` on a miss returns that object. A payment commits and then
deletes its keys one at a time; `missed` remembers deletes that failed, `raced`
marks sessions and entries whose wallet changed between load and fill.

### Idempotency

A key is the triple of user, endpoint and `Idempotency-Key`. `lock` is Redis,
`record` the table, `attempt` the requests, each at one `Step` of
`idempotent_handler`. `paid[k]` counts the payments committed in the current
24-hour life of the key and `mishaps[k]` the events that may each cost one more:
they are the events the code accepts or logs, plus those it does not foresee.
`paid` starts afresh with each life of the key, `mishaps` never: a mishap may cost
a payment in the life after its own.
The payment handler is abstracted to whether it commits and whether it returns:
`Pay`, `Refuse`, `PayAndRaise`.

### History

Rows are numbered by `created_at`. PostgreSQL's `now()` is the start of the
transaction, so rows are committed out of that order (`Begin`, `Commit`). A page
is `CountRows` and `FetchPage`, which see different snapshots. `Settle` is what
the workers do to rows a reader may be filtering by status.

The client asks for the next page with a button, and `placeholderData` keeps the
old page and its pagination on the screen while a page loads. So `onscreen`, which
`HasNext` looks at, may be of an earlier page than `page`, the one asked for, and
`NextPage` may come before that one is shown: it is then given up, and `skipped`
counts it. A reader in a hurry passes pages unseen, or asks for one past the end.
A filter, too, may be picked while a page loads (`StartWalk`).

### RateLimiter

Users share no counter, so one user is modelled. There is no clock: each slot of
`recent` remembers one request for `Window` ticks, its `age` in ticks, and is then
free again, so that time goes on for ever in finitely many states. `Hit` is the
MULTI of INCR and EXPIRE NX; `Admit` and `Refuse` compare what INCR returned,
`ReplyLost` is a hit whose reply never came, a 500 that has counted all the same.
`Lose` is a restart of Redis without the key. The per-address limits of the other
routes are the slowapi library's.

### Notifications

The broker and the workers of `Deposits` over again, but with no row to lock: a
task sends whatever was sent before. `handler` is the HTTP request from the
commit to its answer, with the point between the two `.delay` calls (`half`).
`errors`, `repeats` and `lost` are auxiliary: they remember which failures a
notification met, and no guard reads them. `TaskRaises` after the sending, and a
`Crash` before the acknowledgement, are what costs a second message; `TimeLimit`
and `BrokerLoses` are what costs the only one. A handler that raises between its
commit and the end (`PublishRaises`) leaves a side untold and answers the committed
transfer with an error; nothing repairs that, and `NotForgotten` and `BothHear` are
about handlers that answered.

### Sessions, Registration and Browser

Token `n` stands for the n-th pair of access and refresh token. `Sessions` and
`Registration` have the server's actions and no specification of their own;
`Browser` extends them with tabs and requests and is the specification that runs
check. `HandlerStep` names the awaits of `refresh_tokens`: GET, DEL, load the
user, SET. `SignupStep` names those of `register_user`: query, INSERT, commit,
SET. `InsertUser` waits while another request's row is uncommitted, as the UNIQUE
index makes it, and then meets the row (`clash`) or its absence. Nothing is known
of the account before its registration commits: `Login`, `LoginElsewhere` and
support wait for `Exists`. `AccountPromise` is the abstract specification, one
atomic claim of the address and answers that agree with it; the instance
`Promise` maps `rows` to itself and each handler to its `Verdict`. `Verdict` counts
the 500 of a request that met another's row (`clash`) as an address that is taken:
it is, whatever the status code says of it (section 6).

`Browser` keeps in `storage` what localStorage holds of the tokens and in `flag`
the persisted `isAuthenticated`, which `ForceLogout` (`clearAuth`) leaves alone
and `LetIn` (`ProtectedRoute`) alone asks. `Login` is a login that succeeds. One
with wrong credentials is an API call like the others (`Send`, kind `login`),
since `authApi.login` goes through the same axios instance: its 401 looks like
that of an expired access token, so that a tab on the login page with a session
in localStorage refreshes it, or waits for a refresh, and sends the login again.
A page load (`Load`) ends a tab's requests, queue and form: a reload, an address
typed, a forced logout. `Registered` stores the pair wherever the tab is by
then. `history` and `raced` gather variables the properties need and no guard of
the code reads: who submitted which token, which tokens lost the session to an
event, which were held by two handlers at once, whether a refresh was in flight
at the last logout. Simplifications: a login's SET and its answer are one step,
as are a logout's authentication and its DEL, and localStorage's writes of one
function; an API call other than a refresh always gets an answer from the
server.

## 3. The runs

| Run | Instance | Question |
|---|---|---|
| `ledger` | 2 wallets (1 cent and nothing), 3 requests of any kind, amount 1, freezes, aborts; 0.6 million states | books, funds, double entry, conservation without overlap, lock cycles, freezes; does every request end? |
| `ledger_overlap` | as above, 2 requests | is money conserved under overlap, as the comments say? No (section 6) |
| `deposits` | 1 deposit, 2 workers, 1 retry of either task, 3 faults; 60 thousand states | does everything together keep `DepositPromise`, and does the deposit settle, whatever is lost? |
| `deposits_credit` | 2 deposits, no fault | does a failed deposit leave the balance alone? No |
| `cache` | 2 users, 2 readers, a deposit and a transfer, 1 fault | why can an entry be stale, and for how long? |
| `history` | 4 payments, pages of 2, 2 pages clicked past unseen, all filters; 2.0 million states | what can a reader miss or see twice? |
| `idempotency` | 1 key, 2 bodies, 3 requests, 2 faults; 0.7 million states | how often can a key pay, what is replayed, does a lock end? |
| `idempotency_expiry` | no fault | is the expiry check enough on its own? No |
| `sessions` | 2 tabs, 1 registration, 2 requests (logouts among them), 2 refreshes at a time, 4 pairs, 1 event; 1.5 million states | rotation, logout, refusals, tokens against flag, the queue of a refresh |
| `registration` | 1 tab, 2 registrations, 2 requests (failed logins among them), 2 refreshes at a time, 4 pairs, 1 event; 0.4 million states | is an address claimed once, has the account its wallet, does every registration and every call end? |
| `rate_limit` | 5 slots, limit 2, window of 3 ticks, 1 loss; 0.4 million states | how many transfers pass in a sliding window, who is refused, and for how long? |
| `notifications` | 1 transfer, 2 workers, 2 retries, 4 faults; 77 thousand states | how often does each side hear of a transfer, and does it? |

Why these bounds show enough. *Ledger*: a lost update needs two requests on one
wallet, a deadlock two transfers in opposite directions, and a third request
lets a stale session meet two commits; further wallets repeat the same pairs.
Opening balances of 1 and 0 with amounts of 1 make every transfer a matter of
the funds check. There is no symmetry, which liveness would make unsound.
*Deposits*: deposits share workers and broker and nothing else; two workers are
what a duplicate, and a sweep against a task, need; one retry separates first,
last and exhausted attempts; three faults are one of each kind the properties
excuse, or the two database failures that use the retries up and one more.
*Cache*: the transfer has two keys, so that one delete can succeed and the other
fail. *Idempotency*: keys share no state, so one is enough; three requests are a
payment, its retry, and a third that meets what they left; two faults can hit
lock and record. *History*: two full pages, and a walk long enough for rows to
enter and leave on either side of the boundary; with two pages, and two clicks on
pages not yet shown, a reader can pass the last page unseen and ask for one past
the end. *Sessions*: two tabs and two
calls are what overlapping rotations need, four pairs a registration and two
rotations or a login elsewhere, with the number a bound must keep in reserve.
`Kinds` bounds the kinds of calls that are made, for time: logouts are among them in
`sessions`, failed logins in `registration`. That the properties of `sessions` hold
with both is by proof (section 5).
*Registration*: two registrations for the address overlap when the first one's
tab is reloaded, which is the event; a failing handler is the event of another
behaviour. An INSERT that waited and goes on because the first request was rolled
back takes both, a reload and a failure, and is met only in the proof of the
refinement. *Rate limiter*: a limit of 2 tells the first transfer of a window from
the last; three ticks let a window begin before, in and after another request's
reach; five slots hold the three transfers a window's time can see, or the five
after a loss, with refusals between. *Notifications*: two workers for a duplicate,
two retries for attempts that are neither first nor last, and four faults, one
more than giving up takes; transfers share workers and broker and nothing else.

The number of pairs is bounded by `Spoken`, so that a rotation or a registration
that has begun never lacks a number: the bound delays logins, right or wrong,
registrations and the expiry of tokens and nothing else, and `RequestsSettle` of
`registration` would fail if it held a rotation up. `Heard` says that no answer
is on its way for the fifteen minutes in which the access token it carries
expires. `MaxFaults`, `MaxEvents` and `MaxLosses` bound what the environment
does, never what the program does; the slots of `RateLimiter!Request` bound how
often a user tries. `CHECK_DEADLOCK FALSE` is set for Idempotency, Browser and
Notifications, which really stop when the clients have nothing left to send, the
numbers are used up, or everybody has been told.

The properties that say most:

- `NoPhantomBalance` and `AuditMatchesBalance` hold although sessions read stale
  objects: each row starts from a balance the wallet once had, and the balance
  is what the last row says. They do not add up to conservation, which
  `SerialMoneyConserved` gives only while no two payments overlap on a wallet.
- `NeverOverdrawn`: a stale read cannot drive a wallet below zero, since what is
  written is the balance the check passed, less the amount.
- `FreezeStopsLaterRequests` puts a bound to a payment racing a freeze: only
  sessions that had read the wallet before.
- `KeepsPromise`, `FailureHasCause`, `SurvivesCrashes`, `DepositsSettle`: the
  lock on the row and the guard on its status make duplicates harmless, late
  acknowledgement makes kills harmless, and the sweep makes losses harmless.
- `StaleOnlyByOverlap` names the three causes of a stale entry; the third, a
  reader that fills after the delete what it loaded before, is one the comment
  at `wallet_service.py:382` does not reckon with.
- `OnePaymentPerMishap` counts: a key pays at most once more than the mishaps it
  met.
- `KeepsPromise` and `WalletForEveryAccount` of Registration: a query, a UNIQUE
  index and the order of commit and answer act like one atomic claim of the
  address, however handlers overlap and fail; nobody is told of an account that
  is not there, nobody is turned down while the address is free.
- `WindowBudget` is what a fixed window promises of a sliding one: fewer than
  twice the limit in any window's time, and a limit more for each loss of the
  counter. `LimitedOnlyWhenSpent` and `LockoutEnds` say that trying again is not
  punished: the expiry is set once per window (NX) and never pushed back.
- `RepeatedOnlyByMishap` and `NotForgotten` say what at-least-once delivery is
  worth without a record of what was sent.
- `TokensMatchFlag`: tokens and flag are written and cleared by different code,
  and only a refresh that was in flight at a logout parts them the dangerous way,
  tokens without a flag. The other way round is no surprise: `clearAuth` leaves
  the flag, so that a router that lets a tab in is no proof of a session, and the
  first call then takes it back to the login page.
- `NobodyStranded`: calls wait for a refresh only while one is in flight in their
  tab, and only one is, whichever way reloads, logouts, refusals and the 401s of
  failed logins interleave.
- `SecondPairOnlyByOverlap`, `LogoutHolds`, `RefusalHasCause` say what rotation
  in three commands still guarantees, and when. With one tab and no events the
  client is never refused; with two tabs sharing localStorage it can be, and the
  property names the cause. `LogoutHolds` excuses a logout that met a rotation past
  its GET, and has to (section 6).
- `MissedOnlyByOverlap` and `RepeatedOnlyByInsert` bound the damage of offset
  pagination by number: a row for each that came or went at the wrong moment, and,
  of those missed, a page for each click on a page not yet shown. Nobody sees a row
  twice for clicking too soon.

Every property of a run has a mutant: a faulty version of a definition, marked
`Fault` in the modules and used by no specification, under which TLC finds it
violated. A few properties are proved and in no run, since the others catch what
they would: `TypeOK` of Deposits; `ToldOnlyOfCommitted`, `GivenUpAfterRetries` and
`TypeOK` of Notifications; `RetryAfterSuffices` of RateLimiter.

## 4. Fairness

- `Ledger!FairSpec`: weak fairness of each handler's own next step. The event
  loop keeps running handlers, and PostgreSQL hands a freed row lock on. Nothing
  makes a client send, a request abort or support act. Weak fairness suffices
  since each request is sent once, so that a lock is contended only finitely often.
- `Deposits!FairSpec`: the process that answered goes on to publish, Beat keeps
  firing and time passes, a live worker goes on with its task, and each message
  is taken again and again if it stays in the queue: strong fairness, because
  workers may be busy in between, and Redis lists are served in order. No fault
  is fair; their number is bounded, without which nothing could settle.
- `BalanceCache!FairSpec`: handlers that began go on and Redis expires keys.
- `Idempotency!FairSpec`: the same, for handlers and locks. Clients need not retry.
- `Browser!FairSpec`: the server answers (`Answer`, `Refresh`, `Register`), tabs run
  (`React`), answers to a refresh arrive. `InsertUser` waits for another handler's
  transaction, which is finite: weak fairness of each handler suffices. Users do
  nothing they do not want to, and no token has to expire.
- `RateLimiter!FairSpec`: time passes. Nobody has to make a request or to stop.
- `Notifications!FairSpec`: a handler goes on after its commit, live workers work,
  and each message is taken again and again if it stays queued, as in Deposits.

## 5. The proofs

### Ledger

`LedgerProofs` proves, for every set of requests and amounts, every finite set
of wallets and every opening balance that is not negative:

| Theorem | Statement |
|---|---|
| `Inductive` | `Spec => []IInv` |
| `TypeCorrect` | `Spec => []TypeOK` |
| `AuditCorrect` | `Spec => []AuditMatchesBalance` |
| `RowsGrounded` | `Spec => []NoPhantomBalance` |
| `Funded` | `Spec => []NeverOverdrawn` |
| `DeadlockFree` | `Spec => []NoCircularWait` |
| `FreezeRespected` | `Spec => FreezeStopsLaterRequests` |
| `EntriesDouble` | `Spec => []DoubleEntry` |
| `SerialConserved` | `Spec => []SerialMoneyConserved` |

Assumptions: wallets are a finite set of numbers (UUIDs are ordered), amounts
are positive (validated by the schemas), opening balances are not negative, and
the empty values are not real ones. TLC evaluates them in every run.

Argument. None of the properties is inductive by itself: what a commit writes
depends on an object read many steps before. `IInv` adds

- `SessionsReady`: a handler past authentication has a job and the objects its
  checks look at;
- `ObjectsHonest`: an object holds the balance its wallet had at some earlier
  commit, that of its version, and no version is ahead of the ledger;
- `LocksHeld`: a request owns exactly the row locks its position implies;
- `BalancesFunded`: no row leaves a negative balance.

One lemma per part shows that a step preserves it (`TypeStep`, `SessionsStep`,
`LocksStep`, `BooksStep`). Deposit and transfer go through the same fact: rows
computed from honest objects by a request that holds the locks
(`RowsComputed`) extend the books honestly (`BooksPosted`). Deadlock freedom
follows from `LocksHeld`: of the wallets somebody waits for, take the one with
the highest UUID; its holder, if it waited, would wait for a higher one.

`DoubleEntry` counts matching rows, and follows from an invariant that does not
(`EntriesInv`): who has rows is done, has at most one on a wallet, and each row
of a transfer has its other half. It is inductive beside `IInv`, since a commit
writes both halves for a request that had no rows yet.

`SerialMoneyConserved` needs sums over sets of wallets and of rows. The library
sums with a fold whose function CHOOSE picks, and its induction theorem takes an
operator, so the fold's equation, and that a sum does not depend on the order,
are proved from a counterexample of minimal cardinality instead, which is a set
and needs no induction (section *Sums*). Then a commit changes the balance of
each wallet it writes by what its row says, if that row is up to date; rows
never stop being out of date, so a state whose rows are all up to date was
reached through such states only.

### Deposits

`DepositsProofs`, for any deposits, workers, retry limits and number of faults,
from `RetriesAssumption`, `FaultsAssumption` and `IdleAssumption`:

| Theorem | Statement |
|---|---|
| `TypeCorrect` | `Spec => []TypeOK` |
| `PromiseKept` | `Spec => KeepsPromise`, that is `Promise!Spec`: the refinement |
| `FailureCaused` | `Spec => []FailureHasCause` |
| `CrashesSurvived` | `Spec => []SurvivesCrashes` |

A status written at `Confirm` was checked a step earlier, when the row was
locked. So the invariant says that who holds a row found it PENDING and is the
only one to hold it (`RowsHeld`); the sweep takes only rows nobody holds. For the
other two, retries never outnumber the database failures that caused them
(`RetriesCost`), and the message of a PENDING deposit is in the queue or on a
worker that is not at its end (`Delivered`, which `SurvivesCrashes` follows from
but which, unlike it, `Acknowledge` preserves).

### BalanceCache

`BalanceCacheProofs`, for any users and readers and, where versions are bounded,
any finite set of payments (`PaymentAssumption`):

| Theorem | Statement |
|---|---|
| `StaleOnlyByOverlapHolds` | `Spec => []StaleOnlyByOverlap` |
| `TypesHold` | `Spec => []TypeOK` |

What a reader writes it loaded at authentication; `SessionsKnow` says that a
session holds the current balance or was overtaken by a payment. The type of a
version has a bound, the number of payments, and that is not inductive:
`VersionsCounted` says that a version counts payments that have committed.

### Idempotency

`IdempotencyProofs`, for any keys, bodies, requests and number of faults, from
`NoneAssumption` and, for `TypesHold`, finitely many requests
(`AttemptAssumption`):

| Theorem | Statement |
|---|---|
| `PaymentsBounded` | `Spec => []OnePaymentPerMishap` |
| `ReplaysFaithful` | `Spec => []ReplayFaithful` |
| `TypesHold` | `Spec => []TypeOK` |

The first counts. `Tokens`: the running requests of a key, and one more if its
lock is free to take, are at most one more than its mishaps; a request that ends
frees at most one lock, even when the lock it deletes is somebody else's by then.
`Budget`: what is paid, and what those who may still pay could add, is at most
that too. While the record is live only requests past their check may pay, so
`Budget` says less of them; when it expires, `Tokens` bounds the new life. The
second adds that a stored row, and every answer that is not a request's own, name
a request that has paid and is done. The third needs `PaymentsCounted`: a key has
paid no more often than requests have left the payment handler, which they do
once.

### Sessions and Browser

`SessionsProofs`, for any tabs, calls, refreshes, registrations, pairs and events,
of the whole of `Browser!Spec`:

| Theorem | Statement |
|---|---|
| `SessionsInductive` | `Spec => []IInv` |
| `SessionTypesCorrect` | `Spec => []TypeOK` |
| `RotationExclusive` | `Spec => []SecondPairOnlyByOverlap` |
| `LogoutFinal` | `Spec => []LogoutHolds` |
| `FlagAgrees` | `Spec => []TokensMatchFlag` |
| `RefusedForCause` | `Spec => []RefusalHasCause` |
| `WaitersServed` | `Spec => []NobodyStranded` |
| `AddressClaimedOnce` | `Spec => KeepsPromise`, that is `Promise!Spec`: the refinement |
| `WalletsComplete` | `Spec => []WalletForEveryAccount` |

The server's part says what becomes of a token between GET and SET. `Rotations`: a
stored token was not exchanged and no handler past its DEL carries it; of a token
on which no two handlers overlapped there is one handler or one pair, not both.
That needs `Issued`, since a new pair has a number nobody holds. `ClosedStays`:
after a logout that met no rotation half done nothing is stored and no handler
has matched a token, so none can store one. `FlagKnown` adds to the property that
a refresh in flight while nobody is logged in was in flight at the logout. The
actions of the browser fall into a few kinds (`StepKinds`) by what they do to the
server. None of the theorems assumes which kinds of calls are made.

`RefusalHasCause` is about tabs as much as about the server, and takes `CauseInv`
to carry: a pair on its way to a tab, from a refresh or a registration, is new,
comes in one answer, and is the stored one or gone (`Coming`); what localStorage
holds is the stored token, or gone, or was submitted, and a tab that submitted it
still waits for the answer (`Kept`), so that no tab submits a token twice unless
it is gone (`SubmittedOnce`); a handler finds its token in Redis or there is a
cause (`Reading`). Causes never go away (`Grows`). What a step does to the tabs
is again one of a few kinds (`ClientStep`).

`NobodyStranded` puts together what a tab waits for (`Waits`, part of the types)
and who waits in it (`WaitersHeard`): the callbacks of `refreshQueue` have no way
to fail, so a queue without a refresh in flight would wait for ever.

The last two are about registration. `OneInserts` says that between INSERT and
commit a request is alone and the address free, which is what the UNIQUE index
gives; `AnswersAgree` ties the row's owner to where its handler is.

### Notifications

`NotificationsProofs`, for any transfers, workers, retry limits and faults:

| Theorem | Statement |
|---|---|
| `NotificationsInductive` | `Spec => []IInv` |
| `NotificationTypesCorrect` | `Spec => []TypeOK` |
| `NotificationsTruthful` | `Spec => []ToldOnlyOfCommitted` |
| `RepeatsPaidFor` | `Spec => []RepeatedOnlyByMishap` |
| `AllAttemptsMade` | `Spec => []GivenUpAfterRetries` |
| `NobodyForgotten` | `Spec => []NotForgotten` |

Messages exist only of committed transfers (`Made`); retries cost an attempt that
raised (`RetriesCost`); what was published is sent, in the queue, with a worker that
has not sent it yet, given up or lost (`Delivered`, which unlike the property does
not count a worker about to acknowledge). `Budget` counts: what went out, the copies
in the queue and the workers that may yet send come to at most one more than the
repeats. The lemma `Effects` reduces the actions to their effects on these.

### RateLimiter

`RateLimiterProofs`, for any finite set of slots, any limit and window of at least 1,
and any number of losses:

| Theorem | Statement |
|---|---|
| `RateLimiterInductive` | `Spec => []IInv` |
| `LimiterTypesCorrect` | `Spec => []TypeOK` |
| `BudgetKept` | `Spec => []WindowBudget` |
| `RefusalsDeserved` | `Spec => []LimitedOnlyWhenSpent` |
| `WaitingHelps` | `Spec => []RetryAfterSuffices` |

The counter's key exists exactly as long as its expiry runs (`Shapes`), and what it
counts happened since it began (`Counted`). `Fill` splits the transfers of the last
window's time at the start of the live key, with its first request as witness:
those since then are fewer than the count besides that first one, and those before
it are fewer than what one key, and each loss, allows. When the key expires its
first request is a window old, and gone.

### History

`HistoryProofs`, for any number of rows, any page size and any number of clicks on
pages not yet shown (`RowsAssumption`):

| Theorem | Statement |
|---|---|
| `TypesHold` | `Spec => []TypeOK` |
| `MissesBounded` | `Spec => []MissedOnlyByOverlap` |
| `RepeatsBounded` | `Spec => []RepeatedOnlyByInsert` |

The argument is about the place of a row among those that match (`Place`). One row
more moves every other by a place at most (`PlaceMoves`), and at most one of them
out of the first `j` places (`OneCrosses`): two that did would have been at place
`j` both. `Past` is the number of places on the pages read. `Pushed`: what was
shown twice, and the rows that were shown and now lie among the unread places, to
be shown again, are no more than the rows that came; reading a page turns the
latter into the former. `Pulled`: the rows that were there all along, were not
shown, and now lie among the places read are no more than the rows that left. A page
given up before it was shown adds its places to those passed, and they hold at most
a page's rows (`OnePerPlace`, `PassedOver`), which is all that `Pulled` allows for
it (`Passed`). On the last page what lies beyond it all is what came after the COUNT
(`Counted`), and that is the page on the screen once the reader has caught up
(`Shown`). `Walked` says that a row enters or leaves a walk once, without which the
counts would say nothing. The bound on `page` in `TypeOK` counts from the page on the
screen, which was asked for before any click that was too soon; for that page it is
a fact about rounding up (`Pages`, `NextExists`).

### Only model-checked

The liveness properties (`RequestsFinish`, `DepositsSettle`, `EventuallyCurrent`,
`NoZombieLock`, `RequestsSettle`, `SignupsEnd`, `LockoutEnds`, `BothHear`), which
need fairness and ENABLED and are out of this prover's reach. What each of them
fails by when it fails is often a state, and of that there is a proof: a cycle of
locks (`DeadlockFree`), a message lost with no fault (`CrashesSurvived`,
`NobodyForgotten`), a queue without its refresh (`WaitersServed`), a wait that
does not help (`WaitingHelps`).

Every safety property of a passing run is proved. The properties of the three
runs that expect a violation are false of the code; of two, `SerialConserved` and
`PaymentsBounded` are what holds instead.

## 6. Where the code and its documentation disagree

1. **A locked read that is not fresh** (`ledger_overlap`). A user's second
   payment, waiting for the first one's lock, continues with the balance
   authentication loaded, and overwrites the first one's effect. Comments and
   tests say it proceeds with the updated balance and that money is conserved.
   Trace: two requests authenticate; one locks, commits and ends; the other locks,
   computes from its old object, commits.
2. **A failed deposit keeps its credit** (`deposits_credit`). `TransactionStatus`
   documents `FAILED` as leaving the balance unchanged; the balance was changed
   when the deposit was accepted, and no path takes it back.
3. **An expired key pays each time it is used** (`idempotency_expiry`), until the
   cleanup task runs: the expired row is invisible to the check and blocks the
   new row's INSERT.

Four smaller ones have no run.

- `auth_service.py:402`, in the docstring of `logout`: "No new access tokens can be
  obtained after logout." A refresh that has read the stored token when a logout
  deletes it goes on to store its successor, and its answer writes the pair into the
  localStorage the logout has cleared (`axios.ts:55-56`). `LogoutHolds` is what holds
  instead, for a logout that met no refresh between its GET and its SET;
  `TokensMatchFlag` names the same refresh.
- `auth_service.py:91-93` says that the query of `register_user` is there to answer
  409 where PostgreSQL's IntegrityError would be a 500. Two registrations that
  overlap both pass the query, and the second one is answered with that 500
  (`clash`): nothing catches the error.
- `wallet.py:207` speaks of "5 transfers per 60 seconds": the window is fixed, and
  what holds of any 60 seconds is `WindowBudget`, at most nine while Redis keeps the
  key.
- `wallet.py:208` puts the limit "before any DB access": `get_current_user` is the
  route's first dependency and has read the user by then.

## 7. What is left out

`get_transaction_by_id`, one query; the legacy `deposit_tasks.py`, which nothing
enqueues; the slowapi library's limits per address; health checks, logging,
headers, configuration, migrations and rendering. Within the modules: fallback
to a wallet other than the primary one; statuses and currencies nothing sets;
the text of messages; network failures of API calls other than refresh. Of the
history page, the Previous button, pages that fail to load, and React Query's
cache: a page seen less than 30 s ago is shown from the cache at once and is not
asked for again, and others may be fetched again behind the reader's back.
PostgreSQL, Redis, Celery's broker and the browser are environment: what they
may do is modelled from how the code uses them.

## 8. Plan

Done, the most important behaviour first: Ledger, Deposits, Idempotency and
BalanceCache with their proofs, Sessions with Browser, History; then Registration
with its abstract specification, RateLimiter, Notifications, and the proofs about
them and about Sessions; then the proofs that count and add up: double entry and
conservation in Ledger, the causes of a refusal in Browser, the two bounds of
History, and the bounded types of BalanceCache and Idempotency.

Left, to extend the model: a composition of Idempotency with Ledger in which a
key's payment is the ledger's row; the fallback to a wallet other than the primary
one; the Previous button and the query cache of the history page; runs with
logouts and failed logins at once.
