----------------------------- MODULE Idempotency -----------------------------
(***************************************************************************)
(* POST /wallet/deposit and /wallet/transfer behind IdempotentRoute        *)
(* (app/middleware/idempotency.py, app/services/idempotency_service.py):   *)
(* a Redis lock per idempotency key, a stored response per key, and the    *)
(* payment handler between them.  Lock, payment and record live in three   *)
(* places that nothing commits together.                                   *)
(*                                                                         *)
(* A key stands for the triple (user, endpoint, Idempotency-Key), which    *)
(* names both the lock and the row.  The payment handler is abstracted to  *)
(* whether it commits and whether it then returns.                         *)
(***************************************************************************)
EXTENDS Integers, FiniteSets

CONSTANTS
    Key,       \* idempotency keys, each of one user on one endpoint
    Body,      \* request bodies
    Attempt,   \* HTTP requests, first tries and retries alike
    MaxFaults, \* bound: environment faults in one behaviour
    NoRecord,  \* a key without a row in idempotency_keys
    Unsent     \* a request the client has not made

ASSUME FaultsAssumption == MaxFaults \in Nat
ASSUME AttemptAssumption == IsFiniteSet(Attempt)

VARIABLES
    lock,     \* keys whose Redis lock exists
    record,   \* the idempotency_keys row of each key
    attempt,  \* the handler of each request
    paid,     \* payments committed in the current 24-hour life of each key
    mishaps,  \* auxiliary: events on each key that can cost one more payment
    faults    \* environment faults so far

vars == <<lock, record, attempt, paid, mishaps, faults>>

-----------------------------------------------------------------------------

\* `by' is auxiliary: the request whose response is stored.
Record == [body : Body, by : Attempt, expired : BOOLEAN]

Step == {"check", "handle", "store", "release", "ended"}

\* A request's answer: the request whose response it carries, or a failure.
Failure == {"none", "409", "422", "4xx", "5xx"}

Handler == [key : Key, body : Body, step : Step, holds : BOOLEAN,
            answer : Attempt \cup Failure]

ASSUME NoneAssumption ==
    /\ NoRecord \notin Record /\ Unsent \notin Handler
    /\ Attempt \cap Failure = {}

At(a, step) == attempt[a] # Unsent /\ attempt[a].step = step

KeyOf(a) == attempt[a].key

\* Requests on k whose handler is still running.
Running(k) ==
    {a \in Attempt : attempt[a] # Unsent /\ KeyOf(a) = k /\ ~At(a, "ended")}

Live(k) == record[k] # NoRecord /\ ~record[k].expired

Proceed(a, step, answer) ==
    attempt' = [attempt EXCEPT ![a].step = step, ![a].answer = answer]

Count ==
    /\ faults < MaxFaults
    /\ faults' = faults + 1

Mishap(k) == mishaps' = [mishaps EXCEPT ![k] = @ + 1]

-----------------------------------------------------------------------------
(* The lock.                                                               *)

Arrive(a, k, b, step, holds, answer) ==
    /\ attempt[a] = Unsent
    /\ attempt' = [attempt EXCEPT ![a] =
            [key |-> k, body |-> b, step |-> step, holds |-> holds, answer |-> answer]]
    /\ UNCHANGED <<record, paid>>

\* Fault: SET without NX.
AlwaysFree(k) == k \in Key

\* SET ... NX succeeds when the key does not exist.
LockFree(k) == k \notin lock

Acquire(a, k, b) ==
    /\ LockFree(k)
    /\ lock' = lock \cup {k}
    /\ Arrive(a, k, b, "check", TRUE, "none")
    /\ UNCHANGED <<mishaps, faults>>

\* 409: another request with this key is in flight, or died less than
\* LOCK_EXPIRE_SECONDS ago.
Conflict(a, k, b) ==
    /\ ~LockFree(k)
    /\ Arrive(a, k, b, "ended", FALSE, "409")
    /\ UNCHANGED <<lock, mishaps, faults>>

\* Redis raises: the request goes on without the lock.  The SET may have
\* reached Redis all the same.
Degrade(a, k, b) ==
    /\ Count
    /\ lock' \in {lock, lock \cup {k}}
    /\ Arrive(a, k, b, "check", FALSE, "none")
    /\ Mishap(k)

\* Fault: SET without EX.
Immortal(k) == k \notin Key

\* A lock Redis will drop by itself (EX LOCK_EXPIRE_SECONDS).
Expirable(k) == k \in lock

\* The lock of a request that is gone expires.
LockExpires(k) ==
    /\ Expirable(k)
    /\ \A a \in Running(k) : ~attempt[a].holds
    /\ lock' = lock \ {k}
    /\ UNCHANGED <<record, attempt, paid, mishaps, faults>>

\* The lock expires on a request that is still running.
LockOutlived(k) ==
    /\ Expirable(k)
    /\ \E a \in Running(k) : attempt[a].holds
    /\ Count
    /\ Mishap(k)
    /\ lock' = lock \ {k}
    /\ UNCHANGED <<record, attempt, paid>>

-----------------------------------------------------------------------------
(* The body of the handler.                                                *)

\* Fault: the request hash is not compared.
AnyBody(a) == a \in Attempt

\* existing.request_hash == request_hash
SameBody(a) == record[KeyOf(a)].body = attempt[a].body

Replay(a) ==
    /\ At(a, "check")
    /\ Live(KeyOf(a))
    /\ SameBody(a)
    /\ Proceed(a, "release", record[KeyOf(a)].by)
    /\ UNCHANGED <<lock, record, paid, mishaps, faults>>

Mismatch(a) ==
    /\ At(a, "check")
    /\ Live(KeyOf(a))
    /\ ~SameBody(a)
    /\ Proceed(a, "release", "422")
    /\ UNCHANGED <<lock, record, paid, mishaps, faults>>

\* No row that has not expired: on to the payment.
Fresh(a) ==
    /\ At(a, "check")
    /\ ~Live(KeyOf(a))
    /\ Proceed(a, "handle", "none")
    /\ UNCHANGED <<lock, record, paid, mishaps, faults>>

CheckRaises(a) ==
    /\ At(a, "check")
    /\ Count
    /\ Proceed(a, "release", "5xx")
    /\ UNCHANGED <<lock, record, paid, mishaps>>

\* Fault: the payment is committed twice.
PayTwice(a) ==
    /\ At(a, "handle")
    /\ paid' = [paid EXCEPT ![KeyOf(a)] = @ + 2]
    /\ Proceed(a, "store", a)
    /\ UNCHANGED <<lock, record, mishaps, faults>>

\* The payment handler commits and returns 2xx.
Pay(a) ==
    /\ At(a, "handle")
    /\ paid' = [paid EXCEPT ![KeyOf(a)] = @ + 1]
    /\ Proceed(a, "store", a)
    /\ UNCHANGED <<lock, record, mishaps, faults>>

\* It refuses the payment, or raises before the commit.
Refuse(a) ==
    /\ At(a, "handle")
    /\ Proceed(a, "release", "4xx")
    /\ UNCHANGED <<lock, record, paid, mishaps, faults>>

\* It raises after the commit (cache delete, task queue): no record is kept.
PayAndRaise(a) ==
    /\ At(a, "handle")
    /\ Count
    /\ Mishap(KeyOf(a))
    /\ paid' = [paid EXCEPT ![KeyOf(a)] = @ + 1]
    /\ Proceed(a, "release", "5xx")
    /\ UNCHANGED <<lock, record>>

\* INSERT of the response.
Store(a) ==
    /\ At(a, "store")
    /\ record[KeyOf(a)] = NoRecord
    /\ record' = [record EXCEPT ![KeyOf(a)] =
                    [body |-> attempt[a].body, by |-> a, expired |-> FALSE]]
    /\ Proceed(a, "release", a)
    /\ UNCHANGED <<lock, paid, mishaps, faults>>

\* A row is there, live or expired: UNIQUE (key, user_id, endpoint) refuses
\* the INSERT, and the error is logged.
StoreRefused(a) ==
    /\ At(a, "store")
    /\ record[KeyOf(a)] # NoRecord
    /\ IF Live(KeyOf(a)) THEN UNCHANGED mishaps ELSE Mishap(KeyOf(a))
    /\ Proceed(a, "release", a)
    /\ UNCHANGED <<lock, record, paid, faults>>

\* The database is unreachable: logged as well.
StoreRaises(a) ==
    /\ At(a, "store")
    /\ Count
    /\ Mishap(KeyOf(a))
    /\ Proceed(a, "release", a)
    /\ UNCHANGED <<lock, record, paid>>

\* finally: DEL of the lock, whoever's it is by now.
Release(a) ==
    /\ At(a, "release")
    /\ lock' = IF attempt[a].holds THEN lock \ {KeyOf(a)} ELSE lock
    /\ Proceed(a, "ended", attempt[a].answer)
    /\ UNCHANGED <<record, paid, mishaps, faults>>

\* DEL raises: logged, the lock is left to expire.
ReleaseRaises(a) ==
    /\ At(a, "release")
    /\ attempt[a].holds
    /\ Count
    /\ Proceed(a, "ended", attempt[a].answer)
    /\ UNCHANGED <<lock, record, paid, mishaps>>

\* The process dies.  A payment committed by now has no record.
Crash(a) ==
    /\ attempt[a] # Unsent /\ ~At(a, "ended")
    /\ Count
    /\ IF At(a, "store") THEN Mishap(KeyOf(a)) ELSE UNCHANGED mishaps
    /\ Proceed(a, "ended", "none")
    /\ UNCHANGED <<lock, record, paid>>

-----------------------------------------------------------------------------
(* The life of a key.                                                      *)

\* KEY_TTL_SECONDS pass: the key means a new payment from here on.
RecordExpires(k) ==
    /\ Live(k)
    /\ record' = [record EXCEPT ![k].expired = TRUE]
    /\ paid' = [paid EXCEPT ![k] = 0]
    /\ UNCHANGED <<lock, attempt, mishaps, faults>>

\* cleanup_expired_idempotency_keys, every six hours: one DELETE.
CleanUp ==
    /\ \E k \in Key : record[k] # NoRecord /\ record[k].expired
    /\ record' = [k \in Key |-> IF Live(k) THEN record[k] ELSE NoRecord]
    /\ UNCHANGED <<lock, attempt, paid, mishaps, faults>>

-----------------------------------------------------------------------------

Init ==
    /\ lock = {}
    /\ record = [k \in Key |-> NoRecord]
    /\ attempt = [a \in Attempt |-> Unsent]
    /\ paid = [k \in Key |-> 0]
    /\ mishaps = [k \in Key |-> 0]
    /\ faults = 0

Send(a) ==
    \E k \in Key, b \in Body : Acquire(a, k, b) \/ Conflict(a, k, b) \/ Degrade(a, k, b)

Handle(a) ==
    \/ Replay(a) \/ Mismatch(a) \/ Fresh(a)
    \/ Pay(a) \/ Refuse(a)
    \/ Store(a) \/ StoreRefused(a) \/ Release(a)

Fails(a) ==
    CheckRaises(a) \/ PayAndRaise(a) \/ StoreRaises(a) \/ ReleaseRaises(a) \/ Crash(a)

Next ==
    \/ \E a \in Attempt : Send(a) \/ Handle(a) \/ Fails(a)
    \/ \E k \in Key : LockExpires(k) \/ LockOutlived(k) \/ RecordExpires(k)
    \/ CleanUp

Spec == Init /\ [][Next]_vars

\* Handlers run to their end and Redis expires locks; clients need not retry.
FairSpec ==
    /\ Spec
    /\ \A a \in Attempt : WF_vars(Handle(a))
    /\ \A k \in Key : WF_vars(LockExpires(k))

-----------------------------------------------------------------------------
(* Correctness.                                                            *)

\* Types of Redis, of the table and of the handlers.
TypeOK ==
    /\ lock \subseteq Key
    /\ record \in [Key -> Record \cup {NoRecord}]
    /\ attempt \in [Attempt -> Handler \cup {Unsent}]
    /\ paid \in [Key -> 0 .. Cardinality(Attempt)]
    /\ mishaps \in [Key -> Nat]
    /\ faults \in 0 .. MaxFaults

\* However many retries there are and however they overlap, a key pays once in
\* its life, and once more at most for each mishap: Redis down at the lock, a
\* lock that expired under its holder, or a payment left without a live record.
OnePaymentPerMishap ==
    \A k \in Key : paid[k] <= 1 + mishaps[k]

\* A request answered with somebody's response, its own or a replayed one,
\* asked for the same thing under the same key, and that request did pay:
\* refusals and errors are never replayed.
ReplayFaithful ==
    \A a \in Attempt : (attempt[a] # Unsent /\ attempt[a].answer \in Attempt) =>
        LET b == attempt[a].answer
        IN  /\ attempt[b] # Unsent
            /\ KeyOf(b) = KeyOf(a)
            /\ attempt[b].body = attempt[a].body
            /\ attempt[b].answer \in {b, "none"}

\* No key stays locked, whatever dies while holding it.
NoZombieLock == \A k \in Key : k \in lock ~> k \notin lock

\* What check_existing_key's documentation claims: the expiry check alone is
\* enough, so within a key's life its payment is made once.
OnePayment == \A k \in Key : paid[k] <= 1

=============================================================================
