------------------------------ MODULE Deposits ------------------------------
(***************************************************************************)
(* The life of a deposit after its money is credited: the API publishes a  *)
(* webhook task, Celery workers confirm the deposit or give it up, and an  *)
(* hourly sweep fails what is stuck (app/workers/webhook_tasks.py,         *)
(* cleanup_tasks.py, celery_app.py, wallet_service.deposit).               *)
(*                                                                         *)
(* Delivery is at least once: a message is acknowledged only after its     *)
(* task returns, and goes back to the queue when the worker is killed.     *)
(***************************************************************************)
EXTENDS Integers, FiniteSets

CONSTANTS
    Deposit,         \* deposits, by transaction id
    Worker,          \* Celery worker processes, one task at a time each
    WebhookRetries,  \* max_retries of simulate_bank_webhook (3 in the code)
    SweepRetries,    \* max_retries of cleanup_stale_transactions (2)
    MaxFaults,       \* bound: faults of the environment in one behaviour
    Idle             \* a worker without a task

ASSUME RetriesAssumption == WebhookRetries \in Nat /\ SweepRetries \in Nat
ASSUME FaultsAssumption  == MaxFaults \in Nat

VARIABLES
    status,    \* transactions.status, committed
    credited,  \* deposits whose amount is in wallets.balance
    stale,     \* deposits older than STALE_TRANSACTION_THRESHOLD_HOURS
    api,       \* where each deposit's HTTP request is
    queue,     \* copies of each message the broker holds unassigned
    worker,    \* what each worker process runs
    faults     \* how often the environment failed, by kind

vars == <<status, credited, stale, api, queue, worker, faults>>

-----------------------------------------------------------------------------
(* Types.                                                                  *)

Webhook == [kind : {"webhook"}, deposit : Deposit, retries : 0 .. WebhookRetries]
Sweep   == [kind : {"sweep"}, retries : 0 .. SweepRetries]
Message == Webhook \cup Sweep

\* `confirm' and `fail' hold the row lock of the message's deposit.
Phase == {"start", "confirm", "error", "give_up", "fail", "update", "finish"}

Task == [message : Message, phase : Phase, found : SUBSET Deposit]

ASSUME IdleAssumption == Idle \notin Task

Fault == {"crash", "database", "loss"}

FirstTry(d)  == [kind |-> "webhook", deposit |-> d, retries |-> 0]
FirstSweep   == [kind |-> "sweep", retries |-> 0]

Limit(m) == IF m.kind = "webhook" THEN WebhookRetries ELSE SweepRetries

Busy(w)  == worker[w] # Idle
At(w, phase) == Busy(w) /\ worker[w].phase = phase
Runs(w, kind) == Busy(w) /\ worker[w].message.kind = kind
Target(w) == worker[w].message.deposit

\* Deposits whose transactions row some task has locked.
Locked ==
    {d \in Deposit : \E w \in Worker :
        (At(w, "confirm") \/ At(w, "fail")) /\ Target(w) = d}

-----------------------------------------------------------------------------
(* Broker and faults.                                                      *)

Enqueued(m) == [queue EXCEPT ![m] = @ + 1]

MoveTo(w, phase) == worker' = [worker EXCEPT ![w].phase = phase]

TotalFaults == faults["crash"] + faults["database"] + faults["loss"]

Count(kind) ==
    /\ TotalFaults < MaxFaults
    /\ faults' = [faults EXCEPT ![kind] = @ + 1]

-----------------------------------------------------------------------------
(* The HTTP request.                                                       *)

\* wallet_service.deposit: balance and PENDING row in one commit.
Accept(d) ==
    /\ api[d] = "new"
    /\ status' = [status EXCEPT ![d] = "PENDING"]
    /\ credited' = credited \cup {d}
    /\ api' = [api EXCEPT ![d] = "committed"]
    /\ UNCHANGED <<stale, queue, worker, faults>>

\* simulate_bank_webhook.delay, after the commit.
Publish(d) ==
    /\ api[d] = "committed"
    /\ queue' = Enqueued(FirstTry(d))
    /\ api' = [api EXCEPT ![d] = "answered"]
    /\ UNCHANGED <<status, credited, stale, worker, faults>>

\* The process dies after the commit, or Redis refuses the cache delete or
\* the message: no task will ever know of the deposit.
PublishFails(d) ==
    /\ api[d] = "committed"
    /\ Count("loss")
    /\ api' = [api EXCEPT ![d] = "answered"]
    /\ UNCHANGED <<status, credited, stale, queue, worker>>

\* An hour passes over a deposit.
Ages(d) ==
    /\ status[d] # "ABSENT"
    /\ d \notin stale
    /\ stale' = stale \cup {d}
    /\ UNCHANGED <<status, credited, api, queue, worker, faults>>

\* Celery Beat, hourly; bound: at most one sweep waits in the queue.
BeatFires ==
    /\ \A m \in Sweep : queue[m] = 0
    /\ queue' = Enqueued(FirstSweep)
    /\ UNCHANGED <<status, credited, stale, api, worker, faults>>

-----------------------------------------------------------------------------
(* A worker's steps.                                                       *)

\* A worker takes a message, which stays unacknowledged until the task ends.
Take(w, m) ==
    /\ ~Busy(w)
    /\ queue[m] > 0
    /\ queue' = [queue EXCEPT ![m] = @ - 1]
    /\ worker' = [worker EXCEPT ![w] =
                    [message |-> m, phase |-> "start", found |-> {}]]
    /\ UNCHANGED <<status, credited, stale, api, faults>>

\* Fault: the status guard is left out.
NeverProcessed(d) == status[d] = "ABSENT"

\* The guards of _execute_webhook_processing: no such row, or not PENDING.
AlreadyProcessed(d) == status[d] # "PENDING"

\* SELECT ... FOR UPDATE on the transaction, after the bank's delay.
LockTransaction(w) ==
    /\ At(w, "start") /\ Runs(w, "webhook")
    /\ Target(w) \notin Locked
    /\ MoveTo(w, IF AlreadyProcessed(Target(w)) THEN "finish" ELSE "confirm")
    /\ UNCHANGED <<status, credited, stale, api, queue, faults>>

\* status = COMPLETED, commit.
Confirm(w) ==
    /\ At(w, "confirm")
    /\ status' = [status EXCEPT ![Target(w)] = "COMPLETED"]
    /\ MoveTo(w, "finish")
    /\ UNCHANGED <<credited, stale, api, queue, faults>>

\* The commit takes effect but its reply is lost: the task sees an exception.
ConfirmUnheard(w) ==
    /\ At(w, "confirm")
    /\ Count("database")
    /\ status' = [status EXCEPT ![Target(w)] = "COMPLETED"]
    /\ MoveTo(w, "error")
    /\ UNCHANGED <<credited, stale, api, queue>>

\* Any other exception in a task's body; the session closes, the lock goes.
TaskRaises(w) ==
    /\ At(w, "start") \/ At(w, "confirm") \/ At(w, "update")
    /\ Count("database")
    /\ MoveTo(w, "error")
    /\ UNCHANGED <<status, credited, stale, api, queue>>

\* Fault: retries counted from the wrong end.
RetriesLeftShort(m) == m.retries + 1 < Limit(m)

\* self.request.retries < self.max_retries
RetriesLeft(m) == m.retries < Limit(m)

\* raise self.retry(...): a copy with one more retry, before this one is acked.
Retry(w) ==
    /\ At(w, "error")
    /\ RetriesLeft(worker[w].message)
    /\ queue' = Enqueued([worker[w].message EXCEPT !.retries = @ + 1])
    /\ MoveTo(w, "finish")
    /\ UNCHANGED <<status, credited, stale, api, faults>>

\* Retries exhausted: a webhook goes on to mark its deposit, a sweep ends.
Exhausted(w) ==
    /\ At(w, "error")
    /\ ~RetriesLeft(worker[w].message)
    /\ MoveTo(w, IF Runs(w, "webhook") THEN "give_up" ELSE "finish")
    /\ UNCHANGED <<status, credited, stale, api, queue, faults>>

\* _mark_transaction_failed: lock the row, leave a settled deposit alone.
LockToFail(w) ==
    /\ At(w, "give_up")
    /\ Target(w) \notin Locked
    /\ MoveTo(w, IF AlreadyProcessed(Target(w)) THEN "finish" ELSE "fail")
    /\ UNCHANGED <<status, credited, stale, api, queue, faults>>

MarkFailed(w) ==
    /\ At(w, "fail")
    /\ status' = [status EXCEPT ![Target(w)] = "FAILED"]
    /\ MoveTo(w, "finish")
    /\ UNCHANGED <<credited, stale, api, queue, faults>>

\* Marking raises too: logged, and the task ends.
MarkRaises(w) ==
    /\ At(w, "give_up") \/ At(w, "fail")
    /\ Count("database")
    /\ MoveTo(w, "finish")
    /\ UNCHANGED <<status, credited, stale, api, queue>>

\* Fault: created_at compared the wrong way round.
StuckReversed == {d \in Deposit \ stale : status[d] = "PENDING"}

\* What the sweep's WHERE clause matches.
Stuck == {d \in stale : status[d] = "PENDING"}

\* The sweep's first statement: the ids of what is stuck, without locks.
CountStuck(w) ==
    /\ At(w, "start") /\ Runs(w, "sweep")
    /\ worker' = [worker EXCEPT ![w].found = Stuck,
                                ![w].phase = IF Stuck = {} THEN "finish" ELSE "update"]
    /\ UNCHANGED <<status, credited, stale, api, queue, faults>>

\* Its second: an UPDATE that waits for locked rows and reads their status
\* afresh.  The cutoff is the first one's, so no other row can match by now.
FailStuck(w) ==
    LET still == worker[w].found \cap Stuck IN
    /\ At(w, "update")
    /\ still \cap Locked = {}
    /\ status' = [d \in Deposit |-> IF d \in still THEN "FAILED" ELSE status[d]]
    /\ MoveTo(w, "finish")
    /\ UNCHANGED <<credited, stale, api, queue, faults>>

\* The task has returned or raised: the message is acknowledged.
Acknowledge(w) ==
    /\ At(w, "finish")
    /\ worker' = [worker EXCEPT ![w] = Idle]
    /\ UNCHANGED <<status, credited, stale, api, queue, faults>>

\* Fault: acknowledged on receipt, so that a killed worker loses its message.
CrashEarlyAck(w) ==
    /\ Busy(w)
    /\ Count("crash")
    /\ worker' = [worker EXCEPT ![w] = Idle]
    /\ UNCHANGED <<status, credited, stale, api, queue>>

\* The worker process is killed: task_reject_on_worker_lost requeues the
\* message as it was, and PostgreSQL ends the session.
Crash(w) ==
    /\ Busy(w)
    /\ Count("crash")
    /\ queue' = Enqueued(worker[w].message)
    /\ worker' = [worker EXCEPT ![w] = Idle]
    /\ UNCHANGED <<status, credited, stale, api>>

\* The hard time limit kills the task; Celery acknowledges the message.
TimeLimit(w) ==
    /\ Busy(w)
    /\ Count("loss")
    /\ worker' = [worker EXCEPT ![w] = Idle]
    /\ UNCHANGED <<status, credited, stale, api, queue>>

\* The broker restarts without the tail of its append-only file.
BrokerLoses(m) ==
    /\ queue[m] > 0
    /\ Count("loss")
    /\ queue' = [queue EXCEPT ![m] = @ - 1]
    /\ UNCHANGED <<status, credited, stale, api, worker>>

-----------------------------------------------------------------------------

Init ==
    /\ status = [d \in Deposit |-> "ABSENT"]
    /\ credited = {}
    /\ stale = {}
    /\ api = [d \in Deposit |-> "new"]
    /\ queue = [m \in Message |-> 0]
    /\ worker = [w \in Worker |-> Idle]
    /\ faults = [kind \in Fault |-> 0]

\* What a worker does with the message it has.
Work(w) ==
    \/ LockTransaction(w) \/ Confirm(w)
    \/ Retry(w) \/ Exhausted(w) \/ LockToFail(w) \/ MarkFailed(w)
    \/ CountStuck(w) \/ FailStuck(w)
    \/ Acknowledge(w)

Fails(w) ==
    ConfirmUnheard(w) \/ TaskRaises(w) \/ MarkRaises(w) \/ Crash(w) \/ TimeLimit(w)

Next ==
    \/ \E d \in Deposit : Accept(d) \/ Publish(d) \/ PublishFails(d) \/ Ages(d)
    \/ BeatFires
    \/ \E w \in Worker : Work(w) \/ Fails(w) \/ \E m \in Message : Take(w, m)
    \/ \E m \in Message : BrokerLoses(m)

Spec == Init /\ [][Next]_vars

\* Time passes, Beat keeps firing, live workers keep working, and the broker's
\* list hands out every message in its turn.  No fault is forced, nor a deposit.
FairSpec ==
    /\ Spec
    /\ \A d \in Deposit : WF_vars(Publish(d)) /\ WF_vars(Ages(d))
    /\ WF_vars(BeatFires)
    /\ \A w \in Worker : WF_vars(Work(w))
    /\ \A m \in Message : SF_vars(\E w \in Worker : Take(w, m))

-----------------------------------------------------------------------------
(* Correctness.                                                            *)

\* Types of the database, the broker and the workers.
TypeOK ==
    /\ status \in [Deposit -> {"ABSENT", "PENDING", "COMPLETED", "FAILED"}]
    /\ credited \subseteq Deposit
    /\ stale \subseteq Deposit
    /\ api \in [Deposit -> {"new", "committed", "answered"}]
    /\ queue \in [Message -> Nat]
    /\ worker \in [Worker -> Task \cup {Idle}]
    /\ faults \in [Fault -> 0 .. MaxFaults]

Promise == INSTANCE DepositPromise WITH Deposit <- Deposit, status <- status

\* Workers, retries, duplicates and sweeps together keep the promise that a
\* deposit settles once: whichever of them comes first, the others find the
\* deposit settled.
KeepsPromise == Promise!Spec

\* And it does settle, whatever was killed, lost or out of order: where the
\* webhook task is gone, some later sweep finds the deposit.
DepositsSettle == Promise!Settles

\* A deposit fails only for a reason: it sat for an hour, or some webhook
\* message used up all its retries, each one a database failure of its own.
FailureHasCause ==
    \A d \in Deposit : status[d] = "FAILED" =>
        d \in stale \/ faults["database"] > WebhookRetries

\* A webhook message of d, in the queue or on a worker.
OnItsWay(d) ==
    \/ \E m \in Webhook : m.deposit = d /\ queue[m] > 0
    \/ \E w \in Worker : Runs(w, "webhook") /\ Target(w) = d

\* Killed workers cost a deposit nothing: until it settles its message is
\* somewhere, unless the broker lost it or its retries were used up.
SurvivesCrashes ==
    \A d \in Deposit : (status[d] = "PENDING" /\ api[d] = "answered") =>
        \/ OnItsWay(d)
        \/ faults["loss"] > 0
        \/ faults["database"] > WebhookRetries

\* What the documentation of TransactionStatus says: a FAILED deposit left
\* the balance as it was.
FailedLeavesBalance ==
    \A d \in Deposit : status[d] = "FAILED" => d \notin credited

=============================================================================
