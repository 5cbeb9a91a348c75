--------------------------- MODULE DepositsProofs ---------------------------
(***************************************************************************)
(* The safety of Deposits, for any deposits, workers, retry limits and     *)
(* number of faults: it implements DepositPromise, a deposit fails only    *)
(* for a reason, and killed workers lose no message.                       *)
(*                                                                         *)
(* Three facts carry the induction.  A worker that has a row locked found  *)
(* the deposit PENDING, and nobody else has it locked (RowsHeld).  Every   *)
(* retry was paid for with a database failure (RetriesCost).  A PENDING    *)
(* deposit's message is in the queue, or on a worker that has not come to  *)
(* its end (StillOnItsWay).                                                *)
(***************************************************************************)
EXTENDS Deposits, TLAPS

\* A worker between SELECT ... FOR UPDATE and the end of its transaction.
Holds(w) == At(w, "confirm") \/ At(w, "fail")

RowsHeld ==
    /\ \A w \in Worker : Holds(w) \/ At(w, "give_up") => Runs(w, "webhook")
    /\ \A w \in Worker : At(w, "update") => Runs(w, "sweep")
    /\ \A w \in Worker : Holds(w) => status[Target(w)] = "PENDING"
    /\ \A v, w \in Worker : v # w /\ Holds(v) /\ Holds(w) => Target(v) # Target(w)
    /\ \A d \in Deposit : api[d] = "new" => status[d] = "ABSENT"

\* Failures of the database pay for retries.
RetriesCost ==
    /\ \A m \in Message : queue[m] > 0 => m.retries <= faults["database"]
    /\ \A w \in Worker : Busy(w) => worker[w].message.retries <= faults["database"]
    /\ \A w \in Worker :
         At(w, "error") => worker[w].message.retries < faults["database"]
    /\ \A w \in Worker :
         At(w, "give_up") \/ At(w, "fail") => faults["database"] > WebhookRetries

\* OnItsWay, not counting workers that are done with their message.
StillOnItsWay(d) ==
    \/ \E m \in Webhook : m.deposit = d /\ queue[m] > 0
    \/ \E w \in Worker : Runs(w, "webhook") /\ Target(w) = d /\ ~At(w, "finish")

Delivered ==
    \A d \in Deposit : (status[d] = "PENDING" /\ api[d] = "answered") =>
        \/ StillOnItsWay(d)
        \/ faults["loss"] > 0
        \/ faults["database"] > WebhookRetries

IInv == TypeOK /\ RowsHeld /\ RetriesCost /\ FailureHasCause /\ Delivered

-----------------------------------------------------------------------------
(* What the helpers do.                                                    *)

\* The messages are of two kinds, and the kind tells which.
LEMMA MessageKinds ==
    ASSUME NEW m \in Message
    PROVE  /\ m.retries \in Nat /\ m.retries <= Limit(m)
           /\ m.kind = "webhook" =>
                /\ m \in Webhook /\ m.deposit \in Deposit
                /\ Limit(m) = WebhookRetries
           /\ m.kind # "webhook" => m \in Sweep
  BY RetriesAssumption DEF Message, Webhook, Sweep, Limit

\* A retry is a message of the same kind, for the same deposit.
LEMMA RetryOf ==
    ASSUME NEW m \in Message, RetriesLeft(m)
    PROVE  LET r == [m EXCEPT !.retries = @ + 1] IN
           /\ r \in Message /\ r.retries = m.retries + 1
           /\ m.kind = "webhook" => r \in Webhook /\ r.deposit = m.deposit
  <1>1. CASE m \in Webhook
    BY <1>1, RetriesAssumption DEF Message, Webhook, RetriesLeft, Limit
  <1>2. CASE m \in Sweep
    BY <1>2, RetriesAssumption DEF Message, Sweep, RetriesLeft, Limit
  <1> QED BY <1>1, <1>2 DEF Message

\* First tries are messages.
LEMMA FirstTries ==
    /\ FirstSweep \in Message /\ FirstSweep.retries = 0
    /\ \A d \in Deposit : /\ FirstTry(d) \in Webhook /\ FirstTry(d) \in Message
                          /\ FirstTry(d).deposit = d /\ FirstTry(d).retries = 0
  BY RetriesAssumption DEF FirstSweep, FirstTry, Message, Webhook, Sweep

\* Worker w goes to phase p, keeps its message, and no other worker moves.
Moved(w, p) ==
    /\ worker' \in [Worker -> Task \cup {Idle}]
    /\ worker'[w] # Idle
    /\ worker'[w].message = worker[w].message
    /\ worker'[w].phase = p
    /\ \A v \in Worker \ {w} : worker'[v] = worker[v]

LEMMA Moves ==
    ASSUME TypeOK, NEW w \in Worker, Busy(w), NEW p \in Phase, MoveTo(w, p)
    PROVE  Moved(w, p)
  <1>1. worker[w] \in Task
    BY DEF TypeOK, Busy
  <1>2. worker'[w] = [worker[w] EXCEPT !.phase = p]
    BY DEF MoveTo, TypeOK
  <1>3. worker'[w] \in Task
    BY <1>1, <1>2 DEF Task
  <1> QED BY <1>1, <1>2, <1>3, IdleAssumption DEF Moved, MoveTo, TypeOK, Task

\* A fault is counted under its kind.
Counted(kind) ==
    /\ faults' \in [Fault -> 0 .. MaxFaults]
    /\ faults'[kind] = faults[kind] + 1
    /\ \A other \in Fault \ {kind} : faults'[other] = faults[other]
    /\ {"database", "loss"} \subseteq Fault

LEMMA Counts ==
    ASSUME TypeOK, NEW kind \in Fault, Count(kind)
    PROVE  Counted(kind)
  BY FaultsAssumption DEF Counted, Count, TotalFaults, Fault, TypeOK

\* A message enters the queue.
Queued(m) ==
    /\ queue' \in [Message -> Nat]
    /\ queue'[m] > 0
    /\ \A n \in Message : n # m => queue'[n] = queue[n]
    /\ \A n \in Message : queue[n] > 0 => queue'[n] > 0

LEMMA Enqueues ==
    ASSUME TypeOK, NEW m \in Message, queue' = Enqueued(m)
    PROVE  Queued(m)
  BY DEF Queued, Enqueued, TypeOK

\* What TypeOK says of busy workers and of the counters.
Typed ==
    /\ \A w \in Worker : Busy(w) =>
         /\ worker[w] \in Task
         /\ worker[w].message \in Message
         /\ worker[w].message.retries \in Nat
         /\ Runs(w, "webhook") => /\ worker[w].message \in Webhook
                                 /\ Target(w) \in Deposit
    /\ faults["database"] \in Nat /\ faults["loss"] \in Nat
    /\ WebhookRetries \in Nat
    /\ Webhook \subseteq Message
    /\ \A m \in Message : m.retries \in Nat

LEMMA TasksOf == TypeOK => Typed
  BY MessageKinds, FaultsAssumption, RetriesAssumption
     DEF Typed, TypeOK, Busy, Task, Runs, Target, Fault, Message

-----------------------------------------------------------------------------

\* A deposit is accepted: it was not there, so nobody had it locked.
LEMMA AcceptKeeps ==
    ASSUME IInv, NEW d \in Deposit, Accept(d)
    PROVE  IInv'
  <1>1. TypeOK /\ RowsHeld /\ RetriesCost /\ FailureHasCause /\ Delivered
    BY DEF IInv
  <1>2. Typed
    BY <1>1, TasksOf
  <1>3. TypeOK'
    BY <1>1, <1>2 DEF TypeOK, Typed, Accept
  <1>4. RowsHeld'
    BY <1>1, <1>2
       DEF RowsHeld, Holds, At, Busy, Runs, Target, TypeOK, Typed, Accept
  <1>5. RetriesCost'
    BY <1>1, <1>2 DEF RetriesCost, At, Busy, TypeOK, Typed, Accept
  <1>6. FailureHasCause'
    BY <1>1, <1>2
       DEF FailureHasCause, RetriesCost, At, Busy, TypeOK, Typed, Accept
  <1>7. Delivered'
    BY <1>1, <1>2
       DEF Delivered, StillOnItsWay, At, Busy, Runs, Target, RowsHeld, TypeOK,
           Typed, Accept
  <1> QED BY <1>3, <1>4, <1>5, <1>6, <1>7 DEF IInv

\* Its message is published.
LEMMA PublishKeeps ==
    ASSUME IInv, NEW d \in Deposit, Publish(d)
    PROVE  IInv'
  <1>1. TypeOK /\ RowsHeld /\ RetriesCost /\ FailureHasCause /\ Delivered
    BY DEF IInv
  <1>2. Typed
    BY <1>1, TasksOf
  <1>3. Queued(FirstTry(d))
    BY <1>1, FirstTries, Enqueues DEF Publish
  <1>4. TypeOK'
    BY <1>1, <1>2, <1>3, FirstTries DEF TypeOK, Typed, Queued, Publish
  <1>5. RowsHeld'
    BY <1>1, <1>2, <1>3, FirstTries
       DEF RowsHeld, Holds, At, Busy, Runs, Target, TypeOK, Typed, Queued,
           Publish
  <1>6. RetriesCost'
    BY <1>1, <1>2, <1>3, FirstTries
       DEF RetriesCost, At, Busy, TypeOK, Typed, Queued, Publish
  <1>7. FailureHasCause'
    BY <1>1, <1>2, <1>3, FirstTries
       DEF FailureHasCause, RetriesCost, At, Busy, TypeOK, Typed, Queued,
           Publish
  <1>8. Delivered'
    BY <1>1, <1>2, <1>3, FirstTries
       DEF Delivered, StillOnItsWay, At, Busy, Runs, Target, RowsHeld, TypeOK,
           Typed, Queued, Publish
  <1> QED BY <1>4, <1>5, <1>6, <1>7, <1>8 DEF IInv

\* It is not published: a message is lost.
LEMMA PublishFailsKeeps ==
    ASSUME IInv, NEW d \in Deposit, PublishFails(d)
    PROVE  IInv'
  <1>1. TypeOK /\ RowsHeld /\ RetriesCost /\ FailureHasCause /\ Delivered
    BY DEF IInv
  <1>2. Typed
    BY <1>1, TasksOf
  <1>3. Counted("loss")
    BY <1>1, Counts DEF PublishFails, Fault
  <1>4. TypeOK'
    BY <1>1, <1>2, <1>3 DEF TypeOK, Typed, Counted, PublishFails
  <1>5. RowsHeld'
    BY <1>1, <1>2, <1>3
       DEF RowsHeld, Holds, At, Busy, Runs, Target, TypeOK, Typed, Counted,
           PublishFails
  <1>6. RetriesCost'
    BY <1>1, <1>2, <1>3
       DEF RetriesCost, At, Busy, TypeOK, Typed, Counted, PublishFails
  <1>7. FailureHasCause'
    BY <1>1, <1>2, <1>3
       DEF FailureHasCause, RetriesCost, At, Busy, TypeOK, Typed, Counted,
           PublishFails
  <1>8. Delivered'
    BY <1>1, <1>2, <1>3
       DEF Delivered, StillOnItsWay, At, Busy, Runs, Target, RowsHeld, TypeOK,
           Typed, Counted, PublishFails
  <1> QED BY <1>4, <1>5, <1>6, <1>7, <1>8 DEF IInv

\* An hour passes over a deposit.
LEMMA AgesKeeps ==
    ASSUME IInv, NEW d \in Deposit, Ages(d)
    PROVE  IInv'
  <1>1. TypeOK /\ RowsHeld /\ RetriesCost /\ FailureHasCause /\ Delivered
    BY DEF IInv
  <1>2. Typed
    BY <1>1, TasksOf
  <1>3. TypeOK'
    BY <1>1, <1>2 DEF TypeOK, Typed, Ages
  <1>4. RowsHeld'
    BY <1>1, <1>2
       DEF RowsHeld, Holds, At, Busy, Runs, Target, TypeOK, Typed, Ages
  <1>5. RetriesCost'
    BY <1>1, <1>2 DEF RetriesCost, At, Busy, TypeOK, Typed, Ages
  <1>6. FailureHasCause'
    BY <1>1, <1>2
       DEF FailureHasCause, RetriesCost, At, Busy, TypeOK, Typed, Ages
  <1>7. Delivered'
    BY <1>1, <1>2
       DEF Delivered, StillOnItsWay, At, Busy, Runs, Target, RowsHeld, TypeOK,
           Typed, Ages
  <1> QED BY <1>3, <1>4, <1>5, <1>6, <1>7 DEF IInv

\* Beat publishes a sweep.
LEMMA BeatKeeps ==
    ASSUME IInv, BeatFires
    PROVE  IInv'
  <1>1. TypeOK /\ RowsHeld /\ RetriesCost /\ FailureHasCause /\ Delivered
    BY DEF IInv
  <1>2. Typed
    BY <1>1, TasksOf
  <1>3. Queued(FirstSweep)
    BY <1>1, FirstTries, Enqueues DEF BeatFires
  <1>4. TypeOK'
    BY <1>1, <1>2, <1>3, FirstTries DEF TypeOK, Typed, Queued, BeatFires
  <1>5. RowsHeld'
    BY <1>1, <1>2, <1>3, FirstTries
       DEF RowsHeld, Holds, At, Busy, Runs, Target, TypeOK, Typed, Queued,
           BeatFires
  <1>6. RetriesCost'
    BY <1>1, <1>2, <1>3, FirstTries
       DEF RetriesCost, At, Busy, TypeOK, Typed, Queued, BeatFires
  <1>7. FailureHasCause'
    BY <1>1, <1>2, <1>3, FirstTries
       DEF FailureHasCause, RetriesCost, At, Busy, TypeOK, Typed, Queued,
           BeatFires
  <1>8. Delivered'
    BY <1>1, <1>2, <1>3, FirstTries
       DEF Delivered, StillOnItsWay, At, Busy, Runs, Target, RowsHeld, TypeOK,
           Typed, Queued, BeatFires
  <1> QED BY <1>4, <1>5, <1>6, <1>7, <1>8 DEF IInv

\* The broker loses a message.
LEMMA BrokerKeeps ==
    ASSUME IInv, NEW m \in Message, BrokerLoses(m)
    PROVE  IInv'
  <1>1. TypeOK /\ RowsHeld /\ RetriesCost /\ FailureHasCause /\ Delivered
    BY DEF IInv
  <1>2. Typed
    BY <1>1, TasksOf
  <1>3. Counted("loss")
    BY <1>1, Counts DEF BrokerLoses, Fault
  <1>4. TypeOK'
    BY <1>1, <1>2, <1>3 DEF TypeOK, Typed, Counted, BrokerLoses
  <1>5. RowsHeld'
    BY <1>1, <1>2, <1>3
       DEF RowsHeld, Holds, At, Busy, Runs, Target, TypeOK, Typed, Counted,
           BrokerLoses
  <1>6. RetriesCost'
    BY <1>1, <1>2, <1>3
       DEF RetriesCost, At, Busy, TypeOK, Typed, Counted, BrokerLoses
  <1>7. FailureHasCause'
    BY <1>1, <1>2, <1>3
       DEF FailureHasCause, RetriesCost, At, Busy, TypeOK, Typed, Counted,
           BrokerLoses
  <1>8. Delivered'
    BY <1>1, <1>2, <1>3
       DEF Delivered, StillOnItsWay, At, Busy, Runs, Target, RowsHeld, TypeOK,
           Typed, Counted, BrokerLoses
  <1> QED BY <1>4, <1>5, <1>6, <1>7, <1>8 DEF IInv

\* A row is locked: nobody else has it, and the deposit is PENDING.
LEMMA LockKeeps ==
    ASSUME IInv, NEW w \in Worker, LockTransaction(w)
    PROVE  IInv'
  <1>1. TypeOK /\ RowsHeld /\ RetriesCost /\ FailureHasCause /\ Delivered
    BY DEF IInv
  <1>2. Typed
    BY <1>1, TasksOf
  <1>3. Moved(w, 
              IF AlreadyProcessed(Target(w)) THEN "finish" ELSE "confirm")
    BY <1>1, Moves DEF LockTransaction, At, Phase
  <1>4. TypeOK'
    BY <1>1, <1>2, <1>3
       DEF TypeOK, Typed, Moved, LockTransaction, AlreadyProcessed, Locked
  <1>5. RowsHeld'
    BY <1>1, <1>2, <1>3
       DEF RowsHeld, Holds, At, Busy, Runs, Target, TypeOK, Typed, Moved,
           LockTransaction, AlreadyProcessed, Locked
  <1>6. RetriesCost'
    BY <1>1, <1>2, <1>3
       DEF RetriesCost, At, Busy, TypeOK, Typed, Moved, LockTransaction,
           AlreadyProcessed, Locked
  <1>7. FailureHasCause'
    BY <1>1, <1>2, <1>3
       DEF FailureHasCause, RetriesCost, At, Busy, TypeOK, Typed, Moved,
           LockTransaction, AlreadyProcessed, Locked
  <1>8. Delivered'
    BY <1>1, <1>2, <1>3
       DEF Delivered, StillOnItsWay, At, Busy, Runs, Target, RowsHeld, TypeOK,
           Typed, Moved, LockTransaction, AlreadyProcessed, Locked
  <1> QED BY <1>4, <1>5, <1>6, <1>7, <1>8 DEF IInv

\* A deposit is confirmed, and its row unlocked.
LEMMA ConfirmKeeps ==
    ASSUME IInv, NEW w \in Worker, Confirm(w)
    PROVE  IInv'
  <1>1. TypeOK /\ RowsHeld /\ RetriesCost /\ FailureHasCause /\ Delivered
    BY DEF IInv
  <1>2. Typed
    BY <1>1, TasksOf
  <1>3. Moved(w, "finish")
    BY <1>1, Moves DEF Confirm, At, Phase
  <1>4. TypeOK'
    BY <1>1, <1>2, <1>3 DEF TypeOK, Typed, Moved, Confirm
  <1>5. RowsHeld'
    BY <1>1, <1>2, <1>3
       DEF RowsHeld, Holds, At, Busy, Runs, Target, TypeOK, Typed, Moved,
           Confirm
  <1>6. RetriesCost'
    BY <1>1, <1>2, <1>3 DEF RetriesCost, At, Busy, TypeOK, Typed, Moved, Confirm
  <1>7. FailureHasCause'
    BY <1>1, <1>2, <1>3
       DEF FailureHasCause, RetriesCost, At, Busy, TypeOK, Typed, Moved, Confirm
  <1>8. Delivered'
    BY <1>1, <1>2, <1>3
       DEF Delivered, StillOnItsWay, At, Busy, Runs, Target, RowsHeld, TypeOK,
           Typed, Moved, Confirm
  <1> QED BY <1>4, <1>5, <1>6, <1>7, <1>8 DEF IInv

\* It is confirmed, and the task does not hear of it.
LEMMA ConfirmUnheardKeeps ==
    ASSUME IInv, NEW w \in Worker, ConfirmUnheard(w)
    PROVE  IInv'
  <1>1. TypeOK /\ RowsHeld /\ RetriesCost /\ FailureHasCause /\ Delivered
    BY DEF IInv
  <1>2. Typed
    BY <1>1, TasksOf
  <1>3. Moved(w, "error")
    BY <1>1, Moves DEF ConfirmUnheard, At, Phase
  <1>4. Counted("database")
    BY <1>1, Counts DEF ConfirmUnheard, Fault
  <1>5. TypeOK'
    BY <1>1, <1>2, <1>3, <1>4 DEF TypeOK, Typed, Moved, Counted, ConfirmUnheard
  <1>6. RowsHeld'
    BY <1>1, <1>2, <1>3, <1>4
       DEF RowsHeld, Holds, At, Busy, Runs, Target, TypeOK, Typed, Moved,
           Counted, ConfirmUnheard
  <1>7. RetriesCost'
    BY <1>1, <1>2, <1>3, <1>4
       DEF RetriesCost, At, Busy, TypeOK, Typed, Moved, Counted, ConfirmUnheard
  <1>8. FailureHasCause'
    BY <1>1, <1>2, <1>3, <1>4
       DEF FailureHasCause, RetriesCost, At, Busy, TypeOK, Typed, Moved,
           Counted, ConfirmUnheard
  <1>9. Delivered'
    BY <1>1, <1>2, <1>3, <1>4
       DEF Delivered, StillOnItsWay, At, Busy, Runs, Target, RowsHeld, TypeOK,
           Typed, Moved, Counted, ConfirmUnheard
  <1> QED BY <1>5, <1>6, <1>7, <1>8, <1>9 DEF IInv

\* A task raises, at the cost of a database failure.
LEMMA RaisesKeeps ==
    ASSUME IInv, NEW w \in Worker, TaskRaises(w)
    PROVE  IInv'
  <1>1. TypeOK /\ RowsHeld /\ RetriesCost /\ FailureHasCause /\ Delivered
    BY DEF IInv
  <1>2. Typed
    BY <1>1, TasksOf
  <1>3. Moved(w, "error")
    BY <1>1, Moves DEF TaskRaises, At, Phase
  <1>4. Counted("database")
    BY <1>1, Counts DEF TaskRaises, Fault
  <1>5. TypeOK'
    BY <1>1, <1>2, <1>3, <1>4 DEF TypeOK, Typed, Moved, Counted, TaskRaises
  <1>6. RowsHeld'
    BY <1>1, <1>2, <1>3, <1>4
       DEF RowsHeld, Holds, At, Busy, Runs, Target, TypeOK, Typed, Moved,
           Counted, TaskRaises
  <1>7. RetriesCost'
    BY <1>1, <1>2, <1>3, <1>4
       DEF RetriesCost, At, Busy, TypeOK, Typed, Moved, Counted, TaskRaises
  <1>8. FailureHasCause'
    BY <1>1, <1>2, <1>3, <1>4
       DEF FailureHasCause, RetriesCost, At, Busy, TypeOK, Typed, Moved,
           Counted, TaskRaises
  <1>9. Delivered'
    BY <1>1, <1>2, <1>3, <1>4
       DEF Delivered, StillOnItsWay, At, Busy, Runs, Target, RowsHeld, TypeOK,
           Typed, Moved, Counted, TaskRaises
  <1> QED BY <1>5, <1>6, <1>7, <1>8, <1>9 DEF IInv

\* A webhook gives up once its retries are used up.
LEMMA ExhaustedKeeps ==
    ASSUME IInv, NEW w \in Worker, Exhausted(w)
    PROVE  IInv'
  <1>1. TypeOK /\ RowsHeld /\ RetriesCost /\ FailureHasCause /\ Delivered
    BY DEF IInv
  <1>2. Typed
    BY <1>1, TasksOf
  <1>3. Moved(w, 
              IF Runs(w, "webhook") THEN "give_up" ELSE "finish")
    BY <1>1, Moves DEF Exhausted, At, Phase
  <1>4. Runs(w, "webhook") => faults["database"] > WebhookRetries
    <2>1. worker[w].message.retries < faults["database"]
      BY <1>1 DEF RetriesCost, Exhausted
    <2>2. Runs(w, "webhook") => ~(worker[w].message.retries < WebhookRetries)
      BY DEF Exhausted, Runs, RetriesLeft, Limit
    <2> QED BY <1>2, <2>1, <2>2 DEF Exhausted, At, Typed
  <1>5. TypeOK'
    BY <1>1, <1>2, <1>3, <1>4 DEF TypeOK, Typed, Moved, Exhausted
  <1>6. RowsHeld'
    BY <1>1, <1>2, <1>3, <1>4
       DEF RowsHeld, Holds, At, Busy, Runs, Target, TypeOK, Typed, Moved,
           Exhausted
  <1>7. RetriesCost'
    BY <1>1, <1>2, <1>3, <1>4
       DEF RetriesCost, At, Busy, TypeOK, Typed, Moved, Exhausted
  <1>8. FailureHasCause'
    BY <1>1, <1>2, <1>3, <1>4
       DEF FailureHasCause, RetriesCost, At, Busy, TypeOK, Typed, Moved,
           Exhausted
  <1>9. Delivered'
    BY <1>1, <1>2, <1>3, <1>4
       DEF Delivered, StillOnItsWay, At, Busy, Runs, Target, RowsHeld, TypeOK,
           Typed, Moved, Exhausted
  <1> QED BY <1>5, <1>6, <1>7, <1>8, <1>9 DEF IInv

\* Giving up locks the row as confirming does.
LEMMA LockToFailKeeps ==
    ASSUME IInv, NEW w \in Worker, LockToFail(w)
    PROVE  IInv'
  <1>1. TypeOK /\ RowsHeld /\ RetriesCost /\ FailureHasCause /\ Delivered
    BY DEF IInv
  <1>2. Typed
    BY <1>1, TasksOf
  <1>3. Moved(w, 
              IF AlreadyProcessed(Target(w)) THEN "finish" ELSE "fail")
    BY <1>1, Moves DEF LockToFail, At, Phase
  <1>4. TypeOK'
    BY <1>1, <1>2, <1>3
       DEF TypeOK, Typed, Moved, LockToFail, AlreadyProcessed, Locked
  <1>5. RowsHeld'
    BY <1>1, <1>2, <1>3
       DEF RowsHeld, Holds, At, Busy, Runs, Target, TypeOK, Typed, Moved,
           LockToFail, AlreadyProcessed, Locked
  <1>6. RetriesCost'
    BY <1>1, <1>2, <1>3
       DEF RetriesCost, At, Busy, TypeOK, Typed, Moved, LockToFail,
           AlreadyProcessed, Locked
  <1>7. FailureHasCause'
    BY <1>1, <1>2, <1>3
       DEF FailureHasCause, RetriesCost, At, Busy, TypeOK, Typed, Moved,
           LockToFail, AlreadyProcessed, Locked
  <1>8. Delivered'
    BY <1>1, <1>2, <1>3
       DEF Delivered, StillOnItsWay, At, Busy, Runs, Target, RowsHeld, TypeOK,
           Typed, Moved, LockToFail, AlreadyProcessed, Locked
  <1> QED BY <1>4, <1>5, <1>6, <1>7, <1>8 DEF IInv

\* A deposit is marked FAILED by a webhook that used up its retries.
LEMMA MarkFailedKeeps ==
    ASSUME IInv, NEW w \in Worker, MarkFailed(w)
    PROVE  IInv'
  <1>1. TypeOK /\ RowsHeld /\ RetriesCost /\ FailureHasCause /\ Delivered
    BY DEF IInv
  <1>2. Typed
    BY <1>1, TasksOf
  <1>3. Moved(w, "finish")
    BY <1>1, Moves DEF MarkFailed, At, Phase
  <1>4. TypeOK'
    BY <1>1, <1>2, <1>3 DEF TypeOK, Typed, Moved, MarkFailed
  <1>5. RowsHeld'
    BY <1>1, <1>2, <1>3
       DEF RowsHeld, Holds, At, Busy, Runs, Target, TypeOK, Typed, Moved,
           MarkFailed
  <1>6. RetriesCost'
    BY <1>1, <1>2, <1>3
       DEF RetriesCost, At, Busy, TypeOK, Typed, Moved, MarkFailed
  <1>7. FailureHasCause'
    BY <1>1, <1>2, <1>3
       DEF FailureHasCause, RetriesCost, At, Busy, TypeOK, Typed, Moved,
           MarkFailed
  <1>8. Delivered'
    BY <1>1, <1>2, <1>3
       DEF Delivered, StillOnItsWay, At, Busy, Runs, Target, RowsHeld, TypeOK,
           Typed, Moved, MarkFailed
  <1> QED BY <1>4, <1>5, <1>6, <1>7, <1>8 DEF IInv

\* Marking raises: the retries were used up already.
LEMMA MarkRaisesKeeps ==
    ASSUME IInv, NEW w \in Worker, MarkRaises(w)
    PROVE  IInv'
  <1>1. TypeOK /\ RowsHeld /\ RetriesCost /\ FailureHasCause /\ Delivered
    BY DEF IInv
  <1>2. Typed
    BY <1>1, TasksOf
  <1>3. Moved(w, "finish")
    BY <1>1, Moves DEF MarkRaises, At, Phase
  <1>4. Counted("database")
    BY <1>1, Counts DEF MarkRaises, Fault
  <1>5. faults["database"] > WebhookRetries
    BY <1>1 DEF RetriesCost, MarkRaises
  <1>6. TypeOK'
    BY <1>1, <1>2, <1>3, <1>4, <1>5
       DEF TypeOK, Typed, Moved, Counted, MarkRaises
  <1>7. RowsHeld'
    BY <1>1, <1>2, <1>3, <1>4, <1>5
       DEF RowsHeld, Holds, At, Busy, Runs, Target, TypeOK, Typed, Moved,
           Counted, MarkRaises
  <1>8. RetriesCost'
    BY <1>1, <1>2, <1>3, <1>4, <1>5
       DEF RetriesCost, At, Busy, TypeOK, Typed, Moved, Counted, MarkRaises
  <1>9. FailureHasCause'
    BY <1>1, <1>2, <1>3, <1>4, <1>5
       DEF FailureHasCause, RetriesCost, At, Busy, TypeOK, Typed, Moved,
           Counted, MarkRaises
  <1>10. Delivered'
    BY <1>1, <1>2, <1>3, <1>4, <1>5
       DEF Delivered, StillOnItsWay, At, Busy, Runs, Target, RowsHeld, TypeOK,
           Typed, Moved, Counted, MarkRaises
  <1> QED BY <1>6, <1>7, <1>8, <1>9, <1>10 DEF IInv

\* The sweep fails what is stuck and not locked.
LEMMA FailStuckKeeps ==
    ASSUME IInv, NEW w \in Worker, FailStuck(w)
    PROVE  IInv'
  <1>1. TypeOK /\ RowsHeld /\ RetriesCost /\ FailureHasCause /\ Delivered
    BY DEF IInv
  <1>2. Typed
    BY <1>1, TasksOf
  <1>3. Moved(w, "finish")
    BY <1>1, Moves DEF FailStuck, At, Phase
  <1>4. TypeOK'
    BY <1>1, <1>2, <1>3 DEF TypeOK, Typed, Moved, FailStuck, Stuck, Locked
  <1>5. RowsHeld'
    BY <1>1, <1>2, <1>3
       DEF RowsHeld, Holds, At, Busy, Runs, Target, TypeOK, Typed, Moved,
           FailStuck, Stuck, Locked
  <1>6. RetriesCost'
    BY <1>1, <1>2, <1>3
       DEF RetriesCost, At, Busy, TypeOK, Typed, Moved, FailStuck, Stuck, Locked
  <1>7. FailureHasCause'
    BY <1>1, <1>2, <1>3
       DEF FailureHasCause, RetriesCost, At, Busy, TypeOK, Typed, Moved,
           FailStuck, Stuck, Locked
  <1>8. Delivered'
    BY <1>1, <1>2, <1>3
       DEF Delivered, StillOnItsWay, At, Busy, Runs, Target, RowsHeld, TypeOK,
           Typed, Moved, FailStuck, Stuck, Locked
  <1> QED BY <1>4, <1>5, <1>6, <1>7, <1>8 DEF IInv

\* A retry is queued before its original is done with.
LEMMA RetryKeeps ==
    ASSUME IInv, NEW w \in Worker, Retry(w)
    PROVE  IInv'
  <1>1. TypeOK /\ RowsHeld /\ RetriesCost /\ FailureHasCause /\ Delivered
    BY DEF IInv
  <1>2. Typed
    BY <1>1, TasksOf
  <1>3. Moved(w, "finish")
    BY <1>1, Moves DEF Retry, At, Phase
  <1> DEFINE r == [worker[w].message EXCEPT !.retries = @ + 1]
  <1>4. /\ r \in Message /\ r.retries = worker[w].message.retries + 1
        /\ Runs(w, "webhook") => r \in Webhook /\ r.deposit = Target(w)
    BY <1>2, RetryOf DEF Retry, At, Runs, Target, Typed
  <1>5. Queued(r)
    BY <1>1, <1>4, Enqueues DEF Retry
  <1> HIDE DEF r
  <1>6. TypeOK'
    BY <1>1, <1>2, <1>3, <1>4, <1>5 DEF TypeOK, Typed, Moved, Queued, Retry
  <1>7. RowsHeld'
    BY <1>1, <1>2, <1>3, <1>4, <1>5
       DEF RowsHeld, Holds, At, Busy, Runs, Target, TypeOK, Typed, Moved,
           Queued, Retry
  <1>8. RetriesCost'
    BY <1>1, <1>2, <1>3, <1>4, <1>5
       DEF RetriesCost, At, Busy, TypeOK, Typed, Moved, Queued, Retry
  <1>9. FailureHasCause'
    BY <1>1, <1>2, <1>3, <1>4, <1>5
       DEF FailureHasCause, RetriesCost, At, Busy, TypeOK, Typed, Moved,
           Queued, Retry
  <1>10. Delivered'
    BY <1>1, <1>2, <1>3, <1>4, <1>5
       DEF Delivered, StillOnItsWay, At, Busy, Runs, Target, RowsHeld, TypeOK,
           Typed, Moved, Queued, Retry
  <1> QED BY <1>6, <1>7, <1>8, <1>9, <1>10 DEF IInv

\* A worker takes a message out of the queue.
LEMMA TakeKeeps ==
    ASSUME IInv, NEW w \in Worker, NEW m \in Message, Take(w, m)
    PROVE  IInv'
  <1>1. TypeOK /\ RowsHeld /\ RetriesCost /\ FailureHasCause /\ Delivered
    BY DEF IInv
  <1>2. Typed
    BY <1>1, TasksOf
  <1> DEFINE task == [message |-> m, phase |-> "start", found |-> {}]
  <1>3. /\ task \in Task /\ task # Idle /\ task.message = m /\ task.phase = "start"
    BY IdleAssumption DEF Task, Phase
  <1>4. /\ worker' = [worker EXCEPT ![w] = task]
        /\ queue' = [queue EXCEPT ![m] = @ - 1]
        /\ worker[w] = Idle /\ queue[m] > 0
        /\ UNCHANGED <<status, credited, stale, api, faults>>
    BY DEF Take, Busy
  <1>5. m \in Webhook => m.kind = "webhook"
    BY DEF Webhook
  <1> HIDE DEF task, Take
  <1>6. TypeOK'
    BY <1>1, <1>2, <1>3, <1>4, <1>5 DEF TypeOK, Typed, Busy
  <1>7. RowsHeld'
    BY <1>1, <1>2, <1>3, <1>4, <1>5
       DEF RowsHeld, Holds, At, Busy, Runs, Target, TypeOK, Typed, Busy
  <1>8. RetriesCost'
    BY <1>1, <1>2, <1>3, <1>4, <1>5
       DEF RetriesCost, At, Busy, TypeOK, Typed, Busy
  <1>9. FailureHasCause'
    BY <1>1, <1>2, <1>3, <1>4, <1>5
       DEF FailureHasCause, RetriesCost, At, Busy, TypeOK, Typed, Busy
  <1>10. Delivered'
    BY <1>1, <1>2, <1>3, <1>4, <1>5
       DEF Delivered, StillOnItsWay, At, Busy, Runs, Target, RowsHeld, TypeOK,
           Typed, Busy
  <1> QED BY <1>6, <1>7, <1>8, <1>9, <1>10 DEF IInv

\* The sweep reads what is stuck.
LEMMA CountStuckKeeps ==
    ASSUME IInv, NEW w \in Worker, CountStuck(w)
    PROVE  IInv'
  <1>1. TypeOK /\ RowsHeld /\ RetriesCost /\ FailureHasCause /\ Delivered
    BY DEF IInv
  <1>2. Typed
    BY <1>1, TasksOf
  <1>3. /\ worker' \in [Worker -> Task \cup {Idle}]
        /\ worker'[w] # Idle /\ worker'[w].message = worker[w].message
        /\ worker'[w].phase \in {"finish", "update"}
        /\ \A v \in Worker \ {w} : worker'[v] = worker[v]
    <2> DEFINE task == [worker[w] EXCEPT !.found = Stuck,
                          !.phase = IF Stuck = {} THEN "finish" ELSE "update"]
    <2>1. worker' = [worker EXCEPT ![w] = task]
      BY DEF CountStuck
    <2>2. /\ task \in Task /\ task.message = worker[w].message
          /\ task.phase \in {"finish", "update"}
      BY <1>1, <1>2 DEF Task, Phase, Stuck, TypeOK, CountStuck, At, Typed
    <2> HIDE DEF task
    <2> QED BY <1>1, <2>1, <2>2, IdleAssumption DEF TypeOK
  <1>4. TypeOK'
    BY <1>1, <1>2, <1>3 DEF TypeOK, Typed, CountStuck
  <1>5. RowsHeld'
    BY <1>1, <1>2, <1>3
       DEF RowsHeld, Holds, At, Busy, Runs, Target, TypeOK, Typed, CountStuck
  <1>6. RetriesCost'
    BY <1>1, <1>2, <1>3 DEF RetriesCost, At, Busy, TypeOK, Typed, CountStuck
  <1>7. FailureHasCause'
    BY <1>1, <1>2, <1>3
       DEF FailureHasCause, RetriesCost, At, Busy, TypeOK, Typed, CountStuck
  <1>8. Delivered'
    BY <1>1, <1>2, <1>3
       DEF Delivered, StillOnItsWay, At, Busy, Runs, Target, RowsHeld, TypeOK,
           Typed, CountStuck
  <1> QED BY <1>4, <1>5, <1>6, <1>7, <1>8 DEF IInv

\* A finished task is acknowledged: nothing counted on it.
LEMMA AcknowledgeKeeps ==
    ASSUME IInv, NEW w \in Worker, Acknowledge(w)
    PROVE  IInv'
  <1>1. TypeOK /\ RowsHeld /\ RetriesCost /\ FailureHasCause /\ Delivered
    BY DEF IInv
  <1>2. Typed
    BY <1>1, TasksOf
  <1>3. TypeOK'
    BY <1>1, <1>2 DEF TypeOK, Typed, Acknowledge
  <1>4. RowsHeld'
    BY <1>1, <1>2
       DEF RowsHeld, Holds, At, Busy, Runs, Target, TypeOK, Typed, Acknowledge
  <1>5. RetriesCost'
    BY <1>1, <1>2 DEF RetriesCost, At, Busy, TypeOK, Typed, Acknowledge
  <1>6. FailureHasCause'
    BY <1>1, <1>2
       DEF FailureHasCause, RetriesCost, At, Busy, TypeOK, Typed, Acknowledge
  <1>7. Delivered'
    BY <1>1, <1>2
       DEF Delivered, StillOnItsWay, At, Busy, Runs, Target, RowsHeld, TypeOK,
           Typed, Acknowledge
  <1> QED BY <1>3, <1>4, <1>5, <1>6, <1>7 DEF IInv

\* A worker is killed: its message is back in the queue.
LEMMA CrashKeeps ==
    ASSUME IInv, NEW w \in Worker, Crash(w)
    PROVE  IInv'
  <1>1. TypeOK /\ RowsHeld /\ RetriesCost /\ FailureHasCause /\ Delivered
    BY DEF IInv
  <1>2. Typed
    BY <1>1, TasksOf
  <1>3. Counted("crash")
    BY <1>1, Counts DEF Crash, Fault
  <1>4. Queued(worker[w].message)
    BY <1>1, <1>2, Enqueues DEF Crash, Typed
  <1>5. TypeOK'
    BY <1>1, <1>2, <1>3, <1>4 DEF TypeOK, Typed, Counted, Queued, Crash
  <1>6. RowsHeld'
    BY <1>1, <1>2, <1>3, <1>4
       DEF RowsHeld, Holds, At, Busy, Runs, Target, TypeOK, Typed, Counted,
           Queued, Crash
  <1>7. RetriesCost'
    BY <1>1, <1>2, <1>3, <1>4
       DEF RetriesCost, At, Busy, TypeOK, Typed, Counted, Queued, Crash
  <1>8. FailureHasCause'
    BY <1>1, <1>2, <1>3, <1>4
       DEF FailureHasCause, RetriesCost, At, Busy, TypeOK, Typed, Counted,
           Queued, Crash
  <1>9. Delivered'
    BY <1>1, <1>2, <1>3, <1>4
       DEF Delivered, StillOnItsWay, At, Busy, Runs, Target, RowsHeld, TypeOK,
           Typed, Counted, Queued, Crash
  <1> QED BY <1>5, <1>6, <1>7, <1>8, <1>9 DEF IInv

\* A task is killed for its time: its message is lost.
LEMMA TimeLimitKeeps ==
    ASSUME IInv, NEW w \in Worker, TimeLimit(w)
    PROVE  IInv'
  <1>1. TypeOK /\ RowsHeld /\ RetriesCost /\ FailureHasCause /\ Delivered
    BY DEF IInv
  <1>2. Typed
    BY <1>1, TasksOf
  <1>3. Counted("loss")
    BY <1>1, Counts DEF TimeLimit, Fault
  <1>4. TypeOK'
    BY <1>1, <1>2, <1>3 DEF TypeOK, Typed, Counted, TimeLimit
  <1>5. RowsHeld'
    BY <1>1, <1>2, <1>3
       DEF RowsHeld, Holds, At, Busy, Runs, Target, TypeOK, Typed, Counted,
           TimeLimit
  <1>6. RetriesCost'
    BY <1>1, <1>2, <1>3
       DEF RetriesCost, At, Busy, TypeOK, Typed, Counted, TimeLimit
  <1>7. FailureHasCause'
    BY <1>1, <1>2, <1>3
       DEF FailureHasCause, RetriesCost, At, Busy, TypeOK, Typed, Counted,
           TimeLimit
  <1>8. Delivered'
    BY <1>1, <1>2, <1>3
       DEF Delivered, StillOnItsWay, At, Busy, Runs, Target, RowsHeld, TypeOK,
           Typed, Counted, TimeLimit
  <1> QED BY <1>4, <1>5, <1>6, <1>7, <1>8 DEF IInv

-----------------------------------------------------------------------------
(* Every step keeps the invariant, and keeps the promise.                  *)

\* Nothing exists at first.
LEMMA Initially == Init => IInv
  <1> SUFFICES ASSUME Init
               PROVE  IInv
    OBVIOUS
  <1>1. TypeOK
    BY FaultsAssumption DEF Init, TypeOK
  <1>2. RowsHeld /\ RetriesCost /\ FailureHasCause /\ Delivered
    BY
       DEF Init, RowsHeld, Holds, At, Busy, RetriesCost, FailureHasCause,
           Delivered
  <1> QED BY <1>1, <1>2 DEF IInv

\* What a worker does with its message.
LEMMA WorkKeeps ==
    ASSUME IInv, NEW w \in Worker, Work(w) \/ Fails(w)
    PROVE  IInv'
  <1>1. CASE Work(w)
    BY <1>1, LockKeeps, ConfirmKeeps, RetryKeeps, ExhaustedKeeps,
           LockToFailKeeps,
       MarkFailedKeeps, CountStuckKeeps, FailStuckKeeps, AcknowledgeKeeps DEF Work
  <1>2. CASE Fails(w)
    BY <1>2, ConfirmUnheardKeeps, RaisesKeeps, MarkRaisesKeeps, CrashKeeps,
       TimeLimitKeeps DEF Fails
  <1> QED BY <1>1, <1>2

LEMMA StepKeeps == IInv /\ [Next]_vars => IInv'
  <1> SUFFICES ASSUME IInv, [Next]_vars
               PROVE  IInv'
    OBVIOUS
  <1>1. CASE \E d \in Deposit : Accept(d) \/ Publish(d) \/ PublishFails(d) \/ Ages(d)
    BY <1>1, AcceptKeeps, PublishKeeps, PublishFailsKeeps, AgesKeeps
  <1>2. CASE BeatFires
    BY <1>2, BeatKeeps
  <1>3. CASE \E w \in Worker : Work(w) \/ Fails(w) \/ \E m \in Message : Take(w, m)
    BY <1>3, WorkKeeps, TakeKeeps
  <1>4. CASE \E m \in Message : BrokerLoses(m)
    BY <1>4, BrokerKeeps
  <1>5. CASE UNCHANGED vars
    BY <1>5
       DEF vars, IInv, TypeOK, RowsHeld, Holds, RetriesCost, FailureHasCause,
       Delivered, StillOnItsWay, At, Busy, Runs, Target
  <1> QED BY <1>1, <1>2, <1>3, <1>4, <1>5 DEF Next

LEMMA Inductive == Spec => []IInv
  BY Initially, StepKeeps, PTL DEF Spec

\* Each step of a worker is a step of DepositPromise, or changes no status: a
\* deposit is settled only by who has its row, or while nobody has.
LEMMA WorkPromised ==
    ASSUME IInv, NEW w \in Worker, Work(w) \/ Fails(w)
    PROVE  [Promise!Next]_status
  <1>1. TypeOK /\ RowsHeld
    BY DEF IInv
  <1>2. CASE Confirm(w) \/ ConfirmUnheard(w)
    <2>1. Target(w) \in Deposit /\ status[Target(w)] = "PENDING"
      BY <1>1, <1>2, TasksOf
         DEF RowsHeld, Holds, Confirm, ConfirmUnheard, At, Typed
    <2>2. Promise!Complete(Target(w))
      BY <1>2, <2>1 DEF Confirm, ConfirmUnheard, Promise!Complete
    <2> QED BY <2>1, <2>2 DEF Promise!Next
  <1>3. CASE MarkFailed(w)
    <2>1. Target(w) \in Deposit /\ status[Target(w)] = "PENDING"
      BY <1>1, <1>3, TasksOf DEF RowsHeld, Holds, MarkFailed, At, Typed
    <2>2. Promise!GiveUp({Target(w)})
      BY <1>1, <1>3, <2>1 DEF MarkFailed, Promise!GiveUp, TypeOK
    <2>3. {Target(w)} \in SUBSET Deposit
      BY <2>1
    <2> QED BY <2>2, <2>3 DEF Promise!Next
  <1>4. CASE FailStuck(w)
    <2> DEFINE still == worker[w].found \cap Stuck
    <2>1. still \in SUBSET Deposit /\ \A d \in still : status[d] = "PENDING"
      BY <1>1 DEF Stuck, TypeOK
    <2>2. status' = [d \in Deposit |-> IF d \in still THEN "FAILED" ELSE status[d]]
      BY <1>4 DEF FailStuck
    <2> HIDE DEF still
    <2>3. Promise!GiveUp(still)
      BY <2>1, <2>2 DEF Promise!GiveUp
    <2> QED BY <2>1, <2>3 DEF Promise!Next
  <1>5. CASE \/ LockTransaction(w) \/ Retry(w) \/ Exhausted(w) \/ LockToFail(w)
             \/ CountStuck(w) \/ Acknowledge(w) \/ TaskRaises(w)
             \/ MarkRaises(w) \/ Crash(w) \/ TimeLimit(w)
    BY <1>5 DEF LockTransaction, Retry, Exhausted, LockToFail, CountStuck,
       Acknowledge, TaskRaises, MarkRaises, Crash, TimeLimit
  <1> QED BY <1>2, <1>3, <1>4, <1>5 DEF Work, Fails

LEMMA StepPromised == IInv /\ [Next]_vars => [Promise!Next]_status
  <1> SUFFICES ASSUME IInv, [Next]_vars
               PROVE  [Promise!Next]_status
    OBVIOUS
  <1>1. CASE \E d \in Deposit : Accept(d)
    <2>1. PICK d \in Deposit : Accept(d)
      BY <1>1
    <2>2. status[d] = Promise!Absent
      BY <2>1 DEF IInv, RowsHeld, Accept, Promise!Absent
    <2>3. Promise!Accept(d)
      BY <2>1, <2>2 DEF Accept, Promise!Accept
    <2> QED BY <2>3 DEF Promise!Next
  <1>2. CASE \/ \E d \in Deposit : Publish(d) \/ PublishFails(d) \/ Ages(d)
             \/ BeatFires
             \/ \E m \in Message : BrokerLoses(m) \/ \E w \in Worker : Take(w, m)
             \/ UNCHANGED vars
    BY <1>2 DEF Publish, PublishFails, Ages, BeatFires, BrokerLoses, Take, vars
  <1>3. CASE \E w \in Worker : Work(w) \/ Fails(w)
    BY <1>3, WorkPromised
  <1> QED BY <1>1, <1>2, <1>3 DEF Next

-----------------------------------------------------------------------------
(* The theorems.                                                           *)

\* The database, the broker and the workers have the types declared for them,
\* however long the queue grows.
THEOREM TypeCorrect == Spec => []TypeOK
  <1>1. IInv => TypeOK
    BY DEF IInv
  <1> QED BY Inductive, <1>1, PTL

\* Deposits implements DepositPromise: under retries, duplicates, sweeps and
\* killed workers a deposit settles once, and never leaves what it settled as.
THEOREM PromiseKept == Spec => KeepsPromise
  <1>1. Init => Promise!Init
    BY DEF Init, Promise!Init, Promise!Absent
  <1> QED BY Inductive, StepPromised, <1>1, PTL DEF Spec, KeepsPromise, Promise!Spec

\* A deposit that failed sat for an hour, or its retries were used up by as
\* many database failures.
THEOREM FailureCaused == Spec => []FailureHasCause
  <1>1. IInv => FailureHasCause
    BY DEF IInv
  <1> QED BY Inductive, <1>1, PTL

\* A killed worker costs no deposit its message.
THEOREM CrashesSurvived == Spec => []SurvivesCrashes
  <1>1. IInv => SurvivesCrashes
    BY DEF IInv, Delivered, StillOnItsWay, SurvivesCrashes, OnItsWay
  <1> QED BY Inductive, <1>1, PTL


=============================================================================
