---------------------------- MODULE Notifications ----------------------------
(***************************************************************************)
(* Telling sender and receiver of a transfer: what transfer_money does     *)
(* after its commit (app/services/wallet_service.py) and the Celery task   *)
(* send_transfer_notification (app/workers/notification_tasks.py).         *)
(*                                                                         *)
(* Delivery is at least once, as for deposits, but nothing in the database *)
(* says that a notification was sent: a task that runs twice sends twice.  *)
(***************************************************************************)
EXTENDS Integers, FiniteSets

CONSTANTS
    Transfer,   \* requests for transfers, by debit transaction
    Worker,     \* Celery worker processes
    MaxRetries, \* max_retries of the task (3 in the code)
    MaxFaults,  \* bound: faults of the environment in one behaviour
    Idle        \* a worker without a task

ASSUME BoundsAssumption == MaxRetries \in Nat /\ MaxFaults \in Nat

VARIABLES
    handler,  \* where each transfer's HTTP request is
    queue,    \* copies of each message the broker holds unassigned
    worker,   \* what each worker process runs
    sent,     \* how often each notification went out
    givenUp,  \* notifications reported as permanently failed
    errors,   \* auxiliary: attempts that raised, for each notification
    repeats,  \* auxiliary: events that make a notification go out once more
    lost,     \* auxiliary: notifications whose message the environment lost
    faults    \* faults so far

vars == <<handler, queue, worker, sent, givenUp, errors, repeats, lost, faults>>

tally == <<errors, repeats, lost, faults>>

-----------------------------------------------------------------------------
(* Types.                                                                  *)

Kind == {"transfer_sent", "transfer_received"}

Note == [transfer : Transfer, kind : Kind]

Message == [note : Note, retries : 0 .. MaxRetries]

\* `sent': the provider has the notification, the task has not returned yet.
Phase == {"start", "sent", "error", "finish"}

Task == [message : Message, phase : Phase]

ASSUME IdleAssumption == Idle \notin Task

\* `half' is between the two .delay calls.
Stage == {"new", "refused", "committed", "half", "answered", "raised"}

NoteOf(t, kind) == [transfer |-> t, kind |-> kind]

FirstTry(t, kind) == [note |-> NoteOf(t, kind), retries |-> 0]

Busy(w) == worker[w] # Idle
At(w, phase) == Busy(w) /\ worker[w].phase = phase
NoteAt(w) == worker[w].message.note

MoveTo(w, phase) == worker' = [worker EXCEPT ![w].phase = phase]

Enqueued(m) == [queue EXCEPT ![m] = @ + 1]

Count ==
    /\ faults < MaxFaults
    /\ faults' = faults + 1

Once(counter, n) == [counter EXCEPT ![n] = @ + 1]

-----------------------------------------------------------------------------
(* The request.                                                            *)

\* The transfer is made: both balances and both rows are committed.
Commit(t) ==
    /\ handler[t] = "new"
    /\ handler' = [handler EXCEPT ![t] = "committed"]
    /\ UNCHANGED <<queue, worker, sent, givenUp, tally>>

\* It is refused, or fails before the commit.
Refuse(t) ==
    /\ handler[t] = "new"
    /\ handler' = [handler EXCEPT ![t] = "refused"]
    /\ UNCHANGED <<queue, worker, sent, givenUp, tally>>

\* After the commit and the two cache deletes: .delay("transfer_sent")
PublishSent(t) ==
    /\ handler[t] = "committed"
    /\ queue' = Enqueued(FirstTry(t, "transfer_sent"))
    /\ handler' = [handler EXCEPT ![t] = "half"]
    /\ UNCHANGED <<worker, sent, givenUp, tally>>

\* .delay("transfer_received"), and the answer.
PublishReceived(t) ==
    /\ handler[t] = "half"
    /\ queue' = Enqueued(FirstTry(t, "transfer_received"))
    /\ handler' = [handler EXCEPT ![t] = "answered"]
    /\ UNCHANGED <<worker, sent, givenUp, tally>>

\* A cache delete or a .delay raises, or the process dies: the transfer stands,
\* the client sees an error, and who was not told yet never will be.
PublishRaises(t) ==
    /\ handler[t] \in {"committed", "half"}
    /\ Count
    /\ lost' = lost \cup {NoteOf(t, "transfer_received")}
                    \cup (IF handler[t] = "half" THEN {}
                          ELSE {NoteOf(t, "transfer_sent")})
    /\ handler' = [handler EXCEPT ![t] = "raised"]
    /\ UNCHANGED <<queue, worker, sent, givenUp, errors, repeats>>

-----------------------------------------------------------------------------
(* The task.                                                               *)

\* A worker takes a message, which stays unacknowledged until the task ends.
Take(w, m) ==
    /\ ~Busy(w)
    /\ queue[m] > 0
    /\ queue' = [queue EXCEPT ![m] = @ - 1]
    /\ worker' = [worker EXCEPT ![w] = [message |-> m, phase |-> "start"]]
    /\ UNCHANGED <<handler, sent, givenUp, tally>>

\* _execute_notification: out it goes, whether or not it went out before.
Send(w) ==
    /\ At(w, "start")
    /\ sent' = Once(sent, NoteAt(w))
    /\ MoveTo(w, "sent")
    /\ UNCHANGED <<handler, queue, givenUp, tally>>

\* The provider fails, or the soft time limit strikes, before the task could
\* send or before it could return.
TaskRaises(w) ==
    /\ At(w, "start") \/ At(w, "sent")
    /\ Count
    /\ errors' = Once(errors, NoteAt(w))
    /\ repeats' = IF At(w, "sent") THEN Once(repeats, NoteAt(w)) ELSE repeats
    /\ MoveTo(w, "error")
    /\ UNCHANGED <<handler, queue, sent, givenUp, lost>>

\* self.request.retries >= self.max_retries
Exhausted(m) == m.retries >= MaxRetries

\* raise self.retry(...): a copy with one more retry, before this one is acked.
Retry(w) ==
    /\ At(w, "error")
    /\ ~Exhausted(worker[w].message)
    /\ queue' = Enqueued([worker[w].message EXCEPT !.retries = @ + 1])
    /\ MoveTo(w, "finish")
    /\ UNCHANGED <<handler, sent, givenUp, tally>>

\* The result says `failed', and the task ends like any other.
GiveUp(w) ==
    /\ At(w, "error")
    /\ Exhausted(worker[w].message)
    /\ givenUp' = givenUp \cup {NoteAt(w)}
    /\ MoveTo(w, "finish")
    /\ UNCHANGED <<handler, queue, sent, tally>>

\* Fault: a task that has returned is queued again.
AcknowledgeAndKeep(w) ==
    /\ At(w, "sent") \/ At(w, "finish")
    /\ queue' = Enqueued(worker[w].message)
    /\ worker' = [worker EXCEPT ![w] = Idle]
    /\ UNCHANGED <<handler, sent, givenUp, tally>>

\* The task has returned, or raised Retry: the message is acknowledged.
Acknowledge(w) ==
    /\ At(w, "sent") \/ At(w, "finish")
    /\ worker' = [worker EXCEPT ![w] = Idle]
    /\ UNCHANGED <<handler, queue, sent, givenUp, tally>>

\* Fault: acknowledged on receipt, so that a killed worker loses its message.
CrashEarlyAck(w) ==
    /\ Busy(w)
    /\ Count
    /\ worker' = [worker EXCEPT ![w] = Idle]
    /\ UNCHANGED <<handler, queue, sent, givenUp, errors, repeats, lost>>

\* The worker process is killed, and its message goes back as it was.
Crash(w) ==
    /\ Busy(w)
    /\ Count
    /\ queue' = Enqueued(worker[w].message)
    /\ repeats' = IF At(w, "sent") \/ At(w, "finish")
                  THEN Once(repeats, NoteAt(w)) ELSE repeats
    /\ worker' = [worker EXCEPT ![w] = Idle]
    /\ UNCHANGED <<handler, sent, givenUp, errors, lost>>

\* The hard time limit kills the task; Celery acknowledges the message.
TimeLimit(w) ==
    /\ Busy(w)
    /\ Count
    /\ lost' = lost \cup {NoteAt(w)}
    /\ worker' = [worker EXCEPT ![w] = Idle]
    /\ UNCHANGED <<handler, queue, sent, givenUp, errors, repeats>>

\* The broker restarts without the tail of its append-only file.
BrokerLoses(m) ==
    /\ queue[m] > 0
    /\ Count
    /\ lost' = lost \cup {m.note}
    /\ queue' = [queue EXCEPT ![m] = @ - 1]
    /\ UNCHANGED <<handler, worker, sent, givenUp, errors, repeats>>

-----------------------------------------------------------------------------

Init ==
    /\ handler = [t \in Transfer |-> "new"]
    /\ queue = [m \in Message |-> 0]
    /\ worker = [w \in Worker |-> Idle]
    /\ sent = [n \in Note |-> 0]
    /\ givenUp = {}
    /\ errors = [n \in Note |-> 0]
    /\ repeats = [n \in Note |-> 0]
    /\ lost = {}
    /\ faults = 0

Publish(t) == PublishSent(t) \/ PublishReceived(t)

Work(w) == Send(w) \/ Retry(w) \/ GiveUp(w) \/ Acknowledge(w)

Fails(w) == TaskRaises(w) \/ Crash(w) \/ TimeLimit(w)

Next ==
    \/ \E t \in Transfer : Commit(t) \/ Refuse(t) \/ Publish(t) \/ PublishRaises(t)
    \/ \E w \in Worker : Work(w) \/ Fails(w) \/ \E m \in Message : Take(w, m)
    \/ \E m \in Message : BrokerLoses(m)

Spec == Init /\ [][Next]_vars

\* Handlers go on after their commit, live workers work, and the broker's list
\* hands out every message in its turn.
FairSpec ==
    /\ Spec
    /\ \A t \in Transfer : WF_vars(Publish(t))
    /\ \A w \in Worker : WF_vars(Work(w))
    /\ \A m \in Message : SF_vars(\E w \in Worker : Take(w, m))

-----------------------------------------------------------------------------
(* Correctness.                                                            *)

\* Types of the requests, the broker and the workers.
TypeOK ==
    /\ handler \in [Transfer -> Stage]
    /\ queue \in [Message -> Nat]
    /\ worker \in [Worker -> Task \cup {Idle}]
    /\ sent \in [Note -> Nat]
    /\ givenUp \subseteq Note /\ lost \subseteq Note
    /\ errors \in [Note -> 0 .. MaxFaults] /\ repeats \in [Note -> 0 .. MaxFaults]
    /\ faults \in 0 .. MaxFaults

\* Nobody is told of a transfer that was not made, however early its message
\* is taken: messages exist only after the commit.
ToldOnlyOfCommitted ==
    \A n \in Note : sent[n] > 0 =>
        handler[n.transfer] \in {"committed", "half", "answered", "raised"}

\* A notification goes out once, and again only for a worker killed between
\* sending and acknowledging or an error raised after the sending.
RepeatedOnlyByMishap == \A n \in Note : sent[n] <= 1 + repeats[n]

\* It is given up only after MaxRetries + 1 attempts that raised.
GivenUpAfterRetries == \A n \in givenUp : errors[n] > MaxRetries

OnItsWay(n) ==
    \/ \E m \in Message : m.note = n /\ queue[m] > 0
    \/ \E w \in Worker : Busy(w) /\ NoteAt(w) = n

\* Killed workers cost nobody a notification: once the transfer is answered,
\* each of the two was sent, is on its way, was given up, or was lost.
NotForgotten ==
    \A n \in Note : handler[n.transfer] = "answered" =>
        sent[n] > 0 \/ OnItsWay(n) \/ n \in givenUp \/ n \in lost

\* And it does not stay on its way: each side hears of the transfer in the end.
BothHear ==
    \A n \in Note : handler[n.transfer] = "answered" ~>
        (sent[n] > 0 \/ n \in givenUp \/ n \in lost)

=============================================================================
