------------------------- MODULE NotificationsProofs ------------------------
(***************************************************************************)
(* The safety of Notifications, for any transfers, workers, retry limit    *)
(* and number of faults.                                                   *)
(*                                                                         *)
(* Messages exist only for committed transfers (Made), retries never       *)
(* outnumber the attempts that raised (RetriesCost), and a notification of *)
(* an answered transfer is sent or in somebody's hands (Delivered).  How   *)
(* often one goes out is counted: what was sent, and the copies that may   *)
(* still be sent, are at most one more than its mishaps (Budget).          *)
(***************************************************************************)
EXTENDS Notifications, FiniteSetTheorems, TLAPS

Shapes ==
    /\ handler \in [Transfer -> Stage]
    /\ queue \in [Message -> Nat]
    /\ worker \in [Worker -> Task \cup {Idle}]
    /\ sent \in [Note -> Nat]
    /\ givenUp \subseteq Note /\ lost \subseteq Note
    /\ errors \in [Note -> Nat] /\ repeats \in [Note -> Nat]
    /\ faults \in 0 .. MaxFaults
    /\ \A n \in Note : errors[n] <= faults /\ repeats[n] <= faults

Committed == {"committed", "half", "answered", "raised"}

\* The handler has not come to the .delay of n.
Unpublished(n) ==
    \/ handler[n.transfer] \in {"new", "refused", "committed"}
    \/ handler[n.transfer] = "half" /\ n.kind = "transfer_received"

Made ==
    /\ \A m \in Message : queue[m] > 0 => handler[m.note.transfer] \in Committed
    /\ \A w \in Worker : Busy(w) => handler[NoteAt(w).transfer] \in Committed
    /\ ToldOnlyOfCommitted

\* Attempts that raised pay for retries.
RetriesCost ==
    /\ \A m \in Message : queue[m] > 0 => m.retries <= errors[m.note]
    /\ \A w \in Worker : Busy(w) => worker[w].message.retries <= errors[NoteAt(w)]
    /\ \A w \in Worker : At(w, "error") => worker[w].message.retries < errors[NoteAt(w)]
    /\ GivenUpAfterRetries

\* A worker that is not done with n.
InHand(n) == \E w \in Worker : (At(w, "start") \/ At(w, "error")) /\ NoteAt(w) = n

Queued(n) == \E m \in Message : m.note = n /\ queue[m] > 0

Delivered ==
    /\ \A w \in Worker : At(w, "sent") => sent[NoteAt(w)] > 0
    /\ \A n \in Note :
         \/ Unpublished(n) \/ handler[n.transfer] = "raised"
         \/ sent[n] > 0 \/ Queued(n) \/ InHand(n) \/ n \in givenUp \/ n \in lost

-----------------------------------------------------------------------------
(* What the helpers do.                                                    *)

LEMMA Parts ==
    /\ MaxFaults \in Nat /\ MaxRetries \in Nat
    /\ \A m \in Message : m.note \in Note /\ m.retries \in Nat /\ m.retries <= MaxRetries
    /\ \A n \in Note : n.transfer \in Transfer /\ n.kind \in Kind
    /\ \A task \in Task : task.message \in Message /\ task.phase \in Phase
  BY BoundsAssumption DEF Message, Note, Task

LEMMA FirstTries ==
    ASSUME NEW t \in Transfer, NEW kind \in Kind
    PROVE  /\ FirstTry(t, kind) \in Message /\ FirstTry(t, kind).retries = 0
           /\ FirstTry(t, kind).note = NoteOf(t, kind)
           /\ NoteOf(t, kind) \in Note
           /\ NoteOf(t, kind).transfer = t /\ NoteOf(t, kind).kind = kind
  BY BoundsAssumption DEF FirstTry, NoteOf, Message, Note

LEMMA RetryOf ==
    ASSUME NEW m \in Message, ~Exhausted(m)
    PROVE  LET r == [m EXCEPT !.retries = @ + 1]
           IN  r \in Message /\ r.note = m.note /\ r.retries = m.retries + 1
  BY BoundsAssumption DEF Message, Exhausted

LEMMA Working ==
    ASSUME Shapes, NEW w \in Worker, Busy(w)
    PROVE  /\ worker[w] \in Task /\ worker[w].message \in Message
           /\ worker[w].message.retries \in Nat
           /\ NoteAt(w) \in Note
  BY Parts DEF Shapes, Busy, NoteAt

\* Worker w goes on to phase p with its message, and no other worker moves.
Moved(w, p) ==
    /\ worker' \in [Worker -> Task \cup {Idle}]
    /\ worker'[w] # Idle
    /\ worker'[w].message = worker[w].message
    /\ worker'[w].phase = p
    /\ \A v \in Worker \ {w} : worker'[v] = worker[v]

LEMMA Moves ==
    ASSUME Shapes, NEW w \in Worker, Busy(w), NEW p \in Phase, MoveTo(w, p)
    PROVE  Moved(w, p)
  <1>1. worker[w] \in Task
    BY Working
  <1>2. worker'[w] = [worker[w] EXCEPT !.phase = p]
    BY DEF MoveTo, Shapes
  <1>3. worker'[w] \in Task
    BY <1>1, <1>2 DEF Task
  <1> QED BY <1>1, <1>2, <1>3, IdleAssumption DEF Moved, MoveTo, Shapes, Task

\* Worker w is free, and no other worker moves.
Freed(w) ==
    /\ worker' \in [Worker -> Task \cup {Idle}]
    /\ worker'[w] = Idle
    /\ \A v \in Worker \ {w} : worker'[v] = worker[v]

LEMMA Frees ==
    ASSUME Shapes, NEW w \in Worker, worker' = [worker EXCEPT ![w] = Idle]
    PROVE  Freed(w)
  BY DEF Freed, Shapes

\* One more copy of m, or one fewer.
Added(m) ==
    /\ queue' \in [Message -> Nat]
    /\ queue'[m] = queue[m] + 1
    /\ \A k \in Message \ {m} : queue'[k] = queue[k]

LEMMA Adds ==
    ASSUME Shapes, NEW m \in Message, queue' = Enqueued(m)
    PROVE  Added(m)
  BY DEF Added, Enqueued, Shapes

Taken(m) ==
    /\ queue[m] > 0
    /\ queue' \in [Message -> Nat]
    /\ queue'[m] = queue[m] - 1
    /\ \A k \in Message \ {m} : queue'[k] = queue[k]

LEMMA Takes ==
    ASSUME Shapes, NEW m \in Message, queue[m] > 0, queue' = [queue EXCEPT ![m] = @ - 1]
    PROVE  Taken(m)
  BY DEF Taken, Shapes

\* A counter goes up by one, at n.
Up(old, new, n) ==
    /\ new \in [Note -> Nat]
    /\ new[n] = old[n] + 1
    /\ \A k \in Note \ {n} : new[k] = old[k]

LEMMA Ups ==
    ASSUME NEW old \in [Note -> Nat], NEW n \in Note
    PROVE  Up(old, Once(old, n), n)
  BY DEF Up, Once

-----------------------------------------------------------------------------
(* What each step does, in terms of the helpers.                           *)

rest == <<sent, givenUp, errors, repeats, lost>>

OthersHandled(t) == \A u \in Transfer \ {t} : handler'[u] = handler[u]

\* Commit, Refuse or PublishRaises.
Requested(t) ==
    /\ \/ handler[t] = "new" /\ handler'[t] \in {"committed", "refused"}
       \/ handler[t] \in {"committed", "half"} /\ handler'[t] = "raised"
    /\ OthersHandled(t)
    /\ lost \subseteq lost'
    /\ UNCHANGED <<queue, worker, sent, givenUp, errors, repeats>>

Published(t, kind) ==
    /\ \/ kind = "transfer_sent" /\ handler[t] = "committed" /\ handler'[t] = "half"
       \/ kind = "transfer_received" /\ handler[t] = "half" /\ handler'[t] = "answered"
    /\ OthersHandled(t)
    /\ Added(FirstTry(t, kind))
    /\ UNCHANGED <<worker, rest>>

Picked(w, m) ==
    /\ ~Busy(w)
    /\ Taken(m)
    /\ worker' \in [Worker -> Task \cup {Idle}]
    /\ worker'[w] # Idle
    /\ worker'[w].message = m /\ worker'[w].phase = "start"
    /\ \A v \in Worker \ {w} : worker'[v] = worker[v]
    /\ UNCHANGED <<handler, rest>>

SentOut(w) ==
    /\ At(w, "start") /\ Moved(w, "sent")
    /\ Up(sent, sent', NoteAt(w))
    /\ UNCHANGED <<handler, queue, givenUp, errors, repeats, lost>>

Raised(w) ==
    /\ At(w, "start") \/ At(w, "sent")
    /\ Moved(w, "error")
    /\ Up(errors, errors', NoteAt(w))
    /\ IF At(w, "sent") THEN Up(repeats, repeats', NoteAt(w)) ELSE repeats' = repeats
    /\ UNCHANGED <<handler, queue, sent, givenUp, lost>>

Retried(w, r) ==
    /\ At(w, "error") /\ Moved(w, "finish")
    /\ r.note = NoteAt(w) /\ r.retries = worker[w].message.retries + 1
    /\ Added(r)
    /\ UNCHANGED <<handler, rest>>

GaveUp(w) ==
    /\ At(w, "error") /\ Moved(w, "finish")
    /\ worker[w].message.retries >= MaxRetries
    /\ givenUp' = givenUp \cup {NoteAt(w)}
    /\ UNCHANGED <<handler, queue, sent, errors, repeats, lost>>

Acked(w) ==
    /\ At(w, "sent") \/ At(w, "finish")
    /\ Freed(w)
    /\ UNCHANGED <<handler, queue, rest>>

Crashed(w) ==
    /\ Busy(w) /\ Freed(w)
    /\ Added(worker[w].message)
    /\ IF At(w, "sent") \/ At(w, "finish")
       THEN Up(repeats, repeats', NoteAt(w)) ELSE repeats' = repeats
    /\ UNCHANGED <<handler, sent, givenUp, errors, lost>>

TimedOut(w) ==
    /\ Busy(w) /\ Freed(w)
    /\ lost' = lost \cup {NoteAt(w)}
    /\ UNCHANGED <<handler, queue, sent, givenUp, errors, repeats>>

Dropped(m) ==
    /\ Taken(m)
    /\ lost' = lost \cup {m.note}
    /\ UNCHANGED <<handler, worker, sent, givenUp, errors, repeats>>

Step ==
    \/ UNCHANGED <<handler, queue, worker, rest>>
    \/ \E t \in Transfer : Requested(t) \/ \E kind \in Kind : Published(t, kind)
    \/ \E w \in Worker :
        \/ SentOut(w) \/ Raised(w) \/ GaveUp(w) \/ Acked(w) \/ Crashed(w) \/ TimedOut(w)
        \/ \E m \in Message : Picked(w, m) \/ Retried(w, m)
    \/ \E m \in Message : Dropped(m)

LEMMA Effects ==
    ASSUME Shapes, [Next]_vars
    PROVE  Step
  <1>1. CASE UNCHANGED vars
    BY <1>1 DEF vars, tally, rest, Step
  <1>2. ASSUME NEW t \in Transfer, Commit(t) \/ Refuse(t) \/ PublishRaises(t)
        PROVE  Requested(t)
    BY <1>2 DEF Commit, Refuse, PublishRaises, Requested, OthersHandled, tally, Shapes
  <1>3. ASSUME NEW t \in Transfer, PublishSent(t)
        PROVE  Published(t, "transfer_sent")
    <2>1. Added(FirstTry(t, "transfer_sent"))
      BY <1>3, FirstTries, Adds DEF PublishSent, Kind
    <2> QED BY <1>3, <2>1 DEF PublishSent, Published, OthersHandled, tally, rest, Shapes
  <1>4. ASSUME NEW t \in Transfer, PublishReceived(t)
        PROVE  Published(t, "transfer_received")
    <2>1. Added(FirstTry(t, "transfer_received"))
      BY <1>4, FirstTries, Adds DEF PublishReceived, Kind
    <2> QED BY <1>4, <2>1 DEF PublishReceived, Published, OthersHandled, tally, rest, Shapes
  <1>5. ASSUME NEW w \in Worker, NEW m \in Message, Take(w, m)
        PROVE  Picked(w, m)
    <2>1. [message |-> m, phase |-> "start"] \in Task
      BY DEF Task, Phase
    <2> QED BY <1>5, <2>1, Takes, IdleAssumption DEF Take, Picked, tally, rest, Shapes
  <1>6. ASSUME NEW w \in Worker, Send(w)
        PROVE  SentOut(w)
    <2>1. Moved(w, "sent")
      BY <1>6, Moves DEF Send, At, Phase
    <2>2. Up(sent, sent', NoteAt(w))
      BY <1>6, Working, Ups DEF Send, At, Shapes
    <2> QED BY <1>6, <2>1, <2>2 DEF Send, SentOut, tally
  <1>7. ASSUME NEW w \in Worker, TaskRaises(w)
        PROVE  Raised(w)
    <2>1. Moved(w, "error")
      BY <1>7, Moves DEF TaskRaises, At, Phase
    <2>2. NoteAt(w) \in Note
      BY <1>7, Working DEF TaskRaises, At
    <2>3. Up(errors, errors', NoteAt(w))
      BY <1>7, <2>2, Ups DEF TaskRaises, Shapes
    <2>4. Up(repeats, Once(repeats, NoteAt(w)), NoteAt(w))
      BY <2>2, Ups DEF Shapes
    <2> QED BY <1>7, <2>1, <2>3, <2>4 DEF TaskRaises, Raised
  <1>8. ASSUME NEW w \in Worker, Retry(w)
        PROVE  \E m \in Message : Retried(w, m)
    <2> DEFINE r == [worker[w].message EXCEPT !.retries = @ + 1]
    <2>1. worker[w].message \in Message
      BY <1>8, Working DEF Retry, At
    <2>2. r \in Message /\ r.note = NoteAt(w) /\ r.retries = worker[w].message.retries + 1
      BY <1>8, <2>1, RetryOf DEF Retry, NoteAt
    <2>3. Moved(w, "finish")
      BY <1>8, Moves DEF Retry, At, Phase
    <2>4. queue' = Enqueued(r)
      BY <1>8 DEF Retry
    <2> HIDE DEF r
    <2>5. Added(r)
      BY <2>2, <2>4, Adds
    <2>6. Retried(w, r)
      BY <1>8, <2>2, <2>3, <2>5 DEF Retry, Retried, tally, rest
    <2> QED BY <2>2, <2>6
  <1>9. ASSUME NEW w \in Worker, GiveUp(w)
        PROVE  GaveUp(w)
    <2>1. Moved(w, "finish")
      BY <1>9, Moves DEF GiveUp, At, Phase
    <2> QED BY <1>9, <2>1 DEF GiveUp, GaveUp, Exhausted, tally
  <1>10. ASSUME NEW w \in Worker, Acknowledge(w)
         PROVE  Acked(w)
    BY <1>10, Frees DEF Acknowledge, Acked, tally, rest
  <1>11. ASSUME NEW w \in Worker, Crash(w)
         PROVE  Crashed(w)
    <2>1. worker[w].message \in Message /\ NoteAt(w) \in Note
      BY <1>11, Working DEF Crash
    <2>2. Added(worker[w].message) /\ Freed(w)
      BY <1>11, <2>1, Adds, Frees DEF Crash
    <2>3. Up(repeats, Once(repeats, NoteAt(w)), NoteAt(w))
      BY <2>1, Ups DEF Shapes
    <2> QED BY <1>11, <2>2, <2>3 DEF Crash, Crashed
  <1>12. ASSUME NEW w \in Worker, TimeLimit(w)
         PROVE  TimedOut(w)
    BY <1>12, Frees DEF TimeLimit, TimedOut
  <1>13. ASSUME NEW m \in Message, BrokerLoses(m)
         PROVE  Dropped(m)
    BY <1>13, Takes DEF BrokerLoses, Dropped
  <1> QED BY <1>1, <1>2, <1>3, <1>4, <1>5, <1>6, <1>7, <1>8, <1>9, <1>10, <1>11, <1>12, <1>13
      DEF Next, Publish, Work, Fails, Step, Kind

\* Faults are counted, and pay for errors and repeats.
LEMMA FaultsPay ==
    ASSUME Shapes, [Next]_vars
    PROVE  /\ faults' \in 0 .. MaxFaults
           /\ \A n \in Note : errors'[n] <= faults' /\ repeats'[n] <= faults'
  <1>1. CASE UNCHANGED <<errors, repeats, faults>>
    BY <1>1 DEF Shapes
  <1>2. CASE Count /\ UNCHANGED <<errors, repeats>>
    BY <1>2, Parts DEF Count, Shapes
  <1>3. UNCHANGED vars => UNCHANGED <<errors, repeats, faults>>
    BY DEF vars, tally
  <1>4. ASSUME NEW t \in Transfer, Commit(t) \/ Refuse(t) \/ Publish(t) \/ PublishRaises(t)
        PROVE  \/ UNCHANGED <<errors, repeats, faults>>
               \/ Count /\ UNCHANGED <<errors, repeats>>
    BY <1>4 DEF Commit, Refuse, Publish, PublishSent, PublishReceived, PublishRaises, tally
  <1>5. ASSUME NEW w \in Worker, Work(w) \/ TimeLimit(w) \/ \E m \in Message : Take(w, m)
        PROVE  \/ UNCHANGED <<errors, repeats, faults>>
               \/ Count /\ UNCHANGED <<errors, repeats>>
    BY <1>5 DEF Work, Send, Retry, GiveUp, Acknowledge, TimeLimit, Take, tally
  <1>6. ASSUME NEW m \in Message, BrokerLoses(m)
        PROVE  Count /\ UNCHANGED <<errors, repeats>>
    BY <1>6 DEF BrokerLoses
  <1>7. ASSUME NEW w \in Worker, TaskRaises(w) \/ Crash(w)
        PROVE  /\ faults' \in 0 .. MaxFaults
               /\ \A n \in Note : errors'[n] <= faults' /\ repeats'[n] <= faults'
    <2>1. NoteAt(w) \in Note /\ Count
      BY <1>7, Working DEF TaskRaises, Crash, At
    <2>2. errors' = errors \/ errors' = Once(errors, NoteAt(w))
      BY <1>7 DEF TaskRaises, Crash
    <2>3. repeats' = repeats \/ repeats' = Once(repeats, NoteAt(w))
      BY <1>7 DEF TaskRaises, Crash
    <2>4. faults' \in 0 .. MaxFaults /\ faults' = faults + 1 /\ faults \in Nat
      BY <2>1, Parts DEF Count, Shapes
    <2>5. /\ \A n \in Note : errors[n] \in Nat /\ repeats[n] \in Nat
          /\ \A n \in Note : errors[n] <= faults /\ repeats[n] <= faults
      BY DEF Shapes
    <2>6. \A n \in Note : errors'[n] \in {errors[n], errors[n] + 1}
      BY <2>2, <2>1 DEF Once, Shapes
    <2>7. \A n \in Note : repeats'[n] \in {repeats[n], repeats[n] + 1}
      BY <2>3, <2>1 DEF Once, Shapes
    <2> QED BY <2>4, <2>5, <2>6, <2>7
  <1> QED BY <1>1, <1>2, <1>3, <1>4, <1>5, <1>6, <1>7 DEF Next, Fails

\* Shapes are kept.
LEMMA ShapesStep ==
    ASSUME Shapes, [Next]_vars
    PROVE  Shapes'
  <1>1. Step
    BY Effects
  <1>2. handler' \in [Transfer -> Stage]
    BY DEF Next, Commit, Refuse, Publish, PublishSent, PublishReceived, PublishRaises, Work, Fails,
       Send, TaskRaises, Retry, GiveUp, Acknowledge, Crash, TimeLimit, Take, BrokerLoses,
       vars, Shapes, Stage
  <1>3. queue' \in [Message -> Nat]
    BY <1>1 DEF Step, Requested, Published, SentOut, Raised, GaveUp, Acked, Crashed, TimedOut,
       Picked, Retried, Dropped, Added, Taken, Shapes
  <1>4. worker' \in [Worker -> Task \cup {Idle}]
    BY <1>1 DEF Step, Requested, Published, SentOut, Raised, GaveUp, Acked, Crashed, TimedOut,
       Picked, Retried, Dropped, Moved, Freed, Shapes
  <1>5. sent' \in [Note -> Nat] /\ errors' \in [Note -> Nat] /\ repeats' \in [Note -> Nat]
    BY <1>1 DEF Step, Requested, Published, SentOut, Raised, GaveUp, Acked, Crashed, TimedOut,
       Picked, Retried, Dropped, Up, rest, Shapes
  <1>6. givenUp' \subseteq Note
    BY <1>1, Working DEF Step, Requested, Published, SentOut, Raised, GaveUp, Acked, Crashed,
       TimedOut, Picked, Retried, Dropped, rest, At, Shapes
  <1>7. lost' \subseteq Note
    <2>1. ASSUME NEW t \in Transfer, PublishRaises(t)
          PROVE  lost' \subseteq Note
      BY <2>1, FirstTries DEF PublishRaises, Shapes, Kind
    <2>2. ASSUME NEW t \in Transfer, Commit(t) \/ Refuse(t) \/ Publish(t)
          PROVE  lost' = lost
      BY <2>2 DEF Commit, Refuse, Publish, PublishSent, PublishReceived, tally
    <2>3. ASSUME NEW w \in Worker, Work(w) \/ TaskRaises(w) \/ Crash(w) \/ \E m \in Message : Take(w, m)
          PROVE  lost' = lost
      BY <2>3 DEF Work, Send, Retry, GiveUp, Acknowledge, TaskRaises, Crash, Take, tally
    <2>4. ASSUME NEW w \in Worker, TimeLimit(w)
          PROVE  lost' \subseteq Note
      BY <2>4, Working DEF TimeLimit, Shapes
    <2>5. ASSUME NEW m \in Message, BrokerLoses(m)
          PROVE  lost' \subseteq Note
      BY <2>5, Parts DEF BrokerLoses, Shapes
    <2>6. UNCHANGED vars => lost' = lost
      BY DEF vars, tally
    <2> QED BY <2>1, <2>2, <2>3, <2>4, <2>5, <2>6 DEF Next, Fails, Shapes
  <1> QED BY <1>2, <1>3, <1>4, <1>5, <1>6, <1>7, FaultsPay DEF Shapes

-----------------------------------------------------------------------------
(* The invariants.                                                         *)

\* Handlers go forward, and what is committed stays so.
LEMMA HandlersForward ==
    ASSUME Shapes, Step, NEW t \in Transfer
    PROVE  /\ handler[t] \in Committed => handler'[t] \in Committed
           /\ handler[t] = "raised" => handler'[t] = "raised"
           /\ handler[t] = "answered" => handler'[t] = "answered"
  BY DEF Step, Requested, Published, SentOut, Raised, GaveUp, Acked, Crashed, TimedOut,
     Picked, Retried, Dropped, OthersHandled, Committed, Shapes

LEMMA MadeStep ==
    ASSUME Shapes, Shapes', Made, Step
    PROVE  Made'
  <1> USE Parts
  <1>1. \A t \in Transfer : handler[t] \in Committed => handler'[t] \in Committed
    BY HandlersForward
  <1>2. ASSUME NEW m \in Message, queue'[m] > 0
        PROVE  handler'[m.note.transfer] \in Committed
    <2>1. CASE queue[m] > 0
      BY <1>1, <2>1 DEF Made
    <2>2. CASE ~(queue[m] > 0)
      <3>1. ASSUME NEW k \in Message, Taken(k) PROVE FALSE
        BY <1>2, <2>2, <3>1 DEF Taken
      <3>2. ASSUME NEW k \in Message, Added(k) PROVE m = k
        BY <1>2, <2>2, <3>2 DEF Added
      <3>3. ASSUME NEW t \in Transfer, NEW kind \in Kind, Published(t, kind)
            PROVE  handler'[m.note.transfer] \in Committed
        BY <3>2, <3>3, FirstTries DEF Published, Committed
      <3>4. ASSUME NEW w \in Worker, Busy(w)
            PROVE  handler'[NoteAt(w).transfer] \in Committed /\ worker[w].message \in Message
        BY <1>1, <3>4, Working DEF Made
      <3>5. ASSUME NEW w \in Worker, Crashed(w) \/ \E r \in Message : Retried(w, r)
            PROVE  handler'[m.note.transfer] \in Committed
        BY <3>2, <3>4, <3>5 DEF Crashed, Retried, At, NoteAt
      <3> QED BY <1>2, <2>2, <3>1, <3>3, <3>5
          DEF Step, Requested, SentOut, Raised, GaveUp, Acked, TimedOut, Picked, Dropped
    <2> QED BY <2>1, <2>2
  <1>3. ASSUME NEW w \in Worker, Busy(w)'
        PROVE  handler'[NoteAt(w)'.transfer] \in Committed
    <2>1. CASE Busy(w) /\ worker'[w].message = worker[w].message
      BY <1>1, <2>1, Working DEF Made, NoteAt
    <2>2. ASSUME NEW m \in Message, Picked(w, m)
          PROVE  handler'[NoteAt(w)'.transfer] \in Committed
      BY <1>1, <2>2 DEF Made, Picked, Taken, NoteAt
    <2> QED BY <1>3, <2>1, <2>2
        DEF Step, Requested, Published, SentOut, Raised, GaveUp, Acked, Crashed, TimedOut,
            Picked, Retried, Dropped, Moved, Freed, Busy, At
  <1>4. ToldOnlyOfCommitted'
    <2>1. ASSUME NEW n \in Note, sent'[n] > 0
          PROVE  handler'[n.transfer] \in Committed
      <3>1. CASE sent[n] > 0
        BY <1>1, <3>1 DEF Made, ToldOnlyOfCommitted, Committed
      <3>2. ASSUME NEW w \in Worker, SentOut(w)
            PROVE  handler'[n.transfer] \in Committed
        BY <1>1, <2>1, <3>1, <3>2, Working DEF SentOut, Up, Made, At
      <3> QED BY <2>1, <3>1, <3>2
          DEF Step, Requested, Published, Raised, GaveUp, Acked, Crashed, TimedOut,
            Picked, Retried, Dropped, rest
    <2> QED BY <2>1 DEF ToldOnlyOfCommitted, Committed
  <1> QED BY <1>2, <1>3, <1>4 DEF Made

\* Errors are never taken back, so retries stay paid for.
LEMMA ErrorsGrow ==
    ASSUME Shapes, Shapes', Step, NEW n \in Note
    PROVE  errors[n] <= errors'[n] /\ errors[n] \in Nat /\ errors'[n] \in Nat
  <1>1. errors[n] \in Nat /\ errors'[n] \in Nat
    BY DEF Shapes
  <1>2. errors' = errors \/ \E w \in Worker : Up(errors, errors', NoteAt(w))
    BY DEF Step, Requested, Published, SentOut, Raised, GaveUp, Acked, Crashed, TimedOut,
       Picked, Retried, Dropped, rest
  <1> QED BY <1>1, <1>2 DEF Up

LEMMA RetriesStep ==
    ASSUME Shapes, Shapes', RetriesCost, Step
    PROVE  RetriesCost'
  <1> USE Parts, ErrorsGrow
  <1>1. ASSUME NEW m \in Message, queue'[m] > 0
        PROVE  m.retries <= errors'[m.note]
    <2>1. CASE queue[m] > 0
      BY <2>1 DEF RetriesCost
    <2>2. CASE ~(queue[m] > 0)
      <3>1. ASSUME NEW k \in Message, Taken(k) PROVE FALSE
        BY <1>1, <2>2, <3>1 DEF Taken
      <3>2. ASSUME NEW k \in Message, Added(k) PROVE m = k
        BY <1>1, <2>2, <3>2 DEF Added
      <3>3. ASSUME NEW t \in Transfer, NEW kind \in Kind, Published(t, kind)
            PROVE  m.retries = 0
        BY <3>2, <3>3, FirstTries DEF Published
      <3>4. ASSUME NEW w \in Worker, Crashed(w)
            PROVE  m.retries <= errors'[m.note]
        <4>1. worker[w].message \in Message /\ Busy(w)
          BY <3>4, Working DEF Crashed
        <4>2. m = worker[w].message
          BY <3>2, <3>4, <4>1 DEF Crashed
        <4> QED BY <4>1, <4>2 DEF RetriesCost, NoteAt
      <3>5. ASSUME NEW w \in Worker, NEW r \in Message, Retried(w, r)
            PROVE  m.retries <= errors'[m.note]
        <4>1. m = r /\ At(w, "error") /\ Busy(w)
          BY <3>2, <3>5 DEF Retried, At
        <4>2. worker[w].message.retries < errors[NoteAt(w)] /\ worker[w].message.retries \in Nat
          BY <4>1, Working DEF RetriesCost
        <4> QED BY <3>5, <4>1, <4>2 DEF Retried
      <3> QED BY <1>1, <2>2, <3>1, <3>3, <3>4, <3>5
          DEF Step, Requested, SentOut, Raised, GaveUp, Acked, TimedOut, Picked, Dropped
    <2> QED BY <2>1, <2>2
  <1>2. ASSUME NEW w \in Worker, Busy(w)'
        PROVE  worker'[w].message.retries <= errors'[NoteAt(w)']
    <2>1. CASE Busy(w) /\ worker'[w].message = worker[w].message
      BY <2>1, Working DEF RetriesCost, NoteAt
    <2>2. ASSUME NEW m \in Message, Picked(w, m)
          PROVE  worker'[w].message.retries <= errors'[NoteAt(w)']
      BY <2>2 DEF RetriesCost, Picked, Taken, NoteAt
    <2> QED BY <1>2, <2>1, <2>2
        DEF Step, Requested, Published, SentOut, Raised, GaveUp, Acked, Crashed, TimedOut,
            Picked, Retried, Dropped, Moved, Freed, Busy, At
  <1>3. ASSUME NEW w \in Worker, At(w, "error")'
        PROVE  worker'[w].message.retries < errors'[NoteAt(w)']
    <2>1. CASE At(w, "error") /\ worker'[w].message = worker[w].message
      BY <2>1, Working DEF RetriesCost, NoteAt, At
    <2>2. CASE Raised(w)
      <3>1. /\ worker'[w].message = worker[w].message /\ Busy(w) /\ NoteAt(w) \in Note
            /\ errors'[NoteAt(w)] = errors[NoteAt(w)] + 1
        BY <2>2, Working DEF Raised, Moved, Up, At
      <3>2. worker[w].message.retries <= errors[NoteAt(w)] /\ worker[w].message.retries \in Nat
        BY <3>1, Working DEF RetriesCost
      <3> QED BY <3>1, <3>2 DEF NoteAt
    <2> QED BY <1>3, <2>1, <2>2
        DEF Step, Requested, Published, SentOut, Raised, GaveUp, Acked, Crashed, TimedOut,
            Picked, Retried, Dropped, Moved, Freed, Busy, At
  <1>4. GivenUpAfterRetries'
    <2>1. ASSUME NEW n \in givenUp'
          PROVE  errors'[n] > MaxRetries
      <3>1. CASE n \in givenUp
        BY <3>1 DEF RetriesCost, GivenUpAfterRetries, Shapes
      <3>2. ASSUME NEW w \in Worker, GaveUp(w), n = NoteAt(w)
            PROVE  errors'[n] > MaxRetries
        <4>1. Busy(w)
          BY <3>2 DEF GaveUp, At
        <4>2. worker[w].message.retries < errors[n] /\ worker[w].message.retries \in Nat /\ n \in Note
          BY <3>2, <4>1, Working DEF GaveUp, RetriesCost
        <4> QED BY <3>2, <4>2 DEF GaveUp
      <3> QED BY <2>1, <3>1, <3>2
          DEF Step, Requested, Published, SentOut, Raised, GaveUp, Acked, Crashed, TimedOut,
            Picked, Retried, Dropped, rest
    <2> QED BY <2>1 DEF GivenUpAfterRetries
  <1> QED BY <1>1, <1>2, <1>3, <1>4 DEF RetriesCost

\* What is queued, in hand or settled stays so, or the step itself sees to n.
LEMMA DeliveredStep ==
    ASSUME Shapes, Shapes', Delivered, Step
    PROVE  Delivered'
  <1> USE Parts
  <1>1. \A n \in Note : sent[n] > 0 => sent'[n] > 0
    <2>1. sent' = sent \/ \E w \in Worker : Up(sent, sent', NoteAt(w))
      BY DEF Step, Requested, Published, SentOut, Raised, GaveUp, Acked, Crashed, TimedOut,
         Picked, Retried, Dropped, rest
    <2> QED BY <2>1 DEF Up, Shapes
  <1>2. givenUp \subseteq givenUp' /\ lost \subseteq lost'
    BY DEF Step, Requested, Published, SentOut, Raised, GaveUp, Acked, Crashed, TimedOut,
         Picked, Retried, Dropped, rest
  <1>3. ASSUME NEW w \in Worker, At(w, "sent")'
        PROVE  sent'[NoteAt(w)'] > 0
    <2>1. CASE At(w, "sent") /\ worker'[w].message = worker[w].message
      BY <1>1, <2>1, Working DEF Delivered, NoteAt, At
    <2>2. CASE SentOut(w)
      BY <2>2, Working DEF SentOut, Moved, Up, NoteAt, At, Shapes
    <2> QED BY <1>3, <2>1, <2>2
        DEF Step, Requested, Published, SentOut, Raised, GaveUp, Acked, Crashed, TimedOut,
            Picked, Retried, Dropped, Moved, Freed, Busy, At
  <1>4. ASSUME NEW n \in Note
        PROVE  (\/ Unpublished(n) \/ handler[n.transfer] = "raised"
                \/ sent[n] > 0 \/ Queued(n) \/ InHand(n) \/ n \in givenUp \/ n \in lost)'
    <2> DEFINE done == \/ Unpublished(n) \/ handler[n.transfer] = "raised"
                       \/ sent[n] > 0 \/ Queued(n) \/ InHand(n) \/ n \in givenUp \/ n \in lost
    <2>1. done
      BY DEF Delivered
    <2>2. CASE handler[n.transfer] = "raised" \/ sent[n] > 0 \/ n \in givenUp \/ n \in lost
      BY <1>1, <1>2, <2>2, HandlersForward
    <2>3. CASE Unpublished(n) /\ ~done'
      <3>1. PICK kind \in Kind : Published(n.transfer, kind)
        BY <2>3 DEF Step, Requested, Published, SentOut, Raised, GaveUp, Acked, Crashed, TimedOut,
            Picked, Retried, Dropped, OthersHandled, Unpublished, Kind
      <3>2. n.kind = kind
        BY <2>3, <3>1 DEF Published, Unpublished, Kind
      <3>3. FirstTry(n.transfer, kind) \in Message /\ FirstTry(n.transfer, kind).note = n
        BY <3>2, FirstTries DEF NoteOf, Note
      <3> QED BY <2>3, <3>1, <3>3 DEF Published, Added, Queued, Shapes
    <2>4. ASSUME NEW m \in Message, m.note = n, queue[m] > 0
          PROVE  done'
      <3>1. CASE queue'[m] > 0
        BY <2>4, <3>1 DEF Queued
      <3>2. CASE ~(queue'[m] > 0)
        <4>1. ASSUME NEW k \in Message, Taken(k) PROVE k = m
          BY <2>4, <3>2, <4>1 DEF Taken
        <4>2. ASSUME NEW k \in Message, Added(k) PROVE FALSE
          BY <2>4, <3>2, <4>2 DEF Added, Shapes
        <4>3. ASSUME NEW w \in Worker, NEW k \in Message, Picked(w, k)
              PROVE  InHand(n)'
          BY <2>4, <4>1, <4>3 DEF Picked, InHand, At, Busy, NoteAt
        <4>4. ASSUME NEW k \in Message, Dropped(k)
              PROVE  n \in lost'
          BY <2>4, <4>1, <4>4 DEF Dropped
        <4>5. ASSUME NEW w \in Worker PROVE ~Crashed(w)
          BY <4>2, Working DEF Crashed
        <4> QED BY <2>4, <3>2, <4>2, <4>3, <4>4, <4>5, FirstTries
            DEF Step, Requested, Published, SentOut, Raised, GaveUp, Acked, TimedOut, Retried
      <3> QED BY <3>1, <3>2
    <2>5. ASSUME NEW w \in Worker, At(w, "start") \/ At(w, "error"), NoteAt(w) = n
          PROVE  done'
      <3>1. Busy(w) /\ worker[w].message \in Message /\ worker[w].message.note = n
        BY <2>5, Working DEF At, NoteAt
      <3>2. CASE worker'[w] = worker[w]
        BY <2>5, <3>2 DEF InHand, At, Busy, NoteAt
      <3>3. CASE SentOut(w)
        BY <2>5, <3>3 DEF SentOut, Up, Shapes
      <3>4. CASE Raised(w)
        BY <2>5, <3>4 DEF Raised, Moved, InHand, At, Busy, NoteAt
      <3>5. ASSUME NEW r \in Message, Retried(w, r)
            PROVE  Queued(n)'
        BY <2>5, <3>5 DEF Retried, Added, Queued, Shapes
      <3>6. CASE GaveUp(w)
        BY <2>5, <3>6 DEF GaveUp
      <3>7. CASE Crashed(w)
        BY <3>1, <3>7 DEF Crashed, Added, Queued, Shapes
      <3>8. CASE TimedOut(w)
        BY <2>5, <3>8 DEF TimedOut
      <3> QED BY <2>5, <3>1, <3>2, <3>3, <3>4, <3>5, <3>6, <3>7, <3>8
          DEF Step, Requested, Published, SentOut, Raised, GaveUp, Acked, Crashed, TimedOut,
            Picked, Retried, Dropped, Moved, Freed, At
    <2> QED BY <2>1, <2>2, <2>3, <2>4, <2>5 DEF Queued, InHand
  <1> QED BY <1>3, <1>4 DEF Delivered

-----------------------------------------------------------------------------
(* How often a notification goes out.                                      *)

\* The queued copies of n, numbered.
Copies(n) ==
    {c \in Message \X Nat : c[1].note = n /\ 1 <= c[2] /\ c[2] <= queue[c[1]]}

Holds(w, n) == (At(w, "start") \/ At(w, "error")) /\ NoteAt(w) = n

Holders(n) == {w \in Worker : Holds(w, n)}

Bit(b) == IF b THEN 1 ELSE 0

\* Each copy and each worker that is not done may cost one more sending.
Budget ==
    \A n \in Note :
        /\ IsFiniteSet(Copies(n)) /\ IsFiniteSet(Holders(n))
        /\ sent[n] + Cardinality(Copies(n)) + Cardinality(Holders(n))
             <= Bit(~Unpublished(n)) + repeats[n]

LEMMA CopyAdded ==
    ASSUME Shapes, NEW m \in Message, Added(m), NEW n \in Note, IsFiniteSet(Copies(n))
    PROVE  /\ IsFiniteSet(Copies(n)')
           /\ Cardinality(Copies(n)') = Cardinality(Copies(n)) + Bit(m.note = n)
  <1> DEFINE c == <<m, queue[m] + 1>>
  <1>1. queue[m] \in Nat /\ queue'[m] = queue[m] + 1
    BY DEF Added, Shapes
  <1>2. \A k \in Message : queue[k] \in Nat /\ queue'[k] \in Nat /\ (k # m => queue'[k] = queue[k])
    BY DEF Added, Shapes
  <1>3. c \in Message \X Nat /\ c[1] = m /\ c[2] = queue[m] + 1
    BY <1>1
  <1>4. CASE m.note = n
    <2>1. c \notin Copies(n)
      BY <1>1, <1>3 DEF Copies
    <2>2. ASSUME NEW d \in Message \X Nat
          PROVE  d \in Copies(n)' <=> d \in Copies(n) \/ d = c
      BY <1>1, <1>2, <1>4 DEF Copies
    <2>3. Copies(n)' = Copies(n) \cup {c}
      BY <1>3, <2>2 DEF Copies
    <2> HIDE DEF c
    <2> QED BY <1>4, <2>1, <2>3, FS_AddElement DEF Bit
  <1>5. CASE m.note # n
    <2>1. Copies(n)' = Copies(n)
      BY <1>2, <1>5 DEF Copies
    <2> QED BY <1>5, <2>1, FS_CardinalityType DEF Bit
  <1> QED BY <1>4, <1>5

LEMMA CopyTaken ==
    ASSUME Shapes, NEW m \in Message, Taken(m), NEW n \in Note, IsFiniteSet(Copies(n))
    PROVE  /\ IsFiniteSet(Copies(n)')
           /\ Cardinality(Copies(n)') = Cardinality(Copies(n)) - Bit(m.note = n)
  <1> DEFINE c == <<m, queue[m]>>
  <1>1. queue[m] \in Nat /\ queue[m] > 0 /\ queue'[m] = queue[m] - 1
    BY DEF Taken, Shapes
  <1>2. \A k \in Message : queue[k] \in Nat /\ queue'[k] \in Nat /\ (k # m => queue'[k] = queue[k])
    BY DEF Taken, Shapes
  <1>3. c \in Message \X Nat /\ c[1] = m /\ c[2] = queue[m]
    BY <1>1
  <1>4. CASE m.note = n
    <2>1. c \in Copies(n)
      BY <1>1, <1>3, <1>4 DEF Copies
    <2>2. ASSUME NEW d \in Message \X Nat
          PROVE  d \in Copies(n)' <=> d \in Copies(n) /\ d # c
      BY <1>1, <1>2, <1>4 DEF Copies
    <2>3. Copies(n)' = Copies(n) \ {c}
      BY <1>3, <2>2 DEF Copies
    <2> HIDE DEF c
    <2> QED BY <1>4, <2>1, <2>3, FS_RemoveElement DEF Bit
  <1>5. CASE m.note # n
    <2>1. Copies(n)' = Copies(n)
      BY <1>2, <1>5 DEF Copies
    <2> QED BY <1>5, <2>1, FS_CardinalityType DEF Bit
  <1> QED BY <1>4, <1>5

\* Only worker w changes what it does.
Alone(w) == \A v \in Worker \ {w} : worker'[v] = worker[v]

LEMMA HolderChange ==
    ASSUME NEW w \in Worker, Alone(w), NEW n \in Note, IsFiniteSet(Holders(n))
    PROVE  /\ IsFiniteSet(Holders(n)')
           /\ Cardinality(Holders(n)')
                = Cardinality(Holders(n)) + Bit(Holds(w, n)') - Bit(Holds(w, n))
  <1>1. ASSUME NEW v \in Worker \ {w}
        PROVE  Holds(v, n)' <=> Holds(v, n)
    BY DEF Alone, Holds, At, Busy, NoteAt
  <1>2. Cardinality(Holders(n)) \in Nat
    BY FS_CardinalityType
  <1>3. CASE Holds(w, n)' <=> Holds(w, n)
    <2>1. Holders(n)' = Holders(n)
      BY <1>1, <1>3 DEF Holders
    <2> QED BY <1>2, <1>3, <2>1 DEF Bit
  <1>4. CASE Holds(w, n)' /\ ~Holds(w, n)
    <2>1. Holders(n)' = Holders(n) \cup {w} /\ w \notin Holders(n)
      BY <1>1, <1>4 DEF Holders
    <2> QED BY <1>2, <1>4, <2>1, FS_AddElement DEF Bit
  <1>5. CASE ~Holds(w, n)' /\ Holds(w, n)
    <2>1. Holders(n)' = Holders(n) \ {w} /\ w \in Holders(n)
      BY <1>1, <1>5 DEF Holders
    <2> QED BY <1>2, <1>5, <2>1, FS_RemoveElement DEF Bit
  <1> QED BY <1>3, <1>4, <1>5

LEMMA SameCopies ==
    ASSUME NEW n \in Note, UNCHANGED queue
    PROVE  Copies(n)' = Copies(n)
  BY DEF Copies

LEMMA SameHolders ==
    ASSUME NEW n \in Note, UNCHANGED worker
    PROVE  Holders(n)' = Holders(n)
  BY DEF Holders, Holds, At, Busy, NoteAt

LEMMA BudgetStep ==
    ASSUME Shapes, Shapes', Budget, Step
    PROVE  Budget'
  <1> SUFFICES ASSUME NEW n \in Note
               PROVE  /\ IsFiniteSet(Copies(n)') /\ IsFiniteSet(Holders(n)')
                      /\ sent'[n] + Cardinality(Copies(n)') + Cardinality(Holders(n)')
                           <= Bit(~Unpublished(n)') + repeats'[n]
    BY DEF Budget
  <1> DEFINE copies == Cardinality(Copies(n))
             holders == Cardinality(Holders(n))
             Kept == /\ IsFiniteSet(Copies(n)') /\ IsFiniteSet(Holders(n)')
                     /\ sent'[n] + copies' + holders' <= Bit(~Unpublished(n)') + repeats'[n]
  <1> HIDE DEF Kept
  <1> USE DEF Bit
  <1>1. /\ IsFiniteSet(Copies(n)) /\ IsFiniteSet(Holders(n))
        /\ sent[n] + copies + holders <= Bit(~Unpublished(n)) + repeats[n]
    BY DEF Budget
  <1>2. copies \in Nat /\ holders \in Nat
    BY <1>1, FS_CardinalityType
  <1>3. sent[n] \in Nat /\ sent'[n] \in Nat /\ repeats[n] \in Nat /\ repeats'[n] \in Nat
    BY DEF Shapes
  <1>4. UNCHANGED queue => IsFiniteSet(Copies(n)') /\ copies' = copies
    BY <1>1, SameCopies
  <1>5. UNCHANGED worker => IsFiniteSet(Holders(n)') /\ holders' = holders
    BY <1>1, SameHolders
  <1>6. ASSUME NEW m \in Message, Added(m)
        PROVE  IsFiniteSet(Copies(n)') /\ copies' = copies + Bit(m.note = n)
    BY <1>1, <1>6, CopyAdded
  <1>7. ASSUME NEW m \in Message, Taken(m)
        PROVE  IsFiniteSet(Copies(n)') /\ copies' = copies - Bit(m.note = n)
    BY <1>1, <1>7, CopyTaken
  <1>8. ASSUME NEW w \in Worker, Alone(w)
        PROVE  IsFiniteSet(Holders(n)') /\ holders' = holders + Bit(Holds(w, n)') - Bit(Holds(w, n))
    BY <1>1, <1>8, HolderChange
  <1>9. UNCHANGED handler => (Unpublished(n)' <=> Unpublished(n))
    BY DEF Unpublished
  <1>10. n.transfer \in Transfer /\ n.kind \in Kind
    BY Parts
  <1>11. \A w \in Worker : /\ Moved(w, "sent") \/ Moved(w, "finish") \/ Freed(w) => ~Holds(w, n)' /\ Alone(w)
                           /\ Moved(w, "error") => Alone(w) /\ (Holds(w, n)' <=> NoteAt(w) = n)
    BY DEF Moved, Freed, Holds, Alone, At, Busy, NoteAt
  <1>12. \A w \in Worker : /\ At(w, "start") \/ At(w, "error") => (Holds(w, n) <=> NoteAt(w) = n)
                           /\ ~(At(w, "start") \/ At(w, "error")) => ~Holds(w, n)
                           /\ At(w, "sent") \/ At(w, "finish") => ~Holds(w, n)
    BY DEF Holds, At
  <1> HIDE DEF copies, holders
  <1>13. ASSUME UNCHANGED <<handler, queue, worker, rest>> PROVE Kept
    BY <1>1, <1>13, <1>4, <1>5, <1>9 DEF rest, Kept
  <1>14. ASSUME NEW t \in Transfer, Requested(t) PROVE Kept
    <2>1. ~Unpublished(n) => ~Unpublished(n)'
      BY <1>10, <1>14 DEF Requested, OthersHandled, Unpublished, Kind
    <2> QED BY <1>1, <1>2, <1>3, <1>4, <1>5, <1>14, <2>1 DEF Requested, Kept
  <1>15. ASSUME NEW t \in Transfer, NEW kind \in Kind, Published(t, kind) PROVE Kept
    <2>1. copies' = copies + Bit(NoteOf(t, kind) = n) /\ IsFiniteSet(Copies(n)')
      BY <1>6, <1>15, FirstTries DEF Published
    <2>2. ~Unpublished(n) => ~Unpublished(n)'
      BY <1>10, <1>15 DEF Published, OthersHandled, Unpublished, Kind
    <2>3. NoteOf(t, kind) = n => Unpublished(n) /\ ~Unpublished(n)'
      BY <1>10, <1>15, FirstTries DEF Published, Unpublished, Kind
    <2> QED BY <1>1, <1>2, <1>3, <1>5, <1>15, <2>1, <2>2, <2>3 DEF Published, rest, Kept
  <1>16. ASSUME NEW w \in Worker, SentOut(w) PROVE Kept
    <2>1. NoteAt(w) \in Note /\ At(w, "start")
      BY <1>16, Working DEF SentOut, At
    <2>2. sent'[n] = sent[n] + Bit(NoteAt(w) = n)
      BY <1>3, <1>16, <2>1 DEF SentOut, Up
    <2>3. holders' = holders - Bit(NoteAt(w) = n) /\ IsFiniteSet(Holders(n)')
      BY <1>2, <1>8, <1>11, <1>12, <1>16, <2>1 DEF SentOut
    <2> QED BY <1>1, <1>2, <1>3, <1>4, <1>9, <1>16, <2>2, <2>3 DEF SentOut, Kept
  <1>17. ASSUME NEW w \in Worker, Raised(w) PROVE Kept
    <2>1. NoteAt(w) \in Note
      BY <1>17, Working DEF Raised, At
    <2>2. Alone(w) /\ (Holds(w, n)' <=> NoteAt(w) = n)
      BY <1>11, <1>17 DEF Raised
    <2>3. CASE At(w, "sent")
      <3>1. repeats'[n] = repeats[n] + Bit(NoteAt(w) = n)
        BY <1>3, <1>17, <2>1, <2>3 DEF Raised, Up
      <3>2. holders' = holders + Bit(NoteAt(w) = n) /\ IsFiniteSet(Holders(n)')
        BY <1>2, <1>8, <1>12, <2>2, <2>3
      <3> QED BY <1>1, <1>2, <1>3, <1>4, <1>9, <1>17, <3>1, <3>2 DEF Raised, Kept
    <2>4. CASE At(w, "start")
      <3>1. holders' = holders /\ IsFiniteSet(Holders(n)')
        BY <1>2, <1>8, <1>12, <2>2, <2>4
      <3>2. repeats' = repeats
        BY <1>17, <2>4 DEF Raised, At
      <3> QED BY <1>1, <1>4, <1>9, <1>17, <3>1, <3>2 DEF Raised, Kept
    <2> QED BY <1>17, <2>3, <2>4 DEF Raised
  <1>18. ASSUME NEW w \in Worker, NEW r \in Message, Retried(w, r) PROVE Kept
    <2>1. copies' = copies + Bit(NoteAt(w) = n) /\ IsFiniteSet(Copies(n)')
      BY <1>6, <1>18 DEF Retried
    <2>2. holders' = holders - Bit(NoteAt(w) = n) /\ IsFiniteSet(Holders(n)')
      BY <1>2, <1>8, <1>11, <1>12, <1>18 DEF Retried
    <2> QED BY <1>1, <1>2, <1>3, <1>9, <1>18, <2>1, <2>2 DEF Retried, rest, Kept
  <1>19. ASSUME NEW w \in Worker, GaveUp(w) PROVE Kept
    <2>1. holders' = holders - Bit(NoteAt(w) = n) /\ IsFiniteSet(Holders(n)')
      BY <1>2, <1>8, <1>11, <1>12, <1>19 DEF GaveUp
    <2> QED BY <1>1, <1>2, <1>3, <1>4, <1>9, <1>19, <2>1 DEF GaveUp, Kept
  <1>20. ASSUME NEW w \in Worker, Acked(w) PROVE Kept
    <2>1. holders' = holders /\ IsFiniteSet(Holders(n)')
      BY <1>2, <1>8, <1>11, <1>12, <1>20 DEF Acked
    <2> QED BY <1>1, <1>4, <1>9, <1>20, <2>1 DEF Acked, rest, Kept
  <1>21. ASSUME NEW w \in Worker, TimedOut(w) PROVE Kept
    <2>1. holders' = holders - Bit(Holds(w, n)) /\ IsFiniteSet(Holders(n)')
      BY <1>2, <1>8, <1>11, <1>21 DEF TimedOut
    <2> QED BY <1>1, <1>2, <1>3, <1>4, <1>9, <1>21, <2>1 DEF TimedOut, Kept
  <1>22. ASSUME NEW w \in Worker, Crashed(w) PROVE Kept
    <2>1. worker[w].message \in Message /\ NoteAt(w) \in Note /\ worker[w].phase \in Phase
      BY <1>22, Working, Parts DEF Crashed
    <2>2. copies' = copies + Bit(NoteAt(w) = n) /\ IsFiniteSet(Copies(n)')
      BY <1>6, <1>22, <2>1 DEF Crashed, NoteAt
    <2>3. holders' = holders - Bit(Holds(w, n)) /\ IsFiniteSet(Holders(n)')
      BY <1>2, <1>8, <1>11, <1>22 DEF Crashed
    <2>4. CASE At(w, "sent") \/ At(w, "finish")
      <3>1. repeats'[n] = repeats[n] + Bit(NoteAt(w) = n)
        BY <1>3, <1>22, <2>1, <2>4 DEF Crashed, Up
      <3>2. ~Holds(w, n)
        BY <1>12, <2>4
      <3> QED BY <1>1, <1>2, <1>3, <1>9, <1>22, <2>2, <2>3, <3>1, <3>2 DEF Crashed, Kept
    <2>5. CASE ~(At(w, "sent") \/ At(w, "finish"))
      <3>1. At(w, "start") \/ At(w, "error")
        BY <1>22, <2>1, <2>5 DEF Crashed, At, Phase
      <3>2. repeats' = repeats /\ (Holds(w, n) <=> NoteAt(w) = n)
        BY <1>12, <1>22, <2>5, <3>1 DEF Crashed
      <3> QED BY <1>1, <1>2, <1>3, <1>9, <1>22, <2>2, <2>3, <3>2 DEF Crashed, Kept
    <2> QED BY <2>4, <2>5
  <1>23. ASSUME NEW w \in Worker, NEW m \in Message, Picked(w, m) PROVE Kept
    <2>1. copies' = copies - Bit(m.note = n) /\ IsFiniteSet(Copies(n)')
      BY <1>7, <1>23 DEF Picked
    <2>2. Alone(w) /\ ~Holds(w, n) /\ (Holds(w, n)' <=> m.note = n)
      BY <1>23 DEF Picked, Alone, Holds, At, Busy, NoteAt
    <2>3. holders' = holders + Bit(m.note = n) /\ IsFiniteSet(Holders(n)')
      BY <1>2, <1>8, <2>2
    <2> QED BY <1>1, <1>2, <1>3, <1>9, <1>23, <2>1, <2>3 DEF Picked, rest, Kept
  <1>24. ASSUME NEW m \in Message, Dropped(m) PROVE Kept
    <2>1. copies' = copies - Bit(m.note = n) /\ IsFiniteSet(Copies(n)')
      BY <1>7, <1>24 DEF Dropped
    <2> QED BY <1>1, <1>2, <1>3, <1>5, <1>9, <1>24, <2>1 DEF Dropped, Kept
  <1>25. Kept
    BY <1>13, <1>14, <1>15, <1>16, <1>17, <1>18, <1>19, <1>20, <1>21, <1>22, <1>23, <1>24 DEF Step
  <1> QED BY <1>25 DEF Kept, copies, holders

-----------------------------------------------------------------------------

IInv == Shapes /\ Made /\ RetriesCost /\ Delivered /\ Budget

LEMMA InitIInv ==
    ASSUME Init
    PROVE  IInv
  <1> USE Parts DEF Init
  <1>1. Shapes
    BY DEF Shapes, Stage
  <1>2. Made
    BY DEF Made, ToldOnlyOfCommitted, Busy
  <1>3. RetriesCost
    BY DEF RetriesCost, GivenUpAfterRetries, Busy, At
  <1>4. Delivered
    BY DEF Delivered, Unpublished, Busy, At
  <1>5. ASSUME NEW n \in Note
        PROVE  Copies(n) = {} /\ Holders(n) = {} /\ sent[n] = 0 /\ repeats[n] = 0
    BY DEF Copies, Holders, Holds, At, Busy
  <1>6. IsFiniteSet({}) /\ Cardinality({}) = 0
    BY FS_EmptySet
  <1>7. ASSUME NEW n \in Note
        PROVE  /\ IsFiniteSet(Copies(n)) /\ IsFiniteSet(Holders(n))
               /\ sent[n] + Cardinality(Copies(n)) + Cardinality(Holders(n))
                    <= Bit(~Unpublished(n)) + repeats[n]
    <2> HIDE DEF Init
    <2>1. /\ IsFiniteSet(Copies(n)) /\ Cardinality(Copies(n)) = 0
          /\ IsFiniteSet(Holders(n)) /\ Cardinality(Holders(n)) = 0
      BY <1>5, <1>6, Zenon
    <2>2. Bit(~Unpublished(n)) \in {0, 1}
      BY DEF Bit
    <2> QED BY <1>5, <2>1, <2>2
  <1>8. Budget
    BY <1>7 DEF Budget
  <1> QED BY <1>1, <1>2, <1>3, <1>4, <1>8 DEF IInv

\* The inductive invariant.
THEOREM NotificationsInductive == Spec => []IInv
  <1>1. ASSUME IInv, [Next]_vars
        PROVE  IInv'
    BY <1>1, Effects, ShapesStep, MadeStep, RetriesStep, DeliveredStep, BudgetStep DEF IInv
  <1> QED BY <1>1, InitIInv, PTL DEF Spec

\* The requests, the broker and the workers have the values the code gives them.
THEOREM NotificationTypesCorrect == Spec => []TypeOK
  <1>1. ASSUME NEW f \in [Note -> Nat], \A n \in Note : f[n] <= faults, Shapes
        PROVE  f \in [Note -> 0 .. MaxFaults]
    <2>1. \A n \in Note : f[n] \in 0 .. MaxFaults
      BY <1>1, Parts DEF Shapes
    <2> QED BY <2>1
  <1>2. IInv => TypeOK
    BY <1>1 DEF IInv, Shapes, TypeOK
  <1> QED BY <1>2, NotificationsInductive, PTL

\* Nobody is told of a transfer that was not made.
THEOREM NotificationsTruthful == Spec => []ToldOnlyOfCommitted
  <1>1. IInv => ToldOnlyOfCommitted
    BY DEF IInv, Made
  <1> QED BY <1>1, NotificationsInductive, PTL

\* Each sending after the first is owed to a crash or an error of its own.
THEOREM RepeatsPaidFor == Spec => []RepeatedOnlyByMishap
  <1>1. ASSUME IInv, NEW n \in Note
        PROVE  sent[n] <= 1 + repeats[n]
    <2>1. /\ sent[n] + Cardinality(Copies(n)) + Cardinality(Holders(n))
               <= Bit(~Unpublished(n)) + repeats[n]
          /\ IsFiniteSet(Copies(n)) /\ IsFiniteSet(Holders(n))
      BY <1>1 DEF IInv, Budget
    <2>2. Cardinality(Copies(n)) \in Nat /\ Cardinality(Holders(n)) \in Nat
      BY <2>1, FS_CardinalityType
    <2>3. sent[n] \in Nat /\ repeats[n] \in Nat
      BY <1>1 DEF IInv, Shapes
    <2> QED BY <2>1, <2>2, <2>3 DEF Bit
  <1>2. IInv => RepeatedOnlyByMishap
    BY <1>1 DEF RepeatedOnlyByMishap
  <1> QED BY <1>2, NotificationsInductive, PTL

\* A notification is given up only when every attempt it is allowed has raised.
THEOREM AllAttemptsMade == Spec => []GivenUpAfterRetries
  <1>1. IInv => GivenUpAfterRetries
    BY DEF IInv, RetriesCost
  <1> QED BY <1>1, NotificationsInductive, PTL

\* After the answer, each notification is sent, on its way, given up or lost.
THEOREM NobodyForgotten == Spec => []NotForgotten
  <1>1. ASSUME IInv, NEW n \in Note, handler[n.transfer] = "answered"
        PROVE  sent[n] > 0 \/ OnItsWay(n) \/ n \in givenUp \/ n \in lost
    <2>1. sent[n] > 0 \/ Queued(n) \/ InHand(n) \/ n \in givenUp \/ n \in lost
      BY <1>1 DEF IInv, Delivered, Unpublished
    <2> QED BY <2>1 DEF Queued, InHand, OnItsWay, At
  <1>2. IInv => NotForgotten
    BY <1>1 DEF NotForgotten
  <1> QED BY <1>2, NotificationsInductive, PTL

=============================================================================
