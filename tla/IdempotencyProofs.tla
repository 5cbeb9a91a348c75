-------------------------- MODULE IdempotencyProofs --------------------------
(***************************************************************************)
(* A key pays at most once more than it has had mishaps, and replays are   *)
(* faithful: for any keys, bodies, requests and number of faults.          *)
(*                                                                         *)
(* The argument counts who may still pay.  Tokens: the running requests of *)
(* a key, and one more if its lock is free to take, are at most one more   *)
(* than its mishaps.  Budget: what is paid, and what those who may still   *)
(* pay could add, is at most that too.  While a live record exists only    *)
(* the requests already past their check may pay; Tokens is what bounds    *)
(* the payments of the key's next life when the record expires.            *)
(***************************************************************************)
EXTENDS Idempotency, FiniteSetTheorems, TLAPS

Shapes ==
    /\ lock \subseteq Key
    /\ record \in [Key -> Record \cup {NoRecord}]
    /\ attempt \in [Attempt -> Handler \cup {Unsent}]
    /\ paid \in [Key -> Nat]
    /\ mishaps \in [Key -> Nat]

\* Running requests that are about to pay, and those that have not just paid.
Handling(k) == {a \in Running(k) : At(a, "handle")}
Owing(k) == {a \in Running(k) : ~At(a, "store")}

Held(k) == k \in lock /\ \E a \in Running(k) : attempt[a].holds

\* One if nothing but time keeps another request from the lock.
Free(k) == IF Held(k) THEN 0 ELSE 1

MayPay(k) ==
    IF Live(k) THEN Cardinality(Handling(k)) ELSE Cardinality(Owing(k)) + Free(k)

Tokens ==
    \A k \in Key : /\ IsFiniteSet(Running(k))
                   /\ Cardinality(Running(k)) + Free(k) <= 1 + mishaps[k]

Budget == \A k \in Key : paid[k] + MayPay(k) <= 1 + mishaps[k]

\* Request b asked for `body' under key k, paid, and is done with that.
Paid(b, k, body) ==
    /\ attempt[b] # Unsent
    /\ KeyOf(b) = k
    /\ attempt[b].body = body
    /\ attempt[b].answer \in {b, "none"}
    /\ At(b, "release") \/ At(b, "ended")

RecordsFaithful ==
    \A k \in Key : record[k] # NoRecord => Paid(record[k].by, k, record[k].body)

AnswersFaithful ==
    \A a \in Attempt : attempt[a] # Unsent =>
        /\ At(a, "store") => attempt[a].answer = a
        /\ attempt[a].answer \in Attempt \ {a} =>
             Paid(attempt[a].answer, KeyOf(a), attempt[a].body)

IInv == Shapes /\ Tokens /\ Budget

FInv == Shapes /\ RecordsFaithful /\ AnswersFaithful

-----------------------------------------------------------------------------
(* Counting.                                                               *)

LEMMA SubsetCount ==
    ASSUME NEW S, IsFiniteSet(S), NEW T, T \subseteq S
    PROVE  /\ IsFiniteSet(T) /\ Cardinality(T) \in Nat /\ Cardinality(S) \in Nat
           /\ Cardinality(T) <= Cardinality(S)
  BY FS_Subset, FS_CardinalityType

LEMMA OneMore ==
    ASSUME NEW S, IsFiniteSet(S), NEW a, NEW T, T \subseteq S \cup {a}
    PROVE  /\ IsFiniteSet(T) /\ Cardinality(T) \in Nat /\ Cardinality(S) \in Nat
           /\ Cardinality(T) <= Cardinality(S) + 1
  <1>1. /\ IsFiniteSet(S \cup {a}) /\ Cardinality(S) \in Nat
        /\ Cardinality(S \cup {a}) <= Cardinality(S) + 1
    BY FS_AddElement, FS_CardinalityType
  <1> QED BY <1>1, SubsetCount

LEMMA OneLess ==
    ASSUME NEW S, IsFiniteSet(S), NEW a \in S, NEW T, T \subseteq S \ {a}
    PROVE  /\ IsFiniteSet(T) /\ Cardinality(T) \in Nat /\ Cardinality(S) \in Nat
           /\ Cardinality(T) <= Cardinality(S) - 1
  <1>1. /\ IsFiniteSet(S \ {a}) /\ Cardinality(S) \in Nat
        /\ Cardinality(S \ {a}) = Cardinality(S) - 1
    BY FS_RemoveElement, FS_CardinalityType
  <1> QED BY <1>1, SubsetCount

\* The counts are numbers, and the sets are nested.
LEMMA Numbers ==
    ASSUME Shapes, Tokens, NEW k \in Key
    PROVE  /\ IsFiniteSet(Running(k))
           /\ IsFiniteSet(Handling(k)) /\ IsFiniteSet(Owing(k))
           /\ Cardinality(Running(k)) \in Nat
           /\ Cardinality(Handling(k)) \in Nat /\ Cardinality(Owing(k)) \in Nat
           /\ Cardinality(Handling(k)) <= Cardinality(Owing(k))
           /\ Cardinality(Owing(k)) <= Cardinality(Running(k))
           /\ Free(k) \in {0, 1}
           /\ paid[k] \in Nat /\ mishaps[k] \in Nat
  <1>1. IsFiniteSet(Running(k)) /\ Owing(k) \subseteq Running(k)
    BY DEF Tokens, Owing
  <1>2. Handling(k) \subseteq Owing(k)
    BY DEF Handling, Owing, At
  <1>3. IsFiniteSet(Owing(k))
    BY <1>1, SubsetCount
  <1> QED BY <1>1, <1>2, <1>3, SubsetCount DEF Free, Shapes

-----------------------------------------------------------------------------
(* What a step of one request changes.                                     *)

\* Request a goes to step s with an answer, and keeps the rest.
Moved(a, s, answer) ==
    /\ attempt' \in [Attempt -> Handler \cup {Unsent}]
    /\ attempt'[a] \in Handler /\ attempt'[a] # Unsent
    /\ attempt'[a].key = attempt[a].key /\ attempt'[a].body = attempt[a].body
    /\ attempt'[a].holds = attempt[a].holds
    /\ attempt'[a].step = s /\ attempt'[a].answer = answer
    /\ \A b \in Attempt \ {a} : attempt'[b] = attempt[b]
    /\ KeyOf(a) \in Key /\ attempt[a].body \in Body

LEMMA Moves ==
    ASSUME Shapes, NEW a \in Attempt, attempt[a] # Unsent, NEW s \in Step,
           NEW answer \in Attempt \cup Failure, Proceed(a, s, answer)
    PROVE  Moved(a, s, answer)
  <1>1. attempt[a] \in Handler
    BY DEF Shapes
  <1>2. attempt'[a] = [attempt[a] EXCEPT !.step = s, !.answer = answer]
    BY DEF Proceed, Shapes
  <1>3. attempt'[a] \in Handler
    BY <1>1, <1>2 DEF Handler
  <1> QED BY <1>1, <1>2, <1>3, NoneAssumption DEF Moved, Proceed, Shapes, Handler, KeyOf

\* What that does to the counts of key j.
Recounted(a, s, j) ==
    /\ IsFiniteSet(Running(j)')
    /\ Cardinality(Running(j)') \in Nat /\ Cardinality(Handling(j)') \in Nat
    /\ Cardinality(Owing(j)') \in Nat /\ Free(j)' \in {0, 1}
    /\ Cardinality(Running(j)') <= Cardinality(Running(j))
    /\ s # "handle" => Cardinality(Handling(j)') <= Cardinality(Handling(j))
    /\ ~At(a, "store") \/ s \in {"store", "ended"} =>
         Cardinality(Owing(j)') <= Cardinality(Owing(j))
    /\ Cardinality(Owing(j)') <= Cardinality(Owing(j)) + 1
    /\ j = KeyOf(a) =>
         /\ s = "ended" => Cardinality(Running(j)') <= Cardinality(Running(j)) - 1
         /\ s # "handle" /\ At(a, "handle") =>
              Cardinality(Handling(j)') <= Cardinality(Handling(j)) - 1
         /\ s \in {"store", "ended"} /\ ~At(a, "store") =>
              Cardinality(Owing(j)') <= Cardinality(Owing(j)) - 1
    /\ j # KeyOf(a) => Cardinality(Handling(j)') <= Cardinality(Handling(j))
    /\ j # KeyOf(a) => Cardinality(Owing(j)') <= Cardinality(Owing(j))

LEMMA Recounts ==
    ASSUME Shapes, Tokens, NEW a \in Attempt, attempt[a] # Unsent, ~At(a, "ended"),
           NEW s \in Step, NEW answer, Moved(a, s, answer), NEW j \in Key
    PROVE  Recounted(a, s, j)
  <1>1. /\ Running(j)' \subseteq Running(j)
        /\ j = KeyOf(a) => a \in Running(j)
        /\ j = KeyOf(a) /\ s = "ended" => Running(j)' \subseteq Running(j) \ {a}
    BY DEF Moved, Running, KeyOf, At
  <1>2. /\ Handling(j)' \subseteq Handling(j) \cup {a}
        /\ j # KeyOf(a) => Handling(j)' \subseteq Handling(j)
        /\ s # "handle" => Handling(j)' \subseteq Handling(j) \ {a}
        /\ j = KeyOf(a) /\ At(a, "handle") => a \in Handling(j)
    BY DEF Moved, Handling, Running, KeyOf, At
  <1>3. /\ Owing(j)' \subseteq Owing(j) \cup {a}
        /\ j # KeyOf(a) => Owing(j)' \subseteq Owing(j)
        /\ s \in {"store", "ended"} => Owing(j)' \subseteq Owing(j) \ {a}
        /\ ~At(a, "store") => Owing(j)' \subseteq Owing(j)
        /\ j = KeyOf(a) /\ ~At(a, "store") => a \in Owing(j)
    BY DEF Moved, Owing, Running, KeyOf, At
  <1> QED BY <1>1, <1>2, <1>3, Numbers, SubsetCount, OneMore, OneLess
       DEF Recounted, Free

-----------------------------------------------------------------------------
(* Every step keeps the counts.                                            *)


\* A response is replayed.
LEMMA ReplayKeeps ==
    ASSUME IInv, NEW a \in Attempt, Replay(a)
    PROVE  IInv'
  <1>1. Shapes /\ Tokens /\ Budget
    BY DEF IInv
  <1>2. Moved(a, "release", record[KeyOf(a)].by)
    <2>1. KeyOf(a) \in Key
      BY <1>1 DEF Replay, At, Shapes, Handler, KeyOf
    <2>2. record[KeyOf(a)].by \in Attempt
      BY <1>1, <2>1 DEF Replay, Live, Shapes, Record
    <2> QED BY <1>1, <2>2, Moves DEF Replay, At, Step
  <1>3. \A j \in Key : Recounted(a, "release", j)
    BY <1>1, <1>2, Recounts DEF Replay, At, Step
  <1>4. Shapes'
    BY <1>1, <1>2 DEF Shapes, Moved, Replay, Mishap
  <1>5. \A j \in Key : Held(j) => Held(j)'
    BY <1>1, <1>2 DEF Held, Running, KeyOf, At, Moved, Shapes, Replay
  <1>6. Tokens'
    BY <1>1, <1>2, <1>3, <1>5, Numbers
       DEF Tokens, Free, Recounted, Replay, Mishap, Shapes
  <1>7. Budget'
    BY <1>1, <1>2, <1>3, <1>5, Numbers
       DEF Budget, MayPay, Free, Live, Recounted, Moved, Replay, Mishap, Shapes, At
  <1> QED BY <1>4, <1>6, <1>7 DEF IInv

\* A reused key is refused.
LEMMA MismatchKeeps ==
    ASSUME IInv, NEW a \in Attempt, Mismatch(a)
    PROVE  IInv'
  <1>1. Shapes /\ Tokens /\ Budget
    BY DEF IInv
  <1>2. Moved(a, "release", "422")
    BY <1>1, Moves DEF Mismatch, At, Step, Failure
  <1>3. \A j \in Key : Recounted(a, "release", j)
    BY <1>1, <1>2, Recounts DEF Mismatch, At, Step
  <1>4. Shapes'
    BY <1>1, <1>2 DEF Shapes, Moved, Mismatch, Mishap
  <1>5. \A j \in Key : Held(j) => Held(j)'
    BY <1>1, <1>2 DEF Held, Running, KeyOf, At, Moved, Shapes, Mismatch
  <1>6. Tokens'
    BY <1>1, <1>2, <1>3, <1>5, Numbers
       DEF Tokens, Free, Recounted, Mismatch, Mishap, Shapes
  <1>7. Budget'
    BY <1>1, <1>2, <1>3, <1>5, Numbers
       DEF Budget, MayPay, Free, Live, Recounted, Moved, Mismatch, Mishap, Shapes, At
  <1> QED BY <1>4, <1>6, <1>7 DEF IInv

\* A request goes on to its payment, which it might have made all along.
LEMMA FreshKeeps ==
    ASSUME IInv, NEW a \in Attempt, Fresh(a)
    PROVE  IInv'
  <1>1. Shapes /\ Tokens /\ Budget
    BY DEF IInv
  <1>2. Moved(a, "handle", "none")
    BY <1>1, Moves DEF Fresh, At, Step, Failure
  <1>3. \A j \in Key : Recounted(a, "handle", j)
    BY <1>1, <1>2, Recounts DEF Fresh, At, Step
  <1>4. Shapes'
    BY <1>1, <1>2 DEF Shapes, Moved, Fresh, Mishap
  <1>5. \A j \in Key : Held(j) => Held(j)'
    BY <1>1, <1>2 DEF Held, Running, KeyOf, At, Moved, Shapes, Fresh
  <1>6. Tokens'
    BY <1>1, <1>2, <1>3, <1>5, Numbers
       DEF Tokens, Free, Recounted, Fresh, Mishap, Shapes
  <1>7. Budget'
    BY <1>1, <1>2, <1>3, <1>5, Numbers
       DEF Budget, MayPay, Free, Live, Recounted, Moved, Fresh, Mishap, Shapes, At
  <1> QED BY <1>4, <1>6, <1>7 DEF IInv

\* The check raises.
LEMMA CheckRaisesKeeps ==
    ASSUME IInv, NEW a \in Attempt, CheckRaises(a)
    PROVE  IInv'
  <1>1. Shapes /\ Tokens /\ Budget
    BY DEF IInv
  <1>2. Moved(a, "release", "5xx")
    BY <1>1, Moves DEF CheckRaises, At, Step, Failure
  <1>3. \A j \in Key : Recounted(a, "release", j)
    BY <1>1, <1>2, Recounts DEF CheckRaises, At, Step
  <1>4. Shapes'
    BY <1>1, <1>2 DEF Shapes, Moved, CheckRaises, Mishap
  <1>5. \A j \in Key : Held(j) => Held(j)'
    BY <1>1, <1>2 DEF Held, Running, KeyOf, At, Moved, Shapes, CheckRaises
  <1>6. Tokens'
    BY <1>1, <1>2, <1>3, <1>5, Numbers
       DEF Tokens, Free, Recounted, CheckRaises, Mishap, Shapes
  <1>7. Budget'
    BY <1>1, <1>2, <1>3, <1>5, Numbers
       DEF Budget, MayPay, Free, Live, Recounted, Moved, CheckRaises, Mishap, Shapes, At
  <1> QED BY <1>4, <1>6, <1>7 DEF IInv

\* A payment: the request that made it is one less that may pay.
LEMMA PayKeeps ==
    ASSUME IInv, NEW a \in Attempt, Pay(a)
    PROVE  IInv'
  <1>1. Shapes /\ Tokens /\ Budget
    BY DEF IInv
  <1>2. Moved(a, "store", a)
    BY <1>1, Moves DEF Pay, At, Step, Failure
  <1>3. \A j \in Key : Recounted(a, "store", j)
    BY <1>1, <1>2, Recounts DEF Pay, At, Step
  <1>4. Shapes'
    BY <1>1, <1>2 DEF Shapes, Moved, Pay, Mishap
  <1>5. \A j \in Key : Held(j) => Held(j)'
    BY <1>1, <1>2 DEF Held, Running, KeyOf, At, Moved, Shapes, Pay
  <1>6. Tokens'
    BY <1>1, <1>2, <1>3, <1>5, Numbers
       DEF Tokens, Free, Recounted, Pay, Mishap, Shapes
  <1>7. Budget'
    BY <1>1, <1>2, <1>3, <1>5, Numbers
       DEF Budget, MayPay, Free, Live, Recounted, Moved, Pay, Mishap, Shapes, At
  <1> QED BY <1>4, <1>6, <1>7 DEF IInv

\* A payment is refused.
LEMMA RefuseKeeps ==
    ASSUME IInv, NEW a \in Attempt, Refuse(a)
    PROVE  IInv'
  <1>1. Shapes /\ Tokens /\ Budget
    BY DEF IInv
  <1>2. Moved(a, "release", "4xx")
    BY <1>1, Moves DEF Refuse, At, Step, Failure
  <1>3. \A j \in Key : Recounted(a, "release", j)
    BY <1>1, <1>2, Recounts DEF Refuse, At, Step
  <1>4. Shapes'
    BY <1>1, <1>2 DEF Shapes, Moved, Refuse, Mishap
  <1>5. \A j \in Key : Held(j) => Held(j)'
    BY <1>1, <1>2 DEF Held, Running, KeyOf, At, Moved, Shapes, Refuse
  <1>6. Tokens'
    BY <1>1, <1>2, <1>3, <1>5, Numbers
       DEF Tokens, Free, Recounted, Refuse, Mishap, Shapes
  <1>7. Budget'
    BY <1>1, <1>2, <1>3, <1>5, Numbers
       DEF Budget, MayPay, Free, Live, Recounted, Moved, Refuse, Mishap, Shapes, At
  <1> QED BY <1>4, <1>6, <1>7 DEF IInv

\* A payment is made and its response lost.
LEMMA PayAndRaiseKeeps ==
    ASSUME IInv, NEW a \in Attempt, PayAndRaise(a)
    PROVE  IInv'
  <1>1. Shapes /\ Tokens /\ Budget
    BY DEF IInv
  <1>2. Moved(a, "release", "5xx")
    BY <1>1, Moves DEF PayAndRaise, At, Step, Failure
  <1>3. \A j \in Key : Recounted(a, "release", j)
    BY <1>1, <1>2, Recounts DEF PayAndRaise, At, Step
  <1>4. Shapes'
    BY <1>1, <1>2 DEF Shapes, Moved, PayAndRaise, Mishap
  <1>5. \A j \in Key : Held(j) => Held(j)'
    BY <1>1, <1>2 DEF Held, Running, KeyOf, At, Moved, Shapes, PayAndRaise
  <1>6. Tokens'
    BY <1>1, <1>2, <1>3, <1>5, Numbers
       DEF Tokens, Free, Recounted, PayAndRaise, Mishap, Shapes
  <1>7. Budget'
    BY <1>1, <1>2, <1>3, <1>5, Numbers
       DEF Budget, MayPay, Free, Live, Recounted, Moved, PayAndRaise, Mishap, Shapes, At
  <1> QED BY <1>4, <1>6, <1>7 DEF IInv

\* The response is stored: who had yet to check will find it.
LEMMA StoreKeeps ==
    ASSUME IInv, NEW a \in Attempt, Store(a)
    PROVE  IInv'
  <1>1. Shapes /\ Tokens /\ Budget
    BY DEF IInv
  <1>2. Moved(a, "release", a)
    BY <1>1, Moves DEF Store, At, Step, Failure
  <1>3. \A j \in Key : Recounted(a, "release", j)
    BY <1>1, <1>2, Recounts DEF Store, At, Step
  <1> DEFINE k == attempt[a].key
             row == [body |-> attempt[a].body, by |-> a, expired |-> FALSE]
  <1>4. /\ row \in Record /\ row # NoRecord /\ ~row.expired
        /\ k \in Key /\ KeyOf(a) = k
    <2>1. KeyOf(a) = k /\ k \in Key /\ attempt[a].body \in Body
      BY <1>2 DEF Moved, KeyOf
    <2>2. row \in Record
      BY <2>1 DEF Record
    <2>3. ~row.expired
      OBVIOUS
    <2> QED BY <2>1, <2>2, <2>3, NoneAssumption
  <1>5. /\ record' = [record EXCEPT ![k] = row]
        /\ record[k] = NoRecord /\ record'[k] = row
    BY <1>1, <1>4 DEF Store, KeyOf, Shapes
  <1> HIDE DEF row
  <1>6. ~Live(k) /\ record'[k] # NoRecord /\ ~record'[k].expired
    BY <1>4, <1>5 DEF Live
  <1>7. \A j \in Key : j # k => record'[j] = record[j]
    BY <1>1, <1>5 DEF Shapes
  <1>8. paid' = paid /\ mishaps' = mishaps /\ lock' = lock
    BY DEF Store
  <1> HIDE DEF k
  <1>9. Shapes'
    BY <1>1, <1>2, <1>4, <1>5 DEF Shapes, Moved, Store, Mishap
  <1>10. \A j \in Key : Held(j) => Held(j)'
    BY <1>1, <1>2 DEF Held, Running, KeyOf, At, Moved, Shapes, Store
  <1>11. Tokens'
    BY <1>1, <1>2, <1>3, <1>10, Numbers, <1>4, <1>5
       DEF Tokens, Free, Recounted, Store, Mishap, Shapes
  <1>12. Budget'
    <2> SUFFICES ASSUME NEW j \in Key
                 PROVE  paid'[j] + MayPay(j)' <= 1 + mishaps'[j]
      BY DEF Budget
    <2>1. Recounted(a, "release", j) /\ (Held(j) => Held(j)')
      BY <1>3, <1>10
    <2>2. CASE j = k
      <3>1. MayPay(j) = Cardinality(Owing(j)) + Free(j)
        BY <1>6, <2>2 DEF MayPay
      <3>2. MayPay(j)' = Cardinality(Handling(j)')
        BY <1>6, <2>2 DEF MayPay, Live
      <3> QED BY <1>1, <1>8, <2>1, <3>1, <3>2, Numbers DEF Budget, Recounted
    <2>3. CASE j # k
      <3>1. Live(j)' <=> Live(j)
        BY <1>7, <2>3 DEF Live
      <3> QED BY <1>1, <1>4, <1>8, <2>1, <2>3, <3>1, Numbers
           DEF Budget, MayPay, Free, Recounted
    <2> QED BY <2>2, <2>3
  <1> QED BY <1>9, <1>11, <1>12 DEF IInv

\* A row in the way: a mishap, unless the row is live.
LEMMA StoreRefusedKeeps ==
    ASSUME IInv, NEW a \in Attempt, StoreRefused(a)
    PROVE  IInv'
  <1>1. Shapes /\ Tokens /\ Budget
    BY DEF IInv
  <1>2. Moved(a, "release", a)
    BY <1>1, Moves DEF StoreRefused, At, Step, Failure
  <1>3. \A j \in Key : Recounted(a, "release", j)
    BY <1>1, <1>2, Recounts DEF StoreRefused, At, Step
  <1>4. Shapes'
    BY <1>1, <1>2 DEF Shapes, Moved, StoreRefused, Mishap
  <1>5. \A j \in Key : Held(j) => Held(j)'
    BY <1>1, <1>2 DEF Held, Running, KeyOf, At, Moved, Shapes, StoreRefused
  <1>6. Tokens'
    BY <1>1, <1>2, <1>3, <1>5, Numbers
       DEF Tokens, Free, Recounted, StoreRefused, Mishap, Shapes
  <1>7. Budget'
    BY <1>1, <1>2, <1>3, <1>5, Numbers
       DEF Budget, MayPay, Free, Live, Recounted, Moved, StoreRefused, Mishap, Shapes, At
  <1> QED BY <1>4, <1>6, <1>7 DEF IInv

\* The response cannot be stored.
LEMMA StoreRaisesKeeps ==
    ASSUME IInv, NEW a \in Attempt, StoreRaises(a)
    PROVE  IInv'
  <1>1. Shapes /\ Tokens /\ Budget
    BY DEF IInv
  <1>2. Moved(a, "release", a)
    BY <1>1, Moves DEF StoreRaises, At, Step, Failure
  <1>3. \A j \in Key : Recounted(a, "release", j)
    BY <1>1, <1>2, Recounts DEF StoreRaises, At, Step
  <1>4. Shapes'
    BY <1>1, <1>2 DEF Shapes, Moved, StoreRaises, Mishap
  <1>5. \A j \in Key : Held(j) => Held(j)'
    BY <1>1, <1>2 DEF Held, Running, KeyOf, At, Moved, Shapes, StoreRaises
  <1>6. Tokens'
    BY <1>1, <1>2, <1>3, <1>5, Numbers
       DEF Tokens, Free, Recounted, StoreRaises, Mishap, Shapes
  <1>7. Budget'
    BY <1>1, <1>2, <1>3, <1>5, Numbers
       DEF Budget, MayPay, Free, Live, Recounted, Moved, StoreRaises, Mishap, Shapes, At
  <1> QED BY <1>4, <1>6, <1>7 DEF IInv

\* The lock is deleted: one request less, and perhaps a free lock.
LEMMA ReleaseKeeps ==
    ASSUME IInv, NEW a \in Attempt, Release(a)
    PROVE  IInv'
  <1>1. Shapes /\ Tokens /\ Budget
    BY DEF IInv
  <1>2. Moved(a, "ended", attempt[a].answer)
    <2>1. attempt[a].answer \in Attempt \cup Failure
      BY <1>1 DEF Release, At, Shapes, Handler
    <2> QED BY <1>1, <2>1, Moves DEF Release, At, Step
  <1>3. \A j \in Key : Recounted(a, "ended", j)
    BY <1>1, <1>2, Recounts DEF Release, At, Step
  <1>4. Shapes'
    BY <1>1, <1>2 DEF Shapes, Moved, Release, Mishap
  <1>5. \A j \in Key : j # KeyOf(a) /\ Held(j) => Held(j)'
    BY <1>1, <1>2 DEF Held, Running, KeyOf, At, Moved, Shapes, Release
  <1>6. Tokens'
    BY <1>1, <1>2, <1>3, <1>5, Numbers
       DEF Tokens, Free, Recounted, Release, Mishap, Shapes
  <1>7. Budget'
    BY <1>1, <1>2, <1>3, <1>5, Numbers
       DEF Budget, MayPay, Free, Live, Recounted, Moved, Release, Mishap, Shapes, At
  <1> QED BY <1>4, <1>6, <1>7 DEF IInv

\* The lock cannot be deleted.
LEMMA ReleaseRaisesKeeps ==
    ASSUME IInv, NEW a \in Attempt, ReleaseRaises(a)
    PROVE  IInv'
  <1>1. Shapes /\ Tokens /\ Budget
    BY DEF IInv
  <1>2. Moved(a, "ended", attempt[a].answer)
    <2>1. attempt[a].answer \in Attempt \cup Failure
      BY <1>1 DEF ReleaseRaises, At, Shapes, Handler
    <2> QED BY <1>1, <2>1, Moves DEF ReleaseRaises, At, Step
  <1>3. \A j \in Key : Recounted(a, "ended", j)
    BY <1>1, <1>2, Recounts DEF ReleaseRaises, At, Step
  <1>4. Shapes'
    BY <1>1, <1>2 DEF Shapes, Moved, ReleaseRaises, Mishap
  <1>5. \A j \in Key : j # KeyOf(a) /\ Held(j) => Held(j)'
    BY <1>1, <1>2 DEF Held, Running, KeyOf, At, Moved, Shapes, ReleaseRaises
  <1>6. Tokens'
    BY <1>1, <1>2, <1>3, <1>5, Numbers
       DEF Tokens, Free, Recounted, ReleaseRaises, Mishap, Shapes
  <1>7. Budget'
    BY <1>1, <1>2, <1>3, <1>5, Numbers
       DEF Budget, MayPay, Free, Live, Recounted, Moved, ReleaseRaises, Mishap, Shapes, At
  <1> QED BY <1>4, <1>6, <1>7 DEF IInv

\* A process dies.
LEMMA CrashKeeps ==
    ASSUME IInv, NEW a \in Attempt, Crash(a)
    PROVE  IInv'
  <1>1. Shapes /\ Tokens /\ Budget
    BY DEF IInv
  <1>2. Moved(a, "ended", "none")
    BY <1>1, Moves DEF Crash, At, Step, Failure
  <1>3. \A j \in Key : Recounted(a, "ended", j)
    BY <1>1, <1>2, Recounts DEF Crash, At, Step
  <1>4. Shapes'
    BY <1>1, <1>2 DEF Shapes, Moved, Crash, Mishap
  <1>5. \A j \in Key : j # KeyOf(a) /\ Held(j) => Held(j)'
    BY <1>1, <1>2 DEF Held, Running, KeyOf, At, Moved, Shapes, Crash
  <1>6. Tokens'
    BY <1>1, <1>2, <1>3, <1>5, Numbers
       DEF Tokens, Free, Recounted, Crash, Mishap, Shapes
  <1>7. Budget'
    BY <1>1, <1>2, <1>3, <1>5, Numbers
       DEF Budget, MayPay, Free, Live, Recounted, Moved, Crash, Mishap, Shapes, At
  <1> QED BY <1>4, <1>6, <1>7 DEF IInv

\* A new request, with what it is given.
Arrived(a, k, b, step, holds, answer) ==
    /\ attempt[a] = Unsent
    /\ attempt' \in [Attempt -> Handler \cup {Unsent}]
    /\ attempt'[a] \in Handler /\ attempt'[a] # Unsent
    /\ attempt'[a].key = k /\ attempt'[a].body = b
    /\ attempt'[a].step = step /\ attempt'[a].answer = answer
    /\ attempt'[a].holds <=> holds
    /\ \A c \in Attempt \ {a} : attempt'[c] = attempt[c]

LEMMA Arrives ==
    ASSUME Shapes, NEW a \in Attempt, NEW k \in Key, NEW b \in Body,
           NEW step \in Step, NEW holds \in BOOLEAN, NEW answer \in Failure,
           Arrive(a, k, b, step, holds, answer)
    PROVE  Arrived(a, k, b, step, holds, answer)
  <1> DEFINE new == [key |-> k, body |-> b, step |-> step, holds |-> holds,
                     answer |-> answer]
  <1>1. new \in Handler
    BY DEF Handler
  <1>2. new # Unsent
    BY <1>1, NoneAssumption
  <1>3. attempt' = [attempt EXCEPT ![a] = new] /\ attempt[a] = Unsent
    BY DEF Arrive
  <1>4. /\ new.key = k /\ new.body = b /\ new.step = step /\ new.answer = answer
        /\ new.holds <=> holds
    OBVIOUS
  <1> HIDE DEF new
  <1>5. attempt' \in [Attempt -> Handler \cup {Unsent}] /\ attempt'[a] = new
    BY <1>1, <1>3 DEF Shapes
  <1>6. \A c \in Attempt \ {a} : attempt'[c] = attempt[c]
    BY <1>3 DEF Shapes
  <1> QED BY <1>1, <1>2, <1>3, <1>4, <1>5, <1>6 DEF Arrived

\* How the counts of key j grow.
Grown(j, more) ==
    /\ IsFiniteSet(Running(j)')
    /\ Cardinality(Running(j)') \in Nat /\ Cardinality(Handling(j)') \in Nat
    /\ Cardinality(Owing(j)') \in Nat
    /\ Cardinality(Running(j)') <= Cardinality(Running(j)) + more
    /\ Cardinality(Owing(j)') <= Cardinality(Owing(j)) + more
    /\ Cardinality(Handling(j)') <= Cardinality(Handling(j))

\* A request that is refused at once counts nowhere; one that goes on to its
\* check is one more that runs and may pay.
LEMMA ArrivalCounts ==
    ASSUME Shapes, Tokens, NEW a \in Attempt, NEW k \in Key, NEW b \in Body,
           NEW step \in {"check", "ended"}, NEW holds \in BOOLEAN,
           NEW answer \in Failure, Arrived(a, k, b, step, holds, answer),
           NEW j \in Key
    PROVE  Grown(j, IF j = k /\ step = "check" THEN 1 ELSE 0)
  <1>1. /\ Running(j)' \subseteq Running(j) \cup {a}
        /\ j # k \/ step = "ended" => Running(j)' \subseteq Running(j)
    BY DEF Arrived, Running, KeyOf, At
  <1>2. Handling(j)' \subseteq Handling(j)
    BY DEF Arrived, Handling, Running, KeyOf, At
  <1>3. /\ Owing(j)' \subseteq Owing(j) \cup {a}
        /\ j # k \/ step = "ended" => Owing(j)' \subseteq Owing(j)
    BY DEF Arrived, Owing, Running, KeyOf, At
  <1> QED BY <1>1, <1>2, <1>3, Numbers, SubsetCount, OneMore DEF Grown

\* The lock is taken: from here on it is not free, while one more may pay.
LEMMA AcquireKeeps ==
    ASSUME IInv, NEW a \in Attempt, NEW k \in Key, NEW b \in Body, Acquire(a, k, b)
    PROVE  IInv'
  <1>1. Shapes /\ Tokens /\ Budget
    BY DEF IInv
  <1>2. Arrived(a, k, b, "check", TRUE, "none")
    BY <1>1, Arrives DEF Acquire, Step, Failure
  <1>3. /\ k \notin lock /\ lock' = lock \cup {k}
        /\ record' = record /\ paid' = paid /\ mishaps' = mishaps
    BY DEF Acquire, LockFree, Arrive
  <1>4. \A j \in Key : Grown(j, IF j = k THEN 1 ELSE 0)
    BY <1>1, <1>2, ArrivalCounts DEF Failure
  <1>5. Shapes'
    BY <1>1, <1>2, <1>3 DEF Shapes, Arrived
  <1>6. Free(k) = 1 /\ Free(k)' = 0
    BY <1>2, <1>3 DEF Free, Held, Running, Arrived, KeyOf, At
  <1>7. \A j \in Key : j # k => Free(j)' = Free(j)
    <2>1. \A j \in Key : j # k => (Held(j)' <=> Held(j))
      BY <1>2, <1>3 DEF Held, Running, Arrived, KeyOf, At
    <2> QED BY <2>1 DEF Free
  <1>8. Tokens'
    BY <1>1, <1>2, <1>3, <1>6, <1>7, <1>4, Numbers DEF Tokens, Grown
  <1>9. Budget'
    <2>1. \A j \in Key : Live(j)' <=> Live(j)
      BY <1>3 DEF Live
    <2> QED BY <1>1, <1>2, <1>3, <1>6, <1>7, <2>1, <1>4, Numbers
         DEF Budget, MayPay, Grown
  <1> QED BY <1>5, <1>8, <1>9 DEF IInv

\* The lock is another's: the request is refused.
LEMMA ConflictKeeps ==
    ASSUME IInv, NEW a \in Attempt, NEW k \in Key, NEW b \in Body, Conflict(a, k, b)
    PROVE  IInv'
  <1>1. Shapes /\ Tokens /\ Budget
    BY DEF IInv
  <1>2. Arrived(a, k, b, "ended", FALSE, "409")
    BY <1>1, Arrives DEF Conflict, Step, Failure
  <1>3. lock' = lock /\ record' = record /\ paid' = paid /\ mishaps' = mishaps
    BY DEF Conflict, Arrive
  <1>4. \A j \in Key : Grown(j, 0)
    BY <1>1, <1>2, ArrivalCounts DEF Failure
  <1>5. Shapes'
    BY <1>1, <1>2, <1>3 DEF Shapes, Arrived
  <1>6. \A j \in Key : Free(j)' = Free(j)
    <2>1. \A j \in Key : Held(j)' <=> Held(j)
      BY <1>2, <1>3 DEF Held, Running, Arrived, KeyOf, At
    <2> QED BY <2>1 DEF Free
  <1>7. Tokens'
    BY <1>1, <1>2, <1>3, <1>6, <1>4, Numbers DEF Tokens, Grown
  <1>8. Budget'
    <2>1. \A j \in Key : Live(j)' <=> Live(j)
      BY <1>3 DEF Live
    <2> QED BY <1>1, <1>2, <1>3, <1>6, <2>1, <1>4, Numbers
         DEF Budget, MayPay, Grown
  <1> QED BY <1>5, <1>7, <1>8 DEF IInv

\* Redis is down: one more may pay, at the cost of a mishap.
LEMMA DegradeKeeps ==
    ASSUME IInv, NEW a \in Attempt, NEW k \in Key, NEW b \in Body, Degrade(a, k, b)
    PROVE  IInv'
  <1>1. Shapes /\ Tokens /\ Budget
    BY DEF IInv
  <1>2. Arrived(a, k, b, "check", FALSE, "none")
    BY <1>1, Arrives DEF Degrade, Step, Failure
  <1>3. /\ lock' \in {lock, lock \cup {k}}
        /\ record' = record /\ paid' = paid
        /\ mishaps' = [mishaps EXCEPT ![k] = @ + 1]
    BY DEF Degrade, Arrive, Mishap
  <1>4. \A j \in Key : Grown(j, IF j = k THEN 1 ELSE 0)
    BY <1>1, <1>2, ArrivalCounts DEF Failure
  <1>5. Shapes'
    BY <1>1, <1>2, <1>3 DEF Shapes, Arrived
  <1>6. \A j \in Key : Free(j)' \in {0, 1} /\ Free(j)' <= Free(j)
    <2>1. \A j \in Key : Held(j) => Held(j)'
      BY <1>2, <1>3 DEF Held, Running, Arrived, KeyOf, At
    <2> QED BY <2>1 DEF Free
  <1>7. \A j \in Key : mishaps'[j] = IF j = k THEN mishaps[j] + 1 ELSE mishaps[j]
    BY <1>1, <1>3 DEF Shapes
  <1>8. Tokens'
    BY <1>1, <1>2, <1>6, <1>7, <1>4, Numbers DEF Tokens, Grown
  <1>9. Budget'
    <2>1. \A j \in Key : Live(j)' <=> Live(j)
      BY <1>3 DEF Live
    <2> QED BY <1>1, <1>2, <1>3, <1>6, <1>7, <2>1, <1>4, Numbers
         DEF Budget, MayPay, Grown
  <1> QED BY <1>5, <1>8, <1>9 DEF IInv

-----------------------------------------------------------------------------

\* While requests stand still so do their counts.
LEMMA StillCounts ==
    ASSUME attempt' = attempt, NEW j \in Key
    PROVE  /\ Running(j)' = Running(j) /\ Handling(j)' = Handling(j)
           /\ Owing(j)' = Owing(j)
           /\ (j \in lock' <=> j \in lock) => Free(j)' = Free(j)
           /\ Free(j)' \in {0, 1}
  BY DEF Running, Handling, Owing, Free, Held, KeyOf, At

\* A lock nobody running holds was free already.
LEMMA LockExpiresKeeps ==
    ASSUME IInv, NEW k \in Key, LockExpires(k)
    PROVE  IInv'
  <1>1. Shapes /\ Tokens /\ Budget
    BY DEF IInv
  <1>2. /\ attempt' = attempt /\ lock' = lock \ {k}
        /\ record' = record /\ paid' = paid /\ mishaps' = mishaps
    BY DEF LockExpires
  <1>3. \A j \in Key : Free(j)' = Free(j)
    <2>1. Free(k) = 1 /\ Free(k)' = 1
      BY <1>2 DEF Free, Held, LockExpires
    <2> QED BY <1>2, <2>1, StillCounts
  <1>4. \A j \in Key : Live(j)' <=> Live(j)
    BY <1>2 DEF Live
  <1> QED BY <1>1, <1>2, <1>3, <1>4, StillCounts
       DEF IInv, Shapes, Tokens, Budget, MayPay

\* A lock its holder outlives is free again, at the cost of a mishap.
LEMMA LockOutlivedKeeps ==
    ASSUME IInv, NEW k \in Key, LockOutlived(k)
    PROVE  IInv'
  <1>1. Shapes /\ Tokens /\ Budget
    BY DEF IInv
  <1>2. /\ attempt' = attempt /\ lock' = lock \ {k}
        /\ record' = record /\ paid' = paid
        /\ mishaps' = [mishaps EXCEPT ![k] = @ + 1]
    BY DEF LockOutlived, Mishap
  <1>3. \A j \in Key : Live(j)' <=> Live(j)
    BY <1>2 DEF Live
  <1>4. Shapes'
    BY <1>1, <1>2 DEF Shapes
  <1>5. \A j \in Key :
          /\ j = k => mishaps'[j] = mishaps[j] + 1
          /\ j # k => mishaps'[j] = mishaps[j] /\ Free(j)' = Free(j)
    BY <1>1, <1>2, StillCounts DEF Shapes
  <1>6. Tokens'
    BY <1>1, <1>2, <1>5, Numbers, StillCounts DEF Tokens
  <1>7. Budget'
    BY <1>1, <1>2, <1>3, <1>5, Numbers, StillCounts DEF Budget, MayPay
  <1> QED BY <1>4, <1>6, <1>7 DEF IInv

\* A record expires: nothing is paid yet of the new life, and Tokens bounds
\* what those still running can add.
LEMMA RecordExpiresKeeps ==
    ASSUME IInv, NEW k \in Key, RecordExpires(k)
    PROVE  IInv'
  <1>1. Shapes /\ Tokens /\ Budget
    BY DEF IInv
  <1>2. /\ attempt' = attempt /\ lock' = lock /\ mishaps' = mishaps
        /\ record' = [record EXCEPT ![k].expired = TRUE]
        /\ paid' = [paid EXCEPT ![k] = 0]
        /\ Live(k)
    BY DEF RecordExpires
  <1>3. record[k] \in Record
    BY <1>1, <1>2 DEF Shapes, Live
  <1>4. record'[k] \in Record /\ record'[k].expired
    BY <1>1, <1>2, <1>3 DEF Shapes, Record
  <1>5. Shapes'
    BY <1>1, <1>2, <1>4 DEF Shapes
  <1>6. Tokens'
    BY <1>1, <1>2, StillCounts DEF Tokens
  <1>7. Budget'
    <2> SUFFICES ASSUME NEW j \in Key
                 PROVE  paid'[j] + MayPay(j)' <= 1 + mishaps'[j]
      BY DEF Budget
    <2>1. CASE j = k
      <3>1. MayPay(j)' = Cardinality(Owing(j)) + Free(j)
        BY <1>2, <1>4, <2>1, StillCounts DEF MayPay, Live
      <3>2. paid'[j] = 0
        BY <1>1, <1>2, <2>1 DEF Shapes
      <3> QED BY <1>1, <1>2, <3>1, <3>2, Numbers DEF Tokens
    <2>2. CASE j # k
      <3>1. (Live(j)' <=> Live(j)) /\ paid'[j] = paid[j]
        BY <1>1, <1>2, <2>2 DEF Live, Shapes
      <3> QED BY <1>1, <1>2, <3>1, StillCounts DEF Budget, MayPay
    <2> QED BY <2>1, <2>2
  <1> QED BY <1>5, <1>6, <1>7 DEF IInv

\* Cleaning up removes no live record.
LEMMA CleanUpKeeps ==
    ASSUME IInv, CleanUp
    PROVE  IInv'
  <1>1. Shapes /\ Tokens /\ Budget
    BY DEF IInv
  <1>2. /\ attempt' = attempt /\ lock' = lock /\ mishaps' = mishaps /\ paid' = paid
        /\ record' = [k \in Key |-> IF Live(k) THEN record[k] ELSE NoRecord]
    BY DEF CleanUp
  <1>3. \A j \in Key : Live(j)' <=> Live(j)
    BY <1>2 DEF Live
  <1> QED BY <1>1, <1>2, <1>3, StillCounts DEF IInv, Shapes, Tokens, Budget, MayPay

-----------------------------------------------------------------------------

\* At first nothing runs and every lock is free.
LEMMA Initially == Init => IInv
  <1> SUFFICES ASSUME Init
               PROVE  IInv
    OBVIOUS
  <1>1. Shapes
    BY DEF Init, Shapes
  <1>2. ASSUME NEW k \in Key
        PROVE  Running(k) = {} /\ Owing(k) = {} /\ Free(k) = 1 /\ ~Live(k)
               /\ paid[k] = 0 /\ mishaps[k] = 0
    BY DEF Init, Running, Owing, Free, Held, Live
  <1> QED BY <1>1, <1>2, FS_EmptySet DEF IInv, Tokens, Budget, MayPay

LEMMA StepKeeps == IInv /\ [Next]_vars => IInv'
  <1> SUFFICES ASSUME IInv, [Next]_vars
               PROVE  IInv'
    OBVIOUS
  <1>1. CASE \E a \in Attempt : Send(a)
    BY <1>1, AcquireKeeps, ConflictKeeps, DegradeKeeps DEF Send
  <1>2. CASE \E a \in Attempt : Handle(a)
    BY <1>2, ReplayKeeps, MismatchKeeps, FreshKeeps, PayKeeps, RefuseKeeps,
       StoreKeeps, StoreRefusedKeeps, ReleaseKeeps DEF Handle
  <1>3. CASE \E a \in Attempt : Fails(a)
    BY <1>3, CheckRaisesKeeps, PayAndRaiseKeeps, StoreRaisesKeeps,
       ReleaseRaisesKeeps, CrashKeeps DEF Fails
  <1>4. CASE \E k \in Key : \/ LockExpires(k) \/ LockOutlived(k) \/ RecordExpires(k)
    BY <1>4, LockExpiresKeeps, LockOutlivedKeeps, RecordExpiresKeeps
  <1>5. CASE CleanUp
    BY <1>5, CleanUpKeeps
  <1>6. CASE UNCHANGED vars
    BY <1>6, StillCounts DEF vars, IInv, Shapes, Tokens, Budget, MayPay, Live
  <1> QED BY <1>1, <1>2, <1>3, <1>4, <1>5, <1>6 DEF Next

\* A key pays once in its life, and at most once more for each mishap, however
\* many retries there are and however they overlap.
THEOREM PaymentsBounded == Spec => []OnePaymentPerMishap
  <1>1. IInv => OnePaymentPerMishap
    <2> SUFFICES ASSUME IInv, NEW k \in Key
                 PROVE  paid[k] <= 1 + mishaps[k]
      BY DEF OnePaymentPerMishap
    <2>1. Shapes /\ Tokens /\ paid[k] + MayPay(k) <= 1 + mishaps[k]
      BY DEF IInv, Budget
    <2>2. MayPay(k) \in Nat
      BY <2>1, Numbers DEF MayPay
    <2> QED BY <2>1, <2>2, Numbers
  <1> QED BY Initially, StepKeeps, <1>1, PTL DEF Spec

-----------------------------------------------------------------------------
(* Types.                                                                  *)

\* Requests past the payment handler.
Settled ==
    {a \in Attempt : attempt[a] # Unsent
                     /\ attempt[a].step \in {"store", "release", "ended"}}

\* A payment is one of a request that has left the handler: the bound on what
\* a key has paid, which no retry can pass.
PaymentsCounted == \A k \in Key : paid[k] <= Cardinality(Settled)

TInv == IInv /\ PaymentsCounted /\ faults \in 0 .. MaxFaults

LEMMA SettledCount ==
    ASSUME NEW S \in SUBSET Attempt, NEW T \in SUBSET Attempt, S \subseteq T
    PROVE  /\ Cardinality(S) \in Nat /\ Cardinality(T) \in Nat
           /\ Cardinality(Attempt) \in Nat
           /\ Cardinality(S) <= Cardinality(T)
           /\ Cardinality(T) <= Cardinality(Attempt)
           /\ \A a \in T \ S : Cardinality(S) + 1 <= Cardinality(T)
  <1>1. IsFiniteSet(Attempt) /\ IsFiniteSet(T) /\ IsFiniteSet(S)
    BY AttemptAssumption, FS_Subset
  <1>2. /\ Cardinality(S) \in Nat /\ Cardinality(T) \in Nat
        /\ Cardinality(Attempt) \in Nat
        /\ Cardinality(S) <= Cardinality(T)
        /\ Cardinality(T) <= Cardinality(Attempt)
    BY <1>1, SubsetCount
  <1>3. ASSUME NEW a \in T \ S PROVE Cardinality(S) + 1 <= Cardinality(T)
    <2>1. Cardinality(S \cup {a}) = Cardinality(S) + 1
      BY <1>1, FS_AddElement
    <2>2. Cardinality(S \cup {a}) <= Cardinality(T)
      BY <1>1, SubsetCount
    <2> QED BY <2>1, <2>2
  <1> QED BY <1>2, <1>3

\* A step of request a moves it, from where its step may start.
LEMMA SettledMoves ==
    ASSUME Shapes, NEW a \in Attempt, attempt[a] # Unsent, NEW s \in Step,
           NEW answer \in Attempt \cup Failure, Proceed(a, s, answer),
           attempt[a].step \in {"store", "release", "ended"} =>
               s \in {"store", "release", "ended"}
    PROVE  /\ Settled \subseteq Settled'
           /\ s \in {"store", "release", "ended"} => a \in Settled'
  <1>1. Moved(a, s, answer)
    BY Moves
  <1> QED BY <1>1 DEF Moved, Settled

\* The payments: the request that pays is newly past the handler.
LEMMA PayingCounts ==
    ASSUME TInv, NEW a \in Attempt, Pay(a) \/ PayAndRaise(a)
    PROVE  PaymentsCounted'
  <1>1. /\ Shapes /\ PaymentsCounted /\ attempt[a] # Unsent
        /\ attempt[a].step = "handle"
        /\ paid' = [paid EXCEPT ![KeyOf(a)] = @ + 1]
        /\ \E s \in {"store", "release"}, answer \in Attempt \cup Failure :
             Proceed(a, s, answer)
    BY DEF TInv, IInv, Pay, PayAndRaise, At, Failure
  <1>2. Settled \subseteq Settled' /\ a \in Settled' \ Settled
    <2>1. PICK s \in {"store", "release"}, answer \in Attempt \cup Failure :
             Proceed(a, s, answer)
      BY <1>1
    <2>2. Settled \subseteq Settled' /\ a \in Settled'
      BY <1>1, <2>1, SettledMoves DEF Step
    <2> QED BY <1>1, <2>2 DEF Settled
  <1>3. /\ Cardinality(Settled) \in Nat /\ Cardinality(Settled') \in Nat
        /\ Cardinality(Settled) + 1 <= Cardinality(Settled')
    <2>1. Settled \in SUBSET Attempt /\ Settled' \in SUBSET Attempt
      BY DEF Settled
    <2> QED BY <1>2, <2>1, SettledCount
  <1>4. ASSUME NEW k \in Key PROVE paid'[k] <= Cardinality(Settled')
    <2>1. paid[k] \in Nat /\ paid[k] <= Cardinality(Settled)
      BY <1>1 DEF Shapes, PaymentsCounted
    <2>2. paid'[k] \in {paid[k], paid[k] + 1}
      BY <1>1 DEF Shapes
    <2> QED BY <1>3, <2>1, <2>2
  <1> QED BY <1>4 DEF PaymentsCounted

\* The other steps: nothing paid, and nobody comes back from the handler.
LEMMA OthersCount ==
    ASSUME TInv, Settled \subseteq Settled',
           \A k \in Key : paid'[k] \in {paid[k], 0}
    PROVE  PaymentsCounted'
  <1>1. /\ Cardinality(Settled) \in Nat /\ Cardinality(Settled') \in Nat
        /\ Cardinality(Settled) <= Cardinality(Settled')
    <2>1. Settled \in SUBSET Attempt /\ Settled' \in SUBSET Attempt
      BY DEF Settled
    <2> QED BY <2>1, SettledCount
  <1>2. ASSUME NEW k \in Key PROVE paid'[k] <= Cardinality(Settled')
    <2>1. paid[k] \in Nat /\ paid[k] <= Cardinality(Settled)
      BY DEF TInv, IInv, Shapes, PaymentsCounted
    <2> QED BY <1>1, <2>1
  <1> QED BY <1>2 DEF PaymentsCounted

LEMMA CountsStep ==
    ASSUME TInv, [Next]_vars
    PROVE  PaymentsCounted'
  <1>1. Shapes
    BY DEF TInv, IInv
  <1>2. ASSUME NEW a \in Attempt, Send(a)
        PROVE  Settled \subseteq Settled' /\ paid' = paid
    <2>1. /\ attempt[a] = Unsent /\ paid' = paid
          /\ \E new : attempt' = [attempt EXCEPT ![a] = new]
      BY <1>2 DEF Send, Acquire, Conflict, Degrade, Arrive
    <2> QED BY <1>1, <2>1 DEF Settled, Shapes
  <1>3. ASSUME NEW a \in Attempt, attempt[a] # Unsent, NEW s \in Step,
               NEW answer \in Attempt \cup Failure, Proceed(a, s, answer),
               paid' = paid,
               attempt[a].step \in {"store", "release", "ended"} =>
                   s \in {"store", "release", "ended"}
        PROVE  PaymentsCounted'
    BY <1>1, <1>3, SettledMoves, OthersCount
  <1>4. ASSUME NEW a \in Attempt, attempt[a] # Unsent
        PROVE  attempt[a].answer \in Attempt \cup Failure
    BY <1>1, <1>4 DEF Shapes, Handler
  <1>5. ASSUME NEW a \in Attempt, Handle(a), ~Pay(a)
        PROVE  PaymentsCounted'
    <2>1. CASE Replay(a)
      <3>1. record[KeyOf(a)].by \in Attempt
        BY <1>1, <2>1 DEF Replay, At, Live, KeyOf, Shapes, Handler, Record
      <3> QED BY <1>3, <2>1, <3>1 DEF Replay, At, Step
    <2>2. CASE Mismatch(a) \/ Fresh(a) \/ Refuse(a)
      BY <1>3, <2>2 DEF Mismatch, Fresh, Refuse, At, Step, Failure
    <2>3. CASE Store(a) \/ StoreRefused(a)
      BY <1>3, <2>3 DEF Store, StoreRefused, At, Step
    <2>4. CASE Release(a)
      BY <1>3, <1>4, <2>4 DEF Release, At, Step
    <2> QED BY <1>5, <2>1, <2>2, <2>3, <2>4 DEF Handle
  <1>6. ASSUME NEW a \in Attempt, Fails(a), ~PayAndRaise(a)
        PROVE  PaymentsCounted'
    <2>1. CASE CheckRaises(a) \/ Crash(a)
      BY <1>3, <2>1 DEF CheckRaises, Crash, At, Step, Failure
    <2>2. CASE StoreRaises(a)
      BY <1>3, <2>2 DEF StoreRaises, At, Step
    <2>3. CASE ReleaseRaises(a)
      BY <1>3, <1>4, <2>3 DEF ReleaseRaises, At, Step
    <2> QED BY <1>6, <2>1, <2>2, <2>3 DEF Fails
  <1>7. ASSUME \/ \E k \in Key : LockExpires(k) \/ LockOutlived(k) \/ RecordExpires(k)
               \/ CleanUp
               \/ UNCHANGED vars
        PROVE  PaymentsCounted'
    <2>1. attempt' = attempt /\ \A k \in Key : paid'[k] \in {paid[k], 0}
      BY <1>1, <1>7 DEF LockExpires, LockOutlived, RecordExpires, CleanUp, vars, Shapes
    <2> QED BY <2>1, OthersCount DEF Settled
  <1>8. ASSUME NEW a \in Attempt, Send(a) PROVE PaymentsCounted'
    BY <1>2, <1>8, OthersCount
  <1> QED BY <1>5, <1>6, <1>7, <1>8, PayingCounts DEF Next

LEMMA FaultsStep ==
    ASSUME faults \in 0 .. MaxFaults, [Next]_vars
    PROVE  faults' \in 0 .. MaxFaults
  <1>1. faults' = faults \/ Count
    BY DEF Next, Send, Acquire, Conflict, Degrade, Handle, Replay, Mismatch, Fresh,
           Pay, Refuse, Store, StoreRefused, Release, Fails, CheckRaises,
           PayAndRaise, StoreRaises, ReleaseRaises, Crash, LockExpires,
           LockOutlived, RecordExpires, CleanUp, vars
  <1> QED BY <1>1, FaultsAssumption DEF Count

\* In none of a key's 24-hour lives do its payments outnumber the requests that
\* were made, and every lock, row and handler keeps its type.
THEOREM TypesHold == Spec => []TypeOK
  <1>1. Init => TInv
    <2> SUFFICES ASSUME Init PROVE TInv
      OBVIOUS
    <2>1. Cardinality(Settled) \in Nat
      BY SettledCount DEF Settled
    <2> QED BY <2>1, Initially, FaultsAssumption DEF Init, TInv, PaymentsCounted
  <1>2. TInv /\ [Next]_vars => TInv'
    BY StepKeeps, CountsStep, FaultsStep DEF TInv
  <1>3. TInv => TypeOK
    <2> SUFFICES ASSUME TInv PROVE TypeOK
      OBVIOUS
    <2>1. Cardinality(Settled) <= Cardinality(Attempt) /\ Cardinality(Settled) \in Nat
          /\ Cardinality(Attempt) \in Nat
      BY SettledCount DEF Settled
    <2>2. \A k \in Key : paid[k] \in 0 .. Cardinality(Attempt)
      BY <2>1 DEF TInv, IInv, Shapes, PaymentsCounted
    <2> QED BY <2>2 DEF TInv, IInv, Shapes, TypeOK
  <1> QED BY <1>1, <1>2, <1>3, PTL DEF Spec

-----------------------------------------------------------------------------
(* Replays.                                                                *)

\* Who has paid and is done with it stays so.
PaidStays ==
    \A b \in Attempt, k \in Key, body \in Body : Paid(b, k, body) => Paid(b, k, body)'

\* The rows that are there were there before, for the same request.
SameRows ==
    \A k \in Key : record'[k] # NoRecord =>
        /\ record[k] # NoRecord
        /\ record'[k].by = record[k].by /\ record'[k].body = record[k].body

LEMMA RecordsStay ==
    ASSUME FInv, PaidStays, SameRows
    PROVE  RecordsFaithful'
  <1> SUFFICES ASSUME NEW k \in Key, record'[k] # NoRecord
               PROVE  Paid(record[k].by, k, record[k].body)'
    BY DEF RecordsFaithful
  <1>1. PICK b \in Attempt, body \in Body :
           record'[k].by = b /\ record'[k].body = body /\ Paid(b, k, body)
    BY DEF FInv, SameRows, RecordsFaithful, Shapes, Record
  <1>2. Paid(b, k, body)'
    BY <1>1 DEF PaidStays
  <1> QED BY <1>1, <1>2 DEF Paid, KeyOf, At

\* Request a, with key k and body, may answer with its own response once it
\* has one, with that of a request that paid, or with a failure.
MayAnswer(a, k, body, answer) ==
    answer \in Attempt \ {a} => Paid(answer, k, body)

\* A step of a running request keeps what was paid, and answers faithfully.
LEMMA MoveReplays ==
    ASSUME FInv, NEW a \in Attempt, attempt[a] # Unsent, ~At(a, "ended"),
           NEW s \in Step, NEW answer \in Attempt \cup Failure, Proceed(a, s, answer),
           At(a, "release") => s = "ended" /\ answer \in {attempt[a].answer, "none"},
           s = "store" => answer = a,
           MayAnswer(a, KeyOf(a), attempt[a].body, answer)
    PROVE  PaidStays /\ AnswersFaithful'
  <1>1. Shapes /\ AnswersFaithful
    BY DEF FInv
  <1>2. Moved(a, s, answer)
    BY <1>1, Moves
  <1>3. PaidStays
    <2> SUFFICES ASSUME NEW b \in Attempt, NEW k \in Key, NEW body \in Body,
                        Paid(b, k, body)
                 PROVE  Paid(b, k, body)'
      BY DEF PaidStays
    <2>1. CASE b = a
      <3>1. At(a, "release")
        BY <2>1 DEF Paid
      <3> QED BY <1>2, <2>1, <3>1 DEF Paid, Moved, KeyOf, At
    <2>2. CASE b # a
      BY <1>2, <2>2 DEF Paid, Moved, KeyOf, At
    <2> QED BY <2>1, <2>2
  <1>4. AnswersFaithful'
    <2> SUFFICES ASSUME NEW c \in Attempt, attempt'[c] # Unsent
                 PROVE  /\ At(c, "store")' => attempt'[c].answer = c
                        /\ attempt'[c].answer \in Attempt \ {c} =>
                             Paid(attempt[c].answer, KeyOf(c), attempt[c].body)'
      BY DEF AnswersFaithful
    <2>1. /\ At(c, "store")' => attempt'[c].answer = c
          /\ attempt'[c].answer \in Attempt \ {c} =>
               \E b \in Attempt, k \in Key, body \in Body :
                  /\ attempt'[c].answer = b /\ attempt'[c].key = k
                  /\ attempt'[c].body = body /\ Paid(b, k, body)
      <3>1. CASE c = a
        BY <1>2, <3>1 DEF Moved, MayAnswer, KeyOf, At
      <3>2. CASE c # a
        <4>1. attempt'[c] = attempt[c] /\ attempt[c] \in Handler
          BY <1>1, <1>2, <3>2 DEF Moved, Shapes
        <4> QED BY <1>1, <4>1 DEF AnswersFaithful, KeyOf, At, Handler
      <3> QED BY <3>1, <3>2
    <2>2. ASSUME attempt'[c].answer \in Attempt \ {c}
          PROVE  Paid(attempt[c].answer, KeyOf(c), attempt[c].body)'
      <3>1. PICK b \in Attempt, k \in Key, body \in Body :
                  /\ attempt'[c].answer = b /\ attempt'[c].key = k
                  /\ attempt'[c].body = body /\ Paid(b, k, body)
        BY <2>1, <2>2
      <3>2. Paid(b, k, body)'
        BY <1>3, <3>1 DEF PaidStays
      <3> QED BY <3>1, <3>2 DEF Paid, KeyOf, At
    <2> QED BY <2>1, <2>2
  <1> QED BY <1>3, <1>4

\* Every step of a running request but Store leaves the rows alone.
LEMMA HandleReplays ==
    ASSUME FInv, NEW a \in Attempt, Handle(a) \/ Fails(a), ~Store(a)
    PROVE  RecordsFaithful' /\ AnswersFaithful'
  <1>1. Shapes /\ RecordsFaithful /\ AnswersFaithful
    BY DEF FInv
  <1>2. PaidStays /\ AnswersFaithful'
    <2>1. CASE Replay(a)
      <3> DEFINE by == record[KeyOf(a)].by
      <3>1. KeyOf(a) \in Key /\ record[KeyOf(a)] \in Record
        BY <1>1, <2>1 DEF Replay, At, Shapes, Handler, KeyOf, Live
      <3>2. by \in Attempt /\ Paid(by, KeyOf(a), attempt[a].body)
        BY <1>1, <2>1, <3>1 DEF Replay, Live, Record, RecordsFaithful, SameBody
      <3> QED BY <2>1, <3>2, MoveReplays DEF Replay, At, Step, MayAnswer
    <2>2. CASE \/ Mismatch(a) \/ CheckRaises(a) \/ Refuse(a) \/ PayAndRaise(a)
               \/ Fresh(a)
      <3>1. \E s \in {"release", "handle"}, answer \in Failure :
               Proceed(a, s, answer) /\ (At(a, "check") \/ At(a, "handle"))
        BY <2>2 DEF Mismatch, CheckRaises, Refuse, PayAndRaise, Fresh, Failure
      <3> QED BY <3>1, NoneAssumption, MoveReplays DEF At, Step, MayAnswer
    <2>3. CASE Pay(a)
      BY <2>3, MoveReplays DEF Pay, At, Step, MayAnswer
    <2>4. CASE StoreRefused(a) \/ StoreRaises(a)
      BY <2>4, MoveReplays DEF StoreRefused, StoreRaises, At, Step, MayAnswer
    <2>5. CASE Release(a) \/ ReleaseRaises(a)
      <3>1. /\ At(a, "release") /\ Proceed(a, "ended", attempt[a].answer)
            /\ attempt[a].answer \in Attempt \cup Failure
        BY <1>1, <2>5 DEF Release, ReleaseRaises, At, Shapes, Handler
      <3>2. MayAnswer(a, KeyOf(a), attempt[a].body, attempt[a].answer)
        BY <1>1, <3>1 DEF MayAnswer, AnswersFaithful, At
      <3> QED BY <3>1, <3>2, MoveReplays DEF At, Step
    <2>6. CASE Crash(a)
      BY <2>6, NoneAssumption, MoveReplays
         DEF Crash, At, Step, Failure, MayAnswer
    <2> QED BY <2>1, <2>2, <2>3, <2>4, <2>5, <2>6 DEF Handle, Fails
  <1>3. record' = record
    BY
       DEF Handle, Fails, Replay, Mismatch, Fresh, Pay, Refuse, StoreRefused,
           Release,
       CheckRaises, PayAndRaise, StoreRaises, ReleaseRaises, Crash
  <1>4. SameRows
    BY <1>3 DEF SameRows
  <1> QED BY <1>2, <1>4, RecordsStay

\* The row that Store adds is that of a request which has paid.
LEMMA StoreReplays ==
    ASSUME FInv, NEW a \in Attempt, Store(a)
    PROVE  RecordsFaithful' /\ AnswersFaithful'
  <1>1. Shapes /\ RecordsFaithful /\ AnswersFaithful
    BY DEF FInv
  <1>2. PaidStays /\ AnswersFaithful'
    BY MoveReplays DEF Store, At, Step, MayAnswer
  <1>3. Moved(a, "release", a)
    BY <1>1, Moves DEF Store, At, Step
  <1>4. PICK key \in Key : key = KeyOf(a)
    BY <1>3 DEF Moved
  <1> DEFINE row == [body |-> attempt[a].body, by |-> a, expired |-> FALSE]
  <1>5. record' = [record EXCEPT ![key] = row] /\ row.by = a
        /\ row.body = attempt[a].body
    BY <1>4 DEF Store
  <1> HIDE DEF row
  <1> SUFFICES ASSUME NEW k \in Key, record'[k] # NoRecord
               PROVE  Paid(record[k].by, k, record[k].body)'
    BY <1>2 DEF RecordsFaithful
  <1>6. CASE k = key
    <2>1. record'[k].by = a /\ record'[k].body = attempt[a].body
      BY <1>1, <1>5, <1>6 DEF Shapes
    <2> QED BY <1>3, <1>4, <1>6, <2>1 DEF Moved, Paid, KeyOf, At
  <1>7. CASE k # key
    <2>1. record'[k] = record[k] /\ record[k] \in Record
      BY <1>1, <1>5, <1>7 DEF Shapes
    <2>2. PICK b \in Attempt, body \in Body :
             record[k].by = b /\ record[k].body = body /\ Paid(b, k, body)
      BY <1>1, <2>1 DEF RecordsFaithful, Record
    <2>3. Paid(b, k, body)'
      BY <1>2, <2>2 DEF PaidStays
    <2> QED BY <2>1, <2>2, <2>3 DEF Paid, KeyOf, At
  <1> QED BY <1>6, <1>7

\* A new request has no response, and changes nobody else's.
LEMMA SendReplays ==
    ASSUME FInv, NEW a \in Attempt, Send(a)
    PROVE  RecordsFaithful' /\ AnswersFaithful'
  <1>1. Shapes /\ RecordsFaithful /\ AnswersFaithful
    BY DEF FInv
  <1>2. PICK k \in Key, b \in Body :
           Acquire(a, k, b) \/ Conflict(a, k, b) \/ Degrade(a, k, b)
    BY DEF Send
  <1>3. PICK step \in {"check", "ended"}, holds \in BOOLEAN, answer \in Failure :
           Arrive(a, k, b, step, holds, answer)
    BY <1>2 DEF Acquire, Conflict, Degrade, Failure
  <1>4. Arrived(a, k, b, step, holds, answer)
    BY <1>1, <1>3, Arrives DEF Step
  <1>5. PaidStays
    BY <1>4 DEF PaidStays, Arrived, Paid, KeyOf, At
  <1>6. SameRows
    BY <1>3 DEF SameRows, Arrive
  <1>7. AnswersFaithful'
    <2> SUFFICES ASSUME NEW c \in Attempt, attempt'[c] # Unsent
                 PROVE  /\ At(c, "store")' => attempt'[c].answer = c
                        /\ attempt'[c].answer \in Attempt \ {c} =>
                             Paid(attempt[c].answer, KeyOf(c), attempt[c].body)'
      BY DEF AnswersFaithful
    <2>1. CASE c = a
      BY <1>4, <2>1, NoneAssumption DEF Arrived, At
    <2>2. CASE c # a
      <3>1. attempt'[c] = attempt[c] /\ attempt[c] \in Handler
        BY <1>1, <1>4, <2>2 DEF Arrived, Shapes
      <3>2. At(c, "store")' => attempt'[c].answer = c
        BY <1>1, <3>1 DEF AnswersFaithful, At
      <3>3. ASSUME attempt'[c].answer \in Attempt \ {c}
            PROVE  Paid(attempt[c].answer, KeyOf(c), attempt[c].body)'
        <4>1. PICK x \in Attempt, key \in Key, body \in Body :
                  /\ attempt'[c].answer = x /\ attempt'[c].key = key
                  /\ attempt'[c].body = body /\ Paid(x, key, body)
          BY <1>1, <3>1, <3>3 DEF AnswersFaithful, KeyOf, Handler
        <4>2. Paid(x, key, body)'
          BY <1>5, <4>1 DEF PaidStays
        <4> QED BY <4>1, <4>2 DEF Paid, KeyOf, At
      <3> QED BY <3>2, <3>3
    <2> QED BY <2>1, <2>2
  <1> QED BY <1>5, <1>6, <1>7, RecordsStay

\* While requests stand still, so does what they have paid.
LEMMA StillReplays ==
    ASSUME FInv, attempt' = attempt, SameRows
    PROVE  RecordsFaithful' /\ AnswersFaithful'
  <1>1. PaidStays
    BY DEF PaidStays, Paid, KeyOf, At
  <1>2. AnswersFaithful'
    BY DEF FInv, AnswersFaithful, Paid, KeyOf, At
  <1> QED BY <1>1, <1>2, RecordsStay

LEMMA StepReplays ==
    FInv /\ [Next]_vars => RecordsFaithful' /\ AnswersFaithful'
  <1> SUFFICES ASSUME FInv, [Next]_vars
               PROVE  RecordsFaithful' /\ AnswersFaithful'
    OBVIOUS
  <1>1. CASE \E a \in Attempt : Send(a) \/ Handle(a) \/ Fails(a)
    BY <1>1, SendReplays, HandleReplays, StoreReplays
  <1>2. CASE \/ \E k \in Key : LockExpires(k) \/ LockOutlived(k)
             \/ UNCHANGED vars
    <2>1. attempt' = attempt /\ record' = record
      BY <1>2 DEF LockExpires, LockOutlived, vars
    <2>2. SameRows
      BY <2>1 DEF SameRows
    <2> QED BY <2>1, <2>2, StillReplays
  <1>3. CASE \E k \in Key : RecordExpires(k)
    <2>1. PICK k \in Key : RecordExpires(k)
      BY <1>3
    <2>2. /\ attempt' = attempt /\ record[k] \in Record
          /\ record' = [record EXCEPT ![k].expired = TRUE]
      BY <2>1 DEF RecordExpires, FInv, Shapes, Live
    <2>3. /\ record'[k].by = record[k].by /\ record'[k].body = record[k].body
          /\ \A j \in Key : j # k => record'[j] = record[j]
      BY <2>2 DEF FInv, Shapes, Record
    <2>4. SameRows
      BY <2>2, <2>3, NoneAssumption DEF SameRows
    <2> QED BY <2>2, <2>4, StillReplays
  <1>4. CASE CleanUp
    <2>1. attempt' = attempt /\ SameRows
      BY <1>4 DEF CleanUp, SameRows, Live
    <2> QED BY <2>1, StillReplays
  <1> QED BY <1>1, <1>2, <1>3, <1>4 DEF Next

\* A request answered with a response, its own or a replayed one, asked for the
\* same thing under the same key as the request that got it by paying.
THEOREM ReplaysFaithful == Spec => []ReplayFaithful
  <1>1. Init => RecordsFaithful /\ AnswersFaithful
    BY DEF Init, RecordsFaithful, AnswersFaithful
  <1>2. IInv => Shapes
    BY DEF IInv
  <1>3. FInv => ReplayFaithful
    BY DEF FInv, AnswersFaithful, ReplayFaithful, Paid
  <1> QED BY Initially, StepKeeps, StepReplays, <1>1, <1>2, <1>3, PTL DEF Spec, FInv

=============================================================================
