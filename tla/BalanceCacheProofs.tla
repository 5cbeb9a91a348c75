------------------------- MODULE BalanceCacheProofs -------------------------
(***************************************************************************)
(* A cached balance is out of date only while its deletion is pending,     *)
(* after its deletion failed, or when a reader that overlapped a payment   *)
(* filled it: for any users, readers, payments and number of faults.       *)
(*                                                                         *)
(* StaleOnlyByOverlap is not inductive by itself: Fill makes an entry of   *)
(* what a session holds, so the session has to be as fresh as the entry    *)
(* it will write (SessionsKnow).  The shapes of the states are what the    *)
(* argument uses of TypeOK: it needs no bound on the versions.  That bound *)
(* has its own invariant: a version counts payments that have committed.   *)
(***************************************************************************)
EXTENDS BalanceCache, FiniteSetTheorems, TLAPS

AnySession == [user : User, step : {"get", "fill"}, view : Nat, raced : BOOLEAN]

Shapes ==
    /\ version \in [User -> Nat]
    /\ DOMAIN entry = User
    /\ payment \in [Payment -> Keys \cup {Uncommitted}]
    /\ reader \in [Reader -> AnySession \cup {Idle}]

\* A session that no payment overtook holds the current balance.
SessionsKnow ==
    \A r \in Reader :
        reader[r] # Idle => reader[r].raced \/ reader[r].view = version[reader[r].user]

IInv == Shapes /\ SessionsKnow /\ StaleOnlyByOverlap

-----------------------------------------------------------------------------

\* What a payment affects is one or two users, so there is a key to delete.
LEMMA AffectsSome ==
    ASSUME NEW p \in Payment
    PROVE  /\ Affects[p] \in Keys
           /\ Affects[p] # <<>>
           /\ Affects[p] # Uncommitted
  BY AffectsAssumption, NoneAssumption DEF Keys

\* Deleting the first key leaves the others, in a list of at most one.
LEMMA RestOfKeys ==
    ASSUME NEW keys \in Keys, keys # <<>>
    PROVE  /\ Head(keys) \in User
           /\ Tail(keys) \in Keys
           /\ ElementsOf(keys) \subseteq User
           /\ \A u \in ElementsOf(keys) :
                u # Head(keys) => Tail(keys) # <<>> /\ u \in ElementsOf(Tail(keys))
  <1>1. CASE \E u \in User : keys = <<u>>
    BY <1>1 DEF Keys, ElementsOf
  <1>2. CASE \E u \in User, v \in User : keys = <<u, v>>
    <2>1. PICK u \in User, v \in User : keys = <<u, v>>
      BY <1>2
    <2>2. Head(keys) = u /\ Tail(keys) = <<v>>
      BY <2>1
    <2>3. ElementsOf(keys) = {u, v} /\ ElementsOf(Tail(keys)) = {v}
      BY <2>1, <2>2 DEF ElementsOf
    <2> QED BY <2>2, <2>3 DEF Keys
  <1> QED BY <1>1, <1>2 DEF Keys

\* Initially every key is absent and no session exists.
LEMMA Initially == Init => IInv
  BY DEF Init, IInv, Shapes, SessionsKnow, StaleOnlyByOverlap, Current

-----------------------------------------------------------------------------

\* A payment commits: it is about to delete the key of every balance it
\* changed, and every session that holds one of them knows it was overtaken.
LEMMA CommitKeeps ==
    ASSUME IInv, NEW p \in Payment, Commit(p)
    PROVE  IInv'
  <1> DEFINE U == ElementsOf(Affects[p])
  <1>1. /\ Shapes /\ SessionsKnow /\ StaleOnlyByOverlap
        /\ payment[p] = Uncommitted
        /\ version' = [u \in User |-> IF u \in U THEN version[u] + 1 ELSE version[u]]
        /\ payment' = [payment EXCEPT ![p] = Affects[p]]
        /\ reader' = Overtaken(U)
        /\ entry' = entry /\ missed' = missed
    BY DEF IInv, Commit, StaleKeys
  <1>2. Shapes'
    <2>1. version' \in [User -> Nat]
      BY <1>1 DEF Shapes
    <2>2. payment' \in [Payment -> Keys \cup {Uncommitted}]
      BY <1>1, AffectsSome DEF Shapes
    <2>3. reader' \in [Reader -> AnySession \cup {Idle}]
      BY <1>1 DEF Shapes, Overtaken, AnySession
    <2> QED BY <1>1, <2>1, <2>2, <2>3 DEF Shapes
  <1>3. SessionsKnow'
    <2> SUFFICES ASSUME NEW r \in Reader, reader'[r] # Idle
                 PROVE  \/ reader'[r].raced
                        \/ reader'[r].view = version'[reader'[r].user]
      BY DEF SessionsKnow
    <2>1. reader[r] # Idle /\ reader[r] \in AnySession
      BY <1>1 DEF Shapes, Overtaken
    <2>2. CASE reader[r].user \in U
      BY <1>1, <2>1, <2>2 DEF Overtaken, AnySession
    <2>3. CASE reader[r].user \notin U
      BY <1>1, <2>1, <2>3 DEF Overtaken, AnySession, SessionsKnow
    <2> QED BY <2>2, <2>3
  <1>4. StaleOnlyByOverlap'
    <2> SUFFICES ASSUME NEW u \in User
                 PROVE  Current(u)' \/ BeingInvalidated(u)' \/ u \in missed'
                                    \/ entry'[u].raced
      BY DEF StaleOnlyByOverlap
    <2>1. CASE u \in U
      <3>1. payment'[p] = Affects[p]
        BY <1>1 DEF Shapes
      <3> QED BY <2>1, <3>1, AffectsSome DEF BeingInvalidated, Deleting
    <2>2. CASE u \notin U
      <3>1. BeingInvalidated(u) => BeingInvalidated(u)'
        BY <1>1 DEF BeingInvalidated, Deleting, Shapes
      <3>2. Current(u) => Current(u)'
        BY <1>1, <2>2 DEF Current
      <3> QED BY <1>1, <3>1, <3>2 DEF StaleOnlyByOverlap
    <2> QED BY <2>1, <2>2
  <1> QED BY <1>2, <1>3, <1>4 DEF IInv

\* A payment deletes its next key: that key is absent, the others still wait.
LEMMA InvalidateKeeps ==
    ASSUME IInv, NEW p \in Payment, Invalidate(p)
    PROVE  IInv'
  <1> DEFINE gone == Head(payment[p])
  <1>1. /\ Shapes /\ SessionsKnow /\ StaleOnlyByOverlap /\ Deleting(p)
        /\ entry' = [entry EXCEPT ![gone] = NoEntry]
        /\ payment' = [payment EXCEPT ![p] = Tail(payment[p])]
        /\ version' = version /\ reader' = reader /\ missed' = missed
    BY DEF IInv, Invalidate
  <1>2. payment[p] \in Keys /\ payment[p] # <<>>
    BY <1>1 DEF Shapes, Deleting
  <1>3. gone \in User /\ Tail(payment[p]) \in Keys
    BY <1>2, RestOfKeys
  <1>4. Shapes'
    BY <1>1, <1>3 DEF Shapes
  <1>5. SessionsKnow'
    BY <1>1 DEF SessionsKnow
  <1>6. ASSUME NEW u \in User, u # gone, BeingInvalidated(u)
        PROVE  BeingInvalidated(u)'
    <2>1. PICK q \in Payment : Deleting(q) /\ u \in ElementsOf(payment[q])
      BY <1>6 DEF BeingInvalidated
    <2>2. CASE q = p
      <3>1. Tail(payment[p]) # <<>> /\ u \in ElementsOf(Tail(payment[p]))
        BY <1>2, <1>6, <2>1, <2>2, RestOfKeys
      <3>2. Tail(payment[p]) # Uncommitted
        BY <1>3, NoneAssumption
      <3>3. payment'[p] = Tail(payment[p])
        BY <1>1 DEF Shapes
      <3> QED BY <3>1, <3>2, <3>3 DEF BeingInvalidated, Deleting
    <2>3. CASE q # p
      BY <1>1, <2>1, <2>3 DEF BeingInvalidated, Deleting, Shapes
    <2> QED BY <2>2, <2>3
  <1>7. StaleOnlyByOverlap'
    <2> SUFFICES ASSUME NEW u \in User
                 PROVE  Current(u)' \/ BeingInvalidated(u)' \/ u \in missed'
                                    \/ entry'[u].raced
      BY DEF StaleOnlyByOverlap
    <2>1. CASE u = gone
      BY <1>1, <2>1 DEF Current, Shapes
    <2>2. CASE u # gone
      <3>1. entry'[u] = entry[u]
        BY <1>1, <2>2 DEF Shapes
      <3> QED BY <1>1, <1>6, <2>2, <3>1 DEF StaleOnlyByOverlap, Current
    <2> QED BY <2>1, <2>2
  <1> QED BY <1>4, <1>5, <1>7 DEF IInv

\* A deletion fails: every user it leaves behind is recorded as missed.
LEMMA InvalidateFailsKeeps ==
    ASSUME IInv, NEW p \in Payment, InvalidateFails(p)
    PROVE  IInv'
  <1>1. /\ Shapes /\ SessionsKnow /\ StaleOnlyByOverlap
        /\ missed' = missed \cup ElementsOf(payment[p])
        /\ payment' = [payment EXCEPT ![p] = <<>>]
        /\ version' = version /\ reader' = reader /\ entry' = entry
    BY DEF IInv, InvalidateFails
  <1>2. Shapes' /\ SessionsKnow'
    BY <1>1 DEF Shapes, SessionsKnow, Keys
  <1>3. ASSUME NEW u \in User, BeingInvalidated(u)
        PROVE  BeingInvalidated(u)' \/ u \in missed'
    <2>1. PICK q \in Payment : Deleting(q) /\ u \in ElementsOf(payment[q])
      BY <1>3 DEF BeingInvalidated
    <2> QED BY <1>1, <2>1 DEF BeingInvalidated, Deleting, Shapes
  <1>4. StaleOnlyByOverlap'
    BY <1>1, <1>3 DEF StaleOnlyByOverlap, Current
  <1> QED BY <1>2, <1>4 DEF IInv

-----------------------------------------------------------------------------

\* A reader fills the cache: its session is current, or knows it is not.
LEMMA FillKeeps ==
    ASSUME IInv, NEW r \in Reader, Fill(r)
    PROVE  IInv'
  <1> DEFINE s == reader[r]
  <1>1. /\ Shapes /\ SessionsKnow /\ StaleOnlyByOverlap
        /\ s # Idle
        /\ entry' = [entry EXCEPT ![s.user] = Filled(s)]
        /\ reader' = [reader EXCEPT ![r] = Idle]
        /\ version' = version /\ payment' = payment /\ missed' = missed
    BY DEF IInv, Fill, At
  <1>2. s \in AnySession /\ s.user \in User
    BY <1>1 DEF Shapes, AnySession
  <1>3. Shapes' /\ SessionsKnow'
    BY <1>1, <1>2 DEF Shapes, SessionsKnow
  <1>4. StaleOnlyByOverlap'
    <2> SUFFICES ASSUME NEW u \in User
                 PROVE  Current(u)' \/ BeingInvalidated(u)' \/ u \in missed'
                                    \/ entry'[u].raced
      BY DEF StaleOnlyByOverlap
    <2>1. CASE u = s.user
      <3>1. entry'[u] = Filled(s)
        BY <1>1, <1>2, <2>1 DEF Shapes
      <3>2. s.raced \/ s.view = version[u]
        BY <1>1, <2>1 DEF SessionsKnow
      <3> QED BY <1>1, <3>1, <3>2 DEF Filled, Current
    <2>2. CASE u # s.user
      <3>1. entry'[u] = entry[u]
        BY <1>1, <1>2, <2>2 DEF Shapes
      <3> QED BY <1>1, <3>1
           DEF StaleOnlyByOverlap, Current, BeingInvalidated, Deleting
    <2> QED BY <2>1, <2>2
  <1> QED BY <1>3, <1>4 DEF IInv

\* A reader's other steps leave the database and Redis alone, and the balance
\* a session starts with is the current one.
LEMMA ReaderKeeps ==
    ASSUME IInv, NEW r \in Reader,
           \/ \E u \in User : Authenticate(r, u)
           \/ Get(r)
           \/ ReadFails(r)
    PROVE  IInv'
  <1>1. Shapes /\ SessionsKnow /\ StaleOnlyByOverlap
    BY DEF IInv
  <1>2. /\ version' = version /\ entry' = entry
        /\ payment' = payment /\ missed' = missed
    BY DEF Authenticate, Get, ReadFails
  <1>3. StaleOnlyByOverlap'
    BY <1>1, <1>2 DEF StaleOnlyByOverlap, Current, BeingInvalidated, Deleting
  <1>4. ASSUME NEW s \in AnySession \cup {Idle},
               reader' = [reader EXCEPT ![r] = s],
               s # Idle => s.raced \/ s.view = version[s.user]
        PROVE  Shapes' /\ SessionsKnow'
    BY <1>1, <1>2, <1>4 DEF Shapes, SessionsKnow
  <1>5. CASE \E u \in User : Authenticate(r, u)
    <2>1. PICK u \in User : Authenticate(r, u)
      BY <1>5
    <2> DEFINE s == [user |-> u, step |-> "get", view |-> version[u], raced |-> FALSE]
    <2>2. s \in AnySession /\ s.view = version[s.user]
      BY <1>1 DEF Shapes, AnySession
    <2>3. reader' = [reader EXCEPT ![r] = s]
      BY <2>1 DEF Authenticate
    <2> HIDE DEF s
    <2> QED BY <1>3, <1>4, <2>2, <2>3 DEF IInv
  <1>6. CASE Get(r)
    <2> DEFINE s == IF entry[reader[r].user] # NoEntry THEN Idle
                    ELSE [reader[r] EXCEPT !.step = "fill"]
    <2>1. reader[r] # Idle /\ reader[r] \in AnySession
      BY <1>1, <1>6 DEF Get, At, Shapes
    <2>2. reader' = [reader EXCEPT ![r] = s]
      BY <1>6 DEF Get
    <2>3. s \in AnySession \cup {Idle}
      BY <2>1 DEF AnySession
    <2>4. s # Idle => s.raced \/ s.view = version[s.user]
      BY <1>1, <2>1 DEF SessionsKnow, AnySession
    <2> HIDE DEF s
    <2> QED BY <1>3, <1>4, <2>2, <2>3, <2>4 DEF IInv
  <1>7. CASE ReadFails(r)
    <2>1. reader' = [reader EXCEPT ![r] = Idle]
      BY <1>7 DEF ReadFails
    <2> QED BY <1>3, <1>4, <2>1 DEF IInv
  <1> QED BY <1>5, <1>6, <1>7

\* An entry expires: an absent key is current.
LEMMA ExpireKeeps ==
    ASSUME IInv, NEW u \in User, Expire(u)
    PROVE  IInv'
  <1>1. /\ Shapes /\ SessionsKnow /\ StaleOnlyByOverlap
        /\ entry' = [entry EXCEPT ![u] = NoEntry]
        /\ version' = version /\ payment' = payment
        /\ reader' = reader /\ missed' = missed
    BY DEF IInv, Expire
  <1>2. Shapes' /\ SessionsKnow'
    BY <1>1 DEF Shapes, SessionsKnow
  <1>3. StaleOnlyByOverlap'
    BY <1>1 DEF StaleOnlyByOverlap, Current, BeingInvalidated, Deleting, Shapes
  <1> QED BY <1>2, <1>3 DEF IInv

\* Every step preserves the inductive invariant.
LEMMA StepKeeps == IInv /\ [Next]_vars => IInv'
  <1> SUFFICES ASSUME IInv, [Next]_vars
               PROVE  IInv'
    OBVIOUS
  <1>1. CASE \E p \in Payment : Commit(p) \/ Invalidate(p) \/ InvalidateFails(p)
    BY <1>1, CommitKeeps, InvalidateKeeps, InvalidateFailsKeeps
  <1>2. CASE \E r \in Reader : \/ \E u \in User : Authenticate(r, u)
                               \/ Get(r) \/ Fill(r) \/ ReadFails(r)
    BY <1>2, ReaderKeeps, FillKeeps
  <1>3. CASE \E u \in User : Expire(u)
    BY <1>3, ExpireKeeps
  <1>4. CASE UNCHANGED vars
    BY <1>4 DEF vars, IInv, Shapes, SessionsKnow, StaleOnlyByOverlap, Current,
                BeingInvalidated, Deleting
  <1> QED BY <1>1, <1>2, <1>3, <1>4 DEF Next

\* However payments, readers, failures and expiries interleave, a cached
\* balance that is out of date is about to be deleted, was left by a failed
\* deletion, or was filled by a reader whose request overlapped a payment.
THEOREM StaleOnlyByOverlapHolds == Spec => []StaleOnlyByOverlap
  <1>1. IInv => StaleOnlyByOverlap
    BY DEF IInv
  <1> QED BY Initially, StepKeeps, <1>1, PTL DEF Spec

-----------------------------------------------------------------------------
(* Types.                                                                  *)

\* Payments that have committed.
Committed == {p \in Payment : payment[p] # Uncommitted}

\* A version counts payments, of those that have committed so far: the bound
\* that makes Version the type of every balance, entry and session.
VersionsCounted == \A u \in User : version[u] <= Cardinality(Committed)

TInv == TypeOK /\ VersionsCounted

\* A subset of the payments is finite, and one that lacks a payment has room.
LEMMA PaymentsCount ==
    ASSUME NEW P \in SUBSET Payment
    PROVE  /\ Cardinality(P) \in Nat /\ Cardinality(Payment) \in Nat
           /\ Cardinality(P) <= Cardinality(Payment)
           /\ \A p \in Payment \ P : Cardinality(P \cup {p}) = Cardinality(P) + 1
  <1>1. IsFiniteSet(P)
    BY FS_Subset, PaymentAssumption
  <1>2. \A p \in Payment \ P : Cardinality(P \cup {p}) = Cardinality(P) + 1
    BY <1>1, FS_AddElement
  <1> QED BY <1>1, <1>2, FS_Subset, FS_CardinalityType, PaymentAssumption

\* Every session and every entry is of the type it is loaded or filled with.
LEMMA SessionTypes ==
    ASSUME TypeOK
    PROVE  /\ \A r \in Reader : reader[r] # Idle => reader[r] \in Session
           /\ \A s \in Session : Filled(s) \in Entry
           /\ \A s \in Session : [s EXCEPT !.raced = TRUE] \in Session
           /\ \A s \in Session : [s EXCEPT !.step = "fill"] \in Session
  BY DEF TypeOK, Session, Entry, Filled

LEMMA CommitTypes ==
    ASSUME TInv, NEW p \in Payment, Commit(p)
    PROVE  TInv'
  <1>1. /\ TypeOK /\ VersionsCounted /\ payment[p] = Uncommitted
        /\ payment' = [payment EXCEPT ![p] = Affects[p]]
        /\ version' = [u \in User |-> IF u \in ElementsOf(Affects[p])
                                      THEN version[u] + 1 ELSE version[u]]
        /\ reader' = Overtaken(ElementsOf(Affects[p]))
        /\ entry' = entry /\ missed' = missed /\ faults' = faults
    BY DEF TInv, Commit, StaleKeys
  <1>2. payment'[p] # Uncommitted /\ payment' \in [Payment -> Keys \cup {Uncommitted}]
    BY <1>1, AffectsSome DEF TypeOK
  <1>3. Committed' = Committed \cup {p} /\ p \notin Committed
    BY <1>1, <1>2 DEF Committed, TypeOK
  <1>4. /\ Cardinality(Committed) \in Nat
        /\ Cardinality(Committed') = Cardinality(Committed) + 1
        /\ Cardinality(Committed') <= Cardinality(Payment)
        /\ Cardinality(Payment) \in Nat
    <2>1. Committed \in SUBSET Payment /\ Committed' \in SUBSET Payment
      BY DEF Committed
    <2> QED BY <1>3, <2>1, PaymentsCount
  <1>5. \A u \in User : version[u] \in Nat /\ version[u] <= Cardinality(Committed)
    BY <1>1 DEF TypeOK, Version, VersionsCounted
  <1>6. \A u \in User : version'[u] \in Version /\ version'[u] <= Cardinality(Committed')
    BY <1>1, <1>4, <1>5 DEF Version
  <1>7. version' \in [User -> Version]
    BY <1>1, <1>6
  <1>8. reader' \in [Reader -> Session \cup {Idle}]
    BY <1>1, SessionTypes DEF Overtaken, TypeOK
  <1> QED BY <1>1, <1>2, <1>6, <1>7, <1>8 DEF TInv, TypeOK, VersionsCounted

\* No other step changes a version, or what has committed.
LEMMA OtherTypes ==
    ASSUME TInv, version' = version, Committed' = Committed,
           entry' \in [User -> Entry \cup {NoEntry}],
           payment' \in [Payment -> Keys \cup {Uncommitted}],
           reader' \in [Reader -> Session \cup {Idle}],
           missed' \subseteq User, faults' \in 0 .. MaxFaults
    PROVE  TInv'
  BY DEF TInv, TypeOK, VersionsCounted

LEMMA DeleteTypes ==
    ASSUME TInv, NEW p \in Payment, Invalidate(p) \/ InvalidateFails(p)
    PROVE  TInv'
  <1>1. /\ TypeOK /\ payment[p] # Uncommitted
        /\ payment[p] \in Keys /\ payment[p] # <<>>
        /\ version' = version /\ reader' = reader
    BY DEF TInv, Invalidate, InvalidateFails, Deleting, TypeOK
  <1>2. /\ Head(payment[p]) \in User /\ Tail(payment[p]) \in Keys
        /\ ElementsOf(payment[p]) \subseteq User
    BY <1>1, RestOfKeys
  <1>3. ASSUME NEW keys \in Keys, payment' = [payment EXCEPT ![p] = keys]
        PROVE  /\ payment' \in [Payment -> Keys \cup {Uncommitted}]
               /\ Committed' = Committed
    BY <1>1, <1>3, NoneAssumption DEF Committed, TypeOK
  <1>4. CASE Invalidate(p)
    <2>1. entry' \in [User -> Entry \cup {NoEntry}] /\ missed' = missed /\ faults' = faults
      BY <1>1, <1>2, <1>4 DEF Invalidate, TypeOK
    <2>2. payment' = [payment EXCEPT ![p] = Tail(payment[p])]
      BY <1>4 DEF Invalidate
    <2> QED BY <1>1, <1>2, <1>3, <2>1, <2>2, OtherTypes DEF TypeOK
  <1>5. CASE InvalidateFails(p)
    <2>1. /\ entry' = entry /\ missed' \subseteq User
          /\ faults' \in 0 .. MaxFaults
      BY <1>1, <1>2, <1>5, FaultsAssumption DEF InvalidateFails, Count, TypeOK
    <2>2. payment' = [payment EXCEPT ![p] = <<>>] /\ <<>> \in Keys
      BY <1>5 DEF InvalidateFails, Keys
    <2> QED BY <1>1, <1>3, <2>1, <2>2, OtherTypes DEF TypeOK
  <1> QED BY <1>4, <1>5

LEMMA ReaderTypes ==
    ASSUME TInv, NEW r \in Reader,
           \/ \E u \in User : Authenticate(r, u)
           \/ Get(r) \/ Fill(r) \/ ReadFails(r)
    PROVE  TInv'
  <1>1. /\ TypeOK /\ version' = version /\ payment' = payment /\ missed' = missed
        /\ Committed' = Committed
    BY DEF TInv, Authenticate, Get, Fill, ReadFails, Committed
  <1>2. /\ reader[r] # Idle =>
             /\ reader[r] \in Session /\ reader[r].user \in User
             /\ Filled(reader[r]) \in Entry
             /\ [reader[r] EXCEPT !.step = "fill"] \in Session
    BY <1>1, SessionTypes DEF Session
  <1>3. reader' \in [Reader -> Session \cup {Idle}]
    <2>1. CASE \E u \in User : Authenticate(r, u)
      <3>1. PICK u \in User : Authenticate(r, u)
        BY <2>1
      <3>2. [user |-> u, step |-> "get", view |-> version[u], raced |-> FALSE] \in Session
        BY <1>1 DEF Session, TypeOK
      <3> QED BY <1>1, <3>1, <3>2 DEF Authenticate, TypeOK
    <2>2. CASE Get(r)
      <3>1. \/ reader' = [reader EXCEPT ![r] = Idle]
            \/ reader' = [reader EXCEPT ![r] = [reader[r] EXCEPT !.step = "fill"]]
        BY <2>2 DEF Get
      <3> QED BY <1>1, <1>2, <2>2, <3>1 DEF Get, At, TypeOK
    <2>3. CASE Fill(r) \/ ReadFails(r)
      BY <1>1, <2>3 DEF Fill, ReadFails, TypeOK
    <2> QED BY <2>1, <2>2, <2>3
  <1>4. entry' \in [User -> Entry \cup {NoEntry}]
    BY <1>1, <1>2 DEF Authenticate, Get, Fill, ReadFails, At, TypeOK
  <1>5. faults' \in 0 .. MaxFaults
    BY <1>1, FaultsAssumption DEF Authenticate, Get, Fill, ReadFails, Count, TypeOK
  <1> QED BY <1>1, <1>3, <1>4, <1>5, OtherTypes DEF TypeOK

LEMMA TypesStep == TInv /\ [Next]_vars => TInv'
  <1> SUFFICES ASSUME TInv, [Next]_vars
               PROVE  TInv'
    OBVIOUS
  <1>1. CASE \E p \in Payment : Commit(p) \/ Invalidate(p) \/ InvalidateFails(p)
    BY <1>1, CommitTypes, DeleteTypes
  <1>2. CASE \E r \in Reader : \/ \E u \in User : Authenticate(r, u)
                               \/ Get(r) \/ Fill(r) \/ ReadFails(r)
    BY <1>2, ReaderTypes
  <1>3. CASE \E u \in User : Expire(u)
    BY <1>3, OtherTypes DEF Expire, Committed, TInv, TypeOK
  <1>4. CASE UNCHANGED vars
    BY <1>4, OtherTypes DEF vars, Committed, TInv, TypeOK
  <1> QED BY <1>1, <1>2, <1>3, <1>4 DEF Next

\* Nothing ever holds a version that no payment made: each payment changes a
\* balance at most once, and what readers load and Redis keeps is such a
\* balance.
THEOREM TypesHold == Spec => []TypeOK
  <1>1. Init => TInv
    <2> SUFFICES ASSUME Init PROVE TInv
      OBVIOUS
    <2>1. Cardinality(Committed) \in Nat /\ Cardinality(Payment) \in Nat
      BY PaymentsCount DEF Committed
    <2> QED BY <2>1, FaultsAssumption DEF Init, TInv, TypeOK, VersionsCounted, Version
  <1>2. TInv => TypeOK
    BY DEF TInv
  <1> QED BY <1>1, <1>2, TypesStep, PTL DEF Spec

=============================================================================
