---------------------------- MODULE BalanceCache ----------------------------
(***************************************************************************)
(* The Redis cache in front of GET /wallet/balance                         *)
(* (app/services/wallet_service.py): readers look aside and fill it,       *)
(* payments delete the keys of the wallets they changed after they commit, *)
(* and Redis expires what nobody deletes.                                  *)
(*                                                                         *)
(* A balance is represented by its version, the number of payments that    *)
(* have changed the wallet.  A reader's session loads the wallet when it   *)
(* authenticates; the query behind a cache miss returns that same object,  *)
(* so what the reader caches is as old as its authentication.              *)
(***************************************************************************)
EXTENDS Integers, Sequences, FiniteSets

CONSTANTS
    User,      \* users, one wallet and one cache key each
    Reader,    \* concurrent GET /wallet/balance requests
    Payment,   \* deposits and transfers, each made once
    Affects,   \* users whose balance a payment changes, caller first
    MaxFaults, \* bound: Redis commands that fail in one behaviour
    Uncommitted, \* a payment yet to commit
    NoEntry,   \* a key Redis does not hold
    Idle       \* a reader without a request

ASSUME AffectsAssumption ==
    \A p \in Payment : Affects[p] \in {<<u>> : u \in User}
                         \cup {<<u, v>> : u \in User, v \in User}
ASSUME FaultsAssumption == MaxFaults \in Nat
ASSUME PaymentAssumption == IsFiniteSet(Payment)

VARIABLES
    version,  \* balance in PostgreSQL, by version
    entry,    \* what Redis holds under each user's key
    payment,  \* keys each payment has yet to delete
    reader,   \* the session of each reader
    missed,   \* auxiliary: users some payment committed for and failed to delete
    faults    \* Redis commands that have failed

vars == <<version, entry, payment, reader, missed, faults>>

-----------------------------------------------------------------------------

Version == 0 .. Cardinality(Payment)

\* `raced' is auxiliary: the balance changed between load and fill.
Entry == [version : Version, raced : BOOLEAN, expires : BOOLEAN]

Session == [user : User, step : {"get", "fill"}, view : Version, raced : BOOLEAN]

\* The keys a committed payment has yet to delete.
Keys == {<<>>} \cup {<<u>> : u \in User} \cup {<<u, v>> : u \in User, v \in User}

ASSUME NoneAssumption ==
    NoEntry \notin Entry /\ Idle \notin Session /\ Uncommitted \notin Keys

ElementsOf(keys) == {keys[i] : i \in DOMAIN keys}

Count ==
    /\ faults < MaxFaults
    /\ faults' = faults + 1

-----------------------------------------------------------------------------
(* Payments.                                                               *)

\* Readers of u in flight notice, in the model only, that u changed.
Overtaken(U) ==
    [r \in Reader |->
        IF reader[r] # Idle /\ reader[r].user \in U
        THEN [reader[r] EXCEPT !.raced = TRUE] ELSE reader[r]]

\* Faults: only the caller's key is deleted; an update applied twice.
CallerKey(p) == <<Affects[p][1]>>

CommitTwice(p) ==
    /\ payment[p] = Uncommitted
    /\ version' = [u \in User |-> IF u \in ElementsOf(Affects[p])
                                  THEN version[u] + 2 ELSE version[u]]
    /\ payment' = [payment EXCEPT ![p] = Affects[p]]
    /\ reader' = Overtaken(ElementsOf(Affects[p]))
    /\ UNCHANGED <<entry, missed, faults>>

\* The keys a payment deletes, in order: deposit the caller's, transfer_money
\* the sender's and then the receiver's.
StaleKeys(p) == Affects[p]

\* The database commit of a deposit or a transfer.
Commit(p) ==
    /\ payment[p] = Uncommitted
    /\ version' = [u \in User |-> IF u \in ElementsOf(Affects[p])
                                  THEN version[u] + 1 ELSE version[u]]
    /\ payment' = [payment EXCEPT ![p] = StaleKeys(p)]
    /\ reader' = Overtaken(ElementsOf(Affects[p]))
    /\ UNCHANGED <<entry, missed, faults>>

Deleting(p) == payment[p] # Uncommitted /\ payment[p] # <<>>

\* redis.delete of the next key.
Invalidate(p) ==
    /\ Deleting(p)
    /\ entry' = [entry EXCEPT ![Head(payment[p])] = NoEntry]
    /\ payment' = [payment EXCEPT ![p] = Tail(@)]
    /\ UNCHANGED <<version, reader, missed, faults>>

\* It raises, or the process dies: this key and the ones after it stay.
InvalidateFails(p) ==
    /\ Deleting(p)
    /\ Count
    /\ missed' = missed \cup ElementsOf(payment[p])
    /\ payment' = [payment EXCEPT ![p] = <<>>]
    /\ UNCHANGED <<version, entry, reader>>

-----------------------------------------------------------------------------
(* Readers and Redis.                                                      *)

\* get_current_user loads the user and the wallet.
Authenticate(r, u) ==
    /\ reader[r] = Idle
    /\ reader' = [reader EXCEPT ![r] = [user |-> u, step |-> "get",
                                        view |-> version[u], raced |-> FALSE]]
    /\ UNCHANGED <<version, entry, payment, missed, faults>>

At(r, step) == reader[r] # Idle /\ reader[r].step = step

\* redis.get: a hit is the answer, a miss goes on to the database.
Get(r) ==
    /\ At(r, "get")
    /\ reader' = [reader EXCEPT ![r] =
                    IF entry[@.user] # NoEntry THEN Idle
                    ELSE [@ EXCEPT !.step = "fill"]]
    /\ UNCHANGED <<version, entry, payment, missed, faults>>

\* Fault: the entry is stored without a time to live.
FilledForever(session) ==
    [version |-> session.view, raced |-> session.raced, expires |-> FALSE]

\* The payload of a fill and its expiry (ex=BALANCE_CACHE_TTL_SECONDS).
Filled(session) ==
    [version |-> session.view, raced |-> session.raced, expires |-> TRUE]

\* redis.set of the wallet as the session knows it.
Fill(r) ==
    /\ At(r, "fill")
    /\ entry' = [entry EXCEPT ![reader[r].user] = Filled(reader[r])]
    /\ reader' = [reader EXCEPT ![r] = Idle]
    /\ UNCHANGED <<version, payment, missed, faults>>

\* redis.get or redis.set raises, or the client goes away.
ReadFails(r) ==
    /\ reader[r] # Idle
    /\ Count
    /\ reader' = [reader EXCEPT ![r] = Idle]
    /\ UNCHANGED <<version, entry, payment, missed>>

\* The time to live runs out.
Expire(u) ==
    /\ entry[u] # NoEntry
    /\ entry[u].expires
    /\ entry' = [entry EXCEPT ![u] = NoEntry]
    /\ UNCHANGED <<version, payment, reader, missed, faults>>

-----------------------------------------------------------------------------

Init ==
    /\ version = [u \in User |-> 0]
    /\ entry = [u \in User |-> NoEntry]
    /\ payment = [p \in Payment |-> Uncommitted]
    /\ reader = [r \in Reader |-> Idle]
    /\ missed = {}
    /\ faults = 0

Next ==
    \/ \E p \in Payment : Commit(p) \/ Invalidate(p) \/ InvalidateFails(p)
    \/ \E r \in Reader : \/ \E u \in User : Authenticate(r, u)
                         \/ Get(r) \/ Fill(r) \/ ReadFails(r)
    \/ \E u \in User : Expire(u)

Spec == Init /\ [][Next]_vars

\* Handlers that have begun go on, and Redis expires keys.  No request has to
\* arrive, and no payment has to be made.
FairSpec ==
    /\ Spec
    /\ \A p \in Payment : WF_vars(Invalidate(p))
    /\ \A r \in Reader : WF_vars(Get(r) \/ Fill(r))
    /\ \A u \in User : WF_vars(Expire(u))

-----------------------------------------------------------------------------
(* Correctness.                                                            *)

\* Types of the database, of Redis and of the handlers.
TypeOK ==
    /\ version \in [User -> Version]
    /\ entry \in [User -> Entry \cup {NoEntry}]
    /\ payment \in [Payment -> Keys \cup {Uncommitted}]
    /\ reader \in [Reader -> Session \cup {Idle}]
    /\ missed \subseteq User
    /\ faults \in 0 .. MaxFaults

Current(u) == entry[u] = NoEntry \/ entry[u].version = version[u]

\* Some payment has committed a change of u and is about to delete its key.
BeingInvalidated(u) ==
    \E p \in Payment : Deleting(p) /\ u \in ElementsOf(payment[p])

\* What deletion after the commit achieves, short of the consistency the comment
\* beside it promises: an out-of-date entry is about to be deleted, or its
\* deletion failed, or a reader whose request overlapped the payment put it
\* there, with the balance it had loaded before.
StaleOnlyByOverlap ==
    \A u \in User : Current(u) \/ BeingInvalidated(u) \/ u \in missed
                               \/ entry[u].raced

\* Staleness passes: once payments have stopped, every key comes to be absent
\* or current and stays so, even where a deletion failed or a fill raced.
EventuallyCurrent == <>[](\A u \in User : Current(u))

=====================================================================
