----------------------------- MODULE RateLimiter -----------------------------
(***************************************************************************)
(* The transfer limit of one user (app/middleware/rate_limiter.py): one    *)
(* Redis counter, incremented by every transfer request that reaches the   *)
(* handler and given a time to live when it has none, in one MULTI.        *)
(*                                                                         *)
(* Users share no counter.  There is no clock but the ages of requests: a  *)
(* slot remembers a request for Window ticks and is then free again, so    *)
(* that time goes on for ever in finitely many states.  A request without  *)
(* a valid access token is not counted; nor is one that meets Redis down,  *)
(* which is answered 500 and changes nothing.                              *)
(***************************************************************************)
EXTENDS Integers, FiniteSets

CONSTANTS
    Request,   \* bound: slots for the requests of the last Window ticks
    Limit,     \* _TRANSFER_LIMIT (5 in the code)
    Window,    \* _TRANSFER_WINDOW_SECONDS (60), in ticks
    MaxLosses, \* bound: restarts of Redis that lose the counter
    Free       \* a slot without a request

ASSUME LimitAssumption  == Limit \in Nat \ {0} /\ Window \in Nat \ {0}
ASSUME LossesAssumption == MaxLosses \in Nat
ASSUME RequestAssumption == IsFiniteSet(Request)

VARIABLES
    count,  \* the counter's value; 0 when the key does not exist
    ttl,    \* ticks until the key expires; 0 for a key without expiry
    recent, \* the requests of the last Window ticks
    losses  \* how often Redis lost the key

vars == <<count, ttl, recent, losses>>

-----------------------------------------------------------------------------

\* `failed': counted, but the reply of Redis did not arrive, a 500.
Outcome == {"admitted", "limited", "failed"}

Slot == [outcome : Outcome, age : 0 .. Window - 1]

ASSUME FreeAssumption == Free \notin Slot

Has(r, outcome) == recent[r] # Free /\ recent[r].outcome = outcome

Admitted == {r \in Request : Has(r, "admitted")}

\* Requests that used up one of the window's transfers, heard of or not.
Spent == {r \in Request : Has(r, "admitted") \/ Has(r, "failed")}

-----------------------------------------------------------------------------

\* Fault: EXPIRE without NX.
Renewed == Window

\* Fault: no EXPIRE.
Unchanging == ttl

\* EXPIRE ... NX: only a key that has no time to live is given one.
Expiry == IF ttl = 0 THEN Window ELSE ttl

\* INCR and EXPIRE, executed together.
Hit(r, outcome) ==
    /\ recent[r] = Free
    /\ count' = count + 1
    /\ ttl' = Expiry
    /\ recent' = [recent EXCEPT ![r] = [outcome |-> outcome, age |-> 0]]
    /\ UNCHANGED losses

\* Fault: the comparison is off by one.
OneTooMany == count <= Limit

\* The request about to be counted is within the limit: not count > LIMIT.
Within == count + 1 <= Limit

Admit(r) == Within /\ Hit(r, "admitted")

\* 429.
Refuse(r) == ~Within /\ Hit(r, "limited")

\* EXEC was carried out and its reply is lost: the exception is not caught.
ReplyLost(r) == Hit(r, "failed")

\* Redis restarts without the key.
Lose ==
    /\ count > 0
    /\ losses < MaxLosses
    /\ count' = 0
    /\ ttl' = 0
    /\ losses' = losses + 1
    /\ UNCHANGED recent

\* A request one tick later.
Older(slot) ==
    IF slot = Free \/ slot.age + 1 = Window THEN Free
    ELSE [slot EXCEPT !.age = @ + 1]

\* Time passes; Redis drops the key when its time to live is over.
Tick ==
    /\ ttl' = IF ttl = 0 THEN 0 ELSE ttl - 1
    /\ count' = IF ttl = 1 THEN 0 ELSE count
    /\ recent' = [r \in Request |-> Older(recent[r])]
    /\ UNCHANGED losses

-----------------------------------------------------------------------------

Init ==
    /\ count = 0
    /\ ttl = 0
    /\ recent = [r \in Request |-> Free]
    /\ losses = 0

Next ==
    \/ \E r \in Request : Admit(r) \/ Refuse(r) \/ ReplyLost(r)
    \/ Lose
    \/ Tick

Spec == Init /\ [][Next]_vars

\* Time passes.
FairSpec == Spec /\ WF_vars(Tick)

-----------------------------------------------------------------------------
(* Correctness.                                                            *)

\* Types.  No live window counts more requests than there are slots.
TypeOK ==
    /\ count \in 0 .. Cardinality(Request)
    /\ ttl \in 0 .. Window
    /\ recent \in [Request -> Slot \cup {Free}]
    /\ losses \in 0 .. MaxLosses

\* What a fixed window promises of a sliding one: in any Window ticks a user
\* makes fewer than twice Limit transfers, the first of two windows having
\* begun with one that is too old.  Each loss of the counter may add Limit.
WindowBudget == Cardinality(Admitted) < (2 + losses) * Limit

\* A transfer is refused only when the limit was used up less than a window
\* ago: refusals do not count against the user, and retrying is not punished.
LimitedOnlyWhenSpent ==
    \A r \in Request :
        (Has(r, "limited") /\ recent[r].age = 0) => Cardinality(Spent) >= Limit

\* The 429's Retry-After: a user who waits that long is let in.
RetryAfterSuffices == (\A r \in Request : recent[r] = Free) => Within

\* Nobody is locked out for ever, however often they keep trying.
LockoutEnds == []<>Within

=============================================================================
