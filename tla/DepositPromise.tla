--------------------------- MODULE DepositPromise ---------------------------
(***************************************************************************)
(* What a deposit's status promises the account holder: it is PENDING when *)
(* the deposit is accepted, it settles as COMPLETED or FAILED, it settles  *)
(* once, and it does not stay PENDING for ever.                            *)
(*                                                                         *)
(* TransactionStatus, app/models/transaction.py.                           *)
(***************************************************************************)
CONSTANT Deposit

VARIABLE status

Absent == "ABSENT"

Init == status = [d \in Deposit |-> Absent]

Accept(d) ==
    /\ status[d] = Absent
    /\ status' = [status EXCEPT ![d] = "PENDING"]

Complete(d) ==
    /\ status[d] = "PENDING"
    /\ status' = [status EXCEPT ![d] = "COMPLETED"]

\* Several deposits may be given up in one statement.
GiveUp(D) ==
    /\ \A d \in D : status[d] = "PENDING"
    /\ status' = [d \in Deposit |-> IF d \in D THEN "FAILED" ELSE status[d]]

Next ==
    \/ \E d \in Deposit : Accept(d) \/ Complete(d)
    \/ \E D \in SUBSET Deposit : GiveUp(D)

Settled(d) == status[d] \in {"COMPLETED", "FAILED"}

\* A status moves along PENDING, then COMPLETED or FAILED, and never back.
Spec == Init /\ [][Next]_status

\* Nothing stays PENDING for ever.
Settles == \A d \in Deposit : (status[d] = "PENDING") ~> Settled(d)

=============================================================================
