--------------------------- MODULE AccountPromise ---------------------------
(***************************************************************************)
(* What POST /auth/register promises of one email address: the address is  *)
(* claimed once, by one request; only that request may be told that it     *)
(* registered, and another is turned down only because the address is      *)
(* taken.  Any of them may hear of an error instead.                       *)
(*                                                                         *)
(* responses of the route, app/routes/auth.py, and the UNIQUE constraint   *)
(* on users.email, app/models/user.py.                                     *)
(***************************************************************************)
CONSTANT Signup

VARIABLES
    rows,    \* the request whose account exists
    verdict  \* what each request is told

Init ==
    /\ rows = {}
    /\ verdict = [s \in Signup |-> "none"]

Claim(s) ==
    /\ rows = {}
    /\ rows' = {s}
    /\ verdict[s] = "none"
    /\ UNCHANGED verdict

Tell(s, answer) ==
    /\ verdict[s] = "none"
    /\ verdict' = [verdict EXCEPT ![s] = answer]
    /\ UNCHANGED rows

Welcome(s) == s \in rows /\ Tell(s, "created")

TurnDown(s) == rows # {} /\ s \notin rows /\ Tell(s, "taken")

Fail(s) == Tell(s, "error")

Next == \E s \in Signup : Claim(s) \/ Welcome(s) \/ TurnDown(s) \/ Fail(s)

Spec == Init /\ [][Next]_<<rows, verdict>>

=============================================================================
