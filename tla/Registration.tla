---------------------------- MODULE Registration ----------------------------
(***************************************************************************)
(* How the account of Sessions comes about: POST /auth/register            *)
(* (app/services/auth_service.py, register_user).  The uniqueness query,   *)
(* the INSERT and the commit are steps of one database transaction, the    *)
(* first refresh token is stored after it, and several requests may name   *)
(* the same email address.                                                 *)
(*                                                                         *)
(* One email address; addresses share no state.  Other refusals (a weak    *)
(* password, the hourly limit) come before any state is touched.           *)
(***************************************************************************)
EXTENDS Sessions

CONSTANTS
    Signup    \* bound: registration requests for the address

VARIABLES
    rows,    \* requests whose users row is committed
    wallets, \* requests whose wallets row is committed
    signup   \* the handlers

account == <<rows, wallets, signup>>

-----------------------------------------------------------------------------

\* `check' to `first' are the awaits of register_user: the query, the flush of
\* the user, the commit with the wallet, and the SET of the refresh token.
\* `conflict' is a 409, `clash' the 500 of an IntegrityError.
SignupStep == {"unsent", "check", "insert", "commit", "first",
               "created", "conflict", "clash", "error"}

Applicant == [step : SignupStep, pair : Token \cup {NoToken}]

Stands(s, step) == signup[s].step = step

Underway(s) == signup[s].step \in {"check", "insert", "commit", "first"}

Proceed(s, step) == signup' = [signup EXCEPT ![s].step = step]

Exists == rows # {}

-----------------------------------------------------------------------------

StartSignup(s) ==
    /\ Stands(s, "unsent")
    /\ Proceed(s, "check")
    /\ UNCHANGED <<rows, wallets, server, history>>

\* SELECT ... WHERE email: 409 when the address has an account.
CheckEmail(s) ==
    /\ Stands(s, "check")
    /\ Proceed(s, IF Exists THEN "conflict" ELSE "insert")
    /\ UNCHANGED <<rows, wallets, server, history>>

\* Fault: an error response leaves its transaction open.
KeptOpen == {s \in Signup : Stands(s, "commit") \/ Stands(s, "error")}

\* Handlers whose users row is inserted and not committed.
Uncommitted == {s \in Signup : Stands(s, "commit")}

\* Fault: email is not UNIQUE.
InsertAnyway(s) ==
    /\ Stands(s, "insert")
    /\ Proceed(s, "commit")
    /\ UNCHANGED <<rows, wallets, server, history>>

\* flush: the UNIQUE index waits for another's uncommitted row and then refuses
\* the second one.
InsertUser(s) ==
    /\ Stands(s, "insert")
    /\ Uncommitted = {}
    /\ Proceed(s, IF Exists THEN "clash" ELSE "commit")
    /\ UNCHANGED <<rows, wallets, server, history>>

\* Fault: the user is committed before the wallet is added.
CommitUserOnly(s) ==
    /\ Stands(s, "commit")
    /\ rows' = rows \cup {s}
    /\ Proceed(s, "first")
    /\ UNCHANGED <<wallets, server, history>>

\* User and primary wallet in one commit.
CommitAccount(s) ==
    /\ Stands(s, "commit")
    /\ rows' = rows \cup {s}
    /\ wallets' = wallets \cup {s}
    /\ Proceed(s, "first")
    /\ UNCHANGED <<server, history>>

\* store_refresh_token: SET over whatever a login may have stored by now.
StoreFirst(s) ==
    /\ Stands(s, "first")
    /\ issued < MaxTokens
    /\ issued' = issued + 1
    /\ stored' = issued + 1
    /\ ended' = ended \cup Displaced(issued + 1)
    /\ closed' = FALSE
    /\ signup' = [signup EXCEPT ![s] = [step |-> "created", pair |-> issued + 1]]
    /\ UNCHANGED <<rows, wallets, expired, lapsed, enabled, call, minted, overlap,
                   spent, events>>

\* The database, Redis or the process fails: before the commit nothing is left
\* of the request, after it an account nobody was told of.
SignupFails(s) ==
    /\ Underway(s)
    /\ Event
    /\ Proceed(s, "error")
    /\ UNCHANGED <<rows, wallets, server, minted, overlap, spent, ended, closed>>

-----------------------------------------------------------------------------

RegistrationInit ==
    /\ ServerInit
    /\ rows = {}
    /\ wallets = {}
    /\ signup = [s \in Signup |-> [step |-> "unsent", pair |-> NoToken]]

\* The handler's own steps.
Register(s) == CheckEmail(s) \/ InsertUser(s) \/ CommitAccount(s) \/ StoreFirst(s)

-----------------------------------------------------------------------------
(* Correctness.                                                            *)

RegistrationTypeOK ==
    /\ rows \subseteq Signup /\ wallets \subseteq Signup
    /\ signup \in [Signup -> Applicant]

Verdict(step) ==
    CASE step = "created" -> "created"
      [] step \in {"conflict", "clash"} -> "taken"
      [] step = "error" -> "error"
      [] OTHER -> "none"

Promise == INSTANCE AccountPromise WITH
    Signup <- Signup,
    rows <- rows,
    verdict <- [s \in Signup |-> Verdict(signup[s].step)]

\* However registrations overlap and fail, the address is claimed once, and the
\* answers agree with that: the query, the constraint and the order of commit
\* and answer together act like one atomic claim.
KeepsPromise == Promise!Spec

\* An account never lacks its primary wallet and never has two.
WalletForEveryAccount ==
    /\ wallets = rows
    /\ \A s1, s2 \in rows : s1 = s2

\* Every registration is answered: nobody waits for ever for another's INSERT.
SignupsEnd == []<>(\A s \in Signup : ~Underway(s))

=============================================================================
