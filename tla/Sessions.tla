------------------------------ MODULE Sessions ------------------------------
(***************************************************************************)
(* The server's side of one account's session (app/services/auth_service.py *)
(* and the refresh-token functions of app/core/security.py).  Redis keeps  *)
(* one key per account, the refresh token that may be exchanged next;      *)
(* login overwrites it, logout deletes it, and POST /auth/refresh rotates  *)
(* it in separate Redis commands: GET, DEL, and SET of the successor.      *)
(*                                                                         *)
(* Accounts share no state.  Tokens are numbered as they are issued; number *)
(* n stands for the pair (access token, refresh token) of one answer.      *)
(***************************************************************************)
EXTENDS Integers, FiniteSets

CONSTANTS
    Client,    \* who calls POST /auth/refresh (in Browser: tabs)
    Call,      \* slots for calls of POST /auth/refresh in progress
    MaxTokens, \* bound: token pairs issued in one behaviour
    MaxEvents, \* bound: faults and acts of others in one behaviour
    NoCall     \* a slot without a call

ASSUME BoundsAssumption == MaxTokens \in Nat /\ MaxEvents \in Nat

VARIABLES
    stored,   \* the token under refresh:{user_id}, or NoToken
    issued,   \* number of pairs issued
    expired,  \* access tokens up to this one have expired (15 minutes)
    lapsed,   \* refresh tokens up to this one have expired (7 days)
    enabled,  \* users.is_active
    call,     \* the refresh handlers
    minted,   \* auxiliary: pairs issued in exchange for each token
    overlap,  \* auxiliary: tokens two handlers held at once
    spent,    \* auxiliary: clients that submitted each token
    ended,    \* auxiliary: tokens some event took the session from
    closed,   \* auxiliary: logged out, and no handler could know better
    events    \* events so far

server == <<stored, issued, expired, lapsed, enabled, call>>
history == <<minted, overlap, spent, ended, closed, events>>

-----------------------------------------------------------------------------

Token == 1 .. MaxTokens
NoToken == 0

\* `read' to `store' are the awaits of refresh_tokens, in order; the last two
\* are answers on their way to the client.
HandlerStep == {"read", "revoke", "delete", "user", "store", "refused", "granted"}

Handler == [by : Client, token : Token, step : HandlerStep, pair : Token \cup {NoToken}]

ASSUME NoCallAssumption == NoCall \notin Handler /\ NoCall \notin Call

At(x, step) == call[x] # NoCall /\ call[x].step = step

MoveTo(x, step) == call' = [call EXCEPT ![x].step = step]

\* Handlers that have seen their token in Redis and may still issue a pair.
Matched == {x \in Call : \E step \in {"delete", "user", "store"} : At(x, step)}

Event ==
    /\ events < MaxEvents
    /\ events' = events + 1

\* Tokens that lose the session when the key is set to n or deleted (n = NoToken).
Displaced(n) == {stored} \ {n, NoToken}

-----------------------------------------------------------------------------
(* refresh_tokens.                                                         *)

\* decode_token accepts the submitted token, or refuses one that has expired.
StartRefresh(x, c, token) ==
    /\ call[x] = NoCall
    /\ call' = [call EXCEPT ![x] =
            [by |-> c, token |-> token, pair |-> NoToken,
             step |-> IF token <= lapsed THEN "refused" ELSE "read"]]
    /\ spent' = [spent EXCEPT ![token] = @ \cup {c}]
    /\ UNCHANGED <<stored, issued, expired, lapsed, enabled, minted, overlap,
                   ended, closed, events>>

\* What the comparison with the stored token leads to.
NextOf(token) ==
    IF stored = NoToken THEN "refused"
    ELSE IF stored # token THEN "revoke"
    ELSE "delete"

\* Redis GET.
ReadStored(x) ==
    /\ At(x, "read")
    /\ MoveTo(x, NextOf(call[x].token))
    /\ overlap' = IF \E y \in Call \ {x} :
                        At(y, "delete") /\ call[y].token = call[x].token
                  THEN overlap \cup {call[x].token} ELSE overlap
    /\ UNCHANGED <<stored, issued, expired, lapsed, enabled, minted, spent,
                   ended, closed, events>>

\* A token that is not the stored one ends the account's session: DEL, 401.
Revoke(x) ==
    /\ At(x, "revoke")
    /\ stored' = NoToken
    /\ ended' = ended \cup Displaced(NoToken)
    /\ MoveTo(x, "refused")
    /\ UNCHANGED <<issued, expired, lapsed, enabled, minted, overlap, spent,
                   closed, events>>

\* Fault: the old token stays until the new one overwrites it.
KeepOld(x) ==
    /\ At(x, "delete")
    /\ MoveTo(x, "user")
    /\ UNCHANGED <<stored, issued, expired, lapsed, enabled, history>>

\* DEL of the old token.  By now the key may hold another one.
DeleteOld(x) ==
    /\ At(x, "delete")
    /\ stored' = NoToken
    /\ ended' = ended \cup (Displaced(NoToken) \ {call[x].token})
    /\ MoveTo(x, "user")
    /\ UNCHANGED <<issued, expired, lapsed, enabled, minted, overlap, spent,
                   closed, events>>

\* db.get(User): 403 when the account is disabled; the session is gone.
LoadUser(x) ==
    /\ At(x, "user")
    /\ MoveTo(x, IF enabled THEN "store" ELSE "refused")
    /\ ended' = IF enabled THEN ended ELSE ended \cup {call[x].token}
    /\ UNCHANGED <<stored, issued, expired, lapsed, enabled, minted, overlap,
                   spent, closed, events>>

\* The successor is made and SET, over whatever the key holds.
StoreNew(x) ==
    /\ At(x, "store")
    /\ issued < MaxTokens
    /\ issued' = issued + 1
    /\ stored' = issued + 1
    /\ ended' = ended \cup Displaced(issued + 1)
    /\ minted' = [minted EXCEPT ![call[x].token] = @ + 1]
    /\ call' = [call EXCEPT ![x] =
            [by |-> call[x].by, token |-> call[x].token, pair |-> issued + 1,
             step |-> "granted"]]
    /\ UNCHANGED <<expired, lapsed, enabled, overlap, spent, closed, events>>

\* Redis, the database or the process fails, or an answer is lost: the client
\* sees an error, whatever was done.
RefreshFails(x) ==
    /\ call[x] # NoCall
    /\ ~At(x, "refused")
    /\ Event
    /\ ended' = ended \cup {call[x].token} \cup ({call[x].pair} \ {NoToken})
    /\ MoveTo(x, "refused")
    /\ UNCHANGED <<stored, issued, expired, lapsed, enabled, minted, overlap,
                   spent, closed>>

-----------------------------------------------------------------------------
(* Login, logout, and what happens by itself.                              *)

\* login_user, once the password is right: a pair is issued and SET.
IssueAtLogin ==
    /\ enabled
    /\ issued < MaxTokens
    /\ issued' = issued + 1
    /\ stored' = issued + 1
    /\ ended' = ended \cup Displaced(issued + 1)
    /\ closed' = FALSE
    /\ UNCHANGED <<expired, lapsed, enabled, call, minted, overlap, spent>>

\* get_current_user lets the bearer of access token n through; 0 is no token.
Authorized(n) == n > expired

\* Fault: logout leaves the key alone.
ForgetfulLogout ==
    /\ closed' = (Matched = {})
    /\ UNCHANGED <<stored, issued, expired, lapsed, enabled, call, minted,
                   overlap, spent, ended, events>>

\* logout: DEL.
DeleteAtLogout ==
    /\ stored' = NoToken
    /\ closed' = (Matched = {})
    /\ ended' = ended \cup Displaced(NoToken) \cup {call[x].token : x \in Matched}
    /\ UNCHANGED <<issued, expired, lapsed, enabled, call, minted, overlap,
                   spent, events>>

\* Fifteen minutes pass over the oldest access token, or seven days over the
\* oldest refresh token and its Redis key.
AccessExpires ==
    /\ expired < issued
    /\ expired' = expired + 1
    /\ UNCHANGED <<stored, issued, lapsed, enabled, call, history>>

RefreshLapses ==
    /\ lapsed < expired
    /\ Event
    /\ lapsed' = lapsed + 1
    /\ stored' = IF stored = lapsed + 1 THEN NoToken ELSE stored
    /\ UNCHANGED <<issued, expired, enabled, call, minted, overlap, spent, ended,
                   closed>>

\* Support disables the account or enables it again.
SupportSetsEnabled ==
    /\ Event
    /\ enabled' = ~enabled
    /\ UNCHANGED <<stored, issued, expired, lapsed, call, minted, overlap,
                   spent, ended, closed>>

-----------------------------------------------------------------------------

ServerInit ==
    /\ stored = NoToken
    /\ issued = 0 /\ expired = 0 /\ lapsed = 0
    /\ enabled = TRUE
    /\ call = [x \in Call |-> NoCall]
    /\ minted = [n \in Token |-> 0]
    /\ overlap = {}
    /\ spent = [n \in Token |-> {}]
    /\ ended = {}
    /\ closed = FALSE
    /\ events = 0

\* The refresh handler's own steps.
Refresh(x) == ReadStored(x) \/ Revoke(x) \/ DeleteOld(x) \/ LoadUser(x) \/ StoreNew(x)

-----------------------------------------------------------------------------
(* Correctness.                                                            *)

ServerTypeOK ==
    /\ stored \in Token \cup {NoToken}
    /\ issued \in 0 .. MaxTokens /\ expired \in 0 .. issued /\ lapsed \in 0 .. expired
    /\ enabled \in BOOLEAN
    /\ call \in [Call -> Handler \cup {NoCall}]
    /\ minted \in [Token -> 0 .. MaxTokens]
    /\ overlap \subseteq Token
    /\ spent \in [Token -> SUBSET Client]
    /\ ended \subseteq Token
    /\ closed \in BOOLEAN
    /\ events \in 0 .. MaxEvents

\* A refresh token is exchanged for one pair, and for more only when handlers
\* overlapped between the GET of the stored token and its DEL.
SecondPairOnlyByOverlap ==
    \A n \in Token : minted[n] > 1 => n \in overlap

\* After a logout that met no rotation half done, the account has no session
\* until somebody logs in: refreshes that come later are refused.
LogoutHolds == closed => stored = NoToken

\* A client is refused a refresh for a cause: the token lapsed, some event
\* took the session from it, or another client submitted the same token.  A
\* client by itself is never logged out by the rotation.
RefusalHasCause ==
    \A x \in Call : At(x, "refused") =>
        \/ call[x].token <= lapsed
        \/ call[x].token \in ended
        \/ \E c \in Client \ {call[x].by} : c \in spent[call[x].token]

=============================================================================
