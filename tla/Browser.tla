------------------------------- MODULE Browser -------------------------------
(***************************************************************************)
(* The web client's session: browser tabs that share localStorage, each    *)
(* with the axios interceptors of frontend/src/api/axios.ts, against the   *)
(* server of Sessions and Registration.  A 401 starts one refresh per tab; *)
(* requests that meet a 401 meanwhile wait in the tab's refreshQueue and   *)
(* are sent again with the new token.                                      *)
(*                                                                         *)
(* Both tokens are written together and cleared together, so localStorage  *)
(* holds the number of a pair, and beside it the flag isAuthenticated that *)
(* the store of authStore.ts persists and the router reads.  Requests      *)
(* stand for all API calls, with two kinds set apart: logging out, which   *)
(* ends the session, and a login with wrong credentials, whose 401 the     *)
(* interceptor takes for that of an expired access token.                  *)
(***************************************************************************)
EXTENDS Registration

CONSTANTS
    Request,   \* slots for API calls in progress, in whichever tab
    Kinds,     \* bound: the kinds of API calls that are made
    NoRequest, \* a free slot
    NoSignup   \* a tab that waits for no registration

VARIABLES
    storage,  \* the pair in localStorage, or NoToken
    flag,     \* the persisted isAuthenticated
    page,     \* whether a tab shows a public page or the application
    form,     \* the registration a tab waits for, or NoSignup
    waiting,  \* the refresh a tab waits for (isRefreshing), or NoCall
    request,  \* the API calls of all tabs
    raced     \* auxiliary: a refresh was in flight at the last logout

local == <<storage, flag, raced>>
tabs == <<page, form, waiting, request>>
browser == <<local, tabs>>
vars == <<server, history, account, browser>>

-----------------------------------------------------------------------------

\* `refreshing' is the request whose 401 started the refresh; `200', `401' and
\* `403' are answers on their way to the tab.
Status == {"sent", "200", "401", "403", "refreshing", "queued"}

\* Of "login" only those with wrong credentials; the others are Login below.
ASSUME KindsAssumption == Kinds \subseteq {"api", "logout", "login"}

ApiCall == [tab : Client, kind : Kinds, token : Token \cup {NoToken},
            retried : BOOLEAN, status : Status]

ASSUME NoRequestAssumption == NoRequest \notin ApiCall /\ NoSignup \notin Signup

Is(q, status) == request[q] # NoRequest /\ request[q].status = status
TabOf(q) == request[q].tab
Of(t) == {q \in Request : request[q] # NoRequest /\ TabOf(q) = t}

\* Bound: the pairs issued, and those that rotations and registrations under
\* way, a 401 for every request and every event to come may yet take.
Spoken ==
    issued + Cardinality({x \in Call : call[x] # NoCall /\ call[x].pair = NoToken})
           + Cardinality({s \in Signup : Underway(s)})
           + Cardinality(Request) + (MaxEvents - events)

\* A page is loaded: the tab's requests, queue, isRefreshing and form are gone.
Load(t, p) ==
    /\ page' = [page EXCEPT ![t] = p]
    /\ form' = [form EXCEPT ![t] = NoSignup]
    /\ waiting' = [waiting EXCEPT ![t] = NoCall]
    /\ request' = [q \in Request |-> IF q \in Of(t) THEN NoRequest ELSE request[q]]

\* A refresh of t in flight will not be heard.
Orphaned(t) == IF waiting[t] = NoCall THEN {} ELSE {call[waiting[t]].token}

\* clearAuth, which knows nothing of the flag, and location.href = '/login'.
ForceLogout(t) ==
    /\ storage' = NoToken
    /\ UNCHANGED <<flag, raced>>
    /\ Load(t, "login")

\* setAuth, and on to the dashboard.
SetAuth(t, n) ==
    /\ storage' = n
    /\ flag' = TRUE
    /\ raced' = FALSE
    /\ page' = [page EXCEPT ![t] = "app"]

-----------------------------------------------------------------------------
(* Registering, logging in and calling the API.                            *)

\* The register page submits; its button stays disabled until the answer.
Submit(t, s) ==
    /\ page[t] = "login"
    /\ form[t] = NoSignup
    /\ Spoken < MaxTokens
    /\ StartSignup(s)
    /\ form' = [form EXCEPT ![t] = s]
    /\ UNCHANGED <<local, page, waiting, request>>

\* The answer: setAuth, wherever the tab is by now, or an error message.
Registered(t) ==
    LET s == form[t] IN
    /\ s # NoSignup
    /\ ~Underway(s)
    /\ form' = [form EXCEPT ![t] = NoSignup]
    /\ IF Stands(s, "created")
       THEN SetAuth(t, signup[s].pair)
       ELSE UNCHANGED <<local, page>>
    /\ UNCHANGED <<server, history, account, waiting, request>>

\* The login page, with the right credentials: setAuth stores the pair.
Login(t) ==
    /\ Exists
    /\ page[t] = "login"
    /\ Spoken < MaxTokens
    /\ IssueAtLogin
    /\ SetAuth(t, issued + 1)
    /\ UNCHANGED <<events, account, form, waiting, request>>

\* The account holder logs in on another device.
LoginElsewhere ==
    /\ Exists
    /\ Spoken <= MaxTokens
    /\ Event
    /\ IssueAtLogin
    /\ UNCHANGED <<account, browser>>

\* Fault: the router does not ask.
AlwaysLetIn == TRUE

\* ProtectedRoute asks the persisted flag, not for tokens.
LetIn == flag

\* The user opens a protected page from a public one by its address.
OpenApp(t) ==
    /\ page[t] = "login"
    /\ LetIn
    /\ ended' = ended \cup Orphaned(t)
    /\ Load(t, "app")
    /\ UNCHANGED <<server, minted, overlap, spent, closed, events, account, local>>

\* The request interceptor attaches what localStorage holds.  The login page
\* sends logins, the application everything else.
Send(t, q, kind) ==
    /\ page[t] = (IF kind = "login" THEN "login" ELSE "app")
    /\ kind = "login" => Spoken <= MaxTokens
    /\ request[q] = NoRequest
    /\ kind = "logout" => \A p \in Of(t) : request[p].kind # "logout"
    /\ request' = [request EXCEPT ![q] =
            [tab |-> t, kind |-> kind, token |-> storage, retried |-> FALSE,
             status |-> "sent"]]
    /\ UNCHANGED <<server, history, account, local, page, form, waiting>>

\* The server's answer: 401 for wrong credentials as for an access token that is
\* not valid.  A logout that is let through deletes the refresh token.
Answer(q) ==
    LET ok == request[q].kind # "login" /\ Authorized(request[q].token) IN
    /\ Is(q, "sent")
    /\ request' = [request EXCEPT ![q].status =
            IF ~ok THEN "401" ELSE IF ~enabled THEN "403" ELSE "200"]
    /\ IF ok /\ enabled /\ request[q].kind = "logout"
       THEN DeleteAtLogout
       ELSE UNCHANGED <<server, history>>
    /\ UNCHANGED <<account, local, page, form, waiting>>

\* Fault: logging out forgets the flag but leaves the tokens.
KeepTokens(t) ==
    /\ flag' = FALSE
    /\ raced' = (\E u \in Client : waiting[u] # NoCall)
    /\ page' = [page EXCEPT ![t] = "login"]
    /\ UNCHANGED storage

\* logout() of the store: tokens and flag, in localStorage and so for all tabs.
ClearStore(t) ==
    /\ storage' = NoToken
    /\ flag' = FALSE
    /\ raced' = (\E u \in Client : waiting[u] # NoCall)
    /\ page' = [page EXCEPT ![t] = "login"]

\* The call is over: resolved, or rejected for anything but a 401.  Navbar's
\* handleLogout then clears the local state, whichever it was.
Settle(q) ==
    /\ \/ Is(q, "200") \/ Is(q, "403")
       \/ Is(q, "401") /\ request[q].retried
    /\ request' = [request EXCEPT ![q] = NoRequest]
    /\ IF request[q].kind = "logout"
       THEN ClearStore(TabOf(q))
       ELSE UNCHANGED <<local, page>>
    /\ UNCHANGED <<server, history, account, form, waiting>>

-----------------------------------------------------------------------------
(* The response interceptor's error handler.                               *)

First401(q) == Is(q, "401") /\ ~request[q].retried

\* No refresh token: to the login page.
NothingToRefresh(q) ==
    /\ First401(q)
    /\ storage = NoToken
    /\ ForceLogout(TabOf(q))
    /\ UNCHANGED <<server, history, account>>

\* A refresh of this tab is in flight: wait for it.
Enqueue(q) ==
    /\ First401(q)
    /\ storage # NoToken
    /\ waiting[TabOf(q)] # NoCall
    /\ request' = [request EXCEPT ![q].status = "queued"]
    /\ UNCHANGED <<server, history, account, local, page, form, waiting>>

\* Fault: isRefreshing is not looked at.
MayRefreshAlways(t) == t \in Client

\* isRefreshing is false.
MayRefresh(t) == waiting[t] = NoCall

\* Fault: the missing refresh token is not noticed.
BeginRefreshBlind(q, x) ==
    /\ First401(q)
    /\ MayRefresh(TabOf(q))
    /\ StartRefresh(x, TabOf(q), storage)
    /\ waiting' = [waiting EXCEPT ![TabOf(q)] = x]
    /\ request' = [request EXCEPT ![q].status = "refreshing", ![q].retried = TRUE]
    /\ UNCHANGED <<account, local, page, form>>

\* POST /auth/refresh with the refresh token localStorage holds now.
BeginRefresh(q, x) ==
    /\ First401(q)
    /\ storage # NoToken
    /\ MayRefresh(TabOf(q))
    /\ StartRefresh(x, TabOf(q), storage)
    /\ waiting' = [waiting EXCEPT ![TabOf(q)] = x]
    /\ request' = [request EXCEPT ![q].status = "refreshing", ![q].retried = TRUE]
    /\ UNCHANGED <<account, local, page, form>>

\* Fault: only the request that asked is sent again, the queue is forgotten.
ResentAlone(t, n) ==
    [q \in Request |->
        IF q \in Of(t) /\ request[q].status = "refreshing"
        THEN [request[q] EXCEPT !.status = "sent", !.token = n]
        ELSE request[q]]

\* The requests of t sent again with pair n: the queue, and the one that asked.
Resent(t, n) ==
    [q \in Request |->
        IF q \in Of(t) /\ request[q].status \in {"refreshing", "queued"}
        THEN [request[q] EXCEPT !.status = "sent", !.token = n]
        ELSE request[q]]

\* The new pair arrives: store it and send again what waited for it.
RefreshArrives(t) ==
    LET x == waiting[t] IN
    /\ x # NoCall
    /\ At(x, "granted")
    /\ storage' = call[x].pair
    /\ request' = Resent(t, call[x].pair)
    /\ waiting' = [waiting EXCEPT ![t] = NoCall]
    /\ call' = [call EXCEPT ![x] = NoCall]
    /\ UNCHANGED <<stored, issued, expired, lapsed, enabled, history, account,
                   flag, raced, page, form>>

\* The refresh failed: to the login page.
RefreshRefused(t) ==
    LET x == waiting[t] IN
    /\ x # NoCall
    /\ At(x, "refused")
    /\ ForceLogout(t)
    /\ call' = [call EXCEPT ![x] = NoCall]
    /\ UNCHANGED <<stored, issued, expired, lapsed, enabled, history, account>>

\* The answer of a refresh nobody waits for any longer.
Unheard(x) ==
    /\ At(x, "granted") \/ At(x, "refused")
    /\ \A t \in Client : waiting[t] # x
    /\ call' = [call EXCEPT ![x] = NoCall]
    /\ UNCHANGED <<stored, issued, expired, lapsed, enabled, history, account,
                   browser>>

\* The user reloads a tab, and ProtectedRoute asks again.
Reload(t) ==
    /\ page[t] = "app" \/ form[t] # NoSignup
    /\ Event
    /\ ended' = ended \cup Orphaned(t)
    /\ Load(t, IF LetIn THEN page[t] ELSE "login")
    /\ UNCHANGED <<server, minted, overlap, spent, closed, account, local>>

\* Bound: no answer that carries pair n is still on its way.  Answers take less
\* than the fifteen minutes of an access token.
Heard(n) ==
    /\ \A x \in Call : At(x, "granted") => call[x].pair # n
    /\ \A t \in Client : form[t] # NoSignup => signup[form[t]].pair # n

\* Time, bounded so that a rotation never wants a number to issue.
TimePasses ==
    /\ \/ Spoken <= MaxTokens /\ Heard(expired + 1) /\ AccessExpires
       \/ RefreshLapses
    /\ UNCHANGED <<account, browser>>

-----------------------------------------------------------------------------

Init ==
    /\ RegistrationInit
    /\ storage = NoToken
    /\ flag = FALSE
    /\ raced = FALSE
    /\ page = [t \in Client |-> "login"]
    /\ form = [t \in Client |-> NoSignup]
    /\ waiting = [t \in Client |-> NoCall]
    /\ request = [q \in Request |-> NoRequest]

\* What the tab does with an answer.
React(q) ==
    Settle(q) \/ NothingToRefresh(q) \/ Enqueue(q) \/ \E x \in Call : BeginRefresh(q, x)

\* The server's own steps.
Serve ==
    \/ Exists /\ SupportSetsEnabled /\ UNCHANGED account
    \/ \E x \in Call : (Refresh(x) \/ RefreshFails(x)) /\ UNCHANGED account
    \/ \E s \in Signup : Register(s) \/ SignupFails(s)

Next ==
    \/ LoginElsewhere \/ TimePasses
    \/ Serve /\ UNCHANGED browser
    \/ \E t \in Client :
        \/ Registered(t) \/ Login(t) \/ OpenApp(t)
        \/ RefreshArrives(t) \/ RefreshRefused(t) \/ Reload(t)
        \/ \E s \in Signup : Submit(t, s)
        \/ \E q \in Request, kind \in Kinds : Send(t, q, kind)
    \/ \E q \in Request : Answer(q) \/ React(q)
    \/ \E x \in Call : Unheard(x)

Spec == Init /\ [][Next]_vars

\* The server answers, the event loop of a tab runs, and nothing else is owed:
\* no user has to call, no time has to pass.
FairSpec ==
    /\ Spec
    /\ \A q \in Request : WF_vars(Answer(q) \/ React(q))
    /\ \A x \in Call :
        WF_vars((Refresh(x) /\ UNCHANGED <<account, browser>>) \/ Unheard(x))
    /\ \A s \in Signup : WF_vars(Register(s) /\ UNCHANGED browser)
    /\ \A t \in Client : WF_vars(RefreshArrives(t) \/ RefreshRefused(t))

-----------------------------------------------------------------------------
(* Correctness.                                                            *)

\* Types of the server's and of the browser's state.
TypeOK ==
    /\ ServerTypeOK
    /\ RegistrationTypeOK
    /\ storage \in Token \cup {NoToken}
    /\ flag \in BOOLEAN /\ raced \in BOOLEAN
    /\ page \in [Client -> {"login", "app"}]
    /\ form \in [Client -> Signup \cup {NoSignup}]
    /\ waiting \in [Client -> Call \cup {NoCall}]
    /\ request \in [Request -> ApiCall \cup {NoRequest}]

\* After a logout in any tab the browser holds no tokens until somebody logs in
\* or registers, and the other way round who has tokens is let in: only a
\* refresh in flight at the logout can bring tokens back.
TokensMatchFlag == (storage # NoToken /\ ~flag) => raced

\* The calls of tab t that wait for a refresh: those whose 401 started one, and
\* its queue.
Asking(t) == {q \in Of(t) : request[q].status = "refreshing"}
Queued(t) == {q \in Of(t) : request[q].status = "queued"}

\* Nobody waits for an answer that never comes: while calls of a tab wait, the
\* tab has a refresh in flight that will be answered to it, and only one of
\* them asked for it, however refreshes, reloads and logouts interleave.
NobodyStranded ==
    \A t \in Client :
        IF waiting[t] = NoCall
        THEN Asking(t) = {} /\ Queued(t) = {}
        ELSE /\ \E q \in Request : Asking(t) = {q}
             /\ call[waiting[t]] # NoCall /\ call[waiting[t]].by = t

\* Every API call comes to an end: a request that waits for a refresh is sent
\* again, rejected, or gone with its page, however the refresh ends.
RequestsSettle ==
    \A q \in Request : request[q] # NoRequest ~> request[q] = NoRequest

=============================================================================
