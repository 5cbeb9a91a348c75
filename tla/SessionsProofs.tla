--------------------------- MODULE SessionsProofs ---------------------------
(***************************************************************************)
(* Safety of sessions and of registration, for any tabs, requests, calls   *)
(* and registrations, and any bounds: the theorems are about Browser, in   *)
(* which the server of Sessions and Registration meets its clients.        *)
(*                                                                         *)
(* What a step does to the server's session is one of a few kinds          *)
(* (ServerStep), and the invariants about tokens are proved kind by kind;  *)
(* those about who submitted them (CauseInv) by what a step does to the    *)
(* tabs as well (ClientStep).                                              *)
(***************************************************************************)
EXTENDS Browser, TLAPS

-----------------------------------------------------------------------------
(* Types.                                                                  *)

\* No token has been exchanged more often than pairs were issued.
MintedBounded == \A n \in Token : minted[n] <= issued

ServerTyped == ServerTypeOK /\ MintedBounded

LEMMA Numbers ==
    /\ MaxTokens \in Nat /\ MaxEvents \in Nat
    /\ Token \subseteq Nat \ {0} /\ NoToken \notin Token
    /\ \A n \in Token : n <= MaxTokens
    /\ \A n \in Nat : n < MaxTokens => n + 1 \in Token
  BY BoundsAssumption DEF Token, NoToken

LEMMA MovesTyped ==
    ASSUME ServerTypeOK, NEW x \in Call, call[x] # NoCall,
           NEW step \in HandlerStep, MoveTo(x, step)
    PROVE  call'[x] \in Handler /\ call' \in [Call -> Handler \cup {NoCall}]
  <1>1. call[x] \in Handler
    BY DEF ServerTypeOK
  <1>2. [call[x] EXCEPT !.step = step] \in Handler
    BY <1>1 DEF Handler
  <1> QED BY <1>2 DEF MoveTo, ServerTypeOK

LEMMA FreedTyped ==
    ASSUME ServerTypeOK, NEW x \in Call, call' = [call EXCEPT ![x] = NoCall]
    PROVE  call' \in [Call -> Handler \cup {NoCall}]
  BY DEF ServerTypeOK

LEMMA DisplacedTyped ==
    ASSUME ServerTypeOK, NEW n
    PROVE  Displaced(n) \subseteq Token
  BY DEF ServerTypeOK, Displaced

\* One more pair is issued.
LEMMA OneMore ==
    ASSUME ServerTyped, issued < MaxTokens, issued' = issued + 1,
           expired' = expired, lapsed' = lapsed
    PROVE  /\ issued \in Nat /\ issued' \in Token
           /\ issued' \in 0 .. MaxTokens
           /\ expired' \in 0 .. issued' /\ lapsed' \in 0 .. expired'
           /\ minted' = minted => MintedBounded'
  <1>1. issued \in 0 .. MaxTokens /\ expired \in 0 .. issued /\ lapsed \in 0 .. expired
    BY DEF ServerTyped, ServerTypeOK
  <1>2. \A n \in Token : minted[n] \in Nat
    BY Numbers DEF ServerTyped, ServerTypeOK
  <1>3. minted' = minted => MintedBounded'
    BY <1>1, <1>2 DEF ServerTyped, MintedBounded
  <1> QED BY <1>1, <1>3, Numbers

\* Issuing a pair at login keeps the server's types.
LEMMA LoginTyped ==
    ASSUME ServerTyped, IssueAtLogin, events' = events \/ Event
    PROVE  ServerTyped'
  <1>1. events' \in 0 .. MaxEvents
    BY Numbers DEF Event, ServerTyped, ServerTypeOK
  <1> QED BY <1>1, OneMore, DisplacedTyped DEF ServerTyped, ServerTypeOK, IssueAtLogin

LEMMA LogoutTyped ==
    ASSUME ServerTyped, DeleteAtLogout
    PROVE  ServerTyped'
  <1>1. \A x \in Matched : call[x].token \in Token
    BY DEF Matched, At, ServerTyped, ServerTypeOK, Handler
  <1> QED BY <1>1, Numbers DEF ServerTyped, ServerTypeOK, MintedBounded, DeleteAtLogout,
     Displaced

LEMMA FirstTyped ==
    ASSUME ServerTyped, NEW s \in Signup, StoreFirst(s)
    PROVE  ServerTyped'
  BY OneMore, DisplacedTyped DEF ServerTyped, ServerTypeOK, StoreFirst

LEMMA TimeTyped ==
    ASSUME ServerTyped, AccessExpires \/ RefreshLapses
    PROVE  ServerTyped'
  <1>1. CASE AccessExpires
    BY <1>1 DEF ServerTyped, ServerTypeOK, MintedBounded, AccessExpires, history
  <1>2. CASE RefreshLapses
    BY <1>2, Numbers DEF ServerTyped, ServerTypeOK, MintedBounded, RefreshLapses, Event
  <1> QED BY <1>1, <1>2

LEMMA SupportTyped ==
    ASSUME ServerTyped, SupportSetsEnabled
    PROVE  ServerTyped'
  BY Numbers DEF ServerTyped, ServerTypeOK, MintedBounded, SupportSetsEnabled, Event

LEMMA StartTyped ==
    ASSUME ServerTyped, NEW x \in Call, NEW c \in Client, NEW token \in Token,
           StartRefresh(x, c, token)
    PROVE  ServerTyped'
  <1>1. call'[x] \in Handler
    BY DEF StartRefresh, ServerTyped, ServerTypeOK, Handler, HandlerStep
  <1>2. call' \in [Call -> Handler \cup {NoCall}]
    BY <1>1 DEF StartRefresh, ServerTyped, ServerTypeOK
  <1>3. spent' \in [Token -> SUBSET Client]
    BY DEF StartRefresh, ServerTyped, ServerTypeOK
  <1> QED BY <1>2, <1>3 DEF StartRefresh, ServerTyped, ServerTypeOK, MintedBounded

LEMMA RefreshTyped ==
    ASSUME ServerTyped, NEW x \in Call, Refresh(x) \/ RefreshFails(x)
    PROVE  ServerTyped'
  <1> USE DEF ServerTyped
  <1>1. CASE ReadStored(x)
    <2>1. call[x] \in Handler /\ NextOf(call[x].token) \in HandlerStep
      BY <1>1 DEF ReadStored, At, NextOf, HandlerStep, ServerTypeOK
    <2>2. call' \in [Call -> Handler \cup {NoCall}]
      BY <1>1, <2>1, MovesTyped DEF ReadStored, At
    <2>3. overlap' \subseteq Token
      BY <1>1, <2>1 DEF ReadStored, Handler, ServerTypeOK
    <2> QED BY <1>1, <2>2, <2>3 DEF ReadStored, ServerTypeOK, MintedBounded
  <1>2. CASE Revoke(x)
    <2>1. call' \in [Call -> Handler \cup {NoCall}]
      BY <1>2, MovesTyped DEF Revoke, At, HandlerStep
    <2> QED BY <1>2, <2>1, Numbers DEF Revoke, Displaced, ServerTypeOK, MintedBounded
  <1>3. CASE DeleteOld(x)
    <2>1. call' \in [Call -> Handler \cup {NoCall}]
      BY <1>3, MovesTyped DEF DeleteOld, At, HandlerStep
    <2> QED BY <1>3, <2>1, Numbers DEF DeleteOld, Displaced, ServerTypeOK, MintedBounded
  <1>4. CASE LoadUser(x)
    <2>1. call[x] \in Handler
      BY <1>4 DEF LoadUser, At, ServerTypeOK
    <2>2. call' \in [Call -> Handler \cup {NoCall}]
      BY <1>4, MovesTyped DEF LoadUser, At, HandlerStep
    <2> QED BY <1>4, <2>1, <2>2 DEF LoadUser, Handler, ServerTypeOK, MintedBounded
  <1>5. CASE StoreNew(x)
    <2>1. call[x] \in Handler
      BY <1>5 DEF StoreNew, At, ServerTypeOK
    <2>2. /\ issued + 1 \in Token /\ issued \in Nat
          /\ issued' \in 0 .. MaxTokens
          /\ expired' \in 0 .. issued' /\ lapsed' \in 0 .. expired'
      BY <1>5, OneMore DEF StoreNew
    <2>3. call' = [call EXCEPT ![x] = [by |-> call[x].by, token |-> call[x].token,
                                       pair |-> issued + 1, step |-> "granted"]]
      BY <1>5 DEF StoreNew
    <2>4. call' \in [Call -> Handler \cup {NoCall}]
      BY <2>1, <2>2, <2>3 DEF Handler, HandlerStep, ServerTypeOK
    <2>5. \A n \in Token : minted'[n] <= issued' /\ minted'[n] \in 0 .. MaxTokens
      <3>1. TAKE n \in Token
      <3>2. minted[n] \in Nat /\ minted[n] <= issued
        BY Numbers DEF ServerTypeOK, MintedBounded
      <3>3. minted'[n] \in {minted[n], minted[n] + 1}
        BY <1>5 DEF StoreNew, ServerTypeOK
      <3>4. issued' = issued + 1 /\ issued' <= MaxTokens
        BY <1>5, <2>2 DEF StoreNew
      <3> QED BY <2>2, <3>2, <3>3, <3>4, Numbers
    <2>6. minted' \in [Token -> 0 .. MaxTokens]
      BY <1>5, <2>5 DEF StoreNew, ServerTypeOK
    <2> QED BY <1>5, <2>2, <2>4, <2>5, <2>6, DisplacedTyped
        DEF StoreNew, ServerTypeOK, MintedBounded
  <1>6. CASE RefreshFails(x)
    <2>1. call[x] \in Handler
      BY <1>6 DEF RefreshFails, ServerTypeOK
    <2>2. call' \in [Call -> Handler \cup {NoCall}]
      BY <1>6, MovesTyped DEF RefreshFails, HandlerStep
    <2>3. call[x].token \in Token /\ call[x].pair \in Token \cup {NoToken}
      BY <2>1 DEF Handler
    <2>4. ended' \subseteq Token
      BY <1>6, <2>3 DEF RefreshFails, ServerTypeOK
    <2>5. events' \in 0 .. MaxEvents
      BY <1>6, Numbers DEF RefreshFails, Event, ServerTypeOK
    <2> QED BY <1>6, <2>2, <2>4, <2>5 DEF RefreshFails, ServerTypeOK, MintedBounded
  <1> QED BY <1>1, <1>2, <1>3, <1>4, <1>5, <1>6 DEF Refresh

\* A step of a refresh handler, which keeps its client and its token.
LEMMA HandlersKeep ==
    ASSUME ServerTyped, NEW x \in Call, Refresh(x) \/ RefreshFails(x)
    PROVE  /\ call[x] # NoCall /\ call'[x] # NoCall
           /\ call'[x].by = call[x].by /\ call'[x].token = call[x].token
           /\ \A y \in Call \ {x} : call'[y] = call[y]
  <1>1. call[x] # NoCall /\ call[x] \in Handler
    BY DEF Refresh, ReadStored, Revoke, DeleteOld, LoadUser, StoreNew, RefreshFails,
       At, ServerTyped, ServerTypeOK
  <1>2. ASSUME NEW step, MoveTo(x, step)
        PROVE  /\ call'[x].by = call[x].by /\ call'[x].token = call[x].token
               /\ DOMAIN call'[x] = DOMAIN call[x]
    BY <1>1, <1>2 DEF MoveTo, ServerTyped, ServerTypeOK, Handler
  <1>3. ASSUME StoreNew(x)
        PROVE  call'[x].by = call[x].by /\ call'[x].token = call[x].token
    BY <1>3 DEF StoreNew, ServerTyped, ServerTypeOK
  <1>4. call'[x].by = call[x].by /\ call'[x].token = call[x].token
    BY <1>2, <1>3 DEF Refresh, ReadStored, Revoke, DeleteOld, LoadUser, RefreshFails
  <1>5. \A y \in Call \ {x} : call'[y] = call[y]
    BY DEF Refresh, ReadStored, Revoke, DeleteOld, LoadUser, StoreNew, RefreshFails,
       MoveTo, ServerTyped, ServerTypeOK
  <1>6. call'[x] \in Handler
    <2>1. CASE StoreNew(x)
      BY <1>1, <2>1, OneMore, Numbers
         DEF StoreNew, Handler, HandlerStep, ServerTyped, ServerTypeOK
    <2>2. CASE RefreshFails(x)
      BY <1>1, <2>2, MovesTyped DEF RefreshFails, HandlerStep, ServerTyped
    <2>3. CASE ReadStored(x)
      <3>1. NextOf(call[x].token) \in HandlerStep
        BY DEF NextOf, HandlerStep
      <3> QED BY <1>1, <2>3, <3>1, MovesTyped DEF ReadStored, ServerTyped
    <2>4. CASE Revoke(x) \/ DeleteOld(x) \/ LoadUser(x)
      BY <1>1, <2>4, MovesTyped DEF Revoke, DeleteOld, LoadUser, HandlerStep, ServerTyped
    <2> QED BY <2>1, <2>2, <2>3, <2>4 DEF Refresh
  <1> QED BY <1>1, <1>4, <1>5, <1>6, NoCallAssumption

-----------------------------------------------------------------------------
(* The browser's types.                                                    *)

\* A tab waits for a refresh of its own.
Waits ==
    \A t \in Client : waiting[t] # NoCall =>
        call[waiting[t]] # NoCall /\ call[waiting[t]].by = t

Typed == TypeOK /\ MintedBounded /\ Waits

RequestsTyped == request \in [Request -> ApiCall \cup {NoRequest}]

Page == {"login", "app"}

LEMMA AnswersTyped ==
    ASSUME RequestsTyped, NEW q \in Request, request[q] # NoRequest,
           NEW status \in Status, request' = [request EXCEPT ![q].status = status]
    PROVE  RequestsTyped'
  <1>1. [request[q] EXCEPT !.status = status] \in ApiCall
    BY DEF RequestsTyped, ApiCall
  <1> QED BY <1>1 DEF RequestsTyped

LEMMA SentTyped ==
    ASSUME RequestsTyped, NEW t \in Client, NEW n \in Token \cup {NoToken}
    PROVE  Resent(t, n) \in [Request -> ApiCall \cup {NoRequest}]
  <1>1. ASSUME NEW q \in Of(t)
        PROVE  [request[q] EXCEPT !.status = "sent", !.token = n] \in ApiCall
    <2>1. request[q] \in ApiCall
      BY DEF Of, RequestsTyped
    <2> QED BY <2>1 DEF ApiCall, Status
  <1>2. Of(t) \subseteq Request
    BY DEF Of
  <1> QED BY <1>1, <1>2 DEF Resent, RequestsTyped

LEMMA LoadTyped ==
    ASSUME TypeOK, NEW t \in Client, NEW p \in Page, Load(t, p)
    PROVE  /\ page' \in [Client -> Page]
           /\ form' \in [Client -> Signup \cup {NoSignup}]
           /\ waiting' \in [Client -> Call \cup {NoCall}]
           /\ waiting'[t] = NoCall
           /\ \A u \in Client \ {t} : waiting'[u] = waiting[u]
           /\ RequestsTyped'
  BY DEF Load, TypeOK, Page, RequestsTyped

LEMMA ForcedTyped ==
    ASSUME TypeOK, NEW t \in Client, ForceLogout(t)
    PROVE  /\ storage' = NoToken
           /\ flag' \in BOOLEAN /\ raced' \in BOOLEAN
           /\ page' \in [Client -> Page]
           /\ form' \in [Client -> Signup \cup {NoSignup}]
           /\ waiting' \in [Client -> Call \cup {NoCall}]
           /\ waiting'[t] = NoCall
           /\ \A u \in Client \ {t} : waiting'[u] = waiting[u]
           /\ RequestsTyped'
  BY LoadTyped DEF ForceLogout, TypeOK, Page

LEMMA SetTyped ==
    ASSUME TypeOK, NEW t \in Client, NEW n \in Token \cup {NoToken}, SetAuth(t, n)
    PROVE  /\ storage' \in Token \cup {NoToken}
           /\ flag' \in BOOLEAN /\ raced' \in BOOLEAN
           /\ page' \in [Client -> Page]
  BY DEF SetAuth, TypeOK, Page

LEMMA ClearedTyped ==
    ASSUME TypeOK, NEW t \in Client, ClearStore(t)
    PROVE  /\ storage' \in Token \cup {NoToken}
           /\ flag' \in BOOLEAN /\ raced' \in BOOLEAN
           /\ page' \in [Client -> Page]
  <1>1. raced' \in BOOLEAN
    BY DEF ClearStore
  <1> QED BY <1>1 DEF ClearStore, TypeOK, Page

LEMMA SignupsTyped ==
    ASSUME RegistrationTypeOK, NEW s \in Signup, NEW step \in SignupStep, Proceed(s, step)
    PROVE  signup' \in [Signup -> Applicant]
  <1>1. [signup[s] EXCEPT !.step = step] \in Applicant
    BY DEF RegistrationTypeOK, Applicant
  <1> QED BY <1>1 DEF RegistrationTypeOK, Proceed

LEMMA RegisterTyped ==
    ASSUME Typed, NEW s \in Signup, Register(s) \/ SignupFails(s) \/ StartSignup(s)
    PROVE  RegistrationTypeOK' /\ ServerTyped' /\ call' = call
  <1> USE DEF Typed, TypeOK, ServerTyped
  <1>1. CASE StartSignup(s)
    BY <1>1, SignupsTyped
       DEF StartSignup, SignupStep, RegistrationTypeOK, ServerTypeOK, server, history, MintedBounded
  <1>2. CASE CheckEmail(s)
    BY <1>2, SignupsTyped
       DEF CheckEmail, SignupStep, RegistrationTypeOK, ServerTypeOK, server, history, MintedBounded
  <1>3. CASE InsertUser(s)
    BY <1>3, SignupsTyped
       DEF InsertUser, SignupStep, RegistrationTypeOK, ServerTypeOK, server, history, MintedBounded
  <1>4. CASE CommitAccount(s)
    BY <1>4, SignupsTyped
       DEF CommitAccount, SignupStep, RegistrationTypeOK, ServerTypeOK, server, history, MintedBounded
  <1>5. CASE StoreFirst(s)
    <2>1. [step |-> "created", pair |-> issued + 1] \in Applicant
      BY <1>5, OneMore DEF StoreFirst, Applicant, SignupStep
    <2> QED BY <1>5, <2>1, FirstTyped DEF StoreFirst, RegistrationTypeOK
  <1>6. CASE SignupFails(s)
    <2>1. events' \in 0 .. MaxEvents
      BY <1>6, Numbers DEF SignupFails, Event, ServerTypeOK
    <2> QED BY <1>6, <2>1, SignupsTyped
       DEF SignupFails, SignupStep, RegistrationTypeOK, ServerTypeOK, server, MintedBounded
  <1> QED BY <1>1, <1>2, <1>3, <1>4, <1>5, <1>6 DEF Register

\* Steps that leave the waiting tabs and the handlers alone.
LEMMA WaitsStay ==
    ASSUME Waits, waiting' = waiting, call' = call
    PROVE  Waits'
  BY DEF Waits

LEMMA WaitsThroughRefresh ==
    ASSUME Typed, NEW x \in Call, Refresh(x) \/ RefreshFails(x), waiting' = waiting
    PROVE  Waits'
  BY HandlersKeep, NoCallAssumption DEF Typed, TypeOK, ServerTyped, Waits

\* Of the tabs that wait none waits for x afterwards, and the rest go on.
LEMMA WaitsWithout ==
    ASSUME Typed, NEW x \in Call, call' = [call EXCEPT ![x] = NoCall],
           \A t \in Client : waiting'[t] \in {NoCall, waiting[t]} /\ waiting'[t] # x
    PROVE  Waits'
  BY NoCallAssumption DEF Typed, TypeOK, ServerTypeOK, Waits

LEMMA OnlyOwnRefresh ==
    ASSUME Typed, NEW t \in Client, waiting[t] # NoCall
    PROVE  /\ waiting[t] \in Call /\ call[waiting[t]] \in Handler
           /\ \A u \in Client \ {t} : waiting[u] # waiting[t]
  BY DEF Typed, TypeOK, ServerTypeOK, Waits

LEMMA OrphanedTyped ==
    ASSUME Typed, NEW t \in Client
    PROVE  Orphaned(t) \subseteq Token
  BY OnlyOwnRefresh DEF Orphaned, Handler

-----------------------------------------------------------------------------

LEMMA UsersTyped ==
    ASSUME Typed, NEW t \in Client,
           \/ Registered(t) \/ Login(t) \/ OpenApp(t) \/ Reload(t)
           \/ \E s \in Signup : Submit(t, s)
    PROVE  Typed'
  <1> USE DEF Typed
  <1>2. CASE Registered(t)
    <2>1. form[t] \in Signup /\ signup[form[t]].pair \in Token \cup {NoToken}
      BY <1>2 DEF Registered, TypeOK, RegistrationTypeOK, Applicant
    <2>2. /\ storage' \in Token \cup {NoToken} /\ flag' \in BOOLEAN /\ raced' \in BOOLEAN
          /\ page' \in [Client -> Page]
      <3>1. CASE SetAuth(t, signup[form[t]].pair)
        BY <2>1, <3>1, SetTyped
      <3>2. CASE UNCHANGED <<local, page>>
        BY <3>2 DEF local, TypeOK, Page
      <3> QED BY <1>2, <3>1, <3>2 DEF Registered
    <2>3. form' \in [Client -> Signup \cup {NoSignup}]
      BY <1>2 DEF Registered, TypeOK
    <2>4. ServerTyped' /\ RegistrationTypeOK' /\ Waits'
      BY <1>2, WaitsStay
         DEF Registered, server, history, account, TypeOK, ServerTyped, ServerTypeOK,
             MintedBounded, RegistrationTypeOK
    <2> QED BY <1>2, <2>2, <2>3, <2>4 DEF Registered, ServerTyped, TypeOK, Page
  <1>3. CASE Login(t)
    <2>1. issued + 1 \in Token
      BY <1>3, OneMore DEF Login, IssueAtLogin, ServerTyped, TypeOK
    <2>2. /\ storage' \in Token \cup {NoToken} /\ flag' \in BOOLEAN /\ raced' \in BOOLEAN
          /\ page' \in [Client -> Page]
      BY <1>3, <2>1, SetTyped DEF Login
    <2> QED BY <1>3, <2>2, LoginTyped, WaitsStay
        DEF Login, IssueAtLogin, account, TypeOK, ServerTyped, RegistrationTypeOK, Page
  <1>4. CASE OpenApp(t)
    <2>1. Load(t, "app") /\ ended' \subseteq Token
      BY <1>4, OrphanedTyped DEF OpenApp, TypeOK, ServerTypeOK
    <2>2. Waits'
      BY <1>4, <2>1, LoadTyped DEF OpenApp, server, Waits, Page, TypeOK
    <2> QED BY <1>4, <2>1, <2>2, LoadTyped
        DEF OpenApp, server, account, local, TypeOK, ServerTypeOK,
            MintedBounded, RegistrationTypeOK, RequestsTyped, Page
  <1>5. CASE Reload(t)
    <2> DEFINE p == IF LetIn THEN page[t] ELSE "login"
    <2>1. p \in Page
      BY DEF TypeOK, Page
    <2>4. Load(t, p)
      BY <1>5 DEF Reload
    <2> HIDE DEF p
    <2>2. ended' \subseteq Token /\ events' \in 0 .. MaxEvents
      <3>1. ended' = ended \cup Orphaned(t) /\ Event
        BY <1>5 DEF Reload
      <3>2. ended' \subseteq Token
        BY <3>1, OrphanedTyped DEF TypeOK, ServerTypeOK
      <3>3. events' \in 0 .. MaxEvents
        BY <3>1, Numbers DEF Event, TypeOK, ServerTypeOK
      <3> QED BY <3>2, <3>3
    <2>3. Waits'
      BY <1>5, <2>1, <2>4, LoadTyped DEF Reload, server, Waits, TypeOK
    <2> QED BY <1>5, <2>1, <2>2, <2>3, <2>4, LoadTyped
        DEF Reload, server, account, local, TypeOK, ServerTypeOK,
            MintedBounded, RegistrationTypeOK, RequestsTyped, Page
  <1>6. ASSUME NEW s \in Signup, Submit(t, s)
        PROVE  Typed'
    BY <1>6, RegisterTyped, WaitsStay
       DEF Submit, local, TypeOK, ServerTyped
  <1> QED BY <1>2, <1>3, <1>4, <1>5, <1>6

\* The server's own steps, time, and a login on another device.
LEMMA ServeTyped ==
    ASSUME Typed, LoginElsewhere \/ TimePasses \/ (Serve /\ UNCHANGED browser)
    PROVE  Typed'
  <1> USE DEF Typed
  <1>1. CASE TimePasses
    <2>1. call' = call
      BY <1>1 DEF TimePasses, AccessExpires, RefreshLapses
    <2> QED BY <1>1, <2>1, TimeTyped, WaitsStay
        DEF TimePasses, account, browser, local, tabs, TypeOK, ServerTyped,
            RegistrationTypeOK
  <1>5. CASE LoginElsewhere
    BY <1>5, LoginTyped, WaitsStay
       DEF LoginElsewhere, IssueAtLogin, account, browser, local, tabs, TypeOK,
           ServerTyped, RegistrationTypeOK
  <1> SUFFICES ASSUME Serve, UNCHANGED browser PROVE Typed'
    BY <1>1, <1>5
  <1>2. CASE SupportSetsEnabled /\ UNCHANGED account
    <2>1. call' = call
      BY <1>2 DEF SupportSetsEnabled
    <2> QED BY <1>2, <2>1, SupportTyped, WaitsStay
        DEF account, browser, local, tabs, TypeOK, ServerTyped, RegistrationTypeOK
  <1>3. ASSUME NEW x \in Call, Refresh(x) \/ RefreshFails(x), UNCHANGED account
        PROVE  Typed'
    BY <1>3, RefreshTyped, WaitsThroughRefresh
       DEF account, browser, local, tabs, TypeOK, ServerTyped, RegistrationTypeOK
  <1>4. ASSUME NEW s \in Signup, Register(s) \/ SignupFails(s)
        PROVE  Typed'
    BY <1>4, RegisterTyped, WaitsStay DEF browser, local, tabs, TypeOK, ServerTyped
  <1> QED BY <1>2, <1>3, <1>4 DEF Serve

\* API calls and the interceptors.
LEMMA CallsTyped ==
    ASSUME Typed, NEW q \in Request,
           \/ \E t \in Client, kind \in Kinds : Send(t, q, kind)
           \/ Answer(q) \/ Settle(q) \/ NothingToRefresh(q) \/ Enqueue(q)
    PROVE  Typed'
  <1> USE DEF Typed
  <1>1. RequestsTyped
    BY DEF TypeOK, RequestsTyped
  <1>2. ASSUME NEW t \in Client, NEW kind \in Kinds, Send(t, q, kind)
        PROVE  Typed'
    <2>1. [tab |-> t, kind |-> kind, token |-> storage, retried |-> FALSE,
           status |-> "sent"] \in ApiCall
      BY DEF ApiCall, Status, TypeOK
    <2>2. RequestsTyped'
      BY <1>1, <1>2, <2>1 DEF Send, RequestsTyped
    <2> QED BY <1>2, <2>2, WaitsStay
        DEF Send, server, history, account, local, TypeOK, ServerTypeOK,
            MintedBounded, RegistrationTypeOK, RequestsTyped
  <1>3. CASE Answer(q)
    <2> DEFINE status == IF ~(request[q].kind # "login" /\ Authorized(request[q].token))
                         THEN "401"
                         ELSE IF ~enabled THEN "403" ELSE "200"
    <2>1. status \in Status /\ request[q] # NoRequest
      BY <1>3 DEF Status, Answer, Is
    <2>2. request' = [request EXCEPT ![q].status = status]
      BY <1>3 DEF Answer
    <2> HIDE DEF status
    <2>3. RequestsTyped'
      BY <1>1, <2>1, <2>2, AnswersTyped
    <2>4. ServerTyped' /\ call' = call
      BY <1>3, LogoutTyped
         DEF Answer, DeleteAtLogout, server, history, TypeOK, ServerTyped, ServerTypeOK,
             MintedBounded
    <2> QED BY <1>3, <2>3, <2>4, WaitsStay
        DEF Answer, account, local, TypeOK, ServerTyped, RegistrationTypeOK, RequestsTyped
  <1>4. CASE Settle(q)
    <2>1. RequestsTyped' /\ request[q] \in ApiCall
      BY <1>1, <1>4 DEF Settle, Is, RequestsTyped
    <2>2. /\ storage' \in Token \cup {NoToken} /\ flag' \in BOOLEAN /\ raced' \in BOOLEAN
          /\ page' \in [Client -> Page]
      <3>1. CASE ClearStore(TabOf(q))
        BY <2>1, <3>1, ClearedTyped DEF TabOf, ApiCall
      <3>2. CASE UNCHANGED <<local, page>>
        BY <3>2 DEF local, TypeOK, Page
      <3> QED BY <1>4, <3>1, <3>2 DEF Settle
    <2>3. ServerTyped' /\ RegistrationTypeOK' /\ Waits'
      BY <1>4, WaitsStay
         DEF Settle, server, history, account, TypeOK, ServerTyped, ServerTypeOK,
             MintedBounded, RegistrationTypeOK
    <2> QED BY <1>4, <2>1, <2>2, <2>3
        DEF Settle, ServerTyped, TypeOK, RequestsTyped, Page
  <1>5. CASE NothingToRefresh(q)
    <2>1. TabOf(q) \in Client
      BY <1>1, <1>5 DEF NothingToRefresh, First401, Is, TabOf, RequestsTyped, ApiCall
    <2>2. ForceLogout(TabOf(q)) /\ call' = call
      BY <1>5 DEF NothingToRefresh, server
    <2>3. Waits'
      BY <2>1, <2>2, ForcedTyped DEF Waits, TypeOK
    <2>4. ServerTyped' /\ RegistrationTypeOK'
      BY <1>5
         DEF NothingToRefresh, server, history, account, TypeOK, ServerTyped, ServerTypeOK,
             MintedBounded, RegistrationTypeOK
    <2> QED BY <2>1, <2>2, <2>3, <2>4, ForcedTyped DEF TypeOK, ServerTyped, RequestsTyped, Page
  <1>6. CASE Enqueue(q)
    <2>1. RequestsTyped'
      BY <1>1, <1>6, AnswersTyped DEF Enqueue, First401, Is, Status
    <2> QED BY <1>6, <2>1, WaitsStay
        DEF Enqueue, server, history, account, local, TypeOK, ServerTypeOK,
            MintedBounded, RegistrationTypeOK, RequestsTyped
  <1> QED BY <1>2, <1>3, <1>4, <1>5, <1>6

\* A refresh begins, and its answer comes.
LEMMA RefreshesTyped ==
    ASSUME Typed,
           \/ \E q \in Request, x \in Call : BeginRefresh(q, x)
           \/ \E t \in Client : RefreshArrives(t) \/ RefreshRefused(t)
           \/ \E x \in Call : Unheard(x)
    PROVE  Typed'
  <1> USE DEF Typed
  <1>1. RequestsTyped
    BY DEF TypeOK, RequestsTyped
  <1>2. ASSUME NEW q \in Request, NEW x \in Call, BeginRefresh(q, x)
        PROVE  Typed'
    <2> DEFINE u == TabOf(q)
    <2>1. request[q] \in ApiCall /\ u \in Client /\ storage \in Token
      BY <1>1, <1>2 DEF BeginRefresh, First401, Is, TabOf, RequestsTyped, ApiCall, TypeOK
    <2>2. StartRefresh(x, u, storage) /\ waiting' = [waiting EXCEPT ![u] = x]
      BY <1>2 DEF BeginRefresh
    <2> HIDE DEF u
    <2>3. ServerTyped'
      BY <2>1, <2>2, StartTyped DEF TypeOK, ServerTyped
    <2>4. /\ call[x] = NoCall /\ call'[x] # NoCall /\ call'[x].by = u
          /\ \A y \in Call \ {x} : call'[y] = call[y]
      <3>1. call'[x] = [by |-> u, token |-> storage, pair |-> NoToken,
                        step |-> IF storage <= lapsed THEN "refused" ELSE "read"]
        BY <2>2 DEF StartRefresh, TypeOK, ServerTypeOK
      <3>2. call'[x] \in Handler
        BY <2>1, <3>1 DEF Handler, HandlerStep
      <3> QED BY <2>2, <3>1, <3>2, NoCallAssumption DEF StartRefresh, TypeOK, ServerTypeOK
    <2>5. waiting' \in [Client -> Call \cup {NoCall}] /\ Waits'
      BY <2>1, <2>2, <2>4 DEF Waits, TypeOK
    <2>6. RequestsTyped'
      <3>1. [request[q] EXCEPT !.status = "refreshing", !.retried = TRUE] \in ApiCall
        BY <2>1 DEF ApiCall, Status
      <3> QED BY <1>1, <1>2, <3>1 DEF BeginRefresh, RequestsTyped
    <2> QED BY <1>2, <2>3, <2>5, <2>6
        DEF BeginRefresh, account, local, TypeOK, ServerTyped, RegistrationTypeOK, RequestsTyped
  <1>3. ASSUME NEW t \in Client, RefreshArrives(t)
        PROVE  Typed'
    <2> DEFINE y == waiting[t]
    <2>1. /\ y \in Call /\ call[y] \in Handler
          /\ \A u \in Client \ {t} : waiting[u] # y
      BY <1>3, OnlyOwnRefresh DEF RefreshArrives
    <2>2. /\ call' = [call EXCEPT ![y] = NoCall]
          /\ waiting' = [waiting EXCEPT ![t] = NoCall]
          /\ storage' = call[y].pair
          /\ request' = Resent(t, call[y].pair)
      BY <1>3 DEF RefreshArrives
    <2>3. call[y].pair \in Token \cup {NoToken}
      BY <2>1 DEF Handler
    <2> HIDE DEF y
    <2>4. waiting' \in [Client -> Call \cup {NoCall}] /\ Waits'
      BY <2>1, <2>2, WaitsWithout, NoCallAssumption DEF TypeOK
    <2>5. RequestsTyped'
      BY <1>1, <2>2, <2>3, SentTyped DEF RequestsTyped
    <2>6. ServerTyped'
      BY <1>3, <2>1, <2>2, FreedTyped
         DEF RefreshArrives, history, TypeOK, ServerTyped, ServerTypeOK, MintedBounded
    <2> QED BY <1>3, <2>2, <2>3, <2>4, <2>5, <2>6
        DEF RefreshArrives, account, TypeOK, ServerTyped, RegistrationTypeOK, RequestsTyped
  <1>4. ASSUME NEW t \in Client, RefreshRefused(t)
        PROVE  Typed'
    <2> DEFINE y == waiting[t]
    <2>1. /\ y \in Call /\ call[y] \in Handler
          /\ \A u \in Client \ {t} : waiting[u] # y
      BY <1>4, OnlyOwnRefresh DEF RefreshRefused
    <2>2. call' = [call EXCEPT ![y] = NoCall] /\ ForceLogout(t)
      BY <1>4 DEF RefreshRefused
    <2> HIDE DEF y
    <2>3. Waits'
      BY <2>1, <2>2, ForcedTyped, WaitsWithout, NoCallAssumption
    <2>4. ServerTyped'
      BY <1>4, <2>1, <2>2, FreedTyped
         DEF RefreshRefused, history, TypeOK, ServerTyped, ServerTypeOK, MintedBounded
    <2> QED BY <1>4, <2>2, <2>3, <2>4, ForcedTyped
        DEF RefreshRefused, account, TypeOK, ServerTyped, RegistrationTypeOK, RequestsTyped, Page
  <1>5. ASSUME NEW x \in Call, Unheard(x)
        PROVE  Typed'
    <2>1. call' = [call EXCEPT ![x] = NoCall]
      BY <1>5 DEF Unheard
    <2>2. Waits'
      BY <1>5, <2>1, WaitsWithout DEF Unheard, browser, tabs
    <2>3. ServerTyped'
      BY <1>5, <2>1, FreedTyped
         DEF Unheard, history, TypeOK, ServerTyped, ServerTypeOK, MintedBounded
    <2> QED BY <1>5, <2>2, <2>3
        DEF Unheard, account, browser, local, tabs, TypeOK, ServerTyped, RegistrationTypeOK
  <1> QED BY <1>2, <1>3, <1>4, <1>5

LEMMA TypesStart == Init => Typed
  <1> SUFFICES ASSUME Init PROVE Typed
    OBVIOUS
  <1>1. ServerTyped
    <2>1. 0 \in 0 .. MaxTokens /\ 0 \in 0 .. MaxEvents /\ 0 \in 0 .. 0 /\ 0 <= 0
      BY Numbers
    <2> QED BY <2>1 DEF Init, RegistrationInit, ServerInit, ServerTyped, ServerTypeOK,
          MintedBounded
  <1>2. RegistrationTypeOK
    BY DEF Init, RegistrationInit, RegistrationTypeOK, Applicant, SignupStep
  <1> QED BY <1>1, <1>2 DEF Init, Typed, TypeOK, ServerTyped, Waits

LEMMA TypesStep == Typed /\ [Next]_vars => Typed'
  <1> SUFFICES ASSUME Typed, [Next]_vars PROVE Typed'
    OBVIOUS
  <1>1. CASE UNCHANGED vars
    BY <1>1 DEF vars, server, history, account, browser, local, tabs, Typed, TypeOK,
        ServerTypeOK, RegistrationTypeOK, MintedBounded, Waits
  <1>2. CASE LoginElsewhere \/ TimePasses \/ (Serve /\ UNCHANGED browser)
    BY <1>2, ServeTyped
  <1>3. ASSUME NEW t \in Client,
               \/ Registered(t) \/ Login(t) \/ OpenApp(t) \/ Reload(t)
               \/ \E s \in Signup : Submit(t, s)
        PROVE  Typed'
    BY <1>3, UsersTyped
  <1>4. ASSUME NEW q \in Request,
               \/ \E t \in Client, kind \in Kinds : Send(t, q, kind)
               \/ Answer(q) \/ Settle(q) \/ NothingToRefresh(q) \/ Enqueue(q)
        PROVE  Typed'
    BY <1>4, CallsTyped
  <1>5. ASSUME \/ \E q \in Request, x \in Call : BeginRefresh(q, x)
               \/ \E t \in Client : RefreshArrives(t) \/ RefreshRefused(t)
               \/ \E x \in Call : Unheard(x)
        PROVE  Typed'
    BY <1>5, RefreshesTyped
  <1> QED BY <1>1, <1>2, <1>3, <1>4, <1>5 DEF Next, React

-----------------------------------------------------------------------------
(* What a step does to the server's session.                               *)

\* Nothing, or the stored token lapses.
Fades ==
    /\ stored' \in {stored, NoToken}
    /\ UNCHANGED <<issued, call, minted, overlap, closed>>

\* A pair is issued by login or registration.
Issues ==
    /\ issued < MaxTokens
    /\ issued' = issued + 1 /\ stored' = issued + 1
    /\ ~closed'
    /\ UNCHANGED <<call, minted, overlap>>

LogsOut ==
    /\ stored' = NoToken
    /\ closed' => Matched = {}
    /\ UNCHANGED <<issued, call, minted, overlap>>

\* A tab submits the token it has.
Begins(x) ==
    /\ storage \in Token
    /\ call[x] = NoCall
    /\ call'[x] # NoCall
    /\ call'[x].token = storage /\ call'[x].pair = NoToken
    /\ call'[x].step \in {"read", "refused"}
    /\ \A y \in Call \ {x} : call'[y] = call[y]
    /\ UNCHANGED <<stored, issued, minted, overlap, closed>>

Leaves(x) ==
    /\ call' = [call EXCEPT ![x] = NoCall]
    /\ UNCHANGED <<stored, issued, minted, overlap, closed>>

SessionStep ==
    \/ Fades \/ Issues \/ LogsOut
    \/ \E x \in Call : Refresh(x) \/ RefreshFails(x) \/ Begins(x) \/ Leaves(x)

LEMMA BeginningsBegin ==
    ASSUME Typed, NEW q \in Request, NEW x \in Call, BeginRefresh(q, x)
    PROVE  Begins(x)
  <1> DEFINE u == TabOf(q)
  <1>1. request[q] \in ApiCall /\ u \in Client /\ storage \in Token
    BY DEF BeginRefresh, First401, Is, TabOf, ApiCall, Typed, TypeOK
  <1>2. StartRefresh(x, u, storage)
    BY DEF BeginRefresh
  <1> HIDE DEF u
  <1>3. call'[x] = [by |-> u, token |-> storage, pair |-> NoToken,
                    step |-> IF storage <= lapsed THEN "refused" ELSE "read"]
    BY <1>2 DEF StartRefresh, Typed, TypeOK, ServerTypeOK
  <1>4. call'[x] \in Handler
    BY <1>1, <1>3 DEF Handler, HandlerStep
  <1> QED BY <1>1, <1>2, <1>3, <1>4, NoCallAssumption
      DEF Begins, StartRefresh, Typed, TypeOK, ServerTypeOK

LEMMA StepKinds == Typed /\ [Next]_vars => SessionStep
  <1> SUFFICES ASSUME Typed, [Next]_vars PROVE SessionStep
    OBVIOUS
  <1>1. CASE UNCHANGED <<server, minted, overlap, closed>>
    BY <1>1 DEF server, SessionStep, Fades
  <1>2. CASE UNCHANGED vars
    BY <1>2, <1>1 DEF vars, server, history
  <1>3. CASE IssueAtLogin
    BY <1>3 DEF IssueAtLogin, SessionStep, Issues
  <1>4. CASE LoginElsewhere
    BY <1>3, <1>4 DEF LoginElsewhere
  <1>5. CASE TimePasses
    BY <1>5 DEF TimePasses, AccessExpires, RefreshLapses, history, SessionStep, Fades
  <1>6. CASE Serve
    <2>1. CASE SupportSetsEnabled
      BY <2>1 DEF SupportSetsEnabled, SessionStep, Fades
    <2>2. CASE \E x \in Call : Refresh(x) \/ RefreshFails(x)
      BY <2>2 DEF SessionStep
    <2>3. ASSUME NEW s \in Signup, Register(s) \/ SignupFails(s)
          PROVE  SessionStep
      BY <1>1, <2>3 DEF Register, CheckEmail, InsertUser, CommitAccount, StoreFirst, SignupFails,
         server, history, SessionStep, Issues
    <2> QED BY <1>6, <2>1, <2>2, <2>3 DEF Serve
  <1>7. ASSUME NEW t \in Client,
               \/ Registered(t) \/ Login(t) \/ OpenApp(t) \/ Reload(t)
               \/ \E s \in Signup : Submit(t, s)
        PROVE  SessionStep
    BY <1>1, <1>3, <1>7 DEF Registered, Login, OpenApp, Reload, Submit, StartSignup, server, history
  <1>8. ASSUME NEW q \in Request, Answer(q)
        PROVE  SessionStep
    <2>1. CASE DeleteAtLogout
      BY <2>1 DEF DeleteAtLogout, SessionStep, LogsOut
    <2> QED BY <1>1, <1>8, <2>1 DEF Answer, server, history
  <1>9. ASSUME NEW q \in Request,
               \/ \E t \in Client, kind \in Kinds : Send(t, q, kind)
               \/ Settle(q) \/ NothingToRefresh(q) \/ Enqueue(q)
        PROVE  SessionStep
    BY <1>1, <1>9 DEF Send, Settle, NothingToRefresh, Enqueue, server, history
  <1>10. ASSUME NEW q \in Request, NEW x \in Call, BeginRefresh(q, x)
         PROVE  SessionStep
    BY <1>10, BeginningsBegin DEF SessionStep
  <1>11. ASSUME NEW t \in Client, RefreshArrives(t) \/ RefreshRefused(t)
         PROVE  SessionStep
    <2>1. waiting[t] \in Call
      BY <1>11 DEF RefreshArrives, RefreshRefused, Typed, TypeOK
    <2>2. Leaves(waiting[t])
      BY <1>11 DEF RefreshArrives, RefreshRefused, Leaves, history
    <2> QED BY <2>1, <2>2 DEF SessionStep
  <1>12. ASSUME NEW x \in Call, Unheard(x)
         PROVE  SessionStep
    BY <1>12 DEF Unheard, Leaves, history, SessionStep
  <1> QED BY <1>2, <1>4, <1>5, <1>6, <1>7, <1>8, <1>9, <1>10, <1>11, <1>12 DEF Next, React

-----------------------------------------------------------------------------
(* Logout.                                                                 *)

\* Nobody holds a matched token after a logout that met no rotation.
ClosedStays == closed => stored = NoToken /\ Matched = {}

\* Only ReadStored lets a handler in, and only while a token is stored.
LEMMA MatchedShrinks ==
    ASSUME Typed, NEW x \in Call, Refresh(x) \/ RefreshFails(x), stored = NoToken
    PROVE  Matched' \subseteq Matched
  <1>1. \A y \in Call \ {x} : call'[y] = call[y]
    BY HandlersKeep DEF Typed, TypeOK, ServerTyped
  <1>2. ASSUME x \in Matched' PROVE x \in Matched
    <2>1. CASE ReadStored(x)
      <3>1. call'[x].step = "refused"
        BY <2>1 DEF ReadStored, MoveTo, NextOf, At, Typed, TypeOK, ServerTypeOK, Handler
      <3> QED BY <1>2, <3>1 DEF Matched, At
    <2>2. CASE Revoke(x) \/ RefreshFails(x)
      <3>1. call'[x].step = "refused"
        BY <2>2 DEF Revoke, RefreshFails, MoveTo, At, Typed, TypeOK, ServerTypeOK, Handler
      <3> QED BY <1>2, <3>1 DEF Matched, At
    <2>3. CASE DeleteOld(x) \/ LoadUser(x) \/ StoreNew(x)
      BY <2>3 DEF DeleteOld, LoadUser, StoreNew, Matched
    <2> QED BY <2>1, <2>2, <2>3 DEF Refresh
  <1> QED BY <1>1, <1>2 DEF Matched, At

LEMMA LogoutStep ==
    ASSUME Typed, ClosedStays, SessionStep
    PROVE  ClosedStays'
  <1> SUFFICES ASSUME closed' PROVE stored' = NoToken /\ Matched' = {}
    BY DEF ClosedStays
  <1>1. CASE Fades
    BY <1>1 DEF Fades, ClosedStays, Matched, At
  <1>2. CASE Issues
    BY <1>2 DEF Issues
  <1>3. CASE LogsOut
    BY <1>3 DEF LogsOut, Matched, At
  <1>4. ASSUME NEW x \in Call, Refresh(x) \/ RefreshFails(x)
        PROVE  stored' = NoToken /\ Matched' = {}
    <2>1. closed' = closed
      BY <1>4 DEF Refresh, ReadStored, Revoke, DeleteOld, LoadUser, StoreNew, RefreshFails
    <2>2. stored = NoToken /\ Matched = {}
      BY <2>1 DEF ClosedStays
    <2>3. ~StoreNew(x)
      BY <2>2 DEF StoreNew, Matched
    <2>4. stored' = NoToken
      BY <1>4, <2>2, <2>3 DEF Refresh, ReadStored, Revoke, DeleteOld, LoadUser, RefreshFails
    <2> QED BY <1>4, <2>2, <2>4, MatchedShrinks
  <1>5. ASSUME NEW x \in Call, Begins(x) \/ Leaves(x)
        PROVE  stored' = NoToken /\ Matched' = {}
    <2>1. Matched' \subseteq Matched
      BY <1>5 DEF Begins, Leaves, Matched, At, Typed, TypeOK, ServerTypeOK
    <2> QED BY <1>5, <2>1 DEF Begins, Leaves, ClosedStays
  <1> QED BY <1>1, <1>2, <1>3, <1>4, <1>5 DEF SessionStep

-----------------------------------------------------------------------------
(* Rotation.                                                               *)

\* Tokens that are stored, held or exchanged have been issued.
Issued ==
    /\ stored <= issued /\ storage <= issued
    /\ \A x \in Call : call[x] # NoCall => call[x].token <= issued /\ call[x].pair <= issued
    /\ \A s \in Signup : signup[s].pair <= issued
    /\ \A n \in Token : minted[n] > 0 => n <= issued

\* A stored token was not exchanged, nor will it be by a handler past DEL; and
\* of a token no two handlers overlapped on there is one handler, or one pair.
Rotations ==
    /\ \A n \in Token : stored = n =>
        /\ minted[n] = 0
        /\ \A x \in Call : At(x, "user") \/ At(x, "store") => call[x].token # n
    /\ \A n \in Token \ overlap :
        /\ minted[n] <= 1
        /\ \A x \in Matched : call[x].token = n => minted[n] = 0
        /\ \A x, y \in Matched : call[x].token = n /\ call[y].token = n => x = y

LEMMA NumberTypes ==
    ASSUME Typed
    PROVE  /\ issued \in Nat /\ stored \in Nat /\ storage \in Nat
           /\ \A x \in Call : call[x] # NoCall =>
                /\ call[x] \in Handler
                /\ call[x].token \in Token /\ call[x].token \in Nat /\ call[x].pair \in Nat
           /\ \A s \in Signup : signup[s].pair \in Nat
           /\ \A n \in Token : minted[n] \in Nat /\ n \in Nat
  <1>1. Token \subseteq Nat /\ NoToken \in Nat
    BY Numbers DEF NoToken
  <1>2. issued \in Nat /\ stored \in Nat /\ storage \in Nat
    BY <1>1, Numbers DEF Typed, TypeOK, ServerTypeOK
  <1>3. \A s \in Signup : signup[s].pair \in Nat
    BY <1>1 DEF Typed, TypeOK, RegistrationTypeOK, Applicant
  <1>4. \A n \in Token : minted[n] \in Nat /\ n \in Nat
    BY <1>1 DEF Typed, TypeOK, ServerTypeOK
  <1>5. \A x \in Call : call[x] # NoCall => call[x] \in Handler
    BY DEF Typed, TypeOK, ServerTypeOK
  <1>6. \A h \in Handler : h.token \in Token /\ h.token \in Nat /\ h.pair \in Nat
    BY <1>1 DEF Handler
  <1> QED BY <1>2, <1>3, <1>4, <1>5, <1>6

\* Where a handler's step leaves it.
LEMMA HandlerMoves ==
    ASSUME Typed, NEW x \in Call, Refresh(x) \/ RefreshFails(x)
    PROVE  \/ /\ At(x, "read") /\ ReadStored(x)
              /\ At(x, "delete")' => stored = call[x].token
              /\ ~At(x, "user")' /\ ~At(x, "store")'
              /\ stored' = stored /\ issued' = issued /\ minted' = minted
           \/ /\ x \notin Matched' /\ ~StoreNew(x)
              /\ stored' \in {stored, NoToken} /\ issued' = issued
              /\ minted' = minted /\ overlap' = overlap
           \/ /\ At(x, "delete") /\ ~At(x, "delete")'
              /\ stored' = NoToken /\ issued' = issued
              /\ minted' = minted /\ overlap' = overlap
           \/ /\ At(x, "user") /\ ~At(x, "delete")'
              /\ stored' = stored /\ issued' = issued
              /\ minted' = minted /\ overlap' = overlap
           \/ /\ StoreNew(x) /\ x \notin Matched'
  <1>1. call[x] # NoCall /\ call[x] \in Handler
    BY HandlersKeep, NumberTypes DEF Typed, TypeOK, ServerTyped
  <1>2. ASSUME NEW step, MoveTo(x, step)
        PROVE  call'[x].step = step
    BY <1>1, <1>2 DEF MoveTo, Typed, TypeOK, ServerTypeOK, Handler
  <1>3. CASE ReadStored(x)
    <2>1. call'[x].step = NextOf(call[x].token)
      BY <1>2, <1>3 DEF ReadStored
    <2> QED BY <1>3, <2>1 DEF ReadStored, NextOf, At
  <1>4. CASE Revoke(x) \/ RefreshFails(x)
    <2>1. call'[x].step = "refused"
      BY <1>2, <1>4 DEF Revoke, RefreshFails
    <2>2. ~StoreNew(x)
      <3>1. CASE StoreNew(x)
        <4>1. call'[x].step = "granted"
          BY <3>1 DEF StoreNew, Typed, TypeOK, ServerTypeOK
        <4> QED BY <2>1, <4>1
      <3> QED BY <3>1
    <2> QED BY <1>4, <2>1, <2>2 DEF Revoke, RefreshFails, Matched, At
  <1>5. CASE DeleteOld(x)
    BY <1>2, <1>5 DEF DeleteOld, At
  <1>6. CASE LoadUser(x)
    <2>1. call'[x].step \in {"store", "refused"}
      BY <1>2, <1>6 DEF LoadUser
    <2> QED BY <1>6, <2>1 DEF LoadUser, At
  <1>7. CASE StoreNew(x)
    <2>1. call'[x].step = "granted"
      BY <1>7 DEF StoreNew, Typed, TypeOK, ServerTypeOK
    <2> QED BY <1>7, <2>1 DEF Matched, At
  <1> QED BY <1>3, <1>4, <1>5, <1>6, <1>7 DEF Refresh

\* The same for pairs: what is new is at most what is issued by then.
LEMMA HandlersIssued ==
    ASSUME Typed, Issued, SessionStep
    PROVE  /\ issued <= issued' /\ issued' \in Nat
           /\ stored' <= issued'
           /\ \A x \in Call : call'[x] # NoCall => call'[x].token <= issued' /\ call'[x].pair <= issued'
           /\ \A n \in Token : minted'[n] > 0 => n <= issued'
  <1> USE NumberTypes
  <1>1. CASE Fades
    BY <1>1 DEF Fades, Issued, NoToken
  <1>2. CASE Issues
    BY <1>2 DEF Issues, Issued
  <1>3. CASE LogsOut
    BY <1>3 DEF LogsOut, Issued, NoToken
  <1>4. ASSUME NEW x \in Call, Begins(x)
        PROVE  /\ issued <= issued' /\ issued' \in Nat
               /\ stored' <= issued'
               /\ \A y \in Call : call'[y] # NoCall => call'[y].token <= issued' /\ call'[y].pair <= issued'
               /\ \A n \in Token : minted'[n] > 0 => n <= issued'
    BY <1>4 DEF Begins, Issued, NoToken
  <1>5. ASSUME NEW x \in Call, Leaves(x)
        PROVE  /\ issued <= issued' /\ issued' \in Nat
               /\ stored' <= issued'
               /\ \A y \in Call : call'[y] # NoCall => call'[y].token <= issued' /\ call'[y].pair <= issued'
               /\ \A n \in Token : minted'[n] > 0 => n <= issued'
    BY <1>5 DEF Leaves, Issued, Typed, TypeOK, ServerTypeOK
  <1>6. ASSUME NEW x \in Call, Refresh(x) \/ RefreshFails(x)
        PROVE  /\ issued <= issued' /\ issued' \in Nat
               /\ stored' <= issued'
               /\ \A y \in Call : call'[y] # NoCall => call'[y].token <= issued' /\ call'[y].pair <= issued'
               /\ \A n \in Token : minted'[n] > 0 => n <= issued'
    <2>1. /\ call[x] # NoCall /\ call'[x].token = call[x].token
          /\ \A y \in Call \ {x} : call'[y] = call[y]
      BY <1>6, HandlersKeep DEF Typed, TypeOK, ServerTyped
    <2>2. CASE StoreNew(x)
      <3>1. /\ issued' = issued + 1 /\ stored' = issued + 1 /\ call'[x].pair = issued + 1
            /\ \A n \in Token : n # call[x].token => minted'[n] = minted[n]
        BY <2>2 DEF StoreNew, Typed, TypeOK, ServerTypeOK
      <3> QED BY <2>1, <3>1 DEF Issued
    <2>3. CASE ~StoreNew(x)
      <3>1. stored' \in {stored, NoToken} /\ issued' = issued /\ minted' = minted
        BY <1>6, <2>3, HandlerMoves
      <3>2. call'[x].pair = call[x].pair
        <4>1. ASSUME NEW step, MoveTo(x, step)
              PROVE  call'[x].pair = call[x].pair
          BY <2>1, <4>1 DEF MoveTo, Typed, TypeOK, ServerTypeOK, Handler
        <4> QED BY <1>6, <2>3, <4>1
            DEF Refresh, ReadStored, Revoke, DeleteOld, LoadUser, RefreshFails
      <3> QED BY <2>1, <3>1, <3>2 DEF Issued, NoToken
    <2> QED BY <2>2, <2>3
  <1> QED BY <1>1, <1>2, <1>3, <1>4, <1>5, <1>6 DEF SessionStep

\* What reaches localStorage was issued.
LEMMA StorageIssued ==
    ASSUME Typed, Issued, [Next]_vars
    PROVE  storage' <= issued' /\ \A s \in Signup : signup'[s].pair <= issued'
  <1> USE NumberTypes
  <1>1. issued <= issued' /\ issued' \in Nat
    BY StepKinds, HandlersIssued
  <1>2. CASE UNCHANGED <<storage, signup>>
    BY <1>1, <1>2 DEF Issued
  <1>3. CASE storage' = NoToken /\ signup' = signup
    BY <1>1, <1>3 DEF Issued, NoToken
  <1>4. CASE UNCHANGED vars
    BY <1>2, <1>4 DEF vars, account, browser, local
  <1>5. CASE LoginElsewhere \/ TimePasses
    BY <1>2, <1>5 DEF LoginElsewhere, TimePasses, account, browser, local
  <1>6. CASE Serve /\ UNCHANGED browser
    <2>1. storage' = storage
      BY <1>6 DEF browser, local
    <2>2. CASE signup' = signup
      BY <1>2, <2>1, <2>2
    <2>3. ASSUME NEW s \in Signup, Register(s) \/ SignupFails(s)
          PROVE  \A r \in Signup : signup'[r].pair <= issued'
      <3>1. CASE StoreFirst(s)
        <4>1. /\ signup' = [signup EXCEPT ![s] = [step |-> "created", pair |-> issued + 1]]
              /\ issued' = issued + 1
          BY <3>1 DEF StoreFirst
        <4> QED BY <1>1, <4>1 DEF Issued, Typed, TypeOK, RegistrationTypeOK
      <3>2. ASSUME NEW step, Proceed(s, step)
            PROVE  \A r \in Signup : signup'[r].pair <= issued'
        <4>1. \A r \in Signup : signup'[r].pair = signup[r].pair
          BY <3>2 DEF Proceed, Typed, TypeOK, RegistrationTypeOK, Applicant
        <4> QED BY <1>1, <4>1 DEF Issued
      <3> QED BY <2>3, <3>1, <3>2 DEF Register, CheckEmail, InsertUser, CommitAccount, SignupFails
    <2> QED BY <1>1, <1>6, <2>1, <2>2, <2>3 DEF Serve, account, Issued
  <1>7. ASSUME NEW t \in Client, Registered(t)
        PROVE  storage' <= issued' /\ \A s \in Signup : signup'[s].pair <= issued'
    <2>1. form[t] \in Signup /\ signup' = signup
      BY <1>7 DEF Registered, account, Typed, TypeOK
    <2>2. storage' \in {storage, signup[form[t]].pair}
      BY <1>7 DEF Registered, SetAuth, local
    <2> QED BY <1>1, <2>1, <2>2 DEF Issued
  <1>8. ASSUME NEW t \in Client, Login(t)
        PROVE  storage' <= issued' /\ \A s \in Signup : signup'[s].pair <= issued'
    BY <1>1, <1>8 DEF Login, SetAuth, IssueAtLogin, account, Issued
  <1>9. ASSUME NEW t \in Client, OpenApp(t) \/ Reload(t)
        PROVE  UNCHANGED <<storage, signup>>
    BY <1>9 DEF OpenApp, Reload, local, account
  <1>10. ASSUME NEW t \in Client, NEW s \in Signup, Submit(t, s)
         PROVE  storage' <= issued' /\ \A r \in Signup : signup'[r].pair <= issued'
    <2>1. \A r \in Signup : signup'[r].pair = signup[r].pair
      BY <1>10 DEF Submit, StartSignup, Proceed, Typed, TypeOK, RegistrationTypeOK, Applicant
    <2> QED BY <1>1, <1>10, <2>1 DEF Submit, local, Issued
  <1>11. ASSUME NEW q \in Request,
                \/ \E t \in Client, kind \in Kinds : Send(t, q, kind)
                \/ Answer(q) \/ Enqueue(q) \/ \E x \in Call : BeginRefresh(q, x)
         PROVE  UNCHANGED <<storage, signup>>
    BY <1>11 DEF Send, Answer, Enqueue, BeginRefresh, local, account
  <1>12. ASSUME NEW q \in Request, Settle(q) \/ NothingToRefresh(q)
         PROVE  storage' \in {storage, NoToken} /\ signup' = signup
    BY <1>12 DEF Settle, NothingToRefresh, ForceLogout, ClearStore, local, account
  <1>13. ASSUME NEW t \in Client, RefreshRefused(t)
         PROVE  storage' = NoToken /\ signup' = signup
    BY <1>13 DEF RefreshRefused, ForceLogout, account
  <1>14. ASSUME NEW t \in Client, RefreshArrives(t)
         PROVE  storage' <= issued' /\ \A s \in Signup : signup'[s].pair <= issued'
    <2>1. waiting[t] \in Call /\ call[waiting[t]] # NoCall
      BY <1>14, OnlyOwnRefresh, NoCallAssumption DEF RefreshArrives
    <2> QED BY <1>1, <1>14, <2>1 DEF RefreshArrives, account, Issued
  <1>15. ASSUME NEW x \in Call, Unheard(x)
         PROVE  UNCHANGED <<storage, signup>>
    BY <1>15 DEF Unheard, browser, local, account
  <1> QED BY <1>2, <1>3, <1>4, <1>5, <1>6, <1>7, <1>8, <1>9, <1>10, <1>11, <1>12, <1>13,
             <1>14, <1>15 DEF Next, React

LEMMA RotationsStep ==
    ASSUME Typed, Issued, Rotations, SessionStep
    PROVE  Rotations'
  <1> USE NumberTypes
  <1>1. CASE Fades \/ LogsOut
    BY <1>1, Numbers DEF Fades, LogsOut, Rotations, At, Matched
  <1>2. CASE Issues
    BY <1>2 DEF Issues, Rotations, Issued, At, Matched
  <1>3. ASSUME NEW x \in Call, Begins(x) \/ Leaves(x)
        PROVE  Rotations'
    <2>1. x \notin Matched' /\ ~At(x, "user")' /\ ~At(x, "store")'
      BY <1>3 DEF Begins, Leaves, Matched, At, Typed, TypeOK, ServerTypeOK
    <2>2. \A y \in Call \ {x} : call'[y] = call[y]
      BY <1>3 DEF Begins, Leaves, Typed, TypeOK, ServerTypeOK
    <2>3. UNCHANGED <<stored, minted, overlap>>
      BY <1>3 DEF Begins, Leaves
    <2>4. Matched' \subseteq Matched
      BY <2>1, <2>2 DEF Matched, At
    <2> QED BY <2>1, <2>2, <2>3, <2>4 DEF Rotations, At, Matched
  <1>4. ASSUME NEW x \in Call, Refresh(x) \/ RefreshFails(x)
        PROVE  Rotations'
    <2>1. /\ call[x] # NoCall /\ call'[x].token = call[x].token
          /\ \A y \in Call \ {x} : call'[y] = call[y]
      BY <1>4, HandlersKeep DEF Typed, TypeOK, ServerTyped
    <2>2. \A y \in Call : call'[y] # NoCall => call'[y].token = call[y].token
      BY <2>1
    <2>3. Matched' \subseteq Matched \cup {x}
      BY <2>1 DEF Matched, At
    <2>4. ASSUME /\ Matched' \subseteq Matched
                 /\ minted' = minted /\ overlap' = overlap
                 /\ stored' \in {stored, NoToken}
                 /\ At(x, "user")' \/ At(x, "store")' => stored' = NoToken \/ At(x, "user")
          PROVE  Rotations'
      <3>1. \A n \in Token : stored' = n =>
                /\ minted'[n] = 0
                /\ \A y \in Call : (At(y, "user") \/ At(y, "store"))' => call'[y].token # n
        BY <2>1, <2>4, Numbers DEF Rotations, At
      <3>2. \A n \in Token \ overlap' :
                /\ minted'[n] <= 1
                /\ \A y \in Matched' : call'[y].token = n => minted'[n] = 0
                /\ \A y, z \in Matched' : call'[y].token = n /\ call'[z].token = n => y = z
        BY <2>2, <2>4 DEF Rotations, Matched, At
      <3> QED BY <3>1, <3>2 DEF Rotations
    <2>5. CASE /\ At(x, "read") /\ ReadStored(x)
               /\ At(x, "delete")' => stored = call[x].token
               /\ ~At(x, "user")' /\ ~At(x, "store")'
               /\ stored' = stored /\ issued' = issued /\ minted' = minted
      <3>1. \A n \in Token : stored' = n =>
                /\ minted'[n] = 0
                /\ \A y \in Call : (At(y, "user") \/ At(y, "store"))' => call'[y].token # n
        BY <2>1, <2>5 DEF Rotations, At
      <3>2. /\ overlap \subseteq overlap'
            /\ \A y \in Call \ {x} :
                 At(y, "delete") /\ call[y].token = call[x].token => call[x].token \in overlap'
        BY <2>5 DEF ReadStored
      <3>3. ASSUME NEW n \in Token \ overlap', x \in Matched', call[x].token = n
            PROVE  minted[n] = 0 /\ \A y \in Matched \ {x} : call[y].token # n
        <4>1. stored = n
          BY <2>5, <3>3 DEF Matched
        <4>2. \A y \in Call : At(y, "user") \/ At(y, "store") => call[y].token # n
          BY <4>1 DEF Rotations
        <4> QED BY <3>2, <3>3, <4>1, <4>2 DEF Rotations, Matched
      <3>4. \A n \in Token \ overlap' :
                /\ minted'[n] <= 1
                /\ \A y \in Matched' : call'[y].token = n => minted'[n] = 0
                /\ \A y, z \in Matched' : call'[y].token = n /\ call'[z].token = n => y = z
        <4> SUFFICES ASSUME NEW n \in Token \ overlap'
                     PROVE  /\ minted'[n] <= 1
                            /\ \A y \in Matched' : call'[y].token = n => minted'[n] = 0
                            /\ \A y, z \in Matched' :
                                 call'[y].token = n /\ call'[z].token = n => y = z
          OBVIOUS
        <4>1. \A y \in Matched' : call'[y].token = call[y].token
          BY <2>2 DEF Matched, At
        <4>2. minted[n] <= 1
          BY <3>2 DEF Rotations
        <4>3. \A y \in Matched' : call[y].token = n => minted[n] = 0
          BY <2>3, <3>2, <3>3 DEF Rotations
        <4>4. \A y, z \in Matched' : call[y].token = n /\ call[z].token = n => y = z
          BY <2>3, <3>2, <3>3 DEF Rotations
        <4> QED BY <2>5, <4>1, <4>2, <4>3, <4>4
      <3> QED BY <3>1, <3>4 DEF Rotations
    <2>6. CASE /\ x \notin Matched' /\ ~StoreNew(x)
               /\ stored' \in {stored, NoToken} /\ issued' = issued
               /\ minted' = minted /\ overlap' = overlap
      BY <2>3, <2>4, <2>6 DEF Matched
    <2>7. CASE /\ At(x, "delete") /\ ~At(x, "delete")'
               /\ stored' = NoToken /\ issued' = issued
               /\ minted' = minted /\ overlap' = overlap
      BY <2>3, <2>4, <2>7 DEF Matched
    <2>8. CASE /\ At(x, "user") /\ ~At(x, "delete")'
               /\ stored' = stored /\ issued' = issued
               /\ minted' = minted /\ overlap' = overlap
      BY <2>3, <2>4, <2>8 DEF Matched
    <2>9. CASE StoreNew(x) /\ x \notin Matched'
      <3> DEFINE m == call[x].token
      <3>1. /\ x \in Matched
            /\ stored' = issued + 1 /\ overlap' = overlap
            /\ minted' = [minted EXCEPT ![m] = @ + 1]
        BY <2>9 DEF StoreNew, Matched
      <3>2. m \in Token /\ m <= issued
        BY <2>1 DEF Issued
      <3> HIDE DEF m
      <3>3. Matched' \subseteq Matched \ {x}
        BY <2>3, <2>9
      <3>4. /\ minted'[m] = minted[m] + 1
            /\ \A n \in Token : n # m => minted'[n] = minted[n]
        BY <3>1, <3>2 DEF Typed, TypeOK, ServerTypeOK
      <3>5. \A n \in Token : stored' = n =>
                /\ minted'[n] = 0
                /\ \A y \in Call : (At(y, "user") \/ At(y, "store"))' => call'[y].token # n
        <4>1. ASSUME NEW n \in Token, stored' = n PROVE minted'[n] = 0
          <5>1. n > issued
            BY <3>1, <4>1
          <5>2. minted[n] = 0
            BY <5>1 DEF Issued
          <5> QED BY <3>2, <3>4, <5>1, <5>2
        <4>2. ASSUME NEW n \in Token, stored' = n, NEW y \in Call, (At(y, "user") \/ At(y, "store"))'
              PROVE  call'[y].token # n
          <5>1. y # x
            BY <2>9, <4>2 DEF Matched
          <5>2. call[y] # NoCall /\ call'[y].token = call[y].token
            BY <2>1, <4>2, <5>1 DEF At
          <5> QED BY <3>1, <4>2, <5>2 DEF Issued
        <4> QED BY <4>1, <4>2
      <3>6. \A n \in Token \ overlap' :
                /\ minted'[n] <= 1
                /\ \A y \in Matched' : call'[y].token = n => minted'[n] = 0
                /\ \A y, z \in Matched' : call'[y].token = n /\ call'[z].token = n => y = z
        <4> SUFFICES ASSUME NEW n \in Token \ overlap
                     PROVE  /\ minted'[n] <= 1
                            /\ \A y \in Matched' : call'[y].token = n => minted'[n] = 0
                            /\ \A y, z \in Matched' :
                                 call'[y].token = n /\ call'[z].token = n => y = z
          BY <3>1
        <4>1. \A y \in Matched' : call'[y].token = call[y].token
          BY <2>2 DEF Matched, At
        <4>2. CASE n # m
          BY <3>3, <3>4, <4>1, <4>2 DEF Rotations
        <4>3. CASE n = m
          <5>1. minted[n] = 0
            BY <3>1, <4>3 DEF m, Rotations
          <5>2. \A y \in Matched' : call[y].token # n
            BY <3>1, <3>3, <4>3 DEF m, Rotations
          <5> QED BY <3>4, <4>1, <4>3, <5>1, <5>2
        <4> QED BY <4>2, <4>3
      <3> QED BY <3>5, <3>6 DEF Rotations
    <2> QED BY <1>4, <2>5, <2>6, <2>7, <2>8, <2>9, HandlerMoves
  <1> QED BY <1>1, <1>2, <1>3, <1>4 DEF SessionStep

-----------------------------------------------------------------------------
(* The persisted flag.                                                     *)

\* A refresh in flight while nobody is logged in was in flight at the logout.
FlagKnown ==
    /\ TokensMatchFlag
    /\ ~flag /\ (\E t \in Client : waiting[t] # NoCall) => raced

LEMMA FlagStep ==
    ASSUME Typed, FlagKnown, [Next]_vars
    PROVE  FlagKnown'
  <1> DEFINE quiet == /\ UNCHANGED <<storage, flag, raced>>
                      /\ \A t \in Client : waiting'[t] \in {NoCall, waiting[t]}
             clear == /\ storage' = NoToken /\ UNCHANGED <<flag, raced>>
                      /\ \A t \in Client : waiting'[t] \in {NoCall, waiting[t]}
  <1>1. CASE quiet \/ clear
    BY <1>1 DEF FlagKnown, TokensMatchFlag
  <1>2. CASE flag'
    BY <1>2 DEF FlagKnown, TokensMatchFlag
  <1>3. CASE UNCHANGED browser
    BY <1>1, <1>3 DEF browser, local, tabs
  <1>4. CASE UNCHANGED vars
    BY <1>3, <1>4 DEF vars
  <1>5. CASE LoginElsewhere \/ TimePasses
    BY <1>3, <1>5 DEF LoginElsewhere, TimePasses
  <1>6. ASSUME NEW t \in Client, NEW n, SetAuth(t, n)
        PROVE  FlagKnown'
    BY <1>2, <1>6 DEF SetAuth
  <1>7. ASSUME NEW t \in Client, Registered(t) \/ Login(t) \/ \E s \in Signup : Submit(t, s)
        PROVE  FlagKnown'
    BY <1>1, <1>6, <1>7 DEF Registered, Login, Submit, local
  <1>8. ASSUME NEW t \in Client, NEW p, Load(t, p)
        PROVE  \A u \in Client : waiting'[u] \in {NoCall, waiting[u]}
    BY <1>8 DEF Load, Typed, TypeOK
  <1>9. ASSUME NEW t \in Client, OpenApp(t) \/ Reload(t) \/ RefreshRefused(t)
        PROVE  FlagKnown'
    BY <1>1, <1>8, <1>9 DEF OpenApp, Reload, RefreshRefused, ForceLogout, local
  <1>10. ASSUME NEW q \in Request, NothingToRefresh(q)
         PROVE  FlagKnown'
    <2>1. TabOf(q) \in Client
      BY <1>10 DEF NothingToRefresh, First401, Is, TabOf, ApiCall, Typed, TypeOK
    <2> QED BY <1>1, <1>8, <1>10, <2>1 DEF NothingToRefresh, ForceLogout
  <1>11. ASSUME NEW q \in Request,
                \/ \E t \in Client, kind \in Kinds : Send(t, q, kind)
                \/ Answer(q) \/ Enqueue(q)
         PROVE  FlagKnown'
    BY <1>1, <1>11 DEF Send, Answer, Enqueue, local
  <1>12. ASSUME NEW q \in Request, Settle(q)
         PROVE  FlagKnown'
    <2>1. waiting' = waiting
      BY <1>12 DEF Settle
    <2>2. CASE ClearStore(TabOf(q))
      BY <2>1, <2>2 DEF ClearStore, FlagKnown, TokensMatchFlag
    <2> QED BY <1>1, <1>12, <2>1, <2>2 DEF Settle, local
  <1>13. ASSUME NEW q \in Request, NEW x \in Call, BeginRefresh(q, x)
         PROVE  FlagKnown'
    BY <1>13 DEF BeginRefresh, local, FlagKnown, TokensMatchFlag
  <1>14. ASSUME NEW t \in Client, RefreshArrives(t)
         PROVE  FlagKnown'
    BY <1>14 DEF RefreshArrives, FlagKnown, TokensMatchFlag, Typed, TypeOK
  <1>15. ASSUME NEW x \in Call, Unheard(x)
         PROVE  FlagKnown'
    BY <1>3, <1>15 DEF Unheard
  <1> QED BY <1>3, <1>4, <1>5, <1>7, <1>9, <1>10, <1>11, <1>12, <1>13, <1>14, <1>15
      DEF Next, React

-----------------------------------------------------------------------------
(* Refusals.                                                               *)

\* Whatever happens next, a refresh with token n is refused.
Gone(n) == n <= lapsed \/ n \in ended

\* The token lapsed, an event ended it, or another client than c submitted it.
Caused(n, c) == Gone(n) \/ \E d \in Client \ {c} : d \in spent[n]

\* Answers with a pair that are on their way to a tab: of refreshes and of
\* registrations.
Granted == {x \in Call : At(x, "granted")}
Awaiting == {t \in Client : form[t] # NoSignup /\ Stands(form[t], "created")}
Promised(t) == signup[form[t]].pair

\* Submitted tokens were issued, and who submitted is remembered.
Submitted ==
    /\ \A n \in Token : spent[n] # {} => n <= issued
    /\ \A x \in Call : call[x] # NoCall => call[x].by \in spent[call[x].token]

\* No two tabs wait for the same registration, or for one that was not sent.
OneForm ==
    \A t \in Client : form[t] # NoSignup =>
        /\ ~Stands(form[t], "unsent")
        /\ \A u \in Client : form[u] = form[t] => u = t

\* A pair on its way: nobody has submitted it, and it is stored or gone.
Unused(n) ==
    /\ n \in Token
    /\ spent[n] = {} /\ storage # n
    /\ stored = n \/ Gone(n)

\* Every pair on its way is new, and comes in one answer.
Coming ==
    /\ \A x \in Granted : Unused(call[x].pair)
    /\ \A t \in Awaiting : Unused(Promised(t))
    /\ \A x, y \in Granted : call[x].pair = call[y].pair => x = y
    /\ \A t, u \in Awaiting : Promised(t) = Promised(u) => t = u
    /\ \A x \in Granted, t \in Awaiting : call[x].pair # Promised(t)

\* The token in localStorage is the stored one unless it is gone or was
\* submitted; a tab that submitted it still waits, unless it is gone.
Kept ==
    storage \in Token =>
        /\ stored = storage \/ Gone(storage) \/ spent[storage] # {}
        /\ \A t \in spent[storage] :
             \/ storage \in ended
             \/ waiting[t] # NoCall /\ call[waiting[t]].token = storage

\* A tab submits a token once, unless the token is gone.
SubmittedOnce ==
    \A x, y \in Call :
        /\ call[x] # NoCall /\ call[y] # NoCall /\ x # y
        /\ call[x].by = call[y].by /\ call[x].token = call[y].token
        => call[x].token \in ended

\* What a handler will find in Redis, or has found.
Reading ==
    \A x \in Call :
        /\ At(x, "read") => stored = call[x].token \/ Caused(call[x].token, call[x].by)
        /\ At(x, "revoke") \/ At(x, "refused") => Caused(call[x].token, call[x].by)

CauseInv == Submitted /\ OneForm /\ Coming /\ Kept /\ SubmittedOnce /\ Reading

-----------------------------------------------------------------------------

\* Causes do not go away.
Grows ==
    /\ lapsed \in Nat /\ lapsed' \in Nat /\ lapsed <= lapsed'
    /\ ended \subseteq ended'
    /\ \A n \in Token : spent[n] \subseteq spent'[n]

LEMMA ServerGrows ==
    ASSUME Typed,
           \/ IssueAtLogin \/ AccessExpires \/ RefreshLapses \/ SupportSetsEnabled
           \/ DeleteAtLogout
           \/ \E x \in Call : Refresh(x) \/ RefreshFails(x)
           \/ \E x \in Call, c \in Client, n \in Token : StartRefresh(x, c, n)
           \/ \E s \in Signup : StartSignup(s) \/ Register(s) \/ SignupFails(s)
    PROVE  Grows
  <1>1. lapsed \in Nat
    BY Numbers DEF Typed, TypeOK, ServerTypeOK
  <1>2. CASE IssueAtLogin \/ AccessExpires \/ RefreshLapses \/ SupportSetsEnabled \/ DeleteAtLogout
    BY <1>1, <1>2 DEF IssueAtLogin, AccessExpires, RefreshLapses, SupportSetsEnabled,
       DeleteAtLogout, history, Grows
  <1>3. CASE \E x \in Call : Refresh(x) \/ RefreshFails(x)
    BY <1>1, <1>3 DEF Refresh, ReadStored, Revoke, DeleteOld, LoadUser, StoreNew, RefreshFails, Grows
  <1>4. CASE \E x \in Call, c \in Client, n \in Token : StartRefresh(x, c, n)
    BY <1>1, <1>4 DEF StartRefresh, Grows, Typed, TypeOK, ServerTypeOK
  <1>5. CASE \E s \in Signup : StartSignup(s) \/ Register(s) \/ SignupFails(s)
    BY <1>1, <1>5 DEF StartSignup, Register, CheckEmail, InsertUser, CommitAccount, StoreFirst,
       SignupFails, server, history, Grows
  <1> QED BY <1>2, <1>3, <1>4, <1>5

LEMMA CausesStay == Typed /\ [Next]_vars => Grows
  <1> SUFFICES ASSUME Typed, [Next]_vars PROVE Grows
    OBVIOUS
  <1>1. lapsed \in Nat
    BY Numbers DEF Typed, TypeOK, ServerTypeOK
  <1>2. CASE UNCHANGED <<lapsed, spent>> /\ ended \subseteq ended'
    BY <1>1, <1>2 DEF Grows
  <1>3. CASE UNCHANGED vars \/ LoginElsewhere \/ TimePasses \/ Serve
    BY <1>2, <1>3, ServerGrows DEF vars, server, history, LoginElsewhere, TimePasses, Serve
  <1>4. ASSUME NEW t \in Client,
               \/ Registered(t) \/ Login(t) \/ OpenApp(t) \/ Reload(t)
               \/ RefreshArrives(t) \/ RefreshRefused(t)
               \/ \E s \in Signup : Submit(t, s)
        PROVE  Grows
    BY <1>2, <1>4, ServerGrows
       DEF Registered, Login, OpenApp, Reload, RefreshArrives, RefreshRefused, Submit, server, history
  <1>5. ASSUME NEW q \in Request,
               \/ \E t \in Client, kind \in Kinds : Send(t, q, kind)
               \/ Answer(q) \/ Settle(q) \/ NothingToRefresh(q) \/ Enqueue(q)
        PROVE  Grows
    BY <1>2, <1>5, ServerGrows
       DEF Send, Answer, Settle, NothingToRefresh, Enqueue, server, history
  <1>6. ASSUME NEW q \in Request, NEW x \in Call, BeginRefresh(q, x)
        PROVE  Grows
    <2>1. TabOf(q) \in Client /\ storage \in Token
      BY <1>6 DEF BeginRefresh, First401, Is, TabOf, ApiCall, Typed, TypeOK
    <2> QED BY <1>6, <2>1, ServerGrows DEF BeginRefresh
  <1>7. ASSUME NEW x \in Call, Unheard(x)
        PROVE  Grows
    BY <1>2, <1>7 DEF Unheard, history
  <1> QED BY <1>3, <1>4, <1>5, <1>6, <1>7 DEF Next, React

\* The key keeps its token, or the token is gone.
KeyHolds ==
    stored' = stored \/ stored = NoToken \/ stored <= lapsed' \/ stored \in ended'

\* A tab goes on waiting unless its token is gone.
StillWaits(t) ==
    \/ waiting[t] = NoCall
    \/ call[waiting[t]].token \in ended'
    \/ waiting'[t] = waiting[t] /\ call'[waiting[t]] = call[waiting[t]]

NothingNewAwaited ==
    /\ Awaiting' \subseteq Awaiting
    /\ \A t \in Awaiting' : Promised(t)' = Promised(t)

\* Answers, calls and what localStorage holds may go, and nothing comes.
Idle ==
    /\ UNCHANGED <<issued, spent>>
    /\ KeyHolds
    /\ storage' \in {storage, NoToken}
    /\ \A x \in Call : call'[x] \in {call[x], NoCall}
    /\ storage' = NoToken \/ \A t \in Client : StillWaits(t)
    /\ NothingNewAwaited

\* A pair is issued: at a login, here or elsewhere, to a registration, or in
\* exchange for another.
NewPair ==
    /\ issued < MaxTokens
    /\ issued' = issued + 1 /\ stored' = issued + 1
    /\ KeyHolds
    /\ UNCHANGED <<spent, waiting, form>>

LogsIn == NewPair /\ storage' \in {storage, issued + 1} /\ UNCHANGED <<call, signup>>

Registers(s) ==
    /\ NewPair
    /\ signup' = [signup EXCEPT ![s] = [step |-> "created", pair |-> issued + 1]]
    /\ UNCHANGED <<storage, call>>

Rotates(x) == StoreNew(x) /\ NewPair /\ UNCHANGED <<storage, signup>>

Handles(x) ==
    /\ ReadStored(x) \/ Revoke(x) \/ DeleteOld(x) \/ LoadUser(x) \/ RefreshFails(x)
    /\ UNCHANGED <<issued, spent, storage, waiting, form, signup>>

\* Tab c submits its token.
Submits(x, c) ==
    /\ storage \in Token
    /\ waiting[c] = NoCall
    /\ StartRefresh(x, c, storage)
    /\ waiting' = [waiting EXCEPT ![c] = x]
    /\ UNCHANGED <<storage, form, signup>>

\* A pair arrives.
Arrives(t) ==
    \/ RefreshArrives(t)
    \/ Registered(t) /\ Stands(form[t], "created")

ClientStep ==
    \/ Idle \/ LogsIn
    \/ \E s \in Signup : Registers(s)
    \/ \E x \in Call : Rotates(x) \/ Handles(x) \/ \E c \in Client : Submits(x, c)
    \/ \E t \in Client : Arrives(t)

LEMMA NothingAwaited ==
    ASSUME UNCHANGED <<form, signup>>
    PROVE  NothingNewAwaited
  BY DEF NothingNewAwaited, Awaiting, Promised, Stands

LEMMA ProceedAwaits ==
    ASSUME Typed, NEW s \in Signup, NEW step \in SignupStep \ {"created"}, Proceed(s, step),
           \A t \in Client : form'[t] \in {form[t], s}
    PROVE  NothingNewAwaited
  <1>1. /\ signup'[s].step = step
        /\ \A r \in Signup \ {s} : signup'[r] = signup[r]
    BY DEF Proceed, Typed, TypeOK, RegistrationTypeOK, Applicant
  <1>2. \A t \in Awaiting' : form'[t] = form[t] /\ form[t] \in Signup \ {s}
    BY <1>1 DEF Awaiting, Stands, Typed, TypeOK
  <1> QED BY <1>1, <1>2 DEF NothingNewAwaited, Awaiting, Promised, Stands

LEMMA LoadAwaits ==
    ASSUME Typed, NEW t \in Client, NEW p, Load(t, p), signup' = signup
    PROVE  NothingNewAwaited
  <1>1. \A u \in Client : form'[u] \in {NoSignup, form[u]}
    BY DEF Load, Typed, TypeOK
  <1> QED BY <1>1 DEF NothingNewAwaited, Awaiting, Promised, Stands

\* A page is loaded, and the refresh it waited for is orphaned.
LEMMA LoadWaits ==
    ASSUME Typed, NEW t \in Client, NEW p, Load(t, p), Orphaned(t) \subseteq ended', call' = call
    PROVE  \A u \in Client : StillWaits(u)
  BY DEF Load, Typed, TypeOK, StillWaits, Orphaned

LEMMA SignupKinds ==
    ASSUME Typed, NEW s \in Signup, Register(s) \/ SignupFails(s), UNCHANGED browser
    PROVE  Idle \/ Registers(s)
  <1>1. UNCHANGED <<storage, waiting, form>>
    BY DEF browser, local, tabs
  <1>2. CASE StoreFirst(s)
    BY <1>1, <1>2 DEF StoreFirst, Registers, NewPair, KeyHolds, Displaced
  <1>3. ASSUME NEW step \in SignupStep \ {"created"}, Proceed(s, step),
               UNCHANGED <<issued, spent, stored, call>>
        PROVE  Idle
    <2>1. NothingNewAwaited
      BY <1>1, <1>3, ProceedAwaits
    <2> QED BY <1>1, <1>3, <2>1 DEF Idle, KeyHolds, StillWaits
  <1>4. CASE CheckEmail(s) \/ InsertUser(s) \/ CommitAccount(s) \/ SignupFails(s)
    BY <1>3, <1>4 DEF CheckEmail, InsertUser, CommitAccount, SignupFails, server, history, SignupStep
  <1> QED BY <1>2, <1>4 DEF Register

LEMMA ClientKinds == Typed /\ [Next]_vars => ClientStep
  <1> SUFFICES ASSUME Typed, [Next]_vars PROVE ClientStep
    OBVIOUS
  <1>1. ASSUME UNCHANGED <<issued, spent, call>>, KeyHolds, storage' \in {storage, NoToken},
               storage' = NoToken \/ waiting' = waiting, NothingNewAwaited
        PROVE  ClientStep
    BY <1>1 DEF ClientStep, Idle, StillWaits
  <1>2. CASE UNCHANGED <<issued, spent, stored, call, form, signup, waiting>> /\ storage' \in {storage, NoToken}
    BY <1>1, <1>2, NothingAwaited DEF KeyHolds
  <1>3. CASE UNCHANGED vars
    BY <1>2, <1>3 DEF vars, server, history, account, browser, local, tabs
  <1>4. CASE LoginElsewhere
    BY <1>4 DEF LoginElsewhere, IssueAtLogin, Displaced, account, browser, local, tabs,
       ClientStep, LogsIn, NewPair, KeyHolds
  <1>5. CASE TimePasses
    <2>1. UNCHANGED <<issued, spent, call, storage, form, signup, waiting>>
      BY <1>5 DEF TimePasses, AccessExpires, RefreshLapses, history, account, browser, local, tabs
    <2>2. KeyHolds
      BY <1>5, Numbers
         DEF TimePasses, AccessExpires, RefreshLapses, KeyHolds, Typed, TypeOK, ServerTypeOK
    <2> QED BY <1>1, <2>1, <2>2, NothingAwaited
  <1>6. CASE Serve /\ UNCHANGED browser
    <2>1. UNCHANGED <<storage, form, waiting>>
      BY <1>6 DEF browser, local, tabs
    <2>2. CASE SupportSetsEnabled /\ UNCHANGED account
      BY <1>2, <2>1, <2>2 DEF SupportSetsEnabled, account
    <2>3. ASSUME NEW x \in Call, Refresh(x) \/ RefreshFails(x), UNCHANGED account
          PROVE  ClientStep
      <3>1. CASE StoreNew(x)
        BY <2>1, <2>3, <3>1 DEF StoreNew, Displaced, account, ClientStep, Rotates, NewPair, KeyHolds
      <3>2. CASE ReadStored(x) \/ Revoke(x) \/ DeleteOld(x) \/ LoadUser(x) \/ RefreshFails(x)
        BY <2>1, <2>3, <3>2 DEF ReadStored, Revoke, DeleteOld, LoadUser, RefreshFails, account,
           ClientStep, Handles
      <3> QED BY <2>3, <3>1, <3>2 DEF Refresh
    <2>4. ASSUME NEW s \in Signup, Register(s) \/ SignupFails(s)
          PROVE  ClientStep
      BY <1>6, <2>4, SignupKinds DEF ClientStep
    <2> QED BY <1>6, <2>2, <2>3, <2>4 DEF Serve
  <1>7. ASSUME NEW t \in Client, Registered(t)
        PROVE  ClientStep
    <2>1. CASE Stands(form[t], "created")
      BY <1>7, <2>1 DEF ClientStep, Arrives
    <2>2. CASE ~Stands(form[t], "created")
      <3>1. UNCHANGED <<issued, spent, stored, call, signup, waiting, storage>>
        BY <1>7, <2>2 DEF Registered, server, history, account, local
      <3>2. \A u \in Client : form'[u] \in {NoSignup, form[u]}
        BY <1>7 DEF Registered, Typed, TypeOK
      <3>3. NothingNewAwaited
        BY <3>1, <3>2 DEF NothingNewAwaited, Awaiting, Promised, Stands
      <3> QED BY <1>1, <3>1, <3>3 DEF KeyHolds
    <2> QED BY <2>1, <2>2
  <1>8. ASSUME NEW t \in Client, Login(t)
        PROVE  ClientStep
    BY <1>8 DEF Login, SetAuth, IssueAtLogin, Displaced, account, ClientStep, LogsIn, NewPair, KeyHolds
  <1>9. ASSUME NEW t \in Client, OpenApp(t) \/ Reload(t)
        PROVE  ClientStep
    <2>1. UNCHANGED <<issued, spent, stored, call, signup, storage>>
      BY <1>9 DEF OpenApp, Reload, server, account, local
    <2>2. PICK p : Load(t, p)
      BY <1>9 DEF OpenApp, Reload
    <2>3. Orphaned(t) \subseteq ended'
      BY <1>9 DEF OpenApp, Reload
    <2> QED BY <2>1, <2>2, <2>3, LoadAwaits, LoadWaits DEF ClientStep, Idle, KeyHolds
  <1>10. ASSUME NEW t \in Client, NEW s \in Signup, Submit(t, s)
         PROVE  ClientStep
    <2>1. /\ UNCHANGED <<issued, spent, stored, call, storage, waiting>>
          /\ Proceed(s, "check") /\ form' = [form EXCEPT ![t] = s]
      BY <1>10 DEF Submit, StartSignup, server, history, local
    <2>2. \A u \in Client : form'[u] \in {form[u], s}
      BY <2>1 DEF Typed, TypeOK
    <2>3. NothingNewAwaited
      BY <2>1, <2>2, ProceedAwaits DEF SignupStep
    <2> QED BY <1>1, <2>1, <2>3 DEF KeyHolds
  <1>11. ASSUME NEW q \in Request, Answer(q)
         PROVE  ClientStep
    <2>1. UNCHANGED <<issued, spent, call, storage, form, signup, waiting>>
      BY <1>11 DEF Answer, DeleteAtLogout, server, history, account, local
    <2>2. KeyHolds
      BY <1>11 DEF Answer, DeleteAtLogout, Displaced, server, KeyHolds
    <2> QED BY <1>1, <2>1, <2>2, NothingAwaited
  <1>12. ASSUME NEW q \in Request,
                \/ \E t \in Client, kind \in Kinds : Send(t, q, kind)
                \/ Settle(q) \/ Enqueue(q)
         PROVE  ClientStep
    BY <1>2, <1>12 DEF Send, Settle, Enqueue, ClearStore, server, history, account, local
  <1>13. ASSUME NEW q \in Request, NothingToRefresh(q)
         PROVE  ClientStep
    <2>1. TabOf(q) \in Client
      BY <1>13 DEF NothingToRefresh, First401, Is, TabOf, ApiCall, Typed, TypeOK
    <2>2. /\ UNCHANGED <<issued, spent, stored, call, signup>>
          /\ storage' = NoToken /\ Load(TabOf(q), "login")
      BY <1>13 DEF NothingToRefresh, ForceLogout, server, history, account
    <2> QED BY <1>1, <2>1, <2>2, LoadAwaits DEF KeyHolds
  <1>14. ASSUME NEW q \in Request, NEW x \in Call, BeginRefresh(q, x)
         PROVE  ClientStep
    <2>1. TabOf(q) \in Client /\ storage \in Token
      BY <1>14 DEF BeginRefresh, First401, Is, TabOf, ApiCall, Typed, TypeOK
    <2>2. Submits(x, TabOf(q))
      BY <1>14, <2>1 DEF BeginRefresh, MayRefresh, account, local, Submits
    <2> QED BY <2>1, <2>2 DEF ClientStep
  <1>15. ASSUME NEW t \in Client, RefreshArrives(t)
         PROVE  ClientStep
    BY <1>15 DEF ClientStep, Arrives
  <1>16. ASSUME NEW t \in Client, RefreshRefused(t)
         PROVE  ClientStep
    <2>1. /\ UNCHANGED <<issued, spent, stored, signup>>
          /\ storage' = NoToken /\ Load(t, "login")
          /\ call' = [call EXCEPT ![waiting[t]] = NoCall]
      BY <1>16 DEF RefreshRefused, ForceLogout, history, account
    <2> QED BY <2>1, LoadAwaits DEF ClientStep, Idle, KeyHolds, Typed, TypeOK, ServerTypeOK
  <1>17. ASSUME NEW x \in Call, Unheard(x)
         PROVE  ClientStep
    <2>1. /\ UNCHANGED <<issued, spent, stored, storage, form, waiting, signup>>
          /\ call' = [call EXCEPT ![x] = NoCall]
          /\ \A t \in Client : waiting[t] # x
      BY <1>17 DEF Unheard, history, account, browser, local, tabs
    <2>2. \A t \in Client : StillWaits(t)
      BY <2>1 DEF StillWaits, Typed, TypeOK, ServerTypeOK
    <2> QED BY <2>1, <2>2, NothingAwaited
        DEF ClientStep, Idle, KeyHolds, Typed, TypeOK, ServerTypeOK
  <1> QED BY <1>3, <1>4, <1>5, <1>6, <1>7, <1>8, <1>9, <1>10, <1>11, <1>12, <1>13, <1>14,
             <1>15, <1>16, <1>17 DEF Next, React

-----------------------------------------------------------------------------

LEMMA NewIsUnknown ==
    ASSUME Typed, Issued, Submitted, NewPair
    PROVE  /\ issued + 1 \in Token /\ issued' \in Nat /\ issued < issued'
           /\ spent[issued + 1] = {} /\ storage # issued + 1
           /\ \A x \in Call : call[x] # NoCall => call[x].pair # issued + 1
           /\ \A s \in Signup : signup[s].pair # issued + 1
           /\ \A n \in Token : n <= issued => n # issued + 1
  BY NumberTypes, Numbers DEF NewPair, Issued, Submitted

\* A handler's step leaves everything but the session and its own progress.
LEMMA SubmittedStep ==
    ASSUME Typed, Issued, Submitted, ClientStep
    PROVE  Submitted'
  <1> USE NumberTypes
  <1>1. ASSUME UNCHANGED <<issued, spent>>, \A x \in Call : call'[x] \in {call[x], NoCall}
        PROVE  Submitted'
    BY <1>1 DEF Submitted
  <1>2. ASSUME NewPair, call' = call
        PROVE  Submitted'
    BY <1>2, NewIsUnknown DEF NewPair, Submitted
  <1>3. ASSUME NEW x \in Call, Rotates(x)
        PROVE  Submitted'
    <2>1. \A y \in Call : call'[y] # NoCall =>
              call[y] # NoCall /\ call'[y].by = call[y].by /\ call'[y].token = call[y].token
      BY <1>3, HandlersKeep DEF Rotates, Refresh, Typed, TypeOK, ServerTyped
    <2> QED BY <1>3, <2>1, NewIsUnknown DEF Rotates, NewPair, Submitted
  <1>4. ASSUME NEW x \in Call, Handles(x)
        PROVE  Submitted'
    <2>1. \A y \in Call : call'[y] # NoCall =>
              call[y] # NoCall /\ call'[y].by = call[y].by /\ call'[y].token = call[y].token
      BY <1>4, HandlersKeep DEF Handles, Refresh, Typed, TypeOK, ServerTyped
    <2> QED BY <1>4, <2>1 DEF Handles, Submitted
  <1>5. ASSUME NEW x \in Call, NEW c \in Client, Submits(x, c)
        PROVE  Submitted'
    <2>1. /\ issued' = issued /\ storage <= issued /\ storage \in Token
          /\ spent' = [spent EXCEPT ![storage] = @ \cup {c}]
          /\ call'[x].by = c /\ call'[x].token = storage
          /\ \A y \in Call \ {x} : call'[y] = call[y]
      BY <1>5 DEF Submits, StartRefresh, Issued, Typed, TypeOK, ServerTypeOK
    <2>2. /\ spent'[storage] = spent[storage] \cup {c}
          /\ \A n \in Token \ {storage} : spent'[n] = spent[n]
      BY <2>1 DEF Typed, TypeOK, ServerTypeOK
    <2> QED BY <2>1, <2>2 DEF Submitted
  <1>6. ASSUME NEW t \in Client, Arrives(t)
        PROVE  Submitted'
    BY <1>1, <1>6 DEF Arrives, RefreshArrives, Registered, history, server, Typed, TypeOK, ServerTypeOK
  <1> QED BY <1>1, <1>2, <1>3, <1>4, <1>5, <1>6 DEF ClientStep, Idle, LogsIn, Registers, NewPair

LEMMA OneFormStep ==
    ASSUME Typed, OneForm, [Next]_vars
    PROVE  OneForm'
  <1> DEFINE sent == \A s \in Signup : Stands(s, "unsent")' => Stands(s, "unsent")
             fewer == \A t \in Client : form'[t] \in {NoSignup, form[t]}
  <1>1. CASE sent /\ fewer
    <2>1. \A t \in Client : form[t] # NoSignup => form[t] \in Signup
      BY DEF Typed, TypeOK
    <2> QED BY <1>1, <2>1 DEF OneForm
  <1>2. CASE UNCHANGED <<form, signup>>
    BY <1>2 DEF OneForm, Stands
  <1>3. ASSUME NEW s \in Signup, NEW step \in SignupStep \ {"unsent"}, Proceed(s, step)
        PROVE  sent /\ signup'[s].step = step
    BY <1>3 DEF Proceed, Stands, Typed, TypeOK, RegistrationTypeOK, Applicant
  <1>4. CASE Serve /\ UNCHANGED browser
    <2>1. ASSUME NEW s \in Signup, Register(s) \/ SignupFails(s)
          PROVE  sent
      <3>1. CASE StoreFirst(s)
        BY <3>1 DEF StoreFirst, Stands, Typed, TypeOK, RegistrationTypeOK
      <3> QED BY <1>3, <2>1, <3>1
          DEF Register, CheckEmail, InsertUser, CommitAccount, SignupFails, SignupStep
    <2> QED BY <1>1, <1>2, <1>4, <2>1 DEF Serve, browser, tabs, account
  <1>5. ASSUME NEW t \in Client, NEW p, Load(t, p)
        PROVE  fewer
    BY <1>5 DEF Load, Typed, TypeOK
  <1>6. ASSUME NEW t \in Client, NEW s \in Signup, Submit(t, s)
        PROVE  OneForm'
    <2>1. /\ form' = [form EXCEPT ![t] = s]
          /\ Stands(s, "unsent") /\ Proceed(s, "check")
      BY <1>6 DEF Submit, StartSignup
    <2>2. \A u \in Client : form[u] # s
      BY <2>1, NoRequestAssumption DEF OneForm
    <2>3. sent /\ signup'[s].step = "check"
      BY <1>3, <2>1 DEF SignupStep
    <2>4. \A u \in Client : form[u] # NoSignup => form[u] \in Signup
      BY DEF Typed, TypeOK
    <2>5. form'[t] = s /\ \A u \in Client \ {t} : form'[u] = form[u]
      BY <2>1 DEF Typed, TypeOK
    <2> QED BY <2>2, <2>3, <2>4, <2>5 DEF OneForm, Stands
  <1>7. CASE UNCHANGED vars \/ LoginElsewhere \/ TimePasses
    BY <1>2, <1>7 DEF vars, LoginElsewhere, TimePasses, account, browser, tabs
  <1>8. ASSUME NEW t \in Client, Registered(t) \/ Login(t)
        PROVE  OneForm'
    BY <1>1, <1>8 DEF Registered, Login, account, Stands, Typed, TypeOK
  <1>9. ASSUME NEW t \in Client, OpenApp(t) \/ Reload(t) \/ RefreshRefused(t)
        PROVE  OneForm'
    <2>1. PICK p : Load(t, p)
      BY <1>9 DEF OpenApp, Reload, RefreshRefused, ForceLogout
    <2> QED BY <1>1, <1>5, <1>9, <2>1 DEF OpenApp, Reload, RefreshRefused, account, Stands
  <1>10. ASSUME NEW q \in Request, NothingToRefresh(q)
         PROVE  OneForm'
    <2>1. TabOf(q) \in Client
      BY <1>10 DEF NothingToRefresh, First401, Is, TabOf, ApiCall, Typed, TypeOK
    <2> QED BY <1>1, <1>5, <1>10, <2>1 DEF NothingToRefresh, ForceLogout, account, Stands
  <1>11. ASSUME NEW q \in Request,
                \/ \E t \in Client, kind \in Kinds : Send(t, q, kind)
                \/ Answer(q) \/ Settle(q) \/ Enqueue(q) \/ \E x \in Call : BeginRefresh(q, x)
         PROVE  OneForm'
    BY <1>2, <1>11 DEF Send, Answer, Settle, Enqueue, BeginRefresh, account
  <1>12. ASSUME NEW t \in Client, RefreshArrives(t)
         PROVE  OneForm'
    BY <1>2, <1>12 DEF RefreshArrives, account
  <1>13. ASSUME NEW x \in Call, Unheard(x)
         PROVE  OneForm'
    BY <1>2, <1>13 DEF Unheard, account, browser, tabs
  <1> QED BY <1>4, <1>6, <1>7, <1>8, <1>9, <1>10, <1>11, <1>12, <1>13 DEF Next, React

-----------------------------------------------------------------------------

\* A pair on its way stays unused while nobody submits it or stores it away.
LEMMA StaysUnused ==
    ASSUME Grows, NEW n, Unused(n), spent' = spent \/ spent'[n] = spent[n], storage' # n,
           KeyHolds \/ (stored = n => stored' = n)
    PROVE  Unused(n)'
  <1>1. n \in Nat /\ (n <= lapsed => n <= lapsed') /\ (n \in ended => n \in ended')
    BY Numbers DEF Grows, Unused
  <1>2. stored' = n \/ n <= lapsed' \/ n \in ended'
    BY <1>1, Numbers DEF KeyHolds, Unused, Gone
  <1> QED BY <1>2 DEF Unused, Gone

\* What a handler does to the key: DEL takes the token it came with.
LEMMA HandlersKey ==
    ASSUME Typed, NEW x \in Call, Handles(x)
    PROVE  KeyHolds \/ (DeleteOld(x) /\ stored = call[x].token)
  BY DEF Handles, ReadStored, Revoke, DeleteOld, LoadUser, RefreshFails, Displaced, KeyHolds

\* An answer with a pair is granted by StoreNew alone.
LEMMA HandlersGrant ==
    ASSUME Typed, NEW x \in Call, Handles(x)
    PROVE  Granted' \subseteq Granted /\ \A y \in Granted' : call'[y] = call[y]
  <1>1. call[x] # NoCall /\ \A y \in Call \ {x} : call'[y] = call[y]
    BY HandlersKeep DEF Handles, Refresh, Typed, TypeOK, ServerTyped
  <1>2. ASSUME NEW step, MoveTo(x, step)
        PROVE  call'[x].step = step
    BY <1>1, <1>2 DEF MoveTo, Typed, TypeOK, ServerTypeOK, Handler
  <1>3. call'[x].step # "granted"
    <2>1. CASE ReadStored(x)
      BY <1>2, <2>1 DEF ReadStored, NextOf
    <2>2. CASE Revoke(x) \/ DeleteOld(x) \/ LoadUser(x) \/ RefreshFails(x)
      BY <1>2, <2>2 DEF Revoke, DeleteOld, LoadUser, RefreshFails
    <2> QED BY <2>1, <2>2 DEF Handles
  <1> QED BY <1>1, <1>3 DEF Granted, At

\* The answers on their way only get fewer.
LEMMA ComingLess ==
    ASSUME Coming,
           Granted' \subseteq Granted, \A x \in Granted' : call'[x].pair = call[x].pair,
           NothingNewAwaited,
           \A x \in Granted' : Unused(call[x].pair)',
           \A t \in Awaiting' : Unused(Promised(t))'
    PROVE  Coming'
  <1>1. ASSUME NEW x \in Granted', NEW y \in Granted', call'[x].pair = call'[y].pair
        PROVE  x = y
    BY <1>1 DEF Coming
  <1>2. ASSUME NEW t \in Awaiting', NEW u \in Awaiting', Promised(t)' = Promised(u)'
        PROVE  t = u
    BY <1>2 DEF Coming, NothingNewAwaited
  <1>3. ASSUME NEW x \in Granted', NEW t \in Awaiting'
        PROVE  call'[x].pair # Promised(t)'
    BY <1>3 DEF Coming, NothingNewAwaited
  <1> QED BY <1>1, <1>2, <1>3 DEF Coming

LEMMA ComingStep ==
    ASSUME Typed, Issued, CauseInv, ClientStep, Grows
    PROVE  Coming'
  <1> USE NumberTypes DEF CauseInv
  <1>1. ASSUME NEW x \in Granted
        PROVE  x \in Call /\ call[x] # NoCall /\ Unused(call[x].pair)
    BY DEF Coming, Granted, At
  <1>2. ASSUME NEW t \in Awaiting
        PROVE  form[t] \in Signup /\ Unused(Promised(t))
    BY DEF Coming, Awaiting, Typed, TypeOK
  <1>3. \A n : Unused(n) => n \in Token /\ n # NoToken
    BY Numbers DEF Unused
  <1>4. CASE Idle
    <2>1. Granted' \subseteq Granted /\ \A x \in Granted' : call'[x] = call[x]
      BY <1>4, NoCallAssumption DEF Idle, Granted, At
    <2>2. \A n : Unused(n) => Unused(n)'
      BY <1>3, <1>4, StaysUnused DEF Idle, Unused
    <2> QED BY <1>1, <1>2, <1>4, <2>1, <2>2, ComingLess DEF Idle, NothingNewAwaited
  <1>5. CASE LogsIn
    <2>1. Granted' = Granted /\ NothingNewAwaited
      BY <1>5, NothingAwaited DEF LogsIn, NewPair, Granted, At
    <2>2. \A n : Unused(n) /\ n # issued + 1 => Unused(n)'
      BY <1>5, StaysUnused DEF LogsIn, NewPair, Unused
    <2>3. /\ \A x \in Granted : Unused(call[x].pair)'
          /\ \A t \in Awaiting : Unused(Promised(t))'
      BY <1>1, <1>2, <1>5, <2>2, NewIsUnknown DEF LogsIn, NewPair, Promised
    <2> QED BY <1>5, <2>1, <2>3, ComingLess DEF LogsIn, NothingNewAwaited
  <1>6. ASSUME NewPair, storage' = storage
        PROVE  Unused(issued)' /\ \A n : Unused(n) => Unused(n)'
    <2>1. \A n : Unused(n) => Unused(n)'
      BY <1>6, StaysUnused DEF NewPair, Unused
    <2>2. issued' \in Token /\ spent'[issued'] = {} /\ storage' # issued' /\ stored' = issued'
      BY <1>6, NewIsUnknown DEF NewPair
    <2> QED BY <2>1, <2>2 DEF Unused
  <1>7. ASSUME NEW s \in Signup, Registers(s)
        PROVE  Coming'
    <2>1. Granted' = Granted /\ \A x \in Granted : call'[x] = call[x]
      BY <1>7 DEF Registers, Granted, At
    <2>2. /\ signup'[s].pair = issued'
          /\ \A r \in Signup \ {s} : signup'[r] = signup[r]
      BY <1>7 DEF Registers, NewPair, Typed, TypeOK, RegistrationTypeOK
    <2>3. \A t \in Awaiting' :
              \/ form[t] = s /\ Promised(t)' = issued'
              \/ form[t] # s /\ t \in Awaiting /\ Promised(t)' = Promised(t)
      BY <1>7, <2>2 DEF Registers, NewPair, Awaiting, Promised, Stands, Typed, TypeOK
    <2>4. \A t, u \in Client : form[t] = s /\ form[u] = s => t = u
      BY NoRequestAssumption DEF OneForm
    <2>5. \A x \in Granted : call[x].pair # issued'
      BY <1>1, <1>7, NewIsUnknown DEF Registers, NewPair
    <2>6. \A t \in Awaiting : Promised(t) # issued'
      BY <1>2, <1>7, NewIsUnknown DEF Registers, NewPair, Promised
    <2>7. Unused(issued)' /\ \A n : Unused(n) => Unused(n)'
      BY <1>6, <1>7 DEF Registers
    <2>8. \A x \in Granted' : Unused(call[x].pair)'
      BY <1>1, <2>1, <2>7 DEF Unused, Gone
    <2>9. \A t \in Awaiting' : Unused(Promised(t))'
      BY <1>2, <2>3, <2>7 DEF Unused, Gone
    <2>10. \A t, u \in Awaiting' : Promised(t)' = Promised(u)' => t = u
      BY <2>3, <2>4, <2>6 DEF Coming, Awaiting
    <2>11. \A x \in Granted', t \in Awaiting' : call'[x].pair # Promised(t)'
      BY <2>1, <2>3, <2>5 DEF Coming
    <2> QED BY <2>1, <2>8, <2>9, <2>10, <2>11 DEF Coming
  <1>8. ASSUME NEW x \in Call, Rotates(x)
        PROVE  Coming'
    <2>1. /\ call'[x].pair = issued' /\ call'[x].step = "granted"
          /\ \A y \in Call \ {x} : call'[y] = call[y]
      BY <1>8 DEF Rotates, NewPair, StoreNew, Typed, TypeOK, ServerTypeOK
    <2>2. \A y \in Granted' : y = x \/ (y \in Granted /\ call'[y] = call[y])
      BY <2>1 DEF Granted, At
    <2>3. Awaiting' = Awaiting /\ \A t \in Awaiting : Promised(t)' = Promised(t)
      BY <1>8 DEF Rotates, NewPair, Awaiting, Promised, Stands
    <2>4. \A y \in Granted : call[y].pair # issued'
      BY <1>1, <1>8, NewIsUnknown DEF Rotates, NewPair
    <2>5. \A t \in Awaiting : Promised(t) # issued'
      BY <1>2, <1>8, NewIsUnknown DEF Rotates, NewPair, Promised
    <2>6. Unused(issued)' /\ \A n : Unused(n) => Unused(n)'
      BY <1>6, <1>8 DEF Rotates
    <2>7. \A y \in Granted' : Unused(call[y].pair)'
      BY <1>1, <2>1, <2>2, <2>6 DEF Unused, Gone
    <2>8. \A t \in Awaiting' : Unused(Promised(t))'
      BY <1>2, <2>3, <2>6 DEF Unused, Gone
    <2>9. \A y, z \in Granted' : call'[y].pair = call'[z].pair => y = z
      BY <2>1, <2>2, <2>4 DEF Coming
    <2>10. \A y \in Granted', t \in Awaiting' : call'[y].pair # Promised(t)'
      BY <2>1, <2>2, <2>3, <2>5 DEF Coming
    <2>11. \A t, u \in Awaiting' : Promised(t)' = Promised(u)' => t = u
      BY <2>3 DEF Coming
    <2> QED BY <2>7, <2>8, <2>9, <2>10, <2>11 DEF Coming
  <1>9. ASSUME NEW x \in Call, Handles(x)
        PROVE  Coming'
    <2>1. call[x] # NoCall /\ spent[call[x].token] # {}
      BY <1>9, HandlersKeep DEF Handles, Refresh, Typed, TypeOK, ServerTyped, Submitted
    <2>2. \A n : Unused(n) => Unused(n)'
      <3>1. TAKE n
      <3>2. HAVE Unused(n)
      <3>3. KeyHolds \/ (stored = n => stored' = n)
        BY <1>9, <2>1, <3>2, HandlersKey DEF Unused
      <3> QED BY <1>9, <3>2, <3>3, StaysUnused DEF Handles, Unused
    <2>3. Granted' \subseteq Granted /\ \A y \in Granted' : call'[y] = call[y]
      BY <1>9, HandlersGrant
    <2>4. NothingNewAwaited
      BY <1>9, NothingAwaited DEF Handles
    <2> QED BY <1>1, <1>2, <2>2, <2>3, <2>4, ComingLess DEF NothingNewAwaited
  <1>10. ASSUME NEW x \in Call, NEW c \in Client, Submits(x, c)
         PROVE  Coming'
    <2>1. /\ call' = [call EXCEPT ![x] = [by |-> c, token |-> storage, pair |-> NoToken,
                 step |-> IF storage <= lapsed THEN "refused" ELSE "read"]]
          /\ \A n \in Token \ {storage} : spent'[n] = spent[n]
          /\ stored' = stored /\ storage' = storage
      BY <1>10 DEF Submits, StartRefresh, Typed, TypeOK, ServerTypeOK
    <2>2. Granted' \subseteq Granted /\ \A y \in Granted' : call'[y] = call[y]
      BY <2>1 DEF Granted, At, Typed, TypeOK, ServerTypeOK
    <2>3. \A n : Unused(n) => Unused(n)'
      BY <2>1, StaysUnused DEF Unused
    <2>4. NothingNewAwaited
      BY <1>10, NothingAwaited DEF Submits
    <2> QED BY <1>1, <1>2, <2>2, <2>3, <2>4, ComingLess DEF NothingNewAwaited
  <1>11. ASSUME NEW t \in Client, RefreshArrives(t)
         PROVE  Coming'
    <2> DEFINE x == waiting[t]
    <2>1. /\ x \in Granted /\ storage' = call[x].pair
          /\ call' = [call EXCEPT ![x] = NoCall]
          /\ UNCHANGED <<stored, spent, form, signup>>
      BY <1>11, OnlyOwnRefresh DEF RefreshArrives, Granted, history, account
    <2> HIDE DEF x
    <2>2. Granted' \subseteq Granted \ {x} /\ \A y \in Granted' : call'[y] = call[y]
      BY <2>1, NoCallAssumption DEF Granted, At, Typed, TypeOK, ServerTypeOK
    <2>3. NothingNewAwaited
      BY <2>1, NothingAwaited
    <2>4. \A n : Unused(n) /\ n # call[x].pair => Unused(n)'
      BY <2>1, StaysUnused
    <2>5. \A y \in Granted' : Unused(call[y].pair)'
      BY <1>1, <2>1, <2>2, <2>4 DEF Coming, Unused, Gone
    <2>6. \A u \in Awaiting' : Unused(Promised(u))'
      BY <1>2, <2>1, <2>3, <2>4 DEF Coming, NothingNewAwaited, Unused, Gone
    <2> QED BY <2>2, <2>3, <2>5, <2>6, ComingLess
  <1>12. ASSUME NEW t \in Client, Registered(t), Stands(form[t], "created")
         PROVE  Coming'
    <2>1. /\ t \in Awaiting /\ storage' = Promised(t)
          /\ form' = [form EXCEPT ![t] = NoSignup]
          /\ UNCHANGED <<stored, spent, call, signup>>
      BY <1>12 DEF Registered, SetAuth, Awaiting, Promised, server, history, account
    <2>2. Awaiting' \subseteq Awaiting \ {t} /\ \A u \in Awaiting' : Promised(u)' = Promised(u)
      BY <2>1 DEF Awaiting, Promised, Stands, Typed, TypeOK
    <2>3. Granted' = Granted
      BY <2>1 DEF Granted, At
    <2>4. \A n : Unused(n) /\ n # Promised(t) => Unused(n)'
      BY <2>1, StaysUnused
    <2>5. \A y \in Granted' : Unused(call[y].pair)'
      BY <1>1, <2>1, <2>3, <2>4 DEF Coming, Unused, Gone
    <2>6. \A u \in Awaiting' : Unused(Promised(u))'
      BY <1>2, <2>1, <2>2, <2>4 DEF Coming, Unused, Gone
    <2> QED BY <2>1, <2>2, <2>3, <2>5, <2>6, ComingLess DEF NothingNewAwaited
  <1> QED BY <1>4, <1>5, <1>7, <1>8, <1>9, <1>10, <1>11, <1>12 DEF ClientStep, Arrives

\* What handlers keep of every call.
LEMMA CallersKeep ==
    ASSUME Typed, NEW x \in Call, Handles(x) \/ Rotates(x)
    PROVE  \A y \in Call :
             /\ (call'[y] # NoCall) = (call[y] # NoCall)
             /\ call[y] # NoCall => call'[y].by = call[y].by /\ call'[y].token = call[y].token
             /\ y # x => call'[y] = call[y]
  BY HandlersKeep DEF Handles, Rotates, Refresh, Typed, TypeOK, ServerTyped

LEMMA SubmissionStarts ==
    ASSUME Typed, NEW x \in Call, NEW c \in Client, Submits(x, c)
    PROVE  /\ call[x] = NoCall
           /\ call'[x].by = c /\ call'[x].token = storage
           /\ call'[x].step = IF storage <= lapsed THEN "refused" ELSE "read"
           /\ \A y \in Call \ {x} : call'[y] = call[y]
           /\ spent'[storage] = spent[storage] \cup {c}
           /\ UNCHANGED <<stored, storage, lapsed, ended>>
           /\ \A t \in Client \ {c} : waiting'[t] = waiting[t]
           /\ waiting'[c] = x
  BY DEF Submits, StartRefresh, Typed, TypeOK, ServerTypeOK

LEMMA ArrivalsLeave ==
    ASSUME Typed, NEW t \in Client, Arrives(t)
    PROVE  /\ UNCHANGED <<stored, lapsed, ended, spent>>
           /\ \A x \in Call : call'[x] \in {call[x], NoCall}
           /\ \/ \E x \in Granted : storage' = call[x].pair
              \/ t \in Awaiting /\ storage' = Promised(t)
  <1>1. CASE RefreshArrives(t)
    BY <1>1, OnlyOwnRefresh DEF RefreshArrives, history, Granted, Typed, TypeOK, ServerTypeOK
  <1>2. CASE Registered(t) /\ Stands(form[t], "created")
    BY <1>2 DEF Registered, SetAuth, server, history, Awaiting, Promised
  <1> QED BY <1>1, <1>2 DEF Arrives

LEMMA KeptStep ==
    ASSUME Typed, Issued, CauseInv, ClientStep, Grows
    PROVE  Kept'
  <1> USE NumberTypes DEF CauseInv
  <1>1. ASSUME storage \in Token, storage' = storage, spent' = spent,
               KeyHolds \/ (stored = storage => spent[storage] # {})
        PROVE  stored' = storage' \/ Gone(storage)' \/ spent'[storage'] # {}
    <2>1. /\ storage <= lapsed => storage <= lapsed'
          /\ storage \in ended => storage \in ended'
      BY <1>1, Numbers DEF Grows
    <2>2. stored = storage \/ Gone(storage) \/ spent[storage] # {}
      BY <1>1 DEF Kept
    <2> QED BY <1>1, <2>1, <2>2, Numbers DEF KeyHolds, Gone
  <1>2. NoToken \notin Token
    BY Numbers
  <1>3. CASE Idle
    <2> SUFFICES ASSUME storage' \in Token PROVE Kept'
      BY DEF Kept
    <2>1. storage' = storage /\ storage \in Token /\ \A t \in Client : StillWaits(t)
      BY <1>2, <1>3 DEF Idle
    <2>2. \A t \in spent[storage] :
             storage \in ended' \/ (waiting'[t] # NoCall /\ call'[waiting'[t]].token = storage)
      <3>1. TAKE t \in spent[storage]
      <3>2. t \in Client
        BY <2>1 DEF Typed, TypeOK, ServerTypeOK
      <3> QED BY <2>1, <3>2 DEF Kept, StillWaits, Grows
    <2> QED BY <1>1, <1>3, <2>1, <2>2 DEF Idle, Kept
  <1>4. CASE LogsIn
    <2>1. CASE storage' = storage
      BY <1>1, <1>4, <2>1 DEF LogsIn, NewPair, Kept, Grows
    <2>2. CASE storage' = issued + 1
      BY <1>4, <2>2, NewIsUnknown DEF LogsIn, NewPair, Kept
    <2> QED BY <1>4, <2>1, <2>2 DEF LogsIn
  <1>5. ASSUME NEW s \in Signup, Registers(s)
        PROVE  Kept'
    BY <1>1, <1>5 DEF Registers, NewPair, Kept, Grows
  <1>6. ASSUME NEW x \in Call, Rotates(x) \/ Handles(x)
        PROVE  Kept'
    <2> SUFFICES ASSUME storage' \in Token PROVE Kept'
      BY DEF Kept
    <2>1. UNCHANGED <<storage, spent, waiting>> /\ storage \in Token
      BY <1>6 DEF Rotates, NewPair, Handles
    <2>2. KeyHolds \/ (stored = storage => spent[storage] # {})
      <3>1. KeyHolds \/ (stored = call[x].token /\ call[x] # NoCall)
        BY <1>6, HandlersKey DEF Rotates, NewPair, DeleteOld, At
      <3> QED BY <3>1 DEF Submitted
    <2>3. \A t \in spent[storage] :
             storage \in ended' \/ (waiting'[t] # NoCall /\ call'[waiting'[t]].token = storage)
      <3>1. TAKE t \in spent[storage]
      <3>2. t \in Client
        BY <2>1 DEF Typed, TypeOK, ServerTypeOK
      <3>3. waiting[t] # NoCall => waiting[t] \in Call /\ call[waiting[t]] # NoCall
        BY <3>2, OnlyOwnRefresh, NoCallAssumption
      <3> QED BY <1>6, <2>1, <3>3, CallersKeep DEF Kept, Grows
    <2> QED BY <1>1, <2>1, <2>2, <2>3 DEF Kept
  <1>7. ASSUME NEW x \in Call, NEW c \in Client, Submits(x, c)
        PROVE  Kept'
    <2>1. storage \in Token
      BY <1>7 DEF Submits
    <2>2. \A t \in spent[storage] \cup {c} :
             storage \in ended' \/ (waiting'[t] # NoCall /\ call'[waiting'[t]].token = storage)
      <3>1. TAKE t \in spent[storage] \cup {c}
      <3>2. t \in Client
        BY <2>1 DEF Typed, TypeOK, ServerTypeOK
      <3>3. waiting[t] # NoCall => waiting[t] \in Call /\ call[waiting[t]] # NoCall
        BY <3>2, OnlyOwnRefresh, NoCallAssumption
      <3> QED BY <1>7, <2>1, <3>2, <3>3, SubmissionStarts, NoCallAssumption DEF Kept
    <2> QED BY <1>7, <2>1, <2>2, SubmissionStarts DEF Kept
  <1>8. ASSUME NEW t \in Client, Arrives(t)
        PROVE  Kept'
    <2>1. Unused(storage')
      BY <1>8, ArrivalsLeave DEF Coming
    <2> QED BY <1>8, <2>1, ArrivalsLeave DEF Unused, Gone, Kept
  <1> QED BY <1>3, <1>4, <1>5, <1>6, <1>7, <1>8 DEF ClientStep

LEMMA OnceStep ==
    ASSUME Typed, Issued, CauseInv, ClientStep, Grows
    PROVE  SubmittedOnce'
  <1> USE DEF CauseInv
  <1>1. CASE \A x \in Call : call'[x] # NoCall =>
                /\ call[x] # NoCall
                /\ call'[x].by = call[x].by /\ call'[x].token = call[x].token
    BY <1>1 DEF SubmittedOnce, Grows
  <1>2. CASE Idle \/ LogsIn \/ \E s \in Signup : Registers(s)
    BY <1>1, <1>2 DEF Idle, LogsIn, Registers
  <1>3. ASSUME NEW x \in Call, Rotates(x) \/ Handles(x)
        PROVE  SubmittedOnce'
    BY <1>1, <1>3, CallersKeep
  <1>4. ASSUME NEW x \in Call, NEW c \in Client, Submits(x, c)
        PROVE  SubmittedOnce'
    <2>1. ASSUME NEW y \in Call \ {x}, call[y] # NoCall, call[y].by = c, call[y].token = storage
          PROVE  storage \in ended
      BY <1>4, <2>1 DEF Submits, Submitted, Kept
    <2> QED BY <1>4, <2>1, SubmissionStarts DEF SubmittedOnce
  <1>5. ASSUME NEW t \in Client, Arrives(t)
        PROVE  SubmittedOnce'
    BY <1>1, <1>5, ArrivalsLeave
  <1> QED BY <1>2, <1>3, <1>4, <1>5 DEF ClientStep

LEMMA CausedStays ==
    ASSUME Typed, Grows, NEW n \in Token, NEW c \in Client, Caused(n, c)
    PROVE  n <= lapsed' \/ n \in ended' \/ \E d \in Client \ {c} : d \in spent'[n]
  <1>1. n <= lapsed => n <= lapsed'
    BY Numbers DEF Grows
  <1> QED BY <1>1 DEF Grows, Caused, Gone

\* Handlers that do not move keep what Reading says of them.
LEMMA ReadingOthers ==
    ASSUME Typed, Issued, CauseInv, Grows, NEW x \in Call,
           call[x] # NoCall, call'[x] = call[x],
           KeyHolds \/ \E y \in Call \ {x} :
                          /\ call[y] # NoCall
                          /\ stored = call[y].token
    PROVE  /\ At(x, "read")' => stored' = call'[x].token \/ Caused(call[x].token, call[x].by)'
           /\ At(x, "revoke")' \/ At(x, "refused")' => Caused(call[x].token, call[x].by)'
  <1> DEFINE n == call[x].token
             c == call[x].by
  <1> USE NumberTypes
  <1>1. n \in Token /\ c \in Client
    BY DEF Handler
  <1>2. Caused(n, c) => n <= lapsed' \/ n \in ended' \/ \E d \in Client \ {c} : d \in spent'[n]
    BY <1>1, CausedStays
  <1>3. ASSUME stored = n
        PROVE  \/ stored' = n \/ n <= lapsed' \/ n \in ended'
               \/ \E d \in Client \ {c} : d \in spent'[n]
    <2>1. CASE KeyHolds
      BY <1>1, <1>3, <2>1, Numbers DEF KeyHolds
    <2>2. ASSUME NEW y \in Call \ {x}, call[y] # NoCall, stored = call[y].token
          PROVE  n \in ended' \/ \E d \in Client \ {c} : d \in spent'[n]
      <3>1. call[y].token = n
        BY <1>3, <2>2
      <3>2. call[y].by \in spent'[n] /\ call[y].by \in Client
        BY <1>1, <2>2, <3>1 DEF CauseInv, Submitted, Grows, Handler
      <3>3. call[y].by = c => n \in ended'
        BY <2>2, <3>1 DEF CauseInv, SubmittedOnce, Grows
      <3> QED BY <3>2, <3>3
    <2> QED BY <2>1, <2>2
  <1>4. /\ At(x, "read") => stored = n \/ Caused(n, c)
        /\ At(x, "revoke") \/ At(x, "refused") => Caused(n, c)
    BY DEF CauseInv, Reading
  <1> QED BY <1>2, <1>3, <1>4 DEF At, Caused, Gone

LEMMA HandlersReading ==
    ASSUME Typed, Issued, CauseInv, Grows, NEW x \in Call, Handles(x)
    PROVE  /\ At(x, "read")' => stored' = call'[x].token \/ Caused(call[x].token, call[x].by)'
           /\ At(x, "revoke")' \/ At(x, "refused")' => Caused(call[x].token, call[x].by)'
  <1> DEFINE n == call[x].token
             c == call[x].by
  <1> USE NumberTypes
  <1>1. /\ call[x] # NoCall /\ call'[x] # NoCall
        /\ call'[x].token = n /\ call'[x].by = c
    BY HandlersKeep DEF Handles, Refresh, Typed, TypeOK, ServerTyped
  <1>2. n \in Token /\ c \in Client
    BY <1>1 DEF Handler
  <1>3. Caused(n, c) => n <= lapsed' \/ n \in ended' \/ \E d \in Client \ {c} : d \in spent'[n]
    BY <1>2, CausedStays
  <1>4. ASSUME NEW step, MoveTo(x, step)
        PROVE  call'[x].step = step
    BY <1>1, <1>4 DEF MoveTo, Typed, TypeOK, ServerTypeOK, Handler
  <1>5. ~At(x, "read")'
    <2>1. CASE ReadStored(x)
      BY <1>4, <2>1 DEF ReadStored, NextOf, At
    <2>2. CASE Revoke(x) \/ DeleteOld(x) \/ LoadUser(x) \/ RefreshFails(x)
      BY <1>4, <2>2 DEF Revoke, DeleteOld, LoadUser, RefreshFails, At
    <2> QED BY <2>1, <2>2 DEF Handles
  <1>6. ASSUME At(x, "revoke")' \/ At(x, "refused")'
        PROVE  n <= lapsed' \/ n \in ended' \/ \E d \in Client \ {c} : d \in spent'[n]
    <2>1. CASE ReadStored(x)
      <3>1. stored # n
        <4>1. call'[x].step = NextOf(n)
          BY <1>4, <2>1 DEF ReadStored
        <4> QED BY <1>2, <1>6, <4>1, Numbers DEF NextOf, At
      <3> QED BY <1>3, <2>1, <3>1 DEF ReadStored, CauseInv, Reading
    <2>2. CASE Revoke(x)
      BY <1>3, <2>2 DEF Revoke, CauseInv, Reading
    <2>3. CASE DeleteOld(x)
      BY <1>4, <1>6, <2>3 DEF DeleteOld, At
    <2>4. CASE LoadUser(x)
      BY <1>4, <1>6, <2>4 DEF LoadUser, At
    <2>5. CASE RefreshFails(x)
      BY <2>5 DEF RefreshFails
    <2> QED BY <2>1, <2>2, <2>3, <2>4, <2>5 DEF Handles
  <1> QED BY <1>1, <1>5, <1>6 DEF Caused, Gone

LEMMA ReadingStep ==
    ASSUME Typed, Issued, CauseInv, ClientStep, Grows
    PROVE  Reading'
  <1>1. ASSUME \A x \in Call : call'[x] \in {call[x], NoCall}, KeyHolds
        PROVE  Reading'
    BY <1>1, ReadingOthers DEF Reading, At
  <1>2. CASE Idle \/ LogsIn \/ \E s \in Signup : Registers(s)
    BY <1>1, <1>2 DEF Idle, LogsIn, Registers, NewPair
  <1>3. ASSUME NEW x \in Call, Rotates(x)
        PROVE  Reading'
    <2>1. call'[x].step = "granted" /\ \A y \in Call \ {x} : call'[y] = call[y]
      BY <1>3 DEF Rotates, StoreNew, Typed, TypeOK, ServerTypeOK
    <2> QED BY <1>3, <2>1, ReadingOthers DEF Rotates, NewPair, Reading, At
  <1>4. ASSUME NEW x \in Call, Handles(x)
        PROVE  Reading'
    <2>1. /\ call[x] # NoCall
          /\ call'[x].token = call[x].token /\ call'[x].by = call[x].by
          /\ \A y \in Call \ {x} : call'[y] = call[y]
      BY <1>4, HandlersKeep DEF Handles, Refresh, Typed, TypeOK, ServerTyped
    <2>2. KeyHolds \/ stored = call[x].token
      BY <1>4, HandlersKey
    <2>3. ASSUME NEW y \in Call \ {x}, call[y] # NoCall
          PROVE  /\ At(y, "read")' => stored' = call'[y].token \/ Caused(call[y].token, call[y].by)'
                 /\ At(y, "revoke")' \/ At(y, "refused")' => Caused(call[y].token, call[y].by)'
      BY <2>1, <2>2, <2>3, ReadingOthers
    <2> QED BY <1>4, <2>1, <2>3, HandlersReading DEF Reading, At
  <1>5. ASSUME NEW x \in Call, NEW c \in Client, Submits(x, c)
        PROVE  Reading'
    <2>1. /\ storage \in Token /\ waiting[c] = NoCall
          /\ call'[x].by = c /\ call'[x].token = storage
          /\ call'[x].step = IF storage <= lapsed THEN "refused" ELSE "read"
          /\ \A y \in Call \ {x} : call'[y] = call[y]
          /\ spent'[storage] = spent[storage] \cup {c}
          /\ UNCHANGED <<stored, lapsed, ended>>
      BY <1>5, SubmissionStarts DEF Submits
    <2>2. stored = storage \/ Gone(storage) \/ \E d \in Client \ {c} : d \in spent[storage]
      <3>1. c \in spent[storage] => storage \in ended
        BY <2>1 DEF CauseInv, Kept
      <3>2. spent[storage] \subseteq Client
        BY <2>1 DEF Typed, TypeOK, ServerTypeOK
      <3> QED BY <2>1, <3>1, <3>2 DEF CauseInv, Kept, Gone
    <2>3. /\ At(x, "read")' => stored' = call'[x].token \/ Caused(call[x].token, call[x].by)'
          /\ At(x, "revoke")' \/ At(x, "refused")' => Caused(call[x].token, call[x].by)'
      BY <2>1, <2>2 DEF At, Caused, Gone
    <2>4. KeyHolds
      BY <2>1 DEF KeyHolds
    <2> QED BY <2>1, <2>3, <2>4, ReadingOthers DEF Reading, At
  <1>6. ASSUME NEW t \in Client, Arrives(t)
        PROVE  Reading'
    BY <1>1, <1>6, ArrivalsLeave DEF KeyHolds
  <1> QED BY <1>2, <1>3, <1>4, <1>5, <1>6 DEF ClientStep

\* The causes are there from the start, and stay.
LEMMA CauseStarts == Init => CauseInv
  <1> SUFFICES ASSUME Init PROVE CauseInv
    OBVIOUS
  <1>1. \A x \in Call : call[x] = NoCall
    BY DEF Init, RegistrationInit, ServerInit
  <1>2. /\ \A n \in Token : spent[n] = {}
        /\ storage = NoToken /\ \A t \in Client : form[t] = NoSignup
    BY DEF Init, RegistrationInit, ServerInit
  <1>3. Submitted /\ SubmittedOnce /\ Reading
    BY <1>1, <1>2 DEF Submitted, SubmittedOnce, Reading, At
  <1>4. Granted = {} /\ Awaiting = {} /\ OneForm
    BY <1>1, <1>2 DEF Granted, Awaiting, OneForm, At
  <1> QED BY <1>2, <1>3, <1>4, Numbers DEF CauseInv, Coming, Kept

LEMMA CauseStep ==
    ASSUME Typed, Issued, CauseInv, [Next]_vars
    PROVE  CauseInv'
  <1>1. ClientStep /\ Grows
    BY ClientKinds, CausesStay
  <1> QED BY <1>1, SubmittedStep, OneFormStep, ComingStep, KeptStep, OnceStep, ReadingStep
      DEF CauseInv

-----------------------------------------------------------------------------
(* Results.                                                                *)

IInv == Typed /\ ClosedStays /\ Issued /\ Rotations /\ FlagKnown /\ CauseInv

LEMMA Initially == Init => IInv
  <1> SUFFICES ASSUME Init PROVE IInv
    OBVIOUS
  <1>1. Typed
    BY TypesStart
  <1>2. Matched = {} /\ minted = [n \in Token |-> 0] /\ stored = NoToken /\ storage = NoToken
    BY DEF Init, RegistrationInit, ServerInit, Matched, At
  <1>3. ClosedStays
    BY <1>2 DEF ClosedStays
  <1>4. Issued
    BY <1>1, <1>2, NumberTypes
       DEF Init, RegistrationInit, ServerInit, Issued, NoToken
  <1>5. Rotations
    BY <1>2, Numbers DEF Rotations, Init, RegistrationInit, ServerInit, At
  <1>6. FlagKnown
    BY <1>2 DEF FlagKnown, TokensMatchFlag, Init
  <1> QED BY <1>1, <1>3, <1>4, <1>5, <1>6, CauseStarts DEF IInv

LEMMA Preserved == IInv /\ [Next]_vars => IInv'
  <1> SUFFICES ASSUME IInv, [Next]_vars PROVE IInv'
    OBVIOUS
  <1>1. SessionStep /\ Typed'
    BY StepKinds, TypesStep DEF IInv
  <1>2. Issued'
    BY <1>1, HandlersIssued, StorageIssued DEF IInv, Issued
  <1> QED BY <1>1, <1>2, LogoutStep, RotationsStep, FlagStep, CauseStep DEF IInv

\* The inductive invariant holds throughout.
THEOREM SessionsInductive == Spec => []IInv
  <1> QED BY Initially, Preserved, PTL DEF Spec

\* The state of server, registrations and tabs stays within its types.
THEOREM SessionTypesCorrect == Spec => []TypeOK
  <1>1. IInv => TypeOK
    BY DEF IInv, Typed
  <1> QED BY SessionsInductive, <1>1, PTL

\* A refresh token is exchanged for a second pair only when two handlers held
\* it between GET and DEL.
THEOREM RotationExclusive == Spec => []SecondPairOnlyByOverlap
  <1>1. IInv => SecondPairOnlyByOverlap
    BY NumberTypes DEF IInv, Rotations, SecondPairOnlyByOverlap
  <1> QED BY SessionsInductive, <1>1, PTL

\* After a logout that met no rotation half done there is no session until
\* somebody logs in.
THEOREM LogoutFinal == Spec => []LogoutHolds
  <1>1. IInv => LogoutHolds
    BY DEF IInv, ClosedStays, LogoutHolds
  <1> QED BY SessionsInductive, <1>1, PTL

\* Tokens come back after a logout only through a refresh in flight then.
THEOREM FlagAgrees == Spec => []TokensMatchFlag
  <1>1. IInv => TokensMatchFlag
    BY DEF IInv, FlagKnown
  <1> QED BY SessionsInductive, <1>1, PTL

\* Who is refused a refresh was refused for a cause: the token lapsed, an event
\* took the session from it, or another client submitted the same token.
THEOREM RefusedForCause == Spec => []RefusalHasCause
  <1>1. ASSUME IInv, NEW x \in Call, At(x, "refused")
        PROVE  \/ call[x].token <= lapsed
               \/ call[x].token \in ended
               \/ \E c \in Client \ {call[x].by} : c \in spent[call[x].token]
    BY <1>1 DEF IInv, CauseInv, Reading, Caused, Gone
  <1>2. IInv => RefusalHasCause
    BY <1>1 DEF RefusalHasCause
  <1> QED BY SessionsInductive, <1>2, PTL

-----------------------------------------------------------------------------
(* Waiting for a refresh.                                                  *)

\* The calls that wait, without what is known of the refresh (Waits).
WaitersHeard ==
    \A t \in Client :
        IF waiting[t] = NoCall
        THEN Asking(t) = {} /\ Queued(t) = {}
        ELSE \E q \in Request : Asking(t) = {q}

\* Call q does not wait, before or after, and keeps its tab if it has one; the
\* rest are as they were.
Passes(q) ==
    /\ \A p \in Request \ {q} : request'[p] = request[p]
    /\ request[q] # NoRequest => request[q].status \notin {"refreshing", "queued"}
    /\ request'[q] # NoRequest => request'[q].status \notin {"refreshing", "queued"}

LEMMA PassesUnheard ==
    ASSUME NEW q \in Request, Passes(q)
    PROVE  \A t \in Client : Asking(t)' = Asking(t) /\ Queued(t)' = Queued(t)
  BY DEF Passes, Asking, Queued, Of, TabOf

\* A page load takes the tab's calls away.
LEMMA LoadClears ==
    ASSUME Typed, NEW t \in Client, NEW p \in Page, Load(t, p)
    PROVE  /\ Asking(t)' = {} /\ Queued(t)' = {} /\ waiting'[t] = NoCall
           /\ \A u \in Client \ {t} : /\ Asking(u)' = Asking(u) /\ Queued(u)' = Queued(u)
                                      /\ waiting'[u] = waiting[u]
  <1>1. waiting'[t] = NoCall /\ \A u \in Client \ {t} : waiting'[u] = waiting[u]
    BY DEF Load, Typed, TypeOK
  <1>2. \A q \in Request : request'[q] = IF q \in Of(t) THEN NoRequest ELSE request[q]
    BY DEF Load
  <1>3. Asking(t)' = {} /\ Queued(t)' = {}
    BY <1>2 DEF Asking, Queued, Of, TabOf
  <1>4. \A u \in Client \ {t} : Asking(u)' = Asking(u) /\ Queued(u)' = Queued(u)
    BY <1>2 DEF Asking, Queued, Of, TabOf
  <1> QED BY <1>1, <1>3, <1>4

LEMMA LoadHeard ==
    ASSUME Typed, WaitersHeard, NEW t \in Client, NEW p \in Page, Load(t, p)
    PROVE  WaitersHeard'
  BY LoadClears DEF WaitersHeard

LEMMA HeardStays ==
    ASSUME WaitersHeard, waiting' = waiting,
           \A t \in Client : Asking(t)' = Asking(t) /\ Queued(t)' = Queued(t)
    PROVE  WaitersHeard'
  BY DEF WaitersHeard

LEMMA BeginHeard ==
    ASSUME Typed, WaitersHeard, NEW q \in Request, NEW x \in Call, BeginRefresh(q, x)
    PROVE  WaitersHeard'
  <1>1. PICK t \in Client : t = TabOf(q)
    BY DEF BeginRefresh, First401, Is, TabOf, ApiCall, Typed, TypeOK
  <1>2. /\ request[q] \in ApiCall /\ request[q].status = "401" /\ request[q].tab = t
        /\ waiting[t] = NoCall /\ x # NoCall
    BY <1>1, NoCallAssumption
       DEF BeginRefresh, MayRefresh, StartRefresh, First401, Is, TabOf, Typed, TypeOK
  <1>3. /\ request'[q] \in ApiCall /\ request'[q].status = "refreshing" /\ request'[q].tab = t
        /\ \A p \in Request \ {q} : request'[p] = request[p]
    <2>1. request'[q] = [request[q] EXCEPT !.status = "refreshing", !.retried = TRUE]
      BY DEF BeginRefresh, Typed, TypeOK
    <2>2. \A p \in Request \ {q} : request'[p] = request[p]
      BY DEF BeginRefresh, Typed, TypeOK
    <2> QED BY <1>2, <2>1, <2>2 DEF ApiCall, Status
  <1>4. waiting'[t] = x /\ \A u \in Client \ {t} : waiting'[u] = waiting[u]
    BY <1>1 DEF BeginRefresh, Typed, TypeOK
  <1>5. Asking(t)' = {q}
    <2>1. Asking(t) = {}
      BY <1>2 DEF WaitersHeard
    <2> QED BY <1>3, <2>1, NoRequestAssumption DEF Asking, Of, TabOf
  <1>6. \A u \in Client \ {t} : Asking(u)' = Asking(u) /\ Queued(u)' = Queued(u)
    BY <1>2, <1>3 DEF Asking, Queued, Of, TabOf
  <1> QED BY <1>2, <1>4, <1>5, <1>6 DEF WaitersHeard

LEMMA EnqueueHeard ==
    ASSUME Typed, WaitersHeard, NEW q \in Request, Enqueue(q)
    PROVE  WaitersHeard'
  <1>1. PICK t \in Client : t = TabOf(q)
    BY DEF Enqueue, First401, Is, TabOf, ApiCall, Typed, TypeOK
  <1>2. /\ request[q] \in ApiCall /\ request[q].status = "401" /\ request[q].tab = t
        /\ waiting[t] # NoCall /\ waiting' = waiting
    BY <1>1 DEF Enqueue, First401, Is, TabOf, Typed, TypeOK
  <1>3. /\ request'[q].status = "queued" /\ request'[q].tab = t
        /\ \A p \in Request \ {q} : request'[p] = request[p]
    BY <1>2 DEF Enqueue, Typed, TypeOK, ApiCall, Status
  <1>4. \A u \in Client : Asking(u)' = Asking(u)
    BY <1>2, <1>3 DEF Asking, Of, TabOf
  <1>5. \A u \in Client \ {t} : Queued(u)' = Queued(u)
    BY <1>2, <1>3 DEF Queued, Of, TabOf
  <1> QED BY <1>2, <1>4, <1>5 DEF WaitersHeard

LEMMA ArrivesHeard ==
    ASSUME Typed, WaitersHeard, NEW t \in Client, RefreshArrives(t)
    PROVE  WaitersHeard'
  <1>1. waiting'[t] = NoCall /\ \A u \in Client \ {t} : waiting'[u] = waiting[u]
    BY DEF RefreshArrives, Typed, TypeOK
  <1>2. PICK n : request' = Resent(t, n)
    BY DEF RefreshArrives
  <1>3. \A q \in Request :
           request'[q] = IF q \in Of(t) /\ request[q].status \in {"refreshing", "queued"}
                         THEN [request[q] EXCEPT !.status = "sent", !.token = n]
                         ELSE request[q]
    BY <1>2, Zenon DEF Resent
  <1>4. \A q \in Of(t) : request[q].status \in {"refreshing", "queued"} =>
           request'[q].status = "sent" /\ request'[q].tab = t
    <2>1. SUFFICES ASSUME NEW q \in Of(t), request[q].status \in {"refreshing", "queued"}
                   PROVE  request'[q].status = "sent" /\ request'[q].tab = t
      OBVIOUS
    <2>2. q \in Request /\ request[q] \in ApiCall /\ request[q].tab = t
      BY DEF Of, TabOf, Typed, TypeOK
    <2>3. request'[q] = [request[q] EXCEPT !.status = "sent", !.token = n]
      BY <1>3, <2>1, <2>2, Zenon
    <2> QED BY <2>2, <2>3 DEF ApiCall
  <1>5. \A q \in Request : ~(q \in Of(t) /\ request[q].status \in {"refreshing", "queued"})
           => request'[q] = request[q]
    BY <1>3, Zenon
  <1>6. Asking(t)' = {} /\ Queued(t)' = {}
    BY <1>4, <1>5 DEF Asking, Queued, Of, TabOf
  <1>7. \A u \in Client \ {t} : Asking(u)' = Asking(u) /\ Queued(u)' = Queued(u)
    BY <1>4, <1>5, NoRequestAssumption DEF Asking, Queued, Of, TabOf
  <1> QED BY <1>1, <1>6, <1>7 DEF WaitersHeard

LEMMA HeardStep ==
    ASSUME Typed, WaitersHeard, [Next]_vars
    PROVE  WaitersHeard'
  <1>1. CASE request' = request /\ waiting' = waiting
    <2>1. \A t \in Client : Asking(t)' = Asking(t) /\ Queued(t)' = Queued(t)
      BY <1>1 DEF Asking, Queued, Of, TabOf
    <2> QED BY <1>1, <2>1, HeardStays
  <1>2. ASSUME NEW q \in Request, Passes(q), waiting' = waiting
        PROVE  WaitersHeard'
    BY <1>2, PassesUnheard, HeardStays
  <1>3. CASE UNCHANGED vars \/ LoginElsewhere \/ TimePasses \/ (Serve /\ UNCHANGED browser)
    BY <1>1, <1>3 DEF vars, browser, tabs, LoginElsewhere, TimePasses
  <1>4. ASSUME NEW t \in Client,
               Registered(t) \/ Login(t) \/ \E s \in Signup : Submit(t, s)
        PROVE  WaitersHeard'
    BY <1>1, <1>4 DEF Registered, Login, Submit
  <1>5. ASSUME NEW t \in Client, OpenApp(t) \/ Reload(t) \/ RefreshRefused(t)
        PROVE  WaitersHeard'
    <2>1. \E p \in Page : Load(t, p)
      BY <1>5 DEF OpenApp, Reload, RefreshRefused, ForceLogout, Page, Typed, TypeOK
    <2> QED BY <2>1, LoadHeard
  <1>6. ASSUME NEW t \in Client, NEW q \in Request, NEW kind \in Kinds, Send(t, q, kind)
        PROVE  WaitersHeard'
    <2>1. Passes(q) /\ waiting' = waiting
      BY <1>6 DEF Send, Passes, Typed, TypeOK
    <2> QED BY <1>2, <2>1
  <1>7. ASSUME NEW q \in Request, Answer(q) \/ Settle(q)
        PROVE  WaitersHeard'
    <2>1. request[q] \in ApiCall /\ request[q].status \notin {"refreshing", "queued"}
      BY <1>7 DEF Answer, Settle, Is, Typed, TypeOK
    <2>2. CASE Answer(q)
      <3>1. Passes(q) /\ waiting' = waiting
        BY <2>1, <2>2 DEF Answer, Passes, ApiCall, Typed, TypeOK
      <3> QED BY <1>2, <3>1
    <2>3. CASE Settle(q)
      <3>1. Passes(q) /\ waiting' = waiting
        BY <2>1, <2>3 DEF Settle, Passes, Typed, TypeOK
      <3> QED BY <1>2, <3>1
    <2> QED BY <1>7, <2>2, <2>3
  <1>8. ASSUME NEW q \in Request, NothingToRefresh(q)
        PROVE  WaitersHeard'
    <2>1. TabOf(q) \in Client /\ Load(TabOf(q), "login")
      BY <1>8 DEF NothingToRefresh, ForceLogout, First401, Is, TabOf, ApiCall, Typed, TypeOK
    <2> QED BY <2>1, LoadHeard DEF Page
  <1>9. ASSUME NEW x \in Call, Unheard(x)
        PROVE  WaitersHeard'
    BY <1>1, <1>9 DEF Unheard, browser, tabs
  <1> QED BY <1>3, <1>4, <1>5, <1>6, <1>7, <1>8, <1>9, BeginHeard, EnqueueHeard, ArrivesHeard
      DEF Next, React

\* No call of a tab waits for a refresh that is not in flight, or whose answer
\* goes to another tab, and a tab never has two refreshes at once: the safety
\* half of RequestsSettle, for any tabs, calls and events.
THEOREM WaitersServed == Spec => []NobodyStranded
  <1>1. IInv => Typed
    BY DEF IInv
  <1>2. Init => WaitersHeard
    BY DEF Init, WaitersHeard, Asking, Queued, Of
  <1>3. Typed /\ WaitersHeard /\ [Next]_vars => WaitersHeard'
    BY HeardStep
  <1>4. Typed /\ WaitersHeard => NobodyStranded
    BY DEF Typed, Waits, WaitersHeard, NobodyStranded
  <1> QED BY SessionsInductive, <1>1, <1>2, <1>3, <1>4, PTL DEF Spec

-----------------------------------------------------------------------------
(* Registration implements AccountPromise, and no account lacks a wallet.  *)
(*                                                                         *)
(* The query proves nothing by the time of the INSERT; what carries the    *)
(* induction is the constraint: a request between its INSERT and its       *)
(* commit is the only one there, and finds no account (OneInserts).        *)

\* A request between INSERT and commit is alone, and the address is free.
OneInserts ==
    /\ \A s \in Signup : Stands(s, "commit") => rows = {}
    /\ \A s1, s2 \in Uncommitted : s1 = s2

\* Who has the account is told so or fails; who was turned down has none.
AnswersAgree ==
    /\ \A s \in Signup : Stands(s, "first") \/ Stands(s, "created") => s \in rows
    /\ \A s \in rows : Stands(s, "first") \/ Stands(s, "created") \/ Stands(s, "error")
    /\ rows \subseteq Signup

AInv == OneInserts /\ AnswersAgree /\ WalletForEveryAccount

Signups == signup \in [Signup -> Applicant]

verdicts == [s \in Signup |-> Verdict(signup[s].step)]

-----------------------------------------------------------------------------

\* What a step of anybody does to the account.
AccountStep(s) == StartSignup(s) \/ Register(s) \/ SignupFails(s)

LEMMA AccountKinds ==
    ASSUME [Next]_vars
    PROVE  UNCHANGED account \/ \E s \in Signup : AccountStep(s)
  <1>1. CASE UNCHANGED vars
    BY <1>1 DEF vars
  <1>2. CASE LoginElsewhere \/ TimePasses
    BY <1>2 DEF LoginElsewhere, TimePasses
  <1>3. CASE Serve
    BY <1>3 DEF Serve, AccountStep
  <1>4. ASSUME NEW t \in Client,
               \/ Registered(t) \/ Login(t) \/ OpenApp(t) \/ Reload(t)
               \/ RefreshArrives(t) \/ RefreshRefused(t)
               \/ \E q \in Request, kind \in Kinds : Send(t, q, kind)
        PROVE  UNCHANGED account
    BY <1>4 DEF Registered, Login, OpenApp, Reload, RefreshArrives, RefreshRefused, Send
  <1>5. ASSUME NEW t \in Client, NEW s \in Signup, Submit(t, s)
        PROVE  AccountStep(s)
    BY <1>5 DEF Submit, AccountStep
  <1>6. ASSUME NEW q \in Request,
               \/ Answer(q) \/ Settle(q) \/ NothingToRefresh(q) \/ Enqueue(q)
               \/ \E x \in Call : BeginRefresh(q, x)
        PROVE  UNCHANGED account
    BY <1>6 DEF Answer, Settle, NothingToRefresh, Enqueue, BeginRefresh
  <1>7. ASSUME NEW x \in Call, Unheard(x)
        PROVE  UNCHANGED account
    BY <1>7 DEF Unheard
  <1> QED BY <1>1, <1>2, <1>3, <1>4, <1>5, <1>6, <1>7 DEF Next, React

\* Only s moves.
MovedTo(s, step) ==
    /\ signup'[s].step = step
    /\ \A r \in Signup \ {s} : signup'[r] = signup[r]

\* Each step of a request, by where it starts and ends.
LEMMA RequestMoves ==
    ASSUME Signups, NEW s \in Signup, AccountStep(s)
    PROVE  \/ Stands(s, "unsent") /\ MovedTo(s, "check") /\ UNCHANGED <<rows, wallets>>
           \/ Stands(s, "check") /\ MovedTo(s, "insert") /\ UNCHANGED <<rows, wallets>>
           \/ Stands(s, "check") /\ Exists /\ MovedTo(s, "conflict") /\ UNCHANGED <<rows, wallets>>
           \/ /\ Stands(s, "insert") /\ Uncommitted = {} /\ ~Exists
              /\ MovedTo(s, "commit") /\ UNCHANGED <<rows, wallets>>
           \/ Stands(s, "insert") /\ Exists /\ MovedTo(s, "clash") /\ UNCHANGED <<rows, wallets>>
           \/ /\ Stands(s, "commit") /\ MovedTo(s, "first")
              /\ rows' = rows \cup {s} /\ wallets' = wallets \cup {s}
           \/ Stands(s, "first") /\ MovedTo(s, "created") /\ UNCHANGED <<rows, wallets>>
           \/ Underway(s) /\ MovedTo(s, "error") /\ UNCHANGED <<rows, wallets>>
  <1>1. ASSUME NEW step, Proceed(s, step)
        PROVE  MovedTo(s, step)
    BY <1>1 DEF Proceed, MovedTo, Signups, Applicant
  <1>2. CASE StartSignup(s)
    BY <1>1, <1>2 DEF StartSignup
  <1>3. CASE CheckEmail(s)
    BY <1>1, <1>3 DEF CheckEmail
  <1>4. CASE InsertUser(s)
    BY <1>1, <1>4 DEF InsertUser
  <1>5. CASE CommitAccount(s)
    BY <1>1, <1>5 DEF CommitAccount
  <1>6. CASE StoreFirst(s)
    BY <1>6 DEF StoreFirst, MovedTo, Signups
  <1>7. CASE SignupFails(s)
    BY <1>1, <1>7 DEF SignupFails
  <1> QED BY <1>2, <1>3, <1>4, <1>5, <1>6, <1>7 DEF AccountStep, Register

LEMMA AccountPreserved ==
    ASSUME Signups, AInv, [Next]_vars
    PROVE  AInv'
  <1>1. CASE UNCHANGED account
    BY <1>1 DEF account, AInv, OneInserts, AnswersAgree, WalletForEveryAccount, Uncommitted, Stands
  <1>2. ASSUME NEW s \in Signup, AccountStep(s)
        PROVE  AInv'
    <2>1. OneInserts'
      BY <1>2, RequestMoves
         DEF AInv, OneInserts, Exists, Uncommitted, Stands, Underway, MovedTo
    <2>2. AnswersAgree'
      BY <1>2, RequestMoves DEF AInv, AnswersAgree, Stands, Underway, MovedTo
    <2>3. WalletForEveryAccount'
      BY <1>2, RequestMoves DEF AInv, OneInserts, WalletForEveryAccount
    <2> QED BY <2>1, <2>2, <2>3 DEF AInv
  <1> QED BY <1>1, <1>2, AccountKinds

\* The verdicts follow the steps.
LEMMA VerdictMoves ==
    ASSUME Signups, NEW s \in Signup, NEW step, MovedTo(s, step), signup' \in [Signup -> Applicant]
    PROVE  /\ verdicts[s] = Verdict(signup[s].step)
           /\ verdicts' = [verdicts EXCEPT ![s] = Verdict(step)]
           /\ Verdict(signup[s].step) = Verdict(step) => verdicts' = verdicts
  BY DEF verdicts, MovedTo, Signups

LEMMA Verdicts ==
    /\ \A step \in {"unsent", "check", "insert", "commit", "first"} : Verdict(step) = "none"
    /\ Verdict("created") = "created"
    /\ Verdict("conflict") = "taken" /\ Verdict("clash") = "taken"
    /\ Verdict("error") = "error"
  BY DEF Verdict

\* A request's step is a step of the promise, or none.
LEMMA StepPromised ==
    ASSUME Signups, Signups', AInv, [Next]_vars
    PROVE  [Promise!Next]_<<rows, verdicts>>
  <1>1. CASE UNCHANGED account
    BY <1>1 DEF account, verdicts
  <1>2. ASSUME NEW s \in Signup, AccountStep(s)
        PROVE  [Promise!Next]_<<rows, verdicts>>
    <2>1. ASSUME NEW step, MovedTo(s, step)
          PROVE  /\ verdicts[s] = Verdict(signup[s].step)
                 /\ verdicts' = [verdicts EXCEPT ![s] = Verdict(step)]
                 /\ Verdict(signup[s].step) = Verdict(step) => verdicts' = verdicts
      BY <2>1, VerdictMoves DEF Signups
    <2>2. CASE /\ \/ Stands(s, "unsent") /\ MovedTo(s, "check")
                  \/ Stands(s, "check") /\ MovedTo(s, "insert")
                  \/ Stands(s, "insert") /\ MovedTo(s, "commit")
               /\ rows' = rows
      BY <2>1, <2>2, Verdicts DEF Stands
    <2>3. CASE /\ \/ Stands(s, "check") /\ MovedTo(s, "conflict")
                  \/ Stands(s, "insert") /\ MovedTo(s, "clash")
               /\ Exists /\ rows' = rows
      <3>1. s \notin rows
        BY <2>3 DEF AInv, AnswersAgree, Stands
      <3>2. verdicts[s] = "none" /\ verdicts' = [verdicts EXCEPT ![s] = "taken"]
        BY <2>1, <2>3, Verdicts DEF Stands
      <3>3. Promise!TurnDown(s)
        BY <2>3, <3>1, <3>2 DEF Promise!TurnDown, Promise!Tell, Exists, verdicts
      <3> QED BY <3>3 DEF Promise!Next
    <2>4. CASE /\ Stands(s, "commit") /\ MovedTo(s, "first")
               /\ rows' = rows \cup {s}
      <3>1. rows = {} /\ rows' = {s}
        BY <2>4 DEF AInv, OneInserts
      <3>2. verdicts[s] = "none" /\ verdicts' = verdicts
        BY <2>1, <2>4, Verdicts DEF Stands
      <3>3. Promise!Claim(s)
        BY <3>1, <3>2 DEF Promise!Claim, verdicts
      <3> QED BY <3>3 DEF Promise!Next
    <2>5. CASE Stands(s, "first") /\ MovedTo(s, "created") /\ rows' = rows
      <3>1. s \in rows
        BY <2>5 DEF AInv, AnswersAgree
      <3>2. verdicts[s] = "none" /\ verdicts' = [verdicts EXCEPT ![s] = "created"]
        BY <2>1, <2>5, Verdicts DEF Stands
      <3>3. Promise!Welcome(s)
        BY <2>5, <3>1, <3>2 DEF Promise!Welcome, Promise!Tell, verdicts
      <3> QED BY <3>3 DEF Promise!Next
    <2>6. CASE Underway(s) /\ MovedTo(s, "error") /\ rows' = rows
      <3>1. verdicts[s] = "none" /\ verdicts' = [verdicts EXCEPT ![s] = "error"]
        BY <2>1, <2>6, Verdicts DEF Underway
      <3>2. Promise!Fail(s)
        BY <2>6, <3>1 DEF Promise!Fail, Promise!Tell, verdicts
      <3> QED BY <3>2 DEF Promise!Next
    <2> QED BY <1>2, RequestMoves, <2>2, <2>3, <2>4, <2>5, <2>6
  <1> QED BY <1>1, <1>2, AccountKinds

-----------------------------------------------------------------------------

LEMMA AccountStart == Init => AInv /\ Promise!Init
  <1> SUFFICES ASSUME Init PROVE AInv /\ Promise!Init
    OBVIOUS
  <1>1. rows = {} /\ wallets = {} /\ \A s \in Signup : signup[s].step = "unsent"
    BY DEF Init, RegistrationInit
  <1>2. verdicts = [s \in Signup |-> "none"]
    BY <1>1, Verdicts DEF verdicts
  <1> QED BY <1>1, <1>2 DEF AInv, OneInserts, AnswersAgree, WalletForEveryAccount, Uncommitted,
          Stands, Promise!Init, verdicts

LEMMA SignupsAlways == Spec => []Signups
  <1>1. IInv => Signups
    BY DEF IInv, Typed, TypeOK, RegistrationTypeOK, Signups
  <1> QED BY SessionsInductive, <1>1, PTL

LEMMA AccountInductive == Spec => []AInv
  <1>1. Signups /\ AInv /\ [Next]_vars => AInv'
    BY AccountPreserved
  <1> QED BY SignupsAlways, AccountStart, <1>1, PTL DEF Spec

\* However registrations overlap and fail, they act like one atomic claim of
\* the address: Browser's account implements AccountPromise.
THEOREM AddressClaimedOnce == Spec => KeepsPromise
  <1>1. Init => Promise!Init
    BY AccountStart
  <1>2. Signups /\ Signups' /\ AInv /\ [Next]_vars => [Promise!Next]_<<rows, verdicts>>
    BY StepPromised
  <1>3. [Promise!Next]_<<rows, verdicts>> => [Promise!Next]_<<rows, [s \in Signup |-> Verdict(signup[s].step)]>>
    BY DEF verdicts
  <1> QED BY SignupsAlways, AccountInductive, <1>1, <1>2, <1>3, PTL
      DEF Spec, KeepsPromise, Promise!Spec

\* An account has its primary wallet, and only one.
THEOREM WalletsComplete == Spec => []WalletForEveryAccount
  <1>1. AInv => WalletForEveryAccount
    BY DEF AInv
  <1> QED BY AccountInductive, <1>1, PTL

=============================================================================
