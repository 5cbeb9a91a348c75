\* One tab, two registrations, two requests, two refreshes at a time, one event;
\* logouts are among the calls of MCBrowser.
CONSTANTS
    Client = {t1}
    Call = {x1, x2}
    Request = {q1, q2}
    Signup = {s1, s2}
    MaxTokens = 4
    MaxEvents = 1
    Kinds = {"api", "login"}
    NoCall = NoCall
    NoRequest = NoRequest
    NoSignup = NoSignup
SPECIFICATION FairSpec
INVARIANTS WalletForEveryAccount
PROPERTIES KeepsPromise SignupsEnd RequestsSettle
CHECK_DEADLOCK FALSE
