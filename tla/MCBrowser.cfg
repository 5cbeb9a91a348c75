\* Two tabs, one registration, two requests, two refreshes at a time, one event;
\* logins that fail are among the calls of MCRegistration.
CONSTANTS
    Client = {t1, t2}
    Call = {x1, x2}
    Request = {q1, q2}
    Signup = {s1}
    MaxTokens = 4
    MaxEvents = 1
    Kinds = {"api", "logout"}
    NoCall = NoCall
    NoRequest = NoRequest
    NoSignup = NoSignup
SYMMETRY Alike
SPECIFICATION Spec
INVARIANTS TypeOK SecondPairOnlyByOverlap LogoutHolds RefusalHasCause TokensMatchFlag NobodyStranded
CHECK_DEADLOCK FALSE
