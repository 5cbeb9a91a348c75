\* One key (keys share no state), two bodies, three requests, no fault.
CONSTANTS
    Key = {k1}
    Body = {b1, b2}
    Attempt = {a1, a2, a3}
    MaxFaults = 0
    NoRecord = NoRecord
    Unsent = Unsent
SPECIFICATION Spec
INVARIANT OnePayment
CHECK_DEADLOCK FALSE
