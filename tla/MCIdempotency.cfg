\* One key (keys share no state), two bodies, three requests, two faults.
CONSTANTS
    Key = {k1}
    Body = {b1, b2}
    Attempt = {a1, a2, a3}
    MaxFaults = 2
    NoRecord = NoRecord
    Unsent = Unsent
SPECIFICATION FairSpec
INVARIANTS TypeOK OnePaymentPerMishap ReplayFaithful
PROPERTY NoZombieLock
CHECK_DEADLOCK FALSE
