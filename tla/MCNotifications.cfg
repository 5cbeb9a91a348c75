\* One transfer, two workers, two retries, four faults of any kind.
CONSTANTS
    Transfer = {t1}
    Worker = {w1, w2}
    MaxRetries = 2
    MaxFaults = 4
    Idle = Idle
SPECIFICATION FairSpec
INVARIANTS RepeatedOnlyByMishap NotForgotten
PROPERTY BothHear
CHECK_DEADLOCK FALSE
