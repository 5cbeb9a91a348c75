CONSTANTS
    Deposit = {d1, d2}
    Worker = {w1, w2}
    WebhookRetries = 1
    SweepRetries = 0
    MaxFaults = 0
    Idle = Idle
SPECIFICATION Spec
INVARIANT FailedLeavesBalance
