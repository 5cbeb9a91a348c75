\* One deposit, two workers, one retry of either task, three faults of any kind.
CONSTANTS
    Deposit = {d1}
    Worker = {w1, w2}
    WebhookRetries = 1
    SweepRetries = 1
    MaxFaults = 3
    Idle = Idle
SPECIFICATION FairSpec
INVARIANTS FailureHasCause SurvivesCrashes
PROPERTIES KeepsPromise DepositsSettle
