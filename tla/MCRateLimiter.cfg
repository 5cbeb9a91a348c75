\* Two transfers per window of three ticks, five requests at once, one loss of the key.
CONSTANTS
    Request = {r1, r2, r3, r4, r5}
    Limit = 2
    Window = 3
    MaxLosses = 1
    Free = Free
SPECIFICATION FairSpec
INVARIANTS TypeOK WindowBudget LimitedOnlyWhenSpent
PROPERTY LockoutEnds
