CONSTANTS
    alice = alice
    bob = bob
    deposit = deposit
    transfer = transfer
    User = {alice, bob}
    Reader = {r1, r2}
    Payment = {deposit, transfer}
    Affects <- MCAffects
    Uncommitted = Uncommitted
    NoEntry = NoEntry
    Idle = Idle
    MaxFaults = 1
SPECIFICATION FairSpec
INVARIANTS TypeOK StaleOnlyByOverlap
PROPERTY EventuallyCurrent
