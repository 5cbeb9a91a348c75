\* Two overlapping requests lose or create money.
CONSTANTS
    Wallet = {1, 2}
    Request = {r1, r2}
    Amount = {1}
    Opening <- MCOpening
    NoRequest = NoRequest
    Nobody = Nobody
    NoJob = NoJob
    NotLoaded = NotLoaded
SPECIFICATION Spec
INVARIANTS
    MoneyConserved
