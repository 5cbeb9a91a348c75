\* Two wallets, three overlapping requests; no symmetry, which is unsound for liveness.
CONSTANTS
    Wallet = {1, 2}
    Request = {r1, r2, r3}
    Amount = {1}
    Opening <- MCOpening
    NoRequest = NoRequest
    Nobody = Nobody
    NoJob = NoJob
    NotLoaded = NotLoaded
SPECIFICATION FairSpec
INVARIANTS
    TypeOK
    AuditMatchesBalance
    NoPhantomBalance
    NeverOverdrawn
    DoubleEntry
    SerialMoneyConserved
    NoCircularWait
PROPERTIES
    FreezeStopsLaterRequests
    RequestsFinish
