\* Two issuers, two ledgers, one credential and one registry per ledger, batches of up
\* to two ids.
CONSTANTS
    Address = {a1, a2}
    None = None
    Expiries = {0}
    BatchSizes = {1}
    MaxCalls = 1
    Window = 1
    MaxTime = 1
    MaxIssued = 2
    MaxBatch = 2
SPECIFICATION SpecSwept
CHECK_DEADLOCK FALSE
PROPERTIES
    RegistriesTrustworthy
    ExpiredCleared
