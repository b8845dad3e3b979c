\* Two parties and three ledgers, one credential and one delegation per ledger.
CONSTANTS
    Address = {a1, a2}
    None = None
    Expiries = {1}
    BatchSizes = {1}
    MaxCalls = 1
    Window = 1
    Limits = {1, 2}
    MaxTime = 2
    MaxIssued = 3
SPECIFICATION SpecDelegating
CHECK_DEADLOCK FALSE
SYMMETRY Symmetry
PROPERTIES
    DelegationHonoured
