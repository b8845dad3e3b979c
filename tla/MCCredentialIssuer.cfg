\* Two issuers and subjects, two ledgers, any calls: batches of two and several calls
\* in one ledger, so that ids collide.
CONSTANTS
    Address = {a1, a2}
    None = None
    Expiries = {0, 2}
    BatchSizes = {1, 2}
    MaxCalls = 2
    Window = 1
    MaxTime = 1
    MaxIssued = 3
SPECIFICATION Spec
CHECK_DEADLOCK FALSE
SYMMETRY Symmetry
PROPERTIES
    RevocationsSound
