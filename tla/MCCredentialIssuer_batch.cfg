\* Violated: a batch of two leaves one credential.
CONSTANTS
    Address = {a1, a2}
    None = None
    Expiries = {2}
    BatchSizes = {1, 2}
    MaxCalls = 2
    Window = 1
    MaxTime = 1
    MaxIssued = 2
SPECIFICATION Spec
CHECK_DEADLOCK FALSE
PROPERTIES
    BatchIssuesEach
