\* One DID, two addresses as guardians, services and new controllers, two ledgers.  No
\* counter and no expiry gets beyond U32Max and U64Max here; a lock of one opened in the
\* last ledger ends beyond the modelled time.
CONSTANTS
    Did = {d1}
    Address = {a1, a2}
    None = None
    Thresholds = {0, 1, 2}
    Locks = {0, 1}
    MaxTime = 1
    U32Max = 2
    U64Max = 2
SPECIFICATION SpecFair
CHECK_DEADLOCK FALSE
PROPERTIES
    RecoverySound
    KeepsLifecycle
    ExecutableResolved
