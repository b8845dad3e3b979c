\* One DID, two controllers and signers, two ledgers; signer lists of up to two, the
\* same signer twice included, and thresholds from zero to one more than signers.
CONSTANTS
    Did = {d1}
    Address = {a1, a2}
    AuthMethod = {m1}
    None = None
    MaxCalls = 1
    Window = 1
    MaxTime = 1
    MaxSigners = 2
SPECIFICATION Spec
CHECK_DEADLOCK FALSE
PROPERTIES
    MultiSigSound
    ExecutedOnceSteady
