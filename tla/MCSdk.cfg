\* Two concurrent callers wherever answers may cross, queues of two events, and three
\* sockets, so that two closing ones may outlive their successor.
CONSTANTS
    Call = {c1, c2}
    MaxAttempts = 2
    FailureThreshold = 2
    SuccessThreshold = 2
    MaxOutages = 2
    MaxResets = 1
    ClientCall = {u1}
    ResolverCall = {a1}
    ResolveCall = {r1}
    NoAnswer = NoAnswer
    MaxRetries = 2
    MaxPolls = 2
    MaxElsewhere = 1
    EventId = {e1, e2, e3}
    Sub = {s1}
    BatchSize = 2
    MaxQueue = 2
    History = 1
    MaxMessages = 5
    MaxStops = 1
    VerifyCall = {v1, v2}
    MaxRevocations = 2
    Socket = {w1, w2, w3}
    None = None
    MaxDrops = 3
    MaxCalls = 4
    Reader = {g1}
    Item = {i1, i2}
    Unparsed = {i2}
    MaxVersions = 2
    ConsentId = {n1, n2}
    Purpose = {o1, o2}
    MaxTicks = 2
    MaxConsents = 2
    Key = {y1, y2}
    Service = {z1, z2, z3}
    Method = {t1}
    Long = {z2, z3}
    TooLong = {z3}
    MAX_SERVICES = 1
    Lists = {{z1}, {z2}, {z3}, {z1, z3}}
    MaxEdits = 3
SPECIFICATION SpecSdk
CHECK_DEADLOCK FALSE
INVARIANTS
    ChangesHonoured
    ConnectionSound
    EachInOrderOnce
    ReadsExplained
    WithdrawalsHold
    EditsKept
PROPERTIES
    CircuitSound
    BreakerRecovers
    CachesConverge
    SettlesOrTangles
    QueuesDrain
    VerdictsSettle
