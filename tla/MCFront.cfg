\* Two actors, answers or requests wherever they may cross, and two or three of what
\* is kept, more than its limit where it has one.
CONSTANTS
    Process = {p1, p2}
    MyIdentity = MyIdentity
    NoLabel = NoLabel
    MaxKeys = 3
    MaxSaved = 2
    MaxSaves = 2
    Person = {k1, k2}
    Saved = {k1}
    NaN = NaN
    Amount = {17, 18}
    CurrentYear = 35
    MockScore = {540, 745}
    MaxCommands = 3
    ServiceCall = {f1, f2}
    MaxErased = 2
    WizardDid = {d1, d2}
    Method = {social, key}
    KeyMethod = key
    Threshold = 1
    NoChoice = NoChoice
    Address = {x1, x2}
    NoAddress = NoAddress
    Request = {q1, q2}
    MaxMoves = 3
    Channel = {"console", "webhook"}
    Interval = 2
    Window = 3
    Deviation = 2
    Cooldown <- CooldownDef
    Limit <- LimitDef
    MaxStateChanges = 1
    Fee = {1}
    Gas = {1}
    MaxTransactions = 3
    MaxClock = 10
    MaxControls = 1
    Callback = {h1, h2}
    ErrorClass = {ec1, ec2}
    MaxHistory = 1
    MaxCaptures = 2
    MaxChanges = 3
    Given = 1
    MaxLogHistory = 2
    OnceKey = {o1}
    MaxLoggers = 2
    MaxEntries = 3
    MaxLogCalls = 1
    BatchLength = 3
    Concurrency = {0, 2}
    MaxDamaged = 1
    MaxTries = 2
    Text = {{}, {"Timeout"}, {"RateLimitExceeded"}, {"SimulationError"}, {"InsufficientFunds", "Timeout"}}
    Network = {testnet, mainnet}
    Preset = testnet
    Unusable = Unusable
    Registry = {r1}
    Task = {w1}
    MaxSetups = 3
    MaxMaps = 2
    Party = {a1, a2}
    List = {s1}
    Score = {50, 80}
    ScreenCall = {c1}
    Staleness = 1
    MaxScreenTime = 3
    MaxUpdates = 3
    Account = {g1, g2}
    NoAccount = NoAccount
    Handler = {n1, n2}
    MaxClicks = 3
    MaxSwitches = 1
SPECIFICATION SpecFront
CHECK_DEADLOCK FALSE
INVARIANTS
    KeypairsKept
    SessionTruthful
    CallsReported
    ExecutesWhatWasApproved
    PanelsSettle
    MonitorHonest
    ErrorsAccounted
    HistoriesOwn
    PayloadsSurvive
    RefusalsUnderstood
    NetworksKeptApart
    AlarmsExact
    PaymentsHonest
