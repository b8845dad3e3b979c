\* Two keys, ledgers of five or six seconds, two calls per window of eleven; two governors,
\* one proposal and its rollback; two oracles, two ledgers.
CONSTANTS
    Key = {k1, k2}
    MaxCalls = 2
    Window = 11
    CloseTimes = {5, 6}
    MinTtl = 1
    MaxTime = 27
    Governor = {g1, g2}
    Power = {2}
    VotingPeriods = {1, 2}
    TimeLocks = {1}
    Quorums = {5000}
    Approvals = {6600}
    MinTimelock = 1
    MAX_GOVERNORS = 2
    MaxProposals = 1
    Grace = 1
    MaxClock = 4
    MaxGovCalls = 5
    Oracle = {o1, o2}
    Subject = {s1}
    Disputer = {u1, u2}
    Impacts <- ImpactsDef
    Penalties = {500, 6000}
    SlashesBeforeSuspend = 2
    MaxLedger = 1
    MaxOracleCalls = 6
SPECIFICATION SpecContracts
CHECK_DEADLOCK FALSE
INVARIANTS
    LimitKept
    SumsExact
PROPERTIES
    GovernanceSound
    OraclesAccountable
