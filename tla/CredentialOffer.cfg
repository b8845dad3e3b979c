\* Two parties, three ledgers, three offers, any number of them in one ledger.
CONSTANTS
    Address = {a1, a2}
    None = None
    Expiries = {1}
    MaxTime = 2
    MaxOffers = 3
SPECIFICATION SpecPolled
CHECK_DEADLOCK FALSE
PROPERTIES
    OffersSound
    OverdueSettled
