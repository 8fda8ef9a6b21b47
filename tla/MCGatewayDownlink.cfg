SPECIFICATION FairSpec
CONSTANTS
    d1 = d1
    d2 = d2
    t1 = t1
    t2 = t2
    None = None
    Downlink = {d1, d2}
    Invalid = {d2}
    Threads = {t1, t2}
    BatchSize = 2
    MaxClock = 1
    MaxFaults = 2
\* Once every row is terminal, nothing is left to do.
CHECK_DEADLOCK FALSE
INVARIANTS
    TypeOK
    OneExchangePerDownlink
    WaitersHaveAnOwner
    RedeliveredOnlyAfterLoss
    RowAgreesWithStore
PROPERTIES
    ImplementsDelivery
    EveryDownlinkEnds
