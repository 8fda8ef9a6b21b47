SPECIFICATION FairSpec
CONSTANTS
    reg = reg
    rep = rep
    alert = alert
    node = node
    t1 = t1
    t2 = t2
    Packet <- Both
    Registrations <- RegOnly
    NodeOf <- NodeOfBoth
    Threads = {t1, t2}
    Refused = {alert}
    Limit = 2
    MaxReceived = 2
    MaxFaults = 2
INVARIANTS
    TypeOK
    NoStrayTransaction
    AnsweredIsDurable
    IdAnswersOneRequest
PROPERTIES
    ImplementsOutbox
    OutboxDrains
