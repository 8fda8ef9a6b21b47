SPECIFICATION Spec
CONSTANTS
    reg = reg
    rep = rep
    alert = alert
    node = node
    t1 = t1
    t2 = t2
    Packet <- Both
    Registrations <- RegOnly
    NodeOf <- NodeOfBoth
    Threads = {t1}
    Refused = {}
    Limit = 2
    MaxReceived = 2
    MaxFaults = 0
INVARIANT ReceiptMeansProjected
