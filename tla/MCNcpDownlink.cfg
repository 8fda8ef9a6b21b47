SPECIFICATION NodeSpec
CONSTANTS
    Join = join  Rejoin = rejoin
    parent = parent  ParentLost = parent  ParentChanged = parent
    config = config
    Downlinks = {config}
    p1 = p1  p2 = p2  Parents = {p1, p2}
    None = None
    Local = local
    other = other  Others = {other}
    Zero = Zero
    QueueLen = 3
    MaxTables = 2
    MaxSessions = 2
    Event <- MCEvent
    Registration <- MCRegistration
INVARIANTS
    NodeTypeOK
    OneLatestRegistration
    NewestTableApplies
    ParentsOfOneSession
PROPERTY ImplementsFifo
