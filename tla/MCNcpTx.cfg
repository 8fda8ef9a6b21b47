SPECIFICATION FairSpec
CONSTANTS
    u1 = u1  u2 = u2  p1 = p1  n1 = n1  n2 = n2
    br = br  nb = nb
    Free = Free
    None = None
    NumSlots = 2
    MayRefuse = TRUE
    Request <- MCRequest
    Confirmable <- MCConfirmable
    Burst <- MCBurst
    Destination <- MCDestination
    DestOf <- MCDestOf
INVARIANTS
    TypeOK
    EveryResultMatches
    SlotBalance
    SentIsTracked
    SentEndsOnce
    ResultsConserved
PROPERTY EveryRequestEnds
CHECK_DEADLOCK FALSE
