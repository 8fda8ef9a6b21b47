SPECIFICATION FairSpec
CONSTANTS
    None = None
    NoReq = NoReq
    Hold = 1
    Interval = 2
    Overrides = {2, 5}
    Default <- MCDefault
    Configs <- MCConfigs
    Readings <- MCReadings
    Pm25 <- MCPm25
INVARIANTS
    TypeOK
    LevelFollowsPolicy
    LastReportIsCurrent
PROPERTIES
    PendingLeavesBySending
    DeferredIsSent
    ParentChangeIsSent
