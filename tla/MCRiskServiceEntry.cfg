SPECIFICATION McuSpec
CONSTANTS
    None = None
    NoReq = NoReq
    Hold = 1
    Interval = 2
    Overrides = {}
    Default <- MCDefault
    Configs <- MCConfigs
    Readings <- MCReadings
    Pm25 <- MCPm25
PROPERTY SensorEntryAlerts
