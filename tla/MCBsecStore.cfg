SPECIFICATION FairSpec
CONSTANTS
    Firmware = {fa, fb}
    Slots = 2
    Empty = Empty
    Torn = Torn
    MaxSaves = 7
    MaxFaults = 4
INVARIANTS
    TypeOK
    SavedSurvives
    SequenceOrdersSaves
PROPERTY CalibratedIsSaved
CHECK_DEADLOCK FALSE
