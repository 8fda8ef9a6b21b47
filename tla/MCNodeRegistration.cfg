SPECIFICATION FairSpec
CONSTANTS
    NoRequest = NoRequest
    SeqMod = 8
    MaxEarly = 1
    MaxResets = 1
    Capacity = 2
    MaxChanges = 4
    MaxOther = 1
    MaxRefusals = 1
INVARIANTS
    TypeOK
    RequiredIsPursued
    JoinedIsConnected
    StartedIsSynced
PROPERTY Registers
