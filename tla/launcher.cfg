SPECIFICATION LiveSpec
CONSTANTS
    Signals = {"INT", "TERM"}
    MaxCrashes = 1
    MaxForeign = 1
INVARIANTS
    TypeOK
    NoOrphans
    NoStrayKill
    RegisteredFirst
PROPERTIES
    TakenDown
    SignalEnds
