SPECIFICATION ClientLiveSpec
CONSTANTS
    t1 = t1
    w1 = w1
    Tasks = {t1}
    Waiters = {w1}
    WaitsFor <- WaitsForT1
    Nobody = Nobody
    CommandLines <- SomeLines
    MaxThreads = 0
    AsyncSpace = 2
INVARIANTS
    TypeOK
    MessageSeen
    ResultIsVerdict
    SameStory
    ExitIsVerdict
PROPERTIES
    ClientReturns
    CancelEnds
    TimedReturns
