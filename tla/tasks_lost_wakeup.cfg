SPECIFICATION LiveSpec
CONSTANTS
    t1 = t1
    w1 = w1
    Tasks = {t1}
    Waiters = {w1}
    WaitsFor <- OneWaiter
    Nobody = Nobody
PROPERTY
    AwaitReturns
