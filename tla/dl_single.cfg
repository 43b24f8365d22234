SPECIFICATION LiveSpec
CONSTANTS
    t1 = t1
    t2 = t2
    d1 = d1
    d2 = d2
    ra = ra
    rb = rb
    Calls = {t1}
    Dests = {d1}
    Inodes = {t1, d1}
    DestOf <- OneDest
    ResourceOf <- OneResource
    NoTask = NoTask
    Leftovers = {0, 1, 2, 3}
    Exclusive = TRUE
    Hole = Hole
    NoInode = NoInode
    Size = 2
    Framings = {"length", "chunked"}
    Ranges = {"honoured", "ignored"}
    Faults = {"sink", "url", "connect", "io", "stall", "truncate", "status", "redirect", "write", "dir", "open", "dup", "rename"}
    Trickles = FALSE
    Expires = FALSE
    PoolSize = 2
    MaxId = 2
    MaxRedirects = 0
    MaxIdle = 1
    MaxStrings = 0
    MaxCancels = 1
    MaxCrashes = 1
INVARIANTS
    TypeOK
    RunningOwned
    CompletedBytes
    
    PercentInRange
    OneVerdict
    OkMeansWhole
    DeadOnArrival
PROPERTIES
    PartKept
    EveryTaskReported
    KeepsLivePromise
