SPECIFICATION LiveSpec
CONSTANTS
    c1 = c1
    c2 = c2
    f1 = f1
    res = res
    Calls = {c1, c2}
    Inodes = {f1}
    ResourceOf <- OneResource
    Hole = Hole
    NoInode = NoInode
    Size = 1
    Framings = {"chunked"}
    Ranges = {"honoured"}
    Faults = {"stall", "sink", "io", "truncate", "redirect", "write"}
    Trickles = TRUE
    Expires = TRUE
    PoolSize = 3
    MaxId = 2
    MaxRedirects = 0
    MaxIdle = 0
    MaxStrings = 1
    MaxCancels = 2
    MaxCrashes = 1
INVARIANTS
    HttpTypeOK
    FetchRegistered
    ActiveCountExact
PROPERTIES
    CancelStops
