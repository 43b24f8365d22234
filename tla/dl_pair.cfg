SPECIFICATION Spec
CONSTANTS
    t1 = t1
    t2 = t2
    d1 = d1
    d2 = d2
    ra = ra
    rb = rb
    Calls = {t1, t2}
    Dests = {d1, d2}
    Inodes = {t1, t2, d1, d2}
    DestOf <- OwnDest
    ResourceOf <- OwnResource
    NoTask = NoTask
    Leftovers = {}
    Exclusive = TRUE
    Hole = Hole
    NoInode = NoInode
    Size = 1
    Framings = {"length"}
    Ranges = {"honoured"}
    Faults = {}
    Trickles = FALSE
    Expires = FALSE
    PoolSize = 2
    MaxId = 2
    MaxRedirects = 0
    MaxIdle = 0
    MaxStrings = 0
    MaxCancels = 1
    MaxCrashes = 1
INVARIANTS
    DestComplete
    NoSneak
    IdsUnique
