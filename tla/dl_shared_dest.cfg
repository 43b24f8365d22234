SPECIFICATION Spec
CONSTANTS
    t1 = t1
    t2 = t2
    d1 = d1
    d2 = d2
    ra = ra
    rb = rb
    Calls = {t1, t2}
    Dests = {d1}
    Inodes = {t1, t2, d1}
    DestOf <- SameDest
    ResourceOf <- SameResource
    NoTask = NoTask
    Leftovers = {1}
    Exclusive = FALSE
    Hole = Hole
    NoInode = NoInode
    Size = 2
    Framings = {"length"}
    Ranges = {"honoured", "ignored"}
    Faults = {}
    Trickles = FALSE
    Expires = FALSE
    PoolSize = 2
    MaxId = 2
    MaxRedirects = 0
    MaxIdle = 0
    MaxStrings = 0
    MaxCancels = 0
    MaxCrashes = 0
INVARIANT
    DestComplete
