\* Two containers from allocation to deletion, one thread for a container at a time.
SPECIFICATION FairSpec
CONSTANTS
    k1 = k1
    k2 = k2
    w1 = w1
    w2 = w2
    s1 = s1
    s2 = s2
    s3 = s3
    Containers = {k1, k2}
    Threads = {w1, w2}
    Slivers = {s1}
    MaxPort = 2
    Actions = {"stop", "restart", "reload"}
    OverlappingOperations = FALSE
    None = None
INVARIANTS ProvTypeOK ReadyHasContainer DeletedLeavesNothing NoPortLeak
PROPERTIES ReservesFreshPort ImplementsLife WorkersFinish
