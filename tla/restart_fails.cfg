\* A restart that docker carries out leaves the sliver failed.
SPECIFICATION FairSpec
CONSTANTS
    k1 = k1
    k2 = k2
    w1 = w1
    w2 = w2
    s1 = s1
    s2 = s2
    s3 = s3
    Containers = {k1}
    Threads = {w1}
    Slivers = {s1}
    MaxPort = 1
    Actions = {"restart"}
    OverlappingOperations = FALSE
    None = None
PROPERTIES RestartLeadsToReady
