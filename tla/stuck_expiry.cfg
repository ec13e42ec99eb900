\* An exception in a deletion keeps EXPIRE_LOCK.
SPECIFICATION FairSpec
CONSTANTS
    c1 = c1
    c2 = c2
    px = px
    u1 = u1
    u2 = u2
    t1 = t1
    t2 = t2
    d1 = d1
    d2 = d2
    g1 = g1
    g2 = g2
    None = None
    Free = Free
    Lost = Lost
    Containers = {c1}
    ProxyContainers = {}
    URNs = {u1}
    Callers = {t1}
    Deleters = {d1, d2}
    Tags = {g1}
    Flaws = {"none", "node", "match", "option"}
    MaxNodes = 1
    MaxCopies = 2
    OverlappingDeletes = TRUE
PROPERTIES
    ExpiredSliversReclaimed
CHECK_DEADLOCK FALSE
