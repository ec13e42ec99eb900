\* A request of two nodes for one container fails, and so does the next request.
SPECIFICATION Spec
CONSTANTS
    c1 = c1
    c2 = c2
    px = px
    u1 = u1
    u2 = u2
    t1 = t1
    t2 = t2
    d1 = d1
    d2 = d2
    g1 = g1
    g2 = g2
    None = None
    Free = Free
    Lost = Lost
    Containers = {c1}
    ProxyContainers = {}
    URNs = {u1}
    Callers = {t1}
    Deleters = {d1}
    Tags = {g1}
    Flaws = {"none"}
    MaxNodes = 2
    MaxCopies = 1
    OverlappingDeletes = FALSE
INVARIANTS
    TooBigMeansInUse
