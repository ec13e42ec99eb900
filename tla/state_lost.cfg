\* A sliver that is ready is restored as one that is not.
SPECIFICATION Spec
CONSTANTS
    Threads = {t1, t2}
    Slices = {u1}
    Slots = {s1}
    HasProxy = FALSE
    CallsRaise = FALSE
    MaxCrashes = 0
    None = None
INVARIANTS ControllableAfterRestart
CHECK_DEADLOCK FALSE
