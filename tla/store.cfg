\* Two calls or threads, one slice, one container, one crash at any moment.
SPECIFICATION FairSpec
CONSTANTS
    Threads = {t1, t2}
    Slices = {u1}
    Slots = {s1}
    HasProxy = TRUE
    CallsRaise = FALSE
    MaxCrashes = 1
    None = None
INVARIANTS StoreTypeOK QuiescentIsSaved
PROPERTIES AWholeCopy CallsFinish SlicesAreDurable PoolIsDurable
CHECK_DEADLOCK FALSE
