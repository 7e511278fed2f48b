CONSTANTS
    Proc = {p1, p2}
    Upload = {u1}
    Shared = {u1}
    Cap = 1
    OrgCap = 1
    HasETag = TRUE
    MaxFaults = 2
    None = None
SPECIFICATION FairSpec
INVARIANTS ServedHasObject PublishedAsVerified NoOrphanObject
PROPERTY PendingSettles
CHECK_DEADLOCK FALSE
