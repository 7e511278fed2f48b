CONSTANTS
    NSubs = 1
    Reqs = {r1, r2}
    Plans = {p1}
    Unsynced = ux
    Ops = {"create", "change"}
    MaxTime = 5
    MaxEvents = 4
    MaxFaults = 0
    LockLapses = FALSE
    LateWrites = FALSE
SPECIFICATION FairSpec
PROPERTY DeletionReachesRow
CHECK_DEADLOCK FALSE
