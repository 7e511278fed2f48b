CONSTANTS
    NSubs = 2
    Reqs = {r1, r2}
    Plans = {p1, p2}
    Unsynced = ux
    Ops = {"create", "change", "cancel", "cancel_now", "resume"}
    MaxTime = 5
    MaxEvents = 3
    MaxFaults = 1
    LockLapses = FALSE
    LateWrites = FALSE
SPECIFICATION Spec
SYMMETRY Symmetry
INVARIANTS TerminalIsOver TwoLiveNeedAFault DeletionSticks
CHECK_DEADLOCK FALSE
