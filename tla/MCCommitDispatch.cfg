CONSTANTS
    Requests = {r1}
    NTasks = 2
    Recovery = recovery
    Cleaned = {2}
    MaxFaults = 3
SPECIFICATION FairSpec
INVARIANTS AppendedIsKept SecondOutcomeNeedsFault
PROPERTY EventuallyExecuted
CHECK_DEADLOCK FALSE
