CONSTANTS
    Requests = {r1, r2, r3}
    CacheKeys = {k1}
    Fingerprints = {f1, f2}
    Cap = 2
    SlowHandlers = FALSE
SPECIFICATION KeyFairSpec
INVARIANTS OneExecutionPerKey ReplayIsGenuine
PROPERTY KeyUnlocks
CHECK_DEADLOCK FALSE
