CONSTANTS
    N = 1
    Later = 1
    FreshJobs = {f1}
    Deliveries = {d1}
    MaxAttempts = 2
    PageSize = 1
    MaxDeliveries = 2
    MaxFailures = 2
    StalledWorkers = FALSE
    OverlappingCatchups = FALSE
SPECIFICATION LedgerFairSpec
INVARIANTS OneWorkerPerEvent
PROPERTIES ImplementsInbox EventuallyProcessed
CHECK_DEADLOCK FALSE
