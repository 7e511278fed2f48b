CONSTANTS
    Deliveries = {d1}
    Workers = {w1, w2}
    None = None
    NReplays = 3
    MaxAttempts = 2
    MaxStalled = 2
    MaxCount = 1
    Batch = 2
    BypassRls = FALSE
    MaxFaults = 1
SPECIFICATION Spec
INVARIANTS OneSender CopiesNeedFaults ReplayBudget
PROPERTIES SentIsFinal LettersResolve DeliveriesSettle
CHECK_DEADLOCK FALSE
