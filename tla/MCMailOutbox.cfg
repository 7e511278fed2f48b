CONSTANTS
    NMails = 2
    Producers = {p1}
    Jobs = {j1, j2}
    MaxAttempts = 2
    Batch = 1
    MaxFaults = 1
    Corrupt = {}
SPECIFICATION FairSpec
INVARIANTS OneSenderPerRow BodyIsIntact SecondCallNeedsFault
PROPERTIES EventuallySettled
CHECK_DEADLOCK FALSE
