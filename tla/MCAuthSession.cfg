CONSTANTS
    Proc = {p1, p2}
    NSess = 2
    Cap = 1
    MaxMint = 3
    MaxFaults = 1
    None = None
SPECIFICATION Spec
INVARIANTS SessionCap CachedIsCurrent InactiveNotCached KillNeedsStaleSecret
SYMMETRY Symmetry
