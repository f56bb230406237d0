CONSTANTS
    Contexts = {c1}
    Paths = {s1, s2}
    None = None
    Static = TRUE
    CacheOn = FALSE
    FreshFor = 0
    OfflineMaxAge = 0
    Cooldown = 1
    PinnedKv = 2
    TrueKv = 2
    Lease = 0
    DefaultLease = 2
    Margin = 1
    Faults = {}
    MaxTime = 3
    MaxVersion = 0
    MaxEpoch = 0
SPECIFICATION Spec
PROPERTY SkipOnlyInWindow
