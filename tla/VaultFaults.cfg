CONSTANTS
    Contexts = {c1}
    Paths = {s1}
    None = None
    Static = FALSE
    CacheOn = TRUE
    FreshFor = 1
    OfflineMaxAge = 2
    Cooldown = 1
    PinnedKv = 0
    TrueKv = 1
    Lease = 2
    DefaultLease = 2
    Margin = 1
    Faults = {"crash", "save", "file"}
    MaxTime = 2
    MaxVersion = 1
    MaxEpoch = 0
SPECIFICATION FairSpec
INVARIANTS KvFromMount ServedWithinBound
PROPERTY LookupTerminates
