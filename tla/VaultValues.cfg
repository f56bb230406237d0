CONSTANTS
    Contexts = {c1, c2}
    Paths = {s1}
    None = None
    Static = TRUE
    CacheOn = TRUE
    FreshFor = 1
    OfflineMaxAge = 2
    Cooldown = 1
    PinnedKv = 2
    TrueKv = 2
    Lease = 0
    DefaultLease = 2
    Margin = 1
    Faults = {"crash", "save", "file"}
    MaxTime = 1
    MaxVersion = 1
    MaxEpoch = 1
SPECIFICATION Spec
SYMMETRY Symmetry
INVARIANTS TypeOK CacheTruthful OutageIsReal
PROPERTY ImplementsReads
