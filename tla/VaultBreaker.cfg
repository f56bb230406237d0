CONSTANTS
    Contexts = {c1}
    Paths = {s1, s2}
    None = None
    Static = FALSE
    CacheOn = TRUE
    FreshFor = 1
    OfflineMaxAge = 3
    Cooldown = 2
    PinnedKv = 0
    TrueKv = 1
    Lease = 3
    DefaultLease = 2
    Margin = 1
    Faults = {}
    MaxTime = 4
    MaxVersion = 0
    MaxEpoch = 1
SPECIFICATION CostSpec
INVARIANTS SixRequests OneFailurePerProcess
PROPERTIES DenialIsGenuine OneTimeoutPerWindow LookupAdvances
