CONSTANTS
    Runs = {r1, r2, r3}
    WithGrains = {r1, r2}
    Stops = TRUE
    Fails = TRUE
    MaxBorn = 3
    None = None
SPECIFICATION FairSpec
INVARIANTS TypeOK CommandAfterSync OneSaltAtATime OwnGrains
PROPERTY DrunsEnd
