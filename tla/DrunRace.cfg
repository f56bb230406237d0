CONSTANTS
    Runs = {r1, r2, r3}
    WithGrains = {}
    Stops = FALSE
    Fails = FALSE
    MaxBorn = 3
    None = None
SPECIFICATION Spec
INVARIANT NoCommandBeforeSync
