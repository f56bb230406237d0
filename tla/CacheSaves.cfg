CONSTANTS
    Contexts = {c1, c2}
    Versions = {v1, v2}
    Inodes = {i1, i2, i3, i4}
    MaxMishaps = 2
    None = None
SPECIFICATION Spec
INVARIANTS TypeOK LeftoversBounded
PROPERTY ImplementsAtomicFile
SYMMETRY Symmetry
