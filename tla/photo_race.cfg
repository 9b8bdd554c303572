SPECIFICATION Spec
CONSTANTS
    Users = {u1}
    Keys = {k1, k2}
    Photos = {p1, p2}
    Handlers = {h1}
    Jobs = {j1}
    MaxFaults = 1
    NoPhoto = NoPhoto
INVARIANTS
    PhotosConsistent
    NoOrphanObject
CHECK_DEADLOCK FALSE
SYMMETRY Symmetry
