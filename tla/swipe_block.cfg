SPECIFICATION Spec
CONSTANTS
    Users = {u1, u2}
    Requests = {r1, r2}
    MaxBlocks = 1
    MaxFaults = 0
INVARIANTS
    BlockedNotMatched
SYMMETRY Symmetry
CHECK_DEADLOCK FALSE
