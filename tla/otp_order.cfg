SPECIFICATION Spec
CONSTANTS
    MaxDeliveries = 3
    Phones = {p1}
    Keys = {k1, k2, k3}
    Codes = {c1}
    Members = {p1}
    Messages = {m1}
    Transactions = {x1}
    NoId = NoId
INVARIANTS
    OnlyNewestSignsIn
    RefusalIsFinal
PROPERTIES
    CurrentCodeKept
SYMMETRY Symmetry
CHECK_DEADLOCK FALSE
