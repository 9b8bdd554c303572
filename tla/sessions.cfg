SPECIFICATION MCSpec
CONSTANTS
    Users = {u1, u2}
    Families = {f1, f2}
    Tokens = {t1, t2, t3}
    Devices = {d1}
    Clients = {c1, c2}
    NoFamily = NoFamily
    NoToken = NoToken
    NoUser = NoUser
INVARIANTS
    DoubleUseRevokes
    OneLineage
    DevicesFollowSession
    ClosedAccountNoSession
SYMMETRY Symmetry
CHECK_DEADLOCK FALSE
