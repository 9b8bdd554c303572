SPECIFICATION MCSpec
CONSTANTS
    ann = ann
    bob = bob
    cat = cat
    m1 = m1
    m2 = m2
    Unlimited = Unlimited
    Nobody = Nobody
    Users = {ann, bob, cat}
    Matches = {m1, m2}
    Requests = {r1, r2}
    Ops = {"reveal", "continue", "send", "read"}
    Keys = {k1}
    Contents = {c1}
    Leavers = {ann}
    Reportable = {m1, m2}
    Limits = {0, 1, Unlimited}
    Window = 1
    PurgeDelay = 1
    BatchSize = 1
    MaxAge = 1
    Pair <- TwoMatches
    Swipers = {bob, cat}
    MaxBlocks = 1
    MaxFaults = 1
INVARIANTS
    MatchesConsistent
    SwipesConsistent
PROPERTIES
    CommandsLawful
SYMMETRY Symmetry
CHECK_DEADLOCK FALSE
