SPECIFICATION MCSpec
CONSTANTS
    Creds = {c1, c2}
    Sessions = {s1, s2}
    Challenges = {h1, h2, h3}
    Tokens = {t1, t2}
    Requests = {r1, r2}
    None = None
    MaxCounter = 3
    t2 = t2
    Texts = {polite, rude}
    Flagged = {rude}
    NoText = NoText
    Questions = {s1, s2}
    MaxAnswers = 2
    Cases = {h1, h2, h3}
    Admins = {r1, r2}
    MaxVersion = 3
    Ids = {1, 2, 3}
    MaxTime = 3
    TicksPerMilli = 2
    Limit = 1
    Offsets = {0, 1}
    MaxChanges = 2
INVARIANTS
    AdminConsistent
    TextsConsistent
    ListsConsistent
PROPERTIES
    PasskeysKept
    NoBlindOverride
SYMMETRY Symmetry
CHECK_DEADLOCK FALSE
