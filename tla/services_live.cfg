SPECIFICATION MCFairSpec
CONSTANTS
    Parts = {"feed", "retention", "consents", "match"}
    Recipients = {u1, u2}
    Phones = {t1}
    Logins = {a1, a2, b1}
    LoginOf <- TwoAndOne
    Subjects = {"n1"}
    Addressee <- ToFirst
    MaxTries = 2
    MaxLosses = 2
    MaxDeviceChanges = 1
    Procs = {p1, p2}
    TokenRows = {t1}
    FamilyRows = {f1}
    DatedRows = {}
    FamilyOf <- OneFamily
    RowsPerBatch = 1
    MaxBatches = 2
    MaxPassFaults = 1
    NoLeader = NoLeader
    Writes = {r1}
    Processes = {p1}
    Versions = {1}
    MaxEvents = 2
    Candidates = {1, 2, 3}
    MaxDistance = 1
    PageLimit = 1
    FeedBatchSize = 2
    FeedBatches = 1
    MaxFeedChanges = 1
    MaxFeedFaults = 1
    Exports = {r1, r2}
    Collections = 1
    RowKeys = {1}
    ExportPageSize = 1
    MaxExportBytes = 5
    MaxExports = 1
    MaxExportChanges = 1
    MaxExportFaults = 1
    u1 = u1
    u2 = u2
    a1 = a1
    a2 = a2
    b1 = b1
    m1 = m1
    r1 = r1
    r2 = r2
    p1 = p1
    p2 = p2
    t2 = t2
    f1 = f1
    None = None
PROPERTIES
    WalkEnds
    NothingExpiredStays
    PositionForgotten
    MatchSettles
CHECK_DEADLOCK FALSE
