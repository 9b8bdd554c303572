SPECIFICATION MCSpec
CONSTANTS
    Parts = {"feed", "push", "export", "retention", "consents"}
    Recipients = {u1, u2}
    Phones = {t1, t2}
    Logins = {a1, a2, b1}
    LoginOf <- TwoAndOne
    Subjects = {"n1"}
    Addressee <- ToFirst
    MaxTries = 2
    MaxLosses = 2
    MaxDeviceChanges = 3
    Procs = {p1, p2}
    TokenRows = {t1, t2}
    FamilyRows = {f1}
    DatedRows = {o1}
    FamilyOf <- OneFamily
    RowsPerBatch = 1
    MaxBatches = 2
    MaxPassFaults = 1
    NoLeader = NoLeader
    Writes = {r1}
    Processes = {p1, p2}
    Versions = {1, 2}
    MaxEvents = 2
    Candidates = {1, 2, 3, 4}
    MaxDistance = 1
    PageLimit = 1
    FeedBatchSize = 2
    FeedBatches = 2
    MaxFeedChanges = 1
    MaxFeedFaults = 1
    Exports = {r1, r2}
    Collections = 2
    RowKeys = {1, 2}
    ExportPageSize = 1
    MaxExportBytes = 9
    MaxExports = 2
    MaxExportChanges = 1
    MaxExportFaults = 1
    u1 = u1
    u2 = u2
    a1 = a1
    a2 = a2
    b1 = b1
    m1 = m1
    r1 = r1
    r2 = r2
    p1 = p1
    p2 = p2
    t2 = t2
    f1 = f1
    None = None
INVARIANTS
    FeedConsistent
    
    ExportConsistent
    RetentionConsistent
    ConsentsConsistent
CHECK_DEADLOCK FALSE
