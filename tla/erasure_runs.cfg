SPECIFICATION MCSpec
CONSTANTS
    r1 = r1
    r2 = r2
    w1 = w1
    w2 = w2
    i1 = i1
    i2 = i2
    p1 = p1
    u1 = u1
    k1 = k1
    h1 = h1
    j1 = j1
    NoPhoto = NoPhoto
    Requests = {r1, r2}
    Type <- TwoErasures
    Runs = {w1, w2}
    Process <- SameProcess
    Items = {i1, i2}
    BatchSize = 1
    MaxAttempts = 2
    Faults = {"crash", "lapse", "lock", "provider"}
    MaxFaults = 2
    None = None

    
PROPERTIES
    ErasureProgress
    
    PhotosProgress
CHECK_DEADLOCK FALSE
