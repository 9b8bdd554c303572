SPECIFICATION MCSpec
CONSTANTS
    k1 = k1
    k2 = k2
    r1 = r1
    r2 = r2
    Keys = {k1, k2}
    Requests = {r1, r2}
    BatchSize = 1
    MaxFaults = 2
    Subs = {1, 2}
    MaxTick = 4
    MaxChanges = 3
    MaxInFlight = 1
    TicksPerSecond = 2
    CustomerDeletion = TRUE
    None = None
INVARIANTS
    ProjectionConsistent
    
PROPERTIES
    ClosedAccountUntouched
    Converges
    CreationResolved
CHECK_DEADLOCK FALSE
