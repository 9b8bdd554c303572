SPECIFICATION Spec
CONSTANTS
    photo = photo
    push = push
    billing = billing
    erase = erase
    w1 = w1
    w2 = w2
    Nobody = Nobody
    Gone = Gone
    Events = {photo, billing, erase}
    EventType <- MCEventType
    Workers = {w1, w2}
    Polls = {1}
    MaxAttempts = 2
    AttemptsCheck = 4
    BatchSize = 2
    HandlerConcurrency = 1
    Faults = {"crash", "lapse"}
    MaxFaults = 2
    MaxRequests = 2
INVARIANTS
    NoLostRequest
    DeadLetterEarned
    PendingHasBudget
    
SYMMETRY WorkerSymmetry
