SPECIFICATION FairSpec
CONSTANTS
    photo = photo
    push = push
    billing = billing
    erase = erase
    w1 = w1
    w2 = w2
    Nobody = Nobody
    Gone = Gone
    Events = {photo, push}
    EventType <- MCEventType
    Workers = {w1}
    Polls = {1, 2}
    MaxAttempts = 2
    AttemptsCheck = 7
    BatchSize = 2
    HandlerConcurrency = 2
    Faults = {"crash", "lapse", "write"}
    MaxFaults = 2
    MaxRequests = 2
PROPERTIES
    EventuallySettled
