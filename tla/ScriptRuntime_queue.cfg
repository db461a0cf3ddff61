CONSTANTS
    Worker = {w1, w2}
    MaxQueuedEvents = 2
    MaxConsecutiveTimeouts = 1
    MaxTimeoutsPerWindow = 1
    MaxHardErrorsPerWindow = 1
    Streams = {s1, s2}
    Ref = {r1}
    OfferKinds = {"Reload", "Update", "Call", "Hover", "Stream"}
    OpKinds = {}
    Verdicts = {"ok", "timeout"}
    MaxOffers = 5
    MaxOps = 0
SPECIFICATION Spec
SYMMETRY WorkerSymmetry
INVARIANTS
    TypeOK
    DrainIsExact
    UpdateFlagsExact
    CallsMeetTheirHost
    QueueDiscipline
    StopIsFinal
PROPERTIES
    ServiceIsImplemented
CHECK_DEADLOCK FALSE
