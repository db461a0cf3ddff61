CONSTANTS
    Worker = {w1}
    MaxQueuedEvents = 1
    MaxConsecutiveTimeouts = 2
    MaxTimeoutsPerWindow = 2
    MaxHardErrorsPerWindow = 2
    Streams = {}
    Ref = {r1}
    OfferKinds = {"Reload", "Call", "Update"}
    OpKinds = {"Async", "Sound"}
    Verdicts = {"ok", "error"}
    MaxOffers = 3
    MaxOps = 2
SPECIFICATION FairSpec
INVARIANTS
    UnhealthyIsEarned
    CompletionMeetsItsCallback
PROPERTIES
    HostLeavesByExit
    DeliveryIsFresh
    StopCompletes
    ReloadTakesEffect
    UpdatesKeepFlowing
    SoundCallbackRuns
CHECK_DEADLOCK FALSE
