CONSTANTS
    Worker = {w1, w2}
    MaxQueuedEvents = 2
    MaxConsecutiveTimeouts = 3
    MaxTimeoutsPerWindow = 4
    MaxHardErrorsPerWindow = 3
    Streams = {}
    Ref = {r1}
    OfferKinds = {"Reload", "Settings"}
    OpKinds = {}
    Verdicts = {"ok"}
    MaxOffers = 3
    MaxOps = 0
SPECIFICATION FairSpec
PROPERTIES
    SettingsReachScript
CHECK_DEADLOCK FALSE
