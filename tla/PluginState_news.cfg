CONSTANTS
    service = service
    widget = widget
    k1 = k1
    k2 = k2
    Runtime = {service, widget}
    Key = {k1}
    Writes <- ServiceWrites
    MaxQueuedEvents = 2
    MaxEvents = 3
    MaxSets = 2
    MaxFns = 2
SPECIFICATION FairSpec
INVARIANTS TypeOK WatchersAreLive
PROPERTIES NewsInOrder NewsArrives
CHECK_DEADLOCK FALSE
