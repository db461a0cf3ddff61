CONSTANTS
    service = service
    widget = widget
    k1 = k1
    k2 = k2
    Runtime = {service, widget}
    Key = {k1, k2}
    Writes <- ServiceWrites
    MaxQueuedEvents = 2
    MaxEvents = 4
    MaxSets = 1
    MaxFns = 1
SPECIFICATION Spec
INVARIANT CalledForItsKey
CHECK_DEADLOCK FALSE
