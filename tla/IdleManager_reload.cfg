CONSTANTS
    locker = locker
    blanker = blanker
    Behavior = {locker, blanker}
    Lockers = {locker}
    Blankers = {blanker}
    LockedOnly = {}
    LockEnabled = TRUE
    Captures = FALSE
    MaxAbsences = 1
    MaxReloads = 1
    MaxInhibits = 0
    MaxSessions = 0
    MaxNest = 1
    MaxIncidents = 3
SPECIFICATION FairSpec
PROPERTIES ScreenComesBack
CHECK_DEADLOCK FALSE
