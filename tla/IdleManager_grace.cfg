CONSTANTS
    locker = locker
    blanker = blanker
    Behavior = {locker, blanker}
    Lockers = {locker}
    Blankers = {blanker}
    LockedOnly = {}
    LockEnabled = TRUE
    Captures = FALSE
    MaxAbsences = 1
    MaxReloads = 0
    MaxInhibits = 1
    MaxSessions = 1
    MaxNest = 1
    MaxIncidents = 3
SPECIFICATION FairSpec
PROPERTIES GraceEnds ScreenComesBack
CHECK_DEADLOCK FALSE
