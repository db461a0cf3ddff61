CONSTANTS
    locker = locker
    blanker = blanker
    Behavior = {locker, blanker}
    Lockers = {locker}
    Blankers = {blanker}
    LockedOnly = {}
    LockEnabled = TRUE
    Captures = TRUE
    MaxAbsences = 2
    MaxReloads = 1
    MaxInhibits = 1
    MaxSessions = 1
    MaxNest = 2
    MaxIncidents = 3
SPECIFICATION Spec
INVARIANTS GraceIsWhole CancelledFadeIsGone PhaseFollowsReports ActionIsOwed
PROPERTIES ActionMeansIdle
CHECK_DEADLOCK FALSE
