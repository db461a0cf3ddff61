CONSTANTS
    Output = {o1}
    Attempt = {a1}
    MaxLocks = 2
    MaxAsks = 1
    NoAttempt = NoAttempt
    MaxRetries = 1
    MaxSleeps = 1
SPECIFICATION SessionSpec
INVARIANTS GuardIsWhole UnlockIsOfferedAgain
PROPERTIES SessionIsGuarded ActionKeepsItsLock
CHECK_DEADLOCK FALSE
