CONSTANTS
    Timers = {ta, tb}
    MaxId = 3
    MaxDelay = 1
    NoEntry = NoEntry
    Calls = {c}
    Threads = {th}
    NoTime = NoTime
    FlushFloor = 2
SPECIFICATION FairSpec
INVARIANTS LoopIsSound
PROPERTIES ServiceIsImplemented NothingStarves
