CONSTANTS
    d1 = d1
    d2 = d2
    file = file
    r1 = r1
    s1 = s1
    s2 = s2
    k1 = k1
    Slots = {k1}
    Downloads = {d1, d2}
    Requests = {r1}
    Streams = {s1, s2}
    Files = {file}
    Dest <- MCDest
    Urls <- MCUrls
    None = None
    MaxStreams = 1
    MaxLines = 1
    MaxReloads = 1
SPECIFICATION FairSpec
INVARIANTS TransfersAgree
PROPERTIES StopIsSilent EveryoneIsAnswered
CHECK_DEADLOCK FALSE
