SPECIFICATION Spec
CONSTANTS
    Serials = {s1}
    Calls = {p1, p2}
    AlarmRun = alarmRun
    NoRow = noRow
    NoList = noList
    Sha256 <- MCSha256
    Unavailable = unavailable
    MaxTtl = 5
    Retry = 2
    RefreshMargin = 3
    MaxAges = {6}
    MaxAge = 0
    Skew = 0
    CallTime = 1
    AlarmLatency = 1
    FeedFails = FALSE
    StorageFails = FALSE
    MaxCrashes = 0
    StartTime = 1
    MaxTime = 10
SYMMETRY Symmetry
INVARIANT
    NeverLapses
