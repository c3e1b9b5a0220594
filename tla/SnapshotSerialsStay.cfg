SPECIFICATION Spec
CONSTANTS
    Serials = {s1}
    Calls = {p1, p2}
    AlarmRun = alarmRun
    NoRow = noRow
    NoList = noList
    Sha256 <- MCSha256
    Unavailable = unavailable
    MaxTtl = 2
    Retry = 1
    RefreshMargin = 1
    MaxAges = {3}
    MaxAge = 0
    Skew = 0
    CallTime = 1
    AlarmLatency = 1
    FeedFails = TRUE
    StorageFails = FALSE
    MaxCrashes = 0
    StartTime = 1
    MaxTime = 5
SYMMETRY Symmetry
PROPERTY
    StoredSerialsStay
