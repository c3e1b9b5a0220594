SPECIFICATION LiveSpec
CONSTANTS
    Serials = {s1}
    Calls = {p1}
    AlarmRun = alarmRun
    NoRow = noRow
    NoList = noList
    Sha256 <- MCSha256
    Unavailable = unavailable
    MaxTtl = 2
    Retry = 1
    RefreshMargin = 1
    MaxAges = {0, 5}
    MaxAge = 1
    Skew = 1
    CallTime = 1
    AlarmLatency = 1
    FeedFails = TRUE
    StorageFails = TRUE
    MaxCrashes = 0
    StartTime = 1
    MaxTime = 7
PROPERTIES
    ListedSerialsAreSeen
    AnswersAreRecent
    CallsAnswered
