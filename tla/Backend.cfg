SPECIFICATION BackendSpec
CONSTANTS
    Nonces = {c1}
    NotAChallenge = none
    Slots = {w1, w2}
    Lifetime = 2
    PurgeMargin = 1
    RateLimit = 3
    Skew = 1
    StartTime = 0
    MaxTime = 7
    Serials = {s1}
    NoAnswer = noAnswer
    Window = 1
    MaxLoads = 2
    NoLoad = noLoad
SYMMETRY Symmetry
INVARIANTS
    BackendTypeOK
    LoadsOnce
PROPERTIES
    FlagsAreFresh
    FailuresAreForgotten
