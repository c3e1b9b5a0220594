SPECIFICATION Spec
CONSTANTS
    Screens = {s1, s2}
    HasStrongBox = TRUE
    SecurityLevels = {TRUE, FALSE}
    Codes = {"other"}
    Failures = {}
    MaxKeys = 2
INVARIANT
    RecordIsWhole
