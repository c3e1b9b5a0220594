SPECIFICATION LiveSpec
CONSTANTS
    Screens = {s1}
    HasStrongBox = TRUE
    SecurityLevels = {TRUE, FALSE}
    Codes = {"device_integrity", "challenge_replayed", "other"}
    Failures = {"no_connection", "untrusted", "invalid"}
    MaxKeys = 4
INVARIANTS
    TypeOK
    NoKeyLeftBehind
    HardwareKeysOnly
    RecordIsWhole
    AcceptedMeansStored
PROPERTIES
    RecordOutlivesFailures
    ButtonComesBack
