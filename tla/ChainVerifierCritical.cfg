SPECIFICATION Spec
CONSTANTS
    Lengths = {}
    Names <- MCNames
    FactoryNames = {"factory"}
    RemoteNames = {"remote"}
    Keys <- MCKeys
    Anchors <- MCAnchors
    Requests <- MCRequests
CHECK_DEADLOCK FALSE
INVARIANT
    CriticalCountsAsMissing
