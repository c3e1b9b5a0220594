SPECIFICATION LiveSpec
CONSTANTS
    Lengths = {2, 3, 4}
    Names <- MCNames
    FactoryNames = {"factory"}
    RemoteNames = {"remote"}
    Keys <- MCKeys
    Anchors <- MCAnchors
    Requests <- MCRequests
CHECK_DEADLOCK FALSE
INVARIANTS
    TypeOK
    AcceptedIffAcceptable
    VouchedFor
PROPERTY
    Decided
