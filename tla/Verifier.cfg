SPECIFICATION Spec
CONSTANTS
    Names <- MCNames
    FactoryNames = {"factory", "factory_strongbox"}
    RemoteNames = {"remote"}
    TeeNames = {"tee"}
    StrongBoxNames = {"strongbox"}
    StrongBoxMentions = {"strongbox", "factory_strongbox"}
    Keys <- MCKeys
    Anchors <- MCAnchors
    PackageName = "app"
    Signer = "signer"
    Challenge = "challenge"
    MaxPackages = 2
    MaxSignatures = 2
    Requests <- Chains
    Elements <- MCElements
    Submissions <- MCSubmissions
CHECK_DEADLOCK FALSE
INVARIANTS
    TypeOK
    PolicyOnlyTurnsAcceptances
    CodeNamesFirstControl
    MalformedIdIsNamed
    PatchesWithinTheYear
