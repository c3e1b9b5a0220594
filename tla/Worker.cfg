SPECIFICATION Spec
CONSTANTS
    Nonces = {c1, c2}
    NotAChallenge = none
    Slots = {w1, w2, w3}
    Lifetime = 2
    PurgeMargin = 1
    RateLimit = 5
    Skew = 1
    StartTime = 0
    MaxTime = 4
SYMMETRY Symmetry
INVARIANTS
    TypeOK
    SingleUse
    RetainedWhileRedeemable
    GrantedOnceWhileRedeemable
PROPERTY
    ServiceSpec
