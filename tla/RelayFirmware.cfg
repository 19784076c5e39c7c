SPECIFICATION FairSpec
CONSTANTS
    MinControl = 1
    MaxControl = 3
    Heights = {0, 1, 2, 3, 4}
    NoHeight = NoHeight
    Stamps = {s1, s2, s3}
    NoStamp = NoStamp
    MaxHold = 3
    Break = 1
    Lease = 3
    ArmDelay = 2
    Wrap = 12
    Horizon = 9
INVARIANTS
    TypeOK
    TimeoutMeansStopped
    WithinBoundary
    TwoObservations
    MotionWithinLease
PROPERTY
    IsDeadManRelay
