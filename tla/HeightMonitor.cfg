SPECIFICATION FairSpec
CONSTANTS
    Frames <- MCFrames
    MeasurementMin = 7300
    MeasurementMax = 11800
    Unknown = Unknown
INVARIANTS
    TypeOK
    OnlineIsFresh
    PortsClosed
PROPERTIES
    OutputsFollow
    StatusFollowsSensor
    FeedsDesk
CHECK_DEADLOCK FALSE
