SPECIFICATION FairSpec
CONSTANTS
    QueueFrames = 2
    PostedMax = 1
    SessionMaxTurns = 2
    MaxToolCalls = 1
    StepCalls = {1, 2}
INVARIANTS
    TypeOK
    HalfDuplex
    
    DisabledIsQuiet
    HistoryIsWhole
PROPERTIES
    VoiceReturns
CHECK_DEADLOCK FALSE
