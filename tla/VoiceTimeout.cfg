SPECIFICATION Spec
CONSTANTS
    QueueFrames = 1
    PostedMax = 1
    SessionMaxTurns = 1
    MaxToolCalls = 1
    StepCalls = {1}
INVARIANTS
    DeadVoiceShows
CHECK_DEADLOCK FALSE
