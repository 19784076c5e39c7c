SPECIFICATION Spec
CONSTANTS
    Users = {u1}
    Runner = Runner
    Life = Life
    Requests <- MCRequests
    Reports <- MCReports
    OperationMin = 1
    OperationMax = 3
    Tolerance = 0
    FineDistance = 1
    Heights = {1, 2, 3}
INVARIANTS
    TypeOK
    PublicMatchesIntent
    WakeBeforeMotion
    StopIsLast
    StopHoldsOff
PROPERTY
    StoppedIsConfirmed
