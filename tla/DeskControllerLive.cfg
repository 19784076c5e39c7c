SPECIFICATION FairSpec
CONSTANTS
    Users = {u1}
    Runner = Runner
    Life = Life
    Requests <- LiveRequests
    Reports <- LiveReports
    OperationMin = 1
    OperationMax = 3
    Tolerance = 0
    FineDistance = 1
    Heights = {1}
PROPERTIES
    IntentExpires
    Answered
    ShutdownEnds
