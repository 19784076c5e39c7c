SPECIFICATION Spec
CONSTANTS
    Users = {u1, u2}
    Runner = Runner
    Life = Life
    Requests <- PairRequests
    Reports <- PairReports
    OperationMin = 1
    OperationMax = 3
    Tolerance = 0
    FineDistance = 1
    Heights = {1}
PROPERTY
    StopOvertakes
