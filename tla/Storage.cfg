SPECIFICATION FairSpec
CONSTANTS
    Callers = {c1, c2}
    Life = Life
    Nothing = Nothing
    CacheKey = CacheKey
    p = p
    v1 = v1
    v2 = v2
    Keys = {p, CacheKey}
    Values = {v1, v2}
    Requests <- MCRequests
INVARIANTS
    TypeOK
    LockCoversWorker
    QuietWhenDown
PROPERTIES
    FileIsCarried
    IsProfileStore
    OperationsEnd
