\* One key more than the cache holds; pushes between any two calls of a pass;
\* texts and strings on both sides of the buffer's size; handle and responses
\* used again and again.  Two run times tell every rank of the estimator
\* apart; windows of every length up to 15, the least that compute_timeout
\* uses, then they overflow, twice.
SPECIFICATION LibrarySpec
CONSTANTS
    Keys = {a, b, c}
    Values = {x, y}
    Nodes = {n1, n2}
    CacheCapacity = 2
    None = None
    MaxCalls = 7
    Jobs = {a, b}
    Consumers = {ioc}
    MaxPushes = 6
    InitialSize = 3
    MaxOld = 5
    MaxText = 7
    Requests <- MCRequests
    Responses = {1, 2}
    MaxSends = 3
    Capacity = 15
    Durations = {0, 1, 3}
    MinSamples = 15
    DefaultTimeout = 30
    MaxReports = 17
INVARIANTS
    CacheIsConsistent
    PopsWhatItChecked
    FormatsWhole
    PerformsThisRequest
    ResponseIsOfOneSend
    ComputesP90
    DeadlineSparesTypicalJobs
PROPERTIES
    EvictsLeastRecentlyUsed
CHECK_DEADLOCK FALSE
