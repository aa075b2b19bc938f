\* Ids are unique; with 4 jobs both lanes fill up and are borrowed both ways.
SPECIFICATION Spec
CONSTANTS
    Ids = {1, 2, 3, 4}
    Pids = {1, 2, 3, 4}
    TotalLane = 4
    SizeMax = 7
    ExitStatuses = {0, 9}
    LostStatuses <- MCLostStatuses
    Durations = {0}
    P90Capacity = 1
    MaxSubmits = 1
    MaxLoops = 1
    SpawnMayFail = TRUE
    None = None
ACTION_CONSTRAINT CanonicalNames
CONSTRAINT NotStopped
INVARIANTS
    TypeOK
    LaneAccounting
    OneProcessPerJob
    OnePlacePerJob
    NoSlowTimeout
PROPERTIES
    ImplementsLifecycle
CHECK_DEADLOCK FALSE
