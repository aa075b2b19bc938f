\* Two jobs for one fast lane while the slow lanes are full; children may hang
\* and spawning may fail.
SPECIFICATION MCLiveSpec
CONSTANTS
    Ids = {1, 2, 3, 4, 5}
    Pids = {1, 2, 3, 4, 5}
    TotalLane = 4
    SizeMax = 7
    ExitStatuses = {0}
    LostStatuses <- MCLostStatuses
    Durations = {0}
    P90Capacity = 1
    MaxSubmits = 1
    MaxLoops = 1
    SpawnMayFail = TRUE
    None = None
ACTION_CONSTRAINT CanonicalNames
CONSTRAINT NotStopped
PROPERTIES
    QueuedJobIsStarted
    QueuedJobSettles
CHECK_DEADLOCK FALSE
