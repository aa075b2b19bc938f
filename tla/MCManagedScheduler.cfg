\* One id is submitted four times, while it is queued or running, a second one
\* once, on four lanes, and the process ids come back.
SPECIFICATION ManagedSpec
CONSTANTS
    Ids = {1, 2}
    Pids = {1, 2}
    TotalLane = 4
    SizeMax = 7
    ExitStatuses = {0}
    LostStatuses <- MCLostStatuses
    Durations = {0}
    P90Capacity = 1
    MaxSubmits = 4
    MaxLoops = 1
    SpawnMayFail = TRUE
    None = None
ACTION_CONSTRAINTS CanonicalPids SecondIdOnce
INVARIANTS
    EntryCanBeRemoved
    LaneCapacity
PROPERTY KillReachesTheRun
CHECK_DEADLOCK FALSE
