\* A late exit callback removes the entry of the job's next run.
SPECIFICATION Spec
CONSTANTS
    Ids = {1}
    Pids = {1, 2, 3, 4}
    TotalLane = 4
    SizeMax = 7
    ExitStatuses = {0}
    LostStatuses <- MCLostStatuses
    Durations = {0}
    P90Capacity = 1
    MaxSubmits = 1
    MaxLoops = 1
    SpawnMayFail = FALSE
    None = None
ACTION_CONSTRAINT CanonicalNames
INVARIANT LiveProcessIsMapped
CHECK_DEADLOCK FALSE
