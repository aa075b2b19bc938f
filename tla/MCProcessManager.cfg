\* Two threads may act on one child while a third one spawns another, and a pid
\* may come back while its old handler is still in the table.
SPECIFICATION LiveSpec
CONSTANTS
    Threads = {t1, t2, t3}
    Pids = {p1, p2}
    Handlers = {h1, h2}
    None = None
INVARIANTS
    TableIsSound
    DanglingNeedsOverlap
    EveryChildIsControlled
PROPERTIES
    TerminateReturns
CHECK_DEADLOCK FALSE
