\* Two streams, a pipe that can be full, callers on the loop and off it.
SPECIFICATION LiveSpec
CONSTANTS
    Streams = {"stdout", "stderr"}
    MaxLines <- MCMaxLines
    PipeSize = 2
INVARIANTS
    LinesInOrder
    StoppedCanBeResumed
PROPERTIES
    LinesAreDelivered
    ReadsEndAfterTerminate
CHECK_DEADLOCK FALSE
