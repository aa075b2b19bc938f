\* Two connections, and everything that may go wrong.
SPECIFICATION LiveSpec
CONSTANTS
    Conns = {1, 2}
    MaxRequests <- MCMaxRequests
    Faults = {"timeout", "reset", "accept"}
INVARIANTS
    ResponsesInOrder
    NothingAfterClose
    CrashNeedsBrokenConnection
PROPERTIES
    NoOperationHangs
    RequestsAreAnswered
CHECK_DEADLOCK FALSE
