SPECIFICATION LiveSpec
CONSTANTS
    Conns = {1, 2}
    MaxRequests <- MCMaxRequests
    Faults = {"timeout"}
INVARIANTS
    ServerSurvives
CHECK_DEADLOCK FALSE
