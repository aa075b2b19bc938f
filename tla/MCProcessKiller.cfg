\* Numbers of three bits: the counter meets UINT_MAX, the product overflows, and
\* the shift reaches the width.
SPECIFICATION Spec
CONSTANTS
    UBits = 3
    LBits = 6
    Retries <- MCRetries
INVARIANTS
    TrueMeansGone
    KillIsLastResort
    DelayIsCappedExponential
PROPERTIES
    KillsInTheEnd
CHECK_DEADLOCK FALSE
