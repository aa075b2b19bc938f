\* Segments of at most one character are enough: "//".
SPECIFICATION MCSpec
CONSTANTS
    Registered <- MCRegistered
    Implements <- MCImplements
    Methods <- MCMethods
    Targets <- MCTargets
    Globals <- MCGlobals
    Addresses <- MCAddresses
    NotObject = NotObject
    Configs <- MCConfigs
    NotArray = NotArray
    BrokenArray = BrokenArray
    Invalid = Invalid
    None = None
    MaxEntries = 0
    MaxTarget = 1
    MaxSegment = 1
    MaxField = 1
    MaxParts = 2
    MaxRaw = 1
    MaxTokens = 1
INVARIANTS
    DecodedPathIsNormalized
CHECK_DEADLOCK FALSE
