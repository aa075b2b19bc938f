SPECIFICATION MCSpec
CONSTANTS
    Registered <- MCRegistered
    Implements <- MCImplements
    Methods <- MCMethods
    Targets <- MCTargets
    Globals <- MCGlobals
    Addresses <- MCAddresses
    NotObject = NotObject
    Configs <- MCConfigs
    NotArray = NotArray
    BrokenArray = BrokenArray
    Invalid = Invalid
    None = None
    MaxEntries = 2
    MaxTarget = 5
    MaxSegment = 2
    MaxField = 1
    MaxParts = 2
    MaxRaw = 6
    MaxTokens = 5
INVARIANTS
    RoutesToLongestPrefix
    ServesAsConfigured
    DecodesAsMeant
    NormalFormOfSamePath
CHECK_DEADLOCK FALSE
