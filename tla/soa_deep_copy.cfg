SPECIFICATION Spec
CONSTANTS
    a1 = a1
    a2 = a2
    v1 = v1
    v2 = v2
    None = None
    Storages = {a1, a2}
    Views = {v1, v2}
    Blocks <- MCBlocks
    Alignment = 2
    Enforced <- MCEnforced
    Elements <- MCFewAndMany
    Bases <- MCBases
    Address <- MCAddress
    AnyStride = TRUE
    MaxMade = 1
    MaxCalls = 1
PROPERTIES
    DeepCopyCopies
CHECK_DEADLOCK FALSE
