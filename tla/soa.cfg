SPECIFICATION Spec
CONSTANTS
    a1 = a1
    a2 = a2
    v1 = v1
    v2 = v2
    None = None
    Storages = {a1, a2}
    Views = {v1, v2}
    Blocks <- MCBlocks
    Alignment = 2
    Enforced <- MCEnforced
    Elements <- MCElements
    Bases <- MCBases
    Address <- MCAddress
    AnyStride = FALSE
    MaxMade = 3
    MaxCalls = 1
INVARIANTS
    TypeOK
    OffsetsAgree
    OnlyMisalignedThrows
    PlacementSound
PROPERTIES
    DeepCopyCopies
    ImplementsTable
CHECK_DEADLOCK FALSE
