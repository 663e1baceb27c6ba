SPECIFICATION Spec
CONSTANTS
    WordSize = 1024
    Layers <- MCLayers
    KBatchSize = 2
    ThreadsPerBlock = 4
    Grids <- MCGrids
INVARIANTS
    TypeOK
    InBounds
    OutputsAreTheLayers
    WrittenOnce
PROPERTY
    LaunchFinishes
CHECK_DEADLOCK FALSE
