SPECIFICATION Spec
CHECK_DEADLOCK FALSE
CONSTANTS
    None = None
    Word <- MCWord
    LowerWord <- MCLowerWord
    Graphs <- MCGraphs
INVARIANTS
    TypeOK
    ReferencesResolve
    RemovesWhatItFused
    NothingLeftToFuse
PROPERTIES
    MeaningPreserved
