SPECIFICATION Spec
CHECK_DEADLOCK FALSE
CONSTANTS
    None = None
    Word <- MCWord
    LowerWord <- MCLowerWord
    Identifier <- MCIdentifier
    Digit = {"1", "2", "3", "1.2", "0"}
    IndexWord <- MCIndexWord
    ALIGNMENT = 2
    Size <- MCSize
    Models <- MCModels
    Levels = {0, 1}
INVARIANT ValueMapNamesNodes
