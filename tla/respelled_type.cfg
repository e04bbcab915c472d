SPECIFICATION Spec
CONSTANTS
    None = None
    Word = Word
    Names <- MCNames
    Types <- MCTypes
    Tokens = {}
    Sizes <- MCSizes
    Letters <- MCLetters
    Documents <- MCDocuments
    InitialDocuments <- OnlyEmpty
INVARIANT SameContractReleased
CHECK_DEADLOCK FALSE
