SPECIFICATION Spec
CONSTANTS
    None = None
    Word = Word
    Names <- MCNames
    Types <- MCTypes
    Tokens = {}
    Sizes <- MCSizes
    Letters <- MCLetters
    Documents <- MCDocuments
    InitialDocuments <- MCInitialDocuments
INVARIANTS TypeOK ReadersKept TypesKept AdditionsReleased DocsShowContract QuotedTypeConforms
CHECK_DEADLOCK FALSE
