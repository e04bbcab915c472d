SPECIFICATION Spec
CONSTANTS
    None = None
    Expression = Expression
    Word = Word
    Letters <- NoLetters
    Names <- MCNames
    Types <- MCTypes
    Tokens <- MCTokens
    Sizes <- MCSizes
    RelationNames <- MCRelations
    ColumnNames <- MCColumns
    ColumnShapes <- NumberShapes
    InitialContracts <- OneContract
    InitialCatalogues <- EmptyOrLinked
    TableKinds <- PlainTables
    IndexTails <- NoTail
    MayShrink = TRUE
    MayGenerate = TRUE
    MaxWeight = 2
INVARIANTS GeneratedContractExact PassIsCompatible
PROPERTY RoundTripClean
CHECK_DEADLOCK FALSE
