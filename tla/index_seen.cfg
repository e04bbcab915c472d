SPECIFICATION Spec
CONSTANTS
    None = None
    Expression = Expression
    Word = Word
    Letters <- NoLetters
    Names <- MCNames
    Types <- MCTypes
    Tokens <- MCTokens
    Sizes <- MCSizes
    RelationNames <- MCRelations
    ColumnNames <- MCColumns
    ColumnShapes <- TwoShapes
    InitialContracts <- IndexOnly
    InitialCatalogues <- EmptyDatabase
    TableKinds <- AnyKind
    IndexTails <- AnyTail
    MayShrink = FALSE
    MayGenerate = FALSE
    MaxWeight = 6
INVARIANT IndexReportedIffMissing
CHECK_DEADLOCK FALSE
