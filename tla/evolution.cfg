SPECIFICATION Spec
CONSTANTS
    None = None
    Expression = Expression
    Word = Word
    Letters <- NoLetters
    Names <- MCNames
    Types <- MCTypes
    Tokens <- MCTokens
    Sizes <- MCSizes
    RelationNames <- MCRelations
    ColumnNames <- MCColumns
    ColumnShapes <- TwoShapes
    InitialContracts <- AllContracts
    InitialCatalogues <- EmptyDatabase
    TableKinds <- TablesAndViews
    IndexTails <- NoTail
    MayShrink = TRUE
    MayGenerate = FALSE
    MaxWeight = 5
INVARIANTS TypeOK PassIffConforms MissingTableReportedOnce IndexReportedIffMissing
PROPERTIES AdditionsKeepPass
CHECK_DEADLOCK FALSE
