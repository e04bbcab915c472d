SPECIFICATION Spec
CONSTANTS
    None = None
    Expression = Expression
    Names <- MCNames
    Types <- MCTypes
    Tokens <- MCTokens
    Sizes <- MCSizes
    RelationNames <- MCRelations
    ColumnNames <- MCColumns
    ColumnShapes <- OneShape
    Runs = {r1}
    Modes <- VerifyOnly
    Catalogues <- Near
    InitialCatalogues <- Seeds
    Migrations <- AnyChange
    Files <- PairFile
    MayEdit = FALSE
    Faults <- NoFaults
    MayRaise <- NoRaise
    MaxActive = 1
    MaxMigrations = 2
INVARIANT PassWasTrueOnce
CHECK_DEADLOCK FALSE
