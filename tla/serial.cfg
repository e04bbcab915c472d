SPECIFICATION Spec
CONSTANTS
    None = None
    Expression = Expression
    Names <- MCNames
    Types <- MCTypes
    Tokens <- MCTokens
    Sizes <- MCSizes
    RelationNames <- MCRelations
    ColumnNames <- MCColumns
    ColumnShapes <- OneShape
    Runs = {r1, r2}
    Modes <- BothModes
    Catalogues <- Near
    InitialCatalogues <- Seeds
    Migrations <- Still
    Files <- AnyFile
    MayEdit = TRUE
    Faults <- AllFaults
    MayRaise <- NoRaise
    MaxActive = 1
    MaxMigrations = 2
INVARIANT OnlyLoadingRaises
PROPERTY ExitMatchesArtifact
CHECK_DEADLOCK FALSE
