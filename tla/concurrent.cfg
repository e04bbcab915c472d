SPECIFICATION FairSpec
CONSTANTS
    None = None
    Expression = Expression
    Names <- MCNames
    Types <- MCTypes
    Tokens <- MCTokens
    Sizes <- MCSizes
    RelationNames <- MCRelations
    ColumnNames <- MCColumns
    ColumnShapes <- OneShape
    Runs = {r1, r2}
    Modes <- BothModes
    Catalogues <- Near
    InitialCatalogues <- OnlyUsers
    Migrations <- Still
    Files <- AnyFile
    MayEdit = FALSE
    Faults <- AllFaults
    MayRaise <- NoRaise
    MaxActive = 2
    MaxMigrations = 2
PROPERTIES EndsOrWaits ImplementsGate
CHECK_DEADLOCK FALSE
