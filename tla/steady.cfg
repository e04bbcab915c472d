SPECIFICATION Spec
CONSTANTS
    None = None
    Expression = Expression
    Names <- MCNames
    Types <- MCTypes
    Tokens <- MCTokens
    Sizes <- MCSizes
    RelationNames <- MCRelations
    ColumnNames <- MCColumns
    ColumnShapes <- OneShape
    Runs = {r1}
    Modes <- VerifyOnly
    Catalogues <- Near
    InitialCatalogues <- Seeds
    Migrations <- AnyChange
    Files <- GoodFiles
    MayEdit = FALSE
    Faults <- LiveFaults
    MayRaise <- SomeRaise
    MaxActive = 1
    MaxMigrations = 2
INVARIANTS TypeOK SteadyVerdict OrderedVerdict SessionDiscipline
CHECK_DEADLOCK FALSE
