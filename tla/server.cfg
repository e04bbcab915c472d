SPECIFICATION ServerSpec
CONSTANTS
    None = None
    Mixed = Mixed
    Files <- MCFiles
    Package <- MCPackage
    Paths <- MCPaths
    Versions <- MCVersions
    Commits <- MCCommits
    States <- MCStates
    Judgement <- MCJudgement
    MayRaise <- DriftRaises
    Modes <- BothModes
    Faults <- AllFaults
    Deployments = {d1, d2}
    MayInterrupt = TRUE
    MayFail <- AnyCommand
    MaxRounds = 2
    MaxMoves = 1
    MaxPushes = 1
    MaxBegun = 2
INVARIANTS TypeOK QuietVerdict ScoreAgreesWithStatus JudgedOneCommit OneCommit 
PROPERTIES PassHasReport PageTellsExit StartsBetweenDeployments DeployedIsCurrent NeverBackwards
SYMMETRY AnyOrder
CHECK_DEADLOCK FALSE
