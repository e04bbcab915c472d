SPECIFICATION ServerSpec
CONSTANTS
    None = None
    Mixed = Mixed
    Files <- MCFiles
    Package <- MCPackage
    Paths <- MCPaths
    Versions <- MCVersions
    Commits <- MCCommits
    States <- MCStates
    Judgement <- MCJudgement
    MayRaise <- Nothing
    Modes <- BothModes
    Faults <- AllFaults
    Deployments = {d1, d2}
    MayInterrupt = FALSE
    MayFail <- VenvOnly
    MaxRounds = 2
    MaxMoves = 1
    MaxPushes = 1
    MaxBegun = 2
INVARIANT RepeatSucceeds
CHECK_DEADLOCK FALSE
