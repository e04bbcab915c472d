SPECIFICATION ServerSpec
CONSTANTS
    None = None
    Mixed = Mixed
    Files <- ThreeFiles
    Package <- MCPackage
    Paths <- ThreePaths
    Versions = {1}
    Commits <- BetweenTwo
    States <- MCStates
    Judgement <- MCJudgement
    MayRaise <- Nothing
    Modes <- VerifyOnly
    Faults <- NoFaults
    Deployments = {}
    MayInterrupt = FALSE
    MayFail <- Nothing
    MaxRounds = 1
    MaxMoves = 0
    MaxPushes = 0
    MaxBegun = 1
INVARIANT EachContractReported
CHECK_DEADLOCK FALSE
