------------------------------- MODULE Server -------------------------------
(***************************************************************************)
(* The server of the Data Gate: directories of its working tree are        *)
(* verified with the package of that same tree (pip install -e) while      *)
(* deployments reset it to new commits.                                    *)
(***************************************************************************)
EXTENDS DirectoryRun

CONSTANTS
    Package,        \* the file that stands for the package
    Deployments,    \* runs of deploy.sh
    MayInterrupt,   \* whether they may be cut off
    MayFail,        \* stages of theirs whose command may fail by itself
    Mixed,          \* requirements of no one commit
    MaxPushes,      \* bound: pushes to main
    MaxBegun        \* bound: deployments and invocations begun, together

ASSUME ServerAssumption ==
    /\ Package \in Files
    /\ Versions \subseteq Nat
    /\ MaxPushes \in Nat /\ MaxBegun \in Nat
    /\ None \notin Deployments
    /\ Mixed # None /\ Mixed \notin Versions
    /\ MayFail \subseteq {"fetch", "reset", "checkout", "create", "populate", "pip",
                          "install", "smoke"}

VARIABLES origin, pushes, ref, todo, lock, venv, installed, stage, target, latest, alone, left,
          versions,   \* auxiliary: the versions the present results come from
          overlapped  \* auxiliary: a deployment was under way during this invocation

Deployment == INSTANCE Deploy

deployed   == <<origin, pushes, ref, todo, lock, venv, installed, stage, target, latest, alone, left>>
running    == <<db, moves, round, pc, mode, found, loaded, results, report, page, exit,
                raised>>
serverVars == <<vars, deployed, versions, overlapped>>

ServerInit == Init /\ Deployment!Init /\ versions = {} /\ overlapped = FALSE

Deploying == Deployment!UnderWay # {}

Begun == round + Cardinality({d \in Deployments : stage[d] # "idle"})

\* A deployment takes a step; what it writes is read by the next access.
DeployStep ==
    /\ Deployment!Next
    /\ quiet' = (quiet /\ tree' = tree)
    /\ overlapped' = (overlapped \/ (pc # "idle" /\ Deploying'))
    /\ UNCHANGED <<running, versions>>
    /\ Begun' <= MaxBegun

\* .venv/bin/datagate starts the package of the working tree, which fails only
\* if that is not the one whose requirements are installed.
BeginRun ==
    /\ Begun < MaxBegun
    /\ installed # None
    /\ Start \/ (~Deployment!Consistent /\ StartFails)
    /\ versions' = {}
    /\ overlapped' = Deploying
    /\ UNCHANGED deployed

RunStep ==
    /\ Step
    /\ versions' = IF pc = "read" THEN versions \cup {tree[Current]} ELSE versions
    /\ UNCHANGED <<deployed, overlapped>>

Elsewhere ==
    /\ MoveDb \/ Kill \/ Render
    /\ UNCHANGED <<deployed, versions, overlapped>>

ServerNext == DeployStep \/ BeginRun \/ RunStep \/ Elsewhere

ServerSpec == ServerInit /\ [][ServerNext]_serverVars

-----------------------------------------------------------------------------
\* All contracts of a run that no deployment overlaps with come from one commit,
\* unless the last reset to lock the index before it was cut off or failed
\* (deploy.sh:20, verifier.py:115).
JudgedOneCommit ==
    pc # "idle" =>
        \/ \E v \in Versions : versions \subseteq {v}
        \/ overlapped
        \/ "checkout" \in left

\* A verification fails to start only while a deployment is under way or after
\* one that was cut off, disturbed or failed (deploy.sh:20-30).
StartsBetweenDeployments ==
    [][round' # round /\ pc' = "idle" =>
          \E d \in Deployments : stage[d] \notin {"idle", "succeeded"} \/ ~alone[d]]_serverVars

DeployedIsCurrent == Deployment!DeployedIsCurrent
NeverBackwards    == Deployment!NeverBackwards
RepeatSucceeds    == Deployment!RepeatSucceeds
OneCommit         == Deployment!OneCommit

OnlyLeftoversBlock == Deployment!OnlyLeftoversBlock

\* With deployments as the editors of its tree, the server verifies
\* directories the way DirectoryRun says.
VerifiesDirectories == Spec
=============================================================================
