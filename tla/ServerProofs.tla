---------------------------- MODULE ServerProofs ----------------------------
(***************************************************************************)
(* The server implements DirectoryRun: what is proved of the invocations   *)
(* there holds for those between and during deployments.                   *)
(***************************************************************************)
EXTENDS Server, DirectoryProofs

Stages == {"idle", "fetch", "reset", "lock", "checkout", "venv", "create", "populate",
           "activate", "pip", "install", "smoke", "succeeded", "failed", "broken",
           "interrupted"}

\* The strengthening: what a deployment checks out is a commit.
CommitsOnly ==
    /\ tree \in [Files -> Versions]
    /\ todo \in [Deployments -> SUBSET Files]
    /\ origin \in Versions /\ ref \in Versions
    /\ stage \in [Deployments -> Stages]
    /\ DOMAIN target = Deployments
    /\ \A d \in Deployments : stage[d] \in {"lock", "checkout"} => target[d] \in Versions

USE DEF Deployment!repository, Deployment!server, Deployment!Goto

-----------------------------------------------------------------------------
\* Only deployments change the tree and what belongs to them.
LEMMA OthersLeaveDeployed ==
    ASSUME [ServerNext]_serverVars
    PROVE  DeployStep \/ UNCHANGED <<tree, deployed>>
  <1>1. BeginRun => UNCHANGED <<tree, deployed>>
    BY DEF outside, deployed, BeginRun, Start, StartFails, Begin
  <1>2. RunStep => UNCHANGED <<tree, deployed>>
    BY DEF outside, deployed, RunStep, Step, ListContracts, Locate, ReadContract, RejectContract, CrashOnContract,
       Judge, SessionFails, OpenReport, WriteReport, WriteFails, Finish
  <1>3. Elsewhere => UNCHANGED <<tree, deployed>>
    BY DEF outside, deployed, Elsewhere, MoveDb, Kill, Render
  <1> QED
    BY <1>1, <1>2, <1>3 DEF ServerNext, serverVars, vars

\* A deployment that stops, cut off or because a command of it fails, leaves the
\* files as they are and tells what it leaves unfinished.
Stopped(d) ==
    /\ d \in Deployment!UnderWay
    /\ \E s \in {"interrupted", "broken"} :
          /\ stage' = [stage EXCEPT ![d] = s]
          /\ lock' = d => s = "interrupted"
    /\ lock' \in {lock, None} /\ (lock # d => lock' = lock)
    /\ todo' = [todo EXCEPT ![d] = {}]
    /\ installed' \in {installed, Mixed}
    /\ left \subseteq left'
    /\ stage[d] = "checkout" => "checkout" \in left'
    /\ stage[d] = "populate" => "populate" \in left'
    /\ UNCHANGED <<origin, pushes, ref, tree, venv, target, latest, alone>>

LEMMA StopsAreStopped ==
    ASSUME NEW d \in Deployments, Deployment!Interrupt(d) \/ Deployment!Fails(d)
    PROVE  Stopped(d)
  <1> USE ServerAssumption DEF Deployment!Stop, Stopped
  <1>1. CASE Deployment!Interrupt(d)
    BY <1>1 DEF Deployment!Interrupt
  <1>2. CASE Deployment!Fails(d)
    <2>1. d \in Deployment!UnderWay
      BY <1>2 DEF Deployment!Fails, Deployment!UnderWay, Deployment!Ended
    <2> QED
      BY <1>2, <2>1 DEF Deployment!Fails
  <1> QED
    BY <1>1, <1>2

LEMMA DeployStepCases ==
    ASSUME DeployStep
    PROVE  \/ Deployment!Push
           \/ \E d \in Deployments : Deployment!Step(d) \/ Stopped(d)
  BY StopsAreStopped DEF DeployStep, Deployment!Next

\* A step of a deployment keeps what it checks out a commit.
LEMMA StepKeepsCommits ==
    ASSUME CommitsOnly, NEW d \in Deployments, Deployment!Step(d)
    PROVE  CommitsOnly'
  <1> USE DEF CommitsOnly, Stages
  <1>1. CASE Deployment!Start(d)
    BY <1>1 DEF Deployment!Start
  <1>2. CASE Deployment!Fetch(d)
    BY <1>2 DEF Deployment!Fetch
  <1>3. CASE Deployment!Resolve(d)
    BY <1>3 DEF Deployment!Resolve
  <1>4. CASE Deployment!Lock(d)
    BY <1>4 DEF Deployment!Lock, Deployment!Mark
  <1>5. CASE Deployment!Checkout(d)
    BY <1>5 DEF Deployment!Checkout
  <1>6. CASE Deployment!EndReset(d)
    BY <1>6 DEF Deployment!EndReset
  <1>7. CASE Deployment!LookForVenv(d)
    BY <1>7 DEF Deployment!LookForVenv
  <1>8. CASE Deployment!MakeDirectory(d)
    BY <1>8 DEF Deployment!MakeDirectory
  <1>9. CASE Deployment!Populate(d)
    BY <1>9 DEF Deployment!Populate
  <1>10. CASE Deployment!Activate(d)
    BY <1>10 DEF Deployment!Activate
  <1>11. CASE Deployment!PipReads(d)
    BY <1>11 DEF Deployment!PipReads
  <1>12. CASE Deployment!PipInstalls(d)
    BY <1>12 DEF Deployment!PipInstalls
  <1>13. CASE Deployment!Smoke(d)
    BY <1>13 DEF Deployment!Smoke
  <1> QED
    BY <1>1, <1>2, <1>3, <1>4, <1>5, <1>6, <1>7, <1>8, <1>9, <1>10, <1>11, <1>12, <1>13
       DEF Deployment!Step

\* ... and so does every step of the server.
LEMMA CommitsOnlyHolds == ServerSpec => []CommitsOnly
  <1> USE DEF CommitsOnly, Stages
  <1>1. ServerInit => CommitsOnly
    BY DEF ServerInit, Deployment!Init
  <1>2. ASSUME CommitsOnly, [ServerNext]_serverVars
        PROVE  CommitsOnly'
    <2>1. CASE Deployment!Push
      BY <1>2, <2>1 DEF Deployment!Push
    <2>2. ASSUME NEW d \in Deployments, Deployment!Step(d)
          PROVE  CommitsOnly'
      <3> HIDE DEF CommitsOnly
      <3> QED
        BY <1>2, <2>2, StepKeepsCommits
    <2>3. ASSUME NEW d \in Deployments, Stopped(d)
          PROVE  CommitsOnly'
      BY <1>2, <2>3 DEF Stopped
    <2>4. CASE UNCHANGED <<tree, deployed>>
      BY <1>2, <2>4 DEF deployed
    <2>5. CASE DeployStep
      BY <2>1, <2>2, <2>3, <2>5, DeployStepCases
    <2> QED
      BY <1>2, <2>4, <2>5, OthersLeaveDeployed
  <1> QED
    BY <1>1, <1>2, PTL DEF ServerSpec

-----------------------------------------------------------------------------
(* The refinement *)

QuietKnown == quiet \in BOOLEAN

LEMMA QuietIsKnown == ServerSpec => []QuietKnown
  <1>1. ServerInit => QuietKnown
    BY DEF ServerInit, Init, QuietKnown
  <1>2. QuietKnown /\ [ServerNext]_serverVars => QuietKnown'
    <2> SUFFICES ASSUME quiet \in BOOLEAN, [ServerNext]_serverVars
                 PROVE  quiet' \in BOOLEAN
      BY DEF QuietKnown
    <2>1. CASE DeployStep
      BY <2>1, Zenon DEF DeployStep
    <2>2. CASE BeginRun
      BY <2>2, Zenon DEF BeginRun, Start, StartFails, Begin
    <2>3. CASE RunStep
      BY <2>3, Zenon DEF RunStep, Step, ListContracts, Locate, ReadContract, RejectContract,
         CrashOnContract, Judge, SessionFails, OpenReport, WriteReport, WriteFails, Finish
    <2>4. CASE Elsewhere
      BY <2>4, Zenon DEF Elsewhere, MoveDb, Kill, Render
    <2>5. CASE UNCHANGED serverVars
      BY <2>5, Zenon DEF serverVars, vars
    <2> QED
      BY <2>1, <2>2, <2>3, <2>4, <2>5 DEF ServerNext
  <1> QED
    BY <1>1, <1>2, PTL DEF ServerSpec

\* A deployment changes one file of the tree or none.
LEMMA DeploymentEdits ==
    ASSUME CommitsOnly, QuietKnown, DeployStep
    PROVE  EditTree \/ UNCHANGED vars
  <1>1. CASE UNCHANGED tree
    <2>1. quiet' = quiet
      BY <1>1, Zenon DEF QuietKnown, DeployStep
    <2> QED
      BY <1>1, <2>1 DEF DeployStep, running, vars
  <1>2. CASE ~UNCHANGED tree
    <2>1. PICK d \in Deployments : Deployment!Checkout(d)
      BY <1>2, DeployStepCases DEF Stopped, Deployment!Push,
         Deployment!Step, Deployment!Start, Deployment!Fetch, Deployment!Resolve,
         Deployment!Lock, Deployment!EndReset, Deployment!LookForVenv,
         Deployment!MakeDirectory, Deployment!Populate, Deployment!Activate,
         Deployment!PipReads, Deployment!PipInstalls, Deployment!Smoke
    <2>2. stage[d] = "checkout"
      BY <2>1 DEF Deployment!Checkout
    <2>3. \E f \in Files : \E v \in Versions \ {tree[f]} : tree' = [tree EXCEPT ![f] = v]
      <3>1. PICK f \in todo[d] : tree' = [tree EXCEPT ![f] = target[d]]
        BY <2>1 DEF Deployment!Checkout
      <3>2. f \in Files /\ target[d] \in Versions /\ tree \in [Files -> Versions]
        BY <2>2, <3>1 DEF CommitsOnly
      <3>3. CASE target[d] = tree[f]
        <4>1. tree' = tree
          BY <3>1, <3>2, <3>3
        <4> QED
          BY <1>2, <4>1
      <3>4. CASE target[d] # tree[f]
        BY <3>1, <3>2, <3>4
      <3> QED
        BY <3>3, <3>4
    <2>4. quiet' = FALSE
      BY <1>2, Zenon DEF DeployStep
    <2> QED
      BY <2>3, <2>4 DEF DeployStep, running, EditTree
  <1> QED
    BY <1>1, <1>2

\* With deployments as the editors of its tree, the server verifies directories
\* as DirectoryRun says (deploy.sh:21, verifier.py:91-121).
THEOREM ServerRefines == ServerSpec => VerifiesDirectories
  <1>1. ServerInit => Init
    BY DEF ServerInit
  <1>2. CommitsOnly /\ QuietKnown /\ [ServerNext]_serverVars => [Next]_vars
    <2>1. ASSUME CommitsOnly, QuietKnown, DeployStep
          PROVE  [Next]_vars
      BY <2>1, DeploymentEdits DEF Next
    <2>2. BeginRun => Next
      BY DEF BeginRun, Next
    <2>3. RunStep => Next
      BY DEF RunStep, Next
    <2>4. Elsewhere => Next
      BY DEF Elsewhere, Next
    <2>5. UNCHANGED serverVars => UNCHANGED vars
      BY DEF serverVars
    <2> QED
      BY <2>1, <2>2, <2>3, <2>4, <2>5 DEF ServerNext
  <1> QED
    BY <1>1, <1>2, CommitsOnlyHolds, QuietIsKnown, PTL DEF ServerSpec, VerifiesDirectories, Spec

\* Hence, on the server, the exit code of an invocation during which neither a
\* deployment replaced a file nor the database changed tells what the directory
\* is (verifier.py:103, deploy.sh:21).
THEOREM ServerQuietVerdicts == ServerSpec => []QuietVerdict
  BY ServerRefines, QuietVerdicts DEF VerifiesDirectories

\* ... nor does what exit code 0 comes with (cli.py:213-238, deploy.sh:21).
THEOREM ServerPassesHaveReport == ServerSpec => PassHasReport
  BY ServerRefines, PassesHaveReport DEF VerifiesDirectories

-----------------------------------------------------------------------------
(* Deployments, alone and overlapping *)

Whole(v) == tree = [f \in Files |-> v]

\* The types of what deployments change, and who holds the lock.
DeploymentTypes ==
    /\ DOMAIN latest = Deployments
    /\ lock \in Deployments \cup {None}
    /\ \A d \in Deployments : /\ stage[d] = "checkout" => lock = d
                              /\ lock = d => stage[d] \in {"checkout", "interrupted"}

\* What a reset has not marked, or has replaced, is of its commit.
Marked ==
    \A d \in Deployments : stage[d] = "checkout" =>
        \A f \in Files \ todo[d] : tree[f] = target[d]

\* Who is alone is alone.
AloneMeans == \A d \in Deployment!UnderWay : alone[d] => Deployment!UnderWay = {d}

\* Nothing on the server is ahead of what its clone has fetched.
Fetched(v) == v \in Versions /\ v <= ref

NothingAhead ==
    /\ ref <= origin
    /\ \A f \in Files : Fetched(tree[f])
    /\ installed \notin {None, Mixed} => Fetched(installed)
    /\ \A d \in Deployments :
          stage[d] \in {"lock", "checkout", "install"} => Fetched(target[d])

\* How far an undisturbed deployment has brought the server.
Underfoot(d) ==
    /\ stage[d] # "fetch" => latest[d] = ref
    /\ stage[d] \in {"lock", "checkout", "install"} => target[d] = ref
    /\ stage[d] \in {"venv", "create", "populate", "activate", "pip", "install", "smoke"} =>
          Whole(ref)
    /\ stage[d] \in {"pip", "install", "smoke"} => venv = "ready"
    /\ stage[d] = "smoke" => installed = ref

AloneKnows == \A d \in Deployment!UnderWay : alone[d] => Underfoot(d)

\* What is installed fits the package wherever undisturbed deployments have not
\* begun to replace either, or have replaced both.
Fitting == {"idle", "fetch", "reset", "lock", "smoke", "succeeded"}

Settled ==
    (\A d \in Deployments : alone[d] /\ stage[d] \in Fitting) =>
        installed = None \/ Deployment!Consistent

-----------------------------------------------------------------------------
\* The lock is held by the deployment that replaces the files, and only by it.
LEMMA StepKeepsTypes ==
    ASSUME CommitsOnly, DeploymentTypes, NEW d \in Deployments, Deployment!Step(d)
    PROVE  DeploymentTypes'
  <1> USE ServerAssumption DEF CommitsOnly, DeploymentTypes, Stages
  <1>1. CASE Deployment!Start(d)
    BY <1>1 DEF Deployment!Start
  <1>2. CASE Deployment!Fetch(d)
    BY <1>2 DEF Deployment!Fetch
  <1>3. CASE Deployment!Resolve(d)
    BY <1>3 DEF Deployment!Resolve
  <1>4. CASE Deployment!Lock(d)
    BY <1>4 DEF Deployment!Lock, Deployment!Mark
  <1>5. CASE Deployment!Checkout(d)
    BY <1>5 DEF Deployment!Checkout
  <1>6. CASE Deployment!EndReset(d)
    BY <1>6 DEF Deployment!EndReset
  <1>7. CASE Deployment!LookForVenv(d)
    BY <1>7 DEF Deployment!LookForVenv
  <1>8. CASE Deployment!MakeDirectory(d)
    BY <1>8 DEF Deployment!MakeDirectory
  <1>9. CASE Deployment!Populate(d)
    BY <1>9 DEF Deployment!Populate
  <1>10. CASE Deployment!Activate(d)
    BY <1>10 DEF Deployment!Activate
  <1>11. CASE Deployment!PipReads(d)
    BY <1>11 DEF Deployment!PipReads
  <1>12. CASE Deployment!PipInstalls(d)
    BY <1>12 DEF Deployment!PipInstalls
  <1>13. CASE Deployment!Smoke(d)
    BY <1>13 DEF Deployment!Smoke
  <1> QED
    BY <1>1, <1>2, <1>3, <1>4, <1>5, <1>6, <1>7, <1>8, <1>9, <1>10, <1>11, <1>12, <1>13
       DEF Deployment!Step

\* Two resets never mark or replace files at the same time.
LEMMA StepKeepsMarked ==
    ASSUME CommitsOnly, DeploymentTypes, Marked, NEW d \in Deployments, Deployment!Step(d)
    PROVE  Marked'
  <1> USE ServerAssumption DEF CommitsOnly, DeploymentTypes, Marked, Stages
  <1>1. CASE Deployment!Start(d)
    BY <1>1 DEF Deployment!Start
  <1>2. CASE Deployment!Fetch(d)
    BY <1>2 DEF Deployment!Fetch
  <1>3. CASE Deployment!Resolve(d)
    BY <1>3 DEF Deployment!Resolve
  <1>4. CASE Deployment!Lock(d)
    BY <1>4 DEF Deployment!Lock, Deployment!Mark
  <1>5. CASE Deployment!Checkout(d)
    <2>1. /\ stage[d] = "checkout" /\ stage' = stage /\ target' = target
          /\ \A e \in Deployments : stage[e] = "checkout" => e = d
      BY <1>5 DEF Deployment!Checkout
    <2>2. PICK f \in todo[d] : /\ tree' = [tree EXCEPT ![f] = target[d]]
                              /\ todo' = [todo EXCEPT ![d] = @ \ {f}]
      BY <1>5 DEF Deployment!Checkout
    <2>3. ASSUME NEW g \in Files \ todo'[d]
          PROVE  tree'[g] = target[d]
      <3>1. todo'[d] = todo[d] \ {f}
        BY <2>2
      <3>2. g = f \/ g \notin todo[d]
        BY <2>3, <3>1
      <3> QED
        BY <2>1, <2>2, <2>3, <3>2
    <2> QED
      BY <2>1, <2>3
  <1>6. CASE Deployment!EndReset(d)
    BY <1>6 DEF Deployment!EndReset
  <1>7. CASE Deployment!LookForVenv(d)
    BY <1>7 DEF Deployment!LookForVenv
  <1>8. CASE Deployment!MakeDirectory(d)
    BY <1>8 DEF Deployment!MakeDirectory
  <1>9. CASE Deployment!Populate(d)
    BY <1>9 DEF Deployment!Populate
  <1>10. CASE Deployment!Activate(d)
    BY <1>10 DEF Deployment!Activate
  <1>11. CASE Deployment!PipReads(d)
    BY <1>11 DEF Deployment!PipReads
  <1>12. CASE Deployment!PipInstalls(d)
    BY <1>12 DEF Deployment!PipInstalls
  <1>13. CASE Deployment!Smoke(d)
    BY <1>13 DEF Deployment!Smoke
  <1> QED
    BY <1>1, <1>2, <1>3, <1>4, <1>5, <1>6, <1>7, <1>8, <1>9, <1>10, <1>11, <1>12, <1>13
       DEF Deployment!Step

\* A mixed tree is a locked one, or one that a reset was cut off or failed in.
LEMMA StepKeepsOneCommit ==
    ASSUME CommitsOnly, DeploymentTypes, Marked, OneCommit,
           NEW d \in Deployments, Deployment!Step(d)
    PROVE  OneCommit'
  <1> USE ServerAssumption DEF CommitsOnly, DeploymentTypes, Marked, OneCommit, Deployment!OneCommit
  <1>1. CASE Deployment!Start(d)
    BY <1>1 DEF Deployment!Start
  <1>2. CASE Deployment!Fetch(d)
    BY <1>2 DEF Deployment!Fetch
  <1>3. CASE Deployment!Resolve(d)
    BY <1>3 DEF Deployment!Resolve
  <1>4. CASE Deployment!Lock(d)
    BY <1>4 DEF Deployment!Lock, Deployment!Mark
  <1>5. CASE Deployment!Checkout(d)
    BY <1>5 DEF Deployment!Checkout
  <1>6. CASE Deployment!EndReset(d)
    <2>1. todo[d] = {} /\ stage[d] = "checkout" /\ tree' = tree
      BY <1>6 DEF Deployment!EndReset
    <2>2. \A f \in Files : tree[f] = target[d]
      BY <2>1
    <2>3. tree = [f \in Files |-> target[d]] /\ target[d] \in Versions
      BY <2>1, <2>2
    <2> QED
      BY <2>1, <2>3
  <1>7. CASE Deployment!LookForVenv(d)
    BY <1>7 DEF Deployment!LookForVenv
  <1>8. CASE Deployment!MakeDirectory(d)
    BY <1>8 DEF Deployment!MakeDirectory
  <1>9. CASE Deployment!Populate(d)
    BY <1>9 DEF Deployment!Populate
  <1>10. CASE Deployment!Activate(d)
    BY <1>10 DEF Deployment!Activate
  <1>11. CASE Deployment!PipReads(d)
    BY <1>11 DEF Deployment!PipReads
  <1>12. CASE Deployment!PipInstalls(d)
    BY <1>12 DEF Deployment!PipInstalls
  <1>13. CASE Deployment!Smoke(d)
    BY <1>13 DEF Deployment!Smoke
  <1> QED
    BY <1>1, <1>2, <1>3, <1>4, <1>5, <1>6, <1>7, <1>8, <1>9, <1>10, <1>11, <1>12, <1>13
       DEF Deployment!Step

\* A deployment overlaps with those under way when it starts.
LEMMA StepKeepsAlone ==
    ASSUME CommitsOnly, AloneMeans, NEW d \in Deployments, Deployment!Step(d)
    PROVE  /\ AloneMeans'
           /\ \A e \in Deployments : alone'[e] => alone[e]
           /\ \A e \in Deployments \ {d} : stage'[e] = stage[e]
           /\ stage[d] = "idle" => Deployment!Start(d)
           /\ stage[d] \in {"idle"} \/ d \in Deployment!UnderWay
  <1> USE DEF CommitsOnly, AloneMeans, Stages, Deployment!UnderWay, Deployment!Ended
  <1>1. CASE Deployment!Start(d)
    BY <1>1 DEF Deployment!Start
  <1>2. CASE Deployment!Fetch(d)
    BY <1>2 DEF Deployment!Fetch
  <1>3. CASE Deployment!Resolve(d)
    BY <1>3 DEF Deployment!Resolve
  <1>4. CASE Deployment!Lock(d)
    BY <1>4 DEF Deployment!Lock, Deployment!Mark
  <1>5. CASE Deployment!Checkout(d)
    BY <1>5 DEF Deployment!Checkout
  <1>6. CASE Deployment!EndReset(d)
    BY <1>6 DEF Deployment!EndReset
  <1>7. CASE Deployment!LookForVenv(d)
    BY <1>7 DEF Deployment!LookForVenv
  <1>8. CASE Deployment!MakeDirectory(d)
    BY <1>8 DEF Deployment!MakeDirectory
  <1>9. CASE Deployment!Populate(d)
    BY <1>9 DEF Deployment!Populate
  <1>10. CASE Deployment!Activate(d)
    BY <1>10 DEF Deployment!Activate
  <1>11. CASE Deployment!PipReads(d)
    BY <1>11 DEF Deployment!PipReads
  <1>12. CASE Deployment!PipInstalls(d)
    BY <1>12 DEF Deployment!PipInstalls
  <1>13. CASE Deployment!Smoke(d)
    BY <1>13 DEF Deployment!Smoke
  <1> QED
    BY <1>1, <1>2, <1>3, <1>4, <1>5, <1>6, <1>7, <1>8, <1>9, <1>10, <1>11, <1>12, <1>13
       DEF Deployment!Step

LEMMA StepKeepsBehind ==
    ASSUME CommitsOnly, TypeOK, NothingAhead, NEW d \in Deployments, Deployment!Step(d)
    PROVE  NothingAhead'
  <1>0. /\ Versions \subseteq Nat /\ None \notin Versions /\ Mixed \notin Versions /\ Package \in Files
        /\ tree \in [Files -> Versions]
        /\ ref \in Versions /\ origin \in Versions
        /\ stage \in [Deployments -> Stages]
    BY ServerAssumption, DirectoryAssumption DEF CommitsOnly, TypeOK
  <1> USE <1>0 DEF CommitsOnly, NothingAhead, Fetched
  <1>1. CASE Deployment!Start(d)
    BY <1>1 DEF Deployment!Start
  <1>2. CASE Deployment!Fetch(d)
    <2>1. ref' = origin /\ UNCHANGED <<origin, tree, installed, target>>
      BY <1>2 DEF Deployment!Fetch
    <2>2. \A v \in Versions : v <= ref => v <= ref'
      BY <2>1
    <2>3. \A e \in Deployments : stage'[e] \in {"lock", "checkout", "install"} => stage[e] = stage'[e]
      BY <1>2 DEF Deployment!Fetch
    <2>4. ref' <= origin'
      BY <2>1
    <2> QED
      BY <2>1, <2>2, <2>3, <2>4
  <1>3. CASE Deployment!Resolve(d)
    BY <1>3 DEF Deployment!Resolve
  <1>4. CASE Deployment!Lock(d)
    BY <1>4 DEF Deployment!Lock, Deployment!Mark
  <1>5. CASE Deployment!Checkout(d)
    BY <1>5 DEF Deployment!Checkout
  <1>6. CASE Deployment!EndReset(d)
    BY <1>6 DEF Deployment!EndReset
  <1>7. CASE Deployment!LookForVenv(d)
    BY <1>7 DEF Deployment!LookForVenv
  <1>8. CASE Deployment!MakeDirectory(d)
    BY <1>8 DEF Deployment!MakeDirectory
  <1>9. CASE Deployment!Populate(d)
    BY <1>9 DEF Deployment!Populate
  <1>10. CASE Deployment!Activate(d)
    BY <1>10 DEF Deployment!Activate
  <1>11. CASE Deployment!PipReads(d)
    BY <1>11 DEF Deployment!PipReads
  <1>12. CASE Deployment!PipInstalls(d)
    BY <1>12 DEF Deployment!PipInstalls
  <1>13. CASE Deployment!Smoke(d)
    BY <1>13 DEF Deployment!Smoke
  <1> HIDE DEF CommitsOnly, NothingAhead, Fetched
  <1> QED
    BY <1>1, <1>2, <1>3, <1>4, <1>5, <1>6, <1>7, <1>8, <1>9, <1>10, <1>11, <1>12, <1>13
       DEF Deployment!Step

\* An undisturbed deployment is the only one that moves, and what it relies on
\* stays under its feet.
LEMMA StepKeepsKnowing ==
    ASSUME CommitsOnly, DeploymentTypes, Marked, TypeOK, AloneMeans, AloneKnows,
           NEW d \in Deployments, Deployment!Step(d)
    PROVE  AloneKnows'
  <1>1. /\ AloneMeans'
        /\ \A e \in Deployments : alone'[e] => alone[e]
        /\ \A e \in Deployments \ {d} : stage'[e] = stage[e]
        /\ stage[d] = "idle" => Deployment!Start(d)
        /\ stage[d] = "idle" \/ d \in Deployment!UnderWay
    BY StepKeepsAlone
  <1>2. SUFFICES ASSUME NEW e \in Deployment!UnderWay', alone'[e]
                 PROVE  Underfoot(e)'
    BY DEF AloneKnows
  <1>3. e = d
    <2>1. e \in Deployments /\ stage'[e] \notin Deployment!Ended
      BY DEF Deployment!UnderWay
    <2>2. SUFFICES ASSUME e # d
                   PROVE  FALSE
      OBVIOUS
    <2>3. e \in Deployment!UnderWay /\ Deployment!UnderWay = {e}
      BY <1>1, <1>2, <2>1, <2>2 DEF AloneMeans, Deployment!UnderWay
    <2>4. Deployment!Start(d)
      BY <1>1, <2>2, <2>3
    <2>5. d \in Deployment!UnderWay'
      BY <2>4 DEF Deployment!Start, Deployment!UnderWay, Deployment!Ended, CommitsOnly
    <2>6. Deployment!UnderWay' = {e}
      BY <1>1, <1>2 DEF AloneMeans
    <2> QED
      BY <2>2, <2>5, <2>6
  <1>4. d \in Deployment!UnderWay => Underfoot(d)
    BY <1>1, <1>2, <1>3 DEF AloneKnows
  <1>5. stage[d] = "idle" \/ Underfoot(d)
    BY <1>1, <1>4
  <1>6. Underfoot(d)'
    <2> USE <1>5, ServerAssumption DEF CommitsOnly, DeploymentTypes, Marked, TypeOK, Stages, Underfoot, Whole,
            Deployment!UnderWay, Deployment!Ended
    <2>1. CASE Deployment!Start(d)
      BY <2>1 DEF Deployment!Start
    <2>2. CASE Deployment!Fetch(d)
      BY <2>2 DEF Deployment!Fetch
    <2>3. CASE Deployment!Resolve(d)
      BY <2>3 DEF Deployment!Resolve
    <2>4. CASE Deployment!Lock(d)
      BY <2>4 DEF Deployment!Lock, Deployment!Mark
    <2>5. CASE Deployment!Checkout(d)
      BY <2>5 DEF Deployment!Checkout
    <2>6. CASE Deployment!EndReset(d)
      BY <2>6 DEF Deployment!EndReset
    <2>7. CASE Deployment!LookForVenv(d)
      BY <2>7 DEF Deployment!LookForVenv
    <2>8. CASE Deployment!MakeDirectory(d)
      BY <2>8 DEF Deployment!MakeDirectory
    <2>9. CASE Deployment!Populate(d)
      BY <2>9 DEF Deployment!Populate
    <2>10. CASE Deployment!Activate(d)
      BY <2>10 DEF Deployment!Activate
    <2>11. CASE Deployment!PipReads(d)
      BY <2>11 DEF Deployment!PipReads
    <2>12. CASE Deployment!PipInstalls(d)
      BY <2>12 DEF Deployment!PipInstalls
    <2>13. CASE Deployment!Smoke(d)
      BY <2>13 DEF Deployment!Smoke
    <2> QED
      BY <2>1, <2>2, <2>3, <2>4, <2>5, <2>6, <2>7, <2>8, <2>9, <2>10, <2>11, <2>12, <2>13
         DEF Deployment!Step
  <1> QED
    BY <1>3, <1>6

\* What is installed stays what the package asks for.
LEMMA StepKeepsSettled ==
    ASSUME CommitsOnly, DeploymentTypes, TypeOK, AloneMeans, AloneKnows, Settled,
           NEW d \in Deployments, Deployment!Step(d)
    PROVE  Settled'
  <1>1. /\ \A e \in Deployments : alone'[e] => alone[e]
        /\ \A e \in Deployments \ {d} : stage'[e] = stage[e]
        /\ stage[d] = "idle" \/ d \in Deployment!UnderWay
    BY StepKeepsAlone
  <1>2. SUFFICES ASSUME \A e \in Deployments : alone'[e] /\ stage'[e] \in Fitting
                 PROVE  installed' = None \/ Deployment!Consistent'
    BY DEF Settled
  <1>3. \A e \in Deployments : alone[e] /\ (e # d => stage[e] \in Fitting)
    BY <1>1, <1>2
  <1>4. stage[d] \in Fitting => installed = None \/ Deployment!Consistent
    BY <1>3 DEF Settled
  <1>5. d \in Deployment!UnderWay => Underfoot(d)
    BY <1>3 DEF AloneKnows
  <1>6. stage'[d] \in Fitting
    BY <1>2
  <1> HIDE DEF Settled
  <1> USE <1>1, <1>4, <1>5, <1>6, ServerAssumption DEF CommitsOnly, Stages, Fitting, Underfoot, Whole,
          Deployment!Consistent, Deployment!Ended, Deployment!UnderWay
  <1>7. CASE Deployment!Start(d)
    BY <1>7 DEF Deployment!Start
  <1>8. CASE Deployment!Fetch(d)
    BY <1>8 DEF Deployment!Fetch
  <1>9. CASE Deployment!Resolve(d)
    BY <1>9 DEF Deployment!Resolve
  <1>10. CASE Deployment!Lock(d)
    BY <1>10 DEF Deployment!Lock, Deployment!Mark
  <1>11. CASE Deployment!Checkout(d)
    BY <1>11 DEF Deployment!Checkout
  <1>12. CASE Deployment!EndReset(d)
    BY <1>12 DEF Deployment!EndReset
  <1>13. CASE Deployment!LookForVenv(d)
    BY <1>13 DEF Deployment!LookForVenv
  <1>14. CASE Deployment!MakeDirectory(d)
    BY <1>14 DEF Deployment!MakeDirectory
  <1>15. CASE Deployment!Populate(d)
    BY <1>15 DEF Deployment!Populate
  <1>16. CASE Deployment!Activate(d)
    BY <1>16 DEF Deployment!Activate
  <1>17. CASE Deployment!PipReads(d)
    BY <1>17 DEF Deployment!PipReads
  <1>18. CASE Deployment!PipInstalls(d)
    BY <1>18 DEF Deployment!PipInstalls
  <1>19. CASE Deployment!Smoke(d)
    BY <1>19 DEF Deployment!Smoke
  <1> QED
    BY <1>7, <1>8, <1>9, <1>10, <1>11, <1>12, <1>13, <1>14, <1>15, <1>16, <1>17, <1>18, <1>19
       DEF Deployment!Step

-----------------------------------------------------------------------------
(* The invariant of the deployments *)

Deployed ==
    /\ CommitsOnly /\ DeploymentTypes /\ Marked /\ OneCommit
    /\ NothingAhead /\ AloneMeans /\ AloneKnows /\ Settled

LEMMA PushKeepsDeployed ==
    ASSUME Deployed, TypeOK, Deployment!Push
    PROVE  Deployed'
  <1> USE DEF Deployment!Push
  <1>1. origin \in Nat /\ ref \in Nat
    BY ServerAssumption DEF Deployed, CommitsOnly
  <1>2. CommitsOnly' /\ DeploymentTypes' /\ Marked' /\ OneCommit'
    BY DEF Deployed, CommitsOnly, DeploymentTypes, Marked, OneCommit, Deployment!OneCommit
  <1>3. NothingAhead'
    BY <1>1 DEF Deployed, NothingAhead, Fetched
  <1>4. AloneMeans' /\ AloneKnows' /\ Settled'
    BY DEF Deployed, AloneMeans, AloneKnows, Settled, Underfoot, Whole, Deployment!UnderWay,
       Deployment!Consistent
  <1> QED
    BY <1>2, <1>3, <1>4 DEF Deployed

LEMMA StopKeepsDeployed ==
    ASSUME Deployed, NEW d \in Deployments, Stopped(d)
    PROVE  Deployed'
  <1> USE ServerAssumption DEF Stopped, CommitsOnly, Stages
  <1>1. CommitsOnly'
    BY DEF Deployed
  <1>2. DeploymentTypes'
    BY DEF Deployed, DeploymentTypes
  <1>3. Marked'
    BY DEF Deployed, Marked
  <1>4. OneCommit'
    BY DEF Deployed, OneCommit, Deployment!OneCommit
  <1>5. NothingAhead'
    BY DEF Deployed, NothingAhead, Fetched
  <1>6. /\ Deployment!UnderWay' = Deployment!UnderWay \ {d}
        /\ \A e \in Deployments \ {d} : stage'[e] = stage[e]
    BY DEF Deployed, Deployment!UnderWay, Deployment!Ended
  <1>7. \A e \in Deployment!UnderWay' : ~alone'[e]
    BY <1>6 DEF Deployed, AloneMeans, Deployment!UnderWay
  <1>8. AloneMeans' /\ AloneKnows'
    BY <1>7 DEF AloneMeans, AloneKnows
  <1>9. Settled'
    <2>1. stage'[d] \notin Fitting
      BY DEF Deployed, Fitting
    <2> QED
      BY <2>1, <1>7 DEF Deployed, Settled, Fitting
  <1> QED
    BY <1>1, <1>2, <1>3, <1>4, <1>5, <1>8, <1>9 DEF Deployed

LEMMA InitDeployed == ServerInit => Deployed
  <1> SUFFICES ASSUME ServerInit
               PROVE  Deployed
    OBVIOUS
  <1> USE DEF ServerInit, Deployment!Init
  <1>1. CommitsOnly /\ DeploymentTypes /\ Marked
    BY ServerAssumption DEF CommitsOnly, DeploymentTypes, Marked, Stages
  <1>2. OneCommit
    BY DEF OneCommit, Deployment!OneCommit
  <1>3. NothingAhead
    <2>1. origin \in Versions /\ origin \in Nat /\ ref = origin
      BY ServerAssumption
    <2>2. installed # None => installed = origin
      OBVIOUS
    <2> QED
      BY <2>1, <2>2 DEF NothingAhead, Fetched
  <1>4. AloneMeans /\ AloneKnows
    BY DEF AloneMeans, AloneKnows, Deployment!UnderWay, Deployment!Ended
  <1>5. Settled
    BY ServerAssumption DEF Settled, Deployment!Consistent
  <1> QED
    BY <1>1, <1>2, <1>3, <1>4, <1>5 DEF Deployed

LEMMA NextDeployed == Deployed /\ TypeOK /\ [ServerNext]_serverVars => Deployed'
  <1> SUFFICES ASSUME Deployed, TypeOK, [ServerNext]_serverVars
               PROVE  Deployed'
    OBVIOUS
  <1>1. CASE Deployment!Push
    BY <1>1, PushKeepsDeployed
  <1>2. ASSUME NEW d \in Deployments, Deployment!Step(d)
        PROVE  Deployed'
    <2>1. CommitsOnly'
      BY <1>2, StepKeepsCommits DEF Deployed
    <2> QED
      BY <1>2, <2>1, StepKeepsTypes, StepKeepsMarked, StepKeepsOneCommit, StepKeepsBehind, StepKeepsAlone,
         StepKeepsKnowing, StepKeepsSettled
         DEF Deployed
  <1>3. ASSUME NEW d \in Deployments, Stopped(d)
        PROVE  Deployed'
    BY <1>3, StopKeepsDeployed
  <1>4. CASE UNCHANGED <<tree, deployed>>
    BY <1>4 DEF deployed, Deployed, CommitsOnly, DeploymentTypes, Marked, OneCommit, Deployment!OneCommit,
       NothingAhead, Fetched, AloneMeans, AloneKnows, Settled, Underfoot, Whole,
       Deployment!UnderWay, Deployment!Consistent
  <1> QED
    BY <1>1, <1>2, <1>3, <1>4, OthersLeaveDeployed, DeployStepCases

LEMMA ServerTypeOK == ServerSpec => [](TypeOK /\ Progress)
  BY ServerRefines, DirectoryTypes DEF VerifiesDirectories

LEMMA DeployedHolds == ServerSpec => []Deployed
  BY InitDeployed, NextDeployed, ServerTypeOK, PTL DEF ServerSpec

\* The server's tree is of one commit, except while a reset replaces its files
\* and, after one that was cut off or failed half-way, until the next that goes
\* through: the lock of the index keeps two that overlap from mixing theirs
\* (deploy.sh:20).
THEOREM TreeIsOneCommit == ServerSpec => []OneCommit
  BY DeployedHolds, PTL DEF Deployed

-----------------------------------------------------------------------------
(* What deployments do *)

\* A deployment that overlapped with no other and succeeds leaves all files at
\* the commit main had when it fetched, with its requirements installed in a
\* complete virtualenv (deploy.sh:20-33).
THEOREM SuccessIsCurrent == ServerSpec => DeployedIsCurrent
  <1>1. ASSUME Deployed, TypeOK, [ServerNext]_serverVars,
               NEW d \in Deployments, Deployment!Succeeds(d), alone[d]
        PROVE  tree = [f \in Files |-> latest[d]] /\ installed = latest[d] /\ venv = "ready"
    <2> USE <1>1 DEF Deployment!Succeeds
    <2>1. stage'[d] = "succeeded" /\ stage[d] # "succeeded" /\ stage \in [Deployments -> Stages]
      BY DEF Deployed, CommitsOnly
    <2>2. DeployStep
      BY <2>1, OthersLeaveDeployed DEF deployed
    <2>3. ~Deployment!Push
      BY <2>1 DEF Deployment!Push
    <2>4. ASSUME NEW e \in Deployments, Stopped(e)
          PROVE  FALSE
      BY <2>1, <2>4 DEF Stopped
    <2>5. PICK e \in Deployments : Deployment!Step(e)
      BY <2>2, <2>3, <2>4, DeployStepCases
    <2>6. /\ \A x \in Deployments \ {e} : stage'[x] = stage[x]
      BY <2>5, StepKeepsAlone DEF Deployed
    <2>7. e = d
      BY <2>1, <2>6
    <2>8. Deployment!Smoke(d)
      <3>1. ~Deployment!Lock(d)
        BY <2>1 DEF Deployment!Lock, Deployment!Mark
      <3>2. ~Deployment!Checkout(d)
        BY <2>1 DEF Deployment!Checkout
      <3>3. ~Deployment!LookForVenv(d)
        BY <2>1 DEF Deployment!LookForVenv
      <3>4. ~Deployment!Activate(d)
        BY <2>1 DEF Deployment!Activate
      <3> QED
        BY <2>1, <2>5, <2>7, <3>1, <3>2, <3>3, <3>4 DEF Deployment!Step, Deployment!Start,
           Deployment!Fetch, Deployment!Resolve, Deployment!EndReset, Deployment!MakeDirectory,
           Deployment!Populate, Deployment!PipReads, Deployment!PipInstalls
    <2>9. stage[d] = "smoke"
      BY <2>8 DEF Deployment!Smoke
    <2>10. Underfoot(d)
      BY <2>9 DEF Deployed, AloneKnows, Deployment!UnderWay, Deployment!Ended
    <2> QED
      BY <2>9, <2>10 DEF Underfoot, Whole
  <1>2. Deployed /\ TypeOK /\ [ServerNext]_serverVars =>
            [\A d \in Deployments : Deployment!Succeeds(d) /\ alone[d] =>
                /\ tree = [f \in Files |-> latest[d]]
                /\ installed = latest[d]
                /\ venv = "ready"]_(Deployment!vars)
    BY <1>1
  <1> QED
    BY <1>2, DeployedHolds, ServerTypeOK, PTL DEF ServerSpec, DeployedIsCurrent, Deployment!DeployedIsCurrent

\* No step of a deployment that overlaps with no other puts an older commit in
\* place of a file or of what is installed: what its clone has fetched is the
\* newest on the server (deploy.sh:20, 30).
THEOREM DeploymentsAdvance == ServerSpec => NeverBackwards
  <1>1. ASSUME Deployed, TypeOK,
               NEW d \in Deployments, Deployment!Step(d), alone'[d]
        PROVE  /\ \A f \in Files : tree'[f] >= tree[f]
               /\ installed \in Versions /\ installed' \in Versions => installed' >= installed
    <2> USE <1>1
    <2>1. /\ alone[d]
          /\ stage[d] = "idle" \/ d \in Deployment!UnderWay
      BY StepKeepsAlone DEF Deployed
    <2>2. stage[d] = "idle" \/ Underfoot(d)
      BY <2>1 DEF Deployed, AloneKnows
    <2>3. /\ ref \in Nat /\ \A f \in Files : tree[f] \in Nat /\ tree[f] <= ref
          /\ installed \in Versions => installed \in Nat /\ installed <= ref
      BY ServerAssumption, DirectoryAssumption DEF Deployed, CommitsOnly, NothingAhead, Fetched
    <2>4. tree \in [Files -> Versions]
      BY DEF TypeOK
    <2>5. CASE Deployment!Checkout(d)
      BY <2>2, <2>3, <2>4, <2>5 DEF Deployment!Checkout, Underfoot
    <2>6. CASE Deployment!PipInstalls(d)
      BY <2>2, <2>3, <2>6 DEF Deployment!PipInstalls, Underfoot
    <2>7. CASE UNCHANGED <<tree, installed>>
      BY <2>3, <2>7
    <2> QED
      BY <2>5, <2>6, <2>7 DEF Deployment!Step, Deployment!Start, Deployment!Fetch,
         Deployment!Resolve, Deployment!Lock, Deployment!EndReset, Deployment!LookForVenv,
         Deployment!MakeDirectory, Deployment!Populate, Deployment!Activate,
         Deployment!PipReads, Deployment!Smoke
  <1>2. Deployed /\ TypeOK =>
            [\A d \in Deployments : Deployment!Step(d) /\ alone'[d] =>
                /\ \A f \in Files : tree'[f] >= tree[f]
                /\ installed \in Versions /\ installed' \in Versions => installed' >= installed]_(Deployment!vars)
    BY <1>1
  <1> QED
    BY <1>2, DeployedHolds, ServerTypeOK, PTL DEF NeverBackwards, Deployment!NeverBackwards

-----------------------------------------------------------------------------
(* Deployments after deployments *)

\* The strengthening: a virtualenv without bin/activate is being completed, or
\* was left behind, and there always is one once it is looked for or made.
VenvKnown ==
    /\ venv \in {"none", "partial", "ready"}
    /\ \A d \in Deployments : stage[d] \in {"populate", "activate"} => venv # "none"
    /\ venv = "partial" => "populate" \in left \/ \E d \in Deployments : stage[d] = "populate"

\* The lock of a reset that was killed stays for good, and so does a virtualenv
\* that nobody is about to complete.
LockLeft == \E d \in Deployments : lock = d /\ stage[d] = "interrupted"

VenvLeft ==
    /\ "populate" \in left /\ venv # "none"
    /\ \A d \in Deployments : stage[d] \notin {"create", "populate"}

LEMMA StepKeepsVenv ==
    ASSUME Deployed, VenvKnown, NEW d \in Deployments, Deployment!Step(d)
    PROVE  VenvKnown'
  <1> USE DEF VenvKnown, Deployed, CommitsOnly, Stages
  <1>1. CASE Deployment!Start(d)
    BY <1>1 DEF Deployment!Start
  <1>2. CASE Deployment!Fetch(d)
    BY <1>2 DEF Deployment!Fetch
  <1>3. CASE Deployment!Resolve(d)
    BY <1>3 DEF Deployment!Resolve
  <1>4. CASE Deployment!Lock(d)
    BY <1>4 DEF Deployment!Lock, Deployment!Mark
  <1>5. CASE Deployment!Checkout(d)
    BY <1>5 DEF Deployment!Checkout
  <1>6. CASE Deployment!EndReset(d)
    BY <1>6 DEF Deployment!EndReset
  <1>7. CASE Deployment!LookForVenv(d)
    BY <1>7 DEF Deployment!LookForVenv
  <1>8. CASE Deployment!MakeDirectory(d)
    BY <1>8 DEF Deployment!MakeDirectory
  <1>9. CASE Deployment!Populate(d)
    BY <1>9 DEF Deployment!Populate
  <1>10. CASE Deployment!Activate(d)
    BY <1>10 DEF Deployment!Activate
  <1>11. CASE Deployment!PipReads(d)
    BY <1>11 DEF Deployment!PipReads
  <1>12. CASE Deployment!PipInstalls(d)
    BY <1>12 DEF Deployment!PipInstalls
  <1>13. CASE Deployment!Smoke(d)
    BY <1>13 DEF Deployment!Smoke
  <1> QED
    BY <1>1, <1>2, <1>3, <1>4, <1>5, <1>6, <1>7, <1>8, <1>9, <1>10, <1>11, <1>12, <1>13
       DEF Deployment!Step

LEMMA StepKeepsLeftovers ==
    ASSUME Deployed, NEW d \in Deployments, Deployment!Step(d), LockLeft \/ VenvLeft
    PROVE  LockLeft' \/ VenvLeft'
  <1> USE ServerAssumption DEF LockLeft, VenvLeft, Deployed, CommitsOnly, DeploymentTypes, Stages
  <1>1. CASE Deployment!Start(d)
    BY <1>1 DEF Deployment!Start
  <1>2. CASE Deployment!Fetch(d)
    BY <1>2 DEF Deployment!Fetch
  <1>3. CASE Deployment!Resolve(d)
    BY <1>3 DEF Deployment!Resolve
  <1>4. CASE Deployment!Lock(d)
    BY <1>4 DEF Deployment!Lock, Deployment!Mark
  <1>5. CASE Deployment!Checkout(d)
    BY <1>5 DEF Deployment!Checkout
  <1>6. CASE Deployment!EndReset(d)
    <2>1. VenvLeft
      BY <1>6 DEF Deployment!EndReset
    <2>2. "populate" \in left' /\ venv' = venv
      BY <1>6, <2>1 DEF Deployment!EndReset
    <2>3. \A e \in Deployments : stage'[e] \notin {"create", "populate"}
      BY <1>6, <2>1 DEF Deployment!EndReset, Deployment!Goto
    <2> QED
      BY <2>1, <2>2, <2>3
  <1>7. CASE Deployment!LookForVenv(d)
    BY <1>7 DEF Deployment!LookForVenv
  <1>8. CASE Deployment!MakeDirectory(d)
    BY <1>8 DEF Deployment!MakeDirectory
  <1>9. CASE Deployment!Populate(d)
    BY <1>9 DEF Deployment!Populate
  <1>10. CASE Deployment!Activate(d)
    BY <1>10 DEF Deployment!Activate
  <1>11. CASE Deployment!PipReads(d)
    BY <1>11 DEF Deployment!PipReads
  <1>12. CASE Deployment!PipInstalls(d)
    BY <1>12 DEF Deployment!PipInstalls
  <1>13. CASE Deployment!Smoke(d)
    BY <1>13 DEF Deployment!Smoke
  <1> QED
    BY <1>1, <1>2, <1>3, <1>4, <1>5, <1>6, <1>7, <1>8, <1>9, <1>10, <1>11, <1>12, <1>13
       DEF Deployment!Step

LEMMA StopKeepsLeftovers ==
    ASSUME Deployed, VenvKnown, NEW d \in Deployments, Stopped(d)
    PROVE  VenvKnown' /\ (LockLeft \/ VenvLeft => LockLeft' \/ VenvLeft')
  <1> USE ServerAssumption DEF Stopped, Deployed, CommitsOnly, DeploymentTypes, Stages
  <1>1. VenvKnown'
    BY DEF VenvKnown
  <1>2. LockLeft => LockLeft'
    BY DEF LockLeft, Deployment!UnderWay, Deployment!Ended
  <1>3. VenvLeft => VenvLeft'
    BY DEF VenvLeft
  <1> QED
    BY <1>1, <1>2, <1>3

\* What an undisturbed deployment fails over.
LEMMA FailureNeedsLeftovers ==
    ASSUME Deployed, VenvKnown, NEW d \in Deployments, Deployment!Step(d),
           alone[d], stage[d] # "failed", stage'[d] = "failed"
    PROVE  LockLeft' \/ VenvLeft'
  <1> USE DEF Deployed, CommitsOnly, Stages
  <1>1. d \in Deployment!UnderWay => Deployment!UnderWay = {d} /\ Underfoot(d)
    BY DEF AloneMeans, AloneKnows
  <1>2. CASE Deployment!Lock(d)
    <2>1. stage[d] = "lock" /\ d \in Deployment!UnderWay
      BY <1>2 DEF Deployment!Lock, Deployment!UnderWay, Deployment!Ended
    <2>2. \A e \in Deployments : stage[e] # "checkout"
      BY <1>1, <2>1 DEF Deployment!UnderWay, Deployment!Ended
    <2>3. lock # None /\ UNCHANGED lock /\ \A e \in Deployments \ {d} : stage'[e] = stage[e]
      BY <1>2 DEF Deployment!Lock, Deployment!Mark
    <2>4. PICK e \in Deployments : lock = e /\ stage[e] = "interrupted"
      BY <2>2, <2>3 DEF DeploymentTypes
    <2>5. e # d
      BY <2>1, <2>4
    <2> QED
      BY <2>3, <2>4, <2>5 DEF LockLeft
  <1>3. CASE Deployment!Activate(d)
    <2>1. stage[d] = "activate" /\ d \in Deployment!UnderWay /\ venv # "ready"
      BY <1>3 DEF Deployment!Activate, Deployment!UnderWay, Deployment!Ended
    <2>2. \A e \in Deployments : stage[e] \notin {"create", "populate"}
      BY <1>1, <2>1 DEF Deployment!UnderWay, Deployment!Ended
    <2>3. venv = "partial" /\ "populate" \in left
      BY <2>1, <2>2 DEF VenvKnown
    <2>4. UNCHANGED <<venv, left>> /\ \A e \in Deployments : stage'[e] \notin {"create", "populate"}
      BY <1>3, <2>2 DEF Deployment!Activate
    <2> QED
      BY <2>3, <2>4 DEF VenvLeft
  <1>4. CASE Deployment!Smoke(d)
    <2>1. stage[d] = "smoke" /\ d \in Deployment!UnderWay
      BY <1>4 DEF Deployment!Smoke, Deployment!UnderWay, Deployment!Ended
    <2>2. Deployment!Consistent
      BY <1>1, <2>1, ServerAssumption DEF Underfoot, Whole, Deployment!Consistent
    <2> QED
      BY <1>4, <2>2 DEF Deployment!Smoke
  <1> QED
    BY <1>2, <1>3, <1>4 DEF Deployment!Step, Deployment!Start, Deployment!Fetch,
       Deployment!Resolve, Deployment!Checkout, Deployment!EndReset, Deployment!LookForVenv,
       Deployment!MakeDirectory, Deployment!Populate, Deployment!PipReads,
       Deployment!PipInstalls

Repeating == VenvKnown /\ (RepeatSucceeds \/ LockLeft \/ VenvLeft)

LEMMA NextRepeating ==
    ASSUME Deployed, Repeating, [ServerNext]_serverVars
    PROVE  Repeating'
  <1> USE DEF RepeatSucceeds, Deployment!RepeatSucceeds
  <1>1. CASE UNCHANGED <<tree, deployed>>
    BY <1>1 DEF deployed, Repeating, VenvKnown, LockLeft, VenvLeft
  <1>2. CASE Deployment!Push
    BY <1>2 DEF Deployment!Push, Repeating, VenvKnown, LockLeft, VenvLeft
  <1>3. ASSUME NEW d \in Deployments, Stopped(d)
        PROVE  Repeating'
    <2>1. VenvKnown' /\ (LockLeft \/ VenvLeft => LockLeft' \/ VenvLeft')
      BY <1>3, StopKeepsLeftovers DEF Repeating
    <2>2. RepeatSucceeds => RepeatSucceeds'
      BY <1>3 DEF Stopped, Deployed, CommitsOnly
    <2> QED
      BY <2>1, <2>2 DEF Repeating
  <1>4. ASSUME NEW d \in Deployments, Deployment!Step(d)
        PROVE  Repeating'
    <2>1. VenvKnown'
      BY <1>4, StepKeepsVenv DEF Repeating
    <2>2. CASE LockLeft \/ VenvLeft
      BY <1>4, <2>1, <2>2, StepKeepsLeftovers DEF Repeating
    <2>3. CASE RepeatSucceeds
      <3>1. /\ \A e \in Deployments : alone'[e] => alone[e]
            /\ \A e \in Deployments \ {d} : stage'[e] = stage[e]
        BY <1>4, StepKeepsAlone DEF Deployed
      <3>2. alone[d] /\ stage'[d] = "failed" => LockLeft' \/ VenvLeft'
        BY <1>4, <2>3, FailureNeedsLeftovers DEF Repeating
      <3>3. RepeatSucceeds' \/ (alone[d] /\ stage'[d] = "failed")
        BY <2>3, <3>1
      <3> QED
        BY <2>1, <3>2, <3>3 DEF Repeating
    <2> QED
      BY <2>2, <2>3 DEF Repeating
  <1> QED
    BY <1>1, <1>2, <1>3, <1>4, OthersLeaveDeployed, DeployStepCases

\* All that can make an undisturbed deployment, whose commands do not fail by
\* themselves, stop is the index lock of a reset that was killed and a
\* virtualenv whose creation was cut off or failed; whatever else was left half
\* done -- a fetch, a reset, packages half installed -- does not (deploy.sh:11,
\* 20, 23-27).
THEOREM LeftoversBlock == ServerSpec => []OnlyLeftoversBlock
  <1>1. ServerInit => Repeating
    BY DEF ServerInit, Deployment!Init, Repeating, VenvKnown, RepeatSucceeds,
       Deployment!RepeatSucceeds
  <1>2. Repeating => OnlyLeftoversBlock
    BY DEF Repeating, LockLeft, VenvLeft, RepeatSucceeds, OnlyLeftoversBlock,
       Deployment!OnlyLeftoversBlock
  <1> QED
    BY <1>1, <1>2, NextRepeating, DeployedHolds, PTL DEF ServerSpec

-----------------------------------------------------------------------------
(* Invocations between and during deployments *)

\* The strengthening: an invocation no deployment overlaps with has the tree of
\* one commit before it, from which all it has read comes.
Judging ==
    pc # "idle" /\ ~overlapped =>
        /\ ~Deploying
        /\ \/ "checkout" \in left
           \/ \E v \in Versions : versions \subseteq {v} /\ Whole(v)

\* Nobody replaces files while no deployment is under way.
LEMMA UnlockedBetween ==
    ASSUME Deployed, ~Deploying, "checkout" \notin left
    PROVE  \E v \in Versions : Whole(v)
  <1>1. \A d \in Deployments : stage[d] # "checkout"
    BY DEF Deploying, Deployment!UnderWay, Deployment!Ended
  <1> QED
    BY <1>1 DEF Deployed, OneCommit, Deployment!OneCommit, Whole

\* Before, during or after a step of a deployment other than a push, one is
\* under way.
LEMMA QuietStepsArePushes ==
    ASSUME CommitsOnly, DeployStep, ~Deploying, ~Deploying'
    PROVE  Deployment!Push
  <1>1. ASSUME NEW d \in Deployments, Stopped(d)
        PROVE  FALSE
    BY <1>1 DEF Stopped, Deploying
  <1>2. ASSUME NEW d \in Deployments, Deployment!Step(d)
        PROVE  FALSE
    <2>1. stage[d] = "idle"
      BY <1>2, ~Deploying DEF Deploying, Deployment!UnderWay, Deployment!Ended, Deployment!Step,
         Deployment!Start, Deployment!Fetch, Deployment!Resolve, Deployment!Lock,
         Deployment!Checkout, Deployment!EndReset, Deployment!LookForVenv,
         Deployment!MakeDirectory, Deployment!Populate, Deployment!Activate,
         Deployment!PipReads, Deployment!PipInstalls, Deployment!Smoke
    <2>2. Deployment!Start(d)
      BY <1>2, <2>1 DEF Deployment!Step, Deployment!Fetch, Deployment!Resolve, Deployment!Lock,
         Deployment!Checkout, Deployment!EndReset, Deployment!LookForVenv,
         Deployment!MakeDirectory, Deployment!Populate, Deployment!Activate,
         Deployment!PipReads, Deployment!PipInstalls, Deployment!Smoke
    <2>3. stage'[d] = "fetch"
      BY <2>2 DEF Deployment!Start, CommitsOnly
    <2>4. d \in Deployment!UnderWay'
      BY <2>3 DEF Deployment!UnderWay, Deployment!Ended
    <2> QED
      BY <2>4 DEF Deploying
  <1> QED
    BY <1>1, <1>2, DeployStepCases

LEMMA NextJudging ==
    ASSUME Deployed, TypeOK, Progress, Judging, [ServerNext]_serverVars
    PROVE  Judging'
  <1> SUFFICES ASSUME pc' # "idle", ~overlapped'
               PROVE  /\ ~Deploying'
                      /\ \/ "checkout" \in left'
                         \/ \E v \in Versions : versions' \subseteq {v} /\ Whole(v)'
    BY DEF Judging
  <1>1. CASE DeployStep
    <2>1. UNCHANGED <<pc, versions>>
      BY <1>1 DEF DeployStep, running
    <2>2. ~overlapped /\ ~Deploying'
      BY <1>1, <2>1, Zenon DEF DeployStep
    <2>3. /\ ~Deploying
          /\ "checkout" \in left \/ \E v \in Versions : versions \subseteq {v} /\ Whole(v)
      BY <2>1, <2>2 DEF Judging
    <2>4. UNCHANGED <<tree, left>>
      BY <1>1, <2>2, <2>3, QuietStepsArePushes DEF Deployed, Deployment!Push
    <2> QED
      BY <2>1, <2>2, <2>3, <2>4 DEF Whole
  <1>2. CASE BeginRun
    <2>1. versions' = {} /\ UNCHANGED <<tree, deployed>>
      BY <1>2 DEF BeginRun, Start, StartFails, Begin, outside
    <2>2. ~Deploying
      BY <1>2, Zenon DEF BeginRun
    <2>3. ~Deploying' /\ UNCHANGED left
      BY <2>1, <2>2 DEF deployed, Deploying, Deployment!UnderWay
    <2>4. "checkout" \notin left => \E v \in Versions : Whole(v)'
      BY <2>1, <2>2, UnlockedBetween DEF Whole
    <2> QED
      BY <2>1, <2>3, <2>4
  <1>3. CASE RunStep
    <2>1. UNCHANGED <<tree, deployed, overlapped>>
      BY <1>3 DEF RunStep, Step, ListContracts, Locate, ReadContract, RejectContract,
         CrashOnContract, Judge, SessionFails, OpenReport, WriteReport, WriteFails, Finish, outside
    <2>2. (Deploying' <=> Deploying) /\ UNCHANGED left
      BY <2>1 DEF deployed, Deploying, Deployment!UnderWay
    <2>3. pc # "idle"
      BY <1>3 DEF RunStep, Step, ListContracts, Locate, ReadContract, RejectContract,
         CrashOnContract, Judge, SessionFails, OpenReport, WriteReport, WriteFails, Finish
    <2>4. pc = "read" => Current \in Files
      BY CurrentRemains, DirectoryAssumption DEF Progress
    <2>5. versions' = IF pc = "read" THEN versions \cup {tree[Current]} ELSE versions
      BY <1>3 DEF RunStep
    <2>6. ASSUME NEW v \in Versions, versions \subseteq {v}, Whole(v)
          PROVE  versions' \subseteq {v} /\ Whole(v)'
      BY <2>1, <2>4, <2>5, <2>6 DEF Whole
    <2>7. ~overlapped
      BY <2>1, Zenon
    <2> QED
      BY <2>2, <2>3, <2>6, <2>7 DEF Judging
  <1>4. CASE Elsewhere \/ UNCHANGED serverVars
    <2>1. UNCHANGED <<tree, deployed, versions, overlapped>> /\ pc' \in {pc, "idle"}
      BY <1>4 DEF Elsewhere, MoveDb, Kill, Render, Exit, outside, serverVars, vars
    <2>2. (Deploying' <=> Deploying) /\ UNCHANGED left
      BY <2>1 DEF deployed, Deploying, Deployment!UnderWay
    <2>3. ~overlapped /\ pc # "idle"
      BY <2>1, Zenon
    <2> QED
      BY <2>1, <2>2, <2>3 DEF Judging, Whole
  <1> QED
    BY <1>1, <1>2, <1>3, <1>4 DEF ServerNext

LEMMA InitJudging == ServerInit => Judging
  BY DEF ServerInit, Init, Deployment!Init, Judging

\* All contracts of an invocation that no deployment overlaps with come from one
\* commit, unless the last reset to lock the index before it was cut off or
\* failed half-way (deploy.sh:20, verifier.py:115).
THEOREM JudgedFromOneCommit == ServerSpec => []JudgedOneCommit
  <1>1. Deployed /\ Judging => JudgedOneCommit
    BY DEF Judging, JudgedOneCommit
  <1>2. ServerSpec => []Judging
    BY InitJudging, NextJudging, DeployedHolds, ServerTypeOK, PTL DEF ServerSpec
  <1> QED
    BY <1>1, <1>2, DeployedHolds, PTL

\* A verification fails to start only while a deployment is under way or after
\* one that was cut off, disturbed or failed: one that goes through leaves what
\* the package of its tree asks for installed (deploy.sh:20-30).
THEOREM StartsAreBetween == ServerSpec => StartsBetweenDeployments
  <1>1. ASSUME Deployed, [ServerNext]_serverVars, round' # round, pc' = "idle"
        PROVE  \E d \in Deployments : stage[d] \notin {"idle", "succeeded"} \/ ~alone[d]
    <2> USE <1>1
    <2>1. BeginRun
      <3>1. ~DeployStep
        BY DEF DeployStep, running
      <3>2. ~RunStep
        BY DEF RunStep, Step, ListContracts, Locate, ReadContract, RejectContract,
           CrashOnContract, Judge, SessionFails, OpenReport, WriteReport, WriteFails, Finish
      <3>3. ~Elsewhere
        BY DEF Elsewhere, MoveDb, Kill, Render
      <3>4. ~UNCHANGED serverVars
        BY DEF serverVars, vars
      <3> QED
        BY <3>1, <3>2, <3>3, <3>4 DEF ServerNext
    <2>2. installed # None /\ ~Deployment!Consistent
      BY <2>1 DEF BeginRun, Start
    <2>3. ~\A d \in Deployments : alone[d] /\ stage[d] \in Fitting
      BY <2>2 DEF Deployed, Settled
    <2> QED
      BY <2>3 DEF Fitting
  <1>2. Deployed /\ [ServerNext]_serverVars =>
            [round' # round /\ pc' = "idle" =>
                \E d \in Deployments : stage[d] \notin {"idle", "succeeded"} \/ ~alone[d]]_serverVars
    BY <1>1
  <1> QED
    BY <1>2, DeployedHolds, PTL DEF ServerSpec, StartsBetweenDeployments

-----------------------------------------------------------------------------
(* What holds of directories holds of those on the server *)

\* Types on the server (verifier.py:91-121, deploy.sh:19-33).
THEOREM ServerTypes == ServerSpec => []TypeOK
  BY ServerTypeOK, PTL

\* Reports and pages agree with exit codes on the server, too (cli.py:286).
THEOREM ServerPagesTellExit == ServerSpec => PageTellsExit
  BY ServerRefines, PagesTellExit DEF VerifiesDirectories

\* Scores and statuses of pages agree on the server, too (reporting.py:45-52).
THEOREM ServerScoresAgree == ServerSpec => []ScoreAgreesWithStatus
  BY ServerRefines, ScoresAgree DEF VerifiesDirectories
=============================================================================
