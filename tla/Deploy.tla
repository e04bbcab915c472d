------------------------------- MODULE Deploy -------------------------------
(***************************************************************************)
(* Deployments of the Data Gate on its server (scripts/deploy.sh), as      *)
(* .github/workflows/deploy.yml starts them: one for each push to main,    *)
(* with nothing that keeps two from overlapping.                           *)
(***************************************************************************)
EXTENDS Naturals

CONSTANTS
    Deployments,    \* runs of deploy.sh; each happens at most once
    Files,          \* what a commit consists of
    Package,        \* ... among it the package, with its pyproject.toml
    Versions,       \* commits of main, in their order
    MayInterrupt,   \* whether a deployment may be cut off
    MayFail,        \* stages whose command may fail by itself
    Mixed,          \* requirements of no one commit
    None,           \* nothing installed, nobody
    MaxPushes       \* bound: pushes to main

VARIABLES
    origin,     \* main, on GitHub
    pushes,     \* number of pushes
    ref,        \* origin/main in the server's clone
    tree,       \* the working tree: a commit for each file
    todo,       \* the files that the reset of a deployment has yet to replace
    lock,       \* who holds .git/index.lock
    venv,       \* .venv: "none", "partial" (no bin/activate yet) or "ready"
    installed,  \* the commit whose requirements are installed, or Mixed
    stage,      \* how far each deployment is
    target,     \* the commit it resets to, or installs
    latest,     \* auxiliary: main when it fetched
    alone,      \* auxiliary: it has overlapped with no other
    left        \* auxiliary: stages left unfinished that nobody has finished since

repository == <<origin, pushes, ref>>
server     == <<tree, todo, lock, venv, installed>>
vars == <<origin, pushes, ref, tree, todo, lock, venv, installed, stage, target, latest, alone, left>>

\* "failed" because of what it found, "broken" because a command failed by itself.
Ended == {"idle", "succeeded", "failed", "broken", "interrupted"}

\* The stages of the commands that set -e lets end the script.
Commands == {"fetch", "reset", "checkout", "create", "populate", "pip", "install", "smoke"}

UnderWay == {d \in Deployments : stage[d] \notin Ended}

Init ==
    /\ origin \in Versions
    /\ pushes = 0
    /\ ref = origin
    /\ tree = [f \in Files |-> origin]
    /\ todo = [d \in Deployments |-> {}]
    /\ lock = None
    /\ \/ venv = "none" /\ installed = None
       \/ venv = "ready" /\ installed = origin
    /\ stage = [d \in Deployments |-> "idle"]
    /\ target = [d \in Deployments |-> None]
    /\ latest = [d \in Deployments |-> None]
    /\ alone = [d \in Deployments |-> TRUE]
    /\ left = {}

Goto(d, s) == stage' = [stage EXCEPT ![d] = s]

-----------------------------------------------------------------------------
Push ==
    /\ pushes < MaxPushes
    /\ origin' = origin + 1 /\ origin' \in Versions
    /\ pushes' = pushes + 1
    /\ UNCHANGED <<ref, server, stage, target, latest, alone, left>>

\* A deployment goes no further: files, virtualenv and packages stay as far as
\* they have come.
Stop(d) ==
    /\ left' = left \cup ({stage[d]} \cap {"checkout", "populate"})
    /\ installed' \in {installed} \cup {i \in {Mixed} : stage[d] = "install"}
    /\ todo' = [todo EXCEPT ![d] = {}]
    /\ UNCHANGED <<repository, tree, venv, target, latest, alone>>

\* The connection drops or the job is cancelled; git removes its lock then, but
\* not when it is killed or the server goes down.
Interrupt(d) ==
    /\ MayInterrupt
    /\ d \in UnderWay
    /\ Goto(d, "interrupted")
    /\ lock' \in {lock} \cup {l \in {None} : lock = d}
    /\ Stop(d)

\* A command fails by itself: no network, no space, no ensurepip, a commit that
\* does not install or start.  git removes its lock.
Fails(d) ==
    /\ stage[d] \in MayFail
    /\ Goto(d, "broken")
    /\ lock' = IF lock = d THEN None ELSE lock
    /\ Stop(d)

-----------------------------------------------------------------------------
\* ssh ... "bash -s"
Start(d) ==
    /\ stage[d] = "idle"
    /\ Goto(d, "fetch")
    /\ alone' = [e \in Deployments |-> alone[e] /\ (e \in UnderWay' => UnderWay' = {e})]
    /\ UNCHANGED <<repository, server, target, latest, left>>

\* Mutant: the clone is not refreshed.
FetchNothing(d) ==
    /\ stage[d] = "fetch"
    /\ latest' = [latest EXCEPT ![d] = origin]
    /\ Goto(d, "reset")
    /\ UNCHANGED <<repository, server, target, alone, left>>

\* git fetch --all --prune
Fetch(d) ==
    /\ stage[d] = "fetch"
    /\ ref' = origin
    /\ latest' = [latest EXCEPT ![d] = origin]
    /\ Goto(d, "reset")
    /\ UNCHANGED <<origin, pushes, server, target, alone, left>>

\* Mutant: a deployment resets to the commit that triggered it.
ResolveTrigger(d) ==
    /\ stage[d] = "reset"
    /\ \E v \in Versions : v <= ref /\ target' = [target EXCEPT ![d] = v]
    /\ Goto(d, "lock")
    /\ UNCHANGED <<repository, server, latest, alone, left>>

\* git reset --hard origin/main: the name is resolved, then the index locked.
Resolve(d) ==
    /\ stage[d] = "reset"
    /\ target' = [target EXCEPT ![d] = ref]
    /\ Goto(d, "lock")
    /\ UNCHANGED <<repository, server, latest, alone, left>>

\* The files that are not those of the commit are marked, under the lock.
Mark(d) ==
    /\ lock' = d
    /\ todo' = [todo EXCEPT ![d] = {f \in Files : tree[f] # target[d]}]
    /\ Goto(d, "checkout")

\* Mutant: nobody looks at the lock.
LockAnyway(d) ==
    /\ stage[d] = "lock"
    /\ Mark(d)
    /\ UNCHANGED <<repository, tree, venv, installed, target, latest, alone, left>>

Lock(d) ==
    /\ stage[d] = "lock"
    /\ IF lock = None THEN Mark(d) ELSE Goto(d, "failed") /\ UNCHANGED <<lock, todo>>
    /\ UNCHANGED <<repository, tree, venv, installed, target, latest, alone, left>>

\* One marked file after the other is replaced.
Checkout(d) ==
    /\ stage[d] = "checkout"
    /\ \E f \in todo[d] : /\ tree' = [tree EXCEPT ![f] = target[d]]
                          /\ todo' = [todo EXCEPT ![d] = @ \ {f}]
    /\ UNCHANGED <<repository, lock, venv, installed, stage, target, latest, alone, left>>

\* Mutant: a reset that fails half-way is not noticed.
EndResetAnyhow(d) ==
    /\ stage[d] = "checkout"
    /\ lock' = None
    /\ todo' = [todo EXCEPT ![d] = {}]
    /\ Goto(d, "venv")
    /\ UNCHANGED <<repository, tree, venv, installed, target, latest, alone, left>>

\* Mutant: the lock stays behind.
EndResetLocked(d) ==
    /\ stage[d] = "checkout"
    /\ todo[d] = {}
    /\ left' = left \ {"checkout"}
    /\ Goto(d, "venv")
    /\ UNCHANGED <<repository, server, target, latest, alone>>

EndReset(d) ==
    /\ stage[d] = "checkout"
    /\ todo[d] = {}
    /\ lock' = None
    /\ left' = left \ {"checkout"}
    /\ Goto(d, "venv")
    /\ UNCHANGED <<repository, tree, todo, venv, installed, target, latest, alone>>

\* if [ ! -d .venv ]
LookForVenv(d) ==
    /\ stage[d] = "venv"
    /\ Goto(d, IF venv = "none" THEN "create" ELSE "activate")
    /\ UNCHANGED <<repository, server, target, latest, alone, left>>

\* python3.12 -m venv .venv makes the directory first and bin/activate last.
MakeDirectory(d) ==
    /\ stage[d] = "create"
    /\ venv' = IF venv = "none" THEN "partial" ELSE venv
    /\ Goto(d, "populate")
    /\ UNCHANGED <<repository, tree, todo, lock, installed, target, latest, alone, left>>

Populate(d) ==
    /\ stage[d] = "populate"
    /\ venv' = "ready"
    /\ left' = left \ {"populate"}
    /\ Goto(d, "activate")
    /\ UNCHANGED <<repository, tree, todo, lock, installed, target, latest, alone>>

\* . .venv/bin/activate, under set -e
Activate(d) ==
    /\ stage[d] = "activate"
    /\ Goto(d, IF venv = "ready" THEN "pip" ELSE "failed")
    /\ UNCHANGED <<repository, server, target, latest, alone, left>>

\* Mutant: what is installed once is not installed again.
PipReadsUnlessInstalled(d) ==
    /\ stage[d] = "pip"
    /\ target' = [target EXCEPT ![d] = IF installed = None THEN tree[Package] ELSE installed]
    /\ Goto(d, "install")
    /\ UNCHANGED <<repository, server, latest, alone, left>>

\* pip install -e . reads pyproject.toml, then installs what it requires.
PipReads(d) ==
    /\ stage[d] = "pip"
    /\ target' = [target EXCEPT ![d] = tree[Package]]
    /\ Goto(d, "install")
    /\ UNCHANGED <<repository, server, latest, alone, left>>

PipInstalls(d) ==
    /\ stage[d] = "install"
    /\ installed' = target[d]
    /\ Goto(d, "smoke")
    /\ UNCHANGED <<repository, tree, todo, lock, venv, target, latest, alone, left>>

\* What is installed is what the package of the working tree asks for.
Consistent == installed = tree[Package]

\* datagate --version imports the package, which may need what is missing.
Smoke(d) ==
    /\ stage[d] = "smoke"
    /\ \E s \in {"succeeded"} \cup {x \in {"failed"} : ~Consistent} : Goto(d, s)
    /\ UNCHANGED <<repository, server, target, latest, alone, left>>

-----------------------------------------------------------------------------
Step(d) ==
    \/ Start(d) \/ Fetch(d) \/ Resolve(d) \/ Lock(d) \/ Checkout(d) \/ EndReset(d)
    \/ LookForVenv(d) \/ MakeDirectory(d) \/ Populate(d) \/ Activate(d)
    \/ PipReads(d) \/ PipInstalls(d) \/ Smoke(d)

Next == Push \/ \E d \in Deployments : Step(d) \/ Interrupt(d) \/ Fails(d)

Spec == Init /\ [][Next]_vars

-----------------------------------------------------------------------------
Succeeds(d) == stage[d] # "succeeded" /\ stage'[d] = "succeeded"

\* A deployment that overlapped with no other and succeeds leaves all files at
\* the commit main had when it fetched, with that commit's requirements
\* installed in a complete virtualenv (deploy.sh:20-33).
DeployedIsCurrent ==
    [][\A d \in Deployments : Succeeds(d) /\ alone[d] =>
          /\ tree = [f \in Files |-> latest[d]]
          /\ installed = latest[d]
          /\ venv = "ready"]_vars

\* No step of a deployment that overlaps with no other puts an older commit in
\* place of a file or of what is installed (deploy.sh:20, 30).
NeverBackwards ==
    [][\A d \in Deployments : Step(d) /\ alone'[d] =>
          /\ \A f \in Files : tree'[f] >= tree[f]
          /\ installed \in Versions /\ installed' \in Versions => installed' >= installed]_vars

\* The working tree mixes two commits only while somebody replaces its files,
\* or until the next reset that goes through after one that was cut off or
\* failed half-way (deploy.sh:20, .git/index.lock).
OneCommit ==
    \/ \E v \in Versions : tree = [f \in Files |-> v]
    \/ \E d \in Deployments : stage[d] = "checkout"
    \/ "checkout" \in left

\* "Idempotent and safe to run repeatedly" (deploy.sh:4): a deployment that is
\* not disturbed by another, and whose commands do not fail by themselves, goes
\* through, whatever happened to those before it.
RepeatSucceeds == \A d \in Deployments : alone[d] => stage[d] # "failed"

\* All that can keep it from going through is the index lock of a reset that was
\* killed and a virtualenv whose creation was cut off or failed, and both do so
\* for good: nothing else that an earlier deployment left half done stands in
\* the way of a later one (deploy.sh:11, 20, 23-27).
OnlyLeftoversBlock ==
    \/ RepeatSucceeds
    \/ \E d \in Deployments : lock = d /\ stage[d] = "interrupted"
    \/ "populate" \in left
=============================================================================
