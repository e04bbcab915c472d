------------------------------ MODULE MCServer ------------------------------
EXTENDS Server, TLC

Samples == INSTANCE MCOutcomes
    WITH Names <- {"users", "orders", "id", "ref"}, Types <- {"integer", "int"},
         Tokens <- {}, Sizes <- {0, 32}

MCJudgement == Samples!Counts
MCStates    == DOMAIN Samples!Schemas

-----------------------------------------------------------------------------
(* Files 1 and 2 are the contracts, file 0 is the package. *)

MCPackage == 0
MCPaths   == {1, 2}
MCFiles   == {0, 1, 2}

File(kind)  == [kind |-> kind, contract |-> None]
Holding(id) == [kind |-> "contract", contract |-> id]

\* One contract breaks, comes back alone, and gives way to another whose version
\* is no number.  While the last commit is checked out there may be none.
MCCommits == << <<Holding("key"), Holding("closed")>>,
                <<File("bad_yaml"), Holding("key")>>,
                <<Holding("closed"), File("absent")>>,
                <<File("absent"), File("bad_number")>> >>

MCVersions == 1..4

\* A contract whose version is no number between two that are well-formed.
ThreePaths == {1, 2, 3}
ThreeFiles == {0, 1, 2, 3}
BetweenTwo == << <<Holding("key"), File("bad_number"), Holding("closed")>> >>

BothModes  == {"verify", "contract_only"}
VerifyOnly == {"verify"}
AllFaults  == {"session", "write", "kill"}
NoFaults   == {}
Nothing    == {}
DriftRaises == {"drift"}
AnyCommand == {"fetch", "reset", "checkout", "create", "populate", "pip", "install", "smoke"}
VenvOnly   == {"populate"}

\* Deployments differ in nothing but their names.
AnyOrder == Permutations(Deployments)
=============================================================================
