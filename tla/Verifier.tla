------------------------------ MODULE Verifier ------------------------------
(***************************************************************************)
(* Invocations of `datagate verify <contract> -o <report>`                 *)
(* (cli._cmd_verify, verifier.run, db.connect, Introspector.introspect,    *)
(* engine.run_checks, Report.write), against a database that other         *)
(* sessions migrate, a contract file that a deployment may replace, and    *)
(* one report path that all invocations share.                             *)
(*                                                                         *)
(* The connection is in autocommit mode, so each of the five catalogue     *)
(* queries is a transaction, and an action, of its own: migrations commit  *)
(* between them.                                                           *)
(***************************************************************************)
EXTENDS Meaning, Introspect, Outcomes

CONSTANTS
    Runs,               \* invocations; each happens at most once
    Modes,              \* "verify" and "contract_only" (--contract-only)
    Catalogues,         \* the states the database can be in
    InitialCatalogues,  \* ... to begin with
    Migrations,         \* ... and what one committed migration can make of each
    Files,              \* what can be at the contract path
    MayEdit,            \* whether the file may be replaced meanwhile
    Faults,             \* failures of the environment
    MayRaise,           \* checks that may raise (none of the default ones does)
    MaxActive,          \* bound: invocations under way at once
    MaxMigrations       \* bound: migrations committed

FaultKinds == {"connect", "setup", "query", "open", "write", "kill"}

ASSUME VerifierAssumption ==
    /\ Modes \subseteq {"verify", "contract_only"}
    /\ InitialCatalogues \subseteq Catalogues
    /\ Migrations \in [Catalogues -> SUBSET Catalogues]
    /\ \A f \in Files : f.kind \in FileKinds
    /\ Faults \subseteq FaultKinds
    /\ MayRaise \subseteq CheckNames
    /\ MaxActive \in Nat /\ MaxMigrations \in Nat
    /\ None \notin Runs /\ None \notin Nat /\ None \notin Statuses

VARIABLES
    db,         \* the catalogue of the live database
    migrations, \* number of migrations committed
    file,       \* what is at the contract path
    pc,         \* control point of each invocation
    mode,       \* its mode
    contract,   \* the contract it has loaded
    session,    \* its PostgreSQL session
    fetched,    \* number of catalogue queries answered
    got,        \* their grouped results
    failed,     \* whether it closes the session because of an error
    raised,     \* the checks that raised
    status,     \* the status of its Report, None before there is one
    artifact,   \* the report path: what is there, and who wrote it last
    exit,       \* exit code
    window      \* auxiliary: the states of db while its queries ran

env  == <<db, migrations, file>>
vars == <<db, migrations, file, pc, mode, contract, session, fetched, got,
          failed, raised, status, artifact, exit, window>>

ControlPoints == {"idle", "locate", "read", "connect", "setup", "fetch", "close",
                  "check", "open", "write", "finish", "done"}

Active == {r \in Runs : pc[r] \notin {"idle", "done"}}

Init ==
    /\ db \in InitialCatalogues
    /\ migrations = 0
    /\ file \in Files
    /\ pc = [r \in Runs |-> "idle"]
    /\ mode \in [Runs -> Modes]
    /\ contract = [r \in Runs |-> None]
    /\ session = [r \in Runs |-> "none"]
    /\ fetched = [r \in Runs |-> 0]
    /\ got = [r \in Runs |-> [q \in QueryNames |-> None]]
    /\ failed = [r \in Runs |-> FALSE]
    /\ raised = [r \in Runs |-> {}]
    /\ status = [r \in Runs |-> None]
    /\ artifact = [kind |-> "absent", by |-> None]
    /\ exit = [r \in Runs |-> None]
    /\ window = [r \in Runs |-> {}]

Goto(r, point) == pc' = [pc EXCEPT ![r] = point]

Report(r, s) == status' = [status EXCEPT ![r] = s]

Exit(r, code) == Goto(r, "done") /\ exit' = [exit EXCEPT ![r] = code]

\* An ERROR report takes the place of the rest of verifier.run.
ErrorReport(r) == Goto(r, "open") /\ Report(r, "error")

-----------------------------------------------------------------------------
(* The environment. *)

Migrate ==
    /\ migrations < MaxMigrations
    /\ db' \in Migrations[db]
    /\ window' = [r \in Runs |-> IF pc[r] = "fetch" THEN window[r] \cup {db'} ELSE window[r]]
    /\ migrations' = migrations + 1
    /\ UNCHANGED <<file, pc, mode, contract, session, fetched, got, failed, raised,
                   status, artifact, exit>>

\* A deployment's `git reset --hard`, or an editor, replaces the contract.
EditFile ==
    /\ MayEdit
    /\ file' \in Files \ {file}
    /\ UNCHANGED <<db, migrations, pc, mode, contract, session, fetched, got, failed,
                   raised, status, artifact, exit, window>>

\* The CI job is cancelled: the process is gone, the server ends its session.
Kill(r) ==
    /\ "kill" \in Faults
    /\ r \in Active
    /\ Exit(r, Signal)
    /\ session' = [session EXCEPT ![r] = IF @ = "none" THEN @ ELSE "closed"]
    /\ UNCHANGED <<env, mode, contract, fetched, got, failed, raised, status, artifact, window>>

-----------------------------------------------------------------------------
(* load_contract and Contract.from_mapping *)

Start(r) ==
    /\ pc[r] = "idle"
    /\ Cardinality(Active) < MaxActive
    /\ Goto(r, "locate")
    /\ UNCHANGED <<env, mode, contract, session, fetched, got, failed, raised, status,
                   artifact, exit, window>>

\* contract_path.is_file()
LocateContract(r) ==
    /\ pc[r] = "locate"
    /\ IF file.kind = "absent"
       THEN ErrorReport(r)
       ELSE Goto(r, "read") /\ UNCHANGED status
    /\ UNCHANGED <<env, mode, contract, session, fetched, got, failed, raised, artifact,
                   exit, window>>

\* The file is opened, parsed and typed.  --contract-only ends there with a
\* report that has no findings.
ReadContract(r) ==
    /\ pc[r] = "read"
    /\ file.kind = "contract"
    /\ contract' = [contract EXCEPT ![r] = file.contract]
    /\ IF mode[r] = "contract_only"
       THEN Goto(r, "open") /\ Report(r, StatusFromFindings({}))
       ELSE Goto(r, "connect") /\ UNCHANGED status
    /\ UNCHANGED <<env, mode, session, fetched, got, failed, raised, artifact, exit, window>>

RejectContract(r) ==
    /\ pc[r] = "read"
    /\ file.kind \in Rejected
    /\ ErrorReport(r)
    /\ UNCHANGED <<env, mode, contract, session, fetched, got, failed, raised, artifact,
                   exit, window>>

CrashOnContract(r) ==
    /\ pc[r] = "read"
    /\ file.kind \in Uncaught
    /\ Exit(r, Traceback)
    /\ UNCHANGED <<env, mode, contract, session, fetched, got, failed, raised, status,
                   artifact, window>>

-----------------------------------------------------------------------------
(* db.connect around Introspector.introspect *)

Connect(r) ==
    /\ pc[r] = "connect"
    /\ session' = [session EXCEPT ![r] = "open"]
    /\ Goto(r, "setup")
    /\ UNCHANGED <<env, mode, contract, fetched, got, failed, raised, status, artifact,
                   exit, window>>

\* No DSN (ConfigurationError), or no connection (DatabaseConnectionError).
ConnectFails(r) ==
    /\ "connect" \in Faults
    /\ pc[r] = "connect"
    /\ ErrorReport(r)
    /\ UNCHANGED <<env, mode, contract, session, fetched, got, failed, raised, artifact,
                   exit, window>>

\* autocommit, read_only, and SET default_transaction_read_only = on.
SetReadOnly(r) ==
    /\ pc[r] = "setup"
    /\ session' = [session EXCEPT ![r] = "readonly"]
    /\ window' = [window EXCEPT ![r] = {db}]
    /\ Goto(r, "fetch")
    /\ UNCHANGED <<env, mode, contract, fetched, got, failed, raised, status, artifact, exit>>

\* One catalogue query, on the snapshot of its own transaction.
FetchNext(r) ==
    /\ pc[r] = "fetch"
    /\ LET query == Queries[fetched[r] + 1]
       IN  got' = [got EXCEPT ![r][query] = Fetch(query, db)]
    /\ fetched' = [fetched EXCEPT ![r] = @ + 1]
    /\ Goto(r, IF fetched[r] + 1 = Len(Queries) THEN "close" ELSE "fetch")
    /\ UNCHANGED <<env, mode, contract, session, failed, raised, status, artifact, exit, window>>

\* Mutant: a failed session is tried again, as often as it fails.
SessionRetries(r) ==
    /\ \/ "setup" \in Faults /\ pc[r] = "setup"
       \/ "query" \in Faults /\ pc[r] = "fetch"
    /\ fetched' = [fetched EXCEPT ![r] = 0]
    /\ Goto(r, "connect")
    /\ UNCHANGED <<env, mode, contract, session, got, failed, raised, status, artifact,
                   exit, window>>

\* psycopg.Error becomes a DatabaseConnectionError, anything a query raises an
\* IntrospectionError; both leave through the finally clause.
SessionFails(r) ==
    /\ \/ "setup" \in Faults /\ pc[r] = "setup"
       \/ "query" \in Faults /\ pc[r] = "fetch"
    /\ failed' = [failed EXCEPT ![r] = TRUE]
    /\ Goto(r, "close")
    /\ UNCHANGED <<env, mode, contract, session, fetched, got, raised, status, artifact,
                   exit, window>>

\* Mutant: the session is closed on the normal path only.
CloseUnlessFailed(r) ==
    /\ pc[r] = "close"
    /\ IF failed[r]
       THEN ErrorReport(r) /\ UNCHANGED session
       ELSE /\ session' = [session EXCEPT ![r] = "closed"]
            /\ Goto(r, "check")
            /\ UNCHANGED status
    /\ UNCHANGED <<env, mode, contract, fetched, got, failed, raised, artifact, exit, window>>

Close(r) ==
    /\ pc[r] = "close"
    /\ session' = [session EXCEPT ![r] = "closed"]
    /\ IF failed[r] THEN ErrorReport(r) ELSE Goto(r, "check") /\ UNCHANGED status
    /\ UNCHANGED <<env, mode, contract, fetched, got, failed, raised, artifact, exit, window>>

-----------------------------------------------------------------------------
(* run_checks, build_report, Report.write and the exit code *)

\* The schema the checks see, and the findings of the report.
Seen(r) == Assemble(got[r])

Findings(r) == RunChecks(CheckNames, raised[r], contract[r], Seen(r))

Check(r) ==
    /\ pc[r] = "check"
    /\ \E raising \in SUBSET MayRaise :
          /\ raised' = [raised EXCEPT ![r] = raising]
          /\ Report(r, StatusFromFindings(RunChecks(CheckNames, raising, contract[r], Seen(r))))
    /\ Goto(r, "open")
    /\ UNCHANGED <<env, mode, contract, session, fetched, got, failed, artifact, exit, window>>

\* Mutant: the report is appended to the one before.
OpenToAppend(r) ==
    /\ pc[r] = "open"
    /\ Goto(r, "write")
    /\ UNCHANGED <<env, mode, contract, session, fetched, got, failed, raised, status,
                   artifact, exit, window>>

\* write_text opens the path for writing, which empties it.
OpenReport(r) ==
    /\ pc[r] = "open"
    /\ artifact' = [kind |-> "empty", by |-> r]
    /\ Goto(r, "write")
    /\ UNCHANGED <<env, mode, contract, session, fetched, got, failed, raised, status,
                   exit, window>>

\* If another invocation has written since, its tail shows when it is longer.
WriteReport(r) ==
    /\ pc[r] = "write"
    /\ \E kind \in {"whole"} \cup {k \in {"torn"} : artifact.kind # "empty"} :
          artifact' = [kind |-> kind, by |-> r]
    /\ Goto(r, "finish")
    /\ UNCHANGED <<env, mode, contract, session, fetched, got, failed, raised, status,
                   exit, window>>

\* Mutant: a report that cannot be written does not change the exit code.
WriteFailsUnnoticed(r) ==
    /\ \/ "open" \in Faults /\ pc[r] = "open" /\ UNCHANGED artifact
       \/ "write" \in Faults /\ pc[r] = "write" /\ artifact' = [kind |-> "torn", by |-> r]
    /\ Exit(r, ExitCode(status[r]))
    /\ UNCHANGED <<env, mode, contract, session, fetched, got, failed, raised, status, window>>

\* Mutant: nobody catches the OSError.
WriteFailsUncaught(r) ==
    /\ \/ "open" \in Faults /\ pc[r] = "open" /\ UNCHANGED artifact
       \/ "write" \in Faults /\ pc[r] = "write" /\ artifact' = [kind |-> "torn", by |-> r]
    /\ Exit(r, Traceback)
    /\ UNCHANGED <<env, mode, contract, session, fetched, got, failed, raised, status, window>>

\* OSError: before the path is emptied, or with part of the text written.
WriteFails(r) ==
    /\ \/ "open" \in Faults /\ pc[r] = "open" /\ UNCHANGED artifact
       \/ "write" \in Faults /\ pc[r] = "write" /\ artifact' = [kind |-> "torn", by |-> r]
    /\ Exit(r, ExitCode("error"))
    /\ UNCHANGED <<env, mode, contract, session, fetched, got, failed, raised, status, window>>

Finish(r) ==
    /\ pc[r] = "finish"
    /\ Exit(r, ExitCode(status[r]))
    /\ UNCHANGED <<env, mode, contract, session, fetched, got, failed, raised, status,
                   artifact, window>>

-----------------------------------------------------------------------------
\* What an invocation does by itself once it has been started.
Step(r) ==
    \/ LocateContract(r) \/ ReadContract(r) \/ RejectContract(r) \/ CrashOnContract(r)
    \/ Connect(r) \/ ConnectFails(r) \/ SetReadOnly(r) \/ FetchNext(r)
    \/ SessionFails(r) \/ Close(r)
    \/ Check(r) \/ OpenReport(r) \/ WriteReport(r) \/ WriteFails(r) \/ Finish(r)

Next ==
    \/ Migrate
    \/ EditFile
    \/ \E r \in Runs : Start(r) \/ Kill(r) \/ Step(r)

Spec == Init /\ [][Next]_vars

\* Where the server has to answer before the invocation goes on: there is no
\* timeout, so it may wait there for good.
AtServer == {"connect", "setup", "fetch"}

LocalStep(r) == pc[r] \notin AtServer /\ Step(r)

\* A started process is scheduled; of the server nothing is assumed.
FairSpec == Spec /\ \A r \in Runs : WF_vars(LocalStep(r))
=============================================================================
