---------------------------- MODULE DirectoryRun ----------------------------
(***************************************************************************)
(* Invocations of `datagate verify <directory> -o <report>`, one after the *)
(* other, and `datagate report` on what they leave (cli._verify_directory, *)
(* cli._cmd_report, verifier.find_contracts and run_directory,             *)
(* report.AggregateReport, reporting.score_of).                            *)
(*                                                                         *)
(* The working tree maps each file to the version of the repository it     *)
(* comes from; paths are numbered in the order sorted() gives them.        *)
(* Reading one catalogue is one step here: Verifier takes it apart.        *)
(***************************************************************************)
EXTENDS Integers, FiniteSetsExt, Outcomes

CONSTANTS
    Files,          \* the files of the repository
    Paths,          \* ... those a contract of the directory may be in
    Versions,       \* versions of the repository
    Commits,        \* what each version has at each path
    States,         \* states of the database
    MayRaise,       \* checks that may raise (none of the default ones does)
    Judgement,      \* errors and warnings of each contract on each of the states,
                    \* whichever checks raise
    Modes,          \* "verify" and "contract_only" (--contract-only)
    Faults,         \* failures of the environment
    None,           \* Python's None
    MaxRounds,      \* bound: invocations
    MaxMoves        \* bound: changes of the database

ASSUME DirectoryAssumption ==
    /\ Paths \subseteq Files /\ Files \subseteq Nat /\ IsFiniteSet(Paths)
    /\ Commits \in [Versions -> [Paths -> [kind : FileKinds, contract : DOMAIN Judgement \cup {None}]]]
    /\ \A v \in Versions, p \in Paths :
          Commits[v][p].kind = "contract" => Commits[v][p].contract \in DOMAIN Judgement
    /\ \A c \in DOMAIN Judgement :
          Judgement[c] \in [States -> [SUBSET MayRaise -> [errors : Nat, warnings : Nat]]]
    /\ \A c \in DOMAIN Judgement, s \in States, raising \in SUBSET MayRaise :
          Judgement[c][s][raising].errors <= Judgement[c][s][{}].errors
    /\ Modes \subseteq {"verify", "contract_only"}
    /\ MaxRounds \in Nat /\ MaxMoves \in Nat
    /\ None \notin Versions /\ None \notin Nat

VARIABLES
    db,         \* the state of the database
    moves,      \* number of changes it has gone through
    tree,       \* the working tree: a version for each file
    round,      \* number of the invocation, the present or the last one
    pc,         \* its control point
    mode,       \* its mode
    found,      \* what find_contracts listed
    loaded,     \* the version the present contract was read from
    results,    \* a Report for each contract so far
    report,     \* the report path
    page,       \* what `datagate report` rendered last
    exit,       \* exit code
    quiet,      \* auxiliary: database and tree are as when the invocation began
    raised      \* auxiliary: the checks that have raised in it

outside == <<db, moves, tree>>
vars == <<db, moves, tree, round, pc, mode, found, loaded, results, report, page, exit, quiet,
          raised>>

Content(p) == Commits[tree[p]][p]

Present == {p \in Paths : Content(p).kind # "absent"}

\* The contract whose turn it is.
Remaining == found \ DOMAIN results
Current == CHOOSE p \in Remaining : \A q \in Remaining : p <= q

-----------------------------------------------------------------------------
(* report.AggregateReport and reporting.score_of *)

Verdict(counts) ==
    [status |-> IF counts.errors > 0 THEN "fail" ELSE "pass",
     errors |-> counts.errors, warnings |-> counts.warnings]

Clean == Verdict([errors |-> 0, warnings |-> 0])

\* error_report has no findings.
Broken == [status |-> "error", errors |-> 0, warnings |-> 0]

StatusesIn(rs) == {rs[p].status : p \in DOMAIN rs}

\* Mutant: FAIL hides ERROR.
FailFirst(rs) ==
    IF "fail" \in StatusesIn(rs) THEN "fail"
    ELSE IF "error" \in StatusesIn(rs) THEN "error" ELSE "pass"

\* AggregateReport.status: the worst of them.
AggregateStatus(rs) ==
    IF "error" \in StatusesIn(rs) THEN "error"
    ELSE IF "fail" \in StatusesIn(rs) THEN "fail" ELSE "pass"

\* conformance_score
SingleScore(r) ==
    CASE r.status = "pass"  -> 100
      [] r.status = "error" -> 0
      [] r.status = "fail"  ->
            LET score == 100 - 10 * r.errors - 2 * r.warnings
            IN  IF score > 0 THEN score ELSE 0

\* Mutant: the mean is rounded up.
RoundUp(sum, n) == (sum + n - 1) \div n

\* Python's round(sum / n): to the nearest integer, from halfway to the even one.
Round(sum, n) ==
    LET floor == sum \div n
        twice == 2 * (sum % n)
    IN  IF twice > n \/ (twice = n /\ floor % 2 = 1) THEN floor + 1 ELSE floor

\* score_of an aggregate report.
ScoreOf(rs) ==
    IF DOMAIN rs = {} THEN 100
    ELSE Round(MapThenSumSet(LAMBDA p : SingleScore(rs[p]), DOMAIN rs),
               Cardinality(DOMAIN rs))

-----------------------------------------------------------------------------
NoResults == [p \in {} |-> Clean]

Init ==
    /\ db \in States
    /\ moves = 0
    /\ \E v \in Versions : tree = [f \in Files |-> v]
    /\ round = 0
    /\ pc = "idle"
    /\ mode = "verify"
    /\ found = {}
    /\ loaded = None
    /\ results = NoResults
    /\ report = [kind |-> "absent", round |-> 0, results |-> NoResults]
    /\ page = [round |-> 0, results |-> NoResults]
    /\ exit = None
    /\ quiet = FALSE
    /\ raised = {}

Exit(code) == pc' = "idle" /\ exit' = code

\* results.append(...), then on to the next contract or to the report.
Record(r) ==
    /\ results' = [p \in DOMAIN results \cup {Current} |->
                      IF p = Current THEN r ELSE results[p]]
    /\ pc' = IF Remaining = {Current} THEN "open" ELSE "locate"

-----------------------------------------------------------------------------
(* The environment *)

MoveDb ==
    /\ moves < MaxMoves
    /\ db' \in States \ {db}
    /\ moves' = moves + 1
    /\ quiet' = FALSE
    /\ UNCHANGED <<tree, round, pc, mode, found, loaded, results, report, page, exit,
                   raised>>

\* Somebody changes a file of the working tree.
EditTree ==
    /\ \E f \in Files : \E v \in Versions \ {tree[f]} : tree' = [tree EXCEPT ![f] = v]
    /\ quiet' = FALSE
    /\ UNCHANGED <<db, moves, round, pc, mode, found, loaded, results, report, page, exit,
                   raised>>

Kill ==
    /\ "kill" \in Faults
    /\ pc # "idle"
    /\ Exit(Signal)
    /\ UNCHANGED <<outside, round, mode, found, loaded, results, report, page, quiet, raised>>

-----------------------------------------------------------------------------
(* One invocation *)

Begin ==
    /\ pc = "idle"
    /\ round < MaxRounds
    /\ round' = round + 1
    /\ mode' \in Modes
    /\ found' = {}
    /\ loaded' = None
    /\ results' = NoResults
    /\ quiet' = TRUE
    /\ raised' = {}
    /\ UNCHANGED <<outside, report, page>>

Start == Begin /\ pc' = "list" /\ exit' = None

\* The package does not import: ModuleNotFoundError.
StartFails == Begin /\ Exit(Traceback)

\* Mutant: the report tells that there was nothing to verify.
ListContractsAnyhow ==
    /\ pc = "list"
    /\ found' = Present
    /\ pc' = IF Present = {} THEN "open" ELSE "locate"
    /\ UNCHANGED <<outside, round, mode, loaded, results, report, page, exit, quiet, raised>>

\* find_contracts; an empty directory ends the run before any report.
ListContracts ==
    /\ pc = "list"
    /\ found' = Present
    /\ IF Present = {} THEN Exit(ExitCode("error")) ELSE pc' = "locate" /\ UNCHANGED exit
    /\ UNCHANGED <<outside, round, mode, loaded, results, report, page, quiet, raised>>

\* load_contract: contract_path.is_file()
Locate ==
    /\ pc = "locate"
    /\ IF Content(Current).kind = "absent"
       THEN Record(Broken)
       ELSE pc' = "read" /\ UNCHANGED results
    /\ UNCHANGED <<outside, round, mode, found, loaded, report, page, exit, quiet, raised>>

\* ... and the rest of Contract.from_file; --contract-only asks no more.
ReadContract ==
    /\ pc = "read"
    /\ Content(Current).kind = "contract"
    /\ loaded' = tree[Current]
    /\ IF mode = "contract_only"
       THEN Record(Clean)
       ELSE pc' = "judge" /\ UNCHANGED results
    /\ UNCHANGED <<outside, round, mode, found, report, page, exit, quiet, raised>>

RejectContract ==
    /\ pc = "read"
    /\ Content(Current).kind \in Rejected
    /\ Record(Broken)
    /\ UNCHANGED <<outside, round, mode, found, loaded, report, page, exit, quiet, raised>>

\* An exception none of the loops catches: the results so far are lost.
CrashOnContract ==
    /\ pc = "read"
    /\ Content(Current).kind \in Uncaught
    /\ Exit(Traceback)
    /\ UNCHANGED <<outside, round, mode, found, loaded, results, report, page, quiet, raised>>

\* The rest of run(): a session, the queries, the checks.  A check that raises
\* contributes no finding.
Judge ==
    /\ pc = "judge"
    /\ \E raising \in SUBSET MayRaise :
          /\ Record(Verdict(Judgement[Commits[loaded][Current].contract][db][raising]))
          /\ raised' = raised \cup raising
    /\ UNCHANGED <<outside, round, mode, found, loaded, report, page, exit, quiet>>

\* Each contract has a session of its own, which may fail on its own.
SessionFails ==
    /\ pc = "judge"
    /\ "session" \in Faults
    /\ Record(Broken)
    /\ UNCHANGED <<outside, round, mode, found, loaded, report, page, exit, quiet, raised>>

\* AggregateReport.write empties the path, then writes the text.
OpenReport ==
    /\ pc = "open"
    /\ report' = [kind |-> "empty", round |-> round, results |-> NoResults]
    /\ pc' = "write"
    /\ UNCHANGED <<outside, round, mode, found, loaded, results, page, exit, quiet, raised>>

WriteReport ==
    /\ pc = "write"
    /\ report' = [kind |-> "whole", round |-> round, results |-> results]
    /\ pc' = "finish"
    /\ UNCHANGED <<outside, round, mode, found, loaded, results, page, exit, quiet, raised>>

\* Mutant: a report that cannot be written does not change the exit code.
WriteFailsUnnoticed ==
    /\ "write" \in Faults
    /\ \/ pc = "open" /\ UNCHANGED report
       \/ pc = "write" /\ report' = [kind |-> "torn", round |-> round, results |-> NoResults]
    /\ Exit(ExitCode(AggregateStatus(results)))
    /\ UNCHANGED <<outside, round, mode, found, loaded, results, page, quiet, raised>>

WriteFails ==
    /\ "write" \in Faults
    /\ \/ pc = "open" /\ UNCHANGED report
       \/ pc = "write" /\ report' = [kind |-> "torn", round |-> round, results |-> NoResults]
    /\ Exit(ExitCode("error"))
    /\ UNCHANGED <<outside, round, mode, found, loaded, results, page, quiet, raised>>

Finish ==
    /\ pc = "finish"
    /\ Exit(ExitCode(AggregateStatus(results)))
    /\ UNCHANGED <<outside, round, mode, found, loaded, results, report, page, quiet, raised>>

\* `datagate report`: what is no whole JSON document is refused with exit
\* code 2, and the last page stays.
Render ==
    /\ report.kind = "whole"
    /\ page' = [round |-> report.round, results |-> report.results]
    /\ UNCHANGED <<outside, round, pc, mode, found, loaded, results, report, exit, quiet, raised>>

-----------------------------------------------------------------------------
Step ==
    \/ ListContracts \/ Locate \/ ReadContract \/ RejectContract \/ CrashOnContract
    \/ Judge \/ SessionFails \/ OpenReport \/ WriteReport \/ WriteFails \/ Finish

Next ==
    \/ MoveDb \/ EditTree \/ Kill
    \/ Start \/ StartFails \/ Step
    \/ Render

Spec == Init /\ [][Next]_vars

-----------------------------------------------------------------------------
Result == [status : Statuses, errors : Nat, warnings : Nat]

ReportKinds == {"absent", "empty", "torn", "whole"}

IsResults(rs) == DOMAIN rs \subseteq Paths /\ rs \in [DOMAIN rs -> Result]

TypeOK ==
    /\ db \in States /\ moves \in 0..MaxMoves
    /\ tree \in [Files -> Versions]
    /\ round \in 0..MaxRounds
    /\ pc \in {"idle", "list", "locate", "read", "judge", "open", "write", "finish"}
    /\ mode \in {"verify", "contract_only"}
    /\ found \subseteq Paths
    /\ loaded \in Versions \cup {None}
    /\ IsResults(results)
    /\ report.kind \in ReportKinds /\ report.round \in 0..round /\ IsResults(report.results)
    /\ page.round \in 0..round /\ IsResults(page.results)
    /\ exit \in {None, 0, 1, 2, Signal}
    /\ quiet \in BOOLEAN
    /\ raised \subseteq MayRaise

\* The report path holds the whole report of the present invocation.
OwnReport == report.kind = "whole" /\ report.round = round

\* The contract at path p is well-formed and, unless the database is not asked,
\* has no errors on it.
Accepted(p) ==
    /\ Content(p).kind = "contract"
    /\ mode = "verify" => Judgement[Content(p).contract][db][{}].errors = 0

\* As long as neither the files nor the database have changed since it began,
\* the exit code of an invocation tells what the directory is: 0 that every
\* contract in it is accepted, unless a check raised (it hides its faults, but
\* never invents one: engine.py:38), 1 with a report that one is contradicted
\* and none is malformed (verifier.py:103, report.py:170).
QuietVerdict ==
    quiet /\ pc = "idle" =>
        /\ exit = 0 => /\ Present # {}
                       /\ raised = {} => \A p \in Present : Accepted(p)
        /\ exit = 1 /\ OwnReport =>
              /\ \A p \in Present : Content(p).kind = "contract"
              /\ \E p \in Present : ~Accepted(p)

\* Exit code 0 comes with a whole report of the invocation's own, with a PASS
\* for every contract that was found, whatever happened to them meanwhile
\* (cli.py:213-238).
PassHasReport ==
    [][exit # 0 /\ exit' = 0 =>
          /\ OwnReport'
          /\ found # {} /\ DOMAIN report'.results = found
          /\ \A p \in found : report'.results[p].status = "pass"]_vars

\* After an invocation that exits 0, or 1 because a contract failed,
\* `datagate report` shows that invocation; it never shows an invocation with a
\* status other than that of the exit code it left with, unless it was killed
\* (cli.py:286).  After a traceback, or exit code 2, it may show an older one.
PageTellsExit ==
    [][page' # page /\ pc = "idle" =>
          /\ exit = 0 \/ (exit = 1 /\ found # {} /\ DOMAIN results = found) =>
                page'.round = round
          /\ page'.round = round /\ exit # Signal =>
                exit = ExitCode(AggregateStatus(page'.results))]_vars

\* "Each contract is independent: an ERROR on one does not stop the others"
\* (verifier.py:112): an invocation that ends by itself has a result for every
\* contract it found.
EachContractReported == pc = "idle" /\ exit \in {0, 1, 2} => DOMAIN results = found

\* The results of a page, and those of n more contracts that pass.
Among(n) == [p \in DOMAIN page.results \cup {100 + i : i \in 1..n} |->
                IF p \in DOMAIN page.results THEN page.results[p] ELSE Clean]

\* A page shows 100% exactly when its status is PASS, as long as the directory
\* has fewer than twenty contracts: then the mean of one failed contract among
\* passed ones is rounded to 100 (reporting.py:52).
ScoreAgreesWithStatus ==
    \A n \in {0, 1, 10, 17} : Cardinality(DOMAIN page.results) + n < 20 =>
        (ScoreOf(Among(n)) = 100 <=> AggregateStatus(page.results) = "pass")
=============================================================================
