# A verification development for the PATRICK AI Factory Data Gate

The Data Gate checks a live PostgreSQL schema against a YAML contract and turns
the result into a report and an exit code that a pipeline acts on. This
directory holds TLA+ models of its core, the TLC runs that check them, and
theorems about them with machine-checked proofs. File and line references are to
the package `datagate/` unless they say otherwise.

## 1. Inventory

| Component | State it keeps | Operations | Correct when |
|---|---|---|---|
| Domain model `models.py` | none (frozen values) | lookups by name | - |
| Contract `contract.py` | none | `load_contract`, `Contract.from_mapping` | every document gives a typed contract or a `ContractError` |
| Introspection `introspect.py` | none of its own; five queries on a session | `introspect`, `build_*` | the schema is the database's |
| Session `db.py` | one PostgreSQL session | `connect` | read-only before use, always closed |
| Checks `checks/` | none | six `run(contract, schema)` | together they find exactly what the contract rules out |
| Engine `engine.py` | none | `run_checks` | a raising check neither stops the run nor invents a fault |
| Report `report.py` | the report file | `status_from_findings`, `write` | exit code, status and file agree |
| Run `verifier.py`, `cli.py` | the above in order; the results of a directory so far | `run`, `validate_contract`, `run_directory` | PASS means conforms; failures become ERROR, and only a contract that cannot be loaded is raised; one ERROR does not stop the others (it may: `directory_stopped`) |
| Generator `generator.py` | none | `contract_from_schema` | a draft verifies clean and records what it claims |
| Differ `differ.py` | none | `diff_contracts` | exit code 0 means compatible, through any chain of releases, and agrees with the parser and the checks |
| Reporting `reporting.py` | the page | `score_of`, `render_*` | the page tells what the report says |
| Docs `docsgen.py` | the pages | `_tables`, `_keys_for`, `_type_of` | the pages tell what the contract is read as |
| Deployment `scripts/deploy.sh`, workflows, action, image | checkout, venv | fetch, reset, install | repeatable after an interruption or a failing command |

How they interact: `cli._cmd_verify` calls `verifier.run`, which loads the
contract, opens a session, introspects, closes the session, runs the checks on
the two values and returns a report; the CLI writes it and exits with its code.
On a directory, `run_directory` does so for each contract that `find_contracts`
listed and the CLI writes one aggregate report, which `datagate report` turns into
a page. `diff` and `docs` read contract documents without the parser, or a contract
generated from a live database.

The program is single-threaded. What is concurrent is its surroundings, and four
things are shared with them: the **catalogue** (other sessions migrate it between
queries), the **working tree** with the contract files and, because the install is
editable, the package (a deployment's `git reset --hard` replaces them), the
**report path** (a fixed default, `artifacts/`, which overlapping jobs share)
and the **process itself** (a cancelled job is killed at any point).

The hard behaviours follow from that: the five catalogue queries are five
transactions, because the session is in autocommit mode (`db.py:72`), so a schema
can be assembled from several database states; `is_file()` and `open()` are two
steps; `write_text` empties the file first and fills it later; and every call can
fail, with some exceptions caught and some not. Contract documents are read by
three readers, the parser, the differ and the documentation, each with rules of its
own. Deployments overlap, because the workflow has no concurrency group, are cut
off, and end at the first command that fails (`set -e`), with nothing rolled back. `PROJECT.json` lists the hazards at their lines, with the properties about
them.

## 2. Modules

```
                 Models ---------------- Outcomes
               /    |   \                 |     \
     ContractLoad   |    Introspect       |      DirectoryRun   Deploy
          |       Checks     |            |              \       /
        Differ      |  \     +--- Verifier -- Verdicts     Server ---(refines)--> DirectoryRun
       /   |        |   \    |                  |             |
    Docs   |        | Generator            (refines)       MCServer
      \    |        |     |                    |
      Releases -----+  Meaning   Postgres     Gate
                          \       /
                          Evolution (with Differ)
```

| Module | Models |
|---|---|
| `Models` | `models.py` and the typed contract of `contract.py`. Tuples whose order no check looks at are sets or maps by name; lists a user writes, where a name may occur twice, stay sequences. |
| `Selections` | elements of a sequence by their places: `Selected` is `SelectSeq` in a form proofs can reason about (`MCReleases` has TLC compare the two). |
| `Outcomes` | how loading, a verification and a process can end: file kinds, statuses, exit codes. |
| `ContractLoad` | `Contract.from_mapping`: for each document shape its outcome, and for the documents that load the typed contract. |
| `Checks` | the six checks, `run_checks`, `status_from_findings`. `*Findings(c, s)` is what one check's `run` appends, one element per appended finding. |
| `Generator` | `contract_from_schema`, composed with what the loader makes of its output. |
| `Differ` | `diff_contracts` and the exit code of `datagate diff`, on raw documents. |
| `Docs` | what the generated pages tell of a raw document. |
| `Releases` | successive releases of a contract document, each let through by `datagate diff` (README.md:156); what parser, differ and pages make of each. |
| `Meaning` | no code: what a contract means (`Conforms`), when a schema extends another (`Extends`) and what a draft records (`Keeps`). The reference the code is compared with. |
| `Introspect` | what each SQL statement sees of a catalogue (`TableRows`, ... `IndexRows`), and `Assemble`, the end of `introspect()`. `Fetch(q, d)` is one query with its row mapper. |
| `Postgres` | external: the committed schema changes, additive and destructive. |
| `Evolution` | a database that evolves under a contract, and teams that draft a new one with `generate`. Every reading is of one state. |
| `Verifier` | the invocations of `verify` on one file, one action per step of the code that another party can get between. |
| `Verdicts` | the properties of `Verifier`, and the strengthening of its invariant. |
| `Gate` | abstract specification: what a pipeline sees of the invocations. |
| `DirectoryRun` | invocations of `verify` on a directory, and `report` on what they leave. |
| `Deploy` | `deploy.sh`, as often as the workflow starts it. |
| `Server` | `DirectoryRun` and `Deploy` on one working tree. |
| `MCSamples`, `MCOutcomes`, `MCEvolution`, `MCVerifier`, `MCServer`, `MCReleases` | values for model checking. |
| `ChecksProofs`, `EvolutionProofs`, `VerifierProofs`, `GateProofs`, `DirectoryProofs`, `ServerProofs`, `ReleasesProofs`, `CountingLemmas` | theorems. |

### State and actions of `Verifier`

| Action | Code |
|---|---|
| `Start` | `_cmd_verify` is entered |
| `LocateContract` | `is_file()`, `contract.py:39` |
| `ReadContract`, `RejectContract`, `CrashOnContract` | open, parse, type: typed contract, `ContractError`, or an exception nothing catches |
| `Connect`, `ConnectFails` | `get_dsn` and `psycopg.connect`, `db.py:51-64` |
| `SetReadOnly` | `db.py:66-76` |
| `FetchNext` | one of the five queries, `introspect.py:251-255`; the answer is `Fetch` on the catalogue of that moment |
| `SessionFails` | `psycopg.Error` in the setup, anything in a query |
| `Close` | the `finally` of `connect`, and the `except` of `run` when it failed |
| `Check` | `run_checks` and `build_report`; the checks in `MayRaise` may raise |
| `OpenReport`, `WriteReport`, `WriteFails` | `Report.write`: the path is emptied, then filled; `OSError` at either point |
| `Finish` | the exit code of the status |
| `Migrate`, `EditFile`, `Kill(r)` | the surroundings |

`pc`, `contract`, `got`, `status`, `exit` are the locals of one invocation;
`session`, `artifact` and `file` are the shared objects. `window[r]` is auxiliary:
the catalogue states during the queries of `r`; no guard reads it. The file kinds
are the outcomes a contract path can have: a contract, absent, unreadable, not
UTF-8, not YAML (`bad_yaml`), rejected with `ContractError` (`bad_shape`), or with a
non-number where `int()` is applied (`bad_number`). `ContractLoad` says which
documents have the last two.

### State and actions of `DirectoryRun`

| Action | Code |
|---|---|
| `Start`, `StartFails` | `main` is entered, or the package does not import |
| `ListContracts` | `find_contracts`; exit code 2, and no report, for an empty directory (`cli.py:215`) |
| `Locate`, `ReadContract`, `RejectContract`, `CrashOnContract` | loading the contract whose turn it is; the crash ends the loop and the process |
| `Judge`, `SessionFails` | the rest of `run` on that contract, on one state of the database; the checks in `MayRaise` may raise (`engine.py:38-41`) |
| `OpenReport`, `WriteReport`, `WriteFails` | `AggregateReport.write` |
| `Finish` | the exit code of the worst status |
| `Render` | `datagate report`; what is no whole JSON document leaves the last page |
| `MoveDb`, `EditTree`, `Kill` | the surroundings |

`tree` maps each file to the version of the repository it comes from, and `Commits`
says what each version has at each path. `Judgement[c][s][raising]` is the errors and
warnings of contract `c` on state `s` of the database when the checks in `raising` raise and contribute
nothing; in `MCServer` it is computed by the six checks.
`results`, `found`, `mode`, `loaded`, `pc`, `exit` are the locals of the present
invocation; `report` and `page` are files. `quiet` and `raised`
(the checks that raised in this invocation) are auxiliary.

### State and actions of `Deploy`

The actions are the commands of `deploy.sh` in order, for each deployment `d`: `Fetch`;
`Resolve`, `Lock`, `Checkout` (one file at a time), `EndReset` for `git reset --hard`;
`LookForVenv`, `MakeDirectory`, `Populate`, `Activate` for lines 23 to 27; `PipReads`,
`PipInstalls`, `Smoke`. `Push` is a merge to main.

A deployment ends early in three ways. Stage `failed` is what the script itself runs into: the index
is locked, there is no `bin/activate`, or `datagate --version` does not import a package whose
requirements are not those installed. Stage `broken` is a command that fails by itself (`Fails`, at
the stages in `MayFail`), which ends the script under `set -e` (`deploy.sh:11`): no network for
`git fetch` or `pip`, no `ensurepip` for `venv`, a full disk, a commit that does not start. Stage `interrupted` is a
dropped connection, a cancelled job or a restart (`Interrupt`). After the last two, `Stop` leaves things as
they are: `left` records a reset or a virtualenv that did not finish, until somebody finishes it;
`installed` may be `Mixed` when pip was at work; git removes its index lock, except when it was
killed. `todo` has the files a reset has yet to replace.

What git, `venv` and `pip` do inside is external: the index lock excludes a second reset, which
then fails; `venv` makes its directory first and `bin/activate` last; an editable install
runs the package of the working tree.

In `Server` the tree of `Deploy` is that of `DirectoryRun`, an invocation starts only when
something is installed, and may fail to import as long as what is installed is
not what the package of the tree asks for.

Definitions whose comment begins with *Mutant* are deliberate mistakes. None is
used by a specification; each takes the place of the definition after it in one
TLC run, and a property then has to fail: that is how we know that each property
depends on the code it is about.

## 3. Runs

| Run | Question | Result |
|---|---|---|
| `evolution` | Is the verdict the contract's meaning, in any database two relations with five objects can form? | holds |
| `generated` | Is a draft clean, does it later accept exactly what keeps its records, and does `diff` agree? | holds |
| `steady` | One run, migrations and failures at every point | holds |
| `serial` | What can end in a traceback, and do exit code and report file agree, runs not overlapping? | holds |
| `concurrent` | Do overlapping runs end unless the server leaves them waiting, and do they implement `Gate`? | holds |
| `server` | Directories verified while deployments replace their files and the package | holds |
| `releases` | What does a chain of compatible diffs keep, and do parser and pages agree? | holds |
| `torn_pass` | Was a PASS ever true? | **violated** |
| `index_seen` | Is an index reported exactly when it is missing, also with expression keys, included columns and partitioned tables? | **violated** |
| `directory_stopped` | "an ERROR on one does not stop the others" | **violated** |
| `deploy_repeated` | "Idempotent and safe to run repeatedly" | **violated** |
| `respelled_type` | Are two spellings of one contract compatible? | **violated** |

The five violations are disagreements between a statement of the repository and
its code; `PROJECT.json` quotes each.

* `torn_pass`: README.md:295 says that PASS means the schema conforms. A table
  dropped after `SQL_TABLES` was answered, and a missing column added to another one
  before `SQL_COLUMNS` is, give a PASS that no state deserved. It takes one destructive migration in
  the window: `OrderedVerdict` shows that additions alone cannot do it. One
  `REPEATABLE READ` transaction around the five queries would exclude it.
* `index_seen`: `SQL_INDEXES` drops the expression keys of an index, so a contracted index that
  does not exist can be found: the trace has one on `(ref, expression)` found as one on `(ref)`. The model
  has two more ways: columns an index INCLUDEs are taken for keys, and the indexes of
  partitioned tables are not seen at all, so one that exists is
  reported missing. `evolution` checks the same property without the three, and it holds.
* `directory_stopped`: `ValueError`, `TypeError`, `OSError` and `UnicodeDecodeError` from loading
  are caught nowhere. In the run the second of three contracts has a version that is no number: the result of the
  first is lost, the third is not verified, no report is written, and
  the process ends with exit code 1, the code of FAIL. On a single file
  the same happens; `serial` and `concurrent` include these files.
* `deploy_repeated`: a directory `.venv` that an unfinished `python -m venv` left is taken for a
  complete one; each later deployment fails at `activate`, until somebody removes it. In the run nobody
  interrupts anything: `venv` fails by itself, once.
* `respelled_type`: a type with inline parameters and the same type with explicit ones (in the run `numeric` with a precision
  and a scale) load as the same contract and differ by a BREAKING change of type.

### Properties

`PassIffConforms` relates the six checks' findings to a meaning stated without
findings. `MissingTableReportedOnce` is about the agreement between checks that
skip missing tables independently: structure reports one once for each entry that declares it, audit
once for each rule about it, and the other four not at all. `AdditionsKeepPass` is the promise of
`checks/drift.py:5` to partial contracts. `GeneratedContractExact` and
`RoundTripClean` tie generator and checks together, defaults, precision of integers
and primary-key indexes included; `PassIsCompatible` ties both to the differ.
`SteadyVerdict`, `OrderedVerdict` and
`PassWasTrueOnce` say in what sense a verdict is true of a database that moves.
`SessionDiscipline`, `ExitMatchesArtifact` and `ImplementsGate` are
about order, failure and the shared report path. `OnlyLoadingRaises` says where a traceback can come
from: `verifier.py:41` has none for contract problems, the code has (see `directory_stopped`), but from loading
only, and before anything outside was touched. `EndsOrWaits` says that an invocation ends or waits for one
answer of the server for good.

On the server, `QuietVerdict`, `PassHasReport` and `JudgedOneCommit` say what exit codes and reports
of a directory are worth while its files change; `PageTellsExit` and `ScoreAgreesWithStatus` what
the page is (the latter below twenty contracts: at twenty the rounded mean hides one that fails);
`OneCommit`, `DeployedIsCurrent`, `NeverBackwards` and `StartsBetweenDeployments` what
deployments leave to the verifications between them, and `OnlyLeftoversBlock` that of all that commands which
failed or were cut off leave behind, a killed reset's lock and a virtualenv that was not finished are the
only things that stop a later deployment. For releases, `ReadersKept` and `TypesKept`
compose the differ's pairwise judgements along a chain whose two ends can be read one way only (`ReadOneWay`: of a name declared twice the
differ takes the last entry, while `verify` checks every one), `AdditionsReleased` is its promise to let
additions through, and `DocsShowContract` and `QuotedTypeConforms` compare the three readers of a
type with one another and with PostgreSQL. What PostgreSQL calls a type is `PostgresName`, which does not use
`columns.py`; the names the code has no alias for are `Unaliased`, and with those a column of
the quoted type is reported as a mismatch.

Some properties hold only on one side of a border, and promise nothing on the other. The hazards in `PROJECT.json`
say so: two reports written at once (`ImplementsGate` permits torn ones), a page after a traceback or exit code 2,
deployments that overlap (`DeployedIsCurrent`, `NeverBackwards`), pages of documents that are not plain, releases
that declare a name twice.

### Bounds

* Two relations, two columns and at most five (`MaxWeight`) columns, keys and secondary
  indexes in `evolution`: every comparison of a check needs at most one table's
  column, key or index and one table to refer to, and every pair of them fits.
  `generated` starts from an empty database and from two linked tables with a primary key, a foreign key and
  an index, with column shapes that differ in type, precision and scale; growth stops at weight two,
  altering and dropping does not.
* The catalogues of `steady`, `serial`, `concurrent` and `torn_pass` (`Near`) are two
  seeds and all within one change of them. Two migrations (`MaxMigrations`) let the
  first be undone or another follow inside one window, and let two additions
  follow one another for `OrderedVerdict`.
* Two invocations, `MaxActive` 1 or 2: the report path is the only thing they share,
  and a torn report needs two writers. Each invocation happens once.
* `steady` runs with one invocation, because invocations interact through the report
  path only; `SteadyVerdict`, `OrderedVerdict` and `SessionDiscipline` are proved for any number.
* `MayRaise` names two checks in `steady`: one that finds much, one that finds little. In `server` it is the drift
  check, which decides about one of the two contracts.
* `server`: two contract paths and the package; four commits in which a contract breaks, comes
  back alone, and gives way to one whose version is no number; one push, one change of the database, two
  deployments and two invocations, of which two in all are begun (`MaxBegun`): two deployments, a
  deployment and an invocation, or two invocations, in every interleaving. A stale report needs two
  invocations, a stale tree one of each, an overlap two deployments. Every command may fail by itself (`MayFail`).
  The two deployments differ in their names only, hence `SYMMETRY`. In `deploy_repeated` nothing but the creation
  of the virtualenv fails.
* `directory_stopped` has three paths, one commit and no deployment.
* `releases`: `Documents` has 281 documents in the shapes the readers treat differently: bare and typed
  columns, inline and explicit parameters, missing types, columns and tables declared twice, keys
  as texts, lists and numbers, and what is refused. Chains of releases are not bounded.

Deadlock is not checked: an invocation that is done has nothing more to do, a
database at its bound does not change, and a server at rest is at rest.

### Fairness

`FairSpec` has weak fairness on `LocalStep(r)` for every invocation: a process that has
started is scheduled, and what it does by itself goes on. Nothing is assumed of the server: at `connect`, `setup` and each query
(`AtServer`) an invocation may wait for good, because the code sets no connect, statement or lock timeout (`db.py:62`) and
another session's lock can hold an answer back. There is none on `Start`, `Migrate`,
`EditFile`, `Kill` or on which outcome a step has either, so a failure never has to happen
and never has to stop. `EndsOrWaits` has therefore both ends: the invocation is done, or it stays at one
and the same answer for ever. It would be violated by a loop, a retry, or a wait for anything else. The other specifications
state no fairness: their properties are about safety.

## 4. Theorems

All are proved for every value of the constants: any set of invocations, contracts,
catalogues, migrations, faults, names, commits, deployments and documents. Every safety
property that a passing run checks is the statement of a theorem.

### Assumptions

The modules state them, and TLC evaluates them in the runs:

* `NoneIsNoValue`, `ExpressionIsNoName`: `None` is no ordinary value, an expression is no column name.
* `MigrationsAreTyped`: migrations use names and columns of the right types.
* `EvolutionAssumption`: the databases one starts from are finite and coherent (`Coherent`: keys are of
  existing, non-null columns, foreign keys between existing tables, an index has a key). No table refers to itself,
  as no migration of the model makes it do so. Types have their canonical names, because
  information_schema reports no alias.
* `VerifierAssumption`, `DirectoryAssumption`, `ServerAssumption`: the types of the constants; a directory has
  finitely many paths, commits are numbered, a check that raises adds no errors, because its findings are dropped and nothing else changes (`engine.py:38-41`).
* `ReleasesAssumption`: documents are what YAML can give (`IsDocument`); `Word` stands for a parameter
  that is no number.

Two theorems need an assumption of their own, and name it: `ExitsMatchArtifact` and `IndexFindingsExact`. Without it TLC finds the property violated or a finding says so.

### Checks and meaning (`ChecksProofs`, `EvolutionProofs`)

* **`PassesIffConforms`**: one lemma per check says when it has no
  error finding; together they are `Conforms`.
* **`AdditionsKeepConforming`**: through `TableConformsIsMonotone`, no rule of a
  tolerant contract is lost when a schema grows.
* **`PassAlwaysIffConforms`**, **`AdditionsAlwaysKeepPass`** carry both over to `Evolution`.
* **`EvolutionTypes`**: `TypeOK` needs that the database stays coherent and finite. `Sound` says so relation by
  relation: it is kept by each migration (one lemma for objects that are added or redefined, one for those
  that are dropped). `Drafted` adds that a generated contract is the draft of a sound schema.
* **`DraftsAreClean`**, **`DraftsAreExact`**: for a sound schema `Conforms(Draft(base, settings), s)` is, rule by rule,
  `Keeps(base, s)` and, when a team closed the draft, that nothing was added. The first is
  the case `s = base`.
* **`PassesAreCompatible`**: a schema that keeps what the draft of `base` records has all its tables and columns, with the same
  types and no stricter nullability; then every change of the diff between the two drafts is
  an addition or a relaxation.
* **`MissingTablesReportedOnce`**: the structure findings about a table are as many as the entries for it, the audit findings
  as many as the rules about it (`MissingAreAsMany`: the positions are a bijection), and every other check is shown to skip
  it. Cardinalities are computed with the library's theorems on finite sets.
* **`IndexFindingsExact`**: if no table is partitioned and no index has an expression key or included columns (`SeenInFull`, inductive
  when migrations make none), `SQL_INDEXES` answers with the keys as they are. `index_seen`
  is the counterexample without that assumption. Here `Selected` is the whole sequence: `CountingLemmas`.

### One invocation (`VerifierProofs`, `GateProofs`)

* **`TypeCorrect`**: `TypeOK` alone is not inductive, because the
  count of answers stays in range only if `FetchNext` is not taken after the fifth.
  `ControlFlow` says what each control point implies about status, mode, count and
  failure; the conjunction is inductive.
* **`SessionsDisciplined`**: needs the states of the session at `setup` and `close` too.
* **`SteadyVerdicts`**: inductive with `AnswersFromWindow` (each answer is that of a
  catalogue in the window, and the present one is in it while queries run) and
  `StatusFromChecks` (a settled verdict is that of the findings of those answers). If the
  window is one state, the assembled schema is that state's, and `PassesIffConforms`
  applies; raising checks only take findings away (`RaisingHidesOnly`).
* **`OrderedVerdicts`**: from the same invariant. When the window has a least and a greatest
  catalogue, every answer lies between those of the two, so the
  assembled schema extends the first and is extended by the second, and
  `AdditionsKeepConforming` gives both halves.
* **`OnlyLoadingIsRaised`**: the invariant `Accountable` says that an invocation without a status has not touched the report
  path, and that it has no session before it connects; an exit with a status is the code of that status or 2
  (`ExitCodeFacts`). There is no hypothesis: files of every kind, faults and overlapping invocations are included.
* **`ExitsMatchArtifact`**: with `MaxActive <= 1`. The invariant `Undisturbed` says that at most one invocation is under
  way and that what is at the path once it has opened it is its own. With two writers it is false.
* **`VerifierImplementsGate`** (`GateProofs`): initial states map to initial states and every
  step to a step of `Gate` or a stutter, under `TypeOK` and `ControlFlow`.

### Directories (`DirectoryProofs`)

* **`DirectoryTypes`**: `Progress` relates the control point to what was found,
  recorded and written. `Current` is well-defined because a set of naturals has a smallest element
  (`SmallestExists`, by well-foundedness of `<`).
* **`QuietVerdicts`**: inductive with `ResultsTell`: as long as nothing outside changes, the paths
  found are those present, a FAIL is one its contract deserves, and so is a PASS if no check has raised.
* **`PassesHaveReport`**: only `Finish` exits with 0, and at that point the report is the invocation's
  own, with a result for all that was found; a worst status of PASS is a PASS for each.
* **`PagesTellExit`**: `ReportTellsExit` relates report and exit code between invocations, and `Render` copies the
  report. An invocation that ended before writing leaves an older report: it carries the number of the
  invocation that wrote it, which is what the property goes by.
* **`ScoresAgree`**: the score is a fold over the set of contracts. `SumsExist` shows, by a least set size for which it
  would fail, that the function the fold is defined by exists; `TotalIsBounded` bounds the sum in the same way.
  One score of at most 90 then keeps the rounded mean of fewer than twenty contracts under 100
  (`BelowTwenty`). The invariant `AllScored` says that every recorded FAIL has errors.

### The server (`ServerProofs`)

* **`ServerRefines`**: the invariant `CommitsOnly` says that a deployment only checks out
  commits; a step of a deployment is then an `EditTree` of `DirectoryRun` or leaves it
  alone. **`ServerTypes`**, **`ServerQuietVerdicts`**, **`ServerPassesHaveReport`**, **`ServerPagesTellExit`** and
  **`ServerScoresAgree`** follow without another induction.
* **`TreeIsOneCommit`**, **`SuccessIsCurrent`**, **`DeploymentsAdvance`**: the invariant `Deployed` collects who holds the lock
  (`DeploymentTypes`), that nothing on the server is ahead of what its clone fetched (`NothingAhead`),
  that a deployment marked alone is (`AloneMeans`) and how far it has brought the server
  (`AloneKnows`). It is inductive as a whole only: whether a tree is of one commit depends on who was
  alone when the lock was released. `Marked` says that a file a reset has not marked is that of its commit.
* **`LeftoversBlock`**: `VenvKnown` says that a virtualenv without `bin/activate` is being populated or is in `left`,
  `LockLeft` and `VenvLeft` what a lock or a virtualenv that nobody works on is the remainder of. What pip left does not matter:
  the next deployment installs again.
* **`JudgedFromOneCommit`**: `Judging` says that all an undisturbed invocation has read, and the tree it still reads
  from, are of one commit.
* **`StartsAreBetween`**: by `Settled`, what is installed fits the package unless a deployment is between the two.

### Releases (`ReleasesProofs`)

* **`ReadersAreKept`**, **`TypesAreKept`**: for every entry of a column at both ends of the chain, which by `DeclaredOnce` is one (`OneEntry`). The invariant `Chain` relates the indexed tables of the first
  release to those of the present one. A diff without a breaking change keeps columns, nullability and known
  types, both relations are transitive where types stay known, and for
  documents that load and declare each name once the index is the contract.
* **`AdditionsPass`**: when the candidate has each name once and all old entries as they were, the last entry of a name is the old one,
  so the differ finds no change that is breaking.
* **`ReleasesTypes`**: reading a document gives a contract of the right types or one of the two known exceptions, a list
  after the other (`TableListsAreRead`, `TableIsTyped`, `ContractIsTyped`).
* **`QuotedTypesConform`**: by cases on the kind of type; what the parser makes of the quoted parameters is what
  PostgreSQL reports of a column created with them (`LimitsAreReported`), and the code's aliases agree with PostgreSQL's names
  outside `Unaliased` (`AliasesAreNames`).
* **`PagesShowContract`**: pages and parser select the same entries in the same order (`RowsAre`, `PagesAre`), the marks are those of the keys
  (`MarksAre`), and a type that is shown reads back as it was read (`TypeReadBack`).

### Not proved

`EndsOrWaits` is a liveness property under fairness, out of the prover's reach: TLC checks it in `concurrent`. The five
properties of the violation runs are false. Recursion in the code is modelled by
`Selected`, functions and one fold, so no theorem depends on induction over data; what the abstracted
loops of `build_*` compute is given, not proved.

## 5. What is not modelled

* Falsy scalars (`0`, `""`, `false`) where the code writes `or []` or `if not name`: a document has
  the key or has it not. A mapping where a list is expected. Blank texts.
* Lower-casing and stripping of types and defaults: the models' values are in that form.
  The lower-casing of quoted defaults is a known imprecision of the comparison.
* Privileges: `information_schema.tables` and `.columns` show what the role may read (`docs/ARCHITECTURE.md:37-46`), the
  catalogue tables everything. In the models every query sees the whole schema; a role that lacks SELECT on a table sees it missing.
* The referenced table's schema, which `SQL_FOREIGN_KEYS` drops (`introspect.py:92`):
  the models have one schema.
* The grouping loops `build_*` of `introspect.py` are given by their result.
* Types PostgreSQL has besides the built-in scalar ones: arrays, domains, and parameters it reports nowhere (`timestamp(3)`).
* In `DirectoryRun` reading a catalogue is one step; `Verifier` takes it apart. The page is written
  in one step.
* `generate`, `diff` and `docs` read a live database in one step, and how they write their files is left out.
* The inside of git, venv and pip; the container image, `action.yml` and the CI workflow.
* Sections of the pages for indexes and foreign keys, message texts, JSON layout, logging, argument parsing.

## 6. Plan

Done: all modules above, and a theorem for each safety property that the passing runs check. What is left, in order of
importance:

1. `Drafting`: `generate` reading a moving database, then `verify` with the draft.
2. `RowMappers`: the grouping loops `build_*` as folds over ordered rows, shown equal to
   `Fetch`.
3. Proofs: how two overlapping invocations may differ from `ExitMatchesArtifact` (the weakest statement that
   holds for any `MaxActive`).
