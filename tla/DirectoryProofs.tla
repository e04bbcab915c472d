--------------------------- MODULE DirectoryProofs ---------------------------
(***************************************************************************)
(* What the exit code of a directory run tells, for every directory,       *)
(* database, environment and number of invocations.                        *)
(***************************************************************************)
EXTENDS DirectoryRun, CountingLemmas, TLAPS

USE DEF outside, Result, ReportKinds

\* The strengthening: how far the loop is, and what its results say of the
\* directory while nothing changes.
Progress ==
    /\ DOMAIN results \subseteq found
    /\ pc = "list" => DOMAIN results = {}
    /\ pc \in {"locate", "read", "judge"} => Remaining # {}
    /\ pc \in {"open", "write", "finish"} => found # {} /\ DOMAIN results = found
    /\ pc = "judge" => loaded \in Versions /\ Commits[loaded][Current].kind = "contract"
    /\ pc \in {"list", "locate", "read", "judge", "open"} => report.round < round
    /\ pc = "write" => report.kind = "empty"
    /\ pc = "finish" => OwnReport /\ report.results = results

ResultsTell ==
    quiet /\ pc # "idle" =>
        /\ pc # "list" => found = Present
        /\ pc = "judge" => mode = "verify" /\ loaded = tree[Current]
        /\ \A p \in DOMAIN results :
              /\ results[p].status = "pass" =>
                    Content(p).kind = "contract" /\ (raised = {} => Accepted(p))
              /\ results[p].status = "fail" => Content(p).kind = "contract" /\ ~Accepted(p)

-----------------------------------------------------------------------------
\* The contract whose turn it is has been found and has no result yet.
LEMMA CurrentRemains ==
    ASSUME TypeOK, Remaining # {}
    PROVE  Current \in found /\ Current \notin DOMAIN results /\ Current \in Paths
  <1>1. Remaining \subseteq Nat
    BY DirectoryAssumption DEF Remaining, TypeOK
  <1>2. Current \in Remaining
    BY <1>1, SmallestExists DEF Current
  <1> QED
    BY <1>2 DEF Remaining, TypeOK

LEMMA NoResultsAreResults == IsResults(NoResults) /\ DOMAIN NoResults = {}
  BY DEF IsResults, NoResults

LEMMA VerdictsAreResults ==
    /\ Broken \in Result /\ Clean \in Result
    /\ Clean.status = "pass" /\ Broken.status = "error"
    /\ \A counts \in [errors : Nat, warnings : Nat] :
          /\ Verdict(counts) \in Result
          /\ Verdict(counts).status \in {"pass", "fail"}
          /\ Verdict(counts).status = "pass" <=> counts.errors = 0
  BY DEF Broken, Clean, Verdict, Statuses

\* What a contract's turn adds to the results, and where it leaves the loop.
LEMMA RecordAdds ==
    ASSUME TypeOK, Progress, Remaining # {}, NEW r \in Result, Record(r)
    PROVE  /\ IsResults(results')
           /\ DOMAIN results' = DOMAIN results \cup {Current}
           /\ results'[Current] = r
           /\ \A p \in DOMAIN results : results'[p] = results[p]
           /\ \/ pc' = "open" /\ DOMAIN results' = found
              \/ pc' = "locate" /\ found \ DOMAIN results' # {}
  <1>1. Current \in found /\ Current \notin DOMAIN results /\ Current \in Paths
    BY CurrentRemains
  <1>2. /\ DOMAIN results' = DOMAIN results \cup {Current}
        /\ results'[Current] = r
        /\ \A p \in DOMAIN results : results'[p] = results[p]
    BY <1>1 DEF Record
  <1>3. IsResults(results')
    BY <1>1 DEF Record, IsResults, TypeOK
  <1>4. CASE Remaining = {Current}
    <2>1. DOMAIN results' = found
      BY <1>2, <1>4 DEF Remaining, Progress
    <2> QED
      BY <1>2, <1>3, <1>4, <2>1 DEF Record
  <1>5. CASE Remaining # {Current}
    <2>1. found \ DOMAIN results' # {}
      BY <1>1, <1>2, <1>5 DEF Remaining
    <2> QED
      BY <1>2, <1>3, <1>5, <2>1 DEF Record
  <1> QED
    BY <1>4, <1>5

-----------------------------------------------------------------------------
(* Types, and how far the loop is *)

Shape == TypeOK /\ Progress

LEMMA ErrorCode == ExitCode("error") = 2
  BY DEF ExitCode

LEMMA InitShape == Init => Shape
  <1> SUFFICES ASSUME Init
               PROVE  Shape
    OBVIOUS
  <1>1. /\ results = NoResults /\ found = {} /\ pc = "idle"
        /\ report.kind = "absent" /\ report.round = 0 /\ report.results = NoResults
        /\ page.round = 0 /\ page.results = NoResults
    BY DEF Init
  <1>2. /\ db \in States /\ moves = 0 /\ round = 0 /\ mode = "verify"
        /\ loaded = None /\ exit = None /\ quiet = FALSE
        /\ tree \in [Files -> Versions] /\ raised = {}
    BY DEF Init
  <1>3. MaxRounds \in Nat /\ MaxMoves \in Nat
    BY DirectoryAssumption
  <1>4. TypeOK
    <2>1. quiet \in BOOLEAN
      BY <1>2, Zenon
    <2>2. moves \in 0..MaxMoves /\ round \in 0..MaxRounds
      BY <1>2, <1>3
    <2>3. report.round \in 0..round /\ page.round \in 0..round
      BY <1>1, <1>2
    <2>4. IsResults(results) /\ IsResults(report.results) /\ IsResults(page.results)
      BY <1>1, NoResultsAreResults
    <2> QED
      BY <1>1, <1>2, <2>1, <2>2, <2>3, <2>4, Zenon DEF TypeOK
  <1>5. Progress
    BY <1>1, NoResultsAreResults DEF Progress
  <1> QED
    BY <1>4, <1>5 DEF Shape

LEMMA OutsideKeepsShape ==
    ASSUME Shape, MoveDb \/ EditTree \/ Kill \/ Render
    PROVE  Shape'
  <1> USE DEF Shape, TypeOK, Progress
  <1>1. CASE MoveDb
    <2>1. moves' \in 0..MaxMoves /\ db' \in States
      BY <1>1, DirectoryAssumption DEF MoveDb
    <2>2. UNCHANGED <<tree, round, pc, mode, found, loaded, results, report, page, exit, raised>>
      BY <1>1 DEF MoveDb
    <2> QED
      <3>1. TypeOK'
        <4>1. quiet' \in BOOLEAN
          <5>1. quiet' = FALSE
            BY <1>1 DEF MoveDb
          <5> QED
            BY <5>1, Zenon
        <4>2. /\ IsResults(results)' /\ IsResults(report.results)'
              /\ IsResults(page.results)'
          BY <2>2 DEF IsResults
        <4>3. /\ report'.kind \in ReportKinds /\ report'.round \in 0..round'
              /\ page'.round \in 0..round'
          BY <2>2
        <4> QED
          BY <2>1, <2>2, <4>1, <4>2, <4>3, Zenon DEF TypeOK
      <3>2. Progress'
        BY <2>2 DEF Remaining, Current, OwnReport
      <3> QED
        BY <3>1, <3>2
  <1>2. CASE EditTree
    <2>1. tree' \in [Files -> Versions]
      BY <1>2 DEF EditTree
    <2>2. quiet' \in BOOLEAN
      <3>1. quiet' = FALSE
        BY <1>2 DEF EditTree
      <3> QED
        BY <3>1, Zenon
    <2>3. UNCHANGED <<db, moves, round, pc, mode, found, loaded, results, report, page, exit,
                      raised>>
      BY <1>2 DEF EditTree
    <2>4. /\ IsResults(results)' /\ IsResults(report.results)' /\ IsResults(page.results)'
          /\ report'.kind \in ReportKinds /\ report'.round \in 0..round'
          /\ page'.round \in 0..round'
      BY <2>3 DEF IsResults
    <2>5. TypeOK'
      BY <2>1, <2>2, <2>3, <2>4, Zenon DEF TypeOK
    <2>6. Progress'
      BY <2>3 DEF Remaining, Current, OwnReport
    <2> QED
      BY <2>5, <2>6
  <1>3. CASE Kill
    <2>1. /\ pc' = "idle" /\ exit' = Signal
          /\ UNCHANGED <<outside, round, mode, found, loaded, results, report, page, quiet, raised>>
      BY <1>3 DEF Kill, Exit
    <2>2. TypeOK'
      BY <2>1 DEF outside, IsResults
    <2>3. Progress'
      BY <2>1
    <2> QED
      BY <2>2, <2>3
  <1>4. CASE Render
    BY <1>4 DEF Render, Remaining, Current, OwnReport, IsResults
  <1> QED
    BY <1>1, <1>2, <1>3, <1>4

LEMMA BeginKeepsShape ==
    ASSUME Shape, Start \/ StartFails
    PROVE  Shape'
  <1>1. Begin /\ pc' \in {"idle", "list"} /\ exit' \in {None, 1}
    BY DEF Start, StartFails, Exit, Traceback
  <1>2. /\ round \in Nat /\ round' = round + 1 /\ round' \in 0..MaxRounds
        /\ mode' \in {"verify", "contract_only"}
    BY <1>1, DirectoryAssumption DEF Begin, Shape, TypeOK
  <1>3. TypeOK'
    BY <1>1, <1>2, NoResultsAreResults DEF Begin, Shape, TypeOK
  <1>4. Progress'
    BY <1>1, <1>2, NoResultsAreResults DEF Begin, Shape, TypeOK, Progress
  <1> QED
    BY <1>3, <1>4 DEF Shape

\* A result has been recorded and nothing else has changed.
LEMMA RecordKeepsShape ==
    ASSUME Shape, pc \in {"locate", "read", "judge"}, NEW r \in Result, Record(r),
           loaded' \in Versions \cup {None}, raised' \subseteq MayRaise,
           UNCHANGED <<outside, round, mode, found, report, page, exit, quiet>>
    PROVE  Shape'
  <1>1. Remaining # {}
    BY DEF Shape, Progress
  <1>2. /\ IsResults(results')
        /\ DOMAIN results' = DOMAIN results \cup {Current}
        /\ \/ pc' = "open" /\ DOMAIN results' = found
           \/ pc' = "locate" /\ found \ DOMAIN results' # {}
    BY <1>1, RecordAdds DEF Shape
  <1>3. Current \in found
    BY <1>1, CurrentRemains DEF Shape
  <1>4. TypeOK'
    BY <1>2 DEF Shape, TypeOK
  <1>5. Progress'
    BY <1>1, <1>2, <1>3 DEF Shape, Progress, Remaining
  <1> QED
    BY <1>4, <1>5 DEF Shape

LEMMA LoopKeepsShape ==
    ASSUME Shape,
           \/ ListContracts \/ Locate \/ ReadContract \/ RejectContract
           \/ CrashOnContract \/ Judge \/ SessionFails
    PROVE  Shape'
  <1>1. CASE ListContracts
    <2>1. Present \subseteq Paths
      BY DEF Present
    <2>2. TypeOK'
      BY <1>1, <2>1, ErrorCode DEF ListContracts, Exit, Shape, TypeOK
    <2>3. CASE Present = {}
      BY <1>1, <2>2, <2>3 DEF ListContracts, Exit, Shape, Progress
    <2>4. CASE Present # {}
      <3>1. pc' = "locate" /\ found' = Present
        BY <1>1, <2>4 DEF ListContracts
      <3> QED
        BY <1>1, <2>2, <2>4, <3>1 DEF ListContracts, Shape, Progress, Remaining
    <2> QED
      BY <2>3, <2>4
  <1>2. CASE Locate
    <2>1. CASE Content(Current).kind = "absent"
      <3>1. loaded' \in Versions \cup {None} /\ raised' \subseteq MayRaise
        BY <1>2 DEF Locate, Shape, TypeOK
      <3> QED
        BY <1>2, <2>1, <3>1, RecordKeepsShape, VerdictsAreResults DEF Locate
    <2>2. CASE Content(Current).kind # "absent"
      BY <1>2, <2>2 DEF Locate, Shape, TypeOK, Progress, Remaining
    <2> QED
      BY <2>1, <2>2
  <1>3. CASE ReadContract
    <2>1. Current \in Paths
      BY <1>3, CurrentRemains DEF ReadContract, Shape, Progress
    <2>2. tree[Current] \in Versions
      BY <2>1, DirectoryAssumption DEF Shape, TypeOK
    <2>3. CASE mode = "contract_only"
      <3>1. loaded' \in Versions \cup {None} /\ raised' \subseteq MayRaise
        BY <1>3, <2>2 DEF ReadContract, Shape, TypeOK
      <3> QED
        BY <1>3, <2>3, <3>1, RecordKeepsShape, VerdictsAreResults DEF ReadContract
    <2>4. CASE mode # "contract_only"
      <3>1. Current' = Current
        BY <1>3, <2>4 DEF ReadContract, Current, Remaining
      <3>2. loaded' \in Versions /\ Commits[loaded'][Current'].kind = "contract"
        BY <1>3, <2>2, <3>1 DEF ReadContract, Content
      <3> QED
        BY <1>3, <2>4, <3>2 DEF ReadContract, Shape, TypeOK, Progress, Remaining
    <2> QED
      BY <2>3, <2>4
  <1>4. CASE RejectContract
    <2>1. loaded' \in Versions \cup {None} /\ raised' \subseteq MayRaise
      BY <1>4 DEF RejectContract, Shape, TypeOK
    <2> QED
      BY <1>4, <2>1, RecordKeepsShape, VerdictsAreResults DEF RejectContract
  <1>5. CASE CrashOnContract
    BY <1>5 DEF CrashOnContract, Exit, Traceback, Shape, TypeOK, Progress
  <1>6. CASE Judge
    <2>1. /\ loaded \in Versions /\ Current \in Paths
          /\ Commits[loaded][Current].kind = "contract" /\ db \in States
      BY <1>6, CurrentRemains DEF Judge, Shape, Progress, TypeOK
    <2>2. PICK raising \in SUBSET MayRaise :
             /\ Record(Verdict(Judgement[Commits[loaded][Current].contract][db][raising]))
             /\ raised' = raised \cup raising
      BY <1>6 DEF Judge
    <2>3. Judgement[Commits[loaded][Current].contract][db][raising]
             \in [errors : Nat, warnings : Nat]
      BY <2>1, DirectoryAssumption
    <2>4. loaded' \in Versions \cup {None} /\ raised' \subseteq MayRaise
      BY <1>6, <2>1, <2>2 DEF Judge, Shape, TypeOK
    <2> QED
      BY <1>6, <2>2, <2>3, <2>4, RecordKeepsShape, VerdictsAreResults DEF Judge
  <1>7. CASE SessionFails
    <2>1. loaded' \in Versions \cup {None} /\ raised' \subseteq MayRaise
      BY <1>7 DEF SessionFails, Shape, TypeOK
    <2> QED
      BY <1>7, <2>1, RecordKeepsShape, VerdictsAreResults DEF SessionFails
  <1> QED
    BY <1>1, <1>2, <1>3, <1>4, <1>5, <1>6, <1>7

LEMMA StatusesInResults ==
    ASSUME NEW rs, IsResults(rs)
    PROVE  /\ AggregateStatus(rs) \in Statuses
           /\ ExitCode(AggregateStatus(rs)) \in {0, 1, 2}
           /\ ExitCode(AggregateStatus(rs)) = 0 =>
                 \A p \in DOMAIN rs : rs[p].status = "pass"
           /\ ExitCode(AggregateStatus(rs)) = 1 =>
                 /\ \A p \in DOMAIN rs : rs[p].status \in {"pass", "fail"}
                 /\ \E p \in DOMAIN rs : rs[p].status = "fail"
  <1>1. \A p \in DOMAIN rs : rs[p].status \in Statuses
    BY DEF IsResults
  <1>2. AggregateStatus(rs) \in Statuses
    BY DEF AggregateStatus, Statuses
  <1> QED
    BY <1>1, <1>2 DEF AggregateStatus, StatusesIn, ExitCode, Statuses

LEMMA ReportKeepsShape ==
    ASSUME Shape, OpenReport \/ WriteReport \/ WriteFails \/ Finish
    PROVE  Shape'
  <1> USE DEF Shape, TypeOK, Progress
  <1>1. CASE OpenReport
    BY <1>1, NoResultsAreResults DEF OpenReport, Remaining, IsResults
  <1>2. CASE WriteReport
    BY <1>2 DEF WriteReport, Remaining, OwnReport, IsResults
  <1>3. CASE WriteFails
    <2>1. pc' = "idle" /\ exit' = 2
      BY <1>3, ErrorCode DEF WriteFails, Exit
    <2>2. \/ UNCHANGED report
          \/ report' = [kind |-> "torn", round |-> round, results |-> NoResults]
      BY <1>3 DEF WriteFails
    <2>3. /\ report'.kind \in ReportKinds /\ report'.round \in 0..round
          /\ IsResults(report'.results)
      BY <2>2, NoResultsAreResults
    <2> QED
      BY <1>3, <2>1, <2>3 DEF WriteFails
  <1>4. CASE Finish
    BY <1>4, StatusesInResults DEF Finish, Exit
  <1> QED
    BY <1>1, <1>2, <1>3, <1>4

LEMMA NextShape == Shape /\ [Next]_vars => Shape'
  <1> SUFFICES ASSUME Shape, [Next]_vars
               PROVE  Shape'
    OBVIOUS
  <1>1. CASE UNCHANGED vars
    BY <1>1 DEF vars, Shape, TypeOK, Progress, Remaining, Current, OwnReport, IsResults
  <1> QED
    BY <1>1, OutsideKeepsShape, BeginKeepsShape, LoopKeepsShape, ReportKeepsShape
       DEF Next, Step

\* Types, and how far the loop is, for any directory (verifier.py:91-121,
\* cli.py:213-238).
THEOREM DirectoryTypes == Spec => [](TypeOK /\ Progress)
  BY InitShape, NextShape, PTL DEF Spec, Shape

-----------------------------------------------------------------------------
(* Exit codes *)

LEMMA RecordKeepsTelling ==
    ASSUME Shape, ResultsTell, pc \in {"locate", "read", "judge"},
           NEW r \in Result, Record(r),
           raised \subseteq raised',
           quiet => /\ r.status = "pass" => /\ Content(Current).kind = "contract"
                                            /\ raised' = {} => Accepted(Current)
                    /\ r.status = "fail" =>
                          Content(Current).kind = "contract" /\ ~Accepted(Current),
           UNCHANGED <<outside, round, mode, found, report, page, exit, quiet>>
    PROVE  ResultsTell' /\ QuietVerdict'
  <1>1. Remaining # {}
    BY DEF Shape, Progress
  <1>2. /\ DOMAIN results' = DOMAIN results \cup {Current}
        /\ results'[Current] = r
        /\ \A p \in DOMAIN results : results'[p] = results[p]
        /\ pc' \in {"open", "locate"}
    BY <1>1, RecordAdds DEF Shape
  <1>3. \A p : /\ Accepted(p)' <=> Accepted(p)
               /\ Content(p)' = Content(p)
    BY DEF Accepted, Content
  <1>4. Present' = Present
    BY DEF Present, Content
  <1>5. QuietVerdict'
    BY <1>2 DEF QuietVerdict
  <1>6. SUFFICES ASSUME quiet'
                 PROVE  /\ found' = Present'
                        /\ \A p \in DOMAIN results' :
                              /\ results'[p].status = "pass" =>
                                    Content(p)'.kind = "contract" /\ (raised' = {} => Accepted(p)')
                              /\ results'[p].status = "fail" =>
                                    Content(p)'.kind = "contract" /\ ~Accepted(p)'
    BY <1>2, <1>5 DEF ResultsTell
  <1>7. quiet /\ pc # "idle" /\ pc # "list"
    BY <1>6
  <1> QED
    BY <1>2, <1>3, <1>4, <1>7 DEF ResultsTell

LEMMA LoopKeepsTelling ==
    ASSUME Shape, ResultsTell,
           \/ ListContracts \/ Locate \/ ReadContract \/ RejectContract
           \/ CrashOnContract \/ Judge \/ SessionFails
    PROVE  ResultsTell' /\ QuietVerdict'
  <1>1. CASE ListContracts
    <2>1. CASE Present = {}
      BY <1>1, <2>1, ErrorCode DEF ListContracts, Exit, ResultsTell, QuietVerdict
    <2>2. CASE Present # {}
      <3>1. pc' = "locate" /\ found' = Present /\ DOMAIN results' = {}
        BY <1>1, <2>2 DEF ListContracts, Shape, Progress
      <3>2. Present' = Present
        BY <1>1 DEF ListContracts, Present, Content
      <3> QED
        BY <3>1, <3>2 DEF ResultsTell, QuietVerdict
    <2> QED
      BY <2>1, <2>2
  <1>2. CASE Locate
    <2>1. CASE Content(Current).kind = "absent"
      BY <1>2, <2>1, RecordKeepsTelling, VerdictsAreResults DEF Locate
    <2>2. CASE Content(Current).kind # "absent"
      <3>1. /\ pc = "locate" /\ pc' = "read"
            /\ UNCHANGED <<outside, mode, found, results, quiet, raised>>
        BY <1>2, <2>2 DEF Locate
      <3> QED
        BY <3>1 DEF ResultsTell, QuietVerdict, Present, Accepted, Content
    <2> QED
      BY <2>1, <2>2
  <1>3. CASE ReadContract
    <2>1. CASE mode = "contract_only"
      <3>1. Accepted(Current)
        BY <1>3, <2>1 DEF ReadContract, Accepted
      <3> QED
        BY <1>3, <2>1, <3>1, RecordKeepsTelling, VerdictsAreResults DEF ReadContract
    <2>2. CASE mode # "contract_only"
      <3>1. /\ pc = "read" /\ pc' = "judge" /\ mode = "verify" /\ loaded' = tree[Current]
            /\ UNCHANGED <<outside, mode, found, results, quiet, raised>>
        BY <1>3, <2>2 DEF ReadContract, Shape, TypeOK
      <3>2. Current' = Current
        BY <3>1 DEF Current, Remaining
      <3> QED
        BY <3>1, <3>2 DEF ResultsTell, QuietVerdict, Present, Accepted, Content
    <2> QED
      BY <2>1, <2>2
  <1>4. CASE RejectContract
    BY <1>4, RecordKeepsTelling, VerdictsAreResults DEF RejectContract
  <1>5. CASE CrashOnContract
    BY <1>5 DEF CrashOnContract, Exit, Traceback, Shape, TypeOK, Progress, OwnReport,
                ResultsTell, QuietVerdict
  <1>6. CASE Judge
    <2> PICK raising \in SUBSET MayRaise :
             /\ Record(Verdict(Judgement[Commits[loaded][Current].contract][db][raising]))
             /\ raised' = raised \cup raising
      BY <1>6 DEF Judge
    <2> DEFINE counts == Judgement[Commits[loaded][Current].contract][db][raising]
               all    == Judgement[Commits[loaded][Current].contract][db][{}]
    <2>1. /\ loaded \in Versions /\ Current \in Paths
          /\ Commits[loaded][Current].kind = "contract" /\ db \in States
      BY <1>6, CurrentRemains DEF Judge, Shape, Progress, TypeOK
    <2>2. /\ counts \in [errors : Nat, warnings : Nat] /\ all \in [errors : Nat, warnings : Nat]
          /\ counts.errors <= all.errors /\ (raising = {} => counts = all)
      <3> DEFINE id == Commits[loaded][Current].contract
      <3>1. id \in DOMAIN Judgement
        BY <2>1, DirectoryAssumption
      <3> HIDE DEF id
      <3>2. Judgement[id][db] \in [SUBSET MayRaise -> [errors : Nat, warnings : Nat]]
        BY <2>1, <3>1, DirectoryAssumption
      <3>3. Judgement[id][db][raising].errors <= Judgement[id][db][{}].errors
        BY <2>1, <3>1, DirectoryAssumption
      <3> QED
        BY <3>2, <3>3 DEF id
    <2>3. quiet => mode = "verify" /\ loaded = tree[Current]
      BY <1>6 DEF Judge, ResultsTell
    <2>4. quiet => Content(Current).kind = "contract"
                   /\ (Accepted(Current) <=> all.errors = 0)
      BY <2>1, <2>3 DEF Accepted, Content
    <2>5. Record(Verdict(counts)) /\ raised' = raised \cup raising
      OBVIOUS
    <2> HIDE DEF counts, all
    <2>6. /\ Verdict(counts).status = "pass" <=> counts.errors = 0
          /\ Verdict(counts).status \in {"pass", "fail"} /\ Verdict(counts) \in Result
      BY <2>2, VerdictsAreResults
    <2>7. quiet => /\ Verdict(counts).status = "pass" => /\ Content(Current).kind = "contract"
                                                         /\ raised' = {} => Accepted(Current)
                   /\ Verdict(counts).status = "fail" =>
                         Content(Current).kind = "contract" /\ ~Accepted(Current)
      <3>1. raised' = {} => counts = all
        BY <2>2, <2>5
      <3>2. counts.errors # 0 => all.errors # 0
        BY <2>2
      <3> QED
        BY <2>4, <2>6, <3>1, <3>2
    <2>8. raised \subseteq raised'
      BY <2>5
    <2> QED
      BY <1>6, <2>5, <2>6, <2>7, <2>8, RecordKeepsTelling DEF Judge
  <1>7. CASE SessionFails
    BY <1>7, RecordKeepsTelling, VerdictsAreResults DEF SessionFails
  <1> QED
    BY <1>1, <1>2, <1>3, <1>4, <1>5, <1>6, <1>7

LEMMA ReportKeepsTelling ==
    ASSUME Shape, ResultsTell, OpenReport \/ WriteReport \/ WriteFails \/ Finish
    PROVE  ResultsTell' /\ QuietVerdict'
  <1>1. CASE OpenReport \/ WriteReport
    <2>1. /\ pc \in {"open", "write"} /\ pc' \in {"write", "finish"}
          /\ UNCHANGED <<outside, mode, found, results, quiet, raised>>
      BY <1>1 DEF OpenReport, WriteReport
    <2>2. Present' = Present /\ \A p : Accepted(p)' <=> Accepted(p)
      BY <2>1 DEF outside, Present, Accepted, Content
    <2>3. QuietVerdict'
      BY <2>1 DEF QuietVerdict
    <2>4. ResultsTell'
      BY <2>1, <2>2 DEF outside, ResultsTell, Content
    <2> QED
      BY <2>3, <2>4
  <1>2. CASE WriteFails
    BY <1>2, ErrorCode DEF WriteFails, Exit, ResultsTell, QuietVerdict
  <1>3. CASE Finish
    <2>1. /\ pc = "finish" /\ pc' = "idle" /\ exit' = ExitCode(AggregateStatus(results))
          /\ UNCHANGED <<outside, mode, found, results, quiet, raised>>
      BY <1>3 DEF Finish, Exit
    <2>2. found # {} /\ DOMAIN results = found /\ IsResults(results)
      BY <2>1 DEF Shape, Progress, TypeOK
    <2>3. SUFFICES ASSUME quiet
                   PROVE  QuietVerdict'
      BY <2>1 DEF ResultsTell, QuietVerdict
    <2>4. /\ found = Present
          /\ \A p \in DOMAIN results :
                /\ results[p].status = "pass" =>
                      Content(p).kind = "contract" /\ (raised = {} => Accepted(p))
                /\ results[p].status = "fail" => Content(p).kind = "contract" /\ ~Accepted(p)
      BY <2>1, <2>3 DEF ResultsTell
    <2>5. Present' = Present /\ \A p : /\ Accepted(p)' <=> Accepted(p)
                                       /\ Content(p)' = Content(p)
      BY <2>1 DEF Present, Accepted, Content
    <2>6. exit' = 0 => Present # {} /\ (raised = {} => \A p \in Present : Accepted(p))
      BY <2>1, <2>2, <2>4, StatusesInResults
    <2>7. exit' = 1 => /\ \A p \in Present : Content(p).kind = "contract"
                       /\ \E p \in Present : ~Accepted(p)
      BY <2>1, <2>2, <2>4, StatusesInResults
    <2> QED
      BY <2>1, <2>5, <2>6, <2>7 DEF QuietVerdict
  <1> QED
    BY <1>1, <1>2, <1>3

Telling == Shape /\ ResultsTell /\ QuietVerdict

LEMMA NextTells == Telling /\ [Next]_vars => Telling'
  <1> SUFFICES ASSUME Telling, [Next]_vars
               PROVE  ResultsTell' /\ QuietVerdict'
    BY NextShape, SMTT(30) DEF Telling
  <1> USE DEF Telling
  <1>1. CASE UNCHANGED vars
    BY <1>1 DEF vars, ResultsTell, QuietVerdict, Present, Accepted, Content, Current,
                Remaining, OwnReport
  <1>2. CASE MoveDb \/ EditTree
    <2>1. ~quiet'
      BY <1>2 DEF MoveDb, EditTree
    <2> QED
      BY <2>1 DEF ResultsTell, QuietVerdict
  <1>3. CASE Kill
    BY <1>3, SMTT(30) DEF Kill, Exit, Signal, ResultsTell, QuietVerdict
  <1>4. CASE Render
    BY <1>4 DEF Render, ResultsTell, QuietVerdict, Present, Accepted, Content, Current,
                Remaining, OwnReport
  <1>5. CASE Start
    BY <1>5, NoResultsAreResults DEF Start, Begin, ResultsTell, QuietVerdict
  <1>6. CASE StartFails
    <2>1. pc' = "idle" /\ exit' = 1 /\ report' = report /\ round' = round + 1
      BY <1>6 DEF StartFails, Begin, Exit, Traceback
    <2>2. ~OwnReport'
      BY <2>1 DEF Shape, TypeOK, OwnReport
    <2> QED
      BY <2>1, <2>2 DEF ResultsTell, QuietVerdict
  <1> QED
    BY <1>1, <1>2, <1>3, <1>4, <1>5, <1>6, LoopKeepsTelling, ReportKeepsTelling
       DEF Next, Step

\* As long as neither the files nor the database change, exit code 0 says that
\* every contract of the directory is accepted, unless a check raised
\* (engine.py:38), and 1 with a report that one is contradicted, also if a check
\* raised (verifier.py:103, report.py:170).
THEOREM QuietVerdicts == Spec => []QuietVerdict
  <1>1. Init => Telling
    BY InitShape DEF Telling, Init, ResultsTell, QuietVerdict
  <1>2. Telling /\ [Next]_vars => Telling'
    BY NextTells
  <1>3. Telling => QuietVerdict
    BY DEF Telling
  <1> QED
    BY <1>1, <1>2, <1>3, PTL DEF Spec

\* Exit code 0 comes with a whole report of the invocation's own and a PASS for
\* every contract that was found (cli.py:213-238).
THEOREM PassesHaveReport == Spec => PassHasReport
  <1> DEFINE Passed == exit # 0 /\ exit' = 0 =>
                          /\ OwnReport'
                          /\ found # {} /\ DOMAIN report'.results = found
                          /\ \A p \in found : report'.results[p].status = "pass"
  <1>1. Shape /\ [Next]_vars => [Passed]_vars
    <2> SUFFICES ASSUME Shape, Next, exit # 0, exit' = 0
                 PROVE  /\ OwnReport'
                        /\ found # {} /\ DOMAIN report'.results = found
                        /\ \A p \in found : report'.results[p].status = "pass"
      OBVIOUS
    <2>1. None # 0
      BY DirectoryAssumption
    <2>2. Finish
      BY <2>1, ErrorCode DEF Next, Step, MoveDb, EditTree, Kill, Start, StartFails, ListContracts,
         Locate, ReadContract, RejectContract, CrashOnContract, Judge, SessionFails,
         OpenReport, WriteReport, WriteFails, Render, Exit, Signal, Traceback
    <2>3. /\ ExitCode(AggregateStatus(results)) = 0 /\ UNCHANGED <<report, round>>
          /\ OwnReport /\ report.results = results /\ found # {} /\ DOMAIN results = found
          /\ IsResults(results)
      BY <2>2 DEF Finish, Exit, Shape, TypeOK, Progress
    <2> QED
      BY <2>3, StatusesInResults DEF OwnReport
  <1> QED
    BY <1>1, DirectoryTypes, PTL DEF Spec, PassHasReport, Shape

-----------------------------------------------------------------------------
(* What the page tells *)

\* A whole report at the path that is the last invocation's own says what its
\* exit code says, and one that judged all it found has left such a report.
JudgedAll == exit = 1 /\ found # {} /\ DOMAIN results = found

ReportTellsExit ==
    pc = "idle" /\ report.kind = "whole" =>
        /\ exit = 0 \/ JudgedAll => report.round = round
        /\ report.round = round /\ exit # Signal =>
              exit = ExitCode(AggregateStatus(report.results))

LEMMA NextTellsExit == Shape /\ ReportTellsExit /\ [Next]_vars => ReportTellsExit'
  <1> SUFFICES ASSUME Shape, ReportTellsExit, [Next]_vars
               PROVE  ReportTellsExit'
    OBVIOUS
  <1> USE ErrorCode DEF ReportTellsExit, JudgedAll
  <1>1. round \in Nat /\ report.round \in Nat /\ report.round <= round
    BY DirectoryAssumption DEF Shape, TypeOK
  <1>2. CASE UNCHANGED <<round, pc, report, exit, found, results>>
    BY <1>2
  <1>3. CASE Kill
    BY <1>3 DEF Kill, Exit, Signal
  <1>4. CASE Start
    BY <1>4 DEF Start, Begin
  <1>5. CASE StartFails
    BY <1>1, <1>5 DEF StartFails, Begin, Exit, Traceback
  <1>6. ASSUME pc' # "idle"
        PROVE  ReportTellsExit'
    BY <1>6
  <1>7. CASE ListContracts
    BY <1>1, <1>6, <1>7 DEF ListContracts, Exit, Shape, Progress
  <1>8. CASE Locate \/ ReadContract \/ RejectContract \/ Judge \/ SessionFails
    BY <1>6, <1>8 DEF Locate, ReadContract, RejectContract, Judge, SessionFails, Record
  <1>9. CASE CrashOnContract
    BY <1>1, <1>9 DEF CrashOnContract, Exit, Traceback, Shape, Progress, Remaining
  <1>10. CASE OpenReport \/ WriteReport
    BY <1>6, <1>10 DEF OpenReport, WriteReport
  <1>11. CASE WriteFails
    BY <1>1, <1>11 DEF WriteFails, Exit, Shape, Progress
  <1>12. CASE Finish
    BY <1>12 DEF Finish, Exit, Shape, Progress, OwnReport
  <1>13. CASE MoveDb \/ EditTree \/ Render \/ UNCHANGED vars
    BY <1>2, <1>13 DEF MoveDb, EditTree, Render, vars
  <1> QED
    BY <1>3, <1>4, <1>5, <1>7, <1>8, <1>9, <1>10, <1>11, <1>12, <1>13 DEF Next, Step

\* After an invocation that exits 0, or 1 because a contract failed, `datagate
\* report` shows that invocation; it never shows an invocation with a status
\* other than that of the exit code it left with, unless it was killed
\* (cli.py:286).
THEOREM PagesTellExit == Spec => PageTellsExit
  <1>1. Init => ReportTellsExit
    BY DEF Init, ReportTellsExit
  <1>2. ReportTellsExit /\ [Next]_vars =>
            [page' # page /\ pc = "idle" =>
                /\ exit = 0 \/ (exit = 1 /\ found # {} /\ DOMAIN results = found) =>
                      page'.round = round
                /\ page'.round = round /\ exit # Signal =>
                      exit = ExitCode(AggregateStatus(page'.results))]_vars
    <2> SUFFICES ASSUME ReportTellsExit, Next, page' # page, pc = "idle"
                 PROVE  /\ exit = 0 \/ JudgedAll => page'.round = round
                        /\ page'.round = round /\ exit # Signal =>
                              exit = ExitCode(AggregateStatus(page'.results))
      BY DEF JudgedAll
    <2>1. Render
      BY DEF Next, Step, MoveDb, EditTree, Kill, Start, StartFails, Begin, ListContracts,
         Locate, ReadContract, RejectContract, CrashOnContract, Judge, SessionFails,
         OpenReport, WriteReport, WriteFails, Finish
    <2> QED
      BY <2>1 DEF Render, ReportTellsExit
  <1> QED
    BY <1>1, <1>2, NextTellsExit, DirectoryTypes, PTL DEF Spec, Shape, PageTellsExit

-----------------------------------------------------------------------------
(* Scores *)

One(s) == CHOOSE p \in s : TRUE

Parts(D, n) == {s \in SUBSET D : Cardinality(s) <= n}

\* sum maps each set of S to the sum of its scores.
Sums(S, rs, sum) ==
    sum = [s \in S |-> IF s = {} THEN 0 ELSE SingleScore(rs[One(s)]) + sum[s \ {One(s)}]]

LEMMA OneLess ==
    ASSUME NEW D, IsFiniteSet(D), NEW s \in SUBSET D, s # {}
    PROVE  /\ One(s) \in s /\ s \ {One(s)} \in SUBSET D
           /\ Cardinality(s) \in Nat /\ Cardinality(s \ {One(s)}) = Cardinality(s) - 1
           /\ Cardinality(s \ {One(s)}) \in Nat
  <1>1. One(s) \in s
    BY DEF One
  <1>2. IsFiniteSet(s)
    BY FS_Subset
  <1>3. Cardinality(s) \in Nat /\ Cardinality(s \ {One(s)}) = Cardinality(s) - 1
    BY <1>1, <1>2, FS_CardinalityType, FS_RemoveElement
  <1>4. Cardinality(s \ {One(s)}) \in Nat
    BY <1>2, FS_RemoveElement, FS_CardinalityType
  <1> QED
    BY <1>1, <1>3, <1>4

\* There is such a sum: the fold of the library is one.
LEMMA SumsExist ==
    ASSUME NEW D, IsFiniteSet(D), NEW rs
    PROVE  \A n \in Nat : \E sum : Sums(Parts(D, n), rs, sum)
  <1> DEFINE Bad == {n \in Nat : ~ \E sum : Sums(Parts(D, n), rs, sum)}
  <1>1. SUFFICES ASSUME Bad # {}
                 PROVE  FALSE
    OBVIOUS
  <1>2. PICK n \in Bad : \A m \in Bad : n <= m
    <2>1. Bad \subseteq Nat
      OBVIOUS
    <2> HIDE DEF Bad
    <2> QED
      BY <1>1, <2>1, SmallestExists
  <1>3. CASE n = 0
    <2> DEFINE sum == [s \in Parts(D, 0) |-> 0]
    <2>1. \A s \in Parts(D, 0) : s = {}
      <3> SUFFICES ASSUME NEW s \in SUBSET D, Cardinality(s) <= 0, s # {}
                   PROVE  FALSE
        BY DEF Parts
      <3>1. /\ Cardinality(s) \in Nat /\ Cardinality(s \ {One(s)}) \in Nat
            /\ Cardinality(s \ {One(s)}) = Cardinality(s) - 1
        BY OneLess
      <3> QED
        BY <3>1
    <2>2. Sums(Parts(D, 0), rs, sum)
      BY <2>1 DEF Sums
    <2> QED
      BY <1>3, <2>2
  <1>4. CASE n # 0
    <2>1. n - 1 \in Nat /\ n - 1 \notin Bad
      BY <1>2, <1>4
    <2>2. PICK less : Sums(Parts(D, n - 1), rs, less)
      BY <2>1
    <2> DEFINE Value(sum, s) == IF s = {} THEN 0 ELSE SingleScore(rs[One(s)]) + sum[s \ {One(s)}]
               sum == [s \in Parts(D, n) |-> Value(less, s)]
    <2>3. \A s \in Parts(D, n - 1) : less[s] = Value(less, s)
      BY <2>2 DEF Sums
    <2>4. ASSUME NEW s \in Parts(D, n), s # {}
          PROVE  s \ {One(s)} \in Parts(D, n - 1) /\ s \ {One(s)} \in Parts(D, n)
      <3> DEFINE r == s \ {One(s)}
      <3>1. s \in SUBSET D /\ Cardinality(s) <= n
        BY DEF Parts
      <3>2. /\ r \in SUBSET D /\ Cardinality(s) \in Nat /\ Cardinality(r) \in Nat
            /\ Cardinality(r) = Cardinality(s) - 1
        BY <2>4, <3>1, OneLess
      <3>3. n \in Nat
        BY <1>2
      <3> HIDE DEF r
      <3>4. Cardinality(r) <= n - 1 /\ Cardinality(r) <= n
        BY <3>1, <3>2, <3>3
      <3>5. r \in Parts(D, n - 1) /\ r \in Parts(D, n)
        BY <3>2, <3>4 DEF Parts
      <3> QED
        BY <3>5 DEF r
    <2>5. \A s \in Parts(D, n - 1) : s \in Parts(D, n) /\ sum[s] = less[s]
      <3>1. ASSUME NEW s \in Parts(D, n - 1)
            PROVE  s \in Parts(D, n)
        <4>1. s \in SUBSET D /\ Cardinality(s) <= n - 1
          BY DEF Parts
        <4>2. Cardinality(s) \in Nat
          BY <4>1, FS_Subset, FS_CardinalityType
        <4> QED
          BY <4>1, <4>2, <2>1 DEF Parts
      <3> QED
        BY <2>3, <3>1
    <2>6. \A s \in Parts(D, n) : sum[s] = Value(sum, s)
      <3> SUFFICES ASSUME NEW s \in Parts(D, n)
                   PROVE  sum[s] = Value(sum, s)
        OBVIOUS
      <3>1. CASE s = {}
        BY <3>1
      <3>2. CASE s # {}
        <4>1. sum[s \ {One(s)}] = less[s \ {One(s)}]
          BY <2>4, <2>5, <3>2
        <4>2. sum[s] = SingleScore(rs[One(s)]) + less[s \ {One(s)}]
          BY <3>2
        <4> HIDE DEF sum
        <4> QED
          BY <3>2, <4>1, <4>2
      <3> QED
        BY <3>1, <3>2
    <2>7. Sums(Parts(D, n), rs, sum)
      <3>1. sum = [s \in Parts(D, n) |-> sum[s]]
        OBVIOUS
      <3> HIDE DEF sum
      <3> QED
        BY <2>6, <3>1 DEF Sums
    <2> HIDE DEF sum
    <2> QED
      BY <2>7
  <1> QED
    BY <1>3, <1>4

Total(rs) == MapThenSumSet(LAMBDA p : SingleScore(rs[p]), DOMAIN rs)

LEMMA TotalIsSum ==
    ASSUME NEW rs, IsFiniteSet(DOMAIN rs)
    PROVE  \E sum : Sums(SUBSET DOMAIN rs, rs, sum) /\ Total(rs) = sum[DOMAIN rs]
  <1> DEFINE D == DOMAIN rs
             sum == CHOOSE it : Sums(SUBSET D, rs, it)
  <1>1. Total(rs) = sum[D]
    BY DEF Total, MapThenSumSet, MapThenFoldSet, Sums, One
  <1>2. \E it : Sums(SUBSET D, rs, it)
    <2>1. Cardinality(D) \in Nat
      BY FS_CardinalityType
    <2>2. Parts(D, Cardinality(D)) = SUBSET D
      BY FS_Subset DEF Parts
    <2> QED
      BY <2>1, <2>2, SumsExist
  <1> QED
    BY <1>1, <1>2

\* The sum of scores, of which each is 100 or 90 at most.
LEMMA TotalIsBounded ==
    ASSUME NEW rs, IsFiniteSet(DOMAIN rs),
           \A p \in DOMAIN rs : SingleScore(rs[p]) \in Nat
                                /\ (SingleScore(rs[p]) = 100 \/ SingleScore(rs[p]) <= 90)
    PROVE  /\ Total(rs) \in Nat
           /\ (\A p \in DOMAIN rs : SingleScore(rs[p]) = 100)
                 => Total(rs) = 100 * Cardinality(DOMAIN rs)
           /\ (\E p \in DOMAIN rs : SingleScore(rs[p]) # 100)
                 => Total(rs) <= 100 * Cardinality(DOMAIN rs) - 10
  <1> DEFINE D == DOMAIN rs
             Score(p) == SingleScore(rs[p])
  <1>1. PICK sum : Sums(SUBSET D, rs, sum) /\ Total(rs) = sum[D]
    BY TotalIsSum
  <1> DEFINE Bounded(s) ==
                /\ sum[s] \in Nat /\ sum[s] <= 100 * Cardinality(s)
                /\ (\A p \in s : Score(p) = 100) => sum[s] = 100 * Cardinality(s)
                /\ (\E p \in s : Score(p) # 100) => sum[s] <= 100 * Cardinality(s) - 10
             Bad == {s \in SUBSET D : ~Bounded(s)}
             counts == {Cardinality(s) : s \in Bad}
  <1>2. \A s \in SUBSET D : sum[s] = IF s = {} THEN 0 ELSE Score(One(s)) + sum[s \ {One(s)}]
    BY <1>1 DEF Sums
  <1>3. \A s \in SUBSET D : Cardinality(s) \in Nat
    BY FS_Subset, FS_CardinalityType
  <1>4. Bounded({})
    BY <1>2, FS_EmptySet
  <1>5. ASSUME NEW s \in SUBSET D, s # {}, Bounded(s \ {One(s)})
        PROVE  Bounded(s)
    <2> DEFINE r == s \ {One(s)}
    <2>1. One(s) \in s /\ One(s) \in D
      BY <1>5, OneLess
    <2>2. Score(One(s)) \in Nat /\ (Score(One(s)) = 100 \/ Score(One(s)) <= 90)
      BY <2>1
    <2>3. Cardinality(s) \in Nat /\ Cardinality(r) \in Nat /\ Cardinality(r) = Cardinality(s) - 1
      BY <1>5, OneLess
    <2>4. sum[s] = Score(One(s)) + sum[r]
      BY <1>2, <1>5
    <2>5. /\ sum[r] \in Nat /\ sum[r] <= 100 * Cardinality(r)
          /\ (\A p \in r : Score(p) = 100) => sum[r] = 100 * Cardinality(r)
          /\ (\E p \in r : Score(p) # 100) => sum[r] <= 100 * Cardinality(r) - 10
      BY <1>5
    <2>6. \A p \in s : p = One(s) \/ p \in r
      OBVIOUS
    <2>7. \A p \in r : p \in s
      OBVIOUS
    <2> HIDE DEF Score, r
    <2>8. sum[s] \in Nat /\ sum[s] <= 100 * Cardinality(s)
      BY <2>2, <2>3, <2>4, <2>5
    <2>9. ASSUME \A p \in s : Score(p) = 100
          PROVE  sum[s] = 100 * Cardinality(s)
      <3>1. Score(One(s)) = 100 /\ \A p \in r : Score(p) = 100
        BY <2>1, <2>7, <2>9
      <3> QED
        BY <2>3, <2>4, <2>5, <3>1
    <2>10. ASSUME NEW p \in s, Score(p) # 100
           PROVE  sum[s] <= 100 * Cardinality(s) - 10
      <3>1. CASE p = One(s)
        BY <2>2, <2>3, <2>4, <2>5, <2>10, <3>1
      <3>2. CASE p \in r
        <4>1. sum[r] <= 100 * Cardinality(r) - 10
          BY <2>5, <2>10, <3>2
        <4> QED
          BY <2>2, <2>3, <2>4, <2>5, <4>1
      <3> QED
        BY <2>6, <3>1, <3>2
    <2> QED
      BY <2>8, <2>9, <2>10
  <1>6. Bad = {}
    <2>1. SUFFICES ASSUME Bad # {}
                   PROVE  FALSE
      OBVIOUS
    <2>2. counts \subseteq Nat /\ counts # {}
      BY <1>3, <2>1
    <2>3. PICK k \in counts : \A m \in counts : k <= m
      <3> HIDE DEF counts
      <3> QED
        BY <2>2, SmallestExists
    <2>4. PICK s \in Bad : Cardinality(s) = k
      OBVIOUS
    <2>5. s \in SUBSET D /\ ~Bounded(s)
      OBVIOUS
    <2> HIDE DEF Bounded
    <2>6. s # {}
      BY <1>4, <2>5
    <2>7. /\ s \ {One(s)} \in SUBSET D
          /\ Cardinality(s) \in Nat /\ Cardinality(s \ {One(s)}) = Cardinality(s) - 1
      BY <2>5, <2>6, OneLess
    <2>8. s \ {One(s)} \notin Bad
      BY <2>3, <2>4, <2>7
    <2> QED
      BY <1>5, <2>5, <2>6, <2>7, <2>8
  <1>7. Bounded(D)
    BY <1>6
  <1> QED
    BY <1>1, <1>7

\* What the score of one contract tells of its status.
Scored(rs) == \A p \in DOMAIN rs : rs[p].status = "fail" => rs[p].errors > 0

LEMMA ScoreTells ==
    ASSUME NEW r \in Result, r.status = "fail" => r.errors > 0
    PROVE  /\ SingleScore(r) \in Nat
           /\ SingleScore(r) = 100 \/ SingleScore(r) <= 90
           /\ SingleScore(r) = 100 <=> r.status = "pass"
  <1>1. r.errors \in Nat /\ r.warnings \in Nat /\ r.status \in {"pass", "fail", "error"}
    BY DEF Statuses
  <1>2. CASE r.status = "pass"
    BY <1>2 DEF SingleScore
  <1>3. CASE r.status = "error"
    BY <1>3 DEF SingleScore
  <1>4. CASE r.status = "fail"
    <2> DEFINE score == 100 - 10 * r.errors - 2 * r.warnings
    <2>1. SingleScore(r) = IF score > 0 THEN score ELSE 0
      BY <1>4 DEF SingleScore
    <2>2. score \in Int /\ score <= 90
      BY <1>1, <1>4
    <2> HIDE DEF score
    <2>3. SingleScore(r) \in Nat /\ SingleScore(r) <= 90
      BY <2>1, <2>2
    <2> QED
      BY <1>4, <2>3
  <1> QED
    BY <1>1, <1>2, <1>3, <1>4

LEMMA QuotientAndRest ==
    ASSUME NEW t \in Nat, NEW n \in Nat, 1 <= n
    PROVE  t \div n \in Int /\ t % n \in 0..(n - 1) /\ t = n * (t \div n) + (t % n)
  <1>1. t = n * (t \div n) + (t % n)
    OBVIOUS
  <1>2. t % n \in 0..(n - 1)
    OBVIOUS
  <1>3. t \div n \in Int
    OBVIOUS
  <1> QED
    BY <1>1, <1>2, <1>3

\* Below twenty the mean is not rounded up to 100.
LEMMA BelowTwenty ==
    ASSUME NEW n \in 1..19, NEW total \in Nat
    PROVE  /\ total = 100 * n => Round(total, n) = 100
           /\ total <= 100 * n - 10 => Round(total, n) # 100
  <1> DEFINE floor == total \div n
             rest  == total % n
  <1>1. n \in Nat /\ 1 <= n /\ n < 20
    OBVIOUS
  <1>2. floor \in Int /\ rest \in 0..(n - 1) /\ total = n * floor + rest
    BY <1>1, QuotientAndRest
  <1>3. Round(total, n) = IF 2 * rest > n \/ (2 * rest = n /\ floor % 2 = 1)
                          THEN floor + 1 ELSE floor
    BY DEF Round
  <1> HIDE DEF floor, rest
  <1>4. ASSUME total = 100 * n
        PROVE  Round(total, n) = 100
    <2>1. floor = 100 /\ rest = 0
      BY <1>1, <1>2, <1>4
    <2> QED
      BY <1>1, <1>3, <2>1
  <1>5. ASSUME total <= 100 * n - 10, Round(total, n) = 100
        PROVE  FALSE
    <2>1. floor = 100 \/ floor = 99
      BY <1>2, <1>3, <1>5
    <2>2. floor # 100
      BY <1>1, <1>2, <1>5
    <2>3. floor = 99
      BY <2>1, <2>2
    <2>4. rest <= n - 10
      BY <1>1, <1>2, <1>5, <2>3
    <2>5. 2 * rest < n
      BY <1>1, <1>2, <2>4
    <2> QED
      BY <1>1, <1>2, <1>3, <1>5, <2>3, <2>5
  <1> QED
    BY <1>4, <1>5

\* The score of fewer than twenty contracts is 100 exactly when all pass.
LEMMA ScoreTellsStatus ==
    ASSUME NEW rs, IsFiniteSet(DOMAIN rs), Cardinality(DOMAIN rs) < 20,
           \A p \in DOMAIN rs : rs[p] \in Result, Scored(rs)
    PROVE  ScoreOf(rs) = 100 <=> AggregateStatus(rs) = "pass"
  <1>1. \A p \in DOMAIN rs : /\ SingleScore(rs[p]) \in Nat
                             /\ SingleScore(rs[p]) = 100 \/ SingleScore(rs[p]) <= 90
                             /\ SingleScore(rs[p]) = 100 <=> rs[p].status = "pass"
    BY ScoreTells DEF Scored
  <1>2. AggregateStatus(rs) = "pass" <=> \A p \in DOMAIN rs : rs[p].status = "pass"
    <2>1. \A p \in DOMAIN rs : rs[p].status \in {"pass", "fail", "error"}
      BY DEF Statuses
    <2>2. \A status : status \in StatusesIn(rs) <=> \E p \in DOMAIN rs : rs[p].status = status
      BY DEF StatusesIn
    <2>3. AggregateStatus(rs) = "pass" <=> "error" \notin StatusesIn(rs) /\ "fail" \notin StatusesIn(rs)
      BY DEF AggregateStatus
    <2> QED
      BY <2>1, <2>2, <2>3
  <1>3. CASE DOMAIN rs = {}
    BY <1>2, <1>3 DEF ScoreOf
  <1>4. CASE DOMAIN rs # {}
    <2> DEFINE n == Cardinality(DOMAIN rs)
    <2>1. n \in 1..19
      <3>1. n \in Nat /\ n # 0
        BY <1>4, FS_CardinalityType, FS_EmptySet
      <3> QED
        BY <3>1
    <2>2. ScoreOf(rs) = Round(Total(rs), n)
      BY <1>4 DEF ScoreOf, Total
    <2>3. /\ Total(rs) \in Nat
          /\ (\A p \in DOMAIN rs : SingleScore(rs[p]) = 100) => Total(rs) = 100 * n
          /\ (\E p \in DOMAIN rs : SingleScore(rs[p]) # 100) => Total(rs) <= 100 * n - 10
      BY <1>1, TotalIsBounded
    <2> HIDE DEF n
    <2> QED
      BY <1>1, <1>2, <2>1, <2>2, <2>3, BelowTwenty
  <1> QED
    BY <1>3, <1>4

\* A contract that fails has errors, in every set of results the run keeps.
AllScored == Scored(results) /\ Scored(report.results) /\ Scored(page.results)

LEMMA VerdictsAreScored ==
    /\ Broken.status # "fail" /\ Clean.status # "fail"
    /\ \A counts \in [errors : Nat, warnings : Nat] :
          Verdict(counts).status = "fail" => Verdict(counts).errors > 0
  BY DEF Broken, Clean, Verdict

LEMMA RecordKeepsScored ==
    ASSUME Shape, Remaining # {}, AllScored, NEW r \in Result, Record(r),
           r.status = "fail" => r.errors > 0, UNCHANGED <<report, page>>
    PROVE  AllScored'
  <1>1. /\ DOMAIN results' = DOMAIN results \cup {Current}
        /\ results'[Current] = r
        /\ \A p \in DOMAIN results : results'[p] = results[p]
    BY RecordAdds DEF Shape
  <1>2. Scored(results)'
    BY <1>1 DEF AllScored, Scored
  <1> QED
    BY <1>2 DEF AllScored, Scored

LEMMA NextScored == Shape /\ AllScored /\ [Next]_vars => AllScored'
  <1> SUFFICES ASSUME Shape, AllScored, [Next]_vars
               PROVE  AllScored'
    OBVIOUS
  <1>1. pc \in {"locate", "read", "judge"} => Remaining # {}
    BY DEF Shape, Progress
  <1>2. Broken \in Result /\ Clean \in Result
    BY VerdictsAreResults
  <1>3. Scored(NoResults)
    BY DEF Scored, NoResults
  <1>4. CASE UNCHANGED <<results, report, page>>
    BY <1>4 DEF AllScored, Scored
  <1>5. CASE Start \/ StartFails
    BY <1>3, <1>5 DEF Start, StartFails, Begin, AllScored, Scored
  <1>6. CASE Locate
    <2>1. CASE Record(Broken)
      BY <1>1, <1>2, <1>6, <2>1, VerdictsAreScored, RecordKeepsScored DEF Locate
    <2> QED
      BY <1>4, <1>6, <2>1 DEF Locate
  <1>7. CASE ReadContract
    <2>1. CASE Record(Clean)
      BY <1>1, <1>2, <1>7, <2>1, VerdictsAreScored, RecordKeepsScored DEF ReadContract
    <2> QED
      BY <1>4, <1>7, <2>1 DEF ReadContract
  <1>8. CASE RejectContract \/ SessionFails
    BY <1>1, <1>2, <1>8, VerdictsAreScored, RecordKeepsScored DEF RejectContract, SessionFails
  <1>9. CASE Judge
    <2> PICK raising \in SUBSET MayRaise :
             Record(Verdict(Judgement[Commits[loaded][Current].contract][db][raising]))
      BY <1>9 DEF Judge
    <2> DEFINE counts == Judgement[Commits[loaded][Current].contract][db][raising]
    <2>1. counts \in [errors : Nat, warnings : Nat]
      <3>1. pc = "judge" /\ Remaining # {}
        BY <1>1, <1>9 DEF Judge
      <3>2. loaded \in Versions /\ Commits[loaded][Current].kind = "contract" /\ Current \in Paths
        BY <3>1, CurrentRemains DEF Shape, Progress
      <3>3. Commits[loaded][Current].contract \in DOMAIN Judgement /\ db \in States
        BY <3>2, DirectoryAssumption DEF Shape, TypeOK
      <3> QED
        BY <3>3, DirectoryAssumption
    <2>2. Verdict(counts) \in Result /\ (Verdict(counts).status = "fail" => Verdict(counts).errors > 0)
      BY <2>1, VerdictsAreResults, VerdictsAreScored
    <2>3. Record(Verdict(counts)) /\ UNCHANGED <<report, page>> /\ pc = "judge"
      BY <1>9 DEF Judge
    <2> HIDE DEF counts
    <2> QED
      BY <1>1, <2>2, <2>3, RecordKeepsScored
  <1>10. CASE OpenReport
    BY <1>3, <1>10 DEF OpenReport, AllScored, Scored
  <1>11. CASE WriteReport
    BY <1>11 DEF WriteReport, AllScored, Scored
  <1>12. CASE WriteFails
    <2>1. \/ UNCHANGED report
          \/ report' = [kind |-> "torn", round |-> round, results |-> NoResults]
      BY <1>12 DEF WriteFails
    <2>2. UNCHANGED <<results, page>>
      BY <1>12 DEF WriteFails
    <2> QED
      BY <1>3, <2>1, <2>2 DEF AllScored, Scored
  <1>13. CASE Render
    BY <1>13 DEF Render, AllScored, Scored
  <1>14. CASE MoveDb \/ EditTree \/ Kill \/ ListContracts \/ CrashOnContract \/ Finish \/ UNCHANGED vars
    BY <1>4, <1>14 DEF MoveDb, EditTree, Kill, ListContracts, CrashOnContract, Finish, vars
  <1> QED
    BY <1>5, <1>6, <1>7, <1>8, <1>9, <1>10, <1>11, <1>12, <1>13, <1>14 DEF Next, Step

LEMMA ShiftedInterval ==
    ASSUME NEW n \in Nat
    PROVE  IsFiniteSet(101..(100 + n)) /\ Cardinality(101..(100 + n)) = n
  <1> DEFINE first == 101
             last  == 100 + n
  <1>1. first \in Int /\ last \in Int /\ last - first + 1 = n /\ (first > last => n = 0)
    OBVIOUS
  <1> HIDE DEF first, last
  <1>2. IsFiniteSet(first..last)
    BY <1>1, FS_Interval
  <1>3. Cardinality(first..last) = IF first > last THEN 0 ELSE last - first + 1
    BY <1>1, FS_Interval
  <1>4. Cardinality(first..last) = n
    BY <1>1, <1>3
  <1> QED
    BY <1>2, <1>4 DEF first, last

\* A page of fewer than twenty contracts shows 100% exactly when its status is
\* PASS (reporting.py:45-52): one contract that fails lowers the rounded mean.
THEOREM ScoresAgree == Spec => []ScoreAgreesWithStatus
  <1>1. Init => AllScored
    BY DEF Init, AllScored, Scored, NoResults
  <1>2. Shape /\ AllScored => ScoreAgreesWithStatus
    <2> SUFFICES ASSUME Shape, AllScored, NEW n \in {0, 1, 10, 17},
                        Cardinality(DOMAIN page.results) + n < 20
                 PROVE  ScoreOf(Among(n)) = 100 <=> AggregateStatus(page.results) = "pass"
      BY DEF ScoreAgreesWithStatus
    <2> DEFINE rs   == page.results
               more == {100 + i : i \in 1..n}
               all  == Among(n)
    <2>1. DOMAIN rs \subseteq Paths /\ \A p \in DOMAIN rs : rs[p] \in Result
      BY DEF Shape, TypeOK, IsResults
    <2>2. IsFiniteSet(DOMAIN rs) /\ Cardinality(DOMAIN rs) \in Nat
      BY <2>1, DirectoryAssumption, FS_Subset, FS_CardinalityType
    <2>3. IsFiniteSet(more) /\ Cardinality(more) \in Nat /\ Cardinality(more) <= n
      <3>1. more = 101..(100 + n)
        <4>1. \A x \in 101..(100 + n) : x - 100 \in 1..n /\ x = 100 + (x - 100)
          OBVIOUS
        <4>2. \A i \in 1..n : 100 + i \in 101..(100 + n)
          OBVIOUS
        <4>3. more \subseteq 101..(100 + n)
          BY <4>2
        <4>4. 101..(100 + n) \subseteq more
          <5> SUFFICES ASSUME NEW x \in 101..(100 + n)
                       PROVE  x \in more
            OBVIOUS
          <5>1. x - 100 \in 1..n /\ x = 100 + (x - 100)
            BY <4>1
          <5> QED
            BY <5>1
        <4> QED
          BY <4>3, <4>4
      <3>2. IsFiniteSet(101..(100 + n)) /\ Cardinality(101..(100 + n)) = n
        BY ShiftedInterval
      <3> HIDE DEF more
      <3> QED
        BY <3>1, <3>2
    <2>4. /\ DOMAIN all = DOMAIN rs \cup more
          /\ \A p \in DOMAIN all : all[p] = IF p \in DOMAIN rs THEN rs[p] ELSE Clean
      BY DEF Among
    <2> HIDE DEF rs, more, all
    <2>5. IsFiniteSet(DOMAIN all) /\ Cardinality(DOMAIN all) < 20
      <3>1. /\ IsFiniteSet(DOMAIN rs \cup more)
            /\ Cardinality(DOMAIN rs \cup more)
                 = Cardinality(DOMAIN rs) + Cardinality(more) - Cardinality(DOMAIN rs \cap more)
        BY <2>2, <2>3, FS_Union
      <3>2. Cardinality(DOMAIN rs \cap more) \in Nat
        BY <2>2, FS_Intersection, FS_CardinalityType
      <3>3. Cardinality(DOMAIN rs) + n < 20
        BY DEF rs
      <3> QED
        BY <2>2, <2>3, <2>4, <3>1, <3>2, <3>3
    <2>6. \A p \in DOMAIN all : all[p] \in Result
      BY <2>1, <2>4, VerdictsAreResults
    <2>7. Scored(all)
      BY <2>4, VerdictsAreResults DEF Scored, AllScored, rs
    <2>8. ScoreOf(all) = 100 <=> AggregateStatus(all) = "pass"
      BY <2>5, <2>6, <2>7, ScoreTellsStatus
    <2>9. AggregateStatus(all) = "pass" <=> AggregateStatus(rs) = "pass"
      <3>1. /\ "error" \in StatusesIn(all) <=> "error" \in StatusesIn(rs)
            /\ "fail" \in StatusesIn(all) <=> "fail" \in StatusesIn(rs)
        BY <2>4, VerdictsAreResults DEF StatusesIn
      <3> QED
        BY <3>1 DEF AggregateStatus
    <2> QED
      BY <2>8, <2>9 DEF all, rs
  <1> QED
    BY <1>1, <1>2, NextScored, DirectoryTypes, PTL DEF Spec, Shape
=============================================================================
