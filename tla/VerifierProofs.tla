--------------------------- MODULE VerifierProofs ---------------------------
(***************************************************************************)
(* The invariants of Verdicts, for every set of invocations, files,        *)
(* catalogues and migrations, and with no bound on any of them.            *)
(***************************************************************************)
EXTENDS Verdicts, ChecksProofs, FiniteSetTheorems

USE DEF ControlPoints, Statuses, Deciding

LEMMA QueriesFacts ==
    /\ Len(Queries) = 5
    /\ DOMAIN Queries = 1..5
    /\ \A i \in 1..5 : Queries[i] \in QueryNames
    /\ \A q \in QueryNames : \E i \in 1..5 : q = Queries[i]
    /\ \A i, j \in 1..5 : Queries[i] = Queries[j] => i = j
  <1>1. Len(Queries) = 5 /\ DOMAIN Queries = 1..5
    BY DEF Queries
  <1>2. /\ Queries[1] = "tables" /\ Queries[2] = "columns" /\ Queries[3] = "primary_keys"
        /\ Queries[4] = "foreign_keys" /\ Queries[5] = "indexes"
    BY DEF Queries
  <1>3. \A i, j \in 1..5 : Queries[i] = Queries[j] => i = j
    BY <1>2
  <1> QED
    BY <1>1, <1>3 DEF QueryNames

LEMMA StatusIsStatus ==
    ASSUME NEW findings
    PROVE  StatusFromFindings(findings) \in {"pass", "fail"}
  BY DEF StatusFromFindings

LEMMA NoneIsNoStatus == None \notin Statuses
  BY VerifierAssumption

-----------------------------------------------------------------------------
(* Types and control flow. *)

LEMMA InitTypes == Init => TypeOK /\ ControlFlow
  BY VerifierAssumption, QueriesFacts DEF Init, TypeOK, ControlFlow

LEMMA EnvironmentTypes ==
    ASSUME TypeOK, ControlFlow, Migrate \/ EditFile
    PROVE  TypeOK' /\ ControlFlow'
  <1>1. CASE Migrate
    BY <1>1, VerifierAssumption DEF Migrate, TypeOK, ControlFlow
  <1>2. CASE EditFile
    BY <1>2 DEF EditFile, TypeOK, ControlFlow
  <1> QED
    BY <1>1, <1>2

USE DEF Goto, Report, Exit, ErrorReport, env, Active

LEMMA StartTypes ==
    ASSUME TypeOK, ControlFlow, NEW r \in Runs, Start(r) \/ Kill(r)
    PROVE  TypeOK' /\ ControlFlow'
  <1>1. CASE Start(r)
    BY <1>1 DEF Start, TypeOK, ControlFlow
  <1>2. CASE Kill(r)
    BY <1>2 DEF Kill, Signal, TypeOK, ControlFlow
  <1> QED
    BY <1>1, <1>2

LEMMA ContractTypes ==
    ASSUME TypeOK, ControlFlow, NEW r \in Runs,
           LocateContract(r) \/ ReadContract(r) \/ RejectContract(r) \/ CrashOnContract(r)
    PROVE  TypeOK' /\ ControlFlow'
  <1>1. CASE LocateContract(r)
    <2>1. CASE pc' = [pc EXCEPT ![r] = "open"] /\ status' = [status EXCEPT ![r] = "error"]
      BY <1>1, <2>1, NoneIsNoStatus DEF LocateContract, TypeOK, ControlFlow
    <2>2. CASE pc' = [pc EXCEPT ![r] = "read"] /\ status' = status
      BY <1>1, <2>2 DEF LocateContract, TypeOK, ControlFlow
    <2> QED
      BY <1>1, <2>1, <2>2 DEF LocateContract
  <1>2. CASE ReadContract(r)
    <2> DEFINE verdict == StatusFromFindings({})
    <2>1. verdict \in {"pass", "fail"}
      BY StatusIsStatus
    <2>2. contract' \in [Runs -> {f.contract : f \in Files} \cup {None}]
      BY <1>2 DEF ReadContract, TypeOK
    <2> HIDE DEF verdict
    <2>3. CASE mode[r] = "contract_only"
      <3>1. pc' = [pc EXCEPT ![r] = "open"] /\ status' = [status EXCEPT ![r] = verdict]
        BY <1>2, <2>3 DEF ReadContract, verdict
      <3> QED
        BY <1>2, <2>1, <2>2, <2>3, <3>1, NoneIsNoStatus DEF ReadContract, TypeOK, ControlFlow
    <2>4. CASE mode[r] # "contract_only"
      <3>1. pc' = [pc EXCEPT ![r] = "connect"] /\ status' = status /\ mode[r] = "verify"
        BY <1>2, <2>4, VerifierAssumption DEF ReadContract, TypeOK
      <3> QED
        BY <1>2, <2>2, <3>1 DEF ReadContract, TypeOK, ControlFlow
    <2> QED
      BY <2>3, <2>4
  <1>3. CASE RejectContract(r)
    BY <1>3, NoneIsNoStatus DEF RejectContract, TypeOK, ControlFlow
  <1>4. CASE CrashOnContract(r)
    BY <1>4 DEF CrashOnContract, Traceback, TypeOK, ControlFlow
  <1> QED
    BY <1>1, <1>2, <1>3, <1>4

LEMMA SessionTypes ==
    ASSUME TypeOK, ControlFlow, NEW r \in Runs,
           Connect(r) \/ ConnectFails(r) \/ SetReadOnly(r) \/ FetchNext(r)
             \/ SessionFails(r) \/ Close(r)
    PROVE  TypeOK' /\ ControlFlow'
  <1>1. CASE Connect(r)
    BY <1>1 DEF Connect, TypeOK, ControlFlow
  <1>2. CASE ConnectFails(r)
    BY <1>2, NoneIsNoStatus DEF ConnectFails, TypeOK, ControlFlow
  <1>3. CASE SetReadOnly(r)
    <2>1. TypeOK'
      BY <1>3 DEF SetReadOnly, TypeOK
    <2>2. ControlFlow'
      BY <1>3, QueriesFacts DEF SetReadOnly, TypeOK, ControlFlow
    <2> QED
      BY <2>1, <2>2
  <1>4. CASE FetchNext(r)
    BY <1>4, QueriesFacts DEF FetchNext, TypeOK, ControlFlow
  <1>5. CASE SessionFails(r)
    BY <1>5 DEF SessionFails, TypeOK, ControlFlow
  <1>6. CASE Close(r)
    <2>1. CASE pc' = [pc EXCEPT ![r] = "open"] /\ status' = [status EXCEPT ![r] = "error"]
      BY <1>6, <2>1, NoneIsNoStatus DEF Close, TypeOK, ControlFlow
    <2>2. CASE ~failed[r] /\ pc' = [pc EXCEPT ![r] = "check"] /\ status' = status
      BY <1>6, <2>2 DEF Close, TypeOK, ControlFlow
    <2> QED
      BY <1>6, <2>1, <2>2 DEF Close
  <1> QED
    BY <1>1, <1>2, <1>3, <1>4, <1>5, <1>6

LEMMA ReportTypes ==
    ASSUME TypeOK, ControlFlow, NEW r \in Runs,
           Check(r) \/ OpenReport(r) \/ WriteReport(r) \/ WriteFails(r) \/ Finish(r)
    PROVE  TypeOK' /\ ControlFlow'
  <1>1. CASE Check(r)
    BY <1>1, StatusIsStatus, NoneIsNoStatus DEF Check, TypeOK, ControlFlow
  <1>2. CASE OpenReport(r)
    BY <1>2 DEF OpenReport, TypeOK, ControlFlow
  <1>3. CASE WriteReport(r)
    BY <1>3 DEF WriteReport, TypeOK, ControlFlow
  <1>4. CASE WriteFails(r)
    BY <1>4 DEF WriteFails, ExitCode, TypeOK, ControlFlow
  <1>5. CASE Finish(r)
    BY <1>5 DEF Finish, ExitCode, TypeOK, ControlFlow
  <1> QED
    BY <1>1, <1>2, <1>3, <1>4, <1>5

LEMMA NextTypes == TypeOK /\ ControlFlow /\ [Next]_vars => TypeOK' /\ ControlFlow'
  <1> SUFFICES ASSUME TypeOK, ControlFlow, [Next]_vars
               PROVE  TypeOK' /\ ControlFlow'
    OBVIOUS
  <1>1. CASE UNCHANGED vars
    BY <1>1 DEF vars, TypeOK, ControlFlow
  <1>2. CASE Next
    BY <1>2, EnvironmentTypes, StartTypes, ContractTypes, SessionTypes, ReportTypes
       DEF Next, Step
  <1> QED
    BY <1>1, <1>2

\* The variables of an invocation stay what they are meant to hold, and where
\* it is tells what it has (verifier.py, db.py, engine.py).
THEOREM TypeCorrect == Spec => [](TypeOK /\ ControlFlow)
  BY InitTypes, NextTypes, PTL DEF Spec

-----------------------------------------------------------------------------
(* The session *)

\* Before it connects an invocation has no session.
SessionSteps ==
    /\ SessionDiscipline
    /\ \A r \in Runs : pc[r] \in {"idle", "locate", "read", "connect"} => session[r] = "none"

LEMMA NextSession ==
    ASSUME TypeOK, SessionSteps, [Next]_vars
    PROVE  SessionSteps'
  <1> USE DEF SessionSteps, SessionDiscipline, TypeOK
  <1>1. CASE UNCHANGED vars
    BY <1>1 DEF vars
  <1>2. CASE Migrate \/ EditFile
    BY <1>2 DEF Migrate, EditFile
  <1>3. ASSUME NEW r \in Runs, Start(r) \/ Kill(r)
        PROVE  SessionSteps'
    <2>1. CASE Start(r)
      BY <2>1 DEF Start
    <2>2. CASE Kill(r)
      BY <2>2 DEF Kill
    <2> QED
      BY <1>3, <2>1, <2>2
  <1>4. ASSUME NEW r \in Runs,
               LocateContract(r) \/ ReadContract(r) \/ RejectContract(r) \/ CrashOnContract(r)
        PROVE  SessionSteps'
    BY <1>4 DEF LocateContract, ReadContract, RejectContract, CrashOnContract
  <1>5. ASSUME NEW r \in Runs, Connect(r) \/ ConnectFails(r) \/ SetReadOnly(r)
        PROVE  SessionSteps'
    <2>1. CASE Connect(r)
      BY <2>1 DEF Connect
    <2>2. CASE ConnectFails(r)
      BY <2>2 DEF ConnectFails
    <2>3. CASE SetReadOnly(r)
      BY <2>3 DEF SetReadOnly
    <2> QED
      BY <1>5, <2>1, <2>2, <2>3
  <1>6. ASSUME NEW r \in Runs, FetchNext(r) \/ SessionFails(r) \/ Close(r)
        PROVE  SessionSteps'
    <2>1. CASE FetchNext(r)
      BY <2>1 DEF FetchNext
    <2>2. CASE SessionFails(r)
      BY <2>2 DEF SessionFails
    <2>3. CASE Close(r)
      BY <2>3 DEF Close
    <2> QED
      BY <1>6, <2>1, <2>2, <2>3
  <1>7. ASSUME NEW r \in Runs,
               Check(r) \/ OpenReport(r) \/ WriteReport(r) \/ WriteFails(r) \/ Finish(r)
        PROVE  SessionSteps'
    BY <1>7 DEF Check, OpenReport, WriteReport, WriteFails, Finish
  <1> QED
    BY <1>1, <1>2, <1>3, <1>4, <1>5, <1>6, <1>7 DEF Next, Step

\* Queries run on a read-only session only, and a session never outlives the
\* reading of the database, whatever fails (db.py:66-83).
THEOREM SessionsDisciplined == Spec => []SessionDiscipline
  <1>1. Init => SessionSteps
    BY DEF Init, SessionSteps, SessionDiscipline
  <1>2. TypeOK /\ SessionSteps /\ [Next]_vars => SessionSteps'
    BY NextSession
  <1>3. SessionSteps => SessionDiscipline
    BY DEF SessionSteps
  <1> QED
    BY <1>1, <1>2, <1>3, TypeCorrect, PTL DEF Spec

-----------------------------------------------------------------------------
(* What the answers of the queries are worth. *)

LEMMA NextAnswers ==
    ASSUME TypeOK, ControlFlow, AnswersFromWindow, [Next]_vars
    PROVE  AnswersFromWindow'
  <1> USE DEF AnswersFromWindow
  <1>1. CASE UNCHANGED vars
    BY <1>1 DEF vars
  <1>2. CASE Migrate
    BY <1>2 DEF Migrate, TypeOK
  <1>3. CASE EditFile
    BY <1>3 DEF EditFile
  <1>4. ASSUME NEW r \in Runs, Start(r) \/ Kill(r)
        PROVE  AnswersFromWindow'
    <2>1. CASE Start(r)
      BY <2>1 DEF Start, TypeOK
    <2>2. CASE Kill(r)
      BY <2>2 DEF Kill, TypeOK
    <2> QED
      BY <1>4, <2>1, <2>2
  <1>5. ASSUME NEW r \in Runs,
               LocateContract(r) \/ ReadContract(r) \/ RejectContract(r) \/ CrashOnContract(r)
        PROVE  AnswersFromWindow'
    <2>1. UNCHANGED <<db, got, fetched, window>>
      BY <1>5 DEF LocateContract, ReadContract, RejectContract, CrashOnContract
    <2>2. \A p \in Runs : pc'[p] = "fetch" => pc[p] = "fetch"
      <3>1. CASE LocateContract(r)
        BY <3>1 DEF LocateContract, TypeOK
      <3>2. CASE ReadContract(r)
        BY <3>2 DEF ReadContract, TypeOK
      <3>3. CASE RejectContract(r)
        BY <3>3 DEF RejectContract, TypeOK
      <3>4. CASE CrashOnContract(r)
        BY <3>4 DEF CrashOnContract, TypeOK
      <3> QED
        BY <1>5, <3>1, <3>2, <3>3, <3>4
    <2> QED
      BY <2>1, <2>2
  <1>6. ASSUME NEW r \in Runs, SetReadOnly(r)
        PROVE  AnswersFromWindow'
    <2>1. fetched[r] = 0
      BY <1>6 DEF SetReadOnly, ControlFlow
    <2> QED
      BY <1>6, <2>1 DEF SetReadOnly, TypeOK
  <1>7. ASSUME NEW r \in Runs, FetchNext(r)
        PROVE  AnswersFromWindow'
    <2> DEFINE n == fetched[r]
               q == Queries[n + 1]
    <2>1. n \in 0..4 /\ db \in window[r] /\ q \in QueryNames
      BY <1>7, QueriesFacts DEF FetchNext, ControlFlow, TypeOK
    <2>2. /\ got' = [got EXCEPT ![r][q] = Fetch(q, db)]
          /\ fetched' = [fetched EXCEPT ![r] = n + 1]
          /\ UNCHANGED <<db, window>>
      BY <1>7 DEF FetchNext
    <2>3. /\ DOMAIN got' = Runs
          /\ \A p \in Runs : DOMAIN got'[p] = QueryNames
      BY <2>2
    <2>4. \A p \in Runs : pc'[p] = "fetch" => db' \in window'[p]
      BY <1>7, <2>1, <2>2 DEF FetchNext, TypeOK
    <2>5. ASSUME NEW p \in Runs, NEW i \in 1..fetched'[p]
          PROVE  \E d \in window'[p] : got'[p][Queries[i]] = Fetch(Queries[i], d)
      <3>1. CASE p # r
        <4>1. fetched'[p] = fetched[p] /\ got'[p] = got[p] /\ window'[p] = window[p]
          BY <2>2, <3>1 DEF TypeOK
        <4> QED
          BY <4>1
      <3>2. CASE p = r /\ i = n + 1
        <4>1. got'[p][Queries[i]] = Fetch(q, db)
          BY <2>1, <2>2, <3>2
        <4> QED
          BY <2>1, <2>2, <3>2, <4>1
      <3>3. CASE p = r /\ i # n + 1
        <4>1. i \in 1..n /\ i \in 1..5 /\ n + 1 \in 1..5
          BY <2>1, <2>2, <3>3 DEF TypeOK
        <4>2. Queries[i] # q /\ Queries[i] \in QueryNames
          BY <3>3, <4>1, QueriesFacts
        <4>3. got'[p][Queries[i]] = got[p][Queries[i]]
          BY <2>2, <3>3, <4>2
        <4> QED
          BY <2>2, <3>3, <4>1, <4>3
      <3> QED
        BY <3>1, <3>2, <3>3
    <2> QED
      BY <2>3, <2>4, <2>5
  <1>8. ASSUME NEW r \in Runs,
               Connect(r) \/ ConnectFails(r) \/ SessionFails(r) \/ Close(r)
        PROVE  AnswersFromWindow'
    <2>1. CASE Connect(r)
      BY <2>1 DEF Connect, TypeOK
    <2>2. CASE ConnectFails(r)
      BY <2>2 DEF ConnectFails, TypeOK
    <2>3. CASE SessionFails(r)
      BY <2>3 DEF SessionFails, TypeOK
    <2>4. CASE Close(r)
      BY <2>4 DEF Close, TypeOK
    <2> QED
      BY <1>8, <2>1, <2>2, <2>3, <2>4
  <1>9. ASSUME NEW r \in Runs,
               Check(r) \/ OpenReport(r) \/ WriteReport(r) \/ WriteFails(r) \/ Finish(r)
        PROVE  AnswersFromWindow'
    <2>1. CASE Check(r)
      BY <2>1 DEF Check, TypeOK
    <2>2. CASE OpenReport(r)
      BY <2>2 DEF OpenReport, TypeOK
    <2>3. CASE WriteReport(r)
      BY <2>3 DEF WriteReport, TypeOK
    <2>4. CASE WriteFails(r)
      BY <2>4 DEF WriteFails, TypeOK
    <2>5. CASE Finish(r)
      BY <2>5 DEF Finish, TypeOK
    <2> QED
      BY <1>9, <2>1, <2>2, <2>3, <2>4, <2>5
  <1> QED
    BY <1>1, <1>2, <1>3, <1>4, <1>5, <1>6, <1>7, <1>8, <1>9 DEF Next, Step

LEMMA InitAnswers == Init => AnswersFromWindow
  <1> SUFFICES ASSUME Init PROVE AnswersFromWindow
    OBVIOUS
  <1>1. \A r \in Runs : fetched[r] = 0 /\ 1..fetched[r] = {}
    BY DEF Init
  <1> QED
    BY <1>1 DEF Init, AnswersFromWindow

\* A step that judges nobody, and takes nothing from those who are judged.
LEMMA NobodyJudged ==
    ASSUME StatusFromChecks,
           \A p \in Judged' :
               /\ mode'[p] = mode[p] /\ status'[p] = status[p] /\ fetched'[p] = fetched[p]
               /\ raised'[p] = raised[p] /\ contract'[p] = contract[p] /\ got'[p] = got[p]
    PROVE  StatusFromChecks'
  <1> SUFFICES ASSUME NEW p \in Judged'
               PROVE  /\ fetched'[p] = Len(Queries)
                      /\ status'[p] = StatusFromFindings(Findings(p)')
    BY DEF StatusFromChecks
  <1>1. p \in Judged
    BY DEF Judged
  <1>2. Findings(p)' = Findings(p)
    BY DEF Findings, Seen
  <1> QED
    BY <1>1, <1>2 DEF StatusFromChecks

LEMMA NextStatus ==
    ASSUME TypeOK, ControlFlow, AnswersFromWindow, StatusFromChecks, [Next]_vars
    PROVE  StatusFromChecks'
  <1> USE DEF Judged
  <1>1. CASE UNCHANGED vars
    BY <1>1, NobodyJudged DEF vars
  <1>2. CASE Migrate \/ EditFile
    BY <1>2, NobodyJudged DEF Migrate, EditFile
  <1>3. ASSUME NEW r \in Runs, Start(r) \/ Kill(r)
        PROVE  StatusFromChecks'
    BY <1>3, NobodyJudged DEF Start, Kill
  <1>4. ASSUME NEW r \in Runs, LocateContract(r) \/ RejectContract(r) \/ ConnectFails(r)
        PROVE  StatusFromChecks'
    <2>1. /\ \/ status' = status
             \/ status' = [status EXCEPT ![r] = "error"]
          /\ UNCHANGED <<mode, fetched, raised, contract, got>>
      BY <1>4 DEF LocateContract, RejectContract, ConnectFails
    <2> QED
      BY <2>1, NobodyJudged DEF TypeOK
  <1>5. ASSUME NEW r \in Runs, ReadContract(r)
        PROVE  StatusFromChecks'
    <2>1. status[r] = None
      BY <1>5 DEF ReadContract, ControlFlow
    <2>2. \A p \in Runs \ {r} : status'[p] = status[p] /\ contract'[p] = contract[p]
      BY <1>5 DEF ReadContract, TypeOK
    <2>3. r \notin Judged'
      BY <1>5, <2>1, NoneIsNoStatus DEF ReadContract, TypeOK
    <2>4. \A p \in Judged' : p # r
      BY <2>3
    <2> QED
      BY <1>5, <2>2, <2>4, NobodyJudged DEF ReadContract
  <1>6. ASSUME NEW r \in Runs, CrashOnContract(r) \/ Connect(r) \/ SetReadOnly(r) \/ SessionFails(r)
        PROVE  StatusFromChecks'
    BY <1>6, NobodyJudged DEF CrashOnContract, Connect, SetReadOnly, SessionFails
  <1>7. ASSUME NEW r \in Runs, FetchNext(r)
        PROVE  StatusFromChecks'
    <2>1. status[r] = None /\ UNCHANGED <<mode, status, raised, contract>>
      BY <1>7 DEF FetchNext, ControlFlow
    <2>2. \A p \in Judged' : p # r
      BY <2>1, NoneIsNoStatus
    <2>3. \A p \in Runs \ {r} : got'[p] = got[p]
      BY <1>7 DEF FetchNext, AnswersFromWindow
    <2>4. \A p \in Runs \ {r} : fetched'[p] = fetched[p]
      BY <1>7 DEF FetchNext, TypeOK
    <2> QED
      BY <2>1, <2>2, <2>3, <2>4, NobodyJudged
  <1>8. ASSUME NEW r \in Runs, Close(r)
        PROVE  StatusFromChecks'
    <2>1. /\ \/ status' = status
             \/ status' = [status EXCEPT ![r] = "error"]
          /\ UNCHANGED <<mode, fetched, raised, contract, got>>
      BY <1>8 DEF Close
    <2> QED
      BY <2>1, NobodyJudged DEF TypeOK
  <1>9. ASSUME NEW r \in Runs, Check(r)
        PROVE  StatusFromChecks'
    <2>1. PICK raising \in SUBSET MayRaise :
            /\ raised' = [raised EXCEPT ![r] = raising]
            /\ status' = [status EXCEPT ![r] =
                  StatusFromFindings(RunChecks(CheckNames, raising, contract[r], Seen(r)))]
      BY <1>9 DEF Check
    <2>2. UNCHANGED <<mode, fetched, contract, got>>
      BY <1>9 DEF Check
    <2>3. Findings(r)' = RunChecks(CheckNames, raising, contract[r], Seen(r))
      BY <2>1, <2>2 DEF Findings, Seen, TypeOK
    <2>4. status'[r] = StatusFromFindings(Findings(r)')
      BY <2>1, <2>3 DEF TypeOK
    <2>5. fetched'[r] = Len(Queries)
      BY <1>9, <2>2 DEF Check, ControlFlow
    <2>6. ASSUME NEW p \in Judged', p # r
          PROVE  /\ fetched'[p] = Len(Queries)
                 /\ status'[p] = StatusFromFindings(Findings(p)')
      <3>1. p \in Judged /\ status'[p] = status[p] /\ raised'[p] = raised[p]
        BY <2>1, <2>2, <2>6 DEF TypeOK
      <3>2. Findings(p)' = Findings(p)
        BY <2>2, <3>1 DEF Findings, Seen
      <3> QED
        BY <2>2, <3>1, <3>2 DEF StatusFromChecks
    <2> QED
      BY <2>4, <2>5, <2>6 DEF StatusFromChecks
  <1>10. ASSUME NEW r \in Runs,
                OpenReport(r) \/ WriteReport(r) \/ WriteFails(r) \/ Finish(r)
         PROVE  StatusFromChecks'
    BY <1>10, NobodyJudged DEF OpenReport, WriteReport, WriteFails, Finish
  <1> QED
    BY <1>1, <1>2, <1>3, <1>4, <1>5, <1>6, <1>7, <1>8, <1>9, <1>10 DEF Next, Step

LEMMA InitStatus == Init => StatusFromChecks
  BY NoneIsNoStatus DEF Init, StatusFromChecks, Judged

-----------------------------------------------------------------------------
(* The verdict of an undisturbed reading *)

\* Five answers from one catalogue make the schema of that catalogue.
LEMMA OneStateOneSchema ==
    ASSUME NEW g, NEW d,
           \A i \in 1..5 : g[Queries[i]] = Fetch(Queries[i], d)
    PROVE  Assemble(g) = SchemaOf(d)
  <1> DEFINE h == [q \in QueryNames |-> Fetch(q, d)]
  <1>1. \A q \in QueryNames : g[q] = h[q]
    BY QueriesFacts
  <1>2. /\ "tables" \in QueryNames /\ "columns" \in QueryNames /\ "primary_keys" \in QueryNames
        /\ "foreign_keys" \in QueryNames /\ "indexes" \in QueryNames
    <2>1. /\ Queries[1] = "tables" /\ Queries[2] = "columns" /\ Queries[3] = "primary_keys"
          /\ Queries[4] = "foreign_keys" /\ Queries[5] = "indexes"
      BY DEF Queries
    <2>2. \A i \in 1..5 : Queries[i] \in QueryNames
      BY QueriesFacts
    <2> QED
      BY <2>1, <2>2
  <1> HIDE DEF h
  <1>3. Assemble(g) = Assemble(h)
    BY <1>1, <1>2 DEF Assemble
  <1> QED
    BY <1>3 DEF SchemaOf, h

VerdictInv ==
    /\ TypeOK /\ ControlFlow
    /\ AnswersFromWindow
    /\ StatusFromChecks

LEMMA VerdictInvHolds == Spec => []VerdictInv
  <1>1. Init => AnswersFromWindow /\ StatusFromChecks
    BY InitAnswers, InitStatus
  <1>2. /\ TypeOK /\ ControlFlow /\ AnswersFromWindow /\ StatusFromChecks /\ [Next]_vars
        => AnswersFromWindow' /\ StatusFromChecks'
    BY NextAnswers, NextStatus
  <1> QED
    BY <1>1, <1>2, TypeCorrect, PTL DEF Spec, VerdictInv

LEMMA VerdictsAreSteady == VerdictInv => SteadyVerdict
  <1> SUFFICES ASSUME VerdictInv,
                      NEW r \in Judged, NEW d \in window[r], window[r] = {d}
               PROVE  /\ status[r] = "pass" /\ raised[r] = {} =>
                             Conforms(contract[r], SchemaOf(d))
                      /\ status[r] = "fail" => ~Conforms(contract[r], SchemaOf(d))
    BY DEF SteadyVerdict
  <1> USE DEF VerdictInv
  <1>1. r \in Runs
    BY DEF Judged
  <1>2. \A i \in 1..5 : got[r][Queries[i]] = Fetch(Queries[i], d)
    <2>1. fetched[r] = 5
      BY QueriesFacts DEF StatusFromChecks
    <2> QED
      BY <1>1, <2>1 DEF AnswersFromWindow
  <1>3. Seen(r) = SchemaOf(d)
    BY <1>2, OneStateOneSchema DEF Seen
  <1>4. status[r] = StatusFromFindings(RunChecks(CheckNames, raised[r], contract[r], SchemaOf(d)))
    BY <1>3 DEF StatusFromChecks, Findings
  <1>5. status[r] = "pass" /\ raised[r] = {} => Conforms(contract[r], SchemaOf(d))
    BY <1>4, PassesIffConforms DEF Passes
  <1>6. status[r] = "fail" => ~Conforms(contract[r], SchemaOf(d))
    BY <1>4, RaisingHidesOnly
  <1> QED
    BY <1>5, <1>6

\* When no migration commits while an invocation reads the catalogue, its PASS
\* and its FAIL are true, whatever the contract, the database, the other
\* invocations and the failures around it (verifier.py, engine.py).
THEOREM SteadyVerdicts == Spec => []SteadyVerdict
  BY VerdictInvHolds, VerdictsAreSteady, PTL

-----------------------------------------------------------------------------
(* The verdict of a reading disturbed by additions only *)

\* What introspection says of a table of catalogue d grows with the catalogue.
LEMMA ListedAnswersGrow ==
    ASSUME NEW d, NEW e, NEW t \in DOMAIN d, CatalogueExtends(d, e)
    PROVE  /\ DOMAIN Get(ColumnRows(d), t, NoColumns) \subseteq
                   DOMAIN Get(ColumnRows(e), t, NoColumns)
           /\ \A c \in DOMAIN Get(ColumnRows(d), t, NoColumns) :
                 Get(ColumnRows(e), t, NoColumns)[c] = Get(ColumnRows(d), t, NoColumns)[c]
           /\ Get(PrimaryKeyRows(d), t, <<>>) \in {<<>>, Get(PrimaryKeyRows(e), t, <<>>)}
           /\ Get(ForeignKeyRows(d), t, {}) \subseteq Get(ForeignKeyRows(e), t, {})
           /\ Get(IndexRows(d), t, {}) \subseteq Get(IndexRows(e), t, {})
  <1>1. /\ t \in DOMAIN e /\ e[t].kind = d[t].kind
        /\ DOMAIN d[t].columns \subseteq DOMAIN e[t].columns
        /\ \A c \in DOMAIN d[t].columns : e[t].columns[c] = d[t].columns[c]
        /\ d[t].primary_key \in {<<>>, e[t].primary_key}
        /\ d[t].foreign_keys \subseteq e[t].foreign_keys
        /\ d[t].indexes \subseteq e[t].indexes
    BY DEF CatalogueExtends
  <1>4. /\ DOMAIN Get(ColumnRows(d), t, NoColumns) \subseteq
                DOMAIN Get(ColumnRows(e), t, NoColumns)
        /\ \A c \in DOMAIN Get(ColumnRows(d), t, NoColumns) :
              Get(ColumnRows(e), t, NoColumns)[c] = Get(ColumnRows(d), t, NoColumns)[c]
    <2>1. CASE DOMAIN d[t].columns = {}
      <3>1. Get(ColumnRows(d), t, NoColumns) = NoColumns /\ DOMAIN NoColumns = {}
        BY <2>1 DEF Get, ColumnRows, NoColumns
      <3> QED
        BY <3>1
    <2>2. CASE DOMAIN d[t].columns # {}
      <3>1. /\ Get(ColumnRows(d), t, NoColumns) = d[t].columns
            /\ Get(ColumnRows(e), t, NoColumns) = e[t].columns
        BY <1>1, <2>2 DEF Get, ColumnRows
      <3> QED
        BY <1>1, <3>1
    <2> QED
      BY <2>1, <2>2
  <1>5. Get(PrimaryKeyRows(d), t, <<>>) \in {<<>>, Get(PrimaryKeyRows(e), t, <<>>)}
    BY <1>1 DEF Get, PrimaryKeyRows
  <1>6. Get(ForeignKeyRows(d), t, {}) \subseteq Get(ForeignKeyRows(e), t, {})
    BY <1>1 DEF Get, ForeignKeyRows
  <1>7. Get(IndexRows(d), t, {}) \subseteq Get(IndexRows(e), t, {})
    <2>1. SeenIndexes(d[t]) \subseteq SeenIndexes(e[t])
      BY <1>1 DEF SeenIndexes
    <2> QED
      BY <1>1, <2>1 DEF Get, IndexRows
  <1> QED
    BY <1>4, <1>5, <1>6, <1>7

\* ... and of a table that d does not list, it says nothing.
LEMMA AnswersGrow ==
    ASSUME NEW d, NEW e, NEW t, CatalogueExtends(d, e)
    PROVE  /\ DOMAIN Get(ColumnRows(d), t, NoColumns) \subseteq
                   DOMAIN Get(ColumnRows(e), t, NoColumns)
           /\ \A c \in DOMAIN Get(ColumnRows(d), t, NoColumns) :
                 Get(ColumnRows(e), t, NoColumns)[c] = Get(ColumnRows(d), t, NoColumns)[c]
           /\ Get(PrimaryKeyRows(d), t, <<>>) \in {<<>>, Get(PrimaryKeyRows(e), t, <<>>)}
           /\ Get(ForeignKeyRows(d), t, {}) \subseteq Get(ForeignKeyRows(e), t, {})
           /\ Get(IndexRows(d), t, {}) \subseteq Get(IndexRows(e), t, {})
  <1>1. CASE t \in DOMAIN d
    BY <1>1, ListedAnswersGrow
  <1>2. CASE t \notin DOMAIN d
    <2>1. /\ Get(ColumnRows(d), t, NoColumns) = NoColumns
          /\ Get(PrimaryKeyRows(d), t, <<>>) = <<>>
          /\ Get(ForeignKeyRows(d), t, {}) = {}
          /\ Get(IndexRows(d), t, {}) = {}
      BY <1>2 DEF Get, ColumnRows, PrimaryKeyRows, ForeignKeyRows, IndexRows
    <2>2. DOMAIN NoColumns = {}
      BY DEF NoColumns
    <2> QED
      BY <2>1, <2>2
  <1> QED
    BY <1>1, <1>2

\* g answers each query from a catalogue between first and last.
AnsweredBetween(g, first, last) ==
    \A i \in 1..5 :
        \E d :
            /\ CatalogueExtends(first, d) /\ CatalogueExtends(d, last)
            /\ g[Queries[i]] = Fetch(Queries[i], d)

LEMMA SchemaBetween ==
    ASSUME NEW g, NEW first, NEW last, AnsweredBetween(g, first, last)
    PROVE  Extends(SchemaOf(first), Assemble(g)) /\ Extends(Assemble(g), SchemaOf(last))
  <1> DEFINE Between(d) == CatalogueExtends(first, d) /\ CatalogueExtends(d, last)
             Tables(d) == OfType(TableRows(d), "BASE TABLE")
             Columns(d, t) == Get(ColumnRows(d), t, NoColumns)
             Key(d, t) == Get(PrimaryKeyRows(d), t, <<>>)
             Links(d, t) == Get(ForeignKeyRows(d), t, {})
             Lookups(d, t) == Get(IndexRows(d), t, {})
             Entry(d1, d2, d3, d4, t) ==
                 [columns |-> Columns(d1, t), primary_key |-> Key(d2, t),
                  foreign_keys |-> Links(d3, t), indexes |-> Lookups(d4, t)]
  <1>1. /\ Queries[1] = "tables" /\ Queries[2] = "columns" /\ Queries[3] = "primary_keys"
        /\ Queries[4] = "foreign_keys" /\ Queries[5] = "indexes"
    BY DEF Queries
  <1>2. \A d : /\ Fetch("tables", d) = TableRows(d)
               /\ Fetch("columns", d) = ColumnRows(d)
               /\ Fetch("primary_keys", d) = PrimaryKeyRows(d)
               /\ Fetch("foreign_keys", d) = ForeignKeyRows(d)
               /\ Fetch("indexes", d) = IndexRows(d)
    BY DEF Fetch
  <1>3. \A i \in 1..5 : \E d : Between(d) /\ g[Queries[i]] = Fetch(Queries[i], d)
    BY DEF AnsweredBetween
  <1>4. ASSUME NEW d
        PROVE  SchemaOf(d).tables = [t \in Tables(d) |-> Entry(d, d, d, d, t)]
    <2>1. {"tables", "columns", "primary_keys", "foreign_keys", "indexes"} \subseteq QueryNames
      BY <1>1, QueriesFacts
    <2> QED
      BY <1>2, <2>1 DEF SchemaOf, Assemble
  <1>5. \A d, e : CatalogueExtends(d, e) => Tables(d) \subseteq Tables(e)
    BY DEF CatalogueExtends, OfType, TableRows
  <1>6. ASSUME NEW d, NEW e, CatalogueExtends(d, e), NEW t
        PROVE  /\ DOMAIN Columns(d, t) \subseteq DOMAIN Columns(e, t)
               /\ \A c \in DOMAIN Columns(d, t) : Columns(e, t)[c] = Columns(d, t)[c]
               /\ Key(d, t) \in {<<>>, Key(e, t)}
               /\ Links(d, t) \subseteq Links(e, t)
               /\ Lookups(d, t) \subseteq Lookups(e, t)
    BY <1>6, AnswersGrow
  <1>7. \A d : Between(d) => CatalogueExtends(first, d) /\ CatalogueExtends(d, last)
    OBVIOUS
  <1> HIDE DEF Between
  <1>8. PICK d1 : Between(d1) /\ g["tables"] = TableRows(d1)
    BY <1>1, <1>2, <1>3
  <1>9. PICK d2 : Between(d2) /\ g["columns"] = ColumnRows(d2)
    BY <1>1, <1>2, <1>3
  <1>10. PICK d3 : Between(d3) /\ g["primary_keys"] = PrimaryKeyRows(d3)
    BY <1>1, <1>2, <1>3
  <1>11. PICK d4 : Between(d4) /\ g["foreign_keys"] = ForeignKeyRows(d4)
    BY <1>1, <1>2, <1>3
  <1>12. PICK d5 : Between(d5) /\ g["indexes"] = IndexRows(d5)
    BY <1>1, <1>2, <1>3
  <1>13. Assemble(g).tables = [t \in Tables(d1) |-> Entry(d2, d3, d4, d5, t)]
    BY <1>8, <1>9, <1>10, <1>11, <1>12 DEF Assemble
  <1>14. Tables(first) \subseteq Tables(d1) /\ Tables(d1) \subseteq Tables(last)
    BY <1>5, <1>7, <1>8
  <1> HIDE DEF Tables, Columns, Key, Links, Lookups
  <1>15. ASSUME NEW t
         PROVE  /\ TableExtends(Entry(first, first, first, first, t), Entry(d2, d3, d4, d5, t))
                /\ TableExtends(Entry(d2, d3, d4, d5, t), Entry(last, last, last, last, t))
    BY <1>6, <1>7, <1>9, <1>10, <1>11, <1>12 DEF TableExtends
  <1> HIDE DEF Entry
  <1>16. /\ SchemaOf(first).tables = [t \in Tables(first) |-> Entry(first, first, first, first, t)]
         /\ SchemaOf(last).tables = [t \in Tables(last) |-> Entry(last, last, last, last, t)]
    BY <1>4
  <1>17. Extends(SchemaOf(first), Assemble(g))
    <2>1. \A t \in Tables(first) :
             TableExtends(SchemaOf(first).tables[t], Assemble(g).tables[t])
      BY <1>13, <1>14, <1>15, <1>16
    <2> QED
      BY <1>13, <1>14, <1>16, <2>1 DEF Extends
  <1>18. Extends(Assemble(g), SchemaOf(last))
    <2>1. \A t \in Tables(d1) :
             TableExtends(Assemble(g).tables[t], SchemaOf(last).tables[t])
      BY <1>13, <1>14, <1>15, <1>16
    <2> QED
      BY <1>13, <1>14, <1>16, <2>1 DEF Extends
  <1> QED
    BY <1>17, <1>18

LEMMA VerdictsAreOrdered == VerdictInv => OrderedVerdict
  <1> SUFFICES ASSUME VerdictInv, NEW r \in Judged, Lenient(contract[r]),
                      NEW lo \in window[r], NEW hi \in window[r],
                      \A d \in window[r] : CatalogueExtends(lo, d) /\ CatalogueExtends(d, hi)
               PROVE  /\ status[r] = "pass" /\ raised[r] = {} =>
                             Conforms(contract[r], SchemaOf(hi))
                      /\ status[r] = "fail" => ~Conforms(contract[r], SchemaOf(lo))
    BY DEF OrderedVerdict
  <1> USE DEF VerdictInv
  <1>1. r \in Runs /\ fetched[r] = 5
    BY QueriesFacts DEF StatusFromChecks, Judged
  <1>2. status[r] = StatusFromFindings(RunChecks(CheckNames, raised[r], contract[r], Seen(r)))
    BY DEF StatusFromChecks, Findings
  <1>3. AnsweredBetween(got[r], lo, hi)
    BY <1>1 DEF AnswersFromWindow, AnsweredBetween
  <1>4. Extends(SchemaOf(lo), Seen(r)) /\ Extends(Seen(r), SchemaOf(hi))
    BY <1>3, SchemaBetween DEF Seen
  <1>5. ASSUME status[r] = "pass", raised[r] = {}
        PROVE  Conforms(contract[r], SchemaOf(hi))
    <2>1. Conforms(contract[r], Seen(r))
      BY <1>2, <1>5, PassesIffConforms DEF Passes
    <2> QED
      BY <1>4, <2>1, AdditionsKeepConforming
  <1>6. ASSUME status[r] = "fail"
        PROVE  ~Conforms(contract[r], SchemaOf(lo))
    <2>1. ~Conforms(contract[r], Seen(r))
      BY <1>2, <1>6, RaisingHidesOnly
    <2> QED
      BY <1>4, <2>1, AdditionsKeepConforming
  <1> QED
    BY <1>5, <1>6

\* While the migrations that commit during a reading only add objects, its
\* verdict on a contract that tolerates extra objects is right although the
\* five queries may see five states of the database: PASS holds of the last of
\* them, and FAIL held of the first (introspect.py:251-255, drift.py:5).
THEOREM OrderedVerdicts == Spec => []OrderedVerdict
  BY VerdictInvHolds, VerdictsAreOrdered, PTL

-----------------------------------------------------------------------------
(* Reports and exceptions *)

\* The strengthening: no session is asked for before the contract is loaded, and
\* only who has a status has touched the report path.
Accountable ==
    \A r \in Runs :
        /\ pc[r] \in {"idle", "locate", "read", "connect"} => session[r] = "none"
        /\ artifact.by = r => status[r] # None

\* A status leads to the exit codes it stands for.
LEMMA ExitCodeFacts ==
    ASSUME NEW s \in Statuses
    PROVE  ExitCode("error") = 2 /\ (ExitCode(s) = 1 => s = "fail")
  BY DEF Statuses, ExitCode

LEMMA NextAccountable ==
    ASSUME TypeOK, ControlFlow, Accountable, [Next]_vars
    PROVE  Accountable'
  <1> USE VerifierAssumption, NoneIsNoStatus DEF TypeOK, Accountable
  <1>1. CASE UNCHANGED vars \/ Migrate \/ EditFile
    BY <1>1 DEF vars, Migrate, EditFile
  <1>2. ASSUME NEW r \in Runs, Start(r) \/ Kill(r)
        PROVE  Accountable'
    BY <1>2 DEF Start, Kill
  <1>3. ASSUME NEW r \in Runs, LocateContract(r) \/ ReadContract(r) \/ RejectContract(r)
        PROVE  Accountable'
    <2>1. \A s \in Runs : status[s] # None => status'[s] # None
      BY <1>3, ExitCodeFacts DEF LocateContract, ReadContract, RejectContract, StatusFromFindings, Statuses
    <2>2. artifact' = artifact /\ session' = session
      BY <1>3 DEF LocateContract, ReadContract, RejectContract
    <2>3. \A s \in Runs : pc'[s] \in {"idle", "locate", "read", "connect"} =>
                             pc[s] \in {"idle", "locate", "read", "connect"}
      BY <1>3 DEF LocateContract, ReadContract, RejectContract
    <2> QED
      BY <2>1, <2>2, <2>3
  <1>4. ASSUME NEW r \in Runs, CrashOnContract(r)
        PROVE  Accountable'
    BY <1>4 DEF CrashOnContract
  <1>5. ASSUME NEW r \in Runs, Connect(r) \/ ConnectFails(r) \/ SetReadOnly(r)
        PROVE  Accountable'
    BY <1>5 DEF Connect, ConnectFails, SetReadOnly
  <1>6. ASSUME NEW r \in Runs, FetchNext(r) \/ SessionFails(r) \/ Close(r)
        PROVE  Accountable'
    BY <1>6 DEF FetchNext, SessionFails, Close
  <1>7. ASSUME NEW r \in Runs, Check(r)
        PROVE  Accountable'
    <2>1. \A s \in Runs : status[s] # None => status'[s] # None
      BY <1>7 DEF Check, StatusFromFindings, Statuses
    <2> QED
      BY <1>7, <2>1 DEF Check
  <1>8. ASSUME NEW r \in Runs, OpenReport(r) \/ WriteReport(r) \/ WriteFails(r)
        PROVE  Accountable'
    <2>1. status[r] # None
      BY <1>8 DEF ControlFlow, OpenReport, WriteReport, WriteFails
    <2> QED
      BY <1>8, <2>1 DEF OpenReport, WriteReport, WriteFails
  <1>9. ASSUME NEW r \in Runs, Finish(r)
        PROVE  Accountable'
    BY <1>9 DEF Finish
  <1> QED
    BY <1>1, <1>2, <1>3, <1>4, <1>5, <1>6, <1>7, <1>8, <1>9 DEF Next, Step

\* Of all problems with the contract, the configuration, the connection, the
\* catalogue and the report path, only a contract that cannot be loaded is
\* raised, before a session is opened or the report path touched; any other exit
\* code 1 is a FAIL, whatever else fails and whoever else runs (verifier.py:41,
\* cli.py:176, report.py:111).
THEOREM OnlyLoadingIsRaised == Spec => []OnlyLoadingRaises
  <1>1. Init => Accountable /\ OnlyLoadingRaises
    BY VerifierAssumption DEF Init, Accountable, OnlyLoadingRaises
  <1>2. TypeOK /\ ControlFlow /\ Accountable /\ OnlyLoadingRaises /\ [Next]_vars => OnlyLoadingRaises'
    <2> SUFFICES ASSUME TypeOK, ControlFlow, Accountable, OnlyLoadingRaises, [Next]_vars
                 PROVE  OnlyLoadingRaises'
      OBVIOUS
    <2> USE VerifierAssumption, NoneIsNoStatus DEF TypeOK, OnlyLoadingRaises
    <2>1. CASE UNCHANGED vars \/ Migrate \/ EditFile
      BY <2>1 DEF vars, Migrate, EditFile
    <2>2. ASSUME NEW r \in Runs, Start(r) \/ Kill(r)
          PROVE  OnlyLoadingRaises'
      <3>1. CASE Start(r)
        BY <3>1 DEF Start
      <3>2. CASE Kill(r)
        BY <3>2 DEF Kill, Active
      <3> QED
        BY <2>2, <3>1, <3>2
    <2>3. ASSUME NEW r \in Runs, LocateContract(r) \/ ReadContract(r) \/ RejectContract(r)
          PROVE  OnlyLoadingRaises'
      BY <2>3 DEF LocateContract, ReadContract, RejectContract
    <2>4. ASSUME NEW r \in Runs, CrashOnContract(r)
          PROVE  OnlyLoadingRaises'
      <3>1. pc[r] = "read" /\ session[r] = "none" /\ status[r] = None /\ artifact.by # r
        BY <2>4 DEF CrashOnContract, ControlFlow, Accountable
      <3> QED
        BY <2>4, <3>1 DEF CrashOnContract
    <2>5. ASSUME NEW r \in Runs, Connect(r) \/ ConnectFails(r) \/ SetReadOnly(r)
          PROVE  OnlyLoadingRaises'
      BY <2>5 DEF Connect, ConnectFails, SetReadOnly
    <2>6. ASSUME NEW r \in Runs, FetchNext(r) \/ SessionFails(r) \/ Close(r)
          PROVE  OnlyLoadingRaises'
      BY <2>6 DEF FetchNext, SessionFails, Close
    <2>7. ASSUME NEW r \in Runs, Check(r)
          PROVE  OnlyLoadingRaises'
      BY <2>7 DEF Check
    <2>8. ASSUME NEW r \in Runs, OpenReport(r) \/ WriteReport(r)
          PROVE  OnlyLoadingRaises'
      <3>1. status[r] # None /\ status' = status /\ session' = session /\ exit' = exit
        BY <2>8 DEF OpenReport, WriteReport, ControlFlow
      <3>2. artifact'.by = r
        BY <2>8 DEF OpenReport, WriteReport
      <3>3. \A s \in Runs : pc'[s] = "done" => pc[s] = "done" /\ s # r
        BY <2>8 DEF OpenReport, WriteReport
      <3> QED
        BY <3>1, <3>2, <3>3
    <2>9. ASSUME NEW r \in Runs, WriteFails(r)
          PROVE  OnlyLoadingRaises'
      <3>1. status[r] # None /\ status' = status /\ session' = session
        BY <2>9 DEF WriteFails, ControlFlow
      <3>2. exit' = [exit EXCEPT ![r] = 2] /\ pc' = [pc EXCEPT ![r] = "done"]
        BY <2>9, ExitCodeFacts DEF WriteFails, Statuses
      <3>3. artifact' = artifact \/ artifact'.by = r
        BY <2>9 DEF WriteFails
      <3> QED
        BY <3>1, <3>2, <3>3
    <2>10. ASSUME NEW r \in Runs, Finish(r)
           PROVE  OnlyLoadingRaises'
      <3>1. status[r] \in Statuses /\ status[r] # None
        BY <2>10 DEF Finish, ControlFlow
      <3>2. ExitCode(status[r]) = 1 => status[r] = "fail"
        BY <3>1, ExitCodeFacts
      <3> QED
        BY <2>10, <3>1, <3>2 DEF Finish
    <2> QED
      BY <2>1, <2>2, <2>3, <2>4, <2>5, <2>6, <2>7, <2>8, <2>9, <2>10 DEF Next, Step
  <1> QED
    BY <1>1, <1>2, TypeCorrect, NextAccountable, PTL DEF Spec

\* The strengthening: one invocation at a time has the report path for itself.
Undisturbed ==
    /\ \A r, s \in Active : r = s
    /\ \A r \in Runs :
          /\ pc[r] = "write" => artifact = [kind |-> "empty", by |-> r]
          /\ pc[r] = "finish" => artifact = [kind |-> "whole", by |-> r]

\* Where at most one is active and fewer than that are, nobody is.
LEMMA NobodyActive ==
    ASSUME NEW S, NEW n \in Nat, n <= 1, \A r, s \in S : r = s, Cardinality(S) < n
    PROVE  S = {}
  <1>1. SUFFICES ASSUME NEW x \in S
                 PROVE  FALSE
    OBVIOUS
  <1>2. S = {x}
    OBVIOUS
  <1>3. Cardinality(S) = 1
    BY <1>2, FS_Singleton
  <1> QED
    BY <1>3

LEMMA NextUndisturbed ==
    ASSUME MaxActive <= 1, TypeOK, Undisturbed, [Next]_vars
    PROVE  Undisturbed'
  <1>1. ASSUME NEW r \in Runs, Active' \subseteq {r},
               pc'[r] = "write" => artifact' = [kind |-> "empty", by |-> r],
               pc'[r] = "finish" => artifact' = [kind |-> "whole", by |-> r]
        PROVE  Undisturbed'
    BY <1>1 DEF Undisturbed
  <1> USE DEF TypeOK, Undisturbed
  <1>2. CASE UNCHANGED vars \/ Migrate \/ EditFile
    BY <1>2 DEF vars, Migrate, EditFile
  <1>3. ASSUME NEW r \in Runs, Start(r)
        PROVE  Undisturbed'
    <2>1. Active = {}
      <3>1. Cardinality(Active) < MaxActive
        BY <1>3 DEF Start
      <3> QED
        BY <3>1, NobodyActive, VerifierAssumption DEF Undisturbed
    <2>2. \A s \in Runs \ {r} : pc'[s] \in {"idle", "done"}
      BY <1>3, <2>1 DEF Start
    <2>3. pc'[r] = "locate"
      BY <1>3 DEF Start
    <2> QED
      BY <2>2, <2>3
  <1>4. ASSUME NEW r \in Runs, Kill(r) \/ Step(r)
        PROVE  /\ Active' \subseteq {r}
               /\ pc'[r] = "write" => artifact' = [kind |-> "empty", by |-> r]
               /\ pc'[r] = "finish" => artifact' = [kind |-> "whole", by |-> r]
    <2>1. CASE Kill(r)
      BY <2>1 DEF Kill
    <2>2. CASE LocateContract(r) \/ ReadContract(r) \/ RejectContract(r) \/ CrashOnContract(r)
      BY <2>2 DEF LocateContract, ReadContract, RejectContract, CrashOnContract
    <2>3. CASE Connect(r) \/ ConnectFails(r) \/ SetReadOnly(r)
      <3>1. r \in Active /\ \E to \in {"setup", "open", "fetch"} : pc' = [pc EXCEPT ![r] = to]
        BY <2>3 DEF Connect, ConnectFails, SetReadOnly
      <3> QED
        BY <3>1
    <2>4. CASE FetchNext(r) \/ SessionFails(r) \/ Close(r)
      <3>1. r \in Active /\ \E to \in {"close", "fetch", "open", "check"} : pc' = [pc EXCEPT ![r] = to]
        BY <2>4 DEF FetchNext, SessionFails, Close
      <3> QED
        BY <3>1
    <2>5. CASE Check(r)
      BY <2>5 DEF Check
    <2>6. CASE OpenReport(r)
      BY <2>6 DEF OpenReport
    <2>7. CASE WriteReport(r)
      <3>1. artifact.kind = "empty"
        BY <2>7 DEF WriteReport
      <3>2. pc' = [pc EXCEPT ![r] = "finish"] /\ artifact' = [kind |-> "whole", by |-> r] /\ r \in Active
        BY <2>7, <3>1 DEF WriteReport
      <3> QED
        BY <3>2
    <2>8. CASE WriteFails(r) \/ Finish(r)
      BY <2>8 DEF WriteFails, Finish
    <2> QED
      BY <1>4, <2>1, <2>2, <2>3, <2>4, <2>5, <2>6, <2>7, <2>8 DEF Step
  <1> QED
    BY <1>1, <1>2, <1>3, <1>4 DEF Next

\* Invocations that do not overlap leave with exit code 0 or 1 for a settled
\* verdict only when their own whole report is at the path, whatever fails and
\* whoever is killed (cli.py:179, report.py:111).
THEOREM ExitsMatchArtifact ==
    ASSUME MaxActive <= 1
    PROVE  Spec => ExitMatchesArtifact
  <1>1. Init => Undisturbed
    BY DEF Init, Undisturbed
  <1>2. TypeOK /\ Undisturbed /\ [Next]_vars => Undisturbed'
    BY NextUndisturbed
  <1>3. TypeOK /\ ControlFlow /\ Undisturbed /\ [Next]_vars =>
            [\A r \in Runs :
                exit[r] = None /\ exit'[r] \in {0, 1} /\ status[r] # None =>
                    artifact' = [kind |-> "whole", by |-> r]]_vars
    <2> SUFFICES ASSUME TypeOK, ControlFlow, Undisturbed, Next,
                        NEW r \in Runs, exit[r] = None, exit'[r] \in {0, 1}, status[r] # None
                 PROVE  artifact' = [kind |-> "whole", by |-> r]
      OBVIOUS
    <2> USE VerifierAssumption DEF TypeOK
    <2>1. PICK s \in Runs : Kill(s) \/ CrashOnContract(s) \/ WriteFails(s) \/ Finish(s)
      <3>1. exit' # exit
        BY VerifierAssumption
      <3>2. ASSUME NEW s \in Runs, Start(s) \/ LocateContract(s) \/ ReadContract(s) \/ RejectContract(s)
            PROVE  FALSE
        BY <3>1, <3>2 DEF Start, LocateContract, ReadContract, RejectContract
      <3>3. ASSUME NEW s \in Runs, Connect(s) \/ ConnectFails(s) \/ SetReadOnly(s) \/ FetchNext(s)
                                     \/ SessionFails(s) \/ Close(s)
            PROVE  FALSE
        BY <3>1, <3>3 DEF Connect, ConnectFails, SetReadOnly, FetchNext, SessionFails, Close
      <3>4. ASSUME NEW s \in Runs, Check(s) \/ OpenReport(s) \/ WriteReport(s)
            PROVE  FALSE
        BY <3>1, <3>4 DEF Check, OpenReport, WriteReport
      <3> QED
        BY <3>1, <3>2, <3>3, <3>4 DEF Next, Step, Migrate, EditFile
    <2>2. s = r
      BY <2>1 DEF Kill, CrashOnContract, WriteFails, Finish
    <2>3. ~Kill(r)
      BY DEF Kill, Signal
    <2>4. ~CrashOnContract(r)
      BY DEF CrashOnContract, ControlFlow
    <2>5. ~WriteFails(r)
      BY DEF WriteFails, ExitCode
    <2>6. Finish(r)
      BY <2>1, <2>2, <2>3, <2>4, <2>5
    <2> QED
      BY <2>6 DEF Finish, Undisturbed
  <1> QED
    BY <1>1, <1>2, <1>3, TypeCorrect, PTL DEF Spec, ExitMatchesArtifact
=============================================================================
