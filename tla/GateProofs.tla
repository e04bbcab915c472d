----------------------------- MODULE GateProofs -----------------------------
(***************************************************************************)
(* The verifier implements Gate: every step of an invocation is a step of  *)
(* the pipeline's view of it, or one that the pipeline does not see.       *)
(***************************************************************************)
EXTENDS VerifierProofs

USE DEF ControlPoints, Statuses, Goto, Report, Exit, ErrorReport, env

LEMMA Stages ==
    /\ StageOf("idle") = "idle"
    /\ \A p \in {"locate", "read", "connect", "setup", "fetch", "close", "check"} :
          StageOf(p) = "deciding"
    /\ StageOf("open") = "settled"
    /\ StageOf("write") = "writing"
    /\ StageOf("finish") = "published"
    /\ StageOf("done") = "ended"
    /\ \A p \in ControlPoints \ {"idle", "done"} :
          StageOf(p) \in {"deciding", "settled", "writing", "published"}
  <1>1. \A p \in {"locate", "read", "connect", "setup", "fetch", "close", "check"} :
          StageOf(p) = "deciding"
    BY DEF StageOf
  <1>2. /\ StageOf("idle") = "idle" /\ StageOf("open") = "settled" /\ StageOf("write") = "writing"
        /\ StageOf("finish") = "published" /\ StageOf("done") = "ended"
    BY DEF StageOf
  <1> QED
    BY <1>1, <1>2

\* One invocation moves from one control point to another.
LEMMA Moves ==
    ASSUME TypeOK, NEW r \in Runs, NEW to, pc' = [pc EXCEPT ![r] = to]
    PROVE  /\ GateStage[r] = StageOf(pc[r])
           /\ GateStage' = [GateStage EXCEPT ![r] = StageOf(to)]
  BY DEF TypeOK, GateStage

LEMMA Stutters ==
    ASSUME UNCHANGED <<GateStage, status, artifact, exit>>
    PROVE  [Pipeline!Next]_(Pipeline!vars)
  BY DEF Pipeline!vars, GateStage

LEMMA MovesUnseen ==
    ASSUME TypeOK, NEW r \in Runs, NEW to, pc' = [pc EXCEPT ![r] = to],
           StageOf(to) = StageOf(pc[r]), UNCHANGED <<status, artifact, exit>>
    PROVE  [Pipeline!Next]_(Pipeline!vars)
  <1>1. GateStage' = GateStage
    BY Moves DEF GateStage
  <1> QED
    BY <1>1, Stutters

\* One lemma per action of Gate.
LEMMA Settles ==
    ASSUME TypeOK, NEW r \in Runs, NEW v \in Statuses,
           StageOf(pc[r]) = "deciding", pc' = [pc EXCEPT ![r] = "open"],
           status' = [status EXCEPT ![r] = v], UNCHANGED <<artifact, exit>>
    PROVE  Pipeline!Next
  <1>1. Pipeline!Settle(r)
    <2>1. /\ GateStage[r] = "deciding"
          /\ GateStage' = [GateStage EXCEPT ![r] = "settled"]
      <3>1. /\ GateStage[r] = StageOf(pc[r])
            /\ GateStage' = [GateStage EXCEPT ![r] = StageOf("open")]
        BY Moves
      <3> QED
        BY <3>1, Stages
    <2> QED
      BY <2>1 DEF Pipeline!Settle, Pipeline!Advance, Pipeline!Verdicts
  <1> QED
    BY <1>1 DEF Pipeline!Next

LEMMA Breaks ==
    ASSUME TypeOK, NEW r \in Runs, pc' = [pc EXCEPT ![r] = "done"],
           \/ StageOf(pc[r]) = "deciding" /\ exit' = [exit EXCEPT ![r] = Traceback]
           \/ pc[r] \notin {"idle", "done"} /\ exit' = [exit EXCEPT ![r] = Signal],
           UNCHANGED <<status, artifact>>
    PROVE  Pipeline!Next
  <1>1. /\ GateStage[r] = StageOf(pc[r])
        /\ GateStage' = [GateStage EXCEPT ![r] = "ended"]
    <2>1. /\ GateStage[r] = StageOf(pc[r])
          /\ GateStage' = [GateStage EXCEPT ![r] = StageOf("done")]
      BY Moves
    <2> QED
      BY <2>1, Stages
  <1>2. CASE StageOf(pc[r]) = "deciding" /\ exit' = [exit EXCEPT ![r] = Traceback]
    <2>1. Pipeline!Break(r)
      BY <1>1, <1>2 DEF Pipeline!Break, Pipeline!Advance, Pipeline!Leave, Traceback
    <2> QED
      BY <2>1 DEF Pipeline!Next
  <1>3. CASE pc[r] \notin {"idle", "done"} /\ exit' = [exit EXCEPT ![r] = Signal]
    <2>1. StageOf(pc[r]) \in Pipeline!Stages \ {"idle", "ended"}
      BY <1>3, Stages DEF TypeOK, Pipeline!Stages
    <2>2. Pipeline!Break(r)
      BY <1>1, <1>3, <2>1
         DEF Pipeline!Break, Pipeline!Advance, Pipeline!Leave, Signal
    <2> QED
      BY <2>2 DEF Pipeline!Next
  <1> QED
    BY <1>2, <1>3

-----------------------------------------------------------------------------
(* One lemma per part of an invocation. *)

LEMMA EnvironmentRefines ==
    ASSUME Migrate \/ EditFile
    PROVE  [Pipeline!Next]_(Pipeline!vars)
  <1>1. UNCHANGED <<pc, status, artifact, exit>>
    BY DEF Migrate, EditFile
  <1> QED
    BY <1>1, Stutters DEF GateStage

LEMMA StartRefines ==
    ASSUME TypeOK, NEW r \in Runs, Start(r) \/ Kill(r)
    PROVE  Pipeline!Next
  <1>1. CASE Start(r)
    <2>1. pc[r] = "idle" /\ pc' = [pc EXCEPT ![r] = "locate"] /\ UNCHANGED <<status, artifact, exit>>
      BY <1>1 DEF Start
    <2>2. /\ GateStage[r] = StageOf(pc[r])
          /\ GateStage' = [GateStage EXCEPT ![r] = StageOf("locate")]
      BY <2>1, Moves
    <2>3. Pipeline!Begin(r)
      BY <2>1, <2>2, Stages DEF Pipeline!Begin, Pipeline!Advance
    <2> QED
      BY <2>3 DEF Pipeline!Next
  <1>2. CASE Kill(r)
    BY <1>2, Breaks DEF Kill, Active
  <1> QED
    BY <1>1, <1>2

LEMMA ContractRefines ==
    ASSUME TypeOK, NEW r \in Runs,
           LocateContract(r) \/ ReadContract(r) \/ RejectContract(r) \/ CrashOnContract(r)
    PROVE  [Pipeline!Next]_(Pipeline!vars)
  <1>1. UNCHANGED artifact /\ StageOf(pc[r]) = "deciding"
    BY Stages DEF LocateContract, ReadContract, RejectContract, CrashOnContract
  <1>2. CASE LocateContract(r) \/ RejectContract(r)
    <2>1. UNCHANGED exit
      BY <1>2 DEF LocateContract, RejectContract
    <2>2. \/ pc' = [pc EXCEPT ![r] = "open"] /\ status' = [status EXCEPT ![r] = "error"]
          \/ pc' = [pc EXCEPT ![r] = "read"] /\ status' = status
      BY <1>2 DEF LocateContract, RejectContract
    <2> QED
      BY <1>1, <2>1, <2>2, Settles, MovesUnseen, Stages
  <1>3. CASE ReadContract(r)
    <2> DEFINE v == StatusFromFindings({})
    <2>1. UNCHANGED exit
      BY <1>3 DEF ReadContract
    <2>2. \/ pc' = [pc EXCEPT ![r] = "open"] /\ status' = [status EXCEPT ![r] = v]
          \/ pc' = [pc EXCEPT ![r] = "connect"] /\ status' = status
      BY <1>3 DEF ReadContract
    <2>3. v \in Statuses
      BY StatusIsStatus
    <2> HIDE DEF v
    <2> QED
      BY <1>1, <2>1, <2>2, <2>3, Settles, MovesUnseen, Stages
  <1>4. CASE CrashOnContract(r)
    BY <1>1, <1>4, Breaks DEF CrashOnContract
  <1> QED
    BY <1>2, <1>3, <1>4

LEMMA SessionRefines ==
    ASSUME TypeOK, NEW r \in Runs,
           Connect(r) \/ ConnectFails(r) \/ SetReadOnly(r) \/ FetchNext(r)
             \/ SessionFails(r) \/ Close(r)
    PROVE  [Pipeline!Next]_(Pipeline!vars)
  <1>1. UNCHANGED <<artifact, exit>>
    BY DEF Connect, ConnectFails, SetReadOnly, FetchNext, SessionFails, Close
  <1>2. StageOf(pc[r]) = "deciding"
    BY Stages DEF Connect, ConnectFails, SetReadOnly, FetchNext, SessionFails, Close
  <1>3. \/ pc' = [pc EXCEPT ![r] = "open"] /\ status' = [status EXCEPT ![r] = "error"]
        \/ /\ status' = status
           /\ \E to \in {"setup", "fetch", "close", "check"} : pc' = [pc EXCEPT ![r] = to]
    BY DEF Connect, ConnectFails, SetReadOnly, FetchNext, SessionFails, Close
  <1>4. CASE pc' = [pc EXCEPT ![r] = "open"] /\ status' = [status EXCEPT ![r] = "error"]
    BY <1>1, <1>2, <1>4, Settles
  <1>5. CASE /\ status' = status
             /\ \E to \in {"setup", "fetch", "close", "check"} : pc' = [pc EXCEPT ![r] = to]
    <2>1. PICK to \in {"setup", "fetch", "close", "check"} : pc' = [pc EXCEPT ![r] = to]
      BY <1>5
    <2>2. StageOf(to) = StageOf(pc[r])
      BY <1>2, Stages
    <2> QED
      BY <1>1, <1>5, <2>1, <2>2, MovesUnseen
  <1> QED
    BY <1>3, <1>4, <1>5

LEMMA ReportRefines ==
    ASSUME TypeOK, ControlFlow, NEW r \in Runs,
           Check(r) \/ OpenReport(r) \/ WriteReport(r) \/ WriteFails(r) \/ Finish(r)
    PROVE  Pipeline!Next
  <1>1. CASE Check(r)
    <2>1. PICK v : v \in Statuses /\ status' = [status EXCEPT ![r] = v]
      BY <1>1, StatusIsStatus DEF Check
    <2>2. /\ pc[r] = "check" /\ pc' = [pc EXCEPT ![r] = "open"]
          /\ UNCHANGED <<artifact, exit>>
      BY <1>1 DEF Check
    <2> QED
      BY <2>1, <2>2, Settles, Stages
  <1>2. CASE OpenReport(r)
    <2>1. /\ GateStage[r] = StageOf(pc[r])
          /\ GateStage' = [GateStage EXCEPT ![r] = StageOf("write")]
      BY <1>2, Moves DEF OpenReport
    <2>2. Pipeline!Empty(r)
      BY <1>2, <2>1, Stages DEF OpenReport, Pipeline!Empty, Pipeline!Advance
    <2> QED
      BY <2>2 DEF Pipeline!Next
  <1>3. CASE WriteReport(r)
    <2>1. /\ GateStage[r] = StageOf(pc[r])
          /\ GateStage' = [GateStage EXCEPT ![r] = StageOf("finish")]
      BY <1>3, Moves DEF WriteReport
    <2>2. Pipeline!Publish(r)
      BY <1>3, <2>1, Stages DEF WriteReport, Pipeline!Publish, Pipeline!Advance
    <2> QED
      BY <2>2 DEF Pipeline!Next
  <1>4. CASE WriteFails(r)
    <2>1. /\ GateStage[r] = StageOf(pc[r])
          /\ GateStage' = [GateStage EXCEPT ![r] = StageOf("done")]
      BY <1>4, Moves DEF WriteFails
    <2>2. exit' = [exit EXCEPT ![r] = Pipeline!CodeOf["error"]] /\ UNCHANGED status
      BY <1>4 DEF WriteFails, ExitCode, Pipeline!CodeOf
    <2>3. \/ pc[r] = "open" /\ UNCHANGED artifact
          \/ pc[r] = "write" /\ artifact' = [kind |-> "torn", by |-> r]
      BY <1>4 DEF WriteFails
    <2>4. Pipeline!GiveUp(r)
      BY <2>1, <2>2, <2>3, Stages DEF Pipeline!GiveUp, Pipeline!Advance, Pipeline!Leave
    <2> QED
      BY <2>4 DEF Pipeline!Next
  <1>5. CASE Finish(r)
    <2>1. /\ GateStage[r] = StageOf(pc[r])
          /\ GateStage' = [GateStage EXCEPT ![r] = StageOf("done")]
      BY <1>5, Moves DEF Finish
    <2>2. status[r] \in Statuses
      BY <1>5 DEF Finish, TypeOK, ControlFlow
    <2>3. ExitCode(status[r]) = Pipeline!CodeOf[status[r]]
      BY <2>2 DEF ExitCode, Pipeline!CodeOf
    <2>4. Pipeline!End(r)
      BY <1>5, <2>1, <2>3, Stages DEF Finish, Pipeline!End, Pipeline!Advance, Pipeline!Leave
    <2> QED
      BY <2>4 DEF Pipeline!Next
  <1> QED
    BY <1>1, <1>2, <1>3, <1>4, <1>5

LEMMA NextRefines ==
    ASSUME TypeOK, ControlFlow, [Next]_vars
    PROVE  [Pipeline!Next]_(Pipeline!vars)
  <1>1. CASE UNCHANGED vars
    <2>1. UNCHANGED <<pc, status, artifact, exit>>
      BY <1>1 DEF vars
    <2> QED
      BY <2>1, Stutters DEF GateStage
  <1>2. CASE Next
    BY <1>2, EnvironmentRefines, StartRefines, ContractRefines, SessionRefines, ReportRefines
       DEF Next, Step
  <1> QED
    BY <1>1, <1>2

\* What the verifier does to its report path and exit codes is what Gate
\* allows, for any number of overlapping invocations (verifier.py:41-43,
\* report.py:107-113, cli.py).
THEOREM VerifierImplementsGate == Spec => ImplementsGate
  <1>1. Init => Pipeline!Init
    BY Stages DEF Init, Pipeline!Init, GateStage
  <1>2. TypeOK /\ ControlFlow /\ [Next]_vars => [Pipeline!Next]_(Pipeline!vars)
    BY NextRefines
  <1> QED
    BY <1>1, <1>2, TypeCorrect, PTL DEF Spec, ImplementsGate, Pipeline!Spec
=============================================================================
