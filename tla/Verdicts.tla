------------------------------ MODULE Verdicts ------------------------------
(***************************************************************************)
(* What the exit codes and reports of Verifier are worth.                  *)
(***************************************************************************)
EXTENDS Verifier

TypeOK ==
    /\ db \in Catalogues
    /\ migrations \in 0..MaxMigrations
    /\ file \in Files
    /\ pc \in [Runs -> ControlPoints]
    /\ mode \in [Runs -> Modes]
    /\ contract \in [Runs -> {f.contract : f \in Files} \cup {None}]
    /\ session \in [Runs -> {"none", "open", "readonly", "closed"}]
    /\ fetched \in [Runs -> 0..Len(Queries)]
    /\ failed \in [Runs -> BOOLEAN]
    /\ raised \in [Runs -> SUBSET MayRaise]
    /\ status \in [Runs -> Statuses \cup {None}]
    /\ artifact \in [kind : {"absent", "empty", "whole", "torn"}, by : Runs \cup {None}]
    /\ exit \in [Runs -> {None, 0, 1, 2, Signal}]
    /\ window \in [Runs -> SUBSET Catalogues]

\* The invocations whose report states what their checks found.
Judged == {r \in Runs : mode[r] = "verify" /\ status[r] \in {"pass", "fail"}}

-----------------------------------------------------------------------------
(* The verdict and the database *)

\* While no migration commits between the first and the last catalogue query,
\* PASS means that the database conforms to the contract and FAIL that it does
\* not; a check that raises can hide a fault but never invents one
\* (introspect.py:251-255, engine.py:35-43).
SteadyVerdict ==
    \A r \in Judged : \A d \in window[r] :
        window[r] = {d} =>
            /\ status[r] = "pass" /\ raised[r] = {} => Conforms(contract[r], SchemaOf(d))
            /\ status[r] = "fail" => ~Conforms(contract[r], SchemaOf(d))

\* Catalogue e has what d has, unchanged, and perhaps more.
CatalogueExtends(d, e) ==
    /\ DOMAIN d \subseteq DOMAIN e
    /\ \A t \in DOMAIN d :
          /\ e[t].kind = d[t].kind
          /\ DOMAIN d[t].columns \subseteq DOMAIN e[t].columns
          /\ \A c \in DOMAIN d[t].columns : e[t].columns[c] = d[t].columns[c]
          /\ d[t].primary_key \in {<<>>, e[t].primary_key}
          /\ d[t].foreign_keys \subseteq e[t].foreign_keys
          /\ d[t].indexes \subseteq e[t].indexes

\* While the migrations that commit during the reading only add objects, the
\* verdict on a contract that tolerates extra objects survives being read from
\* several database states: a PASS is true of the last of them and a FAIL of
\* the first (introspect.py:251-255, drift.py:5).
OrderedVerdict ==
    \A r \in Judged : Lenient(contract[r]) =>
        \A lo, hi \in window[r] :
            (\A d \in window[r] : CatalogueExtends(lo, d) /\ CatalogueExtends(d, hi)) =>
                /\ status[r] = "pass" /\ raised[r] = {} => Conforms(contract[r], SchemaOf(hi))
                /\ status[r] = "fail" => ~Conforms(contract[r], SchemaOf(lo))

\* "PASS: the schema conforms to the contract", at one instant at least of the
\* time its catalogue was read.
PassWasTrueOnce ==
    \A r \in Judged :
        status[r] = "pass" /\ raised[r] = {} =>
            \E d \in window[r] : Conforms(contract[r], SchemaOf(d))

-----------------------------------------------------------------------------
(* The session *)

\* No catalogue query runs before the session is read-only, and no session is
\* left open once the database has been read, whatever failed (db.py:66-83).
SessionDiscipline ==
    \A r \in Runs :
        /\ pc[r] = "fetch" => session[r] = "readonly"
        /\ pc[r] \in {"check", "open", "write", "finish", "done"} =>
              session[r] \in {"none", "closed"}

-----------------------------------------------------------------------------
(* Exit codes and reports *)

\* Of all problems with the contract, the configuration, the connection, the
\* catalogue and the report path, only a contract that cannot be loaded is ever
\* raised, and before a session is opened or the report path touched
\* (verifier.py:41 says that not even it is).  Any other exit code 1 is a FAIL.
OnlyLoadingRaises ==
    \A r \in Runs : pc[r] = "done" /\ exit[r] # Signal =>
        IF status[r] = None
        THEN exit[r] = Traceback /\ session[r] = "none" /\ artifact.by # r
        ELSE exit[r] = 1 => status[r] = "fail"

\* When an invocation leaves with the exit code of its status, the report path
\* holds its whole report: true as long as invocations do not overlap.
ExitMatchesArtifact ==
    [][\A r \in Runs :
          exit[r] = None /\ exit'[r] \in {0, 1} /\ status[r] # None =>
              artifact' = [kind |-> "whole", by |-> r]]_vars

-----------------------------------------------------------------------------
(* The strengthening that makes the verdicts inductive *)

Deciding == {"connect", "setup", "fetch", "close", "check"}

\* Where an invocation is tells what it has: no status before it is decided,
\* all five answers before its checks run.
ControlFlow ==
    \A r \in Runs :
        /\ pc[r] \in {"idle", "locate", "read"} \cup Deciding => status[r] = None
        /\ pc[r] \in {"open", "write", "finish"} => status[r] # None
        /\ pc[r] \in Deciding => mode[r] = "verify"
        /\ pc[r] \in {"idle", "locate", "read", "connect", "setup"} =>
              fetched[r] = 0 /\ ~failed[r]
        /\ pc[r] = "fetch" => fetched[r] < Len(Queries) /\ ~failed[r]
        /\ pc[r] = "close" => failed[r] \/ fetched[r] = Len(Queries)
        /\ pc[r] = "check" => fetched[r] = Len(Queries)

\* Each answer is the catalogue's at some state of the reading window.
AnswersFromWindow ==
    /\ DOMAIN got = Runs
    /\ \A r \in Runs :
          /\ DOMAIN got[r] = QueryNames
          /\ pc[r] = "fetch" => db \in window[r]
          /\ \A i \in 1..fetched[r] :
                \E d \in window[r] : got[r][Queries[i]] = Fetch(Queries[i], d)

\* The status of a judged invocation is the one its findings give.
StatusFromChecks ==
    \A r \in Judged :
        /\ fetched[r] = Len(Queries)
        /\ status[r] = StatusFromFindings(Findings(r))

-----------------------------------------------------------------------------
(* Progress *)

\* Every invocation that is started ends, unless it waits for good for one
\* answer of the server (db.py:62 sets no timeout): nothing it does by itself,
\* whatever fails, goes on for ever or is done twice.
EndsOrWaits ==
    \A r \in Runs :
        \/ pc[r] = "locate" ~> pc[r] = "done"
        \/ \E p \in AtServer, n \in 0..Len(Queries) : <>[](pc[r] = p /\ fetched[r] = n)

-----------------------------------------------------------------------------
(* The pipeline's view *)

StageOf(point) ==
    CASE point = "idle"   -> "idle"
      [] point \in {"locate", "read", "connect", "setup", "fetch", "close", "check"} -> "deciding"
      [] point = "open"   -> "settled"
      [] point = "write"  -> "writing"
      [] point = "finish" -> "published"
      [] point = "done"   -> "ended"

GateStage == [r \in Runs |-> StageOf(pc[r])]

Pipeline == INSTANCE Gate WITH stage <- GateStage, verdict <- status

\* The verifier does to the report path and the exit codes what Gate allows.
ImplementsGate == Pipeline!Spec
=============================================================================
