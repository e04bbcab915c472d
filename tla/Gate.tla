-------------------------------- MODULE Gate --------------------------------
(***************************************************************************)
(* What a pipeline sees of the Data Gate: a number of invocations, the one *)
(* report path they share, and their exit codes.  How a verdict is reached *)
(* (contract, session, queries, checks) is left open.                      *)
(*                                                                         *)
(* The promise: an invocation touches the report path only after its       *)
(* verdict is settled, settles it once, and exits with 0 or 1 for a        *)
(* verdict only after writing its whole report.                            *)
(***************************************************************************)
EXTENDS Naturals

CONSTANTS Runs, None

VARIABLES
    stage,      \* of each invocation
    verdict,    \* its status, None until settled
    artifact,   \* what is at the report path, and who wrote it last
    exit        \* exit codes

vars == <<stage, verdict, artifact, exit>>

Stages   == {"idle", "deciding", "settled", "writing", "published", "ended"}
Verdicts == {"pass", "fail", "error"}

CodeOf == [pass |-> 0, fail |-> 1, error |-> 2]

Init ==
    /\ stage = [r \in Runs |-> "idle"]
    /\ verdict = [r \in Runs |-> None]
    /\ artifact = [kind |-> "absent", by |-> None]
    /\ exit = [r \in Runs |-> None]

Advance(r, from, to) == stage[r] = from /\ stage' = [stage EXCEPT ![r] = to]

Leave(r, code) == exit' = [exit EXCEPT ![r] = code]

Begin(r) ==
    /\ Advance(r, "idle", "deciding")
    /\ UNCHANGED <<verdict, artifact, exit>>

Settle(r) ==
    /\ Advance(r, "deciding", "settled")
    /\ \E v \in Verdicts : verdict' = [verdict EXCEPT ![r] = v]
    /\ UNCHANGED <<artifact, exit>>

Empty(r) ==
    /\ Advance(r, "settled", "writing")
    /\ artifact' = [kind |-> "empty", by |-> r]
    /\ UNCHANGED <<verdict, exit>>

\* The report is whole unless another invocation got in between.
Publish(r) ==
    /\ Advance(r, "writing", "published")
    /\ \/ artifact' = [kind |-> "whole", by |-> r]
       \/ artifact.kind # "empty" /\ artifact' = [kind |-> "torn", by |-> r]
    /\ UNCHANGED <<verdict, exit>>

End(r) ==
    /\ Advance(r, "published", "ended")
    /\ Leave(r, CodeOf[verdict[r]])
    /\ UNCHANGED <<verdict, artifact>>

\* The path cannot be opened, or cannot be written to the end.
GiveUp(r) ==
    /\ \/ Advance(r, "settled", "ended") /\ UNCHANGED artifact
       \/ Advance(r, "writing", "ended") /\ artifact' = [kind |-> "torn", by |-> r]
    /\ Leave(r, CodeOf["error"])
    /\ UNCHANGED verdict

\* An uncaught exception, which only deciding can raise, or a signal.
Break(r) ==
    /\ \/ Advance(r, "deciding", "ended") /\ Leave(r, 1)
       \/ \E from \in Stages \ {"idle", "ended"} : Advance(r, from, "ended") /\ Leave(r, 137)
    /\ UNCHANGED <<verdict, artifact>>

Next ==
    \E r \in Runs :
        \/ Begin(r) \/ Settle(r) \/ Empty(r) \/ Publish(r)
        \/ End(r) \/ GiveUp(r) \/ Break(r)

Spec == Init /\ [][Next]_vars
=============================================================================
