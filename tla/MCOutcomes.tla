----------------------------- MODULE MCOutcomes -----------------------------
(***************************************************************************)
(* What the six checks say of two of the sample contracts on two schemas.  *)
(***************************************************************************)
EXTENDS Checks, MCSamples

CONSTANT MayRaise

UsersWith(columns) ==
    [tables |-> [t \in {"users"} |->
        [columns      |-> [c \in columns |-> KeyColumn],
         primary_key  |-> <<"id">>,
         foreign_keys |-> {},
         indexes      |-> {[name |-> "id", columns |-> <<"id">>, unique |-> TRUE, primary |-> TRUE]}]],
     views |-> [v \in {} |-> None]]

Contracts == [key |-> KeyContract, closed |-> ClosedContract]

Schemas == [audited |-> UsersWith({"id", "ref"}), bare |-> UsersWith({"id"})]

\* The error and warning counts of every contract on every schema, whichever
\* checks raise.
Counts ==
    [c \in DOMAIN Contracts |->
        [s \in DOMAIN Schemas |-> [raising \in SUBSET MayRaise |->
            LET findings == RunChecks(CheckNames, raising, Contracts[c], Schemas[s])
            IN  [errors   |-> Cardinality(Errors(findings)),
                 warnings |-> Cardinality(findings \ Errors(findings))]]]]
=============================================================================
