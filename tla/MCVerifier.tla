----------------------------- MODULE MCVerifier -----------------------------
EXTENDS Verdicts, Postgres, MCSamples

OneShape == {KeyColumn}

-----------------------------------------------------------------------------
(* Databases *)

Users  == [t \in {"users"} |-> BareRelation("r", One("id", KeyColumn))]
Orders == Bind(Users, "orders", BareRelation("r", One("id", KeyColumn)))

Seeds     == {Users, Orders}
OnlyUsers == {Users}

Changes(d) == Additive(d) \cup Destructive(d)

\* Two changes of any kind.
Near == Seeds \cup UNION {Changes(d) : d \in Seeds}

AnyChange == [d \in Near |-> {e \in Near : e \in Changes(d)}]

Still == [d \in Near |-> {}]

-----------------------------------------------------------------------------
(* Contract files *)

File(kind) == [kind |-> kind, contract |-> None]

Holding(c) == [kind |-> "contract", contract |-> c]

GoodFiles == {Holding(KeyContract), Holding(PairContract), Holding(ClosedContract)}
PairFile  == {Holding(PairContract)}
AnyFile   == {Holding(KeyContract), Holding(ClosedContract)} \cup
             {File(k) : k \in FileKinds \ {"contract"}}

-----------------------------------------------------------------------------
BothModes  == {"verify", "contract_only"}
VerifyOnly == {"verify"}
NoFaults   == {}
NoRaise    == {}
SomeRaise  == {"columns", "audit"}
AllFaults  == FaultKinds
LiveFaults == {"connect", "setup", "query", "kill"}
=============================================================================
