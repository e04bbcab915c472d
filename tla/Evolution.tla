------------------------------ MODULE Evolution ------------------------------
(***************************************************************************)
(* A database evolves by committed schema changes while teams check it     *)
(* against a contract, and now and then draft a new one with               *)
(* `datagate generate`.  Every reading is of one database state: what a    *)
(* reading torn over several states does is the subject of Verifier.       *)
(***************************************************************************)
EXTENDS Meaning, Postgres, Differ

CONSTANTS
    InitialContracts,   \* hand-written contracts
    InitialCatalogues,  \* databases to start from
    TableKinds,         \* kinds of table a migration creates
    IndexTails,         \* what may follow an index's first column
    MayShrink,          \* whether migrations may also drop and alter
    MayGenerate,        \* whether teams run `datagate generate`
    MaxWeight           \* bound: objects in the database

\* information_schema names a type in one way, never by an alias.
Canonical(col) == col.type \notin DOMAIN TypeAliases

ASSUME EvolutionAssumption ==
    /\ InitialContracts \subseteq Contract
    /\ \A d \in InitialCatalogues :
          /\ Coherent(d) /\ Finite(d) /\ NoSelfReference(d)
          /\ \A t \in DOMAIN d : \A c \in DOMAIN d[t].columns : Canonical(d[t].columns[c])
    /\ \A shape \in ColumnShapes : Canonical(shape)
    /\ TableKinds \subseteq Kinds
    /\ IndexTails \subseteq IndexTail

VARIABLES
    db,         \* the live catalogue
    contract,   \* the contract in force
    base        \* the schema it was generated from, None if hand-written

vars == <<db, contract, base>>

Live == SchemaOf(db)

Init ==
    /\ db \in InitialCatalogues
    /\ contract \in InitialContracts
    /\ base = None

Grow ==
    /\ \/ \E kind \in TableKinds : db' \in CreateTable(db, kind)
       \/ db' \in AddColumn(db)
       \/ db' \in AddPrimaryKey(db)
       \/ db' \in AddForeignKey(db)
       \/ \E tail \in IndexTails : db' \in CreateIndex(db, tail)
    /\ Weight(db') <= MaxWeight
    /\ UNCHANGED <<contract, base>>

Shrink ==
    /\ MayShrink
    /\ \/ db' \in DropTable(db)
       \/ db' \in DropColumn(db)
       \/ db' \in AlterColumn(db)
       \/ db' \in RenameTable(db)
    /\ UNCHANGED <<contract, base>>

\* `datagate generate`, then the draft becomes the contract; a team may close
\* it by adding settings that make every undeclared object an error.
Regenerate ==
    /\ MayGenerate
    /\ contract' \in {[Generate(Live) EXCEPT !.settings = set] :
                         set \in {DefaultSettings,
                                  [unexpected_tables |-> "error",
                                   unexpected_columns |-> "error"]}}
    /\ base' = Live
    /\ UNCHANGED db

Next == Grow \/ Shrink \/ Regenerate

Spec == Init /\ [][Next]_vars

-----------------------------------------------------------------------------
TypeOK ==
    /\ Coherent(db)
    /\ contract \in Contract
    /\ base # None => \A t \in DOMAIN base.tables :
                         \A x \in base.tables[t].indexes : x \in Index

\* The engine's verdict is PASS exactly when the live schema is what the
\* contract means: no check forgets a rule, and none invents one
\* (checks/*.py, status_from_findings).
PassIffConforms == Passes(contract, Live) <=> Conforms(contract, Live)

\* What the checks find about table t, and what the contract says of it.
FindingsAbout(t) == {f \in RunChecks(CheckNames, {}, contract, Live) : f.target[2] = t}

EntriesFor(t) == {i \in DOMAIN contract.structure : contract.structure[i].name = t}

RulesFor(t) == {i \in DOMAIN contract.audit : contract.audit[i].table = t}

\* A table the database lacks is reported by the structure check once for each
\* entry that declares it, by the audit check once for each rule about it,
\* whatever columns they ask for, and by no other check: the columns, keys and
\* indexes declared of it add nothing (columns.py:61, audit.py:22-36).
MissingTableReportedOnce ==
    \A t \in Names \ DOMAIN Live.tables :
        LET found(check) == {f \in FindingsAbout(t) : f.check = check}
        IN  /\ FindingsAbout(t) = found("structure") \cup found("audit")
            /\ Cardinality(found("structure")) = Cardinality(EntriesFor(t))
            /\ Cardinality(found("audit")) = Cardinality(RulesFor(t))

\* A generated contract accepts a later state of the database exactly when
\* that state keeps all the contract records; closed by its settings, it also
\* rejects every table or column added since (generator.py, drift.py).
GeneratedContractExact ==
    base # None =>
        (Passes(contract, Live) <=>
            /\ Keeps(base, Live)
            /\ ~Lenient(contract) =>
                  /\ DOMAIN Live.tables = DOMAIN base.tables
                  /\ \A t \in DOMAIN base.tables :
                        base.tables[t].columns # NoColumns =>
                            DOMAIN Live.tables[t].columns = DOMAIN base.tables[t].columns)

\* A database that passes the contract generated from another one is not a
\* BREAKING change of it: `datagate verify` and `datagate diff <DSN> <DSN>` agree
\* (columns.py, differ.py:178, generator.py).
PassIsCompatible ==
    base # None /\ Passes(contract, Live) =>
        DiffExit(Written(Generate(base)), Written(Generate(Live))) = 0

\* An index of the database that is what the contract asks for: these keys,
\* all of them, in this order, whatever it includes besides.
MeetsIndexSpec(spec, x) ==
    /\ spec.name \in {None, x.name}
    /\ spec.columns \in {<<>>, x.keys}
    /\ spec.unique => x.unique

\* The check has a finding about the declared index at position <<i, j>> of the
\* contract, and the database has such an index.
IndexReported(i, j) == \E f \in IndexFindings(contract, Live) : f.at = <<i, j>>

IndexExists(i, j) ==
    \E x \in db[contract.structure[i].name].indexes :
        MeetsIndexSpec(contract.structure[i].indexes[j], x)

\* A declared index is reported exactly when no index of its table is what the
\* contract asks for (indexes.py:11, through SQL_INDEXES).
IndexReportedIffMissing ==
    \A i \in Located(contract, Live) : \A j \in DOMAIN contract.structure[i].indexes :
        IndexReported(i, j) <=> ~IndexExists(i, j)

\* Adding objects never turns a PASS into a FAIL while the contract tolerates
\* extra objects: partial contracts stay valid (drift.py:5).
AdditionsKeepPass ==
    [][db' # db /\ Extends(Live, Live') /\ Lenient(contract) /\ Passes(contract, Live)
         => Passes(contract, Live')]_vars

\* A contract drafted by generate verifies clean, under any settings, against
\* the schema it was drafted from.
RoundTripClean ==
    [][base' # base => RunChecks(CheckNames, {}, contract', Live') = {}]_vars
=============================================================================
