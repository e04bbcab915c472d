------------------------------- MODULE Checks -------------------------------
(***************************************************************************)
(* The six verification checks (datagate/checks/), the engine that runs    *)
(* them (datagate/engine.py) and the verdict drawn from their findings     *)
(* (datagate/report.py).                                                   *)
(*                                                                         *)
(* A finding keeps its check, its severity and its target; "at" stands for *)
(* the message: it tells apart the findings the code appends separately    *)
(* about one target, so that the number of findings is the code's.         *)
(*                                                                         *)
(* Type names and default tokens are in the form the code compares them    *)
(* in: stripped of outer blanks and in lower case.  Beyond that, the       *)
(* normalisations do what the code's do, aliases, casts and quotes.        *)
(***************************************************************************)
EXTENDS Models

Finding(check, severity, target, at) ==
    [check |-> check, severity |-> severity, target |-> target, at |-> at]

\* Positions of the structure entries whose table is in the schema.
Located(c, s) == {i \in DOMAIN c.structure : c.structure[i].name \in DOMAIN s.tables}

\* The live table a located entry is about.
LiveTable(c, s, i) == s.tables[c.structure[i].name]

-----------------------------------------------------------------------------
(* structure.py *)

\* Mutant: a view is taken for the declared table.
StructureFindingsWithViews(c, s) ==
    {Finding("structure", "error", <<"table", c.structure[i].name>>, <<i>>) :
        i \in {k \in DOMAIN c.structure :
                  c.structure[k].name \notin DOMAIN s.tables \cup DOMAIN s.views}}

StructureFindings(c, s) ==
    {Finding("structure", "error", <<"table", c.structure[i].name>>, <<i>>) :
        i \in DOMAIN c.structure \ Located(c, s)}

-----------------------------------------------------------------------------
(* columns.py *)

TypeAliases ==
    [int |-> "integer", int4 |-> "integer", serial |-> "integer",
     int8 |-> "bigint", bigserial |-> "bigint", int2 |-> "smallint",
     varchar |-> "character varying", char |-> "character", bool |-> "boolean",
     timestamp |-> "timestamp without time zone",
     timestamptz |-> "timestamp with time zone", timetz |-> "time with time zone",
     decimal |-> "numeric", float8 |-> "double precision", float4 |-> "real"]

NormaliseType(t) == IF t \in DOMAIN TypeAliases THEN TypeAliases[t] ELSE t

\* A default is cut at its first cast, then loses one pair of equal quotes.
UpToCast(d) ==
    CHOOSE p \in {SubSeq(d, 1, n) : n \in 0..Len(d)} :
        /\ \A i \in DOMAIN p : p[i] # "::"
        /\ p = d \/ d[Len(p) + 1] = "::"

Unquoted(d) ==
    IF Len(d) >= 2 /\ d[1] = d[Len(d)] /\ d[1] \in {"'", "\""}
    THEN SubSeq(d, 2, Len(d) - 1)
    ELSE d

NormaliseDefault(d) == IF d = None THEN None ELSE Unquoted(UpToCast(d))

\* The attributes on which a live column contradicts its specification: one
\* finding each. An attribute the contract leaves out is never compared.
Contradictions(spec, col) ==
    {a \in {"type"} : /\ spec.type # None
                      /\ NormaliseType(spec.type) # NormaliseType(col.type)}
    \cup
    {a \in {"nullable"} : spec.nullable # None /\ spec.nullable # col.nullable}
    \cup
    {a \in Limits : spec.limit[a] # None /\ spec.limit[a] # col.limit[a]}
    \cup
    {a \in {"default"} : /\ spec.default # None
                         /\ NormaliseDefault(spec.default) # NormaliseDefault(col.default)}

\* What is wrong with one specified column of a live table.
ColumnFaults(spec, table) ==
    IF spec.name \notin DOMAIN table.columns
    THEN {"missing"}
    ELSE Contradictions(spec, table.columns[spec.name])

ColumnFindings(c, s) ==
    UNION {UNION {{Finding("columns", "error",
                           <<"column", c.structure[i].name, c.structure[i].columns[j].name>>,
                           <<i, j, a>>) :
                      a \in ColumnFaults(c.structure[i].columns[j], LiveTable(c, s, i))} :
                  j \in DOMAIN c.structure[i].columns} :
           i \in Located(c, s)}

-----------------------------------------------------------------------------
(* constraints.py *)

PrimaryKeyContradicts(spec, table) ==
    spec.primary_key # <<>> /\ table.primary_key # spec.primary_key

ForeignKeyMatches(spec, fk) ==
    /\ fk.referenced_table = spec.references_table
    /\ spec.columns = <<>> \/ spec.columns = fk.columns
    /\ \/ spec.references_columns = <<>>
       \/ spec.references_columns = fk.referenced_columns

ForeignKeyFound(spec, table) == \E fk \in table.foreign_keys : ForeignKeyMatches(spec, fk)

ConstraintFindings(c, s) ==
    {Finding("constraints", "error", <<"primary_key", c.structure[i].name>>, <<i>>) :
        i \in {k \in Located(c, s) :
                  PrimaryKeyContradicts(c.structure[k], LiveTable(c, s, k))}}
    \cup
    UNION {{Finding("constraints", "error",
                    <<"foreign_key", c.structure[i].name,
                      c.structure[i].foreign_keys[j].columns>>, <<i, j>>) :
               j \in {k \in DOMAIN c.structure[i].foreign_keys :
                         ~ForeignKeyFound(c.structure[i].foreign_keys[k],
                                          LiveTable(c, s, i))}} :
           i \in Located(c, s)}

-----------------------------------------------------------------------------
(* indexes.py *)

\* Mutant: an index that is not unique is taken for a unique one.
IndexMatchesNotUnique(spec, index) ==
    /\ spec.name = None \/ spec.name = index.name
    /\ spec.columns = <<>> \/ spec.columns = index.columns

IndexMatches(spec, index) ==
    /\ spec.name = None \/ spec.name = index.name
    /\ spec.columns = <<>> \/ spec.columns = index.columns
    /\ spec.unique => index.unique

\* Mutant: the search gives up at the first index that does not match.
IndexFoundAtOnce(spec, table) ==
    table.indexes # {} /\ \A index \in table.indexes : IndexMatches(spec, index)

IndexFound(spec, table) == \E index \in table.indexes : IndexMatches(spec, index)

IndexFindings(c, s) ==
    UNION {{Finding("indexes", "error", <<"index", c.structure[i].name>>, <<i, j>>) :
               j \in {k \in DOMAIN c.structure[i].indexes :
                         ~IndexFound(c.structure[i].indexes[k], LiveTable(c, s, i))}} :
           i \in Located(c, s)}

-----------------------------------------------------------------------------
(* audit.py *)

\* The positions of the required columns that table lacks.
Lacking(rule, table) ==
    {j \in DOMAIN rule.required_columns :
        rule.required_columns[j] \notin DOMAIN table.columns}

AuditFindings(c, s) ==
    {Finding("audit", "error", <<"table", c.audit[i].table>>, <<i>>) :
        i \in {k \in DOMAIN c.audit : c.audit[k].table \notin DOMAIN s.tables}}
    \cup
    UNION {{Finding("audit", "error",
                    <<"column", c.audit[i].table, c.audit[i].required_columns[j]>>, <<i, j>>) :
               j \in Lacking(c.audit[i], s.tables[c.audit[i].table])} :
           i \in {k \in DOMAIN c.audit : c.audit[k].table \in DOMAIN s.tables}}

-----------------------------------------------------------------------------
(* drift.py *)

DeclaredTables(c) == {c.structure[i].name : i \in DOMAIN c.structure}

DeclaredColumns(spec) == {spec.columns[j].name : j \in DOMAIN spec.columns}

UnexpectedTables(c, s) ==
    IF c.settings.unexpected_tables = "ignore"
    THEN {}
    ELSE {Finding("drift", c.settings.unexpected_tables, <<"table", t>>, <<>>) :
             t \in DOMAIN s.tables \ DeclaredTables(c)}

\* Mutant: an entry that declares no column forbids every column.
UnexpectedColumnsOfBareEntries(c, s) ==
    IF c.settings.unexpected_columns = "ignore"
    THEN {}
    ELSE UNION {{Finding("drift", c.settings.unexpected_columns,
                         <<"column", c.structure[i].name, col>>, <<i>>) :
                    col \in DOMAIN LiveTable(c, s, i).columns
                            \ DeclaredColumns(c.structure[i])} :
                i \in Located(c, s)}

\* Mutant: the policy decides whether to look, not how severe a finding is.
UnexpectedColumnsAsErrors(c, s) ==
    IF c.settings.unexpected_columns = "ignore"
    THEN {}
    ELSE UNION {{Finding("drift", "error", <<"column", c.structure[i].name, col>>, <<i>>) :
                    col \in DOMAIN LiveTable(c, s, i).columns
                            \ DeclaredColumns(c.structure[i])} :
                i \in {k \in Located(c, s) : c.structure[k].columns # <<>>}}

\* An entry that declares no column says nothing about its table's columns.
UnexpectedColumns(c, s) ==
    IF c.settings.unexpected_columns = "ignore"
    THEN {}
    ELSE UNION {{Finding("drift", c.settings.unexpected_columns,
                         <<"column", c.structure[i].name, col>>, <<i>>) :
                    col \in DOMAIN LiveTable(c, s, i).columns
                            \ DeclaredColumns(c.structure[i])} :
                i \in {k \in Located(c, s) : c.structure[k].columns # <<>>}}

DriftFindings(c, s) == UnexpectedTables(c, s) \cup UnexpectedColumns(c, s)

-----------------------------------------------------------------------------
(* engine.py, report.py *)

CheckNames == {"structure", "columns", "constraints", "indexes", "audit", "drift"}

CheckRun(name, c, s) ==
    CASE name = "structure"   -> StructureFindings(c, s)
      [] name = "columns"     -> ColumnFindings(c, s)
      [] name = "constraints" -> ConstraintFindings(c, s)
      [] name = "indexes"     -> IndexFindings(c, s)
      [] name = "audit"       -> AuditFindings(c, s)
      [] name = "drift"       -> DriftFindings(c, s)

\* run_checks over the given checks: one that raises contributes no finding.
RunChecks(active, raising, c, s) ==
    UNION {CheckRun(name, c, s) : name \in active \ raising}

Errors(findings) == {f \in findings : f.severity = "error"}

\* Mutant: warnings fail the run too.
StatusFromAnyFinding(findings) == IF findings # {} THEN "fail" ELSE "pass"

StatusFromFindings(findings) == IF Errors(findings) # {} THEN "fail" ELSE "pass"

\* The verdict of an undisturbed run of the default checks.
Passes(c, s) == StatusFromFindings(RunChecks(CheckNames, {}, c, s)) = "pass"
=============================================================================
