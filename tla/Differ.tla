------------------------------- MODULE Differ -------------------------------
(***************************************************************************)
(* `datagate diff` (datagate/differ.py): the changes between two contract  *)
(* documents and their impact.  The differ reads the documents as they are *)
(* written and skips what the parser of ContractLoad refuses.              *)
(***************************************************************************)
EXTENDS ContractLoad

CONSTANT Letters    \* the letters of each name, each of them a text

\* What iterating over "value or []" yields: a text is taken letter by letter.
Iterate(v) ==
    IF v.is = "text" THEN [i \in DOMAIN Letters[v.text] |-> Text(Letters[v.text][i])]
    ELSE Items(v)

-----------------------------------------------------------------------------
(* _index_tables: {table: {column: entry}}; the last entry of a name wins. *)

IsTable(e) == e.is = "map" /\ e.name # None

IsColumn(e) == e.is = "text" \/ (e.is = "map" /\ e.name # None)

EntryName(e) == IF e.is = "text" THEN e.text ELSE e.name

\* A bare name is an entry without any other key.
AsEntry(e) ==
    IF e.is = "map" THEN e
    ELSE [is |-> "map", name |-> e.text, type |-> None, nullable |-> None,
          limit |-> NoLimits, default |-> None]

LastNamed(entries, Is(_), n) ==
    entries[Max({i \in DOMAIN entries : Is(entries[i]) /\ EntryName(entries[i]) = n})]

NamesIn(entries, Is(_)) ==
    {EntryName(entries[i]) : i \in {k \in DOMAIN entries : Is(entries[k])}}

IndexColumns(v) ==
    LET entries == Iterate(v)
    IN  [n \in NamesIn(entries, IsColumn) |-> AsEntry(LastNamed(entries, IsColumn, n))]

IndexTables(doc) ==
    LET entries == Iterate(doc.structure)
    IN  [n \in NamesIn(entries, IsTable) |->
            IndexColumns(LastNamed(entries, IsTable, n).columns)]

\* A number where a list is expected cannot be iterated over: TypeError.
CannotIndex(doc) ==
    \/ doc.structure.is = "scalar"
    \/ \E i \in DOMAIN Iterate(doc.structure) :
          LET e == Iterate(doc.structure)[i] IN IsTable(e) /\ e.columns.is = "scalar"

-----------------------------------------------------------------------------
(* diff_contracts *)

Change(kind, impact, target, detail) ==
    [kind |-> kind, impact |-> impact, target |-> target, detail |-> detail]

\* Mutant: unknown nullability is treated as NOT NULL.
NullableIfSaid(entry) == entry.nullable = TRUE

\* Unknown nullability is treated as nullable.
Nullable(entry) == entry.nullable # FALSE

\* Mutant: a change of type is disruptive at most.
TypeChangeWarned(target, before, after) ==
    {Change("modified_column", "warning", target, d) :
        d \in {x \in {"type"} : /\ before.type # None /\ after.type # None
                                /\ before.type # after.type}}

TypeChange(target, before, after) ==
    {Change("modified_column", "breaking", target, d) :
        d \in {x \in {"type"} : /\ before.type # None /\ after.type # None
                                /\ before.type # after.type}}

\* Becoming NOT NULL can reject existing writers; relaxing is safe.
NullabilityChange(target, before, after) ==
    {Change("modified_column", IF Nullable(before) THEN "breaking" ELSE "safe", target, d) :
        d \in {x \in {"nullable"} : Nullable(before) # Nullable(after)}}

LimitChanges(target, before, after) ==
    {Change("modified_column", "warning", target, l) :
        l \in {x \in Limits : before.limit[x] # after.limit[x]}}

ModifiedColumn(target, before, after) ==
    TypeChange(target, before, after)
        \cup NullabilityChange(target, before, after)
        \cup LimitChanges(target, before, after)

\* Mutant: a new mandatory column is breaking.
AddedColumnsMandatory(table, source, target) ==
    {Change("added_column", IF Nullable(target[c]) THEN "safe" ELSE "breaking",
            <<table, c>>, "") : c \in DOMAIN target \ DOMAIN source}

AddedColumns(table, source, target) ==
    {Change("added_column", IF Nullable(target[c]) THEN "safe" ELSE "warning",
            <<table, c>>, "") : c \in DOMAIN target \ DOMAIN source}

RemovedColumns(table, source, target) ==
    {Change("removed_column", "breaking", <<table, c>>, "") :
        c \in DOMAIN source \ DOMAIN target}

ColumnChanges(table, source, target) ==
    AddedColumns(table, source, target)
        \cup RemovedColumns(table, source, target)
        \cup UNION {ModifiedColumn(<<table, c>>, source[c], target[c]) :
                        c \in DOMAIN source \cap DOMAIN target}

TableChanges(source, target) ==
    {Change("added_table", "safe", <<t>>, "") : t \in DOMAIN target \ DOMAIN source}
        \cup {Change("removed_table", "breaking", <<t>>, "") :
                 t \in DOMAIN source \ DOMAIN target}

Changes(source, target) ==
    TableChanges(source, target)
        \cup UNION {ColumnChanges(t, source[t], target[t]) :
                        t \in DOMAIN source \cap DOMAIN target}

Impacts(changes) == {c.impact : c \in changes}

\* _cmd_diff: 2 for what load_contract refuses, 1 for a breaking change, and
\* for a traceback.
DiffExit(source, target) ==
    IF source.keyless \/ target.keyless THEN 2
    ELSE IF CannotIndex(source) \/ CannotIndex(target) THEN 1
    ELSE IF "breaking" \in Impacts(Changes(IndexTables(source), IndexTables(target))) THEN 1
    ELSE 0

-----------------------------------------------------------------------------
\* A column as contract_from_schema writes it: with a bare type.
WrittenColumn(spec) ==
    [is |-> "map", name |-> spec.name, type |-> [base |-> spec.type, args |-> <<>>],
     nullable |-> spec.nullable, limit |-> spec.limit, default |-> None]

\* The mapping that resolve_mapping gets from a database: a generated contract.
\* The differ does not look at its keys and indexes.
Written(contract) ==
    [keyless   |-> FALSE,
     structure |-> List([i \in DOMAIN contract.structure |->
                            [is      |-> "map",
                             name    |-> contract.structure[i].name,
                             columns |-> List([j \in DOMAIN contract.structure[i].columns |->
                                           WrittenColumn(contract.structure[i].columns[j])])]])]
=============================================================================
