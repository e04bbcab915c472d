------------------------------ MODULE Generator ------------------------------
(***************************************************************************)
(* `datagate generate` (datagate/generator.py): the contract drafted from  *)
(* a schema.  Generate yields the typed contract, that is, what            *)
(* Contract.from_mapping makes of the mapping once it has been dumped to   *)
(* YAML and loaded again: every emitted value is a plain string, integer,  *)
(* boolean or list, and a live type name has no "(" for _split_type.       *)
(***************************************************************************)
EXTENDS Checks, SequencesExt

NumericTypes == {"numeric", "decimal"}

\* Mutant: precision and scale are swapped.
ColumnEntrySwapped(name, col) ==
    [name     |-> name,
     type     |-> col.type,
     nullable |-> col.nullable,
     limit    |-> [l \in Limits |->
                     IF l = "max_length" THEN col.limit[l]
                     ELSE IF col.type \in NumericTypes /\ col.limit["precision"] # None
                     THEN col.limit[IF l = "scale" THEN "precision" ELSE "scale"]
                     ELSE None],
     default  |-> None]

\* Mutant: the scale is forgotten.
ColumnEntryNoScale(name, col) ==
    [name     |-> name,
     type     |-> col.type,
     nullable |-> col.nullable,
     limit    |-> [l \in Limits |->
                     IF \/ l = "max_length"
                        \/ l = "precision" /\ col.type \in NumericTypes
                     THEN col.limit[l]
                     ELSE None],
     default  |-> None]

\* _column_entry: the default is left out, and so are the precision and scale
\* PostgreSQL reports for types that take none.
ColumnEntry(name, col) ==
    [name     |-> name,
     type     |-> col.type,
     nullable |-> col.nullable,
     limit    |-> [l \in Limits |->
                     IF \/ l = "max_length"
                        \/ col.type \in NumericTypes /\ col.limit["precision"] # None
                     THEN col.limit[l]
                     ELSE None],
     default  |-> None]

ForeignKeyEntry(fk) ==
    [columns            |-> fk.columns,
     references_table   |-> fk.referenced_table,
     references_columns |-> fk.referenced_columns]

IndexEntry(index) == [columns |-> index.columns, name |-> index.name, unique |-> index.unique]

\* The index behind a primary key is covered by primary_key.
TableEntry(name, table) ==
    LET columns == SetToSeq(DOMAIN table.columns)
        keys    == SetToSeq(table.foreign_keys)
        indexes == SetToSeq({x \in table.indexes : ~x.primary})
    IN  [name         |-> name,
         columns      |-> [j \in DOMAIN columns |->
                              ColumnEntry(columns[j], table.columns[columns[j]])],
         primary_key  |-> table.primary_key,
         foreign_keys |-> [j \in DOMAIN keys |-> ForeignKeyEntry(keys[j])],
         indexes      |-> [j \in DOMAIN indexes |-> IndexEntry(indexes[j])]]

\* contract_from_schema: views, defaults, audit rules and settings are absent.
Generate(s) ==
    LET names == SetToSeq(DOMAIN s.tables)
    IN  [structure |-> [i \in DOMAIN names |-> TableEntry(names[i], s.tables[names[i]])],
         audit     |-> <<>>,
         settings  |-> DefaultSettings]
=============================================================================
