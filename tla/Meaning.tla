------------------------------- MODULE Meaning -------------------------------
(***************************************************************************)
(* What a contract means, stated over schemas without findings, severities *)
(* or checks: the reference the checks, the generator and the verdicts are *)
(* compared with.  No definition here translates code.                     *)
(***************************************************************************)
EXTENDS Generator

\* A specified column exists and agrees on all that is specified of it.
ColumnConforms(spec, table) ==
    /\ spec.name \in DOMAIN table.columns
    /\ LET col == table.columns[spec.name]
       IN  /\ spec.type # None => NormaliseType(col.type) = NormaliseType(spec.type)
           /\ spec.nullable # None => col.nullable = spec.nullable
           /\ \A l \in Limits : spec.limit[l] \in {None, col.limit[l]}
           /\ spec.default # None =>
                 NormaliseDefault(col.default) = NormaliseDefault(spec.default)

TableConforms(spec, table) ==
    /\ \A j \in DOMAIN spec.columns : ColumnConforms(spec.columns[j], table)
    /\ spec.primary_key \in {<<>>, table.primary_key}
    /\ \A j \in DOMAIN spec.foreign_keys : ForeignKeyFound(spec.foreign_keys[j], table)
    /\ \A j \in DOMAIN spec.indexes : IndexFound(spec.indexes[j], table)

\* Everything the contract declares is there.
DeclaredConforms(c, s) ==
    \A i \in DOMAIN c.structure :
        /\ c.structure[i].name \in DOMAIN s.tables
        /\ TableConforms(c.structure[i], s.tables[c.structure[i].name])

AuditConforms(c, s) ==
    \A i \in DOMAIN c.audit :
        /\ c.audit[i].table \in DOMAIN s.tables
        /\ \A j \in DOMAIN c.audit[i].required_columns :
              c.audit[i].required_columns[j] \in DOMAIN s.tables[c.audit[i].table].columns

\* Nothing the contract forbids is there.
DriftConforms(c, s) ==
    /\ c.settings.unexpected_tables = "error" => DOMAIN s.tables \subseteq DeclaredTables(c)
    /\ c.settings.unexpected_columns = "error" =>
          \A i \in Located(c, s) :
              c.structure[i].columns # <<>> =>
                  DOMAIN LiveTable(c, s, i).columns \subseteq DeclaredColumns(c.structure[i])

Conforms(c, s) == DeclaredConforms(c, s) /\ AuditConforms(c, s) /\ DriftConforms(c, s)

\* Extra objects are tolerated.
Lenient(c) ==
    /\ c.settings.unexpected_tables # "error"
    /\ c.settings.unexpected_columns # "error"

-----------------------------------------------------------------------------
\* Schema t has all that schema s has, unchanged, and perhaps more.
TableExtends(old, new) ==
    /\ DOMAIN old.columns \subseteq DOMAIN new.columns
    /\ \A c \in DOMAIN old.columns : new.columns[c] = old.columns[c]
    /\ old.primary_key \in {<<>>, new.primary_key}
    /\ old.foreign_keys \subseteq new.foreign_keys
    /\ old.indexes \subseteq new.indexes

Extends(s, t) ==
    /\ DOMAIN s.tables \subseteq DOMAIN t.tables
    /\ \A n \in DOMAIN s.tables : TableExtends(s.tables[n], t.tables[n])

\* Schema s keeps what a contract generated from base records: names, types,
\* nullability, lengths, numeric precision, keys and secondary indexes.
SameColumn(old, new) ==
    /\ NormaliseType(old.type) = NormaliseType(new.type)
    /\ old.nullable = new.nullable
    /\ old.limit["max_length"] \in {None, new.limit["max_length"]}
    /\ old.type \in NumericTypes /\ old.limit["precision"] # None =>
          /\ old.limit["precision"] = new.limit["precision"]
          /\ old.limit["scale"] \in {None, new.limit["scale"]}

KeepsTable(old, new) ==
    /\ \A c \in DOMAIN old.columns :
          c \in DOMAIN new.columns /\ SameColumn(old.columns[c], new.columns[c])
    /\ old.primary_key \in {<<>>, new.primary_key}
    /\ \A fk \in old.foreign_keys : ForeignKeyFound(ForeignKeyEntry(fk), new)
    /\ \A x \in old.indexes : x.primary \/ IndexFound(IndexEntry(x), new)

Keeps(base, s) ==
    \A n \in DOMAIN base.tables :
        n \in DOMAIN s.tables /\ KeepsTable(base.tables[n], s.tables[n])
=============================================================================
