----------------------------- MODULE Introspect -----------------------------
(***************************************************************************)
(* What the five catalogue queries of datagate/introspect.py see of a      *)
(* database, and how Introspector.introspect assembles their results.      *)
(*                                                                         *)
(* A catalogue maps each relation of the inspected schema to its kind      *)
(* ("r" table, "p" partitioned table, "v" view), columns, primary key,     *)
(* foreign keys and indexes.  An index key is a column or an expression.   *)
(***************************************************************************)
EXTENDS Models

CONSTANT Expression     \* an index key that is no plain column

ASSUME ExpressionIsNoName == Expression \notin Names

Kinds == {"r", "p", "v"}

\* pg_index: an index has its keys, and columns it INCLUDEs besides.
CatalogueIndex == [name : Names, keys : Seq(Names \cup {Expression}),
                   included : Seq(Names), unique : BOOLEAN, primary : BOOLEAN]

Relation == [kind         : Kinds,
             columns      : NamedBy(Column),
             primary_key  : Seq(Names),
             foreign_keys : SUBSET ForeignKey,
             indexes      : SUBSET CatalogueIndex]

Catalogue == NamedBy(Relation)

-----------------------------------------------------------------------------
(* The queries, in the order introspect() issues them. *)

Queries == <<"tables", "columns", "primary_keys", "foreign_keys", "indexes">>

QueryNames == {Queries[i] : i \in DOMAIN Queries}

\* SQL_TABLES: information_schema calls a partitioned table a BASE TABLE too.
TableRows(d) == [t \in DOMAIN d |-> IF d[t].kind = "v" THEN "VIEW" ELSE "BASE TABLE"]

\* SQL_COLUMNS, grouped by build_columns: no key for a relation without rows.
ColumnRows(d) == [t \in {u \in DOMAIN d : DOMAIN d[u].columns # {}} |-> d[t].columns]

\* SQL_PRIMARY_KEYS, grouped by build_primary_keys.
PrimaryKeyRows(d) ==
    [t \in {u \in DOMAIN d : d[u].primary_key # <<>>} |-> d[t].primary_key]

\* SQL_FOREIGN_KEYS, grouped by build_foreign_keys.
ForeignKeyRows(d) ==
    [t \in {u \in DOMAIN d : d[u].foreign_keys # {}} |-> d[t].foreign_keys]

\* SQL_INDEXES joins pg_attribute, so an expression key yields no row.
PlainKeys(index) == Selected(index.keys, LAMBDA k : k # Expression)

\* Its rows are those of indkey: keys, then included columns, which it does not
\* tell apart.
SeenColumns(index) == PlainKeys(index) \o index.included

\* An index without a row is not seen at all.
SeenIndexes(rel) ==
    {[name |-> x.name, columns |-> SeenColumns(x), unique |-> x.unique, primary |-> x.primary] :
        x \in {y \in rel.indexes : SeenColumns(y) # <<>>}}

\* ... and keeps the relations with relkind = 'r' only.
IndexRows(d) ==
    [t \in {u \in DOMAIN d : d[u].kind = "r" /\ SeenIndexes(d[u]) # {}} |-> SeenIndexes(d[t])]

\* The grouped result of one query on the catalogue d.
Fetch(query, d) ==
    CASE query = "tables"       -> TableRows(d)
      [] query = "columns"      -> ColumnRows(d)
      [] query = "primary_keys" -> PrimaryKeyRows(d)
      [] query = "foreign_keys" -> ForeignKeyRows(d)
      [] query = "indexes"      -> IndexRows(d)

-----------------------------------------------------------------------------
(* introspect(): the rows of the five queries make one Schema. *)

NoColumns == [c \in {} |-> None]

OfType(rows, type) == {t \in DOMAIN rows : rows[t] = type}

\* got[q] is the grouped result of query q.
Assemble(got) ==
    [tables |->
        [t \in OfType(got["tables"], "BASE TABLE") |->
            [columns      |-> Get(got["columns"], t, NoColumns),
             primary_key  |-> Get(got["primary_keys"], t, <<>>),
             foreign_keys |-> Get(got["foreign_keys"], t, {}),
             indexes      |-> Get(got["indexes"], t, {})]],
     views |->
        [t \in OfType(got["tables"], "VIEW") |-> Get(got["columns"], t, NoColumns)]]

\* The schema of a database that does not change while it is read.
SchemaOf(d) == Assemble([q \in QueryNames |-> Fetch(q, d)])
=============================================================================
