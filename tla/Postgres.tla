------------------------------ MODULE Postgres ------------------------------
(***************************************************************************)
(* The live database the Data Gate inspects: the schema changes other      *)
(* sessions may commit while a verification runs.  External to the         *)
(* repository; only what the catalogue queries can observe is kept.        *)
(***************************************************************************)
EXTENDS Introspect, Functions

CONSTANTS
    RelationNames,      \* names a migration may give to a relation
    ColumnNames,        \* names a migration may give to a column
    ColumnShapes        \* column definitions a migration may use

ASSUME MigrationsAreTyped ==
    RelationNames \subseteq Names /\ ColumnNames \subseteq Names /\ ColumnShapes \subseteq Column

One(name, value) == [n \in {name} |-> value]

\* f with name bound to value.
Bind(f, name, value) ==
    [n \in DOMAIN f \cup {name} |-> IF n = name THEN value ELSE f[n]]

Without(f, name) == [n \in DOMAIN f \ {name} |-> f[n]]

BareRelation(kind, columns) ==
    [kind |-> kind, columns |-> columns, primary_key |-> <<>>, foreign_keys |-> {}, indexes |-> {}]

TablesIn(d) == {t \in DOMAIN d : d[t].kind \in {"r", "p"}}

\* The column positions <<table, column>> that exist, and those that are free.
ColumnsIn(d) ==
    {x \in TablesIn(d) \X ColumnNames : x[2] \in DOMAIN d[x[1]].columns}

FreeColumns(d) == (TablesIn(d) \X ColumnNames) \ ColumnsIn(d)

\* The relations whose definition names table t as a foreign key's target.
ReferencedBy(d, t) ==
    {u \in DOMAIN d \ {t} : \E fk \in d[u].foreign_keys : fk.referenced_table = t}

InSeq(x, seq) == \E i \in DOMAIN seq : seq[i] = x

\* How much there is in a catalogue, for the bounds of the models: columns,
\* keys and secondary indexes (the index of a primary key comes with it).
Weight(d) ==
    LET objects(t) == Cardinality(DOMAIN d[t].columns) + Len(d[t].primary_key)
                      + Cardinality(d[t].foreign_keys)
                      + Cardinality({x \in d[t].indexes : ~x.primary})
    IN  FoldFunction(+, 0, [t \in DOMAIN d |-> objects(t)])

\* What Relation says, one relation at a time.
IsRelation(r) ==
    /\ r \in [kind         : Kinds,
              columns      : {r.columns},
              primary_key  : Seq(Names),
              foreign_keys : SUBSET ForeignKey,
              indexes      : SUBSET CatalogueIndex]
    /\ \A c \in DOMAIN r.columns : c \in Names /\ r.columns[c] \in Column

\* What PostgreSQL itself enforces of its catalogue: keys and indexes are over
\* existing columns, a primary key is NOT NULL, a foreign key has its target.
Coherent(d) ==
    \A t \in DOMAIN d :
        /\ t \in Names /\ IsRelation(d[t])
        /\ \A i \in DOMAIN d[t].primary_key :
              /\ d[t].primary_key[i] \in DOMAIN d[t].columns
              /\ ~d[t].columns[d[t].primary_key[i]].nullable
        /\ \A fk \in d[t].foreign_keys :
              /\ \A i \in DOMAIN fk.columns : fk.columns[i] \in DOMAIN d[t].columns
              /\ fk.referenced_table \in TablesIn(d)
        /\ \A x \in d[t].indexes :
              /\ x.keys # <<>>
              /\ \A i \in DOMAIN x.keys : x.keys[i] \in DOMAIN d[t].columns \cup {Expression}
              /\ \A i \in DOMAIN x.included : x.included[i] \in DOMAIN d[t].columns

\* A catalogue holds finitely many objects.
Finite(d) ==
    /\ IsFiniteSet(DOMAIN d)
    /\ \A t \in DOMAIN d : /\ IsFiniteSet(DOMAIN d[t].columns)
                          /\ IsFiniteSet(d[t].foreign_keys)
                          /\ IsFiniteSet(d[t].indexes)

\* No table refers to itself: the migrations below make no such foreign key.
NoSelfReference(d) ==
    \A t \in DOMAIN d : \A fk \in d[t].foreign_keys : fk.referenced_table # t

-----------------------------------------------------------------------------
(* Changes that only add: everything a reader saw before is still there. *)

CreateTable(d, kind) ==
    {Bind(d, t, BareRelation(kind, One(c, shape))) :
        t \in RelationNames \ DOMAIN d, c \in ColumnNames, shape \in ColumnShapes}

\* Column c of table t is as shape says.
Redefine(d, t, c, shape) == Bind(d, t, [d[t] EXCEPT !.columns = Bind(@, c, shape)])

AddColumn(d) ==
    {Redefine(d, x[1], x[2], shape) : x \in FreeColumns(d), shape \in ColumnShapes}

\* PRIMARY KEY on a column that is NOT NULL already, with its unique index.
AddPrimaryKey(d) ==
    {Bind(d, x[1],
        [d[x[1]] EXCEPT
            !.primary_key = <<x[2]>>,
            !.indexes = @ \cup {[name |-> x[1], keys |-> <<x[2]>>, included |-> <<>>,
                                 unique |-> TRUE, primary |-> TRUE]}]) :
        x \in {y \in ColumnsIn(d) : /\ d[y[1]].primary_key = <<>>
                                    /\ ~d[y[1]].columns[y[2]].nullable}}

\* Column c of table t becomes a foreign key to the primary key of u.
LinkTo(d, t, c, u) ==
    Bind(d, t, [d[t] EXCEPT
        !.foreign_keys = @ \cup {[name |-> c, columns |-> <<c>>,
                                  referenced_table   |-> u,
                                  referenced_columns |-> d[u].primary_key]}])

AddForeignKey(d) ==
    {LinkTo(d, y[1][1], y[1][2], y[2]) :
        y \in {z \in ColumnsIn(d) \X TablesIn(d) :
                  /\ d[z[2]].primary_key # <<>> /\ z[2] # z[1][1]
                  /\ \A fk \in d[z[1][1]].foreign_keys : fk.name # z[1][2]}}

\* What may follow an index's first column: more keys, included columns.
IndexTail == [keys : Seq({Expression}), included : Seq(Names)]

NothingMore == [keys |-> <<>>, included |-> <<>>]

\* An index named after its first column.
CreateIndex(d, tail) ==
    {Bind(d, x[1],
        [d[x[1]] EXCEPT
            !.indexes = @ \cup {[name |-> x[2], keys |-> <<x[2]>> \o tail.keys,
                                 included |-> tail.included,
                                 unique |-> FALSE, primary |-> FALSE]}]) :
        x \in {y \in ColumnsIn(d) :
                  /\ \A i \in d[y[1]].indexes : i.name # y[2]
                  /\ \A i \in DOMAIN tail.included :
                        tail.included[i] \in DOMAIN d[y[1]].columns}}

Additive(d) ==
    CreateTable(d, "r") \cup AddColumn(d) \cup AddPrimaryKey(d)
        \cup AddForeignKey(d) \cup CreateIndex(d, NothingMore)

-----------------------------------------------------------------------------
(* Changes that take something away or redefine it. *)

\* Mutant: a table goes while a foreign key still refers to it.
DropTableAnyhow(d) == {Without(d, t) : t \in DOMAIN d}

DropTable(d) == {Without(d, t) : t \in {u \in DOMAIN d : ReferencedBy(d, u) = {}}}

\* Constraints and indexes over a dropped column go with it.
DropColumn(d) ==
    {Bind(d, x[1],
        [d[x[1]] EXCEPT
            !.columns      = Without(@, x[2]),
            !.primary_key  = IF InSeq(x[2], @) THEN <<>> ELSE @,
            !.foreign_keys = {fk \in @ : ~InSeq(x[2], fk.columns)},
            !.indexes      = {i \in @ : ~InSeq(x[2], i.keys) /\ ~InSeq(x[2], i.included)}]) :
        x \in {y \in ColumnsIn(d) : ReferencedBy(d, y[1]) = {}}}

\* A new type, nullability, size or default; a key column stays NOT NULL.
AlterColumn(d) ==
    {Redefine(d, y[1][1], y[1][2], y[2]) :
        y \in {z \in ColumnsIn(d) \X ColumnShapes :
                  z[2].nullable => ~InSeq(z[1][2], d[z[1][1]].primary_key)}}

RenameTable(d) ==
    {Bind(Without(d, t), u, d[t]) :
        t \in {v \in DOMAIN d : ReferencedBy(d, v) = {}}, u \in RelationNames \ DOMAIN d}

Destructive(d) == DropTable(d) \cup DropColumn(d) \cup AlterColumn(d) \cup RenameTable(d)
=============================================================================
