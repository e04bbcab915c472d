------------------------------ MODULE MCSamples ------------------------------
(***************************************************************************)
(* The names, columns and contracts the TLC configurations draw on.        *)
(***************************************************************************)
EXTENDS Models

MCRelations == {"users", "orders"}
MCColumns   == {"id", "ref"}
MCNames     == MCRelations \cup MCColumns
MCTypes     == {"integer", "int", "text", "character varying", "varchar", "numeric"}
MCTokens    == {"'", "::", "active", "text"}
MCSizes     == {0, 2, 10, 32, 255}

NoLimit == [max_length |-> None, precision |-> None, scale |-> None]

\* integer NOT NULL, with the precision information_schema reports for it.
KeyColumn == [type |-> "integer", nullable |-> FALSE, default |-> None,
              limit |-> [NoLimit EXCEPT !["precision"] = 32, !["scale"] = 0]]

\* varchar(255) DEFAULT 'active'::text
TextColumn == [type |-> "character varying", nullable |-> TRUE,
               default |-> <<"'", "active", "'", "::", "text">>,
               limit |-> [NoLimit EXCEPT !["max_length"] = 255]]

\* numeric(10,2)
MoneyColumn == [type |-> "numeric", nullable |-> FALSE, default |-> None,
                limit |-> [NoLimit EXCEPT !["precision"] = 10, !["scale"] = 2]]

-----------------------------------------------------------------------------
ColumnNamed(name) == [name |-> name, type |-> None, nullable |-> None,
                      limit |-> NoLimit, default |-> None]

TableNamed(name) == [name |-> name, columns |-> <<>>, primary_key |-> <<>>,
                     foreign_keys |-> <<>>, indexes |-> <<>>]

Policy(tables, columns) == [unexpected_tables |-> tables, unexpected_columns |-> columns]

\* users(id int NOT NULL PRIMARY KEY, unique index on id), ref audited.
KeyContract ==
    [structure |-> <<[TableNamed("users") EXCEPT
                        !.columns = <<[ColumnNamed("id") EXCEPT
                                          !.type = "int", !.nullable = FALSE]>>,
                        !.primary_key = <<"id">>,
                        !.indexes = <<[columns |-> <<"id">>, name |-> None, unique |-> TRUE]>>]>>,
     audit     |-> <<[table |-> "users", required_columns |-> <<"ref">>]>>,
     settings  |-> Policy("ignore", "warning")]

\* orders.ref references users; a default and a length are pinned; closed.
LinkContract ==
    [structure |-> <<TableNamed("users"),
                     [TableNamed("orders") EXCEPT
                        !.columns = <<ColumnNamed("id"),
                                      [ColumnNamed("ref") EXCEPT
                                          !.default = <<"active">>,
                                          !.limit["max_length"] = 255]>>,
                        !.foreign_keys = <<[columns |-> <<>>, references_table |-> "users",
                                            references_columns |-> <<"id">>]>>]>>,
     audit     |-> <<>>,
     settings  |-> Policy("error", "error")]

\* One table declared twice, as two teams might, in a contract that is closed
\* for columns.
TwiceContract ==
    [structure |-> <<[TableNamed("users") EXCEPT !.columns = <<ColumnNamed("id")>>],
                     [TableNamed("users") EXCEPT !.columns = <<ColumnNamed("ref")>>]>>,
     audit     |-> <<[table |-> "orders", required_columns |-> <<"id">>]>>,
     settings  |-> Policy("warning", "error")]

\* users has a ref column and orders exists: a change to either table matters.
PairContract ==
    [structure |-> <<[TableNamed("users") EXCEPT !.columns = <<ColumnNamed("ref")>>],
                     TableNamed("orders")>>,
     audit     |-> <<>>,
     settings  |-> Policy("ignore", "warning")]

\* Nothing but users(id) may exist.
ClosedContract ==
    [structure |-> <<[TableNamed("users") EXCEPT !.columns = <<ColumnNamed("id")>>]>>,
     audit     |-> <<>>,
     settings  |-> Policy("error", "error")]

\* orders has an index on ref, and nothing else is said.
IndexContract ==
    [structure |-> <<[TableNamed("orders") EXCEPT
                        !.indexes = <<[columns |-> <<"ref">>, name |-> "ref",
                                       unique |-> FALSE]>>]>>,
     audit     |-> <<>>,
     settings  |-> Policy("ignore", "ignore")]
=============================================================================
