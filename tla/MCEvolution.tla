----------------------------- MODULE MCEvolution -----------------------------
EXTENDS Evolution, MCSamples

TwoShapes == {KeyColumn, TextColumn}

\* An integer, for which a precision is reported that its type does not take,
\* and numeric columns that differ in scale only.
WholeColumn  == [MoneyColumn EXCEPT !.limit["scale"] = 0]
NumberShapes == {KeyColumn, MoneyColumn, WholeColumn}

AllContracts == {KeyContract, LinkContract, TwiceContract}
IndexOnly    == {IndexContract}
OneContract  == {KeyContract}

\* No name is ever taken for its letters here.
NoLetters == [n \in {} |-> None]

-----------------------------------------------------------------------------
Empty == [t \in {} |-> None]

\* users(id PRIMARY KEY), and orders(ref) that references it and has an index.
Linked ==
    Bind(Bind(Empty, "users",
              [BareRelation("r", One("id", KeyColumn)) EXCEPT
                  !.primary_key = <<"id">>,
                  !.indexes = {[name |-> "id", keys |-> <<"id">>, included |-> <<>>,
                                unique |-> TRUE, primary |-> TRUE]}]),
         "orders",
         [BareRelation("r", One("ref", KeyColumn)) EXCEPT
             !.foreign_keys = {[name |-> "ref", columns |-> <<"ref">>,
                                referenced_table |-> "users",
                                referenced_columns |-> <<"id">>]},
             !.indexes = {[name |-> "ref", keys |-> <<"ref">>, included |-> <<>>,
                           unique |-> FALSE, primary |-> FALSE]}])

EmptyDatabase == {Empty}
EmptyOrLinked == {Empty, Linked}

-----------------------------------------------------------------------------
PlainTables    == {"r"}
TablesAndViews == {"r", "v"}
NoTail         == {NothingMore}

\* Partitioned tables, and indexes with an expression or an included column
\* after their first column.
AnyKind == {"r", "p"}
AnyTail == {NothingMore, [NothingMore EXCEPT !.keys = <<Expression>>],
            [NothingMore EXCEPT !.included = <<"id">>]}
=============================================================================
