------------------------------- MODULE Models -------------------------------
(***************************************************************************)
(* The values the Data Gate passes between its layers: the introspected    *)
(* schema (datagate/models.py) and the typed contract                      *)
(* (datagate/contract.py).                                                 *)
(*                                                                         *)
(* A Python tuple whose order the checks never look at (the tables of a    *)
(* schema, the columns, foreign keys and indexes of a table) is a set, or  *)
(* a function from the name that is unique in PostgreSQL; the lists a user *)
(* writes in a contract, where a name may occur twice, are sequences.      *)
(***************************************************************************)
EXTENDS Selections, Sequences

CONSTANTS
    Names,      \* identifiers of tables, columns, constraints and indexes
    Types,      \* type names, as PostgreSQL or a contract writes them
    Tokens,     \* what a column default is made of: words, "'" and "::"
    Sizes,      \* lengths, precisions and scales
    None        \* Python's None

ASSUME NoneIsNoValue ==
    /\ None \notin Names
    /\ None \notin Types
    /\ None \notin Sizes
    /\ None \notin BOOLEAN
    /\ None \notin Seq(Tokens)

Maybe(S) == S \cup {None}

-----------------------------------------------------------------------------
(* models.py *)

\* The three size attributes ColumnsCheck compares in one loop.
Limits == {"max_length", "precision", "scale"}

Column == [type     : Types,
           nullable : BOOLEAN,
           limit    : [Limits -> Maybe(Sizes)],
           default  : Maybe(Seq(Tokens))]

ForeignKey == [name               : Names,
               columns            : Seq(Names),
               referenced_table   : Names,
               referenced_columns : Seq(Names)]

Index == [name : Names, columns : Seq(Names), unique : BOOLEAN, primary : BOOLEAN]

\* A partial map from names: the shape of every "by name" lookup.
NamedBy(S) == UNION {[D -> S] : D \in SUBSET Names}

Table == [columns      : NamedBy(Column),
          primary_key  : Seq(Names),
          foreign_keys : SUBSET ForeignKey,
          indexes      : SUBSET Index]

\* Schema.table(name) is None exactly when name is not in DOMAIN s.tables.
Schema == [tables : NamedBy(Table), views : NamedBy(NamedBy(Column))]

\* d.get(name, default)
Get(f, name, default) == IF name \in DOMAIN f THEN f[name] ELSE default

-----------------------------------------------------------------------------
(* contract.py *)

ColumnSpec == [name     : Names,
               type     : Maybe(Types),
               nullable : Maybe(BOOLEAN),
               limit    : [Limits -> Maybe(Sizes)],
               default  : Maybe(Seq(Tokens))]

\* An empty sequence is "not specified", as an empty tuple is in the code.
ForeignKeySpec == [columns            : Seq(Names),
                   references_table   : Names,
                   references_columns : Seq(Names)]

IndexSpec == [columns : Seq(Names), name : Maybe(Names), unique : BOOLEAN]

TableSpec == [name         : Names,
              columns      : Seq(ColumnSpec),
              primary_key  : Seq(Names),
              foreign_keys : Seq(ForeignKeySpec),
              indexes      : Seq(IndexSpec)]

AuditRule == [table : Names, required_columns : Seq(Names)]

Policies == {"error", "warning", "ignore"}

Settings == [unexpected_tables : Policies, unexpected_columns : Policies]

Contract == [structure : Seq(TableSpec),
             audit     : Seq(AuditRule),
             settings  : Settings]

\* Settings(): what _parse_settings returns when the key is absent.
DefaultSettings == [unexpected_tables  |-> "ignore", unexpected_columns |-> "ignore"]
=============================================================================
