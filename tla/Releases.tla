------------------------------ MODULE Releases ------------------------------
(***************************************************************************)
(* Successive releases of a contract document: any document may become the *)
(* candidate, and `datagate diff <released> <candidate>` gates its release *)
(* ("so diff can gate a deployment", README.md:156).                       *)
(***************************************************************************)
EXTENDS Docs, Checks

CONSTANTS
    Documents,          \* contract documents
    InitialDocuments    \* ... the first release may be

-----------------------------------------------------------------------------
(* What YAML documents are made of: any value may stand where a list or a  *)
(* mapping belongs, and those that do belong there have names, numbers and *)
(* booleans in their places.                                               *)

IsList(v) == v.is = "list" => v.items \in Seq(Range(v.items))

ListOf(v, Fits(_)) == IsList(v) /\ \A i \in DOMAIN Items(v) : Fits(Items(v)[i])

ListOfNames(v) ==
    /\ v.is = "text" => v.text \in Names
    /\ v.is = "list" => v.items \in Seq(Names)

Numbers == Sizes \cup {Word}

RawTypes == [base : Types, args : Seq(Numbers)]

FitsColumn(e) ==
    /\ e.is = "text" => e.text \in Names
    /\ e.is = "map" =>
          /\ e.name \in Maybe(Names) /\ e.nullable \in Maybe(BOOLEAN)
          /\ e.type \in Maybe(RawTypes)
          /\ e.limit \in [Limits -> Maybe(Numbers)]
          /\ e.default \in Maybe(Seq(Tokens))

FitsForeignKey(e) ==
    e.is = "map" => /\ ListOfNames(e.columns) /\ ListOfNames(e.references_columns)
                    /\ e.references_table \in Maybe(Names) /\ e.references \in Maybe(Names)

FitsIndex(e) ==
    e.is = "map" => ListOfNames(e.columns) /\ e.name \in Maybe(Names) /\ e.unique \in BOOLEAN

FitsTable(e) ==
    e.is = "map" => /\ e.name \in Maybe(Names)
                    /\ ListOf(e.columns, FitsColumn)
                    /\ ListOfNames(e.primary_key)
                    /\ ListOf(e.foreign_keys, FitsForeignKey)
                    /\ ListOf(e.indexes, FitsIndex)

FitsRule(e) ==
    e.is = "map" => e.table \in Maybe(Names) /\ ListOfNames(e.required_columns)

IsDocument(doc) == ListOf(doc.structure, FitsTable) /\ ListOf(doc.audit, FitsRule)

ASSUME ReleasesAssumption ==
    /\ None \notin RawTypes
    /\ Word # None /\ Word \notin Sizes
    /\ Letters \in [Names -> Seq(Names)]
    /\ InitialDocuments \subseteq Documents
    /\ \A doc \in Documents : IsDocument(doc)

-----------------------------------------------------------------------------

VARIABLES
    first,      \* the first release
    released,   \* the present one
    typed       \* auxiliary: the columns that had a type in every release

vars == <<first, released, typed>>

\* The columns for which the differ finds a type in a document.
TypedColumns(doc) ==
    LET tables == IndexTables(doc)
    IN  {x \in Names \X Names : /\ x[1] \in DOMAIN tables
                                /\ x[2] \in DOMAIN tables[x[1]]
                                /\ tables[x[1]][x[2]].type # None}

Init ==
    /\ first \in InitialDocuments
    /\ released = first
    /\ typed = TypedColumns(first)

\* A pipeline that compares a candidate with the present release lets it
\* through on exit code 0.
Release(candidate) ==
    /\ DiffExit(released, candidate) = 0
    /\ released' = candidate
    /\ typed' = typed \cap TypedColumns(candidate)
    /\ UNCHANGED first

Next == \E candidate \in Documents : Release(candidate)

Spec == Init /\ [][Next]_vars

-----------------------------------------------------------------------------
TypeOK ==
    /\ \A doc \in {first, released} :
          /\ doc \in Documents
          /\ Loading(doc) \in {"contract", "bad_shape", "bad_number"}
          /\ Loads(doc) => ContractOf(doc) \in Contract
    /\ typed \subseteq Names \X Names

\* No table, and no column of a table, is declared twice.
DeclaredOnce(doc) ==
    LET structure == ContractOf(doc).structure
        Once(seq) == \A i, j \in DOMAIN seq : seq[i].name = seq[j].name => i = j
    IN  Once(structure) /\ \A i \in DOMAIN structure : Once(structure[i].columns)

\* The entries of a contract for column c of table t.
Specs(doc, t, c) ==
    LET structure == ContractOf(doc).structure
    IN  UNION {{structure[i].columns[j] :
                   j \in {k \in DOMAIN structure[i].columns : structure[i].columns[k].name = c}} :
               i \in {k \in DOMAIN structure : structure[k].name = t}}

\* Both ends of a chain of releases are contracts that verify can read in one
\* way only: of a name that is declared twice the differ takes the last entry
\* (differ.py:134-147), while verify checks every one of them.  Releases in
\* between may be anything.
ReadOneWay == \A doc \in {first, released} : Loads(doc) /\ DeclaredOnce(doc)

\* Through any number of releases, every table and column of the first one
\* stays declared, and a column that could be left NULL then still can
\* (differ.py:156, 178; the differ compares two releases at a time).
ReadersKept ==
    ReadOneWay =>
        /\ DeclaredTables(ContractOf(first)) \subseteq DeclaredTables(ContractOf(released))
        /\ \A t, c \in Names : Specs(first, t, c) # {} =>
              /\ Specs(released, t, c) # {}
              /\ \A before \in Specs(first, t, c), after \in Specs(released, t, c) :
                    before.nullable # FALSE => after.nullable # FALSE

\* A column that had a type in every release has the type of the first one,
\* however it was written (differ.py:185).
TypesKept ==
    ReadOneWay =>
        \A t, c \in Names : <<t, c>> \in typed =>
            \A before \in Specs(first, t, c), after \in Specs(released, t, c) :
                after.type = before.type

\* What a document declares is in the other one too, written the same way.
Grows(old, new) ==
    \A i \in DOMAIN Items(old.structure) : \E k \in DOMAIN Items(new.structure) :
        /\ Items(old.structure)[i].name = Items(new.structure)[k].name
        /\ ToSet(Items(Items(old.structure)[i].columns))
              \subseteq ToSet(Items(Items(new.structure)[k].columns))

\* "additive, cannot break existing readers/writers" (differ.py:10): a
\* candidate that declares all that was declared, and more, is let through.
AdditionsReleased ==
    \A candidate \in Documents :
        Loads(released) /\ Loads(candidate) /\ DeclaredOnce(candidate)
            /\ Grows(released, candidate) => DiffExit(released, candidate) = 0

\* Two documents that are read as the same contract differ in nothing that is
\* breaking: "Column parameters can also be written explicitly (max_length,
\* precision, scale) instead of inline in type" (README.md:255).
SameContractReleased ==
    \A candidate \in Documents :
        Loads(released) /\ Loads(candidate) /\ ContractOf(released) = ContractOf(candidate)
            => DiffExit(released, candidate) = 0

-----------------------------------------------------------------------------
(* What the pages say. *)

\* A type that is written inline or with the explicit keys that go with it.
PlainType(e) ==
    LET given == {l \in Limits : e.limit[l] # None}
    IN  given = {} \/ /\ e.type # None /\ e.type.args = <<>>
                      /\ given \in IF e.type.base \in CharTypes
                                   THEN {{"max_length"}}
                                   ELSE {{"precision"}, {"precision", "scale"}}

\* Keys are lists, foreign keys use "references_table", types are plain.
Plain(doc) ==
    \A e \in ToSet(Items(doc.structure)) :
        /\ e.primary_key.is # "text"
        /\ \A f \in ToSet(Items(e.foreign_keys)) :
              f.columns.is # "text" /\ f.references_table # None
        /\ \A c \in ToSet(Items(e.columns)) : c.is = "map" => PlainType(c)

\* What the parser makes of a type the pages show.
ReadBack(shown) ==
    IF shown.suffix = <<>>
    THEN SplitType(shown.written)
    ELSE SplitType([base |-> shown.written.base, args |-> shown.suffix])

RowShows(row, col, table) ==
    /\ row.name = col.name
    /\ row.nullable = col.nullable
    /\ ReadBack(row.type) = [type |-> col.type, limit |-> col.limit]
    /\ row.pk <=> col.name \in ToSet(table.primary_key)
    /\ row.fk <=> \E fk \in ToSet(table.foreign_keys) : col.name \in ToSet(fk.columns)

\* The pages for a plain document tell what its contract is: each column with
\* its type, nullability and keys, and each foreign key (docsgen.py:43-62, 90).
DocsShowContract ==
    Loads(released) /\ Plain(released) =>
        /\ ~CannotRender(released)
        /\ LET tables == ContractOf(released).structure
               pages  == Pages(released)
           IN  /\ DOMAIN pages = DOMAIN tables
               /\ \A i \in DOMAIN tables :
                     /\ pages[i].name = tables[i].name
                     /\ DOMAIN pages[i].rows = DOMAIN tables[i].columns
                     /\ \A j \in DOMAIN tables[i].columns :
                           RowShows(pages[i].rows[j], tables[i].columns[j], tables[i])
                     /\ pages[i].relations = {<<fk.references_table, fk.columns>> :
                                                 fk \in ToSet(tables[i].foreign_keys)}

-----------------------------------------------------------------------------
(* What PostgreSQL makes of a type in CREATE TABLE; external.  The types are *)
(* the built-in scalar ones: arrays and domains are reported as such.        *)

\* The name under which information_schema reports a type.
PostgresName(base) ==
    CASE base \in {"int", "int4", "serial", "serial4"}       -> "integer"
      [] base \in {"int8", "bigserial", "serial8"}           -> "bigint"
      [] base \in {"int2", "smallserial", "serial2"}         -> "smallint"
      [] base = "varchar"                                    -> "character varying"
      [] base \in {"char", "nchar", "bpchar"}                -> "character"
      [] base = "bool"                                       -> "boolean"
      [] base = "time"                                       -> "time without time zone"
      [] base = "timetz"                                     -> "time with time zone"
      [] base = "timestamp"                                  -> "timestamp without time zone"
      [] base = "timestamptz"                                -> "timestamp with time zone"
      [] base \in {"decimal", "dec"}                         -> "numeric"
      [] base \in {"float", "float8"}                        -> "double precision"
      [] base = "float4"                                     -> "real"
      [] base = "varbit"                                     -> "bit varying"
      [] OTHER                                               -> base

\* The names in use that columns.py does not know to be another's.
Unaliased == {"serial4", "serial8", "smallserial", "serial2", "nchar", "bpchar", "time",
              "dec", "float", "varbit"}

Lengths   == {"varchar", "character varying", "char", "character"}
Decimals  == {"numeric", "decimal"}

\* Types of which information_schema reports all that is in their brackets.
Reported(raw) ==
    /\ Word \notin ToSet(raw.args)
    /\ Len(raw.args) \in CASE raw.base \in Lengths  -> {0, 1}
                           [] raw.base \in Decimals -> {0, 1, 2}
                           [] OTHER                 -> {0}

\* The column; what a type is limited to without brackets is left open.
CreatedAs(raw) ==
    [type     |-> PostgresName(raw.base),
     nullable |-> TRUE,
     limit    |-> [l \in Limits |->
                      CASE raw.args = <<>> -> None
                        [] raw.args # <<>> /\ raw.base \in Lengths ->
                              IF l = "max_length" THEN raw.args[1] ELSE None
                        [] OTHER ->
                              CASE l = "max_length" -> None
                                [] l = "precision"  -> raw.args[1]
                                [] l = "scale"      -> IF Len(raw.args) = 2 THEN raw.args[2] ELSE 0],
     default  |-> None]

\* A type written in a contract as in the CREATE TABLE that made the column
\* contradicts nothing of that column, under every name that columns.py knows
\* or that PostgreSQL reports (contract.py:244, columns.py:11).
QuotedTypeConforms ==
    Loads(released) =>
        \A e \in ToSet(Items(released.structure)) : \A c \in ToSet(Items(e.columns)) :
            (/\ c.is = "map" /\ c.type # None /\ \A l \in Limits : c.limit[l] = None
             /\ Reported(c.type) /\ c.type.base \notin Unaliased)
            => Contradictions([ColumnOf(c) EXCEPT !.nullable = None, !.default = None],
                              CreatedAs(c.type)) = {}
=============================================================================
