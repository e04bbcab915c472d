----------------------------- MODULE MCReleases -----------------------------
EXTENDS Releases

MCNames   == {"t", "u", "id", "i", "d"}
MCTypes   == {"varchar", "char", "character varying", "numeric", "decimal", "int", "float", "text"}
MCSizes   == {2, 10, 255}
MCLetters == [n \in MCNames |-> IF n = "id" THEN <<"i", "d">> ELSE <<n>>]

\* Selected is the standard module's SelectSeq.
ASSUME SelectedIsSelectSeq ==
    \A n \in 0..4 : \A seq \in [1..n -> 1..3] : \A S \in SUBSET (1..3) :
        Selected(seq, LAMBDA e : e \in S) = SelectSeq(seq, LAMBDA e : e \in S)

-----------------------------------------------------------------------------
(* Columns *)

Entry0(name) == [is |-> "map", name |-> name, type |-> None, nullable |-> None,
                 limit |-> NoLimits, default |-> None]

Typed(name, base, args) == [Entry0(name) EXCEPT !.type = [base |-> base, args |-> args]]

Inline   == Typed("id", "varchar", <<255>>)
Explicit == [Typed("id", "varchar", <<>>) EXCEPT !.limit["max_length"] = 255]
Money    == [Typed("i", "numeric", <<>>) EXCEPT !.limit["precision"] = 10, !.limit["scale"] = 2]

Entries ==
    {Text("id"), Text("i"), Inline, Explicit, Typed("id", "text", <<>>),
     [Entry0("id") EXCEPT !.nullable = FALSE],
     Typed("i", "char", <<2>>), Typed("i", "decimal", <<10, 2>>), Typed("id", "int", <<>>),
     Typed("i", "float", <<>>), Typed("i", "text", <<Word>>), Typed("i", "numeric", <<10, 2>>), Money,
     [Entry0("i") EXCEPT !.limit["scale"] = Word], Scalar}

-----------------------------------------------------------------------------
(* Tables and documents *)

Table0(name, columns) ==
    [is |-> "map", name |-> name, columns |-> List(columns),
     primary_key |-> Null, foreign_keys |-> Null, indexes |-> Null]

ToU(columns, key) ==
    [is |-> "map", columns |-> columns,
     references_table |-> IF key = "references_table" THEN "u" ELSE None,
     references       |-> IF key = "references" THEN "u" ELSE None,
     references_columns |-> List(<<"id">>)]

Document(structure) ==
    [keyless |-> FALSE, version |-> 1, structure |-> List(structure),
     audit |-> Null, settings |-> Null]

Short == {<<Inline>>, <<Explicit>>, <<Text("id")>>, <<Typed("id", "text", <<>>)>>, <<Text("i")>>}

Bare == {Document(<<Table0("t", columns)>>) :
            columns \in {<<>>} \cup {<<c>> : c \in Entries} \cup (Entries \X Entries)}

\* One table declared twice, or next to another one.
Twice == {Document(<<Table0("t", a), Table0(n, b)>>) : a \in Short, n \in {"t", "u"}, b \in Short}

Keyed == {Document(<<[Table0("t", <<Text("id"), Money>>) EXCEPT
                        !.primary_key = k, !.foreign_keys = f, !.indexes = x],
                     Table0("u", <<Text("id")>>)>>) :
             k \in {Null, List(<<"id">>), Text("id"), Scalar},
             f \in {Null, Scalar, List(<<Text("u")>>), List(<<ToU(Text("id"), "references")>>),
                    List(<<ToU(List(<<"i">>), "references_table"),
                           ToU(List(<<"id">>), "references_table")>>)},
             x \in {Null, Text("id"),
                    List(<<[is |-> "map", columns |-> Text("id"), name |-> "i",
                            unique |-> TRUE]>>)}}

Empty == Document(<<>>)

\* What load_contract or the parser refuses, and what nobody can walk through.
Odd == {Empty, [Empty EXCEPT !.keyless = TRUE], [Empty EXCEPT !.version = Word]}
       \cup {[Empty EXCEPT !.structure = v] : v \in {Null, Scalar, Text("id"), List(<<Text("t")>>)}}
       \cup {[Empty EXCEPT !.structure = List(<<[Table0("t", <<>>) EXCEPT !.columns = v]>>)] :
                v \in {Scalar, Text("id")}}
       \cup {[Document(<<Table0("t", <<Inline>>)>>) EXCEPT !.audit = v] :
                v \in {Text("t"), List(<<Scalar>>),
                       List(<<[is |-> "map", table |-> "t", required_columns |-> Text("id")]>>)}}
       \cup {[Document(<<Table0("t", <<Inline>>)>>) EXCEPT !.settings =
                 [is |-> "map", unexpected_tables |-> p, unexpected_columns |-> None]] :
                p \in {"error", "fatal"}}

MCDocuments == Bare \cup Twice \cup Keyed \cup Odd

OnlyEmpty == {Empty}

MCInitialDocuments ==
    {Empty, Document(<<Table0("t", <<Inline, Text("i")>>)>>),
     Document(<<Table0("t", <<Text("id")>>), Table0("u", <<Explicit>>)>>)}
=============================================================================
