-------------------------------- MODULE Docs --------------------------------
(***************************************************************************)
(* `datagate docs` (datagate/docsgen.py): what the generated pages tell of *)
(* a contract document.  Both formats and the diagram take their content   *)
(* from the same helpers; the layout is left out.                          *)
(***************************************************************************)
EXTENDS Differ, SequencesExt

\* What the pages list as a sequence of names: the letters of a single text.
ListNames(v) == IF v.is = "text" THEN Letters[v.text] ELSE Items(v)

NameSet(v) == ToSet(ListNames(v))

\* Mutant: only the first foreign key is marked.
FirstKeyMarks(e) ==
    [pk |-> NameSet(e.primary_key),
     fk |-> IF Items(e.foreign_keys) = <<>> THEN {}
            ELSE NameSet(Items(e.foreign_keys)[1].columns)]

\* _keys_for
KeyMarks(e) ==
    [pk |-> NameSet(e.primary_key),
     fk |-> UNION {NameSet(f.columns) : f \in ToSet(Items(e.foreign_keys))}]

\* _type_of: the type as written, and in brackets after it the explicit length,
\* or precision and scale.
TypeShown(e) ==
    [written |-> e.type,
     suffix  |-> IF e.limit["max_length"] # None THEN <<e.limit["max_length"]>>
                 ELSE IF e.limit["precision"] = None THEN <<>>
                 ELSE IF e.limit["scale"] = None THEN <<e.limit["precision"]>>
                 ELSE <<e.limit["precision"], e.limit["scale"]>>]

\* The row of one column.
Row(e, marks) ==
    [name     |-> e.name,
     type     |-> TypeShown(e),
     nullable |-> e.nullable,
     pk       |-> e.name \in marks.pk,
     fk       |-> e.name \in marks.fk]

\* The rows of one table, in the order of its entries; those without a name
\* are skipped.
Rows(e) ==
    LET columns == Selected(Iterate(e.columns), IsColumn)
    IN  [j \in DOMAIN columns |-> Row(AsEntry(columns[j]), KeyMarks(e))]

\* The lines between entities: a parent is named by references_table alone.
Relations(e) ==
    {<<f.references_table, ListNames(f.columns)>> :
        f \in {g \in ToSet(Items(e.foreign_keys)) : g.references_table # None}}

\* _tables: the pages have a section for every entry, also of the same name.
Pages(doc) ==
    LET tables == Selected(Iterate(doc.structure), IsTable)
    IN  [i \in DOMAIN tables |->
            [name      |-> tables[i].name,
             rows      |-> Rows(tables[i]),
             relations |-> Relations(tables[i])]]

\* A value the pages cannot walk through: list(5), "text".get(...), ", ".join(5)
\* or set.update(5) end in a TypeError or an AttributeError.
Unwalkable(v, lists) ==
    \/ v.is \in {"scalar", "text"}
    \/ \E e \in ToSet(Items(v)) : e.is # "map" \/ \E list \in lists : e[list].is = "scalar"

CannotRender(doc) ==
    \/ CannotIndex(doc)
    \/ \E i \in DOMAIN Iterate(doc.structure) :
          LET e == Iterate(doc.structure)[i]
          IN  /\ IsTable(e)
              /\ \/ e.primary_key.is = "scalar"
                 \/ Unwalkable(e.foreign_keys, {"columns", "references_columns"})
                 \/ Unwalkable(e.indexes, {"columns"})
=============================================================================
