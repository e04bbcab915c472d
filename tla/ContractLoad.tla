---------------------------- MODULE ContractLoad ----------------------------
(***************************************************************************)
(* Contract.from_mapping (datagate/contract.py): the typed contract a YAML *)
(* document is read as, or the exception it ends with.                     *)
(*                                                                         *)
(* A YAML value is a record whose "is" field tells what Python sees:       *)
(* "null" (or a missing key), "scalar" (a number, date or boolean),        *)
(* "text", "list" or "map".  A column type is a name with the parameters   *)
(* in its brackets.                                                        *)
(***************************************************************************)
EXTENDS Models, FiniteSetsExt

CONSTANT Word       \* a text that int() refuses

Null      == [is |-> "null"]
Scalar    == [is |-> "scalar"]
Text(t)   == [is |-> "text", text |-> t]
List(seq) == [is |-> "list", items |-> seq]

Items(v) == IF v.is = "list" THEN v.items ELSE <<>>

-----------------------------------------------------------------------------
(* How reading a value ends: "contract", or "bad_shape" for a ContractError *)
(* and "bad_number" for the ValueError of int().                            *)

\* Values are read one after the other, up to the first exception.
Ending(endings) ==
    IF \A i \in DOMAIN endings : endings[i] = "contract"
    THEN "contract"
    ELSE endings[Min({i \in DOMAIN endings : endings[i] # "contract"})]

Unless(bad, exception) == IF bad THEN exception ELSE "contract"

\* _as_sequence, then the loop over its entries.
ReadEntries(v, Read(_)) ==
    IF v.is \notin {"null", "list"}
    THEN "bad_shape"
    ELSE Ending([i \in DOMAIN Items(v) |-> Read(Items(v)[i])])

\* _as_str_tuple
ReadNames(v) == Unless(v.is \notin {"null", "text", "list"}, "bad_shape")

ReadNumber(n) == Unless(n = Word, "bad_number")

ReadColumn(e) ==
    CASE e.is = "text" -> "contract"
      [] e.is = "map"  ->
            IF e.name = None
            THEN "bad_shape"
            ELSE Ending(<<ReadNumber(e.limit["max_length"]),
                          ReadNumber(e.limit["precision"]),
                          ReadNumber(e.limit["scale"])>>)
      [] OTHER -> "bad_shape"

\* entry.get("references_table") or entry.get("references")
Referenced(e) == IF e.references_table # None THEN e.references_table ELSE e.references

ReadForeignKey(e) ==
    IF e.is # "map" \/ Referenced(e) = None
    THEN "bad_shape"
    ELSE Ending(<<ReadNames(e.columns), ReadNames(e.references_columns)>>)

ReadIndex(e) == IF e.is # "map" THEN "bad_shape" ELSE ReadNames(e.columns)

ReadTable(e) ==
    IF e.is # "map" \/ e.name = None
    THEN "bad_shape"
    ELSE Ending(<<ReadEntries(e.columns, ReadColumn), ReadNames(e.primary_key),
                  ReadEntries(e.foreign_keys, ReadForeignKey),
                  ReadEntries(e.indexes, ReadIndex)>>)

ReadRule(e) ==
    IF e.is # "map" \/ e.table = None THEN "bad_shape" ELSE ReadNames(e.required_columns)

ReadPolicy(p) == Unless(p \notin Policies \cup {None}, "bad_shape")

ReadSettings(v) ==
    CASE v.is = "null" -> "contract"
      [] v.is = "map"  -> Ending(<<ReadPolicy(v.unexpected_tables),
                                   ReadPolicy(v.unexpected_columns)>>)
      [] OTHER -> "bad_shape"

\* load_contract asks for the required keys, from_mapping reads them in turn.
Loading(doc) ==
    Ending(<<Unless(doc.keyless, "bad_shape"), ReadNumber(doc.version),
             ReadEntries(doc.structure, ReadTable),
             ReadEntries(doc.audit, ReadRule), ReadSettings(doc.settings)>>)

Loads(doc) == Loading(doc) = "contract"

-----------------------------------------------------------------------------
(* The typed contract, for a document that loads. *)

NamesOf(v) == IF v.is = "text" THEN <<v.text>> ELSE Items(v)

NoLimits == [l \in Limits |-> None]

CharTypes == {"varchar", "character varying", "char", "character", "bpchar"}

\* Mutant: only varchar(n) is known to have a length.
ParametersVarcharOnly(base, numbers) ==
    CASE numbers = <<>> -> NoLimits
      [] Len(numbers) = 1 ->
            [NoLimits EXCEPT ![IF base = "varchar" THEN "max_length" ELSE "precision"] = numbers[1]]
      [] Len(numbers) >= 2 ->
            [NoLimits EXCEPT !["precision"] = numbers[1], !["scale"] = numbers[2]]

\* Two numbers are precision and scale, one is a length or else a precision.
Parameters(base, numbers) ==
    CASE numbers = <<>> -> NoLimits
      [] Len(numbers) = 1 ->
            [NoLimits EXCEPT ![IF base \in CharTypes THEN "max_length" ELSE "precision"] = numbers[1]]
      [] Len(numbers) >= 2 ->
            [NoLimits EXCEPT !["precision"] = numbers[1], !["scale"] = numbers[2]]

\* Mutant: a parameter that is no number is kept.
SplitTypeAnyWord(raw) ==
    IF raw = None
    THEN [type |-> None, limit |-> NoLimits]
    ELSE [type |-> raw.base, limit |-> Parameters(raw.base, raw.args)]

\* _split_type drops the parameters when one of them is no number.
SplitType(raw) ==
    IF raw = None
    THEN [type |-> None, limit |-> NoLimits]
    ELSE [type  |-> raw.base,
          limit |-> IF \E i \in DOMAIN raw.args : raw.args[i] = Word
                    THEN NoLimits
                    ELSE Parameters(raw.base, raw.args)]

\* Explicit keys win over anything parsed from the type.
ColumnOf(e) ==
    IF e.is = "text"
    THEN [name |-> e.text, type |-> None, nullable |-> None,
          limit |-> NoLimits, default |-> None]
    ELSE LET split == SplitType(e.type)
         IN  [name     |-> e.name,
              type     |-> split.type,
              nullable |-> e.nullable,
              limit    |-> [l \in Limits |->
                               IF e.limit[l] # None THEN e.limit[l] ELSE split.limit[l]],
              default  |-> e.default]

ForeignKeyOf(e) == [columns            |-> NamesOf(e.columns),
                    references_table   |-> Referenced(e),
                    references_columns |-> NamesOf(e.references_columns)]

IndexOf(e) == [columns |-> NamesOf(e.columns), name |-> e.name, unique |-> e.unique]

Each(v, Of(_)) == [i \in DOMAIN Items(v) |-> Of(Items(v)[i])]

TableOf(e) == [name         |-> e.name,
               columns      |-> Each(e.columns, ColumnOf),
               primary_key  |-> NamesOf(e.primary_key),
               foreign_keys |-> Each(e.foreign_keys, ForeignKeyOf),
               indexes      |-> Each(e.indexes, IndexOf)]

RuleOf(e) == [table |-> e.table, required_columns |-> NamesOf(e.required_columns)]

PolicyOf(p) == IF p = None THEN "ignore" ELSE p

SettingsOf(v) ==
    IF v.is = "null"
    THEN DefaultSettings
    ELSE [unexpected_tables  |-> PolicyOf(v.unexpected_tables),
          unexpected_columns |-> PolicyOf(v.unexpected_columns)]

ContractOf(doc) == [structure |-> Each(doc.structure, TableOf),
                    audit     |-> Each(doc.audit, RuleOf),
                    settings  |-> SettingsOf(doc.settings)]
=============================================================================
