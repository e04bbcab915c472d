--------------------------- MODULE ReleasesProofs ---------------------------
(***************************************************************************)
(* What `datagate diff` keeps through any number of releases, for any set  *)
(* of contract documents.                                                  *)
(***************************************************************************)
EXTENDS Releases, CountingLemmas

\* What one comparison with exit code 0 guarantees, on what the differ sees.
KeepsColumns(old, new) ==
    \A t \in DOMAIN old :
        /\ t \in DOMAIN new
        /\ \A c \in DOMAIN old[t] :
              /\ c \in DOMAIN new[t]
              /\ Nullable(old[t][c]) => Nullable(new[t][c])

SameTypes(old, new, columns) ==
    \A x \in columns :
        /\ x[1] \in DOMAIN old /\ x[2] \in DOMAIN old[x[1]]
        /\ x[1] \in DOMAIN new /\ x[2] \in DOMAIN new[x[1]]
        /\ new[x[1]][x[2]].type # None
        /\ new[x[1]][x[2]].type = old[x[1]][x[2]].type

Chain ==
    /\ first \in Documents /\ released \in Documents
    /\ KeepsColumns(IndexTables(first), IndexTables(released))
    /\ SameTypes(IndexTables(first), IndexTables(released), typed)

-----------------------------------------------------------------------------
(* The differ *)

LEMMA NothingBreakingKeeps ==
    ASSUME NEW old, NEW new, "breaking" \notin Impacts(Changes(old, new))
    PROVE  KeepsColumns(old, new)
  <1>1. \A x \in Changes(old, new) : x.impact # "breaking"
    BY DEF Impacts
  <1>2. ASSUME NEW t \in DOMAIN old
        PROVE  t \in DOMAIN new
    <2>1. SUFFICES ASSUME t \notin DOMAIN new
                   PROVE  FALSE
      OBVIOUS
    <2>2. Change("removed_table", "breaking", <<t>>, "") \in Changes(old, new)
      BY <2>1 DEF Changes, TableChanges
    <2> QED
      BY <1>1, <2>2 DEF Change
  <1>3. ASSUME NEW t \in DOMAIN old, NEW c \in DOMAIN old[t]
        PROVE  c \in DOMAIN new[t]
    <2>1. SUFFICES ASSUME c \notin DOMAIN new[t]
                   PROVE  FALSE
      OBVIOUS
    <2>2. Change("removed_column", "breaking", <<t, c>>, "") \in ColumnChanges(t, old[t], new[t])
      BY <2>1 DEF ColumnChanges, RemovedColumns
    <2>3. Change("removed_column", "breaking", <<t, c>>, "") \in Changes(old, new)
      BY <1>2, <2>2 DEF Changes
    <2> QED
      BY <1>1, <2>3 DEF Change
  <1>4. ASSUME NEW t \in DOMAIN old, NEW c \in DOMAIN old[t],
               Nullable(old[t][c]), ~Nullable(new[t][c])
        PROVE  FALSE
    <2> DEFINE change == Change("modified_column", "breaking", <<t, c>>, "nullable")
    <2>1. change \in NullabilityChange(<<t, c>>, old[t][c], new[t][c])
      BY <1>4 DEF NullabilityChange
    <2>2. change \in ColumnChanges(t, old[t], new[t])
      BY <1>3, <2>1 DEF ColumnChanges, ModifiedColumn
    <2>3. change \in Changes(old, new)
      BY <1>2, <2>2 DEF Changes
    <2> QED
      BY <1>1, <2>3 DEF Change
  <1> QED
    BY <1>2, <1>3, <1>4 DEF KeepsColumns

LEMMA NothingBreakingTypes ==
    ASSUME NEW old, NEW new, "breaking" \notin Impacts(Changes(old, new)),
           NEW t \in DOMAIN old, NEW c \in DOMAIN old[t],
           old[t][c].type # None, new[t][c].type # None
    PROVE  new[t][c].type = old[t][c].type
  <1>1. t \in DOMAIN new /\ c \in DOMAIN new[t]
    BY NothingBreakingKeeps DEF KeepsColumns
  <1>2. SUFFICES ASSUME new[t][c].type # old[t][c].type
                 PROVE  FALSE
    OBVIOUS
  <1> DEFINE change == Change("modified_column", "breaking", <<t, c>>, "type")
  <1>3. change \in TypeChange(<<t, c>>, old[t][c], new[t][c])
    BY <1>2 DEF TypeChange
  <1>4. change \in ColumnChanges(t, old[t], new[t])
    BY <1>1, <1>3 DEF ColumnChanges, ModifiedColumn
  <1>5. change \in Changes(old, new)
    BY <1>1, <1>4 DEF Changes
  <1> QED
    BY <1>5 DEF Impacts, Change

LEMMA LetThrough ==
    ASSUME NEW source, NEW target, DiffExit(source, target) = 0
    PROVE  "breaking" \notin Impacts(Changes(IndexTables(source), IndexTables(target)))
  BY DEF DiffExit

LEMMA ReleaseKeepsChain ==
    ASSUME Chain, NEW candidate \in Documents, Release(candidate)
    PROVE  Chain'
  <1> DEFINE a == IndexTables(first)
             b == IndexTables(released)
             c == IndexTables(candidate)
  <1>1. "breaking" \notin Impacts(Changes(b, c))
    BY LetThrough DEF Release
  <1>2. KeepsColumns(a, c)
    BY <1>1, NothingBreakingKeeps DEF Chain, KeepsColumns
  <1>3. SameTypes(a, c, typed \cap TypedColumns(candidate))
    <2> SUFFICES ASSUME NEW x \in typed, x \in TypedColumns(candidate)
                 PROVE  /\ x[1] \in DOMAIN a /\ x[2] \in DOMAIN a[x[1]]
                        /\ x[1] \in DOMAIN c /\ x[2] \in DOMAIN c[x[1]]
                        /\ c[x[1]][x[2]].type # None
                        /\ c[x[1]][x[2]].type = a[x[1]][x[2]].type
      BY DEF SameTypes
    <2>1. /\ x[1] \in DOMAIN a /\ x[2] \in DOMAIN a[x[1]]
          /\ x[1] \in DOMAIN b /\ x[2] \in DOMAIN b[x[1]]
          /\ b[x[1]][x[2]].type # None
          /\ b[x[1]][x[2]].type = a[x[1]][x[2]].type
      BY DEF Chain, SameTypes
    <2>2. /\ x[1] \in DOMAIN c /\ x[2] \in DOMAIN c[x[1]]
          /\ c[x[1]][x[2]].type # None
      BY DEF TypedColumns
    <2> HIDE DEF a, b, c
    <2>3. c[x[1]][x[2]].type = b[x[1]][x[2]].type
      BY <1>1, <2>1, <2>2, NothingBreakingTypes
    <2> QED
      BY <2>1, <2>2, <2>3
  <1> QED
    BY <1>2, <1>3 DEF Release, Chain

LEMMA ChainHolds == Spec => []Chain
  <1>1. Init => Chain
    BY ReleasesAssumption DEF Init, Chain, KeepsColumns, SameTypes, TypedColumns
  <1>2. Chain /\ [Next]_vars => Chain'
    <2>1. Chain /\ UNCHANGED vars => Chain'
      BY DEF Chain, vars
    <2> QED
      BY <2>1, ReleaseKeepsChain DEF Next
  <1> QED
    BY <1>1, <1>2, PTL DEF Spec

-----------------------------------------------------------------------------
(* The documents that load are what the differ sees. *)

LEMMA MaxIsMember ==
    ASSUME NEW n \in Nat, NEW S, S \subseteq 1..n, S # {}
    PROVE  Max(S) \in S
  <1> DEFINE Bounds == {b \in Nat : \A x \in S : x <= b}
  <1>1. n \in Bounds
    OBVIOUS
  <1>2. PICK b \in Bounds : \A d \in Bounds : b <= d
    BY <1>1, SmallestExists
  <1>3. b \in S
    <2>1. SUFFICES ASSUME b \notin S
                   PROVE  FALSE
      OBVIOUS
    <2>2. PICK x \in S : x <= b
      OBVIOUS
    <2>3. b - 1 \in Nat
      BY <2>2
    <2>4. b - 1 \in Bounds
      BY <2>1, <2>3
    <2> QED
      BY <1>2, <2>4
  <1>4. \E m \in S : \A x \in S : m >= x
    BY <1>3
  <1> QED
    BY <1>4 DEF Max

LEMMA NothingRaised ==
    ASSUME NEW endings, DOMAIN endings \subseteq Nat, Ending(endings) = "contract"
    PROVE  \A i \in DOMAIN endings : endings[i] = "contract"
  <1> DEFINE raised == {i \in DOMAIN endings : endings[i] # "contract"}
  <1>1. SUFFICES ASSUME raised # {}
                 PROVE  FALSE
    OBVIOUS
  <1>2. \E p \in raised : \A q \in raised : p <= q
    BY <1>1, SmallestExists
  <1>3. Min(raised) \in raised
    BY <1>2 DEF Min
  <1>4. ~ \A i \in DOMAIN endings : endings[i] = "contract"
    BY <1>1
  <1>5. Ending(endings) = endings[Min(raised)]
    BY <1>4, Zenon DEF Ending
  <1> QED
    BY <1>3, <1>5

\* The lists of a document.
LEMMA ListsOfDocument ==
    ASSUME NEW doc \in Documents
    PROVE  /\ IsList(doc.structure)
           /\ \A i \in DOMAIN Items(doc.structure) :
                 FitsTable(Items(doc.structure)[i])
           /\ \A i \in DOMAIN Items(doc.structure) :
                 Items(doc.structure)[i].is = "map" => IsList(Items(doc.structure)[i].columns)
  BY ReleasesAssumption DEF IsDocument, ListOf, FitsTable

\* The items of a value that is read as a list.
LEMMA ItemsAreNumbered ==
    ASSUME NEW v, IsList(v)
    PROVE  \E n \in Nat : DOMAIN Items(v) = 1..n
  <1>1. CASE v.is = "list"
    <2>1. v.items \in Seq(Range(v.items))
      BY <1>1 DEF IsList
    <2>2. DOMAIN v.items = 1..Len(v.items) /\ Len(v.items) \in Nat
      BY <2>1
    <2> QED
      BY <1>1, <2>2 DEF Items
  <1>2. CASE v.is # "list"
    <2>1. DOMAIN Items(v) = 1..0
      BY <1>2 DEF Items
    <2> QED
      BY <2>1
  <1> QED
    BY <1>1, <1>2

LEMMA ColumnIsRead ==
    ASSUME NEW e, ReadColumn(e) = "contract"
    PROVE  IsColumn(e)
  BY DEF ReadColumn, IsColumn

LEMMA TableIsRead ==
    ASSUME NEW e, ReadTable(e) = "contract"
    PROVE  e.is = "map" /\ e.name # None /\ ReadEntries(e.columns, ReadColumn) = "contract"
  <1> DEFINE parts == <<ReadEntries(e.columns, ReadColumn), ReadNames(e.primary_key),
                        ReadEntries(e.foreign_keys, ReadForeignKey),
                        ReadEntries(e.indexes, ReadIndex)>>
  <1>1. e.is = "map" /\ e.name # None
    BY DEF ReadTable
  <1>2. Ending(parts) = "contract"
    BY <1>1 DEF ReadTable
  <1>3. DOMAIN parts = 1..4
    OBVIOUS
  <1>4. parts[1] = "contract"
    <2> HIDE DEF parts
    <2> QED
      BY <1>2, <1>3, NothingRaised
  <1> QED
    BY <1>1, <1>4

LEMMA ColumnsAreRead ==
    ASSUME NEW v, IsList(v), ReadEntries(v, ReadColumn) = "contract"
    PROVE  /\ Iterate(v) = Items(v)
           /\ \A i \in DOMAIN Items(v) : IsColumn(Items(v)[i])
  <1> DEFINE endings == [i \in DOMAIN Items(v) |-> ReadColumn(Items(v)[i])]
  <1>1. v.is \in {"null", "list"}
    BY DEF ReadEntries
  <1>2. Ending(endings) = "contract"
    BY <1>1 DEF ReadEntries
  <1>3. DOMAIN endings \subseteq Nat
    BY ItemsAreNumbered
  <1>4. \A i \in DOMAIN Items(v) : ReadColumn(Items(v)[i]) = "contract"
    <2>1. \A i \in DOMAIN endings : endings[i] = "contract"
      <3> HIDE DEF endings
      <3> QED
        BY <1>2, <1>3, NothingRaised
    <2> QED
      BY <2>1
  <1>5. \A i \in DOMAIN Items(v) : IsColumn(Items(v)[i])
    BY <1>4, ColumnIsRead
  <1> QED
    BY <1>1, <1>5 DEF Iterate, Items

LEMMA TablesAreRead ==
    ASSUME NEW doc \in Documents, Loads(doc)
    PROVE  /\ Iterate(doc.structure) = Items(doc.structure)
           /\ \A i \in DOMAIN Items(doc.structure) :
                 ReadTable(Items(doc.structure)[i]) = "contract"
  <1> DEFINE parts == <<Unless(doc.keyless, "bad_shape"), ReadNumber(doc.version),
                        ReadEntries(doc.structure, ReadTable),
                        ReadEntries(doc.audit, ReadRule), ReadSettings(doc.settings)>>
             endings == [i \in DOMAIN Items(doc.structure) |->
                            ReadTable(Items(doc.structure)[i])]
  <1>1. Ending(parts) = "contract"
    BY DEF Loads, Loading
  <1>2. parts[3] = "contract"
    <2>1. DOMAIN parts = 1..5
      OBVIOUS
    <2> HIDE DEF parts
    <2> QED
      BY <1>1, <2>1, NothingRaised
  <1>3. ReadEntries(doc.structure, ReadTable) = "contract"
    BY <1>2
  <1>4. doc.structure.is \in {"null", "list"}
    BY <1>3 DEF ReadEntries
  <1>5. Ending(endings) = "contract"
    BY <1>3, <1>4 DEF ReadEntries
  <1>6. DOMAIN endings \subseteq Nat
    BY ListsOfDocument, ItemsAreNumbered
  <1>7. \A i \in DOMAIN endings : endings[i] = "contract"
    <2> HIDE DEF endings
    <2> QED
      BY <1>5, <1>6, NothingRaised
  <1> QED
    BY <1>4, <1>7 DEF Iterate, Items

-----------------------------------------------------------------------------
(* The entry of the differ and the columns of the contract. *)

\* What the entry of a column says of its column specification.
Agree(spec, entry) ==
    /\ spec.nullable = entry.nullable
    /\ entry.type # None => spec.type = entry.type.base

\* The tables of the contract, and the columns of a table entry.
TablesOf(doc) == ContractOf(doc).structure

ColumnsOf(v) == Each(v, ColumnOf)

LEMMA ColumnAgrees ==
    ASSUME NEW e, IsColumn(e)
    PROVE  ColumnOf(e).name = EntryName(e) /\ Agree(ColumnOf(e), AsEntry(e))
  <1>1. CASE e.is = "text"
    BY <1>1 DEF ColumnOf, EntryName, AsEntry, Agree
  <1>2. CASE e.is = "map"
    <2>1. e.type # None => SplitType(e.type).type = e.type.base
      BY DEF SplitType
    <2> QED
      BY <1>2, <2>1 DEF ColumnOf, EntryName, AsEntry, Agree
  <1> QED
    BY <1>1, <1>2 DEF IsColumn

LEMMA OnlyOne ==
    ASSUME NEW i \in Nat
    PROVE  Max({i}) = i
  BY DEF Max

\* The columns the differ finds in the entry of a table.
LEMMA ColumnsIndexed ==
    ASSUME NEW v, IsList(v), ReadEntries(v, ReadColumn) = "contract"
    PROVE  /\ DOMAIN IndexColumns(v) = {ColumnsOf(v)[j].name : j \in DOMAIN ColumnsOf(v)}
           /\ \A c \in DOMAIN IndexColumns(v) : \E j \in DOMAIN ColumnsOf(v) :
                 ColumnsOf(v)[j].name = c /\ Agree(ColumnsOf(v)[j], IndexColumns(v)[c])
           /\ (\A i, j \in DOMAIN ColumnsOf(v) : ColumnsOf(v)[i].name = ColumnsOf(v)[j].name => i = j)
                => \A j \in DOMAIN ColumnsOf(v) :
                      Agree(ColumnsOf(v)[j], IndexColumns(v)[ColumnsOf(v)[j].name])
  <1> DEFINE columns  == ColumnsOf(v)
             entries  == Items(v)
             named(c) == {j \in DOMAIN entries : IsColumn(entries[j]) /\ EntryName(entries[j]) = c}
  <1>1. Iterate(v) = entries /\ \A j \in DOMAIN entries : IsColumn(entries[j])
    BY ColumnsAreRead
  <1>2. PICK n \in Nat : DOMAIN entries = 1..n
    BY ItemsAreNumbered
  <1>3. /\ DOMAIN columns = DOMAIN entries
        /\ \A j \in DOMAIN entries : columns[j] = ColumnOf(entries[j])
    BY DEF ColumnsOf, Each
  <1>4. \A j \in DOMAIN entries : /\ columns[j].name = EntryName(entries[j])
                                  /\ Agree(columns[j], AsEntry(entries[j]))
    BY <1>1, <1>3, ColumnAgrees
  <1>5. NamesIn(entries, IsColumn) = {columns[j].name : j \in DOMAIN columns}
    BY <1>1, <1>3, <1>4 DEF NamesIn
  <1>6. IndexColumns(v) = [c \in NamesIn(entries, IsColumn) |-> AsEntry(entries[Max(named(c))])]
    BY <1>1 DEF IndexColumns, LastNamed
  <1>7. ASSUME NEW c \in DOMAIN IndexColumns(v)
        PROVE  \E j \in DOMAIN columns :
                  columns[j].name = c /\ Agree(columns[j], IndexColumns(v)[c])
    <2>1. named(c) # {}
      BY <1>1, <1>3, <1>4, <1>5, <1>6
    <2>2. Max(named(c)) \in named(c)
      BY <1>2, <2>1, MaxIsMember
    <2>3. IndexColumns(v)[c] = AsEntry(entries[Max(named(c))])
      BY <1>6
    <2> QED
      BY <1>3, <1>4, <2>2, <2>3
  <1>8. ASSUME \A i, j \in DOMAIN columns : columns[i].name = columns[j].name => i = j,
               NEW j \in DOMAIN columns
        PROVE  Agree(columns[j], IndexColumns(v)[columns[j].name])
    <2>1. named(columns[j].name) = {j}
      BY <1>1, <1>3, <1>4, <1>8
    <2>2. Max(named(columns[j].name)) = j
      BY <1>2, <1>3, <2>1, OnlyOne
    <2>3. columns[j].name \in DOMAIN IndexColumns(v)
      BY <1>5, <1>6
    <2>4. IndexColumns(v)[columns[j].name] = AsEntry(entries[Max(named(columns[j].name))])
      BY <1>6, <2>3
    <2>5. IndexColumns(v)[columns[j].name] = AsEntry(entries[j])
      BY <2>2, <2>4
    <2> QED
      BY <1>3, <1>4, <2>5
  <1> QED
    BY <1>5, <1>6, <1>7, <1>8

\* What is needed of the table entries of a document that loads.
LEMMA TablesAreNumbered ==
    ASSUME NEW doc \in Documents, Loads(doc)
    PROVE  LET entries == Items(doc.structure)
           IN  /\ \E n \in Nat : DOMAIN entries = 1..n
               /\ Iterate(doc.structure) = entries
               /\ \A i \in DOMAIN entries :
                     /\ IsTable(entries[i]) /\ EntryName(entries[i]) = entries[i].name
                     /\ IsList(entries[i].columns)
                     /\ ReadEntries(entries[i].columns, ReadColumn) = "contract"
  <1> DEFINE entries == Items(doc.structure)
  <1>1. \A i \in DOMAIN entries :
           /\ entries[i].is = "map" /\ entries[i].name # None
           /\ ReadEntries(entries[i].columns, ReadColumn) = "contract"
    BY TablesAreRead, TableIsRead
  <1>2. \A i \in DOMAIN entries : IsList(entries[i].columns)
    BY <1>1, ListsOfDocument
  <1>3. \E n \in Nat : DOMAIN entries = 1..n
    BY ListsOfDocument, ItemsAreNumbered
  <1> QED
    BY <1>1, <1>2, <1>3, TablesAreRead DEF IsTable, EntryName

\* ... and of the typed contract.
LEMMA TablesOfContract ==
    ASSUME NEW doc \in Documents, Loads(doc)
    PROVE  /\ DOMAIN TablesOf(doc) = DOMAIN Items(doc.structure)
           /\ \A i \in DOMAIN TablesOf(doc) :
                 /\ TablesOf(doc)[i].name = Items(doc.structure)[i].name
                 /\ TablesOf(doc)[i].columns = ColumnsOf(Items(doc.structure)[i].columns)
  BY DEF TablesOf, ColumnsOf, ContractOf, Each, TableOf

\* The tables the differ finds in a document that loads.
LEMMA TablesIndexed ==
    ASSUME NEW doc \in Documents, Loads(doc)
    PROVE  /\ DOMAIN IndexTables(doc) = {TablesOf(doc)[i].name : i \in DOMAIN TablesOf(doc)}
           /\ \A t \in DOMAIN IndexTables(doc) : \E i \in DOMAIN TablesOf(doc) :
                 /\ TablesOf(doc)[i].name = t
                 /\ IndexTables(doc)[t] = IndexColumns(Items(doc.structure)[i].columns)
           /\ (\A i, j \in DOMAIN TablesOf(doc) : TablesOf(doc)[i].name = TablesOf(doc)[j].name => i = j)
                => \A i \in DOMAIN TablesOf(doc) :
                      IndexTables(doc)[TablesOf(doc)[i].name] = IndexColumns(Items(doc.structure)[i].columns)
  <1> DEFINE tables   == TablesOf(doc)
             entries  == Items(doc.structure)
             named(t) == {i \in DOMAIN entries : IsTable(entries[i]) /\ EntryName(entries[i]) = t}
  <1>1. PICK n \in Nat : DOMAIN entries = 1..n
    BY TablesAreNumbered
  <1>2. \A i \in DOMAIN entries : IsTable(entries[i]) /\ EntryName(entries[i]) = entries[i].name
    BY TablesAreNumbered
  <1>3. Iterate(doc.structure) = entries
    BY TablesAreNumbered
  <1>4. /\ DOMAIN tables = DOMAIN entries
        /\ \A i \in DOMAIN entries : tables[i].name = entries[i].name
    BY TablesOfContract
  <1>5. NamesIn(entries, IsTable) = {tables[i].name : i \in DOMAIN tables}
    BY <1>2, <1>4 DEF NamesIn
  <1>6. IndexTables(doc) = [t \in NamesIn(entries, IsTable) |->
                               IndexColumns(entries[Max(named(t))].columns)]
    BY <1>3 DEF IndexTables, LastNamed
  <1>7. ASSUME NEW t \in DOMAIN IndexTables(doc)
        PROVE  \E i \in DOMAIN tables :
                  tables[i].name = t /\ IndexTables(doc)[t] = IndexColumns(entries[i].columns)
    <2>1. named(t) # {}
      BY <1>2, <1>4, <1>5, <1>6
    <2>2. Max(named(t)) \in named(t)
      BY <1>1, <2>1, MaxIsMember
    <2>3. IndexTables(doc)[t] = IndexColumns(entries[Max(named(t))].columns)
      BY <1>6
    <2> QED
      BY <1>2, <1>4, <2>2, <2>3
  <1>8. ASSUME \A i, j \in DOMAIN tables : tables[i].name = tables[j].name => i = j,
               NEW i \in DOMAIN tables
        PROVE  IndexTables(doc)[tables[i].name] = IndexColumns(entries[i].columns)
    <2>1. named(tables[i].name) = {i}
      BY <1>2, <1>4, <1>8
    <2>2. Max(named(tables[i].name)) = i
      BY <1>1, <1>4, <2>1, OnlyOne
    <2>3. tables[i].name \in DOMAIN IndexTables(doc)
      BY <1>5, <1>6
    <2> QED
      BY <1>6, <2>2, <2>3
  <1> QED
    BY <1>5, <1>6, <1>7, <1>8

\* A column that the contract declares once is the one the differ compares.
LEMMA DeclaredIsIndexed ==
    ASSUME NEW doc \in Documents, Loads(doc), DeclaredOnce(doc),
           NEW t, NEW c, NEW spec \in Specs(doc, t, c)
    PROVE  /\ t \in DOMAIN IndexTables(doc) /\ c \in DOMAIN IndexTables(doc)[t]
           /\ Agree(spec, IndexTables(doc)[t][c])
  <1> DEFINE entries == Items(doc.structure)
             tables  == TablesOf(doc)
  <1>0. /\ DOMAIN tables = DOMAIN entries
        /\ \A i \in DOMAIN tables :
              /\ tables[i].columns = ColumnsOf(entries[i].columns)
              /\ IsList(entries[i].columns)
              /\ ReadEntries(entries[i].columns, ReadColumn) = "contract"
    BY TablesOfContract, TablesAreNumbered
  <1>1. PICK i \in DOMAIN tables :
           /\ tables[i].name = t
           /\ \E j \in DOMAIN tables[i].columns :
                 tables[i].columns[j].name = c /\ spec = tables[i].columns[j]
    BY DEF Specs, TablesOf
  <1>2. PICK j \in DOMAIN tables[i].columns :
           tables[i].columns[j].name = c /\ spec = tables[i].columns[j]
    BY <1>1
  <1>3. /\ \A k, l \in DOMAIN tables : tables[k].name = tables[l].name => k = l
        /\ \A k, l \in DOMAIN tables[i].columns :
              tables[i].columns[k].name = tables[i].columns[l].name => k = l
    BY DEF DeclaredOnce, TablesOf
  <1>4. tables[i].columns = ColumnsOf(entries[i].columns)
    BY <1>0
  <1>5. /\ IsList(entries[i].columns)
        /\ ReadEntries(entries[i].columns, ReadColumn) = "contract"
    BY <1>0
  <1>6. /\ t \in DOMAIN IndexTables(doc)
        /\ IndexTables(doc)[t] = IndexColumns(entries[i].columns)
    <2>1. DOMAIN IndexTables(doc) = {tables[k].name : k \in DOMAIN tables}
      BY TablesIndexed
    <2>2. \A k \in DOMAIN tables :
             IndexTables(doc)[tables[k].name] = IndexColumns(entries[k].columns)
      BY <1>3, TablesIndexed
    <2> QED
      BY <1>1, <2>1, <2>2
  <1> DEFINE columns == ColumnsOf(entries[i].columns)
             indexed == IndexColumns(entries[i].columns)
  <1>7. /\ DOMAIN indexed = {columns[k].name : k \in DOMAIN columns}
        /\ \A k \in DOMAIN columns : Agree(columns[k], indexed[columns[k].name])
    <2>1. \A k, l \in DOMAIN columns : columns[k].name = columns[l].name => k = l
      BY <1>3, <1>4
    <2> QED
      BY <1>5, <2>1, ColumnsIndexed
  <1> QED
    BY <1>2, <1>4, <1>6, <1>7

\* What the differ compares is declared in the contract.
LEMMA IndexedIsDeclared ==
    ASSUME NEW doc \in Documents, Loads(doc),
           NEW t \in DOMAIN IndexTables(doc), NEW c \in DOMAIN IndexTables(doc)[t]
    PROVE  \E spec \in Specs(doc, t, c) : Agree(spec, IndexTables(doc)[t][c])
  <1> DEFINE entries == Items(doc.structure)
             tables  == TablesOf(doc)
  <1>0. /\ DOMAIN tables = DOMAIN entries
        /\ \A i \in DOMAIN tables :
              /\ tables[i].columns = ColumnsOf(entries[i].columns)
              /\ IsList(entries[i].columns)
              /\ ReadEntries(entries[i].columns, ReadColumn) = "contract"
    BY TablesOfContract, TablesAreNumbered
  <1>1. PICK i \in DOMAIN tables :
           /\ tables[i].name = t
           /\ IndexTables(doc)[t] = IndexColumns(entries[i].columns)
    BY TablesIndexed
  <1>2. tables[i].columns = ColumnsOf(entries[i].columns)
    BY <1>0
  <1>3. /\ IsList(entries[i].columns)
        /\ ReadEntries(entries[i].columns, ReadColumn) = "contract"
    BY <1>0
  <1>4. PICK j \in DOMAIN tables[i].columns :
           tables[i].columns[j].name = c /\ Agree(tables[i].columns[j], IndexTables(doc)[t][c])
    <2> DEFINE columns == ColumnsOf(entries[i].columns)
               indexed == IndexColumns(entries[i].columns)
    <2>1. c \in DOMAIN indexed
      BY <1>1
    <2>2. \E j \in DOMAIN columns : columns[j].name = c /\ Agree(columns[j], indexed[c])
      BY <1>3, <2>1, ColumnsIndexed
    <2> QED
      BY <1>1, <1>2, <2>2
  <1>5. tables[i].columns[j] \in Specs(doc, t, c)
    BY <1>1, <1>4 DEF Specs, TablesOf
  <1> QED
    BY <1>4, <1>5

\* A column that is declared once has one entry.
LEMMA OneEntry ==
    ASSUME NEW doc, DeclaredOnce(doc), NEW t, NEW c,
           NEW one \in Specs(doc, t, c), NEW other \in Specs(doc, t, c)
    PROVE  one = other
  <1> DEFINE tables == ContractOf(doc).structure
  <1>1. PICK i \in DOMAIN tables :
           tables[i].name = t /\ \E j \in DOMAIN tables[i].columns :
               tables[i].columns[j].name = c /\ one = tables[i].columns[j]
    BY DEF Specs
  <1>2. PICK k \in DOMAIN tables :
           tables[k].name = t /\ \E j \in DOMAIN tables[k].columns :
               tables[k].columns[j].name = c /\ other = tables[k].columns[j]
    BY DEF Specs
  <1>3. /\ \A x, y \in DOMAIN tables : tables[x].name = tables[y].name => x = y
        /\ \A x, y \in DOMAIN tables[i].columns :
              tables[i].columns[x].name = tables[i].columns[y].name => x = y
    BY DEF DeclaredOnce
  <1>4. i = k
    BY <1>1, <1>2, <1>3
  <1> HIDE DEF tables
  <1> QED
    BY <1>1, <1>2, <1>3, <1>4

-----------------------------------------------------------------------------
(* Theorems *)

\* After any number of releases that `datagate diff` let through, each two of
\* which it compared, what the first contract declares is still declared, and
\* a column that could be left NULL still can (differ.py:156, 178) -- where
\* neither the first nor the last release declares a name twice.
THEOREM ReadersAreKept == Spec => []ReadersKept
  <1>1. Chain => ReadersKept
    <2> SUFFICES ASSUME Chain, Loads(first), DeclaredOnce(first),
                        Loads(released), DeclaredOnce(released)
                 PROVE  /\ DeclaredTables(ContractOf(first)) \subseteq DeclaredTables(ContractOf(released))
                        /\ \A t, c \in Names : Specs(first, t, c) # {} =>
                              /\ Specs(released, t, c) # {}
                              /\ \A before \in Specs(first, t, c), after \in Specs(released, t, c) :
                                    before.nullable # FALSE => after.nullable # FALSE
      BY DEF ReadersKept, ReadOneWay
    <2>1. first \in Documents /\ released \in Documents
      BY DEF Chain
    <2>2. KeepsColumns(IndexTables(first), IndexTables(released))
      BY DEF Chain
    <2>3. \A doc \in {first, released} :
             DeclaredTables(ContractOf(doc)) = DOMAIN IndexTables(doc)
      <3>1. ASSUME NEW doc \in Documents, Loads(doc)
            PROVE  DeclaredTables(ContractOf(doc)) = DOMAIN IndexTables(doc)
        <4>1. DOMAIN IndexTables(doc) = {TablesOf(doc)[k].name : k \in DOMAIN TablesOf(doc)}
          BY <3>1, TablesIndexed
        <4> QED
          BY <4>1 DEF DeclaredTables, TablesOf
      <3> QED
        BY <2>1, <3>1
    <2>4. ASSUME NEW t, NEW c, NEW before \in Specs(first, t, c)
          PROVE  /\ Specs(released, t, c) # {}
                 /\ \A after \in Specs(released, t, c) :
                       before.nullable # FALSE => after.nullable # FALSE
      <3>1. /\ t \in DOMAIN IndexTables(first) /\ c \in DOMAIN IndexTables(first)[t]
            /\ Agree(before, IndexTables(first)[t][c])
        BY <2>1, DeclaredIsIndexed
      <3>2. /\ t \in DOMAIN IndexTables(released) /\ c \in DOMAIN IndexTables(released)[t]
            /\ Nullable(IndexTables(first)[t][c]) => Nullable(IndexTables(released)[t][c])
        BY <2>2, <3>1 DEF KeepsColumns
      <3>3. PICK spec \in Specs(released, t, c) : Agree(spec, IndexTables(released)[t][c])
        BY <2>1, <3>2, IndexedIsDeclared
      <3>4. \A after \in Specs(released, t, c) : after = spec
        BY OneEntry
      <3>5. before.nullable # FALSE => spec.nullable # FALSE
        BY <3>1, <3>2, <3>3 DEF Agree, Nullable
      <3> QED
        BY <3>3, <3>4, <3>5
    <2> QED
      BY <2>2, <2>3, <2>4 DEF KeepsColumns
  <1> QED
    BY <1>1, ChainHolds, PTL

\* A column for which every release wrote a type has the type of the first one
\* (differ.py:185): the type can change only through a release that leaves it
\* out -- where neither the first nor the last release declares a name twice.
THEOREM TypesAreKept == Spec => []TypesKept
  <1>1. Chain => TypesKept
    <2> SUFFICES ASSUME Chain, Loads(first), DeclaredOnce(first),
                        Loads(released), DeclaredOnce(released),
                        NEW t \in Names, NEW c \in Names, <<t, c>> \in typed,
                        NEW before \in Specs(first, t, c), NEW after \in Specs(released, t, c)
                 PROVE  after.type = before.type
      BY DEF TypesKept, ReadOneWay
    <2> DEFINE old == IndexTables(first)
               new == IndexTables(released)
    <2>1. first \in Documents /\ released \in Documents
      BY DEF Chain
    <2>2. /\ t \in DOMAIN new /\ c \in DOMAIN new[t]
          /\ new[t][c].type # None /\ new[t][c].type = old[t][c].type
      BY DEF Chain, SameTypes
    <2>3. Agree(before, old[t][c])
      BY <2>1, DeclaredIsIndexed
    <2>4. Agree(after, new[t][c])
      BY <2>1, DeclaredIsIndexed
    <2> HIDE DEF old, new
    <2> QED
      BY <2>2, <2>3, <2>4 DEF Agree
  <1> QED
    BY <1>1, ChainHolds, PTL

-----------------------------------------------------------------------------
(* Additions *)

LEMMA ReadersAcceptIt ==
    ASSUME NEW doc \in Documents, Loads(doc)
    PROVE  ~doc.keyless /\ ~CannotIndex(doc)
  <1> DEFINE parts == <<Unless(doc.keyless, "bad_shape"), ReadNumber(doc.version),
                        ReadEntries(doc.structure, ReadTable),
                        ReadEntries(doc.audit, ReadRule), ReadSettings(doc.settings)>>
  <1>1. parts[1] = "contract" /\ parts[3] = "contract"
    <2>1. Ending(parts) = "contract"
      BY DEF Loads, Loading
    <2>2. DOMAIN parts = 1..5
      OBVIOUS
    <2> HIDE DEF parts
    <2> QED
      BY <2>1, <2>2, NothingRaised
  <1>2. ~doc.keyless
    BY <1>1 DEF Unless
  <1>3. doc.structure.is \in {"null", "list"}
    BY <1>1 DEF ReadEntries
  <1>4. Iterate(doc.structure) = Items(doc.structure)
    BY TablesAreRead
  <1>5. \A i \in DOMAIN Items(doc.structure) : Items(doc.structure)[i].columns.is \in {"null", "list"}
    BY TablesAreNumbered DEF ReadEntries
  <1> QED
    BY <1>2, <1>3, <1>4, <1>5 DEF CannotIndex

\* The entries behind what the differ finds in a list of columns.
LEMMA EntriesIndexed ==
    ASSUME NEW v, IsList(v), ReadEntries(v, ReadColumn) = "contract"
    PROVE  /\ \A c \in DOMAIN IndexColumns(v) : \E j \in DOMAIN Items(v) :
                 EntryName(Items(v)[j]) = c /\ IndexColumns(v)[c] = AsEntry(Items(v)[j])
           /\ (\A i, j \in DOMAIN ColumnsOf(v) : ColumnsOf(v)[i].name = ColumnsOf(v)[j].name => i = j)
                => \A j \in DOMAIN Items(v) :
                      /\ EntryName(Items(v)[j]) \in DOMAIN IndexColumns(v)
                      /\ IndexColumns(v)[EntryName(Items(v)[j])] = AsEntry(Items(v)[j])
  <1> DEFINE columns  == ColumnsOf(v)
             entries  == Items(v)
             named(c) == {j \in DOMAIN entries : IsColumn(entries[j]) /\ EntryName(entries[j]) = c}
  <1>1. Iterate(v) = entries /\ \A j \in DOMAIN entries : IsColumn(entries[j])
    BY ColumnsAreRead
  <1>2. PICK n \in Nat : DOMAIN entries = 1..n
    BY ItemsAreNumbered
  <1>3. /\ DOMAIN columns = DOMAIN entries
        /\ \A j \in DOMAIN entries : columns[j].name = EntryName(entries[j])
    BY <1>1, ColumnAgrees DEF ColumnsOf, Each
  <1>4. NamesIn(entries, IsColumn) = {EntryName(entries[j]) : j \in DOMAIN entries}
    BY <1>1 DEF NamesIn
  <1>5. IndexColumns(v) = [c \in NamesIn(entries, IsColumn) |-> AsEntry(entries[Max(named(c))])]
    BY <1>1 DEF IndexColumns, LastNamed
  <1>6. ASSUME NEW c \in DOMAIN IndexColumns(v)
        PROVE  \E j \in DOMAIN entries :
                  EntryName(entries[j]) = c /\ IndexColumns(v)[c] = AsEntry(entries[j])
    <2>1. named(c) # {}
      BY <1>1, <1>4, <1>5
    <2>2. Max(named(c)) \in named(c)
      BY <1>2, <2>1, MaxIsMember
    <2>3. IndexColumns(v)[c] = AsEntry(entries[Max(named(c))])
      BY <1>5
    <2> QED
      BY <2>2, <2>3
  <1>7. ASSUME \A i, j \in DOMAIN columns : columns[i].name = columns[j].name => i = j,
               NEW j \in DOMAIN entries
        PROVE  /\ EntryName(entries[j]) \in DOMAIN IndexColumns(v)
               /\ IndexColumns(v)[EntryName(entries[j])] = AsEntry(entries[j])
    <2>1. EntryName(entries[j]) \in DOMAIN IndexColumns(v)
      BY <1>4, <1>5
    <2>2. PICK i \in DOMAIN entries :
             /\ EntryName(entries[i]) = EntryName(entries[j])
             /\ IndexColumns(v)[EntryName(entries[j])] = AsEntry(entries[i])
      BY <1>6, <2>1
    <2>3. i = j
      BY <1>3, <1>7, <2>2
    <2> QED
      BY <2>1, <2>2, <2>3
  <1> QED
    BY <1>6, <1>7

\* What the differ finds in a document it finds in one that declares more.
LEMMA GrowthKeepsEntries ==
    ASSUME NEW old \in Documents, Loads(old), NEW new \in Documents, Loads(new),
           DeclaredOnce(new), Grows(old, new), NEW t \in DOMAIN IndexTables(old)
    PROVE  /\ t \in DOMAIN IndexTables(new)
           /\ \A c \in DOMAIN IndexTables(old)[t] :
                 /\ c \in DOMAIN IndexTables(new)[t]
                 /\ IndexTables(new)[t][c] = IndexTables(old)[t][c]
  <1> DEFINE before == Items(old.structure)
             after  == Items(new.structure)
  <1>1. PICK i \in DOMAIN before :
           before[i].name = t /\ IndexTables(old)[t] = IndexColumns(before[i].columns)
    <2>1. \E i \in DOMAIN TablesOf(old) :
             TablesOf(old)[i].name = t /\ IndexTables(old)[t] = IndexColumns(before[i].columns)
      BY TablesIndexed
    <2>2. /\ DOMAIN TablesOf(old) = DOMAIN before
          /\ \A i \in DOMAIN before : TablesOf(old)[i].name = before[i].name
      BY TablesOfContract
    <2> QED
      BY <2>1, <2>2
  <1>2. PICK k \in DOMAIN after :
           /\ after[k].name = t
           /\ ToSet(Items(before[i].columns)) \subseteq ToSet(Items(after[k].columns))
    BY <1>1 DEF Grows
  <1>3. /\ DOMAIN TablesOf(new) = DOMAIN after
        /\ TablesOf(new)[k].name = t
        /\ TablesOf(new)[k].columns = ColumnsOf(after[k].columns)
    BY <1>2, TablesOfContract
  <1>4. /\ \A i1, i2 \in DOMAIN TablesOf(new) : TablesOf(new)[i1].name = TablesOf(new)[i2].name => i1 = i2
        /\ \A j1, j2 \in DOMAIN TablesOf(new)[k].columns :
              TablesOf(new)[k].columns[j1].name = TablesOf(new)[k].columns[j2].name => j1 = j2
    BY <1>3 DEF DeclaredOnce, TablesOf
  <1>5. t \in DOMAIN IndexTables(new) /\ IndexTables(new)[t] = IndexColumns(after[k].columns)
    <2>1. DOMAIN IndexTables(new) = {TablesOf(new)[j].name : j \in DOMAIN TablesOf(new)}
      BY TablesIndexed
    <2>2. \A j \in DOMAIN TablesOf(new) :
             IndexTables(new)[TablesOf(new)[j].name] = IndexColumns(after[j].columns)
      BY <1>4, TablesIndexed
    <2> QED
      BY <1>3, <2>1, <2>2
  <1>6. /\ IsList(before[i].columns) /\ ReadEntries(before[i].columns, ReadColumn) = "contract"
        /\ IsList(after[k].columns) /\ ReadEntries(after[k].columns, ReadColumn) = "contract"
    BY TablesAreNumbered
  <1>7. ASSUME NEW c \in DOMAIN IndexColumns(before[i].columns)
        PROVE  /\ c \in DOMAIN IndexColumns(after[k].columns)
               /\ IndexColumns(after[k].columns)[c] = IndexColumns(before[i].columns)[c]
    <2> DEFINE olds == Items(before[i].columns)
               news == Items(after[k].columns)
    <2>1. PICK j \in DOMAIN olds :
             EntryName(olds[j]) = c /\ IndexColumns(before[i].columns)[c] = AsEntry(olds[j])
      BY <1>6, EntriesIndexed
    <2>2. PICK l \in DOMAIN news : news[l] = olds[j]
      BY <1>2 DEF ToSet
    <2>3. \A m \in DOMAIN news :
             /\ EntryName(news[m]) \in DOMAIN IndexColumns(after[k].columns)
             /\ IndexColumns(after[k].columns)[EntryName(news[m])] = AsEntry(news[m])
      BY <1>3, <1>4, <1>6, EntriesIndexed
    <2> QED
      BY <2>1, <2>2, <2>3
  <1> QED
    BY <1>1, <1>5, <1>7

\* Nothing is breaking when nothing is gone and nothing is different.
LEMMA KeptIsSafe ==
    ASSUME NEW old, NEW new,
           \A t \in DOMAIN old : /\ t \in DOMAIN new
                                 /\ \A c \in DOMAIN old[t] :
                                       c \in DOMAIN new[t] /\ new[t][c] = old[t][c]
    PROVE  "breaking" \notin Impacts(Changes(old, new))
  <1> SUFFICES ASSUME NEW x \in Changes(old, new)
               PROVE  x.impact # "breaking"
    BY DEF Impacts
  <1>1. CASE x \in TableChanges(old, new)
    <2>1. PICK t \in DOMAIN new : x = Change("added_table", "safe", <<t>>, "")
      BY <1>1 DEF TableChanges
    <2> QED
      BY <2>1 DEF Change
  <1>2. ASSUME NEW t \in DOMAIN old, x \in ColumnChanges(t, old[t], new[t])
        PROVE  x.impact # "breaking"
    <2>1. RemovedColumns(t, old[t], new[t]) = {}
      BY DEF RemovedColumns
    <2>2. ASSUME NEW c \in DOMAIN old[t]
          PROVE  ModifiedColumn(<<t, c>>, old[t][c], new[t][c]) = {}
      BY DEF ModifiedColumn, TypeChange, NullabilityChange, LimitChanges
    <2>3. x \in AddedColumns(t, old[t], new[t])
      BY <1>2, <2>1, <2>2 DEF ColumnChanges
    <2>4. PICK c \in DOMAIN new[t], impact \in {"safe", "warning"} :
             x = Change("added_column", impact, <<t, c>>, "")
      BY <2>3 DEF AddedColumns
    <2> QED
      BY <2>4 DEF Change
  <1> QED
    BY <1>1, <1>2 DEF Changes

\* A candidate that declares all that was declared, written the same way, and
\* more, passes the gate (differ.py:10).
THEOREM AdditionsPass == Spec => []AdditionsReleased
  <1>1. Chain => AdditionsReleased
    <2> SUFFICES ASSUME Chain, NEW candidate \in Documents, Loads(released), Loads(candidate),
                        DeclaredOnce(candidate), Grows(released, candidate)
                 PROVE  DiffExit(released, candidate) = 0
      BY DEF AdditionsReleased
    <2>1. released \in Documents
      BY DEF Chain
    <2>2. "breaking" \notin Impacts(Changes(IndexTables(released), IndexTables(candidate)))
      BY <2>1, GrowthKeepsEntries, KeptIsSafe
    <2>3. /\ ~released.keyless /\ ~CannotIndex(released)
          /\ ~candidate.keyless /\ ~CannotIndex(candidate)
      BY <2>1, ReadersAcceptIt
    <2> QED
      BY <2>2, <2>3 DEF DiffExit
  <1> QED
    BY <1>1, ChainHolds, PTL

-----------------------------------------------------------------------------
(* How reading a document ends. *)

Endings == {"contract", "bad_shape", "bad_number"}

LEMMA EndingIsOne ==
    ASSUME NEW endings, DOMAIN endings \subseteq Nat,
           \A i \in DOMAIN endings : endings[i] \in Endings
    PROVE  Ending(endings) \in Endings
  <1> DEFINE raised == {i \in DOMAIN endings : endings[i] # "contract"}
  <1>1. CASE \A i \in DOMAIN endings : endings[i] = "contract"
    BY <1>1 DEF Ending, Endings
  <1>2. CASE ~ \A i \in DOMAIN endings : endings[i] = "contract"
    <2>1. Ending(endings) = endings[Min(raised)]
      BY <1>2, Zenon DEF Ending
    <2>2. \E p \in raised : \A q \in raised : p <= q
      BY <1>2, SmallestExists
    <2>3. Min(raised) \in raised
      BY <2>2 DEF Min
    <2> QED
      BY <2>1, <2>3
  <1> QED
    BY <1>1, <1>2

\* The lists of a table entry are sequences.
LEMMA TableLists ==
    ASSUME NEW e, FitsTable(e), e.is = "map"
    PROVE  IsList(e.columns) /\ IsList(e.foreign_keys) /\ IsList(e.indexes)
  BY DEF FitsTable, ListOf

LEMMA ColumnEnds ==
    ASSUME NEW e
    PROVE  ReadColumn(e) \in Endings
  <1> DEFINE numbers == <<ReadNumber(e.limit["max_length"]), ReadNumber(e.limit["precision"]),
                          ReadNumber(e.limit["scale"])>>
  <1>1. DOMAIN numbers \subseteq Nat /\ \A i \in DOMAIN numbers : numbers[i] \in Endings
    BY DEF ReadNumber, Unless, Endings
  <1>2. Ending(numbers) \in Endings
    BY <1>1, EndingIsOne
  <1>3. ReadColumn(e) \in {"contract", "bad_shape", Ending(numbers)}
    BY DEF ReadColumn
  <1> QED
    BY <1>2, <1>3 DEF Endings

LEMMA NamesEnd ==
    ASSUME NEW v
    PROVE  ReadNames(v) \in Endings
  BY DEF ReadNames, Unless, Endings

LEMMA ForeignKeyEnds ==
    ASSUME NEW e
    PROVE  ReadForeignKey(e) \in Endings
  <1> DEFINE parts == <<ReadNames(e.columns), ReadNames(e.references_columns)>>
  <1>1. DOMAIN parts \subseteq Nat /\ \A i \in DOMAIN parts : parts[i] \in Endings
    BY NamesEnd
  <1>2. Ending(parts) \in Endings
    BY <1>1, EndingIsOne
  <1>3. ReadForeignKey(e) \in {"bad_shape", Ending(parts)}
    BY DEF ReadForeignKey
  <1> QED
    BY <1>2, <1>3 DEF Endings

LEMMA IndexEnds ==
    ASSUME NEW e
    PROVE  ReadIndex(e) \in Endings
  BY NamesEnd DEF ReadIndex, Endings

LEMMA TableEnds ==
    ASSUME NEW e, FitsTable(e)
    PROVE  ReadTable(e) \in Endings
  <1> SUFFICES ASSUME e.is = "map"
               PROVE  ReadTable(e) \in Endings
    BY DEF ReadTable, Endings
  <1>1. IsList(e.columns) /\ IsList(e.foreign_keys) /\ IsList(e.indexes)
    BY TableLists
  <1>2. ReadEntries(e.columns, ReadColumn) \in Endings
    <2> DEFINE endings == [i \in DOMAIN Items(e.columns) |-> ReadColumn(Items(e.columns)[i])]
    <2>1. DOMAIN endings \subseteq Nat
      BY <1>1, ItemsAreNumbered
    <2>2. \A i \in DOMAIN endings : endings[i] \in Endings
      BY ColumnEnds
    <2>3. ReadEntries(e.columns, ReadColumn) \in {"bad_shape", Ending(endings)}
      BY DEF ReadEntries
    <2> HIDE DEF endings
    <2> QED
      BY <2>1, <2>2, <2>3, EndingIsOne DEF Endings
  <1>3. ReadEntries(e.foreign_keys, ReadForeignKey) \in Endings
    <2> DEFINE endings == [i \in DOMAIN Items(e.foreign_keys) |-> ReadForeignKey(Items(e.foreign_keys)[i])]
    <2>1. DOMAIN endings \subseteq Nat
      BY <1>1, ItemsAreNumbered
    <2>2. \A i \in DOMAIN endings : endings[i] \in Endings
      BY ForeignKeyEnds
    <2>3. ReadEntries(e.foreign_keys, ReadForeignKey) \in {"bad_shape", Ending(endings)}
      BY DEF ReadEntries
    <2> HIDE DEF endings
    <2> QED
      BY <2>1, <2>2, <2>3, EndingIsOne DEF Endings
  <1>4. ReadEntries(e.indexes, ReadIndex) \in Endings
    <2> DEFINE endings == [i \in DOMAIN Items(e.indexes) |-> ReadIndex(Items(e.indexes)[i])]
    <2>1. DOMAIN endings \subseteq Nat
      BY <1>1, ItemsAreNumbered
    <2>2. \A i \in DOMAIN endings : endings[i] \in Endings
      BY IndexEnds
    <2>3. ReadEntries(e.indexes, ReadIndex) \in {"bad_shape", Ending(endings)}
      BY DEF ReadEntries
    <2> HIDE DEF endings
    <2> QED
      BY <2>1, <2>2, <2>3, EndingIsOne DEF Endings
  <1> DEFINE parts == <<ReadEntries(e.columns, ReadColumn), ReadNames(e.primary_key),
                        ReadEntries(e.foreign_keys, ReadForeignKey),
                        ReadEntries(e.indexes, ReadIndex)>>
  <1>5. DOMAIN parts = 1..4 /\ \A i \in DOMAIN parts : parts[i] \in Endings
    BY <1>2, <1>3, <1>4, NamesEnd
  <1>6. ReadTable(e) \in {"bad_shape", Ending(parts)}
    BY DEF ReadTable
  <1> HIDE DEF parts
  <1>7. Ending(parts) \in Endings
    BY <1>5, EndingIsOne
  <1> QED
    BY <1>6, <1>7 DEF Endings

LEMMA DocumentEnds ==
    ASSUME NEW doc \in Documents
    PROVE  Loading(doc) \in Endings
  <1>1. ReadEntries(doc.structure, ReadTable) \in Endings
    <2> DEFINE endings == [i \in DOMAIN Items(doc.structure) |-> ReadTable(Items(doc.structure)[i])]
    <2>1. DOMAIN endings \subseteq Nat
      BY ListsOfDocument, ItemsAreNumbered
    <2>2. \A i \in DOMAIN endings : endings[i] \in Endings
      BY ListsOfDocument, TableEnds
    <2>3. ReadEntries(doc.structure, ReadTable) \in {"bad_shape", Ending(endings)}
      BY DEF ReadEntries
    <2> HIDE DEF endings
    <2> QED
      BY <2>1, <2>2, <2>3, EndingIsOne DEF Endings
  <1>2. ReadEntries(doc.audit, ReadRule) \in Endings
    <2> DEFINE endings == [i \in DOMAIN Items(doc.audit) |-> ReadRule(Items(doc.audit)[i])]
    <2>1. IsList(doc.audit)
      BY ReleasesAssumption DEF IsDocument, ListOf
    <2>2. DOMAIN endings \subseteq Nat
      BY <2>1, ItemsAreNumbered
    <2>3. \A i \in DOMAIN endings : endings[i] \in Endings
      BY NamesEnd DEF ReadRule, Endings
    <2>4. ReadEntries(doc.audit, ReadRule) \in {"bad_shape", Ending(endings)}
      BY DEF ReadEntries
    <2> HIDE DEF endings
    <2> QED
      BY <2>2, <2>3, <2>4, EndingIsOne DEF Endings
  <1>3. ReadSettings(doc.settings) \in Endings
    <2> DEFINE parts == <<ReadPolicy(doc.settings.unexpected_tables),
                          ReadPolicy(doc.settings.unexpected_columns)>>
    <2>1. DOMAIN parts \subseteq Nat /\ \A i \in DOMAIN parts : parts[i] \in Endings
      BY DEF ReadPolicy, Unless, Endings
    <2>2. Ending(parts) \in Endings
      BY <2>1, EndingIsOne
    <2>3. ReadSettings(doc.settings) \in {"contract", "bad_shape", Ending(parts)}
      BY DEF ReadSettings
    <2> QED
      BY <2>2, <2>3 DEF Endings
  <1> DEFINE parts == <<Unless(doc.keyless, "bad_shape"), ReadNumber(doc.version),
                        ReadEntries(doc.structure, ReadTable),
                        ReadEntries(doc.audit, ReadRule), ReadSettings(doc.settings)>>
  <1>4. DOMAIN parts = 1..5
    OBVIOUS
  <1>5. Unless(doc.keyless, "bad_shape") \in Endings /\ ReadNumber(doc.version) \in Endings
    BY DEF Unless, ReadNumber, Endings
  <1>6. \A i \in DOMAIN parts : parts[i] \in Endings
    BY <1>1, <1>2, <1>3, <1>5
  <1>7. Loading(doc) = Ending(parts)
    BY DEF Loading
  <1> HIDE DEF parts
  <1> QED
    BY <1>4, <1>6, <1>7, EndingIsOne

-----------------------------------------------------------------------------
(* What the parser makes of a document is a contract. *)

LEMMA SequenceOf ==
    ASSUME NEW S, NEW n \in Nat, NEW f, DOMAIN f = 1..n, f = [i \in 1..n |-> f[i]],
           \A i \in 1..n : f[i] \in S
    PROVE  f \in Seq(S)
  <1>1. f \in [1..n -> S]
    OBVIOUS
  <1> QED
    BY <1>1

LEMMA ParametersAreTyped ==
    ASSUME NEW base, NEW numbers \in Seq(Sizes)
    PROVE  Parameters(base, numbers) \in [Limits -> Maybe(Sizes)]
  <1>1. NoLimits \in [Limits -> Maybe(Sizes)]
    BY DEF NoLimits, Maybe
  <1>2. Len(numbers) \in Nat /\ DOMAIN numbers = 1..Len(numbers)
    OBVIOUS
  <1>3. CASE numbers = <<>>
    BY <1>1, <1>3 DEF Parameters
  <1>4. CASE numbers # <<>> /\ Len(numbers) = 1
    <2> DEFINE l == IF base \in CharTypes THEN "max_length" ELSE "precision"
    <2>1. Parameters(base, numbers) = [NoLimits EXCEPT ![l] = numbers[1]]
      BY <1>4 DEF Parameters
    <2>2. numbers[1] \in Maybe(Sizes)
      BY <1>4 DEF Maybe
    <2> QED
      BY <1>1, <2>1, <2>2
  <1>5. CASE Len(numbers) >= 2
    <2>1. numbers # <<>> /\ Len(numbers) # 1
      <3>1. numbers = <<>> => Len(numbers) = 0
        OBVIOUS
      <3> QED
        BY <1>2, <1>5, <3>1
    <2>2. Parameters(base, numbers)
            = [NoLimits EXCEPT !["precision"] = numbers[1], !["scale"] = numbers[2]]
      BY <1>5, <2>1 DEF Parameters
    <2>3. numbers[1] \in Maybe(Sizes) /\ numbers[2] \in Maybe(Sizes)
      BY <1>2, <1>5 DEF Maybe
    <2> QED
      BY <1>1, <2>2, <2>3
  <1>6. numbers = <<>> \/ Len(numbers) >= 1
    OBVIOUS
  <1> QED
    BY <1>2, <1>3, <1>4, <1>5, <1>6

LEMMA TypeIsSplit ==
    ASSUME NEW raw, raw # None => raw.base \in Types /\ raw.args \in Seq(Numbers)
    PROVE  /\ SplitType(raw).type \in Maybe(Types)
           /\ SplitType(raw).limit \in [Limits -> Maybe(Sizes)]
  <1>1. NoLimits \in [Limits -> Maybe(Sizes)]
    BY DEF NoLimits, Maybe
  <1>2. CASE raw = None
    BY <1>1, <1>2 DEF SplitType, Maybe
  <1>3. CASE raw # None /\ \E i \in DOMAIN raw.args : raw.args[i] = Word
    BY <1>1, <1>3 DEF SplitType, Maybe
  <1>4. CASE raw # None /\ ~ \E i \in DOMAIN raw.args : raw.args[i] = Word
    <2> DEFINE args == raw.args
    <2>1. args \in Seq(Numbers) /\ \A i \in DOMAIN args : args[i] # Word
      BY <1>4
    <2>2. args \in Seq(Sizes)
      <3>1. args \in [1..Len(args) -> Numbers] /\ Len(args) \in Nat
        BY <2>1
      <3> HIDE DEF args
      <3>2. \A i \in 1..Len(args) : args[i] \in Sizes
        BY <2>1, <3>1 DEF Numbers
      <3>3. args \in [1..Len(args) -> Sizes]
        BY <3>1, <3>2
      <3> QED
        BY <3>1, <3>3
    <2>3. Parameters(raw.base, args) \in [Limits -> Maybe(Sizes)]
      BY <2>2, ParametersAreTyped
    <2> QED
      BY <1>4, <2>3 DEF SplitType, Maybe
  <1> QED
    BY <1>2, <1>3, <1>4

LEMMA ColumnIsTyped ==
    ASSUME NEW e, FitsColumn(e), ReadColumn(e) = "contract"
    PROVE  ColumnOf(e) \in ColumnSpec
  <1>1. CASE e.is = "text"
    <2>1. NoLimits \in [Limits -> Maybe(Sizes)]
      BY DEF NoLimits, Maybe
    <2> QED
      BY <1>1, <2>1 DEF ColumnOf, ColumnSpec, FitsColumn, Maybe
  <1>2. CASE e.is = "map"
    <2> DEFINE split == SplitType(e.type)
               numbers == <<ReadNumber(e.limit["max_length"]), ReadNumber(e.limit["precision"]),
                            ReadNumber(e.limit["scale"])>>
    <2>1. split.type \in Maybe(Types) /\ split.limit \in [Limits -> Maybe(Sizes)]
      BY <1>2, TypeIsSplit DEF FitsColumn, RawTypes, Maybe
    <2>2. e.name # None /\ Ending(numbers) = "contract"
      BY <1>2 DEF ReadColumn
    <2>3. \A i \in 1..3 : numbers[i] = "contract"
      <3>1. DOMAIN numbers = 1..3
        OBVIOUS
      <3> HIDE DEF numbers
      <3> QED
        BY <2>2, <3>1, NothingRaised
    <2>4. \A l \in Limits : e.limit[l] # Word
      BY <2>3 DEF Limits, ReadNumber, Unless
    <2>5. \A l \in Limits : e.limit[l] \in Maybe(Sizes)
      BY <1>2, <2>4 DEF FitsColumn, Maybe, Numbers
    <2> HIDE DEF split
    <2> DEFINE limit == [l \in Limits |-> IF e.limit[l] # None THEN e.limit[l] ELSE split.limit[l]]
    <2>6. limit \in [Limits -> Maybe(Sizes)]
      BY <2>1, <2>5
    <2>7. ColumnOf(e) = [name |-> e.name, type |-> split.type, nullable |-> e.nullable,
                         limit |-> limit, default |-> e.default]
      BY <1>2 DEF ColumnOf, split
    <2>8. e.name \in Names /\ e.nullable \in Maybe(BOOLEAN) /\ e.default \in Maybe(Seq(Tokens))
      BY <1>2, <2>2 DEF FitsColumn, Maybe
    <2> HIDE DEF limit
    <2> QED
      BY <2>1, <2>6, <2>7, <2>8 DEF ColumnSpec
  <1> QED
    BY <1>1, <1>2 DEF ReadColumn

LEMMA NamesAreTyped ==
    ASSUME NEW v, ListOfNames(v), ReadNames(v) = "contract"
    PROVE  NamesOf(v) \in Seq(Names)
  BY DEF ListOfNames, ReadNames, Unless, NamesOf, Items

LEMMA ForeignKeyIsTyped ==
    ASSUME NEW e, FitsForeignKey(e), ReadForeignKey(e) = "contract"
    PROVE  ForeignKeyOf(e) \in ForeignKeySpec
  <1> DEFINE parts == <<ReadNames(e.columns), ReadNames(e.references_columns)>>
  <1>1. e.is = "map" /\ Referenced(e) # None /\ Ending(parts) = "contract"
    BY DEF ReadForeignKey
  <1>2. parts[1] = "contract" /\ parts[2] = "contract"
    <2>1. DOMAIN parts = 1..2
      OBVIOUS
    <2> HIDE DEF parts
    <2> QED
      BY <1>1, <2>1, NothingRaised
  <1>3. NamesOf(e.columns) \in Seq(Names) /\ NamesOf(e.references_columns) \in Seq(Names)
    BY <1>1, <1>2, NamesAreTyped DEF FitsForeignKey
  <1>4. Referenced(e) \in Names
    BY <1>1 DEF Referenced, FitsForeignKey, Maybe
  <1> QED
    BY <1>3, <1>4 DEF ForeignKeyOf, ForeignKeySpec

LEMMA IndexIsTyped ==
    ASSUME NEW e, FitsIndex(e), ReadIndex(e) = "contract"
    PROVE  IndexOf(e) \in IndexSpec
  <1>1. e.is = "map" /\ ReadNames(e.columns) = "contract"
    BY DEF ReadIndex
  <1>2. NamesOf(e.columns) \in Seq(Names)
    BY <1>1, NamesAreTyped DEF FitsIndex
  <1> QED
    BY <1>1, <1>2 DEF IndexOf, IndexSpec, FitsIndex

LEMMA RuleIsTyped ==
    ASSUME NEW e, FitsRule(e), ReadRule(e) = "contract"
    PROVE  RuleOf(e) \in AuditRule
  <1>1. e.is = "map" /\ e.table # None /\ ReadNames(e.required_columns) = "contract"
    BY DEF ReadRule
  <1>2. NamesOf(e.required_columns) \in Seq(Names)
    BY <1>1, NamesAreTyped DEF FitsRule
  <1> QED
    BY <1>1, <1>2 DEF RuleOf, AuditRule, FitsRule, Maybe

LEMMA SettingsAreTyped ==
    ASSUME NEW v, ReadSettings(v) = "contract"
    PROVE  SettingsOf(v) \in Settings
  <1>1. CASE v.is = "null"
    BY <1>1 DEF SettingsOf, DefaultSettings, Settings, Policies
  <1>2. CASE v.is = "map"
    <2> DEFINE parts == <<ReadPolicy(v.unexpected_tables), ReadPolicy(v.unexpected_columns)>>
    <2>1. Ending(parts) = "contract"
      BY <1>2 DEF ReadSettings
    <2>2. parts[1] = "contract" /\ parts[2] = "contract"
      <3>1. DOMAIN parts = 1..2
        OBVIOUS
      <3> HIDE DEF parts
      <3> QED
        BY <2>1, <3>1, NothingRaised
    <2>3. /\ v.unexpected_tables \in Policies \cup {None}
          /\ v.unexpected_columns \in Policies \cup {None}
      BY <2>2 DEF ReadPolicy, Unless
    <2>4. PolicyOf(v.unexpected_tables) \in Policies /\ PolicyOf(v.unexpected_columns) \in Policies
      BY <2>3 DEF PolicyOf, Policies
    <2> QED
      BY <1>2, <2>4 DEF SettingsOf, Settings
  <1> QED
    BY <1>1, <1>2 DEF ReadSettings

\* What reading a table has made sure of its lists.
LEMMA TableListsAreRead ==
    ASSUME NEW e, FitsTable(e), ReadTable(e) = "contract"
    PROVE  /\ e.is = "map" /\ e.name # None
           /\ IsList(e.columns) /\ ReadEntries(e.columns, ReadColumn) = "contract"
           /\ \A i \in DOMAIN Items(e.columns) : ReadColumn(Items(e.columns)[i]) = "contract"
           /\ ReadNames(e.primary_key) = "contract"
           /\ e.foreign_keys.is \in {"null", "list"} /\ e.indexes.is \in {"null", "list"}
           /\ \A i \in DOMAIN Items(e.foreign_keys) :
                 ReadForeignKey(Items(e.foreign_keys)[i]) = "contract"
           /\ \A i \in DOMAIN Items(e.indexes) : ReadIndex(Items(e.indexes)[i]) = "contract"
  <1> DEFINE parts == <<ReadEntries(e.columns, ReadColumn), ReadNames(e.primary_key),
                        ReadEntries(e.foreign_keys, ReadForeignKey),
                        ReadEntries(e.indexes, ReadIndex)>>
  <1>1. e.is = "map" /\ e.name # None /\ Ending(parts) = "contract"
    BY DEF ReadTable
  <1>2. \A i \in 1..4 : parts[i] = "contract"
    <2>1. DOMAIN parts = 1..4
      OBVIOUS
    <2> HIDE DEF parts
    <2> QED
      BY <1>1, <2>1, NothingRaised
  <1>3. /\ ReadEntries(e.columns, ReadColumn) = "contract"
        /\ ReadNames(e.primary_key) = "contract"
        /\ ReadEntries(e.foreign_keys, ReadForeignKey) = "contract"
        /\ ReadEntries(e.indexes, ReadIndex) = "contract"
    BY <1>2
  <1>4. IsList(e.columns) /\ IsList(e.foreign_keys) /\ IsList(e.indexes)
    BY <1>1, TableLists
  <1>5. \A i \in DOMAIN Items(e.columns) : ReadColumn(Items(e.columns)[i]) = "contract"
    <2> DEFINE endings == [i \in DOMAIN Items(e.columns) |-> ReadColumn(Items(e.columns)[i])]
    <2>1. Ending(endings) = "contract" /\ DOMAIN endings \subseteq Nat
      BY <1>3, <1>4, ItemsAreNumbered DEF ReadEntries
    <2>2. \A i \in DOMAIN endings : endings[i] = "contract"
      <3> HIDE DEF endings
      <3> QED
        BY <2>1, NothingRaised
    <2> QED
      BY <2>2
  <1>6. \A i \in DOMAIN Items(e.foreign_keys) : ReadForeignKey(Items(e.foreign_keys)[i]) = "contract"
    <2> DEFINE endings == [i \in DOMAIN Items(e.foreign_keys) |-> ReadForeignKey(Items(e.foreign_keys)[i])]
    <2>1. Ending(endings) = "contract" /\ DOMAIN endings \subseteq Nat
      BY <1>3, <1>4, ItemsAreNumbered DEF ReadEntries
    <2>2. \A i \in DOMAIN endings : endings[i] = "contract"
      <3> HIDE DEF endings
      <3> QED
        BY <2>1, NothingRaised
    <2> QED
      BY <2>2
  <1>7. \A i \in DOMAIN Items(e.indexes) : ReadIndex(Items(e.indexes)[i]) = "contract"
    <2> DEFINE endings == [i \in DOMAIN Items(e.indexes) |-> ReadIndex(Items(e.indexes)[i])]
    <2>1. Ending(endings) = "contract" /\ DOMAIN endings \subseteq Nat
      BY <1>3, <1>4, ItemsAreNumbered DEF ReadEntries
    <2>2. \A i \in DOMAIN endings : endings[i] = "contract"
      <3> HIDE DEF endings
      <3> QED
        BY <2>1, NothingRaised
    <2> QED
      BY <2>2
  <1>8. e.foreign_keys.is \in {"null", "list"} /\ e.indexes.is \in {"null", "list"}
    BY <1>3 DEF ReadEntries
  <1> HIDE DEF parts
  <1> QED
    BY <1>1, <1>3, <1>4, <1>5, <1>6, <1>7, <1>8

LEMMA TableIsTyped ==
    ASSUME NEW e, FitsTable(e), ReadTable(e) = "contract"
    PROVE  TableOf(e) \in TableSpec
  <1>1. /\ e.is = "map" /\ e.name # None
        /\ \A i \in DOMAIN Items(e.columns) : ReadColumn(Items(e.columns)[i]) = "contract"
        /\ ReadNames(e.primary_key) = "contract"
        /\ \A i \in DOMAIN Items(e.foreign_keys) :
              ReadForeignKey(Items(e.foreign_keys)[i]) = "contract"
        /\ \A i \in DOMAIN Items(e.indexes) : ReadIndex(Items(e.indexes)[i]) = "contract"
    BY TableListsAreRead
  <1>2. IsList(e.columns) /\ IsList(e.foreign_keys) /\ IsList(e.indexes)
    BY <1>1, TableLists
  <1>3. Each(e.columns, ColumnOf) \in Seq(ColumnSpec)
    <2>1. PICK n \in Nat : DOMAIN Items(e.columns) = 1..n
      BY <1>2, ItemsAreNumbered
    <2>2. \A i \in 1..n : ColumnOf(Items(e.columns)[i]) \in ColumnSpec
      BY <1>1, <2>1, ColumnIsTyped DEF FitsTable, ListOf
    <2>3. Each(e.columns, ColumnOf) = [i \in 1..n |-> ColumnOf(Items(e.columns)[i])]
      BY <2>1 DEF Each
    <2> QED
      BY <2>2, <2>3, SequenceOf
  <1>4. Each(e.foreign_keys, ForeignKeyOf) \in Seq(ForeignKeySpec)
    <2>1. PICK n \in Nat : DOMAIN Items(e.foreign_keys) = 1..n
      BY <1>2, ItemsAreNumbered
    <2>2. \A i \in 1..n : ForeignKeyOf(Items(e.foreign_keys)[i]) \in ForeignKeySpec
      BY <1>1, <2>1, ForeignKeyIsTyped DEF FitsTable, ListOf
    <2>3. Each(e.foreign_keys, ForeignKeyOf) = [i \in 1..n |-> ForeignKeyOf(Items(e.foreign_keys)[i])]
      BY <2>1 DEF Each
    <2> QED
      BY <2>2, <2>3, SequenceOf
  <1>5. Each(e.indexes, IndexOf) \in Seq(IndexSpec)
    <2>1. PICK n \in Nat : DOMAIN Items(e.indexes) = 1..n
      BY <1>2, ItemsAreNumbered
    <2>2. \A i \in 1..n : IndexOf(Items(e.indexes)[i]) \in IndexSpec
      BY <1>1, <2>1, IndexIsTyped DEF FitsTable, ListOf
    <2>3. Each(e.indexes, IndexOf) = [i \in 1..n |-> IndexOf(Items(e.indexes)[i])]
      BY <2>1 DEF Each
    <2> QED
      BY <2>2, <2>3, SequenceOf
  <1>6. e.name \in Names /\ NamesOf(e.primary_key) \in Seq(Names)
    BY <1>1, NamesAreTyped DEF FitsTable, Maybe
  <1> QED
    BY <1>3, <1>4, <1>5, <1>6 DEF TableOf, TableSpec

LEMMA ContractIsTyped ==
    ASSUME NEW doc \in Documents, Loads(doc)
    PROVE  ContractOf(doc) \in Contract
  <1> DEFINE parts == <<Unless(doc.keyless, "bad_shape"), ReadNumber(doc.version),
                        ReadEntries(doc.structure, ReadTable),
                        ReadEntries(doc.audit, ReadRule), ReadSettings(doc.settings)>>
  <1>1. parts[4] = "contract" /\ parts[5] = "contract"
    <2>1. Ending(parts) = "contract"
      BY DEF Loads, Loading
    <2>2. DOMAIN parts = 1..5
      OBVIOUS
    <2> HIDE DEF parts
    <2> QED
      BY <2>1, <2>2, NothingRaised
  <1>2. ReadEntries(doc.audit, ReadRule) = "contract" /\ ReadSettings(doc.settings) = "contract"
    BY <1>1
  <1>3. Each(doc.structure, TableOf) \in Seq(TableSpec)
    <2>1. PICK n \in Nat : DOMAIN Items(doc.structure) = 1..n
      BY ListsOfDocument, ItemsAreNumbered
    <2>2. \A i \in 1..n : TableOf(Items(doc.structure)[i]) \in TableSpec
      BY <2>1, TablesAreRead, ListsOfDocument, TableIsTyped
    <2>3. Each(doc.structure, TableOf) = [i \in 1..n |-> TableOf(Items(doc.structure)[i])]
      BY <2>1 DEF Each
    <2> QED
      BY <2>2, <2>3, SequenceOf
  <1>4. Each(doc.audit, RuleOf) \in Seq(AuditRule)
    <2> DEFINE endings == [i \in DOMAIN Items(doc.audit) |-> ReadRule(Items(doc.audit)[i])]
    <2>0. IsList(doc.audit) /\ \A i \in DOMAIN Items(doc.audit) : FitsRule(Items(doc.audit)[i])
      BY ReleasesAssumption DEF IsDocument, ListOf
    <2>1. PICK n \in Nat : DOMAIN Items(doc.audit) = 1..n
      BY <2>0, ItemsAreNumbered
    <2>2. \A i \in DOMAIN endings : endings[i] = "contract"
      <3>1. Ending(endings) = "contract"
        BY <1>2 DEF ReadEntries
      <3>2. DOMAIN endings \subseteq Nat
        BY <2>1
      <3> HIDE DEF endings
      <3> QED
        BY <3>1, <3>2, NothingRaised
    <2>3. \A i \in 1..n : RuleOf(Items(doc.audit)[i]) \in AuditRule
      BY <2>0, <2>1, <2>2, RuleIsTyped
    <2>4. Each(doc.audit, RuleOf) = [i \in 1..n |-> RuleOf(Items(doc.audit)[i])]
      BY <2>1 DEF Each
    <2> QED
      BY <2>3, <2>4, SequenceOf
  <1>5. SettingsOf(doc.settings) \in Settings
    BY <1>2, SettingsAreTyped
  <1> HIDE DEF parts
  <1> QED
    BY <1>3, <1>4, <1>5 DEF ContractOf, Contract

\* Reading a document ends with a contract or with one of the two exceptions a
\* caller knows, and what is read is a contract of the right types
\* (contract.py:210-393).
THEOREM ReleasesTypes == Spec => []TypeOK
  <1> DEFINE Typed == typed \subseteq Names \X Names
  <1>1. Init => Typed
    BY DEF Init, TypedColumns
  <1>2. Typed /\ [Next]_vars => Typed'
    BY DEF Next, Release, vars
  <1>3. Chain /\ Typed => TypeOK
    <2> SUFFICES ASSUME Chain, Typed
                 PROVE  TypeOK
      OBVIOUS
    <2>1. \A doc \in {first, released} : doc \in Documents
      BY DEF Chain
    <2>2. ASSUME NEW doc \in Documents
          PROVE  Loading(doc) \in {"contract", "bad_shape", "bad_number"}
      BY DocumentEnds DEF Endings
    <2> QED
      BY <2>1, <2>2, ContractIsTyped DEF TypeOK
  <1> QED
    BY <1>1, <1>2, <1>3, ChainHolds, PTL DEF Spec

-----------------------------------------------------------------------------
(* Types quoted from CREATE TABLE *)


\* Under every name but the unaliased ones columns.py takes a type for the one
\* PostgreSQL reports, which is an alias of nothing.
LEMMA AliasesAreNames ==
    ASSUME NEW base, base \notin Unaliased
    PROVE  /\ NormaliseType(base) = PostgresName(base)
           /\ NormaliseType(PostgresName(base)) = PostgresName(base)
  <1>1. DOMAIN TypeAliases = {"int", "int4", "serial", "int8", "bigserial", "int2", "varchar", "char", "bool",
                                "timestamp", "timestamptz", "timetz", "decimal", "float8", "float4"}
    BY DEF TypeAliases
  <1>2. CASE base \in DOMAIN TypeAliases
    <2>1. NormaliseType(base) = TypeAliases[base]
      BY <1>2, Zenon DEF NormaliseType
    <2>2. TypeAliases[base] = PostgresName(base)
      <3>1. TypeAliases["int"] = PostgresName("int")
        BY DEF TypeAliases, PostgresName
      <3>2. TypeAliases["int4"] = PostgresName("int4")
        BY DEF TypeAliases, PostgresName
      <3>3. TypeAliases["serial"] = PostgresName("serial")
        BY DEF TypeAliases, PostgresName
      <3>4. TypeAliases["int8"] = PostgresName("int8")
        BY DEF TypeAliases, PostgresName
      <3>5. TypeAliases["bigserial"] = PostgresName("bigserial")
        BY DEF TypeAliases, PostgresName
      <3>6. TypeAliases["int2"] = PostgresName("int2")
        BY DEF TypeAliases, PostgresName
      <3>7. TypeAliases["varchar"] = PostgresName("varchar")
        BY DEF TypeAliases, PostgresName
      <3>8. TypeAliases["char"] = PostgresName("char")
        BY DEF TypeAliases, PostgresName
      <3>9. TypeAliases["bool"] = PostgresName("bool")
        BY DEF TypeAliases, PostgresName
      <3>10. TypeAliases["timestamp"] = PostgresName("timestamp")
        BY DEF TypeAliases, PostgresName
      <3>11. TypeAliases["timestamptz"] = PostgresName("timestamptz")
        BY DEF TypeAliases, PostgresName
      <3>12. TypeAliases["timetz"] = PostgresName("timetz")
        BY DEF TypeAliases, PostgresName
      <3>13. TypeAliases["decimal"] = PostgresName("decimal")
        BY DEF TypeAliases, PostgresName
      <3>14. TypeAliases["float8"] = PostgresName("float8")
        BY DEF TypeAliases, PostgresName
      <3>15. TypeAliases["float4"] = PostgresName("float4")
        BY DEF TypeAliases, PostgresName
      <3> QED
        BY <1>1, <1>2, <3>1, <3>2, <3>3, <3>4, <3>5, <3>6, <3>7, <3>8,
           <3>9, <3>10, <3>11, <3>12, <3>13, <3>14, <3>15
    <2>3. PostgresName(base) \in {"integer", "bigint", "smallint", "character varying", "character",
                                 "boolean", "timestamp without time zone",
                                 "timestamp with time zone", "time with time zone", "numeric",
                                 "double precision", "real"}
      BY <1>1, <1>2 DEF PostgresName
    <2>4. PostgresName(base) \notin DOMAIN TypeAliases
      BY <1>1, <2>3
    <2>5. NormaliseType(PostgresName(base)) = PostgresName(base)
      BY <2>4, Zenon DEF NormaliseType
    <2> QED
      BY <2>1, <2>2, <2>5
  <1>3. CASE base \notin DOMAIN TypeAliases
    <2>1. NormaliseType(base) = base
      BY <1>3, Zenon DEF NormaliseType
    <2>2. PostgresName(base) = base
      BY <1>1, <1>3 DEF PostgresName, Unaliased
    <2> QED
      BY <2>1, <2>2
  <1> QED
    BY <1>2, <1>3

\* What the parser reads in the brackets is what PostgreSQL reports, where the
\* contract speaks of it at all.
LEMMA LimitsAreReported ==
    ASSUME NEW raw, raw # None, raw.args \in Seq(Numbers), Reported(raw), NEW l \in Limits,
           SplitType(raw).limit[l] # None
    PROVE  CreatedAs(raw).limit[l] = SplitType(raw).limit[l]
  <1> DEFINE args == raw.args
             split == Parameters(raw.base, args)
             reported == CASE args = <<>> -> None
                           [] args # <<>> /\ raw.base \in Lengths ->
                                 IF l = "max_length" THEN args[1] ELSE None
                           [] OTHER ->
                                 CASE l = "max_length" -> None
                                   [] l = "precision"  -> args[1]
                                   [] l = "scale"      -> IF Len(args) = 2 THEN args[2] ELSE 0
  <1>1. SplitType(raw).limit = split
    BY DEF Reported, ToSet, SplitType
  <1>2. CreatedAs(raw).limit[l] = reported
    BY DEF CreatedAs
  <1>3. l = "max_length" \/ l = "precision" \/ l = "scale"
    BY DEF Limits
  <1>4. Len(args) \in Nat /\ (args = <<>> <=> Len(args) = 0)
    OBVIOUS
  <1>5. CASE args = <<>>
    <2>1. split = NoLimits
      BY <1>5 DEF Parameters
    <2>2. SplitType(raw).limit[l] = None
      <3>1. NoLimits[l] = None
        BY DEF NoLimits
      <3> HIDE DEF split
      <3> QED
        BY <1>1, <2>1, <3>1
    <2> QED
      BY <2>2
  <1>6. CASE raw.base \in Lengths /\ args # <<>>
    <2>1. Len(args) \in {0, 1}
      <3>1. raw.base \notin Decimals
        BY <1>6 DEF Lengths, Decimals
      <3> QED
        BY <1>6, <3>1 DEF Reported
    <2>2. Len(args) = 1
      BY <1>4, <1>6, <2>1
    <2>3. raw.base \in CharTypes
      BY <1>6 DEF Lengths, CharTypes
    <2>4. split = [NoLimits EXCEPT !["max_length"] = args[1]]
      BY <1>6, <2>2, <2>3 DEF Parameters
    <2>5. l = "max_length"
      <3>1. l # "max_length" => split[l] = None
        BY <2>4 DEF NoLimits
      <3> QED
        BY <1>1, <3>1
    <2>6. split[l] = args[1]
      BY <2>4, <2>5 DEF NoLimits
    <2>7. reported = args[1]
      BY <1>6, <2>5
    <2> QED
      BY <1>1, <1>2, <2>6, <2>7
  <1>7. CASE raw.base \notin Lengths /\ args # <<>>
    <2>1. raw.base \in Decimals
      <3>1. raw.base \notin Decimals => Len(args) \in {0}
        BY <1>7 DEF Reported
      <3> QED
        BY <1>4, <1>7, <3>1
    <2>2. Len(args) \in {0, 1, 2}
      BY <1>7, <2>1 DEF Reported
    <2>3. raw.base \notin CharTypes
      BY <2>1 DEF Decimals, CharTypes
    <2>4. reported = CASE l = "max_length" -> None
                       [] l = "precision"  -> args[1]
                       [] l = "scale"      -> IF Len(args) = 2 THEN args[2] ELSE 0
      BY <1>7
    <2>5. CASE Len(args) = 1
      <3>1. split = [NoLimits EXCEPT !["precision"] = args[1]]
        BY <1>7, <2>3, <2>5 DEF Parameters
      <3>2. l = "precision"
        <4>1. l # "precision" => split[l] = None
          BY <3>1 DEF NoLimits
        <4> QED
          BY <1>1, <4>1
      <3>3. split[l] = args[1]
        BY <3>1, <3>2 DEF NoLimits
      <3>4. reported = args[1]
        BY <2>4, <3>2
      <3> QED
        BY <1>1, <1>2, <3>3, <3>4
    <2>6. CASE Len(args) = 2
      <3>1. split = [NoLimits EXCEPT !["precision"] = args[1], !["scale"] = args[2]]
        <4>1. Len(args) # 1 /\ Len(args) >= 2
          BY <2>6
        <4> QED
          BY <1>7, <4>1 DEF Parameters
      <3>2. l = "precision" \/ l = "scale"
        <4>1. l = "max_length" => split[l] = None
          BY <3>1 DEF NoLimits
        <4> QED
          BY <1>1, <1>3, <4>1
      <3>3. CASE l = "precision"
        <4>1. split[l] = args[1]
          BY <3>1, <3>3 DEF NoLimits
        <4>2. reported = args[1]
          BY <2>4, <3>3
        <4> QED
          BY <1>1, <1>2, <4>1, <4>2
      <3>4. CASE l = "scale"
        <4>1. split[l] = args[2]
          BY <3>1, <3>4 DEF NoLimits
        <4>2. reported = args[2]
          BY <2>4, <2>6, <3>4
        <4> QED
          BY <1>1, <1>2, <4>1, <4>2
      <3> QED
        BY <3>2, <3>3, <3>4
    <2> QED
      BY <1>4, <1>7, <2>2, <2>5, <2>6
  <1> QED
    BY <1>5, <1>6, <1>7

LEMMA NothingContradicts ==
    ASSUME NEW spec, NEW col, spec.nullable = None, spec.default = None,
           NormaliseType(spec.type) = NormaliseType(col.type),
           \A l \in Limits : spec.limit[l] # None => spec.limit[l] = col.limit[l]
    PROVE  Contradictions(spec, col) = {}
  BY DEF Contradictions

\* A type written in a contract as in the CREATE TABLE that made the column is
\* read as one that contradicts nothing PostgreSQL reports of it, under every
\* name but the ten that columns.py leaves out (contract.py:244, columns.py:11).
THEOREM QuotedTypesConform == Spec => []QuotedTypeConforms
  <1>1. Chain => QuotedTypeConforms
    <2> SUFFICES ASSUME Chain, Loads(released),
                        NEW e \in ToSet(Items(released.structure)), NEW c \in ToSet(Items(e.columns)),
                        c.is = "map", c.type # None, \A l \in Limits : c.limit[l] = None,
                        Reported(c.type), c.type.base \notin Unaliased
                 PROVE  Contradictions([ColumnOf(c) EXCEPT !.nullable = None, !.default = None],
                                       CreatedAs(c.type)) = {}
      BY DEF QuotedTypeConforms
    <2>1. released \in Documents
      BY DEF Chain
    <2>2. FitsTable(e) /\ e.is = "map"
      BY <2>1, ListsOfDocument, TablesAreRead, TableIsRead DEF ToSet
    <2>3. FitsColumn(c)
      BY <2>2 DEF FitsTable, ListOf, ToSet
    <2>4. c.type.base \in Types /\ c.type.args \in Seq(Numbers)
      BY <2>3 DEF FitsColumn, RawTypes, Maybe
    <2> DEFINE split == SplitType(c.type)
               spec  == [ColumnOf(c) EXCEPT !.nullable = None, !.default = None]
               col   == CreatedAs(c.type)
    <2>5. /\ spec.type = c.type.base /\ spec.nullable = None /\ spec.default = None
          /\ \A l \in Limits : spec.limit[l] = split.limit[l]
      <3>1. split.type = c.type.base
        BY DEF SplitType
      <3>2. ColumnOf(c) = [name |-> c.name, type |-> split.type, nullable |-> c.nullable,
                           limit |-> [l \in Limits |-> IF c.limit[l] # None THEN c.limit[l]
                                                       ELSE split.limit[l]],
                           default |-> c.default]
        BY DEF ColumnOf
      <3> HIDE DEF split
      <3> QED
        BY <3>1, <3>2
    <2>6. NormaliseType(spec.type) = NormaliseType(col.type)
      <3>1. col.type = PostgresName(c.type.base)
        BY DEF CreatedAs
      <3> HIDE DEF spec, col
      <3> QED
        BY <2>5, <3>1, AliasesAreNames
    <2>7. \A l \in Limits : spec.limit[l] # None => spec.limit[l] = col.limit[l]
      BY <2>4, <2>5, LimitsAreReported
    <2> HIDE DEF spec, col
    <2>8. Contradictions(spec, col) = {}
      BY <2>5, <2>6, <2>7, NothingContradicts
    <2> QED
      BY <2>8 DEF spec, col
  <1> QED
    BY <1>1, ChainHolds, PTL

-----------------------------------------------------------------------------
(* What the pages show *)

LEMMA Renders ==
    ASSUME NEW doc \in Documents, Loads(doc)
    PROVE  ~CannotRender(doc)
  <1>1. ~CannotIndex(doc) /\ Iterate(doc.structure) = Items(doc.structure)
    BY ReadersAcceptIt, TablesAreRead
  <1>2. ASSUME NEW i \in DOMAIN Items(doc.structure)
        PROVE  LET e == Items(doc.structure)[i]
               IN  /\ e.primary_key.is # "scalar"
                   /\ ~Unwalkable(e.foreign_keys, {"columns", "references_columns"})
                   /\ ~Unwalkable(e.indexes, {"columns"})
    <2> DEFINE e == Items(doc.structure)[i]
    <2>1. FitsTable(e) /\ ReadTable(e) = "contract"
      BY TablesAreRead, ListsOfDocument
    <2> HIDE DEF e
    <2>2. /\ ReadNames(e.primary_key) = "contract"
          /\ e.foreign_keys.is \in {"null", "list"} /\ e.indexes.is \in {"null", "list"}
          /\ \A k \in DOMAIN Items(e.foreign_keys) :
                ReadForeignKey(Items(e.foreign_keys)[k]) = "contract"
          /\ \A k \in DOMAIN Items(e.indexes) : ReadIndex(Items(e.indexes)[k]) = "contract"
      BY <2>1, TableListsAreRead
    <2>3. e.primary_key.is # "scalar"
      BY <2>2 DEF ReadNames, Unless
    <2>4. ASSUME NEW k \in DOMAIN Items(e.foreign_keys)
          PROVE  /\ Items(e.foreign_keys)[k].is = "map"
                 /\ Items(e.foreign_keys)[k].columns.is # "scalar"
                 /\ Items(e.foreign_keys)[k].references_columns.is # "scalar"
      <3> DEFINE f == Items(e.foreign_keys)[k]
                 parts == <<ReadNames(f.columns), ReadNames(f.references_columns)>>
      <3>1. ReadForeignKey(f) = "contract"
        BY <2>2
      <3> HIDE DEF f
      <3>2. f.is = "map" /\ Ending(parts) = "contract"
        BY <3>1 DEF ReadForeignKey
      <3>3. parts[1] = "contract" /\ parts[2] = "contract"
        <4>1. DOMAIN parts = 1..2
          OBVIOUS
        <4> HIDE DEF parts
        <4> QED
          BY <3>2, <4>1, NothingRaised
      <3>4. f.columns.is # "scalar" /\ f.references_columns.is # "scalar"
        BY <3>3 DEF ReadNames, Unless
      <3> QED
        BY <3>2, <3>4 DEF f
    <2>5. ASSUME NEW k \in DOMAIN Items(e.indexes)
          PROVE  Items(e.indexes)[k].is = "map" /\ Items(e.indexes)[k].columns.is # "scalar"
      BY <2>2 DEF ReadIndex, ReadNames, Unless
    <2>6. ~Unwalkable(e.foreign_keys, {"columns", "references_columns"})
      BY <2>2, <2>4 DEF Unwalkable, ToSet
    <2>7. ~Unwalkable(e.indexes, {"columns"})
      BY <2>2, <2>5 DEF Unwalkable, ToSet
    <2> QED
      BY <2>3, <2>6, <2>7 DEF e
  <1> QED
    BY <1>1, <1>2 DEF CannotRender

LEMMA SizesAreNumbers ==
    ASSUME NEW seq \in Seq(Sizes)
    PROVE  seq \in Seq(Numbers)
  BY DEF Numbers

\* A plain type is read back from what the pages show of it.
LEMMA TypeReadBack ==
    ASSUME NEW c, FitsColumn(c), ReadColumn(c) = "contract", c.is = "map" => PlainType(c)
    PROVE  ReadBack(TypeShown(AsEntry(c))) = [type |-> ColumnOf(c).type, limit |-> ColumnOf(c).limit]
  <1> DEFINE shown == TypeShown(AsEntry(c))
  <1>1. CASE c.is = "text"
    <2>1. shown = [written |-> None, suffix |-> <<>>]
      BY <1>1 DEF TypeShown, AsEntry, NoLimits, Limits
    <2>2. SplitType(None) = [type |-> None, limit |-> NoLimits]
      BY DEF SplitType
    <2>3. ColumnOf(c).type = None /\ ColumnOf(c).limit = NoLimits
      BY <1>1 DEF ColumnOf
    <2> HIDE DEF shown
    <2>4. shown.suffix = <<>> /\ shown.written = None
      BY <2>1
    <2>5. ReadBack(shown) = SplitType(None)
      BY <2>4 DEF ReadBack
    <2> QED
      BY <2>2, <2>3, <2>5 DEF shown
  <1>2. CASE c.is = "map"
    <2> DEFINE split == SplitType(c.type)
               suffix == shown.suffix
               numbers == <<ReadNumber(c.limit["max_length"]), ReadNumber(c.limit["precision"]),
                            ReadNumber(c.limit["scale"])>>
               given == {l \in Limits : c.limit[l] # None}
               limit == [l \in Limits |-> IF c.limit[l] # None THEN c.limit[l] ELSE split.limit[l]]
    <2>1. AsEntry(c) = c /\ shown.written = c.type
      BY <1>2 DEF AsEntry, TypeShown
    <2>2. suffix = IF c.limit["max_length"] # None THEN <<c.limit["max_length"]>>
                   ELSE IF c.limit["precision"] = None THEN <<>>
                   ELSE IF c.limit["scale"] = None THEN <<c.limit["precision"]>>
                   ELSE <<c.limit["precision"], c.limit["scale"]>>
      BY <1>2 DEF AsEntry, TypeShown
    <2>3. ColumnOf(c).type = split.type /\ ColumnOf(c).limit = limit
      BY <1>2 DEF ColumnOf
    <2>4. \A l \in Limits : c.limit[l] # Word
      <3>1. Ending(numbers) = "contract"
        BY <1>2 DEF ReadColumn
      <3>2. \A i \in 1..3 : numbers[i] = "contract"
        <4>1. DOMAIN numbers = 1..3
          OBVIOUS
        <4> HIDE DEF numbers
        <4> QED
          BY <3>1, <4>1, NothingRaised
      <3> QED
        BY <3>2 DEF Limits, ReadNumber, Unless
    <2>5. c.limit \in [Limits -> Maybe(Numbers)] /\ c.type \in Maybe(RawTypes)
      BY <1>2 DEF FitsColumn
    <2>6. split.limit \in [Limits -> Maybe(Sizes)] /\ split = [type |-> split.type, limit |-> split.limit]
      <3>1. c.type # None => c.type.base \in Types /\ c.type.args \in Seq(Numbers)
        BY <2>5 DEF Maybe, RawTypes
      <3>2. split.limit \in [Limits -> Maybe(Sizes)]
        BY <3>1, TypeIsSplit
      <3>3. split = [type |-> split.type, limit |-> split.limit]
        BY DEF SplitType
      <3> QED
        BY <3>2, <3>3
    <2>7. \A l \in {"max_length", "precision", "scale"} : l \in Limits
      BY DEF Limits
    <2>8. PlainType(c) /\ (given = {} \/ /\ c.type # None /\ c.type.args = <<>>
                                         /\ given \in IF c.type.base \in CharTypes
                                                      THEN {{"max_length"}}
                                                      ELSE {{"precision"}, {"precision", "scale"}})
      BY <1>2 DEF PlainType
    <2>9. CASE given = {}
      <3>1. \A l \in Limits : c.limit[l] = None
        BY <2>9
      <3>2. suffix = <<>>
        BY <2>2, <2>7, <3>1
      <3>3. limit = split.limit
        <4> HIDE DEF split
        <4> QED
          BY <2>6, <3>1
      <3>4. ReadBack(shown) = split
        BY <2>1, <3>2 DEF ReadBack
      <3> HIDE DEF split, limit, shown
      <3>5. ReadBack(shown) = [type |-> ColumnOf(c).type, limit |-> ColumnOf(c).limit]
        BY <2>3, <2>6, <3>3, <3>4
      <3> QED
        BY <3>5 DEF shown
    <2>10. CASE given # {}
      <3> DEFINE base == c.type.base
                 raw  == [base |-> base, args |-> suffix]
      <3>1. /\ c.type # None /\ c.type.args = <<>> /\ base \in Types
        BY <2>5, <2>8, <2>10 DEF Maybe, RawTypes
      <3>2. \/ base \in CharTypes /\ given = {"max_length"}
            \/ base \notin CharTypes /\ given = {"precision"}
            \/ base \notin CharTypes /\ given = {"precision", "scale"}
        BY <2>8, <2>10
      <3>3. split.type = base /\ split.limit = NoLimits
        <4>1. Parameters(base, <<>>) = NoLimits
          BY DEF Parameters
        <4>2. ~ \E i \in DOMAIN c.type.args : c.type.args[i] = Word
          BY <3>1
        <4> QED
          BY <3>1, <4>1, <4>2 DEF SplitType
      <3>4. ColumnOf(c).type = base
            /\ ColumnOf(c).limit = [l \in Limits |-> IF l \in given THEN c.limit[l] ELSE None]
        <4> HIDE DEF split
        <4>1. \A l \in Limits : split.limit[l] = None
          BY <3>3 DEF NoLimits
        <4> QED
          BY <2>3, <3>3, <4>1
      <3>5. suffix # <<>> /\ suffix \in Seq(Sizes) /\ Parameters(base, suffix) = ColumnOf(c).limit
        <4>1. CASE base \in CharTypes /\ given = {"max_length"}
          <5>1. suffix = <<c.limit["max_length"]>> /\ c.limit["max_length"] \in Sizes
            <6>1. "max_length" \in given
              BY <4>1
            <6> QED
              BY <2>2, <2>4, <2>5, <6>1 DEF Maybe, Numbers
          <5>2. Parameters(base, suffix) = [NoLimits EXCEPT !["max_length"] = c.limit["max_length"]]
            <6> HIDE DEF suffix, base
            <6>1. suffix # <<>> /\ Len(suffix) = 1 /\ suffix[1] = c.limit["max_length"]
              BY <5>1
            <6> QED
              BY <4>1, <6>1 DEF Parameters
          <5> QED
            BY <3>4, <4>1, <5>1, <5>2 DEF NoLimits
        <4>2. CASE base \notin CharTypes /\ given = {"precision"}
          <5>1. suffix = <<c.limit["precision"]>> /\ c.limit["precision"] \in Sizes
            <6>1. "precision" \in given /\ "max_length" \notin given /\ "scale" \notin given
              BY <4>2
            <6>2. c.limit["max_length"] = None /\ c.limit["scale"] = None
              BY <2>7, <6>1
            <6> QED
              BY <2>2, <2>4, <2>5, <6>1, <6>2 DEF Maybe, Numbers
          <5>2. Parameters(base, suffix) = [NoLimits EXCEPT !["precision"] = c.limit["precision"]]
            <6> HIDE DEF suffix, base
            <6>1. suffix # <<>> /\ Len(suffix) = 1 /\ suffix[1] = c.limit["precision"]
              BY <5>1
            <6> QED
              BY <4>2, <6>1 DEF Parameters
          <5> QED
            BY <3>4, <4>2, <5>1, <5>2 DEF NoLimits
        <4>3. CASE base \notin CharTypes /\ given = {"precision", "scale"}
          <5>1. /\ suffix = <<c.limit["precision"], c.limit["scale"]>>
                /\ c.limit["precision"] \in Sizes /\ c.limit["scale"] \in Sizes
            <6>1. "precision" \in given /\ "max_length" \notin given /\ "scale" \in given
              BY <4>3
            <6>2. c.limit["max_length"] = None
              BY <2>7, <6>1
            <6> QED
              BY <2>2, <2>4, <2>5, <6>1, <6>2 DEF Maybe, Numbers
          <5>2. Parameters(base, suffix) = [NoLimits EXCEPT !["precision"] = c.limit["precision"],
                                                            !["scale"] = c.limit["scale"]]
            <6> HIDE DEF suffix, base
            <6>1. /\ suffix # <<>> /\ Len(suffix) = 2 /\ suffix[1] = c.limit["precision"]
                  /\ suffix[2] = c.limit["scale"]
              BY <5>1
            <6>2. Len(suffix) # 1 /\ Len(suffix) >= 2
              BY <6>1
            <6> QED
              BY <6>1, <6>2 DEF Parameters
          <5> QED
            BY <3>4, <4>3, <5>1, <5>2 DEF NoLimits
        <4> QED
          BY <3>2, <4>1, <4>2, <4>3
      <3> HIDE DEF suffix
      <3>6. \A i \in DOMAIN suffix : suffix[i] # Word
        BY <3>5, ReleasesAssumption
      <3>7. raw # None
        <4>1. suffix \in Seq(Numbers)
          BY <3>5, SizesAreNumbers
        <4>2. raw \in RawTypes
          BY <3>1, <4>1 DEF RawTypes
        <4> QED
          BY <4>2, ReleasesAssumption
      <3>8. SplitType(raw) = [type |-> base, limit |-> Parameters(base, suffix)]
        BY <3>6, <3>7 DEF SplitType
      <3>9. ReadBack(shown) = SplitType(raw)
        BY <2>1, <3>5 DEF ReadBack, suffix
      <3> QED
        BY <3>4, <3>5, <3>8, <3>9
    <2> QED
      BY <2>9, <2>10
  <1> QED
    BY <1>1, <1>2 DEF ReadColumn

\* The rows of a table that is read are those of its entries.
LEMMA RowsAre ==
    ASSUME NEW e, FitsTable(e), ReadTable(e) = "contract"
    PROVE  /\ DOMAIN Rows(e) = DOMAIN Items(e.columns)
           /\ \A j \in DOMAIN Items(e.columns) :
                 Rows(e)[j] = Row(AsEntry(Items(e.columns)[j]), KeyMarks(e))
  <1> DEFINE entries == Items(e.columns)
             kept    == Selected(entries, IsColumn)
             places  == {i \in DOMAIN entries : IsColumn(entries[i])}
  <1>1. IsList(e.columns) /\ ReadEntries(e.columns, ReadColumn) = "contract"
    BY TableListsAreRead
  <1>2. Iterate(e.columns) = entries /\ \A j \in DOMAIN entries : IsColumn(entries[j])
    BY <1>1, ColumnsAreRead
  <1>3. PICK n \in Nat : DOMAIN entries = 1..n
    BY <1>1, ItemsAreNumbered
  <1>4. places = 1..n
    BY <1>2, <1>3
  <1>5. kept = [k \in 1..Cardinality(places) |-> entries[Nth(places, k)]]
    BY DEF Selected
  <1> HIDE DEF kept, places
  <1>6. DOMAIN kept = 1..n /\ \A k \in 1..n : kept[k] = entries[k]
    <2> HIDE DEF entries
    <2>1. kept = [k \in 1..Cardinality(1..n) |-> entries[Nth(1..n, k)]]
      BY <1>4, <1>5
    <2>2. Cardinality(1..n) = n /\ \A k \in 1..n : Nth(1..n, k) = k
      BY NthOfAll
    <2> QED
      BY <2>1, <2>2
  <1>7. Rows(e) = [j \in DOMAIN kept |-> Row(AsEntry(kept[j]), KeyMarks(e))]
    BY <1>2 DEF Rows, kept
  <1> QED
    BY <1>3, <1>6, <1>7

LEMMA PagesAre ==
    ASSUME NEW doc \in Documents, Loads(doc)
    PROVE  /\ DOMAIN Pages(doc) = DOMAIN Items(doc.structure)
           /\ \A i \in DOMAIN Items(doc.structure) :
                 LET e == Items(doc.structure)[i]
                 IN  Pages(doc)[i] = [name |-> e.name, rows |-> Rows(e), relations |-> Relations(e)]
  <1> DEFINE entries == Items(doc.structure)
             kept    == Selected(entries, IsTable)
             places  == {i \in DOMAIN entries : IsTable(entries[i])}
  <1>1. Iterate(doc.structure) = entries /\ \A i \in DOMAIN entries : IsTable(entries[i])
    BY TablesAreNumbered
  <1>2. PICK n \in Nat : DOMAIN entries = 1..n
    BY TablesAreNumbered
  <1>3. places = 1..n
    BY <1>1, <1>2
  <1>4. kept = [k \in 1..Cardinality(places) |-> entries[Nth(places, k)]]
    BY DEF Selected
  <1> HIDE DEF kept, places
  <1>5. DOMAIN kept = 1..n /\ \A k \in 1..n : kept[k] = entries[k]
    <2> HIDE DEF entries
    <2>1. kept = [k \in 1..Cardinality(1..n) |-> entries[Nth(1..n, k)]]
      BY <1>3, <1>4
    <2>2. Cardinality(1..n) = n /\ \A k \in 1..n : Nth(1..n, k) = k
      BY NthOfAll
    <2> QED
      BY <2>1, <2>2
  <1>6. Pages(doc) = [i \in DOMAIN kept |-> [name |-> kept[i].name, rows |-> Rows(kept[i]),
                                             relations |-> Relations(kept[i])]]
    BY <1>1 DEF Pages, kept
  <1> QED
    BY <1>2, <1>5, <1>6

\* The marks of the keys and the relations of a plain table are its contract's.
LEMMA MarksAre ==
    ASSUME NEW e, FitsTable(e), ReadTable(e) = "contract", e.primary_key.is # "text",
           \A f \in ToSet(Items(e.foreign_keys)) : f.columns.is # "text" /\ f.references_table # None
    PROVE  /\ KeyMarks(e).pk = ToSet(TableOf(e).primary_key)
           /\ \A n : n \in KeyMarks(e).fk
                        <=> \E fk \in ToSet(TableOf(e).foreign_keys) : n \in ToSet(fk.columns)
           /\ Relations(e) = {<<fk.references_table, fk.columns>> :
                                 fk \in ToSet(TableOf(e).foreign_keys)}
  <1> DEFINE keys  == Items(e.foreign_keys)
             specs == TableOf(e).foreign_keys
  <1>1. KeyMarks(e).pk = ToSet(TableOf(e).primary_key)
    <2>1. TableOf(e).primary_key = Items(e.primary_key)
      BY DEF TableOf, NamesOf
    <2>2. KeyMarks(e).pk = ToSet(Items(e.primary_key))
      BY DEF KeyMarks, NameSet, ListNames
    <2> QED
      BY <2>1, <2>2
  <1>2. /\ DOMAIN specs = DOMAIN keys
        /\ \A i \in DOMAIN keys : /\ specs[i].columns = Items(keys[i].columns)
                                  /\ specs[i].references_table = keys[i].references_table
    <2>1. specs = [i \in DOMAIN keys |-> ForeignKeyOf(keys[i])]
      BY DEF TableOf, Each
    <2>2. ASSUME NEW i \in DOMAIN keys
          PROVE  /\ ForeignKeyOf(keys[i]).columns = Items(keys[i].columns)
                 /\ ForeignKeyOf(keys[i]).references_table = keys[i].references_table
      <3>1. keys[i].columns.is # "text" /\ keys[i].references_table # None
        BY DEF ToSet
      <3> QED
        BY <3>1 DEF ForeignKeyOf, NamesOf, Referenced
    <2> QED
      BY <2>1, <2>2
  <1>3. \A f \in ToSet(keys) : /\ ListNames(f.columns) = Items(f.columns)
                               /\ NameSet(f.columns) = ToSet(Items(f.columns))
    BY DEF ListNames, NameSet
  <1>4. KeyMarks(e).fk = UNION {NameSet(f.columns) : f \in ToSet(keys)}
    BY DEF KeyMarks
  <1>5. Relations(e) = {<<f.references_table, ListNames(f.columns)>> :
                           f \in {g \in ToSet(keys) : g.references_table # None}}
    BY DEF Relations
  <1>6. /\ \A f \in ToSet(keys) : f.references_table # None
        /\ ToSet(keys) = {keys[i] : i \in DOMAIN keys}
        /\ ToSet(specs) = {specs[i] : i \in DOMAIN specs}
    BY DEF ToSet
  <1> HIDE DEF keys, specs
  <1>7. ASSUME NEW n
        PROVE  n \in KeyMarks(e).fk <=> \E fk \in ToSet(specs) : n \in ToSet(fk.columns)
    <2>1. n \in KeyMarks(e).fk <=> \E f \in ToSet(keys) : n \in ToSet(Items(f.columns))
      BY <1>3, <1>4
    <2> QED
      BY <1>2, <1>6, <2>1
  <1>8. Relations(e) = {<<f.references_table, Items(f.columns)>> : f \in ToSet(keys)}
    BY <1>3, <1>5, <1>6
  <1>9. {<<f.references_table, Items(f.columns)>> : f \in ToSet(keys)}
           = {<<keys[i].references_table, Items(keys[i].columns)>> : i \in DOMAIN keys}
    BY <1>6
  <1>10. {<<fk.references_table, fk.columns>> : fk \in ToSet(specs)}
           = {<<specs[i].references_table, specs[i].columns>> : i \in DOMAIN specs}
    BY <1>6
  <1>11. {<<specs[i].references_table, specs[i].columns>> : i \in DOMAIN specs}
           = {<<keys[i].references_table, Items(keys[i].columns)>> : i \in DOMAIN keys}
    BY <1>2
  <1>12. Relations(e) = {<<fk.references_table, fk.columns>> : fk \in ToSet(specs)}
    BY <1>8, <1>9, <1>10, <1>11
  <1> QED
    BY <1>1, <1>7, <1>12 DEF specs

\* Each row of a page shows its column of the contract.
LEMMA RowIsShown ==
    ASSUME NEW e, FitsTable(e), ReadTable(e) = "contract", e.primary_key.is # "text",
           \A f \in ToSet(Items(e.foreign_keys)) : f.columns.is # "text" /\ f.references_table # None,
           \A c \in ToSet(Items(e.columns)) : c.is = "map" => PlainType(c),
           NEW j \in DOMAIN Items(e.columns)
    PROVE  RowShows(Rows(e)[j], ColumnOf(Items(e.columns)[j]), TableOf(e))
  <1> DEFINE c   == Items(e.columns)[j]
             row == Rows(e)[j]
             col == ColumnOf(c)
  <1>1. e.is = "map" /\ ReadColumn(c) = "contract"
    BY TableListsAreRead
  <1>2. FitsColumn(c) /\ (c.is = "map" => PlainType(c))
    BY <1>1 DEF FitsTable, ListOf, ToSet
  <1>3. row = Row(AsEntry(c), KeyMarks(e))
    BY RowsAre
  <1> HIDE DEF c, row
  <1>4. /\ row.name = AsEntry(c).name /\ row.nullable = AsEntry(c).nullable
        /\ row.type = TypeShown(AsEntry(c))
        /\ row.pk = (AsEntry(c).name \in KeyMarks(e).pk)
        /\ row.fk = (AsEntry(c).name \in KeyMarks(e).fk)
    BY <1>3 DEF Row
  <1>5. col.name = AsEntry(c).name /\ col.nullable = AsEntry(c).nullable
    <2>1. CASE c.is = "text"
      BY <2>1 DEF ColumnOf, AsEntry
    <2>2. CASE c.is = "map"
      BY <2>2 DEF ColumnOf, AsEntry
    <2> QED
      BY <1>1, <2>1, <2>2 DEF ReadColumn
  <1>6. ReadBack(row.type) = [type |-> col.type, limit |-> col.limit]
    BY <1>1, <1>2, <1>4, TypeReadBack
  <1> HIDE DEF col
  <1>7. /\ KeyMarks(e).pk = ToSet(TableOf(e).primary_key)
        /\ \A n : n \in KeyMarks(e).fk
                     <=> \E fk \in ToSet(TableOf(e).foreign_keys) : n \in ToSet(fk.columns)
    BY MarksAre
  <1>8. row.pk <=> col.name \in ToSet(TableOf(e).primary_key)
    BY <1>4, <1>5, <1>7, Zenon
  <1>9. row.fk <=> \E fk \in ToSet(TableOf(e).foreign_keys) : col.name \in ToSet(fk.columns)
    BY <1>4, <1>5, <1>7, Zenon
  <1>10. RowShows(row, col, TableOf(e))
    BY <1>4, <1>5, <1>6, <1>8, <1>9, Zenon DEF RowShows
  <1> QED
    BY <1>10 DEF row, col, c

\* The pages made of a plain document that is read without an exception tell
\* its columns, types, nullability, keys and relations as the parser reads
\* them (docsgen.py:43-62, 90).
THEOREM PagesShowContract == Spec => []DocsShowContract
  <1>1. Chain => DocsShowContract
    <2> SUFFICES ASSUME Chain, Loads(released), Plain(released)
                 PROVE  DocsShowContract
      BY DEF DocsShowContract
    <2> DEFINE entries == Items(released.structure)
               tables  == ContractOf(released).structure
               pages   == Pages(released)
    <2>1. released \in Documents
      BY DEF Chain
    <2>2. ~CannotRender(released)
      BY <2>1, Renders
    <2>3. DOMAIN tables = DOMAIN entries /\ \A i \in DOMAIN entries : tables[i] = TableOf(entries[i])
      BY DEF ContractOf, Each
    <2>4. /\ DOMAIN pages = DOMAIN entries
          /\ \A i \in DOMAIN entries :
                pages[i] = [name |-> entries[i].name, rows |-> Rows(entries[i]),
                            relations |-> Relations(entries[i])]
      BY <2>1, PagesAre
    <2>5. \A i \in DOMAIN entries :
             /\ FitsTable(entries[i]) /\ ReadTable(entries[i]) = "contract"
             /\ entries[i].primary_key.is # "text"
             /\ \A f \in ToSet(Items(entries[i].foreign_keys)) :
                   f.columns.is # "text" /\ f.references_table # None
             /\ \A c \in ToSet(Items(entries[i].columns)) : c.is = "map" => PlainType(c)
      BY <2>1, TablesAreRead, ListsOfDocument DEF Plain, ToSet
    <2> HIDE DEF entries, tables, pages
    <2>6. ASSUME NEW i \in DOMAIN tables
          PROVE  /\ pages[i].name = tables[i].name
                 /\ DOMAIN pages[i].rows = DOMAIN tables[i].columns
                 /\ \A j \in DOMAIN tables[i].columns :
                       RowShows(pages[i].rows[j], tables[i].columns[j], tables[i])
                 /\ pages[i].relations = {<<fk.references_table, fk.columns>> :
                                             fk \in ToSet(tables[i].foreign_keys)}
      <3> DEFINE e == entries[i]
      <3>1. /\ tables[i] = TableOf(e)
            /\ pages[i] = [name |-> e.name, rows |-> Rows(e), relations |-> Relations(e)]
        BY <2>3, <2>4
      <3>2. /\ FitsTable(e) /\ ReadTable(e) = "contract" /\ e.primary_key.is # "text"
            /\ \A f \in ToSet(Items(e.foreign_keys)) : f.columns.is # "text" /\ f.references_table # None
            /\ \A c \in ToSet(Items(e.columns)) : c.is = "map" => PlainType(c)
        BY <2>3, <2>5
      <3> HIDE DEF e
      <3>3. /\ TableOf(e).name = e.name
            /\ DOMAIN TableOf(e).columns = DOMAIN Items(e.columns)
            /\ \A j \in DOMAIN Items(e.columns) : TableOf(e).columns[j] = ColumnOf(Items(e.columns)[j])
        BY DEF TableOf, Each
      <3>4. DOMAIN Rows(e) = DOMAIN Items(e.columns)
        BY <3>2, RowsAre
      <3>5. \A j \in DOMAIN Items(e.columns) :
               RowShows(Rows(e)[j], TableOf(e).columns[j], TableOf(e))
        BY <3>2, <3>3, RowIsShown
      <3>6. Relations(e) = {<<fk.references_table, fk.columns>> :
                               fk \in ToSet(TableOf(e).foreign_keys)}
        BY <3>2, MarksAre
      <3>7. /\ pages[i].name = e.name /\ pages[i].rows = Rows(e)
            /\ pages[i].relations = Relations(e)
        BY <3>1
      <3> QED
        BY <3>1, <3>3, <3>4, <3>5, <3>6, <3>7
    <2> QED
      BY <2>2, <2>3, <2>4, <2>6 DEF DocsShowContract, tables, pages
  <1> QED
    BY <1>1, ChainHolds, PTL
=============================================================================
