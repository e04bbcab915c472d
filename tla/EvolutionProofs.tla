--------------------------- MODULE EvolutionProofs ---------------------------
(***************************************************************************)
(* The verdicts of Evolution, for every contract and every database.       *)
(***************************************************************************)
EXTENDS Evolution, ChecksProofs, CountingLemmas, FiniteSetTheorems

\* Whatever the database evolves into, the six checks pass exactly when it is
\* what the contract means (checks/*.py, status_from_findings).
THEOREM PassAlwaysIffConforms == Spec => []PassIffConforms
  <1>1. PassIffConforms
    BY PassesIffConforms DEF PassIffConforms
  <1> QED
    BY <1>1, PTL

\* A migration that only adds never turns a PASS into a FAIL, under a contract
\* that tolerates extra objects: partial contracts stay valid (drift.py:5).
THEOREM AdditionsAlwaysKeepPass == Spec => AdditionsKeepPass
  <1>1. [Next]_vars =>
          [db' # db /\ Extends(Live, Live') /\ Lenient(contract) /\ Passes(contract, Live)
             => Passes(contract, Live')]_vars
    <2> SUFFICES ASSUME Extends(Live, Live'), Lenient(contract), Passes(contract, Live)
                 PROVE  Passes(contract, Live')
      OBVIOUS
    <2>1. Conforms(contract, Live')
      BY PassesIffConforms, AdditionsKeepConforming
    <2> QED
      BY <2>1, PassesIffConforms
  <1> QED
    BY <1>1, PTL DEF Spec, AdditionsKeepPass
-----------------------------------------------------------------------------
(* The database stays coherent and finite. *)

\* What every reachable catalogue has of relation r, of name t: it is well
\* formed, its types have their own names, its keys and indexes are over its
\* columns, its foreign keys refer to other tables, and it is finite.
SoundRelation(r, t, tables) ==
    /\ IsRelation(r)
    /\ \A c \in DOMAIN r.columns : Canonical(r.columns[c])
    /\ \A i \in DOMAIN r.primary_key :
          /\ r.primary_key[i] \in DOMAIN r.columns
          /\ ~r.columns[r.primary_key[i]].nullable
    /\ \A fk \in r.foreign_keys :
          /\ \A i \in DOMAIN fk.columns : fk.columns[i] \in DOMAIN r.columns
          /\ fk.referenced_table \in tables /\ fk.referenced_table # t
    /\ \A x \in r.indexes :
          /\ x.keys # <<>>
          /\ \A i \in DOMAIN x.keys : x.keys[i] \in DOMAIN r.columns \cup {Expression}
          /\ \A i \in DOMAIN x.included : x.included[i] \in DOMAIN r.columns
    /\ IsFiniteSet(DOMAIN r.columns)
    /\ IsFiniteSet(r.foreign_keys)
    /\ IsFiniteSet(r.indexes)

Sound(d) ==
    /\ IsFiniteSet(DOMAIN d)
    /\ \A t \in DOMAIN d : t \in Names /\ SoundRelation(d[t], t, TablesIn(d))

LEMMA SoundIs ==
    ASSUME NEW d
    PROVE  Sound(d) <=>
             /\ Coherent(d) /\ Finite(d) /\ NoSelfReference(d)
             /\ \A t \in DOMAIN d : \A c \in DOMAIN d[t].columns : Canonical(d[t].columns[c])
  BY DEF Sound, SoundRelation, Coherent, Finite, NoSelfReference

LEMMA Dropping ==
    ASSUME NEW f, NEW n
    PROVE  /\ DOMAIN Without(f, n) = DOMAIN f \ {n}
           /\ \A x \in DOMAIN Without(f, n) : Without(f, n)[x] = f[x]
  BY DEF Without

\* Relation t is created, or redefined without becoming a view.
LEMMA BindSound ==
    ASSUME NEW d, Sound(d), NEW t \in Names, NEW r,
           SoundRelation(r, t, TablesIn(d)),
           t \in TablesIn(d) => r.kind \in {"r", "p"}
    PROVE  Sound(Bind(d, t, r))
  <1> DEFINE e == Bind(d, t, r)
  <1>1. /\ DOMAIN e = DOMAIN d \cup {t}
        /\ e[t] = r
        /\ \A u \in DOMAIN d \ {t} : e[u] = d[u]
    BY DEF Bind
  <1> HIDE DEF e
  <1>2. TablesIn(d) \subseteq TablesIn(e)
    BY <1>1 DEF TablesIn
  <1>3. IsFiniteSet(DOMAIN e)
    <2>1. IsFiniteSet(DOMAIN d)
      BY DEF Sound
    <2>2. IsFiniteSet(DOMAIN d \cup {t})
      BY <2>1, FS_AddElement
    <2> QED
      BY <1>1, <2>2
  <1>4. ASSUME NEW u \in DOMAIN e
        PROVE  u \in Names /\ SoundRelation(e[u], u, TablesIn(d))
    BY <1>1 DEF Sound
  <1>5. ASSUME NEW u \in DOMAIN e
        PROVE  SoundRelation(e[u], u, TablesIn(e))
    BY <1>2, <1>4 DEF SoundRelation
  <1>6. Sound(e)
    BY <1>3, <1>4, <1>5 DEF Sound
  <1> QED
    BY <1>6 DEF e

\* A relation that no other refers to can go.
LEMMA WithoutSound ==
    ASSUME NEW d, Sound(d), NEW t, ReferencedBy(d, t) = {}
    PROVE  Sound(Without(d, t))
  <1> DEFINE e == Without(d, t)
  <1>1. /\ DOMAIN e = DOMAIN d \ {t}
        /\ \A u \in DOMAIN e : e[u] = d[u]
    BY Dropping
  <1> HIDE DEF e
  <1>2. TablesIn(e) = TablesIn(d) \ {t}
    BY <1>1 DEF TablesIn
  <1>3. IsFiniteSet(DOMAIN e)
    BY <1>1, FS_RemoveElement DEF Sound
  <1>4. ASSUME NEW u \in DOMAIN e
        PROVE  u \in Names /\ SoundRelation(d[u], u, TablesIn(d))
    BY <1>1 DEF Sound
  <1>5. ASSUME NEW u \in DOMAIN e
        PROVE  \A fk \in d[u].foreign_keys : fk.referenced_table # t
    BY <1>1 DEF ReferencedBy
  <1>6. ASSUME NEW u \in DOMAIN e
        PROVE  SoundRelation(e[u], u, TablesIn(e))
    <2>1. SoundRelation(d[u], u, TablesIn(e))
      BY <1>2, <1>4, <1>5 DEF SoundRelation
    <2> QED
      BY <1>1, <2>1
  <1>7. Sound(e)
    BY <1>3, <1>4, <1>6 DEF Sound
  <1> QED
    BY <1>7 DEF e

LEMMA CreateTableSound ==
    ASSUME NEW d, Sound(d), NEW kind \in Kinds, NEW e \in CreateTable(d, kind)
    PROVE  Sound(e)
  <1>1. PICK t \in RelationNames \ DOMAIN d, c \in ColumnNames, shape \in ColumnShapes :
           e = Bind(d, t, BareRelation(kind, One(c, shape)))
    BY DEF CreateTable
  <1> DEFINE r == BareRelation(kind, One(c, shape))
  <1>2. /\ t \in Names /\ c \in Names /\ shape \in Column /\ Canonical(shape)
        /\ t \notin TablesIn(d)
    BY MigrationsAreTyped, EvolutionAssumption DEF TablesIn
  <1>3. /\ r.kind = kind /\ r.primary_key = <<>> /\ r.foreign_keys = {} /\ r.indexes = {}
        /\ DOMAIN r.columns = {c}
        /\ r.columns[c] = shape
    BY DEF BareRelation, One
  <1>4. IsRelation(r)
    <2>1. r \in [kind : Kinds, columns : {r.columns}, primary_key : Seq(Names),
                 foreign_keys : SUBSET ForeignKey, indexes : SUBSET CatalogueIndex]
      BY DEF BareRelation
    <2> QED
      BY <1>2, <1>3, <2>1 DEF IsRelation
  <1> HIDE DEF r
  <1>5. SoundRelation(r, t, TablesIn(d))
    <2>1. IsFiniteSet({c}) /\ IsFiniteSet({})
      BY FS_Singleton, FS_EmptySet
    <2> QED
      BY <1>2, <1>3, <1>4, <2>1 DEF SoundRelation
  <1> QED
    BY <1>1, <1>2, <1>5, BindSound DEF r

\* A column that is in no key of its relation, or stays NOT NULL, is added or
\* redefined.
LEMMA RedefineSound ==
    ASSUME NEW d, Sound(d), NEW t \in DOMAIN d, NEW c \in Names, NEW shape \in ColumnShapes,
           \A i \in DOMAIN d[t].primary_key : d[t].primary_key[i] = c => ~shape.nullable
    PROVE  Sound(Redefine(d, t, c, shape))
  <1> DEFINE old == d[t]
             columns == Bind(old.columns, c, shape)
             r == [old EXCEPT !.columns = columns]
  <1>0. shape \in Column /\ Canonical(shape)
    BY MigrationsAreTyped, EvolutionAssumption
  <1>1. t \in Names /\ SoundRelation(old, t, TablesIn(d))
    BY DEF Sound
  <1>2. /\ DOMAIN columns = DOMAIN old.columns \cup {c}
        /\ columns[c] = shape
        /\ \A x \in DOMAIN old.columns \ {c} : columns[x] = old.columns[x]
    BY DEF Bind
  <1>3. IsFiniteSet(DOMAIN columns)
    <2>1. IsFiniteSet(DOMAIN old.columns)
      BY <1>1 DEF SoundRelation
    <2>2. IsFiniteSet(DOMAIN old.columns \cup {c})
      BY <2>1, FS_AddElement
    <2> QED
      BY <1>2, <2>2
  <1>4. r = [d[t] EXCEPT !.columns = Bind(@, c, shape)]
    OBVIOUS
  <1>5. IsRelation(old)
    BY <1>1 DEF SoundRelation
  <1> HIDE DEF columns, old
  <1>6. /\ r.kind = old.kind /\ r.primary_key = old.primary_key
        /\ r.foreign_keys = old.foreign_keys /\ r.indexes = old.indexes
        /\ r.columns = columns
        /\ r \in [kind : Kinds, columns : {columns}, primary_key : Seq(Names),
                  foreign_keys : SUBSET ForeignKey, indexes : SUBSET CatalogueIndex]
    BY <1>5 DEF IsRelation
  <1>7. t \in TablesIn(d) => old.kind \in {"r", "p"}
    BY DEF TablesIn, old
  <1> HIDE DEF r
  <1>8. IsRelation(r)
    BY <1>0, <1>2, <1>5, <1>6 DEF IsRelation
  <1>9. SoundRelation(r, t, TablesIn(d))
    <2>1. \A i \in DOMAIN r.primary_key :
             /\ r.primary_key[i] \in DOMAIN r.columns
             /\ ~r.columns[r.primary_key[i]].nullable
      BY <1>1, <1>2, <1>6 DEF SoundRelation, old
    <2> QED
      BY <1>0, <1>1, <1>2, <1>3, <1>6, <1>8, <2>1 DEF SoundRelation
  <1> QED
    BY <1>1, <1>4, <1>6, <1>7, <1>9, BindSound DEF Redefine

LEMMA ColumnsAreIn ==
    ASSUME NEW d, Sound(d), NEW x \in ColumnsIn(d)
    PROVE  /\ x[1] \in DOMAIN d /\ x[1] \in TablesIn(d) /\ x[1] \in Names
           /\ x[2] \in DOMAIN d[x[1]].columns /\ x[2] \in Names
           /\ SoundRelation(d[x[1]], x[1], TablesIn(d))
  BY MigrationsAreTyped DEF ColumnsIn, TablesIn, Sound

LEMMA AddColumnSound ==
    ASSUME NEW d, Sound(d), NEW e \in AddColumn(d)
    PROVE  Sound(e)
  <1>1. PICK x \in FreeColumns(d), shape \in ColumnShapes : e = Redefine(d, x[1], x[2], shape)
    BY DEF AddColumn
  <1>2. /\ x[1] \in DOMAIN d /\ x[2] \notin DOMAIN d[x[1]].columns
        /\ x[2] \in Names
    BY MigrationsAreTyped DEF FreeColumns, ColumnsIn, TablesIn
  <1>3. \A i \in DOMAIN d[x[1]].primary_key : d[x[1]].primary_key[i] # x[2]
    BY <1>2 DEF Sound, SoundRelation
  <1> QED
    BY <1>1, <1>2, <1>3, RedefineSound

LEMMA AlterColumnSound ==
    ASSUME NEW d, Sound(d), NEW e \in AlterColumn(d)
    PROVE  Sound(e)
  <1>1. PICK y \in ColumnsIn(d) \X ColumnShapes :
           /\ y[2].nullable => ~InSeq(y[1][2], d[y[1][1]].primary_key)
           /\ e = Redefine(d, y[1][1], y[1][2], y[2])
    BY DEF AlterColumn
  <1> DEFINE x == y[1]
             shape == y[2]
  <1>2. x \in ColumnsIn(d) /\ shape \in ColumnShapes
    OBVIOUS
  <1>3. /\ shape.nullable => ~InSeq(x[2], d[x[1]].primary_key)
        /\ e = Redefine(d, x[1], x[2], shape)
    BY <1>1
  <1> HIDE DEF x, shape
  <1>4. x[1] \in DOMAIN d /\ x[2] \in Names
    BY <1>2, ColumnsAreIn
  <1>5. \A i \in DOMAIN d[x[1]].primary_key : d[x[1]].primary_key[i] = x[2] => ~shape.nullable
    BY <1>3 DEF InSeq
  <1> QED
    BY <1>2, <1>3, <1>4, <1>5, RedefineSound

LEMMA AddPrimaryKeySound ==
    ASSUME NEW d, Sound(d), NEW e \in AddPrimaryKey(d)
    PROVE  Sound(e)
  <1> DEFINE index(y) == [name |-> y[1], keys |-> <<y[2]>>, included |-> <<>>,
                          unique |-> TRUE, primary |-> TRUE]
             new(y)   == [d[y[1]] EXCEPT !.primary_key = <<y[2]>>,
                                         !.indexes = @ \cup {index(y)}]
  <1>1. PICK x \in ColumnsIn(d) :
           ~d[x[1]].columns[x[2]].nullable /\ e = Bind(d, x[1], new(x))
    BY DEF AddPrimaryKey
  <1> DEFINE t == x[1]  c == x[2]  old == d[t]  r == new(x)
  <1>2. /\ t \in DOMAIN d /\ t \in Names /\ c \in DOMAIN old.columns /\ c \in Names
        /\ SoundRelation(old, t, TablesIn(d))
    BY ColumnsAreIn
  <1>3. ~old.columns[c].nullable
    BY <1>1
  <1>4. t \in TablesIn(d) => old.kind \in {"r", "p"}
    BY DEF TablesIn
  <1>5. index(x) = [name |-> t, keys |-> <<c>>, included |-> <<>>, unique |-> TRUE, primary |-> TRUE]
    OBVIOUS
  <1>6. r = [old EXCEPT !.primary_key = <<c>>, !.indexes = old.indexes \cup {index(x)}]
    OBVIOUS
  <1> HIDE DEF t, c, old, index, new
  <1>7. index(x) \in CatalogueIndex
    BY <1>2, <1>5 DEF CatalogueIndex
  <1>8. IsFiniteSet(old.indexes \cup {index(x)})
    BY <1>2, FS_AddElement DEF SoundRelation
  <1>9. /\ r.kind = old.kind /\ r.primary_key = <<c>> /\ r.columns = old.columns
        /\ r.foreign_keys = old.foreign_keys /\ r.indexes = old.indexes \cup {index(x)}
        /\ IsRelation(r)
    <2>1. IsRelation(old)
      BY <1>2 DEF SoundRelation
    <2>2. old \in [kind : Kinds, columns : {old.columns}, primary_key : Seq(Names),
                  foreign_keys : SUBSET ForeignKey, indexes : SUBSET CatalogueIndex]
      BY <2>1 DEF IsRelation
    <2>3. /\ r.kind = old.kind /\ r.primary_key = <<c>> /\ r.columns = old.columns
          /\ r.foreign_keys = old.foreign_keys /\ r.indexes = old.indexes \cup {index(x)}
          /\ DOMAIN r = {"kind", "columns", "primary_key", "foreign_keys", "indexes"}
      BY <1>6, <2>2
    <2>4. r \in [kind : Kinds, columns : {r.columns}, primary_key : Seq(Names),
                foreign_keys : SUBSET ForeignKey, indexes : SUBSET CatalogueIndex]
      <3>1. <<c>> \in Seq(Names) /\ old.indexes \cup {index(x)} \in SUBSET CatalogueIndex
        BY <1>2, <1>7, <2>2
      <3> QED
        BY <1>6, <2>2, <2>3, <3>1
    <2> QED
      BY <2>1, <2>3, <2>4 DEF IsRelation
  <1>10. /\ \A i \in DOMAIN r.primary_key :
               r.primary_key[i] \in DOMAIN r.columns /\ ~r.columns[r.primary_key[i]].nullable
         /\ index(x).keys # <<>>
         /\ \A i \in DOMAIN index(x).keys : index(x).keys[i] \in DOMAIN r.columns
         /\ index(x).included = <<>>
    BY <1>2, <1>3, <1>5, <1>9
  <1> HIDE DEF r
  <1>11. SoundRelation(r, t, TablesIn(d))
    BY <1>2, <1>8, <1>9, <1>10 DEF SoundRelation
  <1>12. Sound(Bind(d, t, r))
    BY <1>2, <1>4, <1>9, <1>11, BindSound
  <1> QED
    BY <1>1, <1>12, SMTT(30) DEF t, r

LEMMA AddForeignKeySound ==
    ASSUME NEW d, Sound(d), NEW e \in AddForeignKey(d)
    PROVE  Sound(e)
  <1>1. PICK x \in ColumnsIn(d), u \in TablesIn(d) :
           u # x[1] /\ e = LinkTo(d, x[1], x[2], u)
    BY DEF AddForeignKey
  <1> DEFINE t == x[1]  c == x[2]  old == d[t]
             fk == [name |-> c, columns |-> <<c>>, referenced_table |-> u,
                    referenced_columns |-> d[u].primary_key]
             r == [old EXCEPT !.foreign_keys = @ \cup {fk}]
  <1>2. /\ t \in DOMAIN d /\ t \in Names /\ c \in DOMAIN old.columns /\ c \in Names
        /\ SoundRelation(old, t, TablesIn(d))
    BY ColumnsAreIn
  <1>3. e = Bind(d, t, r)
    BY <1>1 DEF LinkTo
  <1>4. t \in TablesIn(d) => old.kind \in {"r", "p"}
    BY DEF TablesIn
  <1>5. u \in Names /\ d[u].primary_key \in Seq(Names)
    BY DEF TablesIn, Sound, SoundRelation, IsRelation
  <1>6. r = [old EXCEPT !.foreign_keys = old.foreign_keys \cup {fk}]
    OBVIOUS
  <1> HIDE DEF old, r
  <1>7. fk \in ForeignKey
    BY <1>2, <1>5 DEF ForeignKey
  <1>8. \A i \in DOMAIN fk.columns : fk.columns[i] \in DOMAIN old.columns
    BY <1>2
  <1>9. fk.referenced_table = u
    OBVIOUS
  <1> HIDE DEF fk
  <1>10. IsFiniteSet(old.foreign_keys \cup {fk})
    BY <1>2, FS_AddElement DEF SoundRelation
  <1>11. /\ r.kind = old.kind /\ r.primary_key = old.primary_key /\ r.columns = old.columns
         /\ r.foreign_keys = old.foreign_keys \cup {fk} /\ r.indexes = old.indexes
         /\ IsRelation(r)
    BY <1>2, <1>6, <1>7 DEF SoundRelation, IsRelation
  <1>12. SoundRelation(r, t, TablesIn(d))
    BY <1>1, <1>2, <1>8, <1>9, <1>10, <1>11 DEF SoundRelation
  <1> QED
    BY <1>2, <1>3, <1>4, <1>11, <1>12, BindSound

LEMMA CreateIndexSound ==
    ASSUME NEW d, Sound(d), NEW tail \in IndexTail, NEW e \in CreateIndex(d, tail)
    PROVE  Sound(e)
  <1> DEFINE index(y) == [name |-> y[2], keys |-> <<y[2]>> \o tail.keys,
                          included |-> tail.included, unique |-> FALSE, primary |-> FALSE]
             new(y)   == [d[y[1]] EXCEPT !.indexes = @ \cup {index(y)}]
  <1>1. PICK x \in ColumnsIn(d) :
           /\ \A i \in DOMAIN tail.included : tail.included[i] \in DOMAIN d[x[1]].columns
           /\ e = Bind(d, x[1], new(x))
    BY DEF CreateIndex
  <1> DEFINE t == x[1]  c == x[2]  old == d[t]  r == new(x)
  <1>2. /\ t \in DOMAIN d /\ t \in Names /\ c \in DOMAIN old.columns /\ c \in Names
        /\ SoundRelation(old, t, TablesIn(d))
    BY ColumnsAreIn
  <1>3. t \in TablesIn(d) => old.kind \in {"r", "p"}
    BY DEF TablesIn
  <1>4. index(x) = [name |-> c, keys |-> <<c>> \o tail.keys, included |-> tail.included,
                    unique |-> FALSE, primary |-> FALSE]
    OBVIOUS
  <1>5. r = [old EXCEPT !.indexes = old.indexes \cup {index(x)}]
    OBVIOUS
  <1>12. \A i \in DOMAIN tail.included : tail.included[i] \in DOMAIN old.columns
    BY <1>1
  <1>13. tail.keys \in Seq({Expression}) /\ tail.included \in Seq(Names)
    BY DEF IndexTail
  <1> HIDE DEF t, c, old, index, new
  <1>6. /\ <<c>> \o tail.keys \in Seq(Names \cup {Expression})
        /\ \A i \in DOMAIN (<<c>> \o tail.keys) : (<<c>> \o tail.keys)[i] \in {c, Expression}
        /\ <<c>> \o tail.keys # <<>>
    BY <1>2, <1>13
  <1>7. /\ index(x) \in CatalogueIndex /\ index(x).keys # <<>>
        /\ \A i \in DOMAIN index(x).keys :
              index(x).keys[i] \in DOMAIN old.columns \cup {Expression}
        /\ \A i \in DOMAIN index(x).included : index(x).included[i] \in DOMAIN old.columns
    BY <1>2, <1>4, <1>6, <1>12, <1>13 DEF CatalogueIndex
  <1>8. IsFiniteSet(old.indexes \cup {index(x)})
    BY <1>2, FS_AddElement DEF SoundRelation
  <1>9. /\ r.kind = old.kind /\ r.primary_key = old.primary_key /\ r.columns = old.columns
        /\ r.foreign_keys = old.foreign_keys /\ r.indexes = old.indexes \cup {index(x)}
        /\ IsRelation(r)
    BY <1>2, <1>5, <1>7 DEF SoundRelation, IsRelation
  <1> HIDE DEF r
  <1>10. SoundRelation(r, t, TablesIn(d))
    BY <1>2, <1>7, <1>8, <1>9 DEF SoundRelation
  <1>11. Sound(Bind(d, t, r))
    BY <1>2, <1>3, <1>9, <1>10, BindSound
  <1> QED
    BY <1>1, <1>11 DEF t, r

LEMMA DropTableSound ==
    ASSUME NEW d, Sound(d), NEW e \in DropTable(d)
    PROVE  Sound(e)
  BY WithoutSound DEF DropTable

\* What is over the dropped column goes, what stays is as it was.
LEMMA DropColumnSound ==
    ASSUME NEW d, Sound(d), NEW e \in DropColumn(d)
    PROVE  Sound(e)
  <1> DEFINE new(y) == [d[y[1]] EXCEPT
                           !.columns      = Without(@, y[2]),
                           !.primary_key  = IF InSeq(y[2], @) THEN <<>> ELSE @,
                           !.foreign_keys = {fk \in @ : ~InSeq(y[2], fk.columns)},
                           !.indexes      = {i \in @ : ~InSeq(y[2], i.keys)
                                                       /\ ~InSeq(y[2], i.included)}]
  <1>1. PICK x \in ColumnsIn(d) : e = Bind(d, x[1], new(x))
    BY DEF DropColumn
  <1> DEFINE t == x[1]  c == x[2]  old == d[t]  r == new(x)
             columns == Without(old.columns, c)
             key == IF InSeq(c, old.primary_key) THEN <<>> ELSE old.primary_key
             links == {fk \in old.foreign_keys : ~InSeq(c, fk.columns)}
             indexes == {i \in old.indexes : ~InSeq(c, i.keys) /\ ~InSeq(c, i.included)}
  <1>2. /\ t \in DOMAIN d /\ t \in Names /\ SoundRelation(old, t, TablesIn(d))
    BY ColumnsAreIn
  <1>3. t \in TablesIn(d) => old.kind \in {"r", "p"}
    BY DEF TablesIn
  <1>4. r = [old EXCEPT !.columns = columns, !.primary_key = key,
                        !.foreign_keys = links, !.indexes = indexes]
    OBVIOUS
  <1>5. /\ DOMAIN columns = DOMAIN old.columns \ {c}
        /\ \A a \in DOMAIN columns : columns[a] = old.columns[a]
    BY Dropping
  <1>6. /\ key \in {<<>>, old.primary_key}
        /\ \A i \in DOMAIN key : key[i] # c
    BY DEF InSeq
  <1>7. /\ links \subseteq old.foreign_keys
        /\ \A fk \in links : \A i \in DOMAIN fk.columns : fk.columns[i] # c
    BY DEF InSeq
  <1>8. /\ indexes \subseteq old.indexes
        /\ \A a \in indexes :
              /\ \A i \in DOMAIN a.keys : a.keys[i] # c
              /\ \A i \in DOMAIN a.included : a.included[i] # c
    BY DEF InSeq
  <1> HIDE DEF t, c, old, new, columns, key, links, indexes
  <1>9. IsFiniteSet(DOMAIN columns) /\ IsFiniteSet(links) /\ IsFiniteSet(indexes)
    <2>1. IsFiniteSet(DOMAIN old.columns) /\ IsFiniteSet(old.foreign_keys) /\ IsFiniteSet(old.indexes)
      BY <1>2 DEF SoundRelation
    <2>2. DOMAIN columns \in SUBSET DOMAIN old.columns
      BY <1>5
    <2> QED
      BY <1>7, <1>8, <2>1, <2>2, FS_Subset
  <1>10. /\ r.kind = old.kind /\ r.columns = columns /\ r.primary_key = key
         /\ r.foreign_keys = links /\ r.indexes = indexes
         /\ r \in [kind : Kinds, columns : {columns}, primary_key : Seq(Names),
                   foreign_keys : SUBSET ForeignKey, indexes : SUBSET CatalogueIndex]
    <2>1. old \in [kind : Kinds, columns : {old.columns}, primary_key : Seq(Names),
                  foreign_keys : SUBSET ForeignKey, indexes : SUBSET CatalogueIndex]
      BY <1>2 DEF SoundRelation, IsRelation
    <2>2. /\ r.kind = old.kind /\ r.columns = columns /\ r.primary_key = key
          /\ r.foreign_keys = links /\ r.indexes = indexes
      BY <1>4, <2>1
    <2>3. key \in Seq(Names) /\ links \in SUBSET ForeignKey /\ indexes \in SUBSET CatalogueIndex
      <3>1. /\ old.primary_key \in Seq(Names)
            /\ old.foreign_keys \in SUBSET ForeignKey /\ old.indexes \in SUBSET CatalogueIndex
        BY <2>1
      <3>2. <<>> \in Seq(Names)
        OBVIOUS
      <3>3. key \in Seq(Names)
        BY <1>6, <3>1, <3>2
      <3> QED
        BY <1>7, <1>8, <3>1, <3>3
    <2>4. r \in [kind : Kinds, columns : {columns}, primary_key : Seq(Names),
                foreign_keys : SUBSET ForeignKey, indexes : SUBSET CatalogueIndex]
      BY <1>4, <2>1, <2>2, <2>3
    <2> QED
      BY <2>2, <2>4
  <1> HIDE DEF r
  <1>11. IsRelation(r)
    BY <1>2, <1>5, <1>10 DEF SoundRelation, IsRelation
  <1>12. SoundRelation(r, t, TablesIn(d))
    <2>1. \A a \in indexes :
             /\ a.keys # <<>>
             /\ \A i \in DOMAIN a.keys : a.keys[i] \in DOMAIN columns \cup {Expression}
             /\ \A i \in DOMAIN a.included : a.included[i] \in DOMAIN columns
      BY <1>2, <1>5, <1>8 DEF SoundRelation
    <2>2. \A i \in DOMAIN key : key[i] \in DOMAIN columns /\ ~columns[key[i]].nullable
      BY <1>2, <1>5, <1>6 DEF SoundRelation
    <2>3. \A fk \in links :
             /\ \A i \in DOMAIN fk.columns : fk.columns[i] \in DOMAIN columns
             /\ fk.referenced_table \in TablesIn(d) /\ fk.referenced_table # t
      BY <1>2, <1>5, <1>7 DEF SoundRelation
    <2>4. \A a \in DOMAIN columns : Canonical(columns[a])
      BY <1>2, <1>5 DEF SoundRelation
    <2> QED
      BY <1>9, <1>10, <1>11, <2>1, <2>2, <2>3, <2>4 DEF SoundRelation
  <1>13. Sound(Bind(d, t, r))
    BY <1>2, <1>3, <1>10, <1>12, BindSound
  <1> QED
    BY <1>1, <1>13, SMTT(30) DEF t, r

LEMMA RenameTableSound ==
    ASSUME NEW d, Sound(d), NEW e \in RenameTable(d)
    PROVE  Sound(e)
  <1>1. PICK t \in DOMAIN d, u \in RelationNames \ DOMAIN d :
           ReferencedBy(d, t) = {} /\ e = Bind(Without(d, t), u, d[t])
    BY DEF RenameTable
  <1> DEFINE f == Without(d, t)
  <1>2. Sound(f)
    BY <1>1, WithoutSound
  <1>3. TablesIn(f) = TablesIn(d) \ {t} /\ u \in Names /\ u \notin TablesIn(d)
    BY MigrationsAreTyped DEF TablesIn, Without
  <1> HIDE DEF f
  <1>4. SoundRelation(d[t], u, TablesIn(f))
    <2>1. SoundRelation(d[t], t, TablesIn(d))
      BY DEF Sound
    <2> QED
      BY <1>3, <2>1 DEF SoundRelation
  <1>5. Sound(Bind(f, u, d[t]))
    BY <1>2, <1>3, <1>4, BindSound
  <1> QED
    BY <1>1, <1>5 DEF f

LEMMA NextSound == Sound(db) /\ [Next]_vars => Sound(db)'
  <1> SUFFICES ASSUME Sound(db), [Next]_vars
               PROVE  Sound(db')
    OBVIOUS
  <1>1. CASE Grow
    <2>1. \/ \E kind \in TableKinds : db' \in CreateTable(db, kind)
          \/ db' \in AddColumn(db)
          \/ db' \in AddPrimaryKey(db)
          \/ db' \in AddForeignKey(db)
          \/ \E tail \in IndexTails : db' \in CreateIndex(db, tail)
      BY <1>1 DEF Grow
    <2> QED
      BY <2>1, EvolutionAssumption, CreateTableSound, AddColumnSound,
         AddPrimaryKeySound, AddForeignKeySound, CreateIndexSound
  <1>2. CASE Shrink
    BY <1>2, DropTableSound, DropColumnSound, AlterColumnSound, RenameTableSound DEF Shrink
  <1>3. CASE Regenerate \/ UNCHANGED vars
    BY <1>3 DEF Regenerate, vars
  <1> QED
    BY <1>1, <1>2, <1>3 DEF Next

LEMMA SoundHolds == Spec => []Sound(db)
  <1>1. Init => Sound(db)
    BY EvolutionAssumption, SoundIs DEF Init
  <1> QED
    BY <1>1, NextSound, PTL DEF Spec

-----------------------------------------------------------------------------
(* The schema that is read of a sound database. *)

SoundTable(table) ==
    /\ \A c \in DOMAIN table.columns :
          c \in Names /\ table.columns[c] \in Column /\ Canonical(table.columns[c])
    /\ DOMAIN table.columns = {} => table.columns = NoColumns
    /\ table.primary_key \in Seq(Names)
    /\ table.foreign_keys \subseteq ForeignKey
    /\ table.indexes \subseteq Index
    /\ IsFiniteSet(DOMAIN table.columns)
    /\ IsFiniteSet(table.foreign_keys)
    /\ IsFiniteSet(table.indexes)

SoundSchema(s) ==
    /\ IsFiniteSet(DOMAIN s.tables)
    /\ \A t \in DOMAIN s.tables : t \in Names /\ SoundTable(s.tables[t])

\* What introspect() makes of one relation.
LEMMA LiveTables ==
    ASSUME NEW d
    PROVE  /\ DOMAIN SchemaOf(d).tables = {t \in DOMAIN d : d[t].kind # "v"}
           /\ \A t \in DOMAIN SchemaOf(d).tables :
                 LET table == SchemaOf(d).tables[t]
                 IN  /\ table.columns = IF DOMAIN d[t].columns = {} THEN NoColumns
                                        ELSE d[t].columns
                     /\ table.primary_key = d[t].primary_key
                     /\ table.foreign_keys = d[t].foreign_keys
                     /\ table.indexes = IF d[t].kind = "r" THEN SeenIndexes(d[t]) ELSE {}
  <1> DEFINE got == [q \in QueryNames |-> Fetch(q, d)]
  <1>1. QueryNames = {"tables", "columns", "primary_keys", "foreign_keys", "indexes"}
    <2>1. DOMAIN Queries = 1..5
      BY DEF Queries
    <2>2. /\ Queries[1] = "tables" /\ Queries[2] = "columns" /\ Queries[3] = "primary_keys"
          /\ Queries[4] = "foreign_keys" /\ Queries[5] = "indexes"
      BY DEF Queries
    <2>3. \A i \in 1..5 : i = 1 \/ i = 2 \/ i = 3 \/ i = 4 \/ i = 5
      OBVIOUS
    <2>4. 1 \in 1..5 /\ 2 \in 1..5 /\ 3 \in 1..5 /\ 4 \in 1..5 /\ 5 \in 1..5
      OBVIOUS
    <2> QED
      BY <2>1, <2>2, <2>3, <2>4 DEF QueryNames
  <1>2. /\ got["tables"] = TableRows(d) /\ got["columns"] = ColumnRows(d)
        /\ got["primary_keys"] = PrimaryKeyRows(d) /\ got["foreign_keys"] = ForeignKeyRows(d)
        /\ got["indexes"] = IndexRows(d)
    BY <1>1 DEF Fetch
  <1>3. SchemaOf(d) = Assemble(got)
    BY DEF SchemaOf
  <1> HIDE DEF got
  <1> DEFINE Read(t) == [columns      |-> Get(got["columns"], t, NoColumns),
                         primary_key  |-> Get(got["primary_keys"], t, <<>>),
                         foreign_keys |-> Get(got["foreign_keys"], t, {}),
                         indexes      |-> Get(got["indexes"], t, {})]
  <1>0. SchemaOf(d).tables = [t \in OfType(got["tables"], "BASE TABLE") |-> Read(t)]
    <2>1. Assemble(got).tables = [t \in OfType(got["tables"], "BASE TABLE") |-> Read(t)]
      BY DEF Assemble
    <2> QED
      BY <1>3, <2>1
  <1>4. DOMAIN SchemaOf(d).tables = OfType(TableRows(d), "BASE TABLE")
    BY <1>0, <1>2
  <1>5. OfType(TableRows(d), "BASE TABLE") = {t \in DOMAIN d : d[t].kind # "v"}
    BY DEF OfType, TableRows
  <1>6. ASSUME NEW t \in DOMAIN SchemaOf(d).tables
        PROVE  LET table == SchemaOf(d).tables[t]
               IN  /\ table.columns = Get(ColumnRows(d), t, NoColumns)
                   /\ table.primary_key = Get(PrimaryKeyRows(d), t, <<>>)
                   /\ table.foreign_keys = Get(ForeignKeyRows(d), t, {})
                   /\ table.indexes = Get(IndexRows(d), t, {})
    <2>1. SchemaOf(d).tables[t] = Read(t)
      BY <1>0
    <2> QED
      BY <1>2, <2>1
  <1>7. ASSUME NEW t \in DOMAIN d
        PROVE  /\ Get(ColumnRows(d), t, NoColumns) = IF DOMAIN d[t].columns = {} THEN NoColumns
                                                     ELSE d[t].columns
               /\ Get(PrimaryKeyRows(d), t, <<>>) = d[t].primary_key
               /\ Get(ForeignKeyRows(d), t, {}) = d[t].foreign_keys
               /\ Get(IndexRows(d), t, {}) = IF d[t].kind = "r" THEN SeenIndexes(d[t]) ELSE {}
    <2>1. Get(ColumnRows(d), t, NoColumns) = IF DOMAIN d[t].columns = {} THEN NoColumns
                                             ELSE d[t].columns
      BY DEF Get, ColumnRows
    <2>2. Get(PrimaryKeyRows(d), t, <<>>) = d[t].primary_key
      BY DEF Get, PrimaryKeyRows
    <2>3. Get(ForeignKeyRows(d), t, {}) = d[t].foreign_keys
      BY DEF Get, ForeignKeyRows
    <2>4. Get(IndexRows(d), t, {}) = IF d[t].kind = "r" THEN SeenIndexes(d[t]) ELSE {}
      BY DEF Get, IndexRows
    <2> QED
      BY <2>1, <2>2, <2>3, <2>4
  <1> QED
    BY <1>4, <1>5, <1>6, <1>7

\* The keys SQL_INDEXES has rows for are columns, and all of them when no key is
\* an expression.
LEMMA PlainKeysAre ==
    ASSUME NEW x \in CatalogueIndex
    PROVE  /\ PlainKeys(x) \in Seq(Names)
           /\ (\A i \in DOMAIN x.keys : x.keys[i] # Expression) => PlainKeys(x) = x.keys
  <1> DEFINE places == {i \in DOMAIN x.keys : x.keys[i] # Expression}
             n == Len(x.keys)
  <1>1. x.keys \in Seq(Names \cup {Expression}) /\ n \in Nat /\ DOMAIN x.keys = 1..n
    BY DEF CatalogueIndex
  <1>2. places \in SUBSET (1..n) /\ \A i \in places : x.keys[i] \in Names
    BY <1>1
  <1>3. PlainKeys(x) = [k \in 1..Cardinality(places) |-> x.keys[Nth(places, k)]]
    BY DEF PlainKeys, Selected
  <1>4. (\A i \in DOMAIN x.keys : x.keys[i] # Expression) => places = 1..n
    BY <1>1
  <1> HIDE DEF places
  <1>5. /\ Cardinality(places) \in Nat
        /\ \A k \in 1..Cardinality(places) : Nth(places, k) \in places
    BY <1>1, <1>2, NthIsMember
  <1>6. PlainKeys(x) \in Seq(Names)
    <2> DEFINE m == Cardinality(places)
               Key(k) == x.keys[Nth(places, k)]
    <2>1. m \in Nat /\ \A k \in 1..m : Key(k) \in Names
      BY <1>2, <1>5
    <2>2. PlainKeys(x) = [k \in 1..m |-> Key(k)]
      BY <1>3
    <2> HIDE DEF m, Key
    <2> QED
      BY <2>1, <2>2
  <1>7. ASSUME \A i \in DOMAIN x.keys : x.keys[i] # Expression
        PROVE  PlainKeys(x) = x.keys
    <2>1. places = 1..n
      BY <1>4, <1>7
    <2>2. Cardinality(1..n) = n /\ \A k \in 1..n : Nth(1..n, k) = k
      BY <1>1, NthOfAll
    <2>3. PlainKeys(x) = [k \in 1..n |-> x.keys[k]]
      BY <1>3, <2>1, <2>2
    <2> QED
      BY <1>1, <2>3
  <1> QED
    BY <1>6, <1>7

LEMMA SeenIsTyped ==
    ASSUME NEW r, r.indexes \subseteq CatalogueIndex
    PROVE  SeenIndexes(r) \subseteq Index
  <1> SUFFICES ASSUME NEW x \in r.indexes
               PROVE  [name |-> x.name, columns |-> SeenColumns(x),
                       unique |-> x.unique, primary |-> x.primary] \in Index
    BY DEF SeenIndexes
  <1>1. x \in CatalogueIndex /\ PlainKeys(x) \in Seq(Names) /\ x.included \in Seq(Names)
    BY PlainKeysAre DEF CatalogueIndex
  <1>2. SeenColumns(x) \in Seq(Names)
    BY <1>1 DEF SeenColumns
  <1> QED
    BY <1>1, <1>2 DEF CatalogueIndex, Index

LEMMA SeenIsFinite ==
    ASSUME NEW r, IsFiniteSet(r.indexes)
    PROVE  IsFiniteSet(SeenIndexes(r))
  <1> DEFINE plain == {y \in r.indexes : SeenColumns(y) # <<>>}
             seen == [x \in plain |-> [name |-> x.name, columns |-> SeenColumns(x),
                                       unique |-> x.unique, primary |-> x.primary]]
  <1>1. IsFiniteSet(plain)
    BY FS_Subset
  <1>2. seen \in Surjection(plain, SeenIndexes(r))
    BY DEF Surjection, SeenIndexes
  <1> HIDE DEF plain, seen
  <1> QED
    BY <1>1, <1>2, FS_Surjection

LEMMA LiveIsSound ==
    ASSUME NEW d, Sound(d)
    PROVE  SoundSchema(SchemaOf(d))
  <1>1. IsFiniteSet(DOMAIN SchemaOf(d).tables)
    <2>1. IsFiniteSet(DOMAIN d)
      BY DEF Sound
    <2>2. DOMAIN SchemaOf(d).tables \in SUBSET DOMAIN d
      BY LiveTables
    <2> QED
      BY <2>1, <2>2, FS_Subset
  <1>2. ASSUME NEW t \in DOMAIN SchemaOf(d).tables
        PROVE  t \in Names /\ SoundTable(SchemaOf(d).tables[t])
    <2> DEFINE table == SchemaOf(d).tables[t]
    <2>1. /\ t \in DOMAIN d
          /\ table.columns = IF DOMAIN d[t].columns = {} THEN NoColumns ELSE d[t].columns
          /\ table.foreign_keys = d[t].foreign_keys
          /\ table.indexes = IF d[t].kind = "r" THEN SeenIndexes(d[t]) ELSE {}
      BY LiveTables
    <2>2. /\ t \in Names /\ IsRelation(d[t])
          /\ \A c \in DOMAIN d[t].columns : Canonical(d[t].columns[c])
          /\ IsFiniteSet(DOMAIN d[t].columns)
          /\ IsFiniteSet(d[t].foreign_keys) /\ IsFiniteSet(d[t].indexes)
      BY <2>1 DEF Sound, SoundRelation
    <2> HIDE DEF table
    <2>3. DOMAIN NoColumns = {}
      BY DEF NoColumns
    <2>4. IsFiniteSet({})
      BY FS_EmptySet
    <2>5. /\ DOMAIN table.columns = DOMAIN d[t].columns
          /\ \A c \in DOMAIN table.columns : table.columns[c] = d[t].columns[c]
          /\ DOMAIN table.columns = {} => table.columns = NoColumns
      BY <2>1, <2>3
    <2>6. IsFiniteSet(table.indexes)
      BY <2>1, <2>2, <2>4, SeenIsFinite
    <2>7. table.primary_key = d[t].primary_key /\ table.indexes \subseteq Index
      <3>1. d[t].indexes \subseteq CatalogueIndex
        BY <2>2 DEF IsRelation
      <3>2. SeenIndexes(d[t]) \subseteq Index
        BY <3>1, SeenIsTyped
      <3> QED
        BY <2>1, <3>2, LiveTables DEF table
    <2>8. SoundTable(table)
      BY <2>1, <2>2, <2>5, <2>6, <2>7 DEF SoundTable, IsRelation
    <2> QED
      BY <2>2, <2>8 DEF table
  <1> QED
    BY <1>1, <1>2 DEF SoundSchema

-----------------------------------------------------------------------------
(* What a generated contract means. *)

\* A finite set written as a list: each element once.
LEMMA ListedOnce ==
    ASSUME NEW S, IsFiniteSet(S)
    PROVE  LET list == SetToSeq(S)
           IN  /\ Cardinality(S) \in Nat /\ DOMAIN list = 1..Cardinality(S)
               /\ \A i \in DOMAIN list : list[i] \in S
               /\ \A x \in S : \E i \in DOMAIN list : list[i] = x
               /\ \A i, j \in DOMAIN list : list[i] = list[j] => i = j
  <1> DEFINE n == Cardinality(S)
             list == SetToSeq(S)
  <1>1. n \in Nat /\ ExistsBijection(1..n, S)
    BY FS_CardinalityType
  <1>2. \E f \in [1..n -> S] : IsInjective(f)
    BY <1>1 DEF ExistsBijection, Bijection, Injection, IsInjective
  <1>3. list \in [1..n -> S] /\ IsInjective(list)
    BY <1>2 DEF SetToSeq
  <1>4. list \in Injection(1..n, S)
    BY <1>3 DEF Injection, IsInjective
  <1>5. Cardinality(1..n) = Cardinality(S)
    BY <1>1, FS_Interval
  <1>6. list \in Surjection(1..n, S)
    BY <1>4, <1>5, FS_Injection
  <1> QED
    <2>1. \A x \in S : \E i \in 1..n : list[i] = x
      BY <1>6 DEF Surjection
    <2>2. \A i, j \in 1..n : list[i] = list[j] => i = j
      BY <1>3 DEF IsInjective
    <2> QED
      BY <1>1, <1>3, <2>1, <2>2

\* Entry e of a contract has an entry per column, foreign key and secondary
\* index of a table, and no other.
Records(e, table) ==
    /\ e.primary_key = table.primary_key
    /\ \A j \in DOMAIN e.columns : \E c \in DOMAIN table.columns :
          e.columns[j] = ColumnEntry(c, table.columns[c])
    /\ \A c \in DOMAIN table.columns : \E j \in DOMAIN e.columns :
          e.columns[j] = ColumnEntry(c, table.columns[c])
    /\ \A j \in DOMAIN e.foreign_keys : \E fk \in table.foreign_keys :
          e.foreign_keys[j] = ForeignKeyEntry(fk)
    /\ \A fk \in table.foreign_keys : \E j \in DOMAIN e.foreign_keys :
          e.foreign_keys[j] = ForeignKeyEntry(fk)
    /\ \A j \in DOMAIN e.indexes : \E x \in table.indexes :
          ~x.primary /\ e.indexes[j] = IndexEntry(x)
    /\ \A x \in table.indexes : ~x.primary =>
          \E j \in DOMAIN e.indexes : e.indexes[j] = IndexEntry(x)

LEMMA EntryOfTable ==
    ASSUME NEW n, NEW table, SoundTable(table)
    PROVE  /\ TableEntry(n, table).name = n
           /\ Records(TableEntry(n, table), table)
  <1> DEFINE e         == TableEntry(n, table)
             secondary == {x \in table.indexes : ~x.primary}
             columns   == SetToSeq(DOMAIN table.columns)
             keys      == SetToSeq(table.foreign_keys)
             indexes   == SetToSeq(secondary)
  <1>1. /\ e.name = n /\ e.primary_key = table.primary_key
        /\ e.columns = [j \in DOMAIN columns |->
                           ColumnEntry(columns[j], table.columns[columns[j]])]
        /\ e.foreign_keys = [j \in DOMAIN keys |-> ForeignKeyEntry(keys[j])]
        /\ e.indexes = [j \in DOMAIN indexes |-> IndexEntry(indexes[j])]
    BY DEF TableEntry
  <1>2. /\ \A j \in DOMAIN columns : columns[j] \in DOMAIN table.columns
        /\ \A c \in DOMAIN table.columns : \E j \in DOMAIN columns : columns[j] = c
    BY ListedOnce DEF SoundTable
  <1>3. /\ \A j \in DOMAIN keys : keys[j] \in table.foreign_keys
        /\ \A fk \in table.foreign_keys : \E j \in DOMAIN keys : keys[j] = fk
    BY ListedOnce DEF SoundTable
  <1>4. /\ \A j \in DOMAIN indexes : indexes[j] \in secondary
        /\ \A x \in secondary : \E j \in DOMAIN indexes : indexes[j] = x
    <2>1. IsFiniteSet(secondary)
      BY FS_Subset DEF SoundTable
    <2> QED
      BY <2>1, ListedOnce
  <1> HIDE DEF e, columns, keys, indexes
  <1>5. /\ \A j \in DOMAIN e.columns : \E c \in DOMAIN table.columns :
              e.columns[j] = ColumnEntry(c, table.columns[c])
        /\ \A c \in DOMAIN table.columns : \E j \in DOMAIN e.columns :
              e.columns[j] = ColumnEntry(c, table.columns[c])
    BY <1>1, <1>2
  <1>6. /\ \A j \in DOMAIN e.foreign_keys : \E fk \in table.foreign_keys :
              e.foreign_keys[j] = ForeignKeyEntry(fk)
        /\ \A fk \in table.foreign_keys : \E j \in DOMAIN e.foreign_keys :
              e.foreign_keys[j] = ForeignKeyEntry(fk)
    BY <1>1, <1>3
  <1>7. /\ \A j \in DOMAIN e.indexes : \E x \in table.indexes :
              ~x.primary /\ e.indexes[j] = IndexEntry(x)
        /\ \A x \in table.indexes : ~x.primary =>
              \E j \in DOMAIN e.indexes : e.indexes[j] = IndexEntry(x)
    BY <1>1, <1>4
  <1>8. Records(e, table)
    BY <1>1, <1>5, <1>6, <1>7 DEF Records
  <1> QED
    BY <1>1, <1>8 DEF e

\* The columns of the entry are the table's.
LEMMA EntryDeclares ==
    ASSUME NEW n, NEW table, SoundTable(table)
    PROVE  /\ DeclaredColumns(TableEntry(n, table)) = DOMAIN table.columns
           /\ TableEntry(n, table).columns # <<>> <=> table.columns # NoColumns
  <1> DEFINE e == TableEntry(n, table)
  <1>1. Records(e, table)
    BY EntryOfTable
  <1>2. \A c, col : ColumnEntry(c, col).name = c
    BY DEF ColumnEntry
  <1>3. DeclaredColumns(e) = DOMAIN table.columns
    <2> HIDE DEF e
    <2> QED
      BY <1>1, <1>2 DEF DeclaredColumns, Records
  <1>4. e.columns = [j \in DOMAIN SetToSeq(DOMAIN table.columns) |->
                        ColumnEntry(SetToSeq(DOMAIN table.columns)[j],
                                    table.columns[SetToSeq(DOMAIN table.columns)[j]])]
    BY DEF TableEntry
  <1>5. PICK m \in Nat : DOMAIN e.columns = 1..m
    BY <1>4, ListedOnce DEF SoundTable
  <1>6. e.columns \in Seq({e.columns[j] : j \in DOMAIN e.columns})
    BY <1>4, <1>5
  <1>7. e.columns = <<>> <=> DOMAIN e.columns = {}
    BY <1>5, <1>6
  <1>8. DOMAIN e.columns = {} <=> DOMAIN table.columns = {}
    BY <1>1 DEF Records
  <1>9. DOMAIN table.columns = {} <=> table.columns = NoColumns
    BY DEF SoundTable, NoColumns
  <1> QED
    BY <1>3, <1>7, <1>8, <1>9

\* A column conforms to the entry of a column exactly when it is the same in
\* all that is written of a column.
LEMMA ColumnEntryMeans ==
    ASSUME NEW c, NEW old \in Column, NEW table
    PROVE  ColumnConforms(ColumnEntry(c, old), table) <=>
             c \in DOMAIN table.columns /\ SameColumn(old, table.columns[c])
  <1> DEFINE spec == ColumnEntry(c, old)
             sized == old.type \in NumericTypes /\ old.limit["precision"] # None
  <1>1. /\ spec.name = c /\ spec.type = old.type /\ spec.nullable = old.nullable
        /\ spec.default = None
        /\ spec.limit["max_length"] = old.limit["max_length"]
        /\ spec.limit["precision"] = IF sized THEN old.limit["precision"] ELSE None
        /\ spec.limit["scale"] = IF sized THEN old.limit["scale"] ELSE None
    BY DEF ColumnEntry, Limits
  <1>2. old.type # None /\ old.nullable # None
    BY NoneIsNoValue DEF Column
  <1> HIDE DEF spec
  <1>3. ASSUME NEW col
        PROVE  (\A l \in Limits : spec.limit[l] \in {None, col.limit[l]}) <=>
                 /\ old.limit["max_length"] \in {None, col.limit["max_length"]}
                 /\ sized => /\ old.limit["precision"] = col.limit["precision"]
                             /\ old.limit["scale"] \in {None, col.limit["scale"]}
    BY <1>1 DEF Limits
  <1>4. ASSUME NEW col
        PROVE  SameColumn(old, col) <=>
                 /\ NormaliseType(old.type) = NormaliseType(col.type)
                 /\ old.nullable = col.nullable
                 /\ \A l \in Limits : spec.limit[l] \in {None, col.limit[l]}
    BY <1>3 DEF SameColumn
  <1>5. ColumnConforms(spec, table) <=>
          /\ c \in DOMAIN table.columns
          /\ NormaliseType(table.columns[c].type) = NormaliseType(old.type)
          /\ table.columns[c].nullable = old.nullable
          /\ \A l \in Limits : spec.limit[l] \in {None, table.columns[c].limit[l]}
    BY <1>1, <1>2 DEF ColumnConforms
  <1> QED
    BY <1>4, <1>5 DEF spec

LEMMA TableEntryMeans ==
    ASSUME NEW n, NEW old, SoundTable(old), NEW table
    PROVE  TableConforms(TableEntry(n, old), table) <=> KeepsTable(old, table)
  <1> DEFINE e == TableEntry(n, old)
  <1>1. Records(e, old)
    BY EntryOfTable
  <1> HIDE DEF e
  <1>2. (\A j \in DOMAIN e.columns : ColumnConforms(e.columns[j], table)) <=>
          \A c \in DOMAIN old.columns :
              c \in DOMAIN table.columns /\ SameColumn(old.columns[c], table.columns[c])
    <2>1. \A c \in DOMAIN old.columns :
            ColumnConforms(ColumnEntry(c, old.columns[c]), table) <=>
              c \in DOMAIN table.columns /\ SameColumn(old.columns[c], table.columns[c])
      BY ColumnEntryMeans DEF SoundTable
    <2> QED
      BY <1>1, <2>1 DEF Records
  <1>3. (\A j \in DOMAIN e.foreign_keys : ForeignKeyFound(e.foreign_keys[j], table)) <=>
          \A fk \in old.foreign_keys : ForeignKeyFound(ForeignKeyEntry(fk), table)
    BY <1>1 DEF Records
  <1>4. (\A j \in DOMAIN e.indexes : IndexFound(e.indexes[j], table)) <=>
          \A x \in old.indexes : x.primary \/ IndexFound(IndexEntry(x), table)
    BY <1>1 DEF Records
  <1>5. TableConforms(e, table) <=> KeepsTable(old, table)
    BY <1>1, <1>2, <1>3, <1>4 DEF Records, TableConforms, KeepsTable
  <1> QED
    BY <1>5 DEF e

\* A list made of a finite set has its members.
LEMMA ListIsTyped ==
    ASSUME NEW S, IsFiniteSet(S), NEW T, NEW list, DOMAIN list = DOMAIN SetToSeq(S),
           \A i \in DOMAIN list : list[i] \in T,
           list = [i \in DOMAIN list |-> list[i]]
    PROVE  list \in Seq(T)
  <1>1. PICK m \in Nat : DOMAIN list = 1..m
    BY ListedOnce
  <1> QED
    BY <1>1

LEMMA EntryIsTyped ==
    ASSUME NEW n \in Names, NEW table, SoundTable(table)
    PROVE  TableEntry(n, table) \in TableSpec
  <1> DEFINE e         == TableEntry(n, table)
             secondary == {x \in table.indexes : ~x.primary}
             columns   == SetToSeq(DOMAIN table.columns)
             keys      == SetToSeq(table.foreign_keys)
             indexes   == SetToSeq(secondary)
  <1>1. IsFiniteSet(DOMAIN table.columns) /\ IsFiniteSet(table.foreign_keys) /\ IsFiniteSet(secondary)
    BY FS_Subset DEF SoundTable
  <1>2. [j \in DOMAIN columns |-> ColumnEntry(columns[j], table.columns[columns[j]])] \in Seq(ColumnSpec)
    <2>1. ASSUME NEW c \in DOMAIN table.columns
          PROVE  ColumnEntry(c, table.columns[c]) \in ColumnSpec
      <3>1. c \in Names /\ table.columns[c] \in Column
        BY DEF SoundTable
      <3> QED
        BY <3>1 DEF Column, ColumnSpec, ColumnEntry, Maybe
    <2>2. \A j \in DOMAIN columns : columns[j] \in DOMAIN table.columns
      BY <1>1, ListedOnce
    <2>3. \A j \in DOMAIN columns : ColumnEntry(columns[j], table.columns[columns[j]]) \in ColumnSpec
      BY <2>1, <2>2
    <2> HIDE DEF columns
    <2> QED
      BY <1>1, <2>3, ListIsTyped DEF columns
  <1>3. [j \in DOMAIN keys |-> ForeignKeyEntry(keys[j])] \in Seq(ForeignKeySpec)
    <2>1. \A j \in DOMAIN keys : keys[j] \in ForeignKey
      BY <1>1, ListedOnce DEF SoundTable
    <2>2. \A j \in DOMAIN keys : ForeignKeyEntry(keys[j]) \in ForeignKeySpec
      BY <2>1 DEF ForeignKey, ForeignKeySpec, ForeignKeyEntry
    <2> QED
      BY <1>1, <2>2, ListIsTyped
  <1>4. [j \in DOMAIN indexes |-> IndexEntry(indexes[j])] \in Seq(IndexSpec)
    <2>1. \A j \in DOMAIN indexes : indexes[j] \in secondary
      BY <1>1, ListedOnce
    <2>2. \A x \in secondary : IndexEntry(x) \in IndexSpec
      BY DEF SoundTable, Index, IndexSpec, IndexEntry, Maybe
    <2>3. \A j \in DOMAIN indexes : IndexEntry(indexes[j]) \in IndexSpec
      BY <2>1, <2>2
    <2> QED
      BY <1>1, <2>3, ListIsTyped
  <1>5. table.primary_key \in Seq(Names)
    BY DEF SoundTable
  <1> QED
    BY <1>2, <1>3, <1>4, <1>5 DEF TableEntry, TableSpec

\* The contract drafted from schema b, with the settings a team gave it.
Draft(b, settings) == [Generate(b) EXCEPT !.settings = settings]

LEMMA DraftIs ==
    ASSUME NEW b, SoundSchema(b), NEW settings
    PROVE  LET c == Draft(b, settings)
           IN  /\ c.audit = <<>> /\ c.settings = settings
               /\ \A i \in DOMAIN c.structure : \E n \in DOMAIN b.tables :
                     c.structure[i] = TableEntry(n, b.tables[n])
               /\ \A n \in DOMAIN b.tables : \E i \in DOMAIN c.structure :
                     c.structure[i] = TableEntry(n, b.tables[n])
               /\ DeclaredTables(c) = DOMAIN b.tables
  <1> DEFINE c == Draft(b, settings)
             names == SetToSeq(DOMAIN b.tables)
  <1>1. /\ c.audit = <<>> /\ c.settings = settings
        /\ c.structure = [i \in DOMAIN names |-> TableEntry(names[i], b.tables[names[i]])]
    BY DEF Draft, Generate
  <1>2. /\ \A i \in DOMAIN names : names[i] \in DOMAIN b.tables
        /\ \A n \in DOMAIN b.tables : \E i \in DOMAIN names : names[i] = n
    BY ListedOnce DEF SoundSchema
  <1>3. \A n \in DOMAIN b.tables : TableEntry(n, b.tables[n]).name = n
    BY DEF TableEntry
  <1> HIDE DEF c, names
  <1>4. /\ \A i \in DOMAIN c.structure : \E n \in DOMAIN b.tables :
              c.structure[i] = TableEntry(n, b.tables[n])
        /\ \A n \in DOMAIN b.tables : \E i \in DOMAIN c.structure :
              c.structure[i] = TableEntry(n, b.tables[n])
    BY <1>1, <1>2
  <1>5. DeclaredTables(c) = DOMAIN b.tables
    BY <1>3, <1>4 DEF DeclaredTables
  <1> QED
    BY <1>1, <1>4, <1>5 DEF c

LEMMA DraftIsTyped ==
    ASSUME NEW b, SoundSchema(b), NEW settings \in Settings
    PROVE  Draft(b, settings) \in Contract
  <1> DEFINE names == SetToSeq(DOMAIN b.tables)
             structure == [i \in DOMAIN names |-> TableEntry(names[i], b.tables[names[i]])]
  <1>1. IsFiniteSet(DOMAIN b.tables)
    BY DEF SoundSchema
  <1>2. \A i \in DOMAIN names : names[i] \in DOMAIN b.tables
    BY <1>1, ListedOnce
  <1>3. \A i \in DOMAIN names : TableEntry(names[i], b.tables[names[i]]) \in TableSpec
    BY <1>2, EntryIsTyped DEF SoundSchema
  <1>4. structure \in Seq(TableSpec)
    BY <1>1, <1>3, ListIsTyped
  <1>5. Generate(b) = [structure |-> structure, audit |-> <<>>, settings |-> DefaultSettings]
    BY DEF Generate
  <1> HIDE DEF structure
  <1>6. Draft(b, settings) = [structure |-> structure, audit |-> <<>>, settings |-> settings]
    BY <1>5 DEF Draft
  <1> QED
    BY <1>4, <1>6 DEF Contract

\* What a drafted contract accepts: the databases that keep what it records,
\* with no more than the settings a team may add allow.
LEMMA DraftMeans ==
    ASSUME NEW b, SoundSchema(b), NEW settings, NEW s
    PROVE  Conforms(Draft(b, settings), s) <=>
             /\ Keeps(b, s)
             /\ settings.unexpected_tables = "error" => DOMAIN s.tables \subseteq DOMAIN b.tables
             /\ settings.unexpected_columns = "error" =>
                   \A t \in DOMAIN b.tables :
                       b.tables[t].columns # NoColumns =>
                           DOMAIN s.tables[t].columns \subseteq DOMAIN b.tables[t].columns
  <1> DEFINE c == Draft(b, settings)
  <1>1. /\ c.audit = <<>> /\ c.settings = settings
        /\ \A i \in DOMAIN c.structure : \E n \in DOMAIN b.tables :
              c.structure[i] = TableEntry(n, b.tables[n])
        /\ \A n \in DOMAIN b.tables : \E i \in DOMAIN c.structure :
              c.structure[i] = TableEntry(n, b.tables[n])
        /\ DeclaredTables(c) = DOMAIN b.tables
    BY DraftIs
  <1> HIDE DEF c
  <1>2. \A n \in DOMAIN b.tables :
           LET e == TableEntry(n, b.tables[n])
           IN  /\ e.name = n
               /\ DeclaredColumns(e) = DOMAIN b.tables[n].columns
               /\ e.columns # <<>> <=> b.tables[n].columns # NoColumns
    BY EntryOfTable, EntryDeclares DEF SoundSchema
  <1>3. DeclaredConforms(c, s) <=> Keeps(b, s)
    <2>1. ASSUME DeclaredConforms(c, s), NEW n \in DOMAIN b.tables
          PROVE  n \in DOMAIN s.tables /\ KeepsTable(b.tables[n], s.tables[n])
      <3>1. PICK i \in DOMAIN c.structure : c.structure[i] = TableEntry(n, b.tables[n])
        BY <1>1
      <3>2. c.structure[i].name = n /\ SoundTable(b.tables[n])
        BY <1>2, <3>1 DEF SoundSchema
      <3>3. n \in DOMAIN s.tables /\ TableConforms(TableEntry(n, b.tables[n]), s.tables[n])
        BY <2>1, <3>1, <3>2 DEF DeclaredConforms
      <3> QED
        BY <3>2, <3>3, TableEntryMeans
    <2>2. ASSUME Keeps(b, s), NEW i \in DOMAIN c.structure
          PROVE  /\ c.structure[i].name \in DOMAIN s.tables
                 /\ TableConforms(c.structure[i], s.tables[c.structure[i].name])
      <3>1. PICK n \in DOMAIN b.tables : c.structure[i] = TableEntry(n, b.tables[n])
        BY <1>1
      <3>2. n \in DOMAIN s.tables /\ KeepsTable(b.tables[n], s.tables[n])
        BY <2>2 DEF Keeps
      <3>3. SoundTable(b.tables[n]) /\ TableEntry(n, b.tables[n]).name = n
        BY <1>2 DEF SoundSchema
      <3>4. TableConforms(TableEntry(n, b.tables[n]), s.tables[n])
        BY <3>2, <3>3, TableEntryMeans
      <3> QED
        BY <3>1, <3>2, <3>3, <3>4
    <2> QED
      BY <2>1, <2>2 DEF DeclaredConforms, Keeps
  <1>4. AuditConforms(c, s)
    BY <1>1 DEF AuditConforms
  <1>5. ASSUME Keeps(b, s)
        PROVE  (\A i \in Located(c, s) : c.structure[i].columns # <<>> =>
                   DOMAIN LiveTable(c, s, i).columns \subseteq DeclaredColumns(c.structure[i]))
                 <=> \A t \in DOMAIN b.tables : b.tables[t].columns # NoColumns =>
                        DOMAIN s.tables[t].columns \subseteq DOMAIN b.tables[t].columns
    <2>1. \A t \in DOMAIN b.tables : t \in DOMAIN s.tables
      BY <1>5 DEF Keeps
    <2> QED
      BY <1>1, <1>2, <2>1 DEF Located, LiveTable
  <1>6. Conforms(c, s) <=>
          /\ Keeps(b, s)
          /\ settings.unexpected_tables = "error" => DOMAIN s.tables \subseteq DOMAIN b.tables
          /\ settings.unexpected_columns = "error" =>
                \A t \in DOMAIN b.tables :
                    b.tables[t].columns # NoColumns =>
                        DOMAIN s.tables[t].columns \subseteq DOMAIN b.tables[t].columns
    BY <1>1, <1>3, <1>4, <1>5 DEF Conforms, DriftConforms
  <1> QED
    BY <1>6 DEF c

-----------------------------------------------------------------------------
(* Contracts in force. *)

DraftSettings == {DefaultSettings,
                  [unexpected_tables |-> "error", unexpected_columns |-> "error"]}

\* A contract that was generated is still the draft of a schema that was read,
\* with the settings a team gave it.
Drafted ==
    /\ contract \in Contract
    /\ base # None =>
          /\ SoundSchema(base)
          /\ \E settings \in DraftSettings : contract = Draft(base, settings)

LEMMA NextDrafted == Sound(db) /\ Drafted /\ [Next]_vars => Drafted'
  <1> SUFFICES ASSUME Sound(db), Drafted, [Next]_vars
               PROVE  Drafted'
    OBVIOUS
  <1>1. CASE Regenerate
    <2>1. base' = Live /\ \E settings \in DraftSettings : contract' = Draft(Live, settings)
      BY <1>1 DEF Regenerate, Draft, DraftSettings
    <2>2. SoundSchema(Live)
      BY LiveIsSound DEF Live
    <2>3. \A settings \in DraftSettings : Draft(Live, settings) \in Contract
      <3>1. DraftSettings \subseteq Settings
        BY DEF DraftSettings, DefaultSettings, Settings, Policies
      <3> QED
        BY <2>2, <3>1, DraftIsTyped
    <2> QED
      BY <2>1, <2>2, <2>3 DEF Drafted
  <1>2. CASE UNCHANGED <<contract, base>>
    BY <1>2 DEF Drafted
  <1> QED
    BY <1>1, <1>2 DEF Next, Grow, Shrink, vars

LEMMA DraftedHolds == Spec => [](Sound(db) /\ Drafted)
  <1>1. Init => Sound(db) /\ Drafted
    <2> SUFFICES ASSUME Init
                 PROVE  Sound(db) /\ Drafted
      OBVIOUS
    <2>1. Sound(db) /\ contract \in Contract /\ base = None
      BY EvolutionAssumption, SoundIs DEF Init
    <2> QED
      BY <2>1 DEF Drafted
  <1>2. (Sound(db) /\ Drafted) /\ [Next]_vars => (Sound(db) /\ Drafted)'
    BY NextSound, NextDrafted
  <1> QED
    BY <1>1, <1>2, PTL DEF Spec

\* A contract drafted by generate accepts a later state of the database exactly
\* when that state keeps all that it records, and when a team closed it, has no
\* other table or column (generator.py, drift.py).
THEOREM DraftsAreExact == Spec => []GeneratedContractExact
  <1>1. Drafted => GeneratedContractExact
    <2> SUFFICES ASSUME Drafted, base # None
                 PROVE  Passes(contract, Live) <=>
                          /\ Keeps(base, Live)
                          /\ ~Lenient(contract) =>
                                /\ DOMAIN Live.tables = DOMAIN base.tables
                                /\ \A t \in DOMAIN base.tables :
                                      base.tables[t].columns # NoColumns =>
                                          DOMAIN Live.tables[t].columns = DOMAIN base.tables[t].columns
      BY DEF GeneratedContractExact
    <2> DEFINE Closed == /\ DOMAIN Live.tables \subseteq DOMAIN base.tables
                         /\ \A t \in DOMAIN base.tables :
                               base.tables[t].columns # NoColumns =>
                                   DOMAIN Live.tables[t].columns \subseteq DOMAIN base.tables[t].columns
               Same == /\ DOMAIN Live.tables = DOMAIN base.tables
                       /\ \A t \in DOMAIN base.tables :
                             base.tables[t].columns # NoColumns =>
                                 DOMAIN Live.tables[t].columns = DOMAIN base.tables[t].columns
    <2>1. PICK settings \in DraftSettings : SoundSchema(base) /\ contract = Draft(base, settings)
      BY DEF Drafted
    <2>2. contract.settings = settings
      BY <2>1 DEF Draft, Generate
    <2>3. Passes(contract, Live) <=> Conforms(contract, Live)
      BY PassesIffConforms
    <2>4. Conforms(contract, Live) <=>
            /\ Keeps(base, Live)
            /\ settings.unexpected_tables = "error" => DOMAIN Live.tables \subseteq DOMAIN base.tables
            /\ settings.unexpected_columns = "error" =>
                  \A t \in DOMAIN base.tables :
                      base.tables[t].columns # NoColumns =>
                          DOMAIN Live.tables[t].columns \subseteq DOMAIN base.tables[t].columns
      BY <2>1, DraftMeans
    <2>5. Keeps(base, Live) => (Closed <=> Same)
      BY DEF Keeps, KeepsTable
    <2>6. CASE settings = DefaultSettings
      BY <2>2, <2>3, <2>4, <2>6 DEF Lenient, DefaultSettings
    <2>7. CASE settings = [unexpected_tables |-> "error", unexpected_columns |-> "error"]
      <3>1. Conforms(contract, Live) <=> Keeps(base, Live) /\ Closed
        BY <2>4, <2>7
      <3>2. ~Lenient(contract)
        BY <2>2, <2>7 DEF Lenient
      <3> HIDE DEF Closed, Same
      <3>3. Passes(contract, Live) <=> Keeps(base, Live) /\ Same
        BY <2>3, <2>5, <3>1
      <3> QED
        BY <3>2, <3>3 DEF Same
    <2> QED
      BY <2>1, <2>6, <2>7 DEF DraftSettings
  <1> QED
    BY <1>1, DraftedHolds, PTL

-----------------------------------------------------------------------------
(* Drafts of what is there, and tables that are not. *)

LEMMA KeepsItself == \A s : Keeps(s, s)
  BY DEF Keeps, KeepsTable, SameColumn, ForeignKeyFound, ForeignKeyMatches, ForeignKeyEntry,
         IndexFound, IndexMatches, IndexEntry

\* A draft has no finding about the schema it was drafted from.
LEMMA DraftIsClean ==
    ASSUME NEW s, SoundSchema(s), NEW settings \in DraftSettings
    PROVE  RunChecks(CheckNames, {}, Draft(s, settings), s) = {}
  <1> DEFINE c == Draft(s, settings)
  <1>1. c.settings = settings
    BY DEF Draft, Generate
  <1>2. Conforms(c, s)
    BY DraftMeans, KeepsItself
  <1>3. Passes(c, s)
    BY <1>2, PassesIffConforms
  <1> HIDE DEF c
  <1>4. Errors(RunChecks(CheckNames, {}, c, s)) = {}
    BY <1>3 DEF Passes, StatusFromFindings
  <1>5. ASSUME NEW f \in RunChecks(CheckNames, {}, c, s)
        PROVE  FALSE
    <2>1. f.severity # "error"
      BY <1>4, NoErrors
    <2>2. f \in DriftFindings(c, s)
      BY <2>1, FindingByCheck, StructureFindingIs, ColumnFindingIs, ConstraintFindingIs,
         IndexFindingIs, AuditFindingIs
    <2>3. f.severity \in {settings.unexpected_tables, settings.unexpected_columns}
          /\ f.severity # "ignore"
      BY <1>1, <2>2, DriftFindingIs
    <2> QED
      BY <2>1, <2>3 DEF DraftSettings, DefaultSettings
  <1> QED
    BY <1>5 DEF c

\* A contract drafted by generate verifies clean, under any settings, against
\* the schema it was drafted from (generator.py, verifier.py:157).
THEOREM DraftsAreClean == Spec => RoundTripClean
  <1>1. Sound(db) /\ [Next]_vars =>
          [base' # base => RunChecks(CheckNames, {}, contract', Live') = {}]_vars
    <2> SUFFICES ASSUME Sound(db), [Next]_vars, base' # base
                 PROVE  RunChecks(CheckNames, {}, contract', Live') = {}
      OBVIOUS
    <2>1. Regenerate
      BY DEF Next, Grow, Shrink, vars
    <2>2. PICK settings \in DraftSettings : contract' = Draft(Live, settings)
      BY <2>1 DEF Regenerate, Draft, DraftSettings
    <2>3. Live' = Live
      BY <2>1 DEF Regenerate, Live
    <2>4. SoundSchema(Live)
      BY LiveIsSound DEF Live
    <2> QED
      BY <2>2, <2>3, <2>4, DraftIsClean
  <1> QED
    BY <1>1, SoundHolds, PTL DEF Spec, RoundTripClean

\* A finding about table t, and the one that it is missing at a position of the
\* contract.
About(f, t) == f.target[2] = t

Missing(check, t, i) == Finding(check, "error", <<"table", t>>, <<i>>)

EntriesOf(c, t) == {i \in DOMAIN c.structure : c.structure[i].name = t}

RulesOf(c, t) == {i \in DOMAIN c.audit : c.audit[i].table = t}

\* What the audit has to say of a table that is missing.
LEMMA AuditOfMissing ==
    ASSUME NEW c, NEW s, NEW t, t \notin DOMAIN s.tables, NEW f
    PROVE  f \in AuditFindings(c, s) /\ About(f, t) <=>
               \E i \in RulesOf(c, t) : f = Missing("audit", t, i)
  <1> DEFINE T(i) == Finding("audit", "error", <<"table", c.audit[i].table>>, <<i>>)
             F(i, j) == Finding("audit", "error",
                                <<"column", c.audit[i].table,
                                  c.audit[i].required_columns[j]>>, <<i, j>>)
             Here(i) == c.audit[i].table \in DOMAIN s.tables
             Lacks(i) == Lacking(c.audit[i], s.tables[c.audit[i].table])
  <1>1. AuditFindings(c, s) =
          {T(i) : i \in {k \in DOMAIN c.audit : ~Here(k)}}
            \cup UNION {{F(i, j) : j \in Lacks(i)} : i \in {k \in DOMAIN c.audit : Here(k)}}
    BY DEF AuditFindings
  <1>2. \A i : T(i).target[2] = c.audit[i].table
    BY DEF Finding
  <1>3. \A i, j : F(i, j).target[2] = c.audit[i].table
    BY DEF Finding
  <1>4. \A i : c.audit[i].table = t => T(i) = Missing("audit", t, i)
    BY DEF Missing
  <1>5. \A i : Here(i) => c.audit[i].table # t
    OBVIOUS
  <1>6. \A i : c.audit[i].table = t => ~Here(i)
    OBVIOUS
  <1> HIDE DEF T, F, Here, Lacks
  <1>7. ASSUME f \in AuditFindings(c, s), f.target[2] = t
        PROVE  \E i \in DOMAIN c.audit : c.audit[i].table = t /\ f = T(i)
    BY <1>1, <1>2, <1>3, <1>5, <1>7
  <1>8. ASSUME NEW i \in DOMAIN c.audit, c.audit[i].table = t
        PROVE  T(i) \in AuditFindings(c, s) /\ T(i).target[2] = t
    BY <1>1, <1>2, <1>6, <1>8
  <1> QED
    BY <1>4, <1>7, <1>8 DEF About, RulesOf

\* ... and the structure check.
LEMMA StructureOfMissing ==
    ASSUME NEW c, NEW s, NEW t, t \notin DOMAIN s.tables, NEW f
    PROVE  f \in StructureFindings(c, s) /\ About(f, t) <=>
               \E i \in EntriesOf(c, t) : f = Missing("structure", t, i)
  <1> DEFINE T(i) == Finding("structure", "error", <<"table", c.structure[i].name>>, <<i>>)
  <1>1. StructureFindings(c, s) = {T(i) : i \in DOMAIN c.structure \ Located(c, s)}
    BY DEF StructureFindings
  <1>2. \A i : T(i).target[2] = c.structure[i].name
    BY DEF Finding
  <1>3. \A i : c.structure[i].name = t => T(i) = Missing("structure", t, i)
    BY DEF Missing
  <1>4. \A i \in Located(c, s) : c.structure[i].name # t
    BY DEF Located
  <1> HIDE DEF T
  <1>5. ASSUME f \in StructureFindings(c, s), f.target[2] = t
        PROVE  \E i \in DOMAIN c.structure : c.structure[i].name = t /\ f = T(i)
    BY <1>1, <1>2, <1>5
  <1>6. ASSUME NEW i \in DOMAIN c.structure, c.structure[i].name = t
        PROVE  T(i) \in StructureFindings(c, s) /\ T(i).target[2] = t
    BY <1>1, <1>2, <1>4, <1>6
  <1> QED
    BY <1>3, <1>5, <1>6 DEF About, EntriesOf

\* As many findings as there are positions.
LEMMA MissingAreAsMany ==
    ASSUME NEW positions, IsFiniteSet(positions), NEW found, NEW check, NEW t,
           \A f : f \in found <=> \E i \in positions : f = Missing(check, t, i)
    PROVE  Cardinality(found) = Cardinality(positions)
  <1> DEFINE report == [i \in positions |-> Missing(check, t, i)]
  <1>1. \A i, j \in positions : Missing(check, t, i) = Missing(check, t, j) => i = j
    BY DEF Missing, Finding
  <1>2. report \in Bijection(positions, found)
    BY <1>1 DEF Bijection, Injection, Surjection, IsInjective
  <1> HIDE DEF report
  <1> QED
    BY <1>2, FS_Bijection DEF ExistsBijection

LEMMA MissingCounted ==
    ASSUME NEW c \in Contract, NEW s, NEW t, t \notin DOMAIN s.tables,
           NEW about, \A f : f \in about <=> f \in RunChecks(CheckNames, {}, c, s) /\ About(f, t),
           NEW S, \A f : f \in S <=> f \in about /\ f.check = "structure",
           NEW A, \A f : f \in A <=> f \in about /\ f.check = "audit"
    PROVE  /\ about = S \cup A
           /\ Cardinality(S) = Cardinality(EntriesOf(c, t))
           /\ Cardinality(A) = Cardinality(RulesOf(c, t))
  <1>1. IsFiniteSet(EntriesOf(c, t)) /\ IsFiniteSet(RulesOf(c, t))
    <2>1. c.structure \in Seq(TableSpec) /\ c.audit \in Seq(AuditRule)
      BY DEF Contract
    <2>2. PICK n, m \in Nat : DOMAIN c.structure = 1..n /\ DOMAIN c.audit = 1..m
      BY <2>1
    <2>3. IsFiniteSet(1..n) /\ IsFiniteSet(1..m)
      BY FS_Interval
    <2> QED
      BY <2>2, <2>3, FS_Subset DEF EntriesOf, RulesOf
  <1>2. \A i \in Located(c, s) : c.structure[i].name # t
    BY DEF Located
  <1>3. ASSUME NEW f \in about
        PROVE  f.check \in {"structure", "audit"}
    BY <1>2, FindingByCheck, StructureFindingIs, ColumnFindingIs, ConstraintFindingIs,
       IndexFindingIs, AuditFindingIs, DriftFindingIs DEF About
  <1>4. \A f : f \in S <=> f \in StructureFindings(c, s) /\ About(f, t)
    BY FindingByCheck, StructureFindingIs, ColumnFindingIs, ConstraintFindingIs,
       IndexFindingIs, AuditFindingIs, DriftFindingIs
  <1>5. \A f : f \in A <=> f \in AuditFindings(c, s) /\ About(f, t)
    BY FindingByCheck, StructureFindingIs, ColumnFindingIs, ConstraintFindingIs,
       IndexFindingIs, AuditFindingIs, DriftFindingIs
  <1>6. \A f : f \in S <=> \E i \in EntriesOf(c, t) : f = Missing("structure", t, i)
    BY <1>4, StructureOfMissing
  <1>7. \A f : f \in A <=> \E i \in RulesOf(c, t) : f = Missing("audit", t, i)
    BY <1>5, AuditOfMissing
  <1>8. about = S \cup A
    BY <1>3
  <1>9. Cardinality(S) = Cardinality(EntriesOf(c, t))
    BY <1>1, <1>6, MissingAreAsMany
  <1>10. Cardinality(A) = Cardinality(RulesOf(c, t))
    BY <1>1, <1>7, MissingAreAsMany
  <1> QED
    BY <1>8, <1>9, <1>10

\* A table the database lacks is reported once by the structure check for each
\* entry that declares it, once by the audit check for each rule about it, and
\* by no other check (columns.py:61, audit.py:22).
THEOREM MissingTablesReportedOnce == Spec => []MissingTableReportedOnce
  <1>1. Drafted => MissingTableReportedOnce
    <2> SUFFICES ASSUME Drafted, NEW t \in Names \ DOMAIN Live.tables
                 PROVE  LET found(check) == {f \in FindingsAbout(t) : f.check = check}
                        IN  /\ FindingsAbout(t) = found("structure") \cup found("audit")
                            /\ Cardinality(found("structure")) = Cardinality(EntriesFor(t))
                            /\ Cardinality(found("audit")) = Cardinality(RulesFor(t))
      BY DEF MissingTableReportedOnce
    <2> DEFINE found(check) == {f \in FindingsAbout(t) : f.check = check}
    <2>1. contract \in Contract
      BY DEF Drafted
    <2>2. \A f : f \in FindingsAbout(t) <=>
                   f \in RunChecks(CheckNames, {}, contract, Live) /\ About(f, t)
      BY DEF FindingsAbout, About
    <2>3. /\ \A f : f \in found("structure") <=> f \in FindingsAbout(t) /\ f.check = "structure"
          /\ \A f : f \in found("audit") <=> f \in FindingsAbout(t) /\ f.check = "audit"
      OBVIOUS
    <2>4. EntriesFor(t) = EntriesOf(contract, t) /\ RulesFor(t) = RulesOf(contract, t)
      BY DEF EntriesFor, EntriesOf, RulesFor, RulesOf
    <2> HIDE DEF found
    <2>5. /\ FindingsAbout(t) = found("structure") \cup found("audit")
          /\ Cardinality(found("structure")) = Cardinality(EntriesFor(t))
          /\ Cardinality(found("audit")) = Cardinality(RulesFor(t))
      BY <2>1, <2>2, <2>3, <2>4, MissingCounted
    <2> QED
      BY <2>5 DEF found
  <1> QED
    BY <1>1, DraftedHolds, PTL

-----------------------------------------------------------------------------
(* What `datagate diff` sees of a draft. *)

LEMMA MaxOfOne ==
    ASSUME NEW i \in Nat
    PROVE  Max({i}) = i
  BY DEF Max

\* The columns of a written table, indexed by name.
LEMMA ColumnsIndexed ==
    ASSUME NEW n, NEW table, SoundTable(table), NEW v,
           v = List([j \in DOMAIN TableEntry(n, table).columns |->
                        WrittenColumn(TableEntry(n, table).columns[j])])
    PROVE  /\ DOMAIN IndexColumns(v) = DOMAIN table.columns
           /\ \A c \in DOMAIN table.columns :
                 IndexColumns(v)[c] = WrittenColumn(ColumnEntry(c, table.columns[c]))
  <1> DEFINE columns  == SetToSeq(DOMAIN table.columns)
             entries  == v.items
             W(c)     == WrittenColumn(ColumnEntry(c, table.columns[c]))
             named(c) == {i \in DOMAIN entries : IsColumn(entries[i]) /\ EntryName(entries[i]) = c}
  <1>1. /\ DOMAIN columns \subseteq Nat
        /\ \A j \in DOMAIN columns : columns[j] \in DOMAIN table.columns
        /\ \A c \in DOMAIN table.columns : \E j \in DOMAIN columns : columns[j] = c
        /\ \A i, j \in DOMAIN columns : columns[i] = columns[j] => i = j
    <2>1. IsFiniteSet(DOMAIN table.columns)
      BY DEF SoundTable
    <2>2. Cardinality(DOMAIN table.columns) \in Nat
          /\ DOMAIN columns = 1..Cardinality(DOMAIN table.columns)
      BY <2>1, ListedOnce
    <2>3. DOMAIN columns \subseteq Nat
      BY <2>2
    <2> QED
      BY <2>1, <2>3, ListedOnce
  <1>2. TableEntry(n, table).columns = [j \in DOMAIN columns |->
                                           ColumnEntry(columns[j], table.columns[columns[j]])]
    BY DEF TableEntry
  <1>3. /\ DOMAIN entries = DOMAIN columns
        /\ \A j \in DOMAIN entries : entries[j] = W(columns[j])
    BY <1>2 DEF List
  <1>4. v.is = "list" /\ Iterate(v) = entries
    BY DEF List, Iterate, Items
  <1>5. \A c \in DOMAIN table.columns :
           /\ IsColumn(W(c)) /\ EntryName(W(c)) = c /\ AsEntry(W(c)) = W(c)
    BY NoneIsNoValue DEF SoundTable, WrittenColumn, ColumnEntry, IsColumn, EntryName, AsEntry
  <1>6. IndexColumns(v) = [c \in NamesIn(entries, IsColumn) |-> AsEntry(entries[Max(named(c))])]
    BY <1>4 DEF IndexColumns, LastNamed
  <1> HIDE DEF W, columns, entries
  <1>7. NamesIn(entries, IsColumn) = DOMAIN table.columns
    BY <1>1, <1>3, <1>5 DEF NamesIn
  <1>8. ASSUME NEW c \in DOMAIN table.columns
        PROVE  IndexColumns(v)[c] = W(c)
    <2>1. PICK j \in DOMAIN columns : columns[j] = c
      BY <1>1
    <2>2. named(c) = {j}
      BY <1>1, <1>3, <1>5, <2>1
    <2>3. Max(named(c)) = j
      BY <1>1, <2>2, MaxOfOne
    <2>4. IndexColumns(v)[c] = AsEntry(entries[j])
      BY <1>6, <1>7, <2>3
    <2> QED
      BY <1>3, <1>5, <2>1, <2>4
  <1> QED
    BY <1>6, <1>7, <1>8 DEF W

\* The tables of a written draft, indexed by name.
LEMMA DraftIndexed ==
    ASSUME NEW s, SoundSchema(s)
    PROVE  LET doc == Written(Generate(s))
               index == IndexTables(doc)
           IN  /\ ~doc.keyless /\ ~CannotIndex(doc)
               /\ DOMAIN index = DOMAIN s.tables
               /\ \A t \in DOMAIN s.tables :
                     /\ DOMAIN index[t] = DOMAIN s.tables[t].columns
                     /\ \A c \in DOMAIN s.tables[t].columns :
                           index[t][c] = WrittenColumn(ColumnEntry(c, s.tables[t].columns[c]))
  <1> DEFINE doc      == Written(Generate(s))
             names    == SetToSeq(DOMAIN s.tables)
             E(t)     == TableEntry(t, s.tables[t])
             V(t)     == List([j \in DOMAIN E(t).columns |-> WrittenColumn(E(t).columns[j])])
             W(t)     == [is |-> "map", name |-> E(t).name, columns |-> V(t)]
             entries  == doc.structure.items
             named(t) == {i \in DOMAIN entries : IsTable(entries[i]) /\ EntryName(entries[i]) = t}
  <1>1. /\ DOMAIN names \subseteq Nat
        /\ \A i \in DOMAIN names : names[i] \in DOMAIN s.tables
        /\ \A t \in DOMAIN s.tables : \E i \in DOMAIN names : names[i] = t
        /\ \A i, j \in DOMAIN names : names[i] = names[j] => i = j
    <2>1. IsFiniteSet(DOMAIN s.tables)
      BY DEF SoundSchema
    <2>2. Cardinality(DOMAIN s.tables) \in Nat
          /\ DOMAIN names = 1..Cardinality(DOMAIN s.tables)
      BY <2>1, ListedOnce
    <2>3. DOMAIN names \subseteq Nat
      BY <2>2
    <2> QED
      BY <2>1, <2>3, ListedOnce
  <1>2. Generate(s).structure = [i \in DOMAIN names |-> E(names[i])]
    BY SMTT(30) DEF Generate
  <1>3. /\ ~doc.keyless /\ doc.structure.is = "list"
        /\ entries = [i \in DOMAIN names |-> W(names[i])]
    BY <1>2 DEF Written, List
  <1>4. Iterate(doc.structure) = entries
    BY <1>3 DEF Iterate, Items
  <1>5. \A t \in DOMAIN s.tables :
           /\ IsTable(W(t)) /\ EntryName(W(t)) = t
           /\ W(t).columns = V(t) /\ V(t).is = "list"
    <2>1. \A t \in DOMAIN s.tables : E(t).name = t /\ t # None
      BY NoneIsNoValue DEF SoundSchema, TableEntry
    <2> HIDE DEF E
    <2> QED
      BY <2>1 DEF IsTable, EntryName, List
  <1>6. IndexTables(doc) = [t \in NamesIn(entries, IsTable) |->
                               IndexColumns(entries[Max(named(t))].columns)]
    BY <1>4 DEF IndexTables, LastNamed
  <1> HIDE DEF W, V, E, names, entries, doc
  <1>7. NamesIn(entries, IsTable) = DOMAIN s.tables
    BY <1>1, <1>3, <1>5 DEF NamesIn
  <1>8. ~CannotIndex(doc)
    BY <1>1, <1>3, <1>4, <1>5 DEF CannotIndex
  <1>9. ASSUME NEW t \in DOMAIN s.tables
        PROVE  /\ DOMAIN IndexTables(doc)[t] = DOMAIN s.tables[t].columns
               /\ \A c \in DOMAIN s.tables[t].columns :
                     IndexTables(doc)[t][c] = WrittenColumn(ColumnEntry(c, s.tables[t].columns[c]))
    <2>1. PICK i \in DOMAIN names : names[i] = t
      BY <1>1
    <2>2. named(t) = {i}
      BY <1>1, <1>3, <1>5, <2>1
    <2>3. Max(named(t)) = i
      BY <1>1, <2>2, MaxOfOne
    <2>4. IndexTables(doc)[t] = IndexColumns(V(t))
      <3>1. IndexTables(doc)[t] = IndexColumns(entries[Max(named(t))].columns)
        BY <1>6, <1>7
      <3>2. entries[i] = W(t) /\ W(t).columns = V(t)
        BY <1>3, <1>5, <2>1
      <3> QED
        BY <2>3, <3>1, <3>2
    <2>5. SoundTable(s.tables[t])
      BY DEF SoundSchema
    <2>6. /\ DOMAIN IndexColumns(V(t)) = DOMAIN s.tables[t].columns
          /\ \A c \in DOMAIN s.tables[t].columns :
                IndexColumns(V(t))[c] = WrittenColumn(ColumnEntry(c, s.tables[t].columns[c]))
      BY <2>5, ColumnsIndexed DEF V, E
    <2> QED
      BY <2>4, <2>6
  <1> QED
    BY <1>3, <1>6, <1>7, <1>8, <1>9 DEF doc

\* The differ finds nothing breaking between the columns of two databases when
\* the second keeps what a draft of the first records.
LEMMA KeptIsCompatible ==
    ASSUME NEW a, SoundSchema(a), NEW b, SoundSchema(b), Keeps(a, b)
    PROVE  DiffExit(Written(Generate(a)), Written(Generate(b))) = 0
  <1> DEFINE old == IndexTables(Written(Generate(a)))
             new == IndexTables(Written(Generate(b)))
             Old(t, c) == WrittenColumn(ColumnEntry(c, a.tables[t].columns[c]))
             New(t, c) == WrittenColumn(ColumnEntry(c, b.tables[t].columns[c]))
  <1>1. /\ DOMAIN old = DOMAIN a.tables
        /\ \A t \in DOMAIN a.tables :
              /\ DOMAIN old[t] = DOMAIN a.tables[t].columns
              /\ \A c \in DOMAIN a.tables[t].columns : old[t][c] = Old(t, c)
    BY DraftIndexed
  <1>2. /\ DOMAIN new = DOMAIN b.tables
        /\ \A t \in DOMAIN b.tables :
              /\ DOMAIN new[t] = DOMAIN b.tables[t].columns
              /\ \A c \in DOMAIN b.tables[t].columns : new[t][c] = New(t, c)
    BY DraftIndexed
  <1>3. /\ \A t \in DOMAIN a.tables : t \in DOMAIN b.tables
        /\ \A t \in DOMAIN a.tables : \A c \in DOMAIN a.tables[t].columns :
              /\ c \in DOMAIN b.tables[t].columns
              /\ SameColumn(a.tables[t].columns[c], b.tables[t].columns[c])
    BY DEF Keeps, KeepsTable
  <1>4. ASSUME NEW t \in DOMAIN a.tables, NEW c \in DOMAIN a.tables[t].columns
        PROVE  Old(t, c).type = New(t, c).type /\ Old(t, c).nullable = New(t, c).nullable
    <2> DEFINE x == a.tables[t].columns[c]
               y == b.tables[t].columns[c]
    <2>1. SameColumn(x, y)
      BY <1>3
    <2>2. Canonical(x) /\ Canonical(y)
      BY <1>3, SMTT(30) DEF SoundSchema, SoundTable
    <2>3. x.type = y.type /\ x.nullable = y.nullable
      BY <2>1, <2>2 DEF SameColumn, NormaliseType, Canonical
    <2> QED
      BY <2>3 DEF WrittenColumn, ColumnEntry
  <1> HIDE DEF old, new, Old, New
  <1>5. ASSUME NEW change \in Changes(old, new)
        PROVE  change.impact # "breaking"
    <2>1. CASE change \in TableChanges(old, new)
      <3>1. PICK t \in DOMAIN new : change = Change("added_table", "safe", <<t>>, "")
        BY <1>1, <1>2, <1>3, <2>1 DEF TableChanges
      <3> QED
        BY <3>1 DEF Change
    <2>2. ASSUME NEW t \in DOMAIN old \cap DOMAIN new,
                 change \in ColumnChanges(t, old[t], new[t])
          PROVE  change.impact # "breaking"
      <3>1. CASE change \in AddedColumns(t, old[t], new[t])
        <4>1. PICK c \in DOMAIN new[t], impact \in {"safe", "warning"} :
                 change = Change("added_column", impact, <<t, c>>, "")
          BY <3>1 DEF AddedColumns
        <4> QED
          BY <4>1 DEF Change
      <3>2. CASE change \in RemovedColumns(t, old[t], new[t])
        BY <1>1, <1>2, <1>3, <3>2 DEF RemovedColumns
      <3>3. ASSUME NEW c \in DOMAIN old[t] \cap DOMAIN new[t],
                   change \in ModifiedColumn(<<t, c>>, old[t][c], new[t][c])
            PROVE  change.impact # "breaking"
        <4>1. /\ old[t][c].type = new[t][c].type
              /\ old[t][c].nullable = new[t][c].nullable
          BY <1>1, <1>2, <1>3, <1>4
        <4>2. change \in LimitChanges(<<t, c>>, old[t][c], new[t][c])
          BY <3>3, <4>1 DEF ModifiedColumn, TypeChange, NullabilityChange, Nullable
        <4> QED
          BY <4>2 DEF LimitChanges, Change
      <3> QED
        BY <2>2, <3>1, <3>2, <3>3 DEF ColumnChanges
    <2> QED
      BY <2>1, <2>2 DEF Changes
  <1>6. "breaking" \notin Impacts(Changes(old, new))
    BY <1>5 DEF Impacts
  <1> QED
    BY <1>6, DraftIndexed DEF DiffExit, old, new

\* A database that passes the draft of another one is no BREAKING change of it:
\* `datagate verify` and `datagate diff <DSN> <DSN>` agree (columns.py,
\* differ.py:178, generator.py).
THEOREM PassesAreCompatible == Spec => []PassIsCompatible
  <1>1. Sound(db) /\ Drafted => PassIsCompatible
    <2> SUFFICES ASSUME Sound(db), Drafted, base # None, Passes(contract, Live)
                 PROVE  DiffExit(Written(Generate(base)), Written(Generate(Live))) = 0
      BY DEF PassIsCompatible
    <2>1. PICK settings \in DraftSettings : SoundSchema(base) /\ contract = Draft(base, settings)
      BY DEF Drafted
    <2>2. Conforms(contract, Live)
      BY PassesIffConforms
    <2>3. Keeps(base, Live)
      BY <2>1, <2>2, DraftMeans
    <2>4. SoundSchema(Live)
      BY LiveIsSound DEF Live
    <2> QED
      BY <2>1, <2>3, <2>4, KeptIsCompatible
  <1> QED
    BY <1>1, DraftedHolds, PTL


\* What the database is stays coherent, what is generated of it is a typed
\* contract, and what introspect() reads of its indexes is typed as models.py
\* says.
THEOREM EvolutionTypes == Spec => []TypeOK
  <1>1. Sound(db) /\ Drafted => TypeOK
    <2> SUFFICES ASSUME Sound(db), Drafted
                 PROVE  TypeOK
      OBVIOUS
    <2>1. Coherent(db) /\ contract \in Contract
      BY SoundIs DEF Drafted
    <2>2. ASSUME base # None, NEW t \in DOMAIN base.tables
          PROVE  base.tables[t].indexes \subseteq Index
      BY <2>2 DEF Drafted, SoundSchema, SoundTable
    <2> QED
      BY <2>1, <2>2 DEF TypeOK
  <1> QED
    BY <1>1, DraftedHolds, PTL

-----------------------------------------------------------------------------
(* Indexes that SQL_INDEXES sees in full. *)

\* An index has columns as its keys and includes no other.
Ordinary(x) == x.included = <<>> /\ \A i \in DOMAIN x.keys : x.keys[i] # Expression

\* No partitioned table, and no other index.
SeenInFull(d) ==
    \A t \in DOMAIN d : d[t].kind # "p" /\ \A x \in d[t].indexes : Ordinary(x)

LEMMA BindSeenInFull ==
    ASSUME NEW d, SeenInFull(d), NEW t, NEW r, r.kind # "p",
           \A x \in r.indexes : Ordinary(x)
    PROVE  SeenInFull(Bind(d, t, r))
  <1> DEFINE e == Bind(d, t, r)
  <1>1. /\ DOMAIN e = DOMAIN d \cup {t} /\ e[t] = r
        /\ \A u \in DOMAIN d \ {t} : e[u] = d[u]
    BY DEF Bind
  <1> HIDE DEF e
  <1>2. SeenInFull(e)
    BY <1>1 DEF SeenInFull
  <1> QED
    BY <1>2 DEF e

LEMMA RedefineSeenInFull ==
    ASSUME NEW d, Sound(d), SeenInFull(d), NEW t \in DOMAIN d, NEW c, NEW shape
    PROVE  SeenInFull(Redefine(d, t, c, shape))
  <1> DEFINE old == d[t]
             r == [old EXCEPT !.columns = Bind(@, c, shape)]
  <1>1. IsRelation(old)
    BY DEF Sound, SoundRelation
  <1>2. r.kind = old.kind /\ r.indexes = old.indexes
    BY <1>1 DEF IsRelation
  <1> HIDE DEF r
  <1>3. SeenInFull(Bind(d, t, r))
    BY <1>2, BindSeenInFull DEF SeenInFull
  <1> QED
    BY <1>3 DEF Redefine, r

LEMMA AddIndexSeenInFull ==
    ASSUME NEW d, Sound(d), SeenInFull(d), NEW t \in DOMAIN d, NEW index,
           Ordinary(index),
           NEW r, r.kind = d[t].kind, r.indexes = d[t].indexes \cup {index}
    PROVE  SeenInFull(Bind(d, t, r))
  <1>1. r.kind # "p" /\ \A x \in r.indexes : Ordinary(x)
    BY DEF SeenInFull
  <1> QED
    BY <1>1, BindSeenInFull

\* What stays of a relation.
LEMMA LessSeenInFull ==
    ASSUME NEW d, SeenInFull(d), NEW t \in DOMAIN d, NEW u,
           NEW r, r.kind = d[t].kind, r.indexes \subseteq d[t].indexes
    PROVE  SeenInFull(Bind(d, u, r))
  <1>1. r.kind # "p" /\ \A x \in r.indexes : Ordinary(x)
    BY DEF SeenInFull
  <1> QED
    BY <1>1, BindSeenInFull

LEMMA WithoutSeenInFull ==
    ASSUME NEW d, SeenInFull(d), NEW t
    PROVE  SeenInFull(Without(d, t))
  <1> DEFINE e == Without(d, t)
  <1>1. DOMAIN e = DOMAIN d \ {t} /\ \A u \in DOMAIN e : e[u] = d[u]
    BY Dropping
  <1> HIDE DEF e
  <1>2. SeenInFull(e)
    BY <1>1 DEF SeenInFull
  <1> QED
    BY <1>2 DEF e

LEMMA GrowSeenInFull ==
    ASSUME NEW d, Sound(d), SeenInFull(d), NEW e,
           \/ \E kind \in {"r", "v"} : e \in CreateTable(d, kind)
           \/ e \in AddColumn(d)
           \/ e \in AddPrimaryKey(d)
           \/ e \in AddForeignKey(d)
           \/ e \in CreateIndex(d, NothingMore)
    PROVE  SeenInFull(e)
  <1>1. ASSUME NEW kind \in {"r", "v"}, e \in CreateTable(d, kind)
        PROVE  SeenInFull(e)
    <2>1. PICK t \in RelationNames, c \in ColumnNames, shape \in ColumnShapes :
             e = Bind(d, t, BareRelation(kind, One(c, shape)))
      BY <1>1 DEF CreateTable
    <2>2. /\ BareRelation(kind, One(c, shape)).kind = kind
          /\ BareRelation(kind, One(c, shape)).indexes = {}
      BY DEF BareRelation
    <2>3. kind # "p"
      BY <1>1
    <2> QED
      BY <2>1, <2>2, <2>3, BindSeenInFull
  <1>2. CASE e \in AddColumn(d)
    <2>1. PICK x \in FreeColumns(d), shape \in ColumnShapes : e = Redefine(d, x[1], x[2], shape)
      BY <1>2 DEF AddColumn
    <2>2. x[1] \in DOMAIN d
      BY DEF FreeColumns, TablesIn
    <2> QED
      BY <2>1, <2>2, RedefineSeenInFull
  <1>3. CASE e \in AddPrimaryKey(d)
    <2> DEFINE index(y) == [name |-> y[1], keys |-> <<y[2]>>, included |-> <<>>,
                            unique |-> TRUE, primary |-> TRUE]
               new(y)   == [d[y[1]] EXCEPT !.primary_key = <<y[2]>>,
                                           !.indexes = @ \cup {index(y)}]
    <2>1. PICK x \in ColumnsIn(d) : e = Bind(d, x[1], new(x))
      BY <1>3 DEF AddPrimaryKey
    <2>2. x[1] \in DOMAIN d /\ x[2] \in Names /\ SoundRelation(d[x[1]], x[1], TablesIn(d))
      BY ColumnsAreIn
    <2>3. new(x).kind = d[x[1]].kind /\ new(x).indexes = d[x[1]].indexes \cup {index(x)}
      BY <2>2 DEF SoundRelation, IsRelation
    <2>4. Ordinary(index(x))
      BY <2>2, ExpressionIsNoName DEF Ordinary
    <2> HIDE DEF new, index
    <2> QED
      BY <2>1, <2>2, <2>3, <2>4, AddIndexSeenInFull, SMTT(30)
  <1>4. CASE e \in AddForeignKey(d)
    <2>1. PICK x \in ColumnsIn(d), u \in TablesIn(d) : e = LinkTo(d, x[1], x[2], u)
      BY <1>4 DEF AddForeignKey
    <2> DEFINE fk == [name |-> x[2], columns |-> <<x[2]>>, referenced_table |-> u,
                      referenced_columns |-> d[u].primary_key]
               r == [d[x[1]] EXCEPT !.foreign_keys = @ \cup {fk}]
    <2>2. x[1] \in DOMAIN d /\ SoundRelation(d[x[1]], x[1], TablesIn(d))
      BY ColumnsAreIn
    <2>3. r.kind = d[x[1]].kind /\ r.indexes = d[x[1]].indexes
      BY <2>2 DEF SoundRelation, IsRelation
    <2>4. e = Bind(d, x[1], r)
      BY <2>1 DEF LinkTo
    <2> HIDE DEF r
    <2> QED
      BY <2>2, <2>3, <2>4, LessSeenInFull
  <1>5. CASE e \in CreateIndex(d, NothingMore)
    <2> DEFINE index(y) == [name |-> y[2], keys |-> <<y[2]>> \o <<>>, included |-> <<>>,
                            unique |-> FALSE, primary |-> FALSE]
               new(y)   == [d[y[1]] EXCEPT !.indexes = @ \cup {index(y)}]
    <2>1. PICK x \in ColumnsIn(d) : e = Bind(d, x[1], new(x))
      BY <1>5 DEF CreateIndex, NothingMore
    <2>2. x[1] \in DOMAIN d /\ x[2] \in Names /\ SoundRelation(d[x[1]], x[1], TablesIn(d))
      BY ColumnsAreIn
    <2>3. new(x).kind = d[x[1]].kind /\ new(x).indexes = d[x[1]].indexes \cup {index(x)}
      BY <2>2 DEF SoundRelation, IsRelation
    <2>4. Ordinary(index(x))
      <3>1. <<x[2]>> \o <<>> = <<x[2]>>
        OBVIOUS
      <3> QED
        BY <2>2, <3>1, ExpressionIsNoName DEF Ordinary
    <2> DEFINE r == new(x)
               added == index(x)
    <2>5. e = Bind(d, x[1], r) /\ r.kind = d[x[1]].kind
          /\ r.indexes = d[x[1]].indexes \cup {added}
      BY <2>1, <2>3
    <2>6. Ordinary(added)
      BY <2>4
    <2> HIDE DEF new, index, r, added
    <2> QED
      BY <2>2, <2>5, <2>6, AddIndexSeenInFull
  <1> QED
    BY <1>1, <1>2, <1>3, <1>4, <1>5

LEMMA ShrinkSeenInFull ==
    ASSUME NEW d, Sound(d), SeenInFull(d), NEW e \in Destructive(d)
    PROVE  SeenInFull(e)
  <1>1. CASE e \in DropTable(d)
    BY <1>1, WithoutSeenInFull DEF DropTable
  <1>2. CASE e \in DropColumn(d)
    <2> DEFINE new(y) == [d[y[1]] EXCEPT
                             !.columns      = Without(@, y[2]),
                             !.primary_key  = IF InSeq(y[2], @) THEN <<>> ELSE @,
                             !.foreign_keys = {fk \in @ : ~InSeq(y[2], fk.columns)},
                             !.indexes      = {i \in @ : ~InSeq(y[2], i.keys)
                                                         /\ ~InSeq(y[2], i.included)}]
    <2>1. PICK x \in ColumnsIn(d) : e = Bind(d, x[1], new(x))
      BY <1>2 DEF DropColumn
    <2>2. x[1] \in DOMAIN d /\ SoundRelation(d[x[1]], x[1], TablesIn(d))
      BY ColumnsAreIn
    <2>3. new(x).kind = d[x[1]].kind /\ new(x).indexes \subseteq d[x[1]].indexes
      BY <2>2 DEF SoundRelation, IsRelation
    <2> HIDE DEF new
    <2> QED
      BY <2>1, <2>2, <2>3, LessSeenInFull, SMTT(30)
  <1>3. CASE e \in AlterColumn(d)
    <2>1. PICK y \in ColumnsIn(d) \X ColumnShapes : e = Redefine(d, y[1][1], y[1][2], y[2])
      BY <1>3 DEF AlterColumn
    <2>2. y[1][1] \in DOMAIN d
      BY ColumnsAreIn
    <2> QED
      BY <2>1, <2>2, RedefineSeenInFull
  <1>4. CASE e \in RenameTable(d)
    <2>1. PICK t \in DOMAIN d, u \in RelationNames : e = Bind(Without(d, t), u, d[t])
      BY <1>4 DEF RenameTable
    <2>2. SeenInFull(Without(d, t))
      BY WithoutSeenInFull
    <2>3. d[t].kind # "p" /\ \A x \in d[t].indexes : Ordinary(x)
      BY DEF SeenInFull
    <2> QED
      BY <2>1, <2>2, <2>3, BindSeenInFull
  <1> QED
    BY <1>1, <1>2, <1>3, <1>4 DEF Destructive

\* In a database whose indexes are seen in full, a declared index is found
\* exactly when it exists.
LEMMA IndexesFound ==
    ASSUME Sound(db), SeenInFull(db), NEW i \in Located(contract, Live),
           NEW j \in DOMAIN contract.structure[i].indexes
    PROVE  IndexReported(i, j) <=> ~IndexExists(i, j)
  <1> DEFINE t == contract.structure[i].name
             spec == contract.structure[i].indexes[j]
             seen == Live.tables[t].indexes
  <1>1. t \in DOMAIN Live.tables
    BY DEF Located
  <1>2. /\ t \in DOMAIN db /\ db[t].kind = "r"
        /\ seen = SeenIndexes(db[t])
        /\ db[t].indexes \subseteq CatalogueIndex
    <2>1. t \in DOMAIN db /\ db[t].kind # "v"
      BY <1>1, LiveTables DEF Live
    <2>2. db[t].kind \in Kinds /\ db[t].indexes \subseteq CatalogueIndex
      BY <2>1 DEF Sound, SoundRelation, IsRelation
    <2>3. db[t].kind = "r"
      BY <2>1, <2>2 DEF SeenInFull, Kinds
    <2>4. seen = IF db[t].kind = "r" THEN SeenIndexes(db[t]) ELSE {}
      BY <1>1, LiveTables DEF Live
    <2> QED
      BY <2>1, <2>2, <2>3, <2>4
  <1>3. ASSUME NEW x \in db[t].indexes
        PROVE  SeenColumns(x) = x.keys /\ x.keys # <<>>
    <2>1. /\ x \in CatalogueIndex /\ x.keys # <<>> /\ x.included = <<>>
          /\ \A k \in DOMAIN x.keys : x.keys[k] # Expression
      BY <1>2, <1>3 DEF SeenInFull, Ordinary, Sound, SoundRelation
    <2>2. PlainKeys(x) = x.keys /\ x.keys \in Seq(Names \cup {Expression})
      BY <2>1, PlainKeysAre DEF CatalogueIndex
    <2> QED
      BY <2>1, <2>2 DEF SeenColumns
  <1> DEFINE Seen(x) == [name |-> x.name, columns |-> x.keys, unique |-> x.unique,
                         primary |-> x.primary]
  <1>4. seen = {Seen(x) : x \in db[t].indexes}
    BY <1>2, <1>3 DEF SeenIndexes
  <1>5. \A x : IndexMatches(spec, Seen(x)) <=> MeetsIndexSpec(spec, x)
    BY DEF IndexMatches, MeetsIndexSpec
  <1>6. IndexFound(spec, LiveTable(contract, Live, i)) <=> IndexExists(i, j)
    <2>1. LiveTable(contract, Live, i).indexes = seen
      BY DEF LiveTable
    <2> HIDE DEF seen, Seen
    <2> QED
      BY <1>4, <1>5, <2>1 DEF IndexFound, IndexExists
  <1>7. IndexReported(i, j) <=> ~IndexFound(spec, LiveTable(contract, Live, i))
    <2> DEFINE F(k, l) == Finding("indexes", "error",
                                  <<"index", contract.structure[k].name>>, <<k, l>>)
               Lost(k, l) == ~IndexFound(contract.structure[k].indexes[l],
                                         LiveTable(contract, Live, k))
    <2>1. \A f : f \in IndexFindings(contract, Live) <=>
             \E k \in Located(contract, Live) : \E l \in DOMAIN contract.structure[k].indexes :
                Lost(k, l) /\ f = F(k, l)
      BY DEF IndexFindings
    <2>2. \A k, l : F(k, l).at = <<k, l>>
      BY DEF Finding
    <2>3. \A k, l : <<k, l>> = <<i, j>> <=> k = i /\ l = j
      OBVIOUS
    <2> HIDE DEF F, Lost
    <2>4. IndexReported(i, j) <=> Lost(i, j)
      BY <2>1, <2>2, <2>3 DEF IndexReported
    <2> QED
      BY <2>4 DEF Lost
  <1> QED
    BY <1>6, <1>7

\* The check of a declared index is exact as long as no table is partitioned and
\* no index has an expression key or INCLUDEs a column: those are the three ways
\* in which SQL_INDEXES hides or blurs an index (indexes.py:11, introspect.py:107).
THEOREM IndexFindingsExact ==
    ASSUME TableKinds \subseteq {"r", "v"}, IndexTails \subseteq {NothingMore},
           \A d \in InitialCatalogues : SeenInFull(d)
    PROVE  Spec => []IndexReportedIffMissing
  <1>1. Init => SeenInFull(db)
    BY DEF Init
  <1>2. Sound(db) /\ SeenInFull(db) /\ [Next]_vars => SeenInFull(db)'
    <2> SUFFICES ASSUME Sound(db), SeenInFull(db), [Next]_vars
                 PROVE  SeenInFull(db')
      OBVIOUS
    <2>1. CASE Grow
      <3>1. \/ \E kind \in {"r", "v"} : db' \in CreateTable(db, kind)
            \/ db' \in AddColumn(db)
            \/ db' \in AddPrimaryKey(db)
            \/ db' \in AddForeignKey(db)
            \/ db' \in CreateIndex(db, NothingMore)
        BY <2>1 DEF Grow
      <3> QED
        BY <3>1, GrowSeenInFull
    <2>2. CASE Shrink
      BY <2>2, ShrinkSeenInFull DEF Shrink, Destructive
    <2>3. CASE Regenerate \/ UNCHANGED vars
      BY <2>3 DEF Regenerate, vars
    <2> QED
      BY <2>1, <2>2, <2>3 DEF Next
  <1>3. Sound(db) /\ SeenInFull(db) => IndexReportedIffMissing
    BY IndexesFound DEF IndexReportedIffMissing
  <1> QED
    BY <1>1, <1>2, <1>3, SoundHolds, PTL DEF Spec
=============================================================================
