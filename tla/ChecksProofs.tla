---------------------------- MODULE ChecksProofs ----------------------------
(***************************************************************************)
(* The checks against the meaning of a contract, for every contract and    *)
(* every schema.                                                           *)
(***************************************************************************)
EXTENDS Meaning, TLAPS

LEMMA FindingSeverity ==
    \A check, severity, target, at : Finding(check, severity, target, at).severity = severity
  BY DEF Finding

LEMMA NoErrors ==
    ASSUME NEW S
    PROVE  Errors(S) = {} <=> \A f \in S : f.severity # "error"
  BY DEF Errors

LEMMA ErrorsOfUnion ==
    ASSUME NEW S, NEW T
    PROVE  Errors(S \cup T) = {} <=> Errors(S) = {} /\ Errors(T) = {}
  BY DEF Errors

-----------------------------------------------------------------------------
(* One lemma per check: when it has no error finding. *)

LEMMA NoStructureError ==
    ASSUME NEW c, NEW s
    PROVE  Errors(StructureFindings(c, s)) = {}
             <=> \A i \in DOMAIN c.structure : c.structure[i].name \in DOMAIN s.tables
  <1> DEFINE F(i) == Finding("structure", "error", <<"table", c.structure[i].name>>, <<i>>)
  <1>1. \A f : f \in StructureFindings(c, s)
                 <=> \E i \in DOMAIN c.structure \ Located(c, s) : f = F(i)
    BY DEF StructureFindings
  <1>2. \A i : F(i).severity = "error"
    BY FindingSeverity
  <1> HIDE DEF F
  <1>3. Errors(StructureFindings(c, s)) = {} <=> DOMAIN c.structure \ Located(c, s) = {}
    BY <1>1, <1>2, NoErrors
  <1> QED
    BY <1>3 DEF Located

\* A specification contradicts a column in no attribute, and the column is
\* there, exactly when the column conforms to it.
LEMMA NoColumnFault ==
    ASSUME NEW spec, NEW table
    PROVE  ColumnFaults(spec, table) = {} <=> ColumnConforms(spec, table)
  <1>1. CASE spec.name \notin DOMAIN table.columns
    BY <1>1 DEF ColumnFaults, ColumnConforms
  <1>2. CASE spec.name \in DOMAIN table.columns
    <2> DEFINE col == table.columns[spec.name]
    <2>1. ColumnFaults(spec, table) = Contradictions(spec, col)
      BY <1>2 DEF ColumnFaults
    <2> HIDE DEF col
    <2>2. Contradictions(spec, col) = {} <=>
            /\ spec.type # None => NormaliseType(col.type) = NormaliseType(spec.type)
            /\ spec.nullable # None => col.nullable = spec.nullable
            /\ \A l \in Limits : spec.limit[l] \in {None, col.limit[l]}
            /\ spec.default # None =>
                  NormaliseDefault(col.default) = NormaliseDefault(spec.default)
      BY DEF Contradictions
    <2> QED
      BY <1>2, <2>1, <2>2 DEF ColumnConforms, col
  <1> QED
    BY <1>1, <1>2

LEMMA NoColumnError ==
    ASSUME NEW c, NEW s
    PROVE  Errors(ColumnFindings(c, s)) = {}
             <=> \A i \in Located(c, s) : \A j \in DOMAIN c.structure[i].columns :
                    ColumnConforms(c.structure[i].columns[j], LiveTable(c, s, i))
  <1> DEFINE F(i, j, a) ==
                Finding("columns", "error",
                        <<"column", c.structure[i].name, c.structure[i].columns[j].name>>,
                        <<i, j, a>>)
             Faults(i, j) == ColumnFaults(c.structure[i].columns[j], LiveTable(c, s, i))
  <1>0. ColumnFindings(c, s) =
          UNION {UNION {{F(i, j, a) : a \in Faults(i, j)} : j \in DOMAIN c.structure[i].columns} :
                 i \in Located(c, s)}
    BY DEF ColumnFindings
  <1>2. \A i, j, a : F(i, j, a).severity = "error"
    BY FindingSeverity
  <1>3. \A i, j : Faults(i, j) = {}
                    <=> ColumnConforms(c.structure[i].columns[j], LiveTable(c, s, i))
    BY NoColumnFault
  <1> HIDE DEF F, Faults
  <1>1. \A f : f \in ColumnFindings(c, s)
                 <=> \E i \in Located(c, s) : \E j \in DOMAIN c.structure[i].columns :
                        \E a \in Faults(i, j) : f = F(i, j, a)
    BY <1>0
  <1> QED
    BY <1>1, <1>2, <1>3, NoErrors

LEMMA NoConstraintError ==
    ASSUME NEW c, NEW s
    PROVE  Errors(ConstraintFindings(c, s)) = {}
             <=> \A i \in Located(c, s) :
                    /\ c.structure[i].primary_key \in {<<>>, LiveTable(c, s, i).primary_key}
                    /\ \A j \in DOMAIN c.structure[i].foreign_keys :
                          ForeignKeyFound(c.structure[i].foreign_keys[j], LiveTable(c, s, i))
  <1> DEFINE P(i) == Finding("constraints", "error",
                             <<"primary_key", c.structure[i].name>>, <<i>>)
             F(i, j) == Finding("constraints", "error",
                                <<"foreign_key", c.structure[i].name,
                                  c.structure[i].foreign_keys[j].columns>>, <<i, j>>)
             Bad(i) == PrimaryKeyContradicts(c.structure[i], LiveTable(c, s, i))
             Found(i, j) == ForeignKeyFound(c.structure[i].foreign_keys[j], LiveTable(c, s, i))
  <1>0. ConstraintFindings(c, s) =
          {P(i) : i \in {k \in Located(c, s) : Bad(k)}}
            \cup UNION {{F(i, j) : j \in {k \in DOMAIN c.structure[i].foreign_keys : ~Found(i, k)}} :
                        i \in Located(c, s)}
    BY DEF ConstraintFindings
  <1>2. /\ \A i : P(i).severity = "error"
        /\ \A i, j : F(i, j).severity = "error"
    BY FindingSeverity
  <1>3. \A i : ~Bad(i) <=> c.structure[i].primary_key \in {<<>>, LiveTable(c, s, i).primary_key}
    BY DEF PrimaryKeyContradicts
  <1> HIDE DEF P, F, Bad
  <1>1. \A f : f \in ConstraintFindings(c, s)
                 <=> \/ \E i \in Located(c, s) : Bad(i) /\ f = P(i)
                     \/ \E i \in Located(c, s) :
                           \E j \in DOMAIN c.structure[i].foreign_keys :
                              ~Found(i, j) /\ f = F(i, j)
    BY <1>0
  <1> QED
    BY <1>1, <1>2, <1>3, NoErrors

LEMMA NoIndexError ==
    ASSUME NEW c, NEW s
    PROVE  Errors(IndexFindings(c, s)) = {}
             <=> \A i \in Located(c, s) : \A j \in DOMAIN c.structure[i].indexes :
                    IndexFound(c.structure[i].indexes[j], LiveTable(c, s, i))
  <1> DEFINE F(i, j) == Finding("indexes", "error", <<"index", c.structure[i].name>>, <<i, j>>)
  <1>1. \A f : f \in IndexFindings(c, s)
                 <=> \E i \in Located(c, s) : \E j \in DOMAIN c.structure[i].indexes :
                        /\ ~IndexFound(c.structure[i].indexes[j], LiveTable(c, s, i))
                        /\ f = F(i, j)
    BY DEF IndexFindings
  <1>2. \A i, j : F(i, j).severity = "error"
    BY FindingSeverity
  <1> HIDE DEF F
  <1> QED
    BY <1>1, <1>2, NoErrors

LEMMA NoAuditError ==
    ASSUME NEW c, NEW s
    PROVE  Errors(AuditFindings(c, s)) = {} <=> AuditConforms(c, s)
  <1> DEFINE T(i) == Finding("audit", "error", <<"table", c.audit[i].table>>, <<i>>)
             F(i, j) == Finding("audit", "error",
                                <<"column", c.audit[i].table,
                                  c.audit[i].required_columns[j]>>, <<i, j>>)
             Here(i) == c.audit[i].table \in DOMAIN s.tables
             Lacks(i) == Lacking(c.audit[i], s.tables[c.audit[i].table])
  <1>0. AuditFindings(c, s) =
          {T(i) : i \in {k \in DOMAIN c.audit : ~Here(k)}}
            \cup UNION {{F(i, j) : j \in Lacks(i)} : i \in {k \in DOMAIN c.audit : Here(k)}}
    BY DEF AuditFindings
  <1>2. /\ \A i : T(i).severity = "error"
        /\ \A i, j : F(i, j).severity = "error"
    BY FindingSeverity
  <1>3. \A i : Lacks(i) = {} <=>
          \A j \in DOMAIN c.audit[i].required_columns :
              c.audit[i].required_columns[j] \in DOMAIN s.tables[c.audit[i].table].columns
    BY DEF Lacking
  <1> HIDE DEF T, F, Lacks
  <1>1. \A f : f \in AuditFindings(c, s)
                 <=> \/ \E i \in DOMAIN c.audit : ~Here(i) /\ f = T(i)
                     \/ \E i \in DOMAIN c.audit : Here(i) /\ \E j \in Lacks(i) : f = F(i, j)
    BY <1>0
  <1>4. Errors(AuditFindings(c, s)) = {} <=>
          \A i \in DOMAIN c.audit : Here(i) /\ Lacks(i) = {}
    BY <1>1, <1>2, NoErrors
  <1> QED
    BY <1>3, <1>4 DEF AuditConforms

LEMMA NoDriftError ==
    ASSUME NEW c, NEW s
    PROVE  Errors(DriftFindings(c, s)) = {} <=> DriftConforms(c, s)
  <1> DEFINE p == c.settings.unexpected_tables
             q == c.settings.unexpected_columns
             T(t) == Finding("drift", p, <<"table", t>>, <<>>)
             F(i, col) == Finding("drift", q, <<"column", c.structure[i].name, col>>, <<i>>)
             Extra(i) == DOMAIN LiveTable(c, s, i).columns \ DeclaredColumns(c.structure[i])
  <1>1. \A f : f \in UnexpectedTables(c, s)
                 <=> p # "ignore" /\ \E t \in DOMAIN s.tables \ DeclaredTables(c) : f = T(t)
    BY DEF UnexpectedTables
  <1>0. UnexpectedColumns(c, s) =
          IF q = "ignore" THEN {}
          ELSE UNION {{F(i, col) : col \in Extra(i)} :
                      i \in {k \in Located(c, s) : c.structure[k].columns # <<>>}}
    BY DEF UnexpectedColumns
  <1>3. /\ \A t : T(t).severity = p
        /\ \A i, col : F(i, col).severity = q
    BY FindingSeverity
  <1> HIDE DEF p, q, T, F, Extra
  <1>2. \A f : f \in UnexpectedColumns(c, s)
                 <=> q # "ignore" /\ \E i \in Located(c, s) :
                        c.structure[i].columns # <<>> /\ \E col \in Extra(i) : f = F(i, col)
    BY <1>0
  <1>4. Errors(UnexpectedTables(c, s)) = {} <=>
          (p = "error" => DOMAIN s.tables \subseteq DeclaredTables(c))
    BY <1>1, <1>3, NoErrors
  <1>5. Errors(UnexpectedColumns(c, s)) = {} <=>
          (q = "error" => \A i \in Located(c, s) :
                             c.structure[i].columns # <<>> => Extra(i) = {})
    BY <1>2, <1>3, NoErrors
  <1>6. \A i : Extra(i) = {} <=>
          DOMAIN LiveTable(c, s, i).columns \subseteq DeclaredColumns(c.structure[i])
    BY DEF Extra
  <1>7. Errors(DriftFindings(c, s)) = {} <=>
          Errors(UnexpectedTables(c, s)) = {} /\ Errors(UnexpectedColumns(c, s)) = {}
    BY ErrorsOfUnion DEF DriftFindings
  <1> QED
    BY <1>4, <1>5, <1>6, <1>7 DEF DriftConforms, p, q

-----------------------------------------------------------------------------
(* The verdict of a run, with and without checks that raise. *)

LEMMA PassMeansNoError ==
    ASSUME NEW active, NEW raising, NEW c, NEW s
    PROVE  StatusFromFindings(RunChecks(active, raising, c, s)) = "pass"
             <=> \A name \in active \ raising : Errors(CheckRun(name, c, s)) = {}
  <1>1. Errors(RunChecks(active, raising, c, s)) = {}
          <=> \A name \in active \ raising : Errors(CheckRun(name, c, s)) = {}
    <2>1. \A f : f \in RunChecks(active, raising, c, s)
                   <=> \E name \in active \ raising : f \in CheckRun(name, c, s)
      BY DEF RunChecks
    <2> QED
      BY <2>1, NoErrors
  <1> QED
    BY <1>1 DEF StatusFromFindings

LEMMA CheckRunByName ==
    ASSUME NEW c, NEW s
    PROVE  /\ CheckRun("structure", c, s) = StructureFindings(c, s)
           /\ CheckRun("columns", c, s) = ColumnFindings(c, s)
           /\ CheckRun("constraints", c, s) = ConstraintFindings(c, s)
           /\ CheckRun("indexes", c, s) = IndexFindings(c, s)
           /\ CheckRun("audit", c, s) = AuditFindings(c, s)
           /\ CheckRun("drift", c, s) = DriftFindings(c, s)
  BY DEF CheckRun

\* The verdict of the six checks is PASS exactly when the schema is what the
\* contract means (engine.py, checks/*.py, status_from_findings).
THEOREM PassesIffConforms ==
    ASSUME NEW c, NEW s
    PROVE  Passes(c, s) <=> Conforms(c, s)
  <1>1. Passes(c, s) <=>
          /\ Errors(StructureFindings(c, s)) = {}
          /\ Errors(ColumnFindings(c, s)) = {}
          /\ Errors(ConstraintFindings(c, s)) = {}
          /\ Errors(IndexFindings(c, s)) = {}
          /\ Errors(AuditFindings(c, s)) = {}
          /\ Errors(DriftFindings(c, s)) = {}
    BY PassMeansNoError, CheckRunByName DEF Passes, CheckNames
  <1>2. (\A i \in DOMAIN c.structure : c.structure[i].name \in DOMAIN s.tables)
          <=> Located(c, s) = DOMAIN c.structure
    BY DEF Located
  <1>3. DeclaredConforms(c, s) <=>
          /\ Errors(StructureFindings(c, s)) = {}
          /\ Errors(ColumnFindings(c, s)) = {}
          /\ Errors(ConstraintFindings(c, s)) = {}
          /\ Errors(IndexFindings(c, s)) = {}
    BY <1>2, NoStructureError, NoColumnError, NoConstraintError, NoIndexError
       DEF DeclaredConforms, TableConforms, LiveTable
  <1> QED
    BY <1>1, <1>3, NoAuditError, NoDriftError DEF Conforms

\* A check that raises takes findings away and adds none, so a FAIL is a
\* failure to conform whichever checks raise (engine.py:39).
LEMMA RaisingHidesOnly ==
    ASSUME NEW raising, NEW c, NEW s,
           StatusFromFindings(RunChecks(CheckNames, raising, c, s)) = "fail"
    PROVE  ~Conforms(c, s)
  <1>1. StatusFromFindings(RunChecks(CheckNames, raising, c, s)) # "pass"
    OBVIOUS
  <1>2. ~Passes(c, s)
    BY <1>1, PassMeansNoError DEF Passes
  <1> QED
    BY <1>2, PassesIffConforms

-----------------------------------------------------------------------------
(* Contracts that tolerate extra objects are monotone. *)

LEMMA TableConformsIsMonotone ==
    ASSUME NEW spec, NEW old, NEW new, TableExtends(old, new), TableConforms(spec, old)
    PROVE  TableConforms(spec, new)
  <1> USE DEF TableExtends, TableConforms
  <1>1. ASSUME NEW j \in DOMAIN spec.columns
        PROVE  ColumnConforms(spec.columns[j], new)
    BY DEF ColumnConforms
  <1>2. spec.primary_key \in {<<>>, new.primary_key}
    OBVIOUS
  <1>3. ASSUME NEW j \in DOMAIN spec.foreign_keys
        PROVE  ForeignKeyFound(spec.foreign_keys[j], new)
    BY DEF ForeignKeyFound
  <1>4. ASSUME NEW j \in DOMAIN spec.indexes
        PROVE  IndexFound(spec.indexes[j], new)
    BY DEF IndexFound
  <1> QED
    BY <1>1, <1>2, <1>3, <1>4, SMTT(30)

\* A schema that conforms to such a contract still does after additions: the
\* drift policies are the only rules an addition can break (drift.py:5).
THEOREM AdditionsKeepConforming ==
    ASSUME NEW c, NEW s, NEW t, Lenient(c), Extends(s, t), Conforms(c, s)
    PROVE  Conforms(c, t)
  <1>1. DeclaredConforms(c, t)
    BY TableConformsIsMonotone DEF Conforms, DeclaredConforms, Extends
  <1>2. AuditConforms(c, t)
    BY DEF Conforms, AuditConforms, Extends, TableExtends
  <1>3. DriftConforms(c, t)
    BY DEF Lenient, DriftConforms
  <1> QED
    BY <1>1, <1>2, <1>3 DEF Conforms

-----------------------------------------------------------------------------
(* What a finding is about: the check that made it, and the table it names. *)

LEMMA StructureFindingIs ==
    ASSUME NEW c, NEW s, NEW f \in StructureFindings(c, s)
    PROVE  /\ f.check = "structure" /\ f.severity = "error"
           /\ \E i \in DOMAIN c.structure \ Located(c, s) :
                 f.target = <<"table", c.structure[i].name>> /\ f.at = <<i>>
  <1>1. PICK i \in DOMAIN c.structure \ Located(c, s) :
           f = Finding("structure", "error", <<"table", c.structure[i].name>>, <<i>>)
    BY DEF StructureFindings
  <1> QED
    BY <1>1 DEF Finding

LEMMA ColumnFindingIs ==
    ASSUME NEW c, NEW s, NEW f \in ColumnFindings(c, s)
    PROVE  /\ f.check = "columns" /\ f.severity = "error"
           /\ \E i \in Located(c, s) : f.target[2] = c.structure[i].name
  <1> DEFINE F(i, j, a) ==
                Finding("columns", "error",
                        <<"column", c.structure[i].name, c.structure[i].columns[j].name>>,
                        <<i, j, a>>)
             Faults(i, j) == ColumnFaults(c.structure[i].columns[j], LiveTable(c, s, i))
  <1>1. ColumnFindings(c, s) =
          UNION {UNION {{F(i, j, a) : a \in Faults(i, j)} : j \in DOMAIN c.structure[i].columns} :
                 i \in Located(c, s)}
    BY DEF ColumnFindings
  <1>2. \A i, j, a : /\ F(i, j, a).check = "columns" /\ F(i, j, a).severity = "error"
                     /\ F(i, j, a).target[2] = c.structure[i].name
    BY DEF Finding
  <1> HIDE DEF F, Faults
  <1>3. \E i \in Located(c, s) : \E j \in DOMAIN c.structure[i].columns :
           \E a \in Faults(i, j) : f = F(i, j, a)
    BY <1>1
  <1> QED
    BY <1>2, <1>3

LEMMA ConstraintFindingIs ==
    ASSUME NEW c, NEW s, NEW f \in ConstraintFindings(c, s)
    PROVE  /\ f.check = "constraints" /\ f.severity = "error"
           /\ \E i \in Located(c, s) : f.target[2] = c.structure[i].name
  <1> DEFINE P(i) == Finding("constraints", "error",
                             <<"primary_key", c.structure[i].name>>, <<i>>)
             F(i, j) == Finding("constraints", "error",
                                <<"foreign_key", c.structure[i].name,
                                  c.structure[i].foreign_keys[j].columns>>, <<i, j>>)
             Bad(i) == PrimaryKeyContradicts(c.structure[i], LiveTable(c, s, i))
             Found(i, j) == ForeignKeyFound(c.structure[i].foreign_keys[j], LiveTable(c, s, i))
  <1>1. ConstraintFindings(c, s) =
          {P(i) : i \in {k \in Located(c, s) : Bad(k)}}
            \cup UNION {{F(i, j) : j \in {k \in DOMAIN c.structure[i].foreign_keys : ~Found(i, k)}} :
                        i \in Located(c, s)}
    BY DEF ConstraintFindings
  <1>2. /\ \A i : /\ P(i).check = "constraints" /\ P(i).severity = "error"
                  /\ P(i).target[2] = c.structure[i].name
        /\ \A i, j : /\ F(i, j).check = "constraints" /\ F(i, j).severity = "error"
                     /\ F(i, j).target[2] = c.structure[i].name
    BY DEF Finding
  <1> HIDE DEF P, F, Bad, Found
  <1>3. \/ \E i \in Located(c, s) : f = P(i)
        \/ \E i \in Located(c, s) : \E j : f = F(i, j)
    BY <1>1
  <1> QED
    BY <1>2, <1>3

LEMMA IndexFindingIs ==
    ASSUME NEW c, NEW s, NEW f \in IndexFindings(c, s)
    PROVE  /\ f.check = "indexes" /\ f.severity = "error"
           /\ \E i \in Located(c, s) : f.target[2] = c.structure[i].name
  <1> DEFINE F(i, j) == Finding("indexes", "error", <<"index", c.structure[i].name>>, <<i, j>>)
  <1>1. \E i \in Located(c, s) : \E j \in DOMAIN c.structure[i].indexes : f = F(i, j)
    BY DEF IndexFindings
  <1>2. \A i, j : /\ F(i, j).check = "indexes" /\ F(i, j).severity = "error"
                  /\ F(i, j).target[2] = c.structure[i].name
    BY DEF Finding
  <1> HIDE DEF F
  <1> QED
    BY <1>1, <1>2

LEMMA AuditFindingIs ==
    ASSUME NEW c, NEW s, NEW f \in AuditFindings(c, s)
    PROVE  f.check = "audit" /\ f.severity = "error"
  <1> DEFINE T(i) == Finding("audit", "error", <<"table", c.audit[i].table>>, <<i>>)
             F(i, j) == Finding("audit", "error",
                                <<"column", c.audit[i].table,
                                  c.audit[i].required_columns[j]>>, <<i, j>>)
             Here(i) == c.audit[i].table \in DOMAIN s.tables
             Lacks(i) == Lacking(c.audit[i], s.tables[c.audit[i].table])
  <1>1. AuditFindings(c, s) =
          {T(i) : i \in {k \in DOMAIN c.audit : ~Here(k)}}
            \cup UNION {{F(i, j) : j \in Lacks(i)} : i \in {k \in DOMAIN c.audit : Here(k)}}
    BY DEF AuditFindings
  <1>2. /\ \A i : T(i).check = "audit" /\ T(i).severity = "error"
        /\ \A i, j : F(i, j).check = "audit" /\ F(i, j).severity = "error"
    BY DEF Finding
  <1> HIDE DEF T, F, Here, Lacks
  <1>3. (\E i : f = T(i)) \/ (\E i, j : f = F(i, j))
    BY <1>1
  <1> QED
    BY <1>2, <1>3

LEMMA DriftFindingIs ==
    ASSUME NEW c, NEW s, NEW f \in DriftFindings(c, s)
    PROVE  /\ f.check = "drift" /\ f.target[2] \in DOMAIN s.tables
           /\ \/ f.severity = c.settings.unexpected_tables /\ f.severity # "ignore"
              \/ f.severity = c.settings.unexpected_columns /\ f.severity # "ignore"
  <1> DEFINE p == c.settings.unexpected_tables
             q == c.settings.unexpected_columns
             T(t) == Finding("drift", p, <<"table", t>>, <<>>)
             F(i, col) == Finding("drift", q, <<"column", c.structure[i].name, col>>, <<i>>)
             Extra(i) == DOMAIN LiveTable(c, s, i).columns \ DeclaredColumns(c.structure[i])
  <1>1. f \in UnexpectedTables(c, s)
          => p # "ignore" /\ \E t \in DOMAIN s.tables : f = T(t)
    BY DEF UnexpectedTables
  <1>2. UnexpectedColumns(c, s) =
          IF q = "ignore" THEN {}
          ELSE UNION {{F(i, col) : col \in Extra(i)} :
                      i \in {k \in Located(c, s) : c.structure[k].columns # <<>>}}
    BY DEF UnexpectedColumns
  <1>3. /\ \A t : T(t).check = "drift" /\ T(t).severity = p /\ T(t).target[2] = t
        /\ \A i, col : /\ F(i, col).check = "drift" /\ F(i, col).severity = q
                       /\ F(i, col).target[2] = c.structure[i].name
    BY DEF Finding
  <1>4. \A i \in Located(c, s) : c.structure[i].name \in DOMAIN s.tables
    BY DEF Located
  <1> HIDE DEF p, q, T, F, Extra
  <1>5. f \in UnexpectedColumns(c, s)
          => q # "ignore" /\ \E i \in Located(c, s) : \E col : f = F(i, col)
    BY <1>2
  <1>6. f \in UnexpectedTables(c, s) \/ f \in UnexpectedColumns(c, s)
    BY DEF DriftFindings
  <1>7. /\ f.check = "drift" /\ f.target[2] \in DOMAIN s.tables
        /\ \/ f.severity = p /\ p # "ignore"
           \/ f.severity = q /\ q # "ignore"
    BY <1>1, <1>3, <1>4, <1>5, <1>6
  <1> QED
    BY <1>7 DEF p, q

\* The findings of a run by the check that made them.
LEMMA FindingByCheck ==
    ASSUME NEW c, NEW s, NEW f
    PROVE  f \in RunChecks(CheckNames, {}, c, s) <=>
             \/ f \in StructureFindings(c, s) \/ f \in ColumnFindings(c, s)
             \/ f \in ConstraintFindings(c, s) \/ f \in IndexFindings(c, s)
             \/ f \in AuditFindings(c, s) \/ f \in DriftFindings(c, s)
  BY CheckRunByName DEF RunChecks, CheckNames
=============================================================================
