-------------------------- MODULE RelationalProofs --------------------------
(***************************************************************************)
(* The constraints that table.h does keep, for every schema, every set of  *)
(* tables and values, and any number of rows.  The inductive invariant is  *)
(* the conjunction of the type invariant and the three properties: the     *)
(* type invariant says that a new row id is no row's and that a statement  *)
(* under way only meets rows that are still there.                         *)
(***************************************************************************)
EXTENDS Relational, TLAPS

IInv == TypeOK /\ NotNullHolds /\ UniqueHolds /\ NoInventedReference

\* What TypeOK says of the rows f of table t below the counter n.
RowsOf(t, f, n) ==
    /\ f \in [DOMAIN f -> Row(t)]
    /\ DOMAIN f \subseteq 1 .. n - 1

\* The constraints that concern the rows f of table t alone.
LocalOk(t, f) ==
    /\ \A r \in DOMAIN f : NotNullOk(t, f[r])
    /\ \A i \in Cols(t) :
         Schema[t][i].primary_key \/ Schema[t][i].unique =>
           \A r, s \in DOMAIN f : f[r][i] = f[s][i] /\ f[r][i] # Null => r = s

\* What NoInventedReference asks of a reference v in column i of table t: the
\* column it names exists, and what v is looked up as is or once was there.
Known(t, i, v) ==
    /\ TargetThere(t, i)
    /\ Target(t, i, v) \in Present(Schema[t][i].fk_table, rows[Schema[t][i].fk_table])
                            \cup lost

\* Every reference in the rows f of table t is known.
ReferencesKnown(t, f) ==
    \A r \in DOMAIN f : \A i \in Cols(t) :
        Schema[t][i].has_fk /\ f[r][i] # Null => Known(t, i, f[r][i])

AllKnown == \A t \in Tables : ReferencesKnown(t, rows[t])

-----------------------------------------------------------------------------
(* What replacing the rows of one table needs.                             *)

LEMMA ReferencesAreKnown == NoInventedReference <=> AllKnown
<1> DEFINE body(t, i, v) ==
             LET p == Schema[t][i].fk_table
                 c == Schema[t][i].fk_column
                 known == Present(p, rows[p]) \cup lost
             IN  /\ c \in Cols(p)
                 /\ IF Schema[t][i].type = Schema[p][c].type
                    THEN <<p, c, v>> \in known
                    ELSE <<p, c, Zero[Schema[p][c].type]>> \in known
<1>1. ASSUME NEW t, NEW i, NEW v PROVE body(t, i, v) <=> Known(t, i, v)
  <2>1. CASE Schema[t][i].type
               = Schema[Schema[t][i].fk_table][Schema[t][i].fk_column].type
    BY <2>1 DEF Known, TargetThere, Target
  <2>2. CASE Schema[t][i].type
               # Schema[Schema[t][i].fk_table][Schema[t][i].fk_column].type
    BY <2>2 DEF Known, TargetThere, Target
  <2> QED
    BY <2>1, <2>2
<1>2. NoInventedReference <=>
        \A t \in Tables : \A r \in DOMAIN rows[t] : \A i \in Cols(t) :
          Schema[t][i].has_fk /\ rows[t][r][i] # Null => body(t, i, rows[t][r][i])
  BY DEF NoInventedReference
<1> HIDE DEF body
<1> QED
  BY <1>1, <1>2 DEF ReferencesKnown, AllKnown

LEMMA RowsFacts ==
    ASSUME IInv, NEW t \in Tables
    PROVE  /\ RowsOf(t, rows[t], next_rowid[t]) /\ next_rowid[t] \in Nat
           /\ LocalOk(t, rows[t])
           /\ ReferencesKnown(t, rows[t])
BY MaxRowidAssumption, ReferencesAreKnown
   DEF IInv, TypeOK, RowsOf, LocalOk, NotNullHolds, UniqueHolds, AllKnown

\* A referenced value that leaves the rows of its table enters lost.
LEMMA ReferencedStays ==
    ASSUME IInv, NEW t \in Tables, NEW f, SetRows(t, f),
           NEW u \in Tables, NEW j \in Cols(u), Schema[u][j].has_fk, NEW v,
           Known(u, j, v)
    PROVE  Known(u, j, v)'
<1> DEFINE p == Schema[u][j].fk_table
           c == Schema[u][j].fk_column
           x == Target(u, j, v)
<1>1. p \in Tables
  BY SchemaAssumption DEF Column
<1>2. lost \subseteq lost' /\ x \in Present(p, rows[p]) \cup lost
  BY DEF SetRows, Known
<1>3. x \in Present(p, rows'[p]) \cup lost'
  <2>1. CASE p # t
    <3>1. rows'[p] = rows[p]
      BY <1>1, <2>1 DEF SetRows, IInv, TypeOK
    <3> QED
      BY <1>2, <3>1
  <2>2. CASE p = t
    <3>1. rows'[p] = f
      BY <1>1, <2>2 DEF SetRows, IInv, TypeOK
    <3>2. Referenced(p, c) /\ x[2] = c
      BY DEF Referenced, Target
    <3>3. x \in Present(p, rows[p]) \ Present(p, f) => x \in lost'
      BY <2>2, <3>2 DEF SetRows
    <3> QED
      BY <1>2, <3>1, <3>3
  <2> QED
    BY <2>1, <2>2
<1> QED
  BY <1>3 DEF Known

\* Rows that satisfy the constraints take the place of the rows of a table.
LEMMA SetRowsKeeps ==
    ASSUME IInv, NEW t \in Tables, NEW f, SetRows(t, f),
           LocalOk(t, f), ReferencesKnown(t, f)
    PROVE  NotNullHolds' /\ UniqueHolds' /\ NoInventedReference'
<1>1. /\ DOMAIN rows' = Tables /\ rows'[t] = f
      /\ \A u \in Tables \ {t} : rows'[u] = rows[u]
  BY DEF SetRows, IInv, TypeOK
<1>2. NotNullHolds' /\ UniqueHolds'
  BY <1>1 DEF LocalOk, IInv, NotNullHolds, UniqueHolds
<1>3. ASSUME NEW u \in Tables, NEW r \in DOMAIN rows'[u], NEW j \in Cols(u),
             Schema[u][j].has_fk, rows'[u][r][j] # Null,
             NEW v, v = rows'[u][r][j]
      PROVE  Known(u, j, v)'
  <2>1. Known(u, j, v)
    <3>1. CASE u = t
      BY <1>1, <1>3, <3>1 DEF ReferencesKnown
    <3>2. CASE u # t
      BY <1>1, <1>3, <3>2, RowsFacts DEF ReferencesKnown
    <3> QED
      BY <3>1, <3>2
  <2> QED
    BY <1>3, <2>1, ReferencedStays
<1>4. NoInventedReference'
  <2>1. AllKnown'
    BY <1>3 DEF AllKnown, ReferencesKnown
  <2> QED
    BY <2>1, ReferencesAreKnown, PTL
<1> QED
  BY <1>2, <1>4

\* A step that leaves the rows alone.
LEMMA SameRowsKeeps ==
    ASSUME IInv, UNCHANGED <<rows, lost>>
    PROVE  NotNullHolds' /\ UniqueHolds' /\ NoInventedReference'
<1>1. NotNullHolds' /\ UniqueHolds'
  BY DEF IInv, NotNullHolds, UniqueHolds
<1>2. NoInventedReference'
  <2>1. AllKnown
    BY ReferencesAreKnown DEF IInv
  <2>2. ASSUME NEW t, NEW i, NEW v, Known(t, i, v) PROVE Known(t, i, v)'
    BY <2>2 DEF Known, Present
  <2>3. AllKnown'
    BY <2>1, <2>2 DEF AllKnown, ReferencesKnown
  <2> QED
    BY <2>3, ReferencesAreKnown, PTL
<1> QED
  BY <1>1, <1>2

\* A row that passes check_constraints, put in the place of row self or under
\* an id of its own.
LEMMA CheckedRow ==
    ASSUME IInv, NEW t \in Tables, NEW v \in Row(t), NEW self, NEW id,
           ConstraintsOk(t, v, self),
           self \notin DOMAIN rows[t] \ {id},
           NEW f, DOMAIN f = DOMAIN rows[t] \cup {id}, f[id] = v,
           \A r \in DOMAIN rows[t] \ {id} : f[r] = rows[t][r]
    PROVE  LocalOk(t, f) /\ ReferencesKnown(t, f)
<1>1. LocalOk(t, rows[t]) /\ ReferencesKnown(t, rows[t])
  BY RowsFacts
<1>2. NotNullOk(t, v) /\ UniqueOk(t, v, self) /\ ForeignKeyOk(t, v)
  BY DEF ConstraintsOk
<1>3. \A r \in DOMAIN f : NotNullOk(t, f[r])
  BY <1>1, <1>2 DEF LocalOk
<1>4. ASSUME NEW i \in Cols(t), Schema[t][i].primary_key \/ Schema[t][i].unique,
             NEW r \in DOMAIN f, NEW s \in DOMAIN f, f[r][i] = f[s][i], f[r][i] # Null
      PROVE  r = s
  <2>1. ASSUME NEW o \in DOMAIN rows[t] \ {id}, v[i] # Null
        PROVE  rows[t][o][i] # v[i]
    BY <1>2, <1>4, <2>1 DEF UniqueOk
  <2> QED
    BY <1>1, <1>4, <2>1 DEF LocalOk
<1>5. ReferencesKnown(t, f)
  BY <1>1, <1>2 DEF ReferencesKnown, ForeignKeyOk, Known
<1> QED
  BY <1>3, <1>4, <1>5 DEF LocalOk

-----------------------------------------------------------------------------
(* The inductive step.                                                     *)

LEMMA InitInv == Init => IInv
<1> SUFFICES ASSUME Init PROVE IInv
  OBVIOUS
<1>1. TypeOK
  BY MaxRowidAssumption DEF Init, TypeOK, Empty, StmtOk, Row
<1>2. NotNullHolds /\ UniqueHolds /\ NoInventedReference
  BY DEF Init, NotNullHolds, UniqueHolds, NoInventedReference, Empty
<1> QED
  BY <1>1, <1>2 DEF IInv

\* The rows of one table change and the types stay.
LEMMA SetRowsTypes ==
    ASSUME IInv, NEW t \in live, NEW f, SetRows(t, f),
           next_rowid' \in [Tables -> 1 .. MaxRowid + 1],
           \A u \in Tables \ {t} : next_rowid'[u] = next_rowid[u],
           RowsOf(t, f, next_rowid'[t]), live' = live, StmtOk'
    PROVE  TypeOK'
<1>1. /\ DOMAIN rows' = Tables /\ rows'[t] = f /\ t \in Tables
      /\ \A u \in Tables \ {t} : rows'[u] = rows[u]
  BY DEF SetRows, IInv, TypeOK
<1> QED
  BY <1>1 DEF IInv, TypeOK, RowsOf

LEMMA TableStep ==
    ASSUME IInv, NEW t \in Tables, CreateTable(t) \/ DropTable(t)
    PROVE  IInv'
<1>1. CASE CreateTable(t)
  <2>1. rows[t] = Empty
    BY <1>1 DEF CreateTable, IInv, TypeOK
  <2>2. TypeOK'
    BY <1>1, <2>1, MaxRowidAssumption
       DEF CreateTable, IInv, TypeOK, StmtOk, Empty
  <2> QED
    BY <1>1, <2>2, SameRowsKeeps DEF CreateTable, IInv
<1>2. CASE DropTable(t)
  <2>1. SetRows(t, Empty) /\ LocalOk(t, Empty) /\ ReferencesKnown(t, Empty)
    BY <1>2 DEF DropTable, LocalOk, ReferencesKnown, Empty
  <2>2. TypeOK'
    BY <1>2 DEF DropTable, SetRows, IInv, TypeOK, StmtOk, Empty, Row
  <2> QED
    BY <2>1, <2>2, SetRowsKeeps DEF IInv
<1> QED
  BY <1>1, <1>2

LEMMA BeginStep ==
    ASSUME IInv, NEW t \in Tables,
           \/ BeginInsert(t)
           \/ \E picked \in SUBSET (1 .. MaxRowid) :
                \/ BeginDelete(t, picked)
                \/ \E set \in Assignment(t) : BeginUpdate(t, picked, set)
    PROVE  IInv'
<1>1. UNCHANGED <<live, rows, next_rowid, lost>> /\ t \in live
  BY DEF BeginInsert, BeginDelete, BeginUpdate
<1>2. StmtOk'
  <2>1. CASE BeginInsert(t)
    BY <1>1, <2>1 DEF BeginInsert, StmtOk
  <2>2. ASSUME NEW picked \in SUBSET (1 .. MaxRowid), BeginDelete(t, picked)
        PROVE  StmtOk'
    BY <1>1, <2>2 DEF BeginDelete, StmtOk
  <2>3. ASSUME NEW picked \in SUBSET (1 .. MaxRowid), NEW set \in Assignment(t),
               BeginUpdate(t, picked, set)
        PROVE  StmtOk'
    BY <1>1, <2>3 DEF BeginUpdate, StmtOk
  <2> QED
    BY <2>1, <2>2, <2>3
<1>3. TypeOK'
  BY <1>1, <1>2 DEF IInv, TypeOK
<1> QED
  BY <1>1, <1>3, SameRowsKeeps DEF IInv

LEMMA EndStmtStep == ASSUME IInv, EndStmt PROVE IInv'
<1>1. TypeOK'
  BY DEF EndStmt, IInv, TypeOK, StmtOk
<1> QED
  BY <1>1, SameRowsKeeps DEF EndStmt, IInv

\* The new row has an id of its own, so it passes check_constraints against
\* every row there is.
LEMMA InsertRowStep ==
    ASSUME IInv, NEW t \in Tables, NEW v \in Row(t), InsertRow(t, v)
    PROVE  IInv'
<1> DEFINE id == next_rowid[t]
           f == [r \in DOMAIN rows[t] \cup {id} |-> IF r = id THEN v ELSE rows[t][r]]
<1>1. /\ ConstraintsOk(t, v, 0) /\ SetRows(t, f) /\ id <= MaxRowid
      /\ next_rowid' = [next_rowid EXCEPT ![t] = @ + 1]
      /\ live' = live /\ stmt' = stmt
  BY DEF InsertRow
<1>2. RowsOf(t, rows[t], id) /\ id \in 1 .. MaxRowid + 1
  BY RowsFacts DEF IInv, TypeOK
<1>3. id \notin DOMAIN rows[t] /\ 0 \notin DOMAIN rows[t] /\ id \in Nat
  BY <1>2, MaxRowidAssumption DEF RowsOf
<1>4. LocalOk(t, f) /\ ReferencesKnown(t, f)
  <2>1. /\ DOMAIN f = DOMAIN rows[t] \cup {id} /\ f[id] = v
        /\ \A r \in DOMAIN rows[t] \ {id} : f[r] = rows[t][r]
    OBVIOUS
  <2>2. ConstraintsOk(t, v, 0) /\ 0 \notin DOMAIN rows[t] \ {id}
    BY <1>1, <1>3
  <2> HIDE DEF f, id
  <2> QED
    BY <2>1, <2>2, CheckedRow
<1>5. t \in live
  BY DEF InsertRow, IInv, TypeOK, StmtOk, NoStmt
<1>6. /\ next_rowid' \in [Tables -> 1 .. MaxRowid + 1]
      /\ next_rowid'[t] = id + 1
      /\ \A u \in Tables \ {t} : next_rowid'[u] = next_rowid[u]
  BY <1>1, <1>2, MaxRowidAssumption DEF IInv, TypeOK
<1>7. RowsOf(t, f, id + 1)
  <2>1. DOMAIN f \subseteq 1 .. id
    BY <1>2, <1>3, MaxRowidAssumption DEF RowsOf
  <2>2. f \in [DOMAIN f -> Row(t)]
    BY <1>2 DEF RowsOf
  <2> QED
    BY <1>3, <2>1, <2>2 DEF RowsOf
<1>8. StmtOk'
  BY <1>1, <1>5 DEF InsertRow, StmtOk
<1>9. TypeOK'
  BY <1>1, <1>5, <1>6, <1>7, <1>8, SetRowsTypes
<1> QED
  BY <1>1, <1>4, <1>9, SetRowsKeeps DEF IInv

\* The statement under way after one of its rows is done.
LEMMA AdvanceType ==
    ASSUME NEW t \in live, live' = live, NEW todo, NEW id,
           todo \ {id} \subseteq DOMAIN rows'[t], Advance(todo \ {id}),
           \/ stmt = [kind |-> "delete", table |-> t, todo |-> todo]
           \/ \E set \in Assignment(t) :
                stmt = [kind |-> "update", table |-> t, todo |-> todo, set |-> set]
    PROVE  StmtOk'
<1> DEFINE left == todo \ {id}
<1>1. CASE left = {}
  BY <1>1 DEF Advance, StmtOk
<1>2. CASE left # {} /\ stmt = [kind |-> "delete", table |-> t, todo |-> todo]
  <2>1. stmt' = [kind |-> "delete", table |-> t, todo |-> left]
    BY <1>2 DEF Advance
  <2> QED
    BY <1>2, <2>1 DEF StmtOk
<1>3. ASSUME left # {}, NEW set \in Assignment(t),
             stmt = [kind |-> "update", table |-> t, todo |-> todo, set |-> set]
      PROVE  StmtOk'
  <2>1. stmt' = [kind |-> "update", table |-> t, todo |-> left, set |-> set]
    BY <1>3 DEF Advance
  <2> QED
    BY <1>3, <2>1 DEF StmtOk
<1> QED
  BY <1>1, <1>2, <1>3

\* An assignment gives a row of the table a value of its type in each column.
LEMMA AssignedIsRow ==
    ASSUME NEW t, NEW old \in Row(t), NEW set \in Assignment(t)
    PROVE  Assigned(t, old, set) \in Row(t)
<1> DEFINE v == Assigned(t, old, set)
<1>1. \A i \in Cols(t) : v[i] \in Vals[Schema[t][i].type] \cup {Null}
  BY DEF Assigned, Assignment, Row
<1>2. v \in [Cols(t) -> AnyVal \cup {Null}]
  BY DEF Assigned, Assignment, Row
<1> HIDE DEF v
<1>3. v \in Row(t)
  BY <1>1, <1>2 DEF Row
<1> QED
  BY <1>3 DEF v

\* The row of an UPDATE was collected earlier and is still there.
LEMMA UpdateRowStep == ASSUME IInv, NEW id, UpdateRow(id) PROVE IInv'
<1>0. PICK t \in live :
        \E todo \in SUBSET DOMAIN rows[t], set \in Assignment(t) :
          stmt = [kind |-> "update", table |-> t, todo |-> todo, set |-> set]
  BY DEF UpdateRow, IInv, TypeOK, StmtOk, NoStmt
<1>1. PICK todo \in SUBSET DOMAIN rows[t], set \in Assignment(t) :
        stmt = [kind |-> "update", table |-> t, todo |-> todo, set |-> set]
  BY <1>0
<1>2. t \in Tables /\ id \in DOMAIN rows[t]
  BY <1>1 DEF UpdateRow, IsNext, IInv, TypeOK
<1> DEFINE v == Assigned(t, rows[t][id], set)
           f == [rows[t] EXCEPT ![id] = v]
<1>3. /\ ConstraintsOk(t, v, id) /\ SetRows(t, f)
      /\ Advance(todo \ {id}) /\ live' = live /\ next_rowid' = next_rowid
  BY <1>1 DEF UpdateRow
<1>4. RowsOf(t, rows[t], next_rowid[t])
  BY <1>2, RowsFacts
<1>5. v \in Row(t)
  BY <1>2, <1>4, AssignedIsRow DEF RowsOf
<1>6. /\ DOMAIN f = DOMAIN rows[t] /\ f[id] = v
      /\ \A r \in DOMAIN rows[t] \ {id} : f[r] = rows[t][r]
  BY <1>2, <1>4 DEF RowsOf
<1> HIDE DEF v, f
<1>7. LocalOk(t, f) /\ ReferencesKnown(t, f)
  BY <1>2, <1>3, <1>5, <1>6, CheckedRow
<1>8. RowsOf(t, f, next_rowid'[t])
  <2>1. f \in [DOMAIN f -> Row(t)]
    BY <1>2, <1>4, <1>5, <1>6 DEF RowsOf, f
  <2> QED
    BY <1>3, <1>4, <1>6, <2>1 DEF RowsOf
<1>9. rows'[t] = f
  BY <1>2, <1>3 DEF SetRows, IInv, TypeOK
<1>10. StmtOk'
  BY <1>1, <1>3, <1>6, <1>9, AdvanceType
<1>11. TypeOK'
  BY <1>1, <1>3, <1>8, <1>10, SetRowsTypes DEF IInv, TypeOK
<1> QED
  BY <1>2, <1>3, <1>7, <1>11, SetRowsKeeps DEF IInv

LEMMA DeleteRowStep == ASSUME IInv, NEW id, DeleteRow(id) PROVE IInv'
<1>0. PICK t \in live : \E todo \in SUBSET DOMAIN rows[t] :
        stmt = [kind |-> "delete", table |-> t, todo |-> todo]
  BY DEF DeleteRow, IInv, TypeOK, StmtOk, NoStmt
<1>1. PICK todo \in SUBSET DOMAIN rows[t] :
        stmt = [kind |-> "delete", table |-> t, todo |-> todo]
  BY <1>0
<1>2. t \in Tables
  BY <1>1 DEF IInv, TypeOK
<1> DEFINE f == [r \in DOMAIN rows[t] \ {id} |-> rows[t][r]]
<1>3. /\ SetRows(t, f) /\ Advance(todo \ {id})
      /\ live' = live /\ next_rowid' = next_rowid
  BY <1>1 DEF DeleteRow
<1>4. /\ DOMAIN f = DOMAIN rows[t] \ {id}
      /\ \A r \in DOMAIN f : f[r] = rows[t][r]
  OBVIOUS
<1>5. LocalOk(t, f) /\ ReferencesKnown(t, f)
  BY <1>2, <1>4, RowsFacts DEF LocalOk, ReferencesKnown
<1>6. RowsOf(t, f, next_rowid'[t])
  BY <1>2, <1>3, RowsFacts DEF RowsOf
<1>7. rows'[t] = f
  BY <1>2, <1>3 DEF SetRows, IInv, TypeOK
<1>8. StmtOk'
  BY <1>1, <1>3, <1>4, <1>7, AdvanceType
<1>9. TypeOK'
  BY <1>1, <1>3, <1>6, <1>8, SetRowsTypes DEF IInv, TypeOK
<1> QED
  BY <1>2, <1>3, <1>5, <1>9, SetRowsKeeps DEF IInv

LEMMA StepInv == IInv /\ [Next]_vars => IInv'
<1> SUFFICES ASSUME IInv, [Next]_vars PROVE IInv'
  OBVIOUS
<1>1. ASSUME NEW t \in Tables, CreateTable(t) \/ DropTable(t) PROVE IInv'
  BY <1>1, TableStep
<1>2. ASSUME NEW t \in Tables, BeginInsert(t) PROVE IInv'
  BY <1>2, BeginStep
<1>3. ASSUME NEW t \in Tables, NEW v \in Row(t), InsertRow(t, v) PROVE IInv'
  BY <1>3, InsertRowStep
<1>4. ASSUME NEW t \in Tables, NEW picked \in SUBSET (1 .. MaxRowid),
             \/ BeginDelete(t, picked)
             \/ \E set \in Assignment(t) : BeginUpdate(t, picked, set)
      PROVE  IInv'
  BY <1>4, BeginStep
<1>5. ASSUME NEW id, UpdateRow(id) \/ DeleteRow(id) PROVE IInv'
  BY <1>5, UpdateRowStep, DeleteRowStep
<1>6. CASE EndStmt
  BY <1>6, EndStmtStep
<1>7. CASE UNCHANGED vars
  <2>1. TypeOK'
    BY <1>7 DEF vars, IInv, TypeOK, StmtOk
  <2> QED
    BY <1>7, <2>1, SameRowsKeeps DEF vars, IInv
<1> QED
  BY <1>1, <1>2, <1>3, <1>4, <1>5, <1>6, <1>7 DEF Next

LEMMA InvariantHolds == Spec => []IInv
BY InitInv, StepInv, PTL DEF Spec

-----------------------------------------------------------------------------
(* Every step on the rows is an operation of Store on one table.  Held is  *)
(* what the storage engine has of a table with the rows f and the counter  *)
(* n; Db has one for each live table.                                      *)

Held(f, n) ==
    [rows |-> {[key |-> r, value |-> f[r]] : r \in DOMAIN f}, next_rowid |-> n]

\* A live table is there for Store, a dropped one is not.
LEMMA HeldTables ==
    ASSUME TypeOK
    PROVE  /\ DOMAIN Db = Tables
           /\ \A t \in live : Db[t] = Held(rows[t], next_rowid[t]) /\ Storage!Exists(t)
           /\ \A t \in Tables \ live : Db[t] = Storage!NoTable
<1>1. \A t \in live : Db[t] = Held(rows[t], next_rowid[t])
  BY DEF TypeOK, Db, Held
<1>2. ASSUME NEW t \in live PROVE Db[t] # Storage!NoTable
  <2>1. next_rowid[t] \in 1 .. MaxRowid + 1
    BY DEF TypeOK
  <2>2. Held(rows[t], next_rowid[t]).next_rowid # 0
    BY <2>1, MaxRowidAssumption DEF Held
  <2> QED
    BY <1>1, <2>2 DEF Storage!NoTable
<1> QED
  BY <1>1, <1>2 DEF Db, Storage!Exists, Storage!NoTable, TypeOK

\* A step that changes one table changes Db there and nowhere else.
LEMMA OneTableChanges ==
    ASSUME TypeOK, TypeOK', NEW t \in Tables,
           live' \ {t} = live \ {t},
           \A u \in Tables \ {t} :
             rows'[u] = rows[u] /\ next_rowid'[u] = next_rowid[u]
    PROVE  Db' = [Db EXCEPT ![t] = Db'[t]]
<1>1. Db = [u \in Tables |-> Db[u]] /\ Db' = [u \in Tables |-> Db'[u]]
  BY DEF Db
<1>2. ASSUME NEW u \in Tables \ {t} PROVE Db'[u] = Db[u]
  <2>1. (u \in live') = (u \in live)
    OBVIOUS
  <2> QED
    BY <2>1 DEF Db
<1> QED
  BY <1>1, <1>2

\* A record of a table with other rows.
LEMMA OtherRows ==
    ASSUME NEW X, NEW n, NEW R
    PROVE  [[rows |-> X, next_rowid |-> n] EXCEPT !.rows = R]
             = [rows |-> R, next_rowid |-> n]
OBVIOUS

LEMMA TablesUseStore ==
    ASSUME TypeOK, TypeOK', NEW t \in Tables, CreateTable(t) \/ DropTable(t)
    PROVE  Storage!CreateTable(t) \/ Storage!DropTable(t)
<1>1. Db' = [Db EXCEPT ![t] = Db'[t]]
  BY OneTableChanges DEF CreateTable, DropTable, SetRows, TypeOK
<1>2. CASE CreateTable(t)
  <2>1. rows'[t] = Empty /\ next_rowid'[t] = 1 /\ live' = live \cup {t} /\ t \notin live
    BY <1>2 DEF CreateTable, TypeOK
  <2>2. Db'[t] = [rows |-> {}, next_rowid |-> 1]
    BY <2>1 DEF Db, Empty
  <2>3. ~Storage!Exists(t)
    BY <2>1, HeldTables DEF Storage!Exists
  <2> QED
    BY <1>1, <2>2, <2>3 DEF Storage!CreateTable
<1>3. CASE DropTable(t)
  <2>1. t \in live /\ t \notin live'
    BY <1>3 DEF DropTable
  <2>2. Db'[t] = Storage!NoTable
    BY <2>1 DEF Db, Storage!NoTable
  <2>3. Storage!Exists(t)
    BY <2>1, HeldTables
  <2> QED
    BY <1>1, <2>2, <2>3 DEF Storage!DropTable
<1> QED
  BY <1>2, <1>3

LEMMA InsertUsesStore ==
    ASSUME TypeOK, TypeOK', NEW t \in Tables, NEW v \in Row(t), InsertRow(t, v)
    PROVE  Storage!InsertRow(t, v)
<1> DEFINE id == next_rowid[t]
<1>1. /\ t \in live /\ live' = live
      /\ rows'[t] = [r \in DOMAIN rows[t] \cup {id} |-> IF r = id THEN v ELSE rows[t][r]]
      /\ next_rowid'[t] = id + 1
      /\ \A u \in Tables \ {t} :
           rows'[u] = rows[u] /\ next_rowid'[u] = next_rowid[u]
  BY DEF InsertRow, SetRows, TypeOK, StmtOk, NoStmt
<1>2. id \notin DOMAIN rows[t]
  BY MaxRowidAssumption DEF TypeOK
<1>3. Db[t] = Held(rows[t], id) /\ Db'[t] = Held(rows'[t], id + 1) /\ Storage!Exists(t)
  <2>1. Db'[t] = Held(rows'[t], next_rowid'[t])
    BY <1>1 DEF Db, Held
  <2> QED
    BY <1>1, <2>1, HeldTables
<1>4. Held(rows'[t], id + 1).rows = Held(rows[t], id).rows \cup {[key |-> id, value |-> v]}
  BY <1>1, <1>2 DEF Held
<1>5. Db' = [Db EXCEPT ![t] = Db'[t]]
  BY <1>1, OneTableChanges
<1>6. Db'[t] = [rows |-> Db[t].rows \cup {[key |-> Db[t].next_rowid, value |-> v]},
                next_rowid |-> Db[t].next_rowid + 1]
  BY <1>3, <1>4 DEF Held
<1> QED
  BY <1>3, <1>5, <1>6, HeldTables DEF Held, Storage!InsertRow

LEMMA UpdateUsesStore ==
    ASSUME TypeOK, TypeOK', NEW id, UpdateRow(id)
    PROVE  \E t \in Tables : \E row \in Db[t].rows :
             \E v \in Row(t) : Storage!UpdateRow(t, row, v)
<1>0. PICK t \in live :
        \E todo \in SUBSET DOMAIN rows[t], set \in Assignment(t) :
          stmt = [kind |-> "update", table |-> t, todo |-> todo, set |-> set]
  BY DEF UpdateRow, TypeOK, StmtOk, NoStmt
<1>1. PICK todo \in SUBSET DOMAIN rows[t], set \in Assignment(t) :
        stmt = [kind |-> "update", table |-> t, todo |-> todo, set |-> set]
  BY <1>0
<1> DEFINE v == Assigned(t, rows[t][id], set)
           row == [key |-> id, value |-> rows[t][id]]
<1>2. t \in Tables /\ id \in DOMAIN rows[t]
  BY <1>1 DEF UpdateRow, IsNext, TypeOK
<1>3. /\ rows'[t] = [rows[t] EXCEPT ![id] = v]
      /\ live' = live /\ next_rowid' = next_rowid
      /\ \A u \in Tables \ {t} : rows'[u] = rows[u]
  BY <1>1, <1>2 DEF UpdateRow, SetRows, TypeOK
<1>4. rows[t] \in [DOMAIN rows[t] -> Row(t)]
  BY <1>2 DEF TypeOK
<1>5. v \in Row(t)
  BY <1>2, <1>4, AssignedIsRow
<1>6. /\ Db[t] = Held(rows[t], next_rowid[t])
      /\ Db'[t] = Held(rows'[t], next_rowid[t])
  BY <1>2, <1>3 DEF Db, Held
<1>7. DOMAIN rows'[t] = DOMAIN rows[t] /\ rows'[t][id] = v
      /\ \A r \in DOMAIN rows[t] \ {id} : rows'[t][r] = rows[t][r]
  BY <1>2, <1>3, <1>4
<1> HIDE DEF v
<1>8. {[key |-> r, value |-> rows'[t][r]] : r \in DOMAIN rows'[t]}
        = ({[key |-> r, value |-> rows[t][r]] : r \in DOMAIN rows[t]} \ {row})
            \cup {[key |-> id, value |-> v]}
  BY <1>2, <1>7
<1>9. row \in Db[t].rows /\ [row EXCEPT !.value = v] = [key |-> id, value |-> v]
  BY <1>2, <1>6 DEF Held
<1>10. Db'[t] = [Db[t] EXCEPT !.rows = (@ \ {row}) \cup {[row EXCEPT !.value = v]}]
  <2> DEFINE X == {[key |-> r, value |-> rows[t][r]] : r \in DOMAIN rows[t]}
             Y == {[key |-> r, value |-> rows'[t][r]] : r \in DOMAIN rows'[t]}
  <2>1. /\ Db[t] = [rows |-> X, next_rowid |-> next_rowid[t]]
        /\ Db'[t] = [rows |-> Y, next_rowid |-> next_rowid[t]]
        /\ Y = (X \ {row}) \cup {[row EXCEPT !.value = v]}
    BY <1>6, <1>8, <1>9 DEF Held
  <2> HIDE DEF X, Y, row
  <2> QED
    BY <2>1, OtherRows
<1>11. Db' = [Db EXCEPT ![t] = Db'[t]]
  BY <1>2, <1>3, OneTableChanges
<1>12. Storage!UpdateRow(t, row, v)
  BY <1>10, <1>11 DEF Storage!UpdateRow
<1> QED
  BY <1>2, <1>5, <1>9, <1>12

LEMMA DeleteUsesStore ==
    ASSUME TypeOK, TypeOK', NEW id, DeleteRow(id)
    PROVE  \E t \in Tables : \E row \in Db[t].rows : Storage!DeleteRow(t, row)
<1>0. PICK t \in live : \E todo \in SUBSET DOMAIN rows[t] :
        stmt = [kind |-> "delete", table |-> t, todo |-> todo]
  BY DEF DeleteRow, TypeOK, StmtOk, NoStmt
<1>1. PICK todo \in SUBSET DOMAIN rows[t] :
        stmt = [kind |-> "delete", table |-> t, todo |-> todo]
  BY <1>0
<1> DEFINE row == [key |-> id, value |-> rows[t][id]]
<1>2. t \in Tables /\ id \in DOMAIN rows[t]
  BY <1>1 DEF DeleteRow, IsNext, TypeOK
<1>3. /\ rows'[t] = [r \in DOMAIN rows[t] \ {id} |-> rows[t][r]]
      /\ live' = live /\ next_rowid' = next_rowid
      /\ \A u \in Tables \ {t} : rows'[u] = rows[u]
  BY <1>1, <1>2 DEF DeleteRow, SetRows, TypeOK
<1>4. /\ Db[t] = Held(rows[t], next_rowid[t])
      /\ Db'[t] = Held(rows'[t], next_rowid[t])
  BY <1>2, <1>3 DEF Db, Held
<1>5. /\ DOMAIN rows'[t] = DOMAIN rows[t] \ {id}
      /\ \A r \in DOMAIN rows'[t] : rows'[t][r] = rows[t][r]
  BY <1>3
<1>6. {[key |-> r, value |-> rows'[t][r]] : r \in DOMAIN rows'[t]}
        = {[key |-> r, value |-> rows[t][r]] : r \in DOMAIN rows[t]} \ {row}
  BY <1>2, <1>5
<1>7. row \in Db[t].rows
  BY <1>2, <1>4 DEF Held
<1>8. Db'[t] = [Db[t] EXCEPT !.rows = @ \ {row}]
  <2> DEFINE X == {[key |-> r, value |-> rows[t][r]] : r \in DOMAIN rows[t]}
             Y == {[key |-> r, value |-> rows'[t][r]] : r \in DOMAIN rows'[t]}
  <2>1. /\ Db[t] = [rows |-> X, next_rowid |-> next_rowid[t]]
        /\ Db'[t] = [rows |-> Y, next_rowid |-> next_rowid[t]]
        /\ Y = X \ {row}
    BY <1>4, <1>6 DEF Held
  <2> HIDE DEF X, Y, row
  <2> QED
    BY <2>1, OtherRows
<1>9. Db' = [Db EXCEPT ![t] = Db'[t]]
  BY <1>2, <1>3, OneTableChanges
<1>10. Storage!DeleteRow(t, row)
  BY <1>8, <1>9 DEF Storage!DeleteRow
<1> QED
  BY <1>2, <1>7, <1>10

\* The steps that only begin or end a statement leave the tables alone.
LEMMA StepUsesStore == TypeOK /\ TypeOK' /\ [Next]_vars => [Storage!Next]_Db
<1> SUFFICES ASSUME TypeOK, TypeOK', [Next]_vars PROVE [Storage!Next]_Db
  OBVIOUS
<1>1. ASSUME NEW t \in Tables, CreateTable(t) \/ DropTable(t) PROVE Storage!Next
  BY <1>1, TablesUseStore DEF Storage!Next
<1>2. ASSUME NEW t \in Tables, NEW v \in Row(t), InsertRow(t, v) PROVE Storage!Next
  <2>1. v \in AnyRow
    BY DEF AnyRow
  <2> QED
    BY <1>2, <2>1, InsertUsesStore DEF Storage!Next
<1>3. ASSUME NEW id, UpdateRow(id) PROVE Storage!Next
  <2>1. PICK t \in Tables : \E row \in Db[t].rows :
          \E v \in Row(t) : Storage!UpdateRow(t, row, v)
    BY <1>3, UpdateUsesStore
  <2>2. Row(t) \subseteq AnyRow
    BY DEF AnyRow
  <2> QED
    BY <2>1, <2>2 DEF Storage!Next
<1>4. ASSUME NEW id, DeleteRow(id) PROVE Storage!Next
  BY <1>4, DeleteUsesStore DEF Storage!Next
<1>5. ASSUME UNCHANGED <<live, rows, next_rowid>> PROVE UNCHANGED Db
  BY <1>5 DEF Db
<1>6. ASSUME NEW t \in Tables, BeginInsert(t) PROVE UNCHANGED Db
  BY <1>5, <1>6 DEF BeginInsert
<1>7. ASSUME NEW t \in Tables, NEW picked, BeginDelete(t, picked) PROVE UNCHANGED Db
  BY <1>5, <1>7 DEF BeginDelete
<1>8. ASSUME NEW t \in Tables, NEW picked, NEW set, BeginUpdate(t, picked, set)
      PROVE  UNCHANGED Db
  BY <1>5, <1>8 DEF BeginUpdate
<1>9. CASE EndStmt \/ UNCHANGED vars
  BY <1>5, <1>9 DEF EndStmt, vars
<1> QED
  BY <1>1, <1>2, <1>3, <1>4, <1>6, <1>7, <1>8, <1>9 DEF Next

-----------------------------------------------------------------------------
(* The theorems.                                                           *)

\* Row ids are below the counter and a statement under way meets only rows
\* that exist, so the result of get_row that UPDATE ignores is never empty.
THEOREM TypeCorrect == Spec => []TypeOK
<1>1. IInv => TypeOK
  BY DEF IInv
<1> QED
  BY <1>1, InvariantHolds, PTL

\* No NULL in a PRIMARY KEY or NOT NULL column, after every single row.
THEOREM NotNullKept == Spec => []NotNullHolds
<1>1. IInv => NotNullHolds
  BY DEF IInv
<1> QED
  BY <1>1, InvariantHolds, PTL

\* No value twice in a PRIMARY KEY or UNIQUE column, after every single row.
THEOREM UniqueKept == Spec => []UniqueHolds
<1>1. IInv => UniqueHolds
  BY DEF IInv
<1> QED
  BY <1>1, InvariantHolds, PTL

\* No write stores a reference, in a column of the referenced column's type, to
\* a value that never was there: what dangles was left dangling by a later
\* change.  For a column of another type the same is known of the one value its
\* references are all looked up as.
THEOREM ReferencesWereReal == Spec => []NoInventedReference
<1>1. IInv => NoInventedReference
  BY DEF IInv
<1> QED
  BY <1>1, InvariantHolds, PTL

\* Statements ask of the storage engine nothing but the operations of Store,
\* one at a time, each on one table that exists and a row that is there: what
\* Engine is checked to implement is all that table.h relies on.
THEOREM StatementsUseStore == Spec => UsesStore
<1>1. Init => Storage!Init
  BY DEF Init, Db, Storage!Init, Storage!NoTable
<1>2. TypeOK /\ TypeOK' /\ [Next]_vars => [Storage!Next]_Db
  BY StepUsesStore
<1> QED
  BY <1>1, <1>2, TypeCorrect, PTL DEF Spec, UsesStore, Storage!Spec
=============================================================================
