----------------------------- MODULE Relational -----------------------------
(***************************************************************************)
(* Tables, constraints and statements: src/mydb/src/table.h and the        *)
(* statements of sql_executor.h that change data, at the grain of rows.    *)
(* Storage is what Store promises: a row operation is one step.            *)
(*                                                                         *)
(* A statement is no transaction.  INSERT and UPDATE check and write one   *)
(* row after another, and an exception ends the statement where it is; the *)
(* rows before it stay.  The server runs one statement at a time.          *)
(***************************************************************************)
EXTENDS Naturals

CONSTANTS
    Tables,      \* table names
    Schema,      \* for each table, its columns: see Column
    Vals,        \* for each column type, its values other than NULL
    Zero,        \* for each column type, what a Value of another type has in
                 \* the field of this type: 0, 0.0 or the empty text
    Null,        \* the NULL of every type
    Keep,        \* in an assignment: this column is not assigned
    MaxRowid     \* bound on the row ids of a table

ColType == {"INT", "REAL", "TEXT"}

\* ColumnDef: its type, its constraints, and the table and column it
\* references.  fk_column is the place of the last column of that name in the
\* referenced table, 0 if it has none.
Column ==
    [type : ColType, primary_key : BOOLEAN, not_null : BOOLEAN, unique : BOOLEAN,
     has_fk : BOOLEAN, fk_table : Tables, fk_column : Nat]

Cols(t) == DOMAIN Schema[t]

ASSUME SchemaAssumption ==
    /\ \A t \in Tables : \A i \in Cols(t) : Schema[t][i] \in Column
    /\ \A ty \in ColType :
         /\ Zero[ty] \in Vals[ty]
         /\ Null \notin Vals[ty] /\ Keep \notin Vals[ty]
    /\ Keep # Null

ASSUME MaxRowidAssumption == MaxRowid \in Nat

VARIABLES
    live,         \* the tables that exist
    rows,         \* for each table, its rows by row id
    next_rowid,   \* TableDef::next_rowid
    stmt,         \* the statement being executed
    lost          \* history: <<table, column, value>> of referenced columns,
                  \* once stored and later gone

vars == <<live, rows, next_rowid, stmt, lost>>

AnyVal == UNION {Vals[ty] : ty \in ColType}

\* A row of table t: a value of its type or NULL for each column.
Row(t) ==
    {v \in [Cols(t) -> AnyVal \cup {Null}] :
       \A i \in Cols(t) : v[i] \in Vals[Schema[t][i].type] \cup {Null}}

\* The SET clause of an UPDATE, or the body of a PATCH.
Assignment(t) ==
    {v \in [Cols(t) -> AnyVal \cup {Null, Keep}] :
       \A i \in Cols(t) : v[i] \in Vals[Schema[t][i].type] \cup {Null, Keep}}

Empty == [r \in {} |-> Null]

NoStmt == [kind |-> "none"]

Init ==
    /\ live = {}
    /\ rows = [t \in Tables |-> Empty]
    /\ next_rowid = [t \in Tables |-> 1]
    /\ stmt = NoStmt
    /\ lost = {}

-----------------------------------------------------------------------------
\* A value stored in a column of a table, over the rows f.
Present(t, f) == {<<t, i, f[r][i]>> : r \in DOMAIN f, i \in Cols(t)}

\* Table::check_constraints for values v in row self of t; an insert passes a
\* row id that no row has.  A referenced table or column that does not exist
\* fails the check.
NotNullOk(t, v) ==
    \A i \in Cols(t) :
        Schema[t][i].primary_key \/ Schema[t][i].not_null => v[i] # Null

\* Mutant of UniqueOk: an insert and an update both look past the last row.
UniqueButLast(t, v, self) ==
    \A i \in Cols(t) :
        (Schema[t][i].primary_key \/ Schema[t][i].unique) /\ v[i] # Null =>
            \A r \in DOMAIN rows[t] \ {self, next_rowid[t] - 1} :
                rows[t][r][i] # v[i]

UniqueOk(t, v, self) ==
    \A i \in Cols(t) :
        (Schema[t][i].primary_key \/ Schema[t][i].unique) /\ v[i] # Null =>
            \A r \in DOMAIN rows[t] \ {self} : rows[t][r][i] # v[i]

\* The referenced column exists, as far as its table does.
TargetThere(t, i) == Schema[t][i].fk_column \in Cols(Schema[t][i].fk_table)

\* What a reference v in column i of table t is looked up as: values_equal
\* compares the field of the referenced column's type, and nothing asks that
\* the two columns have one type.
Target(t, i, v) ==
    LET p == Schema[t][i].fk_table
        c == Schema[t][i].fk_column
        ty == Schema[p][c].type
    IN  <<p, c, IF Schema[t][i].type = ty THEN v ELSE Zero[ty]>>

\* Mutant of ForeignKeyOk: a reference to a table that is not there passes.
FkToMissingTableOk(t, v) ==
    \A i \in Cols(t) :
        Schema[t][i].has_fk /\ v[i] # Null =>
            LET p == Schema[t][i].fk_table
            IN  p \in live =>
                  TargetThere(t, i) /\ Target(t, i, v[i]) \in Present(p, rows[p])

ForeignKeyOk(t, v) ==
    \A i \in Cols(t) :
        Schema[t][i].has_fk /\ v[i] # Null =>
            LET p == Schema[t][i].fk_table
            IN  /\ p \in live
                /\ TargetThere(t, i)
                /\ Target(t, i, v[i]) \in Present(p, rows[p])

\* Mutant of ConstraintsOk: NOT NULL is left to the schema designer.
NoNullCheck(t, v, self) == UniqueOk(t, v, self) /\ ForeignKeyOk(t, v)

ConstraintsOk(t, v, self) ==
    NotNullOk(t, v) /\ UniqueOk(t, v, self) /\ ForeignKeyOk(t, v)

\* Is column i of table t the target of a foreign key?
Referenced(t, i) ==
    \E u \in Tables : \E j \in Cols(u) :
        Schema[u][j].has_fk /\ Schema[u][j].fk_table = t
                           /\ Schema[u][j].fk_column = i

\* Table t now has the rows f; remember the referenced values it lost.
SetRows(t, f) ==
    /\ rows' = [rows EXCEPT ![t] = f]
    /\ lost' = lost \cup {x \in Present(t, rows[t]) \ Present(t, f) :
                            Referenced(t, x[2])}

-----------------------------------------------------------------------------
\* Mutant of CreateTable: row ids go on where the last table of the name stopped.
CreateKeepsCounter(t) ==
    /\ stmt = NoStmt
    /\ t \notin live
    /\ live' = live \cup {t}
    /\ UNCHANGED <<rows, next_rowid, stmt, lost>>

\* CREATE TABLE.  The references of its columns are not looked at, neither
\* whether they exist nor whether their types agree.
CreateTable(t) ==
    /\ stmt = NoStmt
    /\ t \notin live
    /\ live' = live \cup {t}
    /\ next_rowid' = [next_rowid EXCEPT ![t] = 1]
    /\ UNCHANGED <<rows, stmt, lost>>

\* Mutant of DropTable: the rows stay behind for the next table of the name.
DropKeepsRows(t) ==
    /\ stmt = NoStmt
    /\ t \in live
    /\ live' = live \ {t}
    /\ UNCHANGED <<rows, next_rowid, stmt, lost>>

\* DROP TABLE, whoever references it.
DropTable(t) ==
    /\ stmt = NoStmt
    /\ t \in live
    /\ live' = live \ {t}
    /\ SetRows(t, Empty)
    /\ UNCHANGED <<next_rowid, stmt>>

\* INSERT, or POST of a row: a table that exists, then row after row.
BeginInsert(t) ==
    /\ stmt = NoStmt
    /\ t \in live
    /\ stmt' = [kind |-> "insert", table |-> t]
    /\ UNCHANGED <<live, rows, next_rowid, lost>>

\* Table::insert_row with the literals of the next row.
InsertRow(t, v) ==
    /\ stmt = [kind |-> "insert", table |-> t]
    /\ LET id == next_rowid[t]
       IN  /\ id <= MaxRowid
           /\ ConstraintsOk(t, v, 0)
           /\ SetRows(t, [r \in DOMAIN rows[t] \cup {id} |->
                            IF r = id THEN v ELSE rows[t][r]])
           /\ next_rowid' = [next_rowid EXCEPT ![t] = @ + 1]
    /\ UNCHANGED <<live, stmt>>

\* UPDATE: the rows the WHERE clause picks are collected by a scan before the
\* first is changed.  PATCH of a row picks that row.
BeginUpdate(t, picked, set) ==
    /\ stmt = NoStmt
    /\ t \in live
    /\ picked # {} /\ picked \subseteq DOMAIN rows[t]
    /\ set \in Assignment(t)
    /\ stmt' = [kind |-> "update", table |-> t, todo |-> picked, set |-> set]
    /\ UNCHANGED <<live, rows, next_rowid, lost>>

\* The next row of the statement: row ids are taken in scan order.
IsNext(id) == id \in stmt.todo /\ \A r \in stmt.todo : id <= r

\* The row an assignment makes of a row.
Assigned(t, old, set) ==
    [i \in Cols(t) |-> IF set[i] = Keep THEN old[i] ELSE set[i]]

\* The statement goes on with the rows left, or is over.
Advance(left) ==
    stmt' = IF left = {} THEN NoStmt ELSE [stmt EXCEPT !.todo = left]

\* Table::update_row for the next row in scan order.
UpdateRow(id) ==
    /\ stmt.kind = "update"
    /\ IsNext(id)
    /\ LET t == stmt.table
           v == Assigned(t, rows[t][id], stmt.set)
       IN  /\ ConstraintsOk(t, v, id)
           /\ SetRows(t, [rows[t] EXCEPT ![id] = v])
    /\ Advance(stmt.todo \ {id})
    /\ UNCHANGED <<live, next_rowid>>

\* DELETE, or DELETE of a row by its id: collected first, then one by one.
BeginDelete(t, picked) ==
    /\ stmt = NoStmt
    /\ t \in live
    /\ picked # {} /\ picked \subseteq DOMAIN rows[t]
    /\ stmt' = [kind |-> "delete", table |-> t, todo |-> picked]
    /\ UNCHANGED <<live, rows, next_rowid, lost>>

\* Table::delete_row: no constraint is looked at.
DeleteRow(id) ==
    /\ stmt.kind = "delete"
    /\ IsNext(id)
    /\ LET t == stmt.table
       IN  SetRows(t, [r \in DOMAIN rows[t] \ {id} |-> rows[t][r]])
    /\ Advance(stmt.todo \ {id})
    /\ UNCHANGED <<live, next_rowid>>

\* The statement ends and the rows it wrote stay: an INSERT has no row left;
\* or a constraint, a literal of the wrong type or a row too large for its
\* slot threw; or the process stopped between two rows.
EndStmt ==
    /\ stmt # NoStmt
    /\ stmt' = NoStmt
    /\ UNCHANGED <<live, rows, next_rowid, lost>>

Next ==
    \/ \E t \in Tables :
         \/ CreateTable(t) \/ DropTable(t) \/ BeginInsert(t)
         \/ \E v \in Row(t) : InsertRow(t, v)
         \/ \E picked \in SUBSET (1 .. MaxRowid) :
              \/ BeginDelete(t, picked)
              \/ \E set \in Assignment(t) : BeginUpdate(t, picked, set)
    \/ \E id \in 1 .. MaxRowid : UpdateRow(id) \/ DeleteRow(id)
    \/ EndStmt

Spec == Init /\ [][Next]_vars

-----------------------------------------------------------------------------
\* A statement: what INSERT, UPDATE and DELETE keep between two rows.
StmtOk ==
    \/ stmt = NoStmt
    \/ \E t \in live :
         \/ stmt = [kind |-> "insert", table |-> t]
         \/ \E left \in SUBSET DOMAIN rows[t] :
              /\ left # {}
              /\ \/ stmt = [kind |-> "delete", table |-> t, todo |-> left]
                 \/ \E set \in Assignment(t) :
                      stmt = [kind |-> "update", table |-> t, todo |-> left,
                              set |-> set]

\* Rows have the columns of their table and ids below the counter, only live
\* tables have rows, and a statement works on rows that are still there.
TypeOK ==
    /\ live \subseteq Tables
    /\ next_rowid \in [Tables -> 1 .. MaxRowid + 1]
    /\ DOMAIN rows = Tables
    /\ \A t \in Tables :
         /\ rows[t] \in [DOMAIN rows[t] -> Row(t)]
         /\ DOMAIN rows[t] \subseteq 1 .. next_rowid[t] - 1
         /\ t \notin live => rows[t] = Empty
    /\ StmtOk

\* After every row of every statement, finished, failed half-way or cut off,
\* no PRIMARY KEY or NOT NULL column holds a NULL ...
NotNullHolds ==
    \A t \in Tables : \A r \in DOMAIN rows[t] : NotNullOk(t, rows[t][r])

\* ... and no two rows share a value in a PRIMARY KEY or UNIQUE column, also
\* when one UPDATE gives many rows the same value.
UniqueHolds ==
    \A t \in Tables : \A i \in Cols(t) :
        Schema[t][i].primary_key \/ Schema[t][i].unique =>
            \A r, s \in DOMAIN rows[t] :
                rows[t][r][i] = rows[t][s][i] /\ rows[t][r][i] # Null => r = s

\* A foreign key of the type of the column it references never holds a value
\* that was not at some time stored in that column: it dangles only because
\* the referenced value was deleted, updated away or dropped, never because a
\* write was let in.  A foreign key of another type, which CREATE TABLE lets
\* through, says only that the zero of the referenced type was stored there:
\* an INT column that references a REAL column holding 0.0 takes any number.
NoInventedReference ==
    \A t \in Tables : \A r \in DOMAIN rows[t] : \A i \in Cols(t) :
        Schema[t][i].has_fk /\ rows[t][r][i] # Null =>
            LET p == Schema[t][i].fk_table
                c == Schema[t][i].fk_column
                known == Present(p, rows[p]) \cup lost
            IN  /\ c \in Cols(p)
                /\ IF Schema[t][i].type = Schema[p][c].type
                   THEN <<p, c, rows[t][r][i]>> \in known
                   ELSE <<p, c, Zero[Schema[p][c].type]>> \in known


-----------------------------------------------------------------------------
\* The tables as the storage engine has them.
Db ==
    [t \in Tables |->
       IF t \in live
       THEN [rows |-> {[key |-> r, value |-> rows[t][r]] : r \in DOMAIN rows[t]},
             next_rowid |-> next_rowid[t]]
       ELSE [rows |-> {}, next_rowid |-> 0]]

AnyRow == UNION {Row(t) : t \in Tables}

Storage == INSTANCE Store WITH Names <- Tables, Values <- AnyRow, db <- Db

\* Statements ask of the storage engine nothing but what Engine promises too: each
\* row they write or remove is one operation of Store on one table that exists,
\* on a row that is there or under the next row id (table.h:21, insert_row;
\* table.h:30, update_row; table.h:38, delete_row).
UsesStore == Storage!Spec
=============================================================================
