------------------------------- MODULE Query --------------------------------
(***************************************************************************)
(* Expressions and the statements that use them: sql_executor.h over the   *)
(* values of row.h.  Rows are in scan order, the order of their row ids.   *)
(* Row ids and what a constraint says are Relational's: here a constraint  *)
(* may refuse any row that is written.                                     *)
(***************************************************************************)
EXTENDS Values, SqlSyntax, SequencesExt

CONSTANTS
    Tables, Schema,   \* for each table, its columns [name, type] in order
    NoName, Star,     \* no qualifier or no joined table; the * of a SELECT
    Inserts,          \* statements: [table, rows of literals]
    Updates,          \* [table, assignments <<column, literal>>, where]
    Deletes,          \* [table, where]
    Selects,          \* [columns, from_table, join, on, where, order]
    MaxRows           \* bound on the rows of a table

VARIABLES
    rows,     \* for each table, its rows
    stmt,     \* the UPDATE or DELETE under way: [op, st, at, targets, before],
              \* at the rows its scan has passed, targets the rows it picked and
              \* has not written, before (history) the rows it started from
    ok        \* ExecResult::ok of the statement that ended last

vars == <<rows, stmt, ok>>

NoStmt == [op |-> "NONE"]

Init ==
    /\ rows = [t \in Tables |-> <<>>]
    /\ stmt = NoStmt
    /\ ok = TRUE

-----------------------------------------------------------------------------
(* Expressions.  A thrown exception is the value Error.                     *)

Error == [type |-> "ERROR", is_null |-> TRUE]

HasColumn(t, c) == \E i \in DOMAIN Schema[t] : Schema[t][i].name = c
FindCol(t, c) == Min({i \in DOMAIN Schema[t] : Schema[t][i].name = c})

\* RowContext::lookup in the row of the table, or of that and the joined one.
Lookup(ctx, q, c) ==
    LET named == {k \in DOMAIN ctx : IF q = NoName THEN HasColumn(ctx[k].table, c)
                                                   ELSE ctx[k].table = q}
        k == Min(named)
    IN  IF named = {} \/ ~HasColumn(ctx[k].table, c) THEN Error
        ELSE ctx[k].row[FindCol(ctx[k].table, c)]

BoolVal(b) == MakeInt(IF b THEN 1 ELSE 0)
Truthy(v) == ~v.is_null /\ v.i # 0

Holds(op, l, r) ==
    CASE op = "EQ" -> ValuesEqual(l, r)
      [] op = "NEQ" -> ~ValuesEqual(l, r)
      [] op = "LT" -> CompareValues(l, r) < 0
      [] op = "LE" -> CompareValues(l, r) <= 0
      [] op = "GT" -> CompareValues(l, r) > 0
      [] op = "GE" -> CompareValues(l, r) >= 0

\* Mutant of Compare: a NULL is compared like the zero it is stored as.
CompareNulls(op, l, r) ==
    IF Error \in {l, r} THEN Error ELSE BoolVal(Holds(op, l, r))

Compare(op, l, r) ==
    IF Error \in {l, r} THEN Error
    ELSE BoolVal(~l.is_null /\ ~r.is_null /\ Holds(op, l, r))

\* The right side of AND and OR is evaluated when the left does not decide.
RECURSIVE EvalExpr(_, _)
EvalExpr(e, ctx) ==
    CASE e.kind = "LIT_INT" -> MakeInt(e.v)
      [] e.kind = "LIT_REAL" -> MakeReal(e.v)
      [] e.kind = "LIT_STR" -> MakeText(e.v)
      [] e.kind = "LIT_NULL" -> NullOf("TEXT")
      [] e.kind = "COLUMN" -> Lookup(ctx, e.table_qualifier, e.col_name)
      [] e.kind = "CMP" ->
           Compare(e.cmp, EvalExpr(e.left, ctx), EvalExpr(e.right, ctx))
      [] e.kind \in {"AND", "OR"} ->
           LET l == EvalExpr(e.left, ctx)
               decided == l = Error \/ (Truthy(l) = (e.kind = "OR"))
               v == IF decided THEN l ELSE EvalExpr(e.right, ctx)
           IN  IF v = Error THEN Error ELSE BoolVal(Truthy(v))

\* A missing WHERE holds.
Test(e, ctx) == IF e = NoClause THEN BoolVal(TRUE) ELSE EvalExpr(e, ctx)

EvalLiteral(e, t) ==
    CASE e.kind = "LIT_NULL" -> NullOf(t)
      [] e.kind = "LIT_INT" /\ t = "INT" -> MakeInt(e.v)
      [] e.kind = "LIT_INT" /\ t = "REAL" -> MakeReal(ToDouble[e.v])
      [] e.kind = "LIT_REAL" /\ t = "REAL" -> MakeReal(e.v)
      [] e.kind = "LIT_STR" /\ t = "TEXT" -> MakeText(e.v)
      [] OTHER -> Error

-----------------------------------------------------------------------------
(* SELECT.                                                                  *)

At(t, k) == [table |-> t, row |-> rows[t][k]]

\* The two nested scans.
Combos(st) ==
    IF st.join = NoName
    THEN [k \in DOMAIN rows[st.from_table] |-> <<At(st.from_table, k)>>]
    ELSE FlattenSeq([k \in DOMAIN rows[st.from_table] |->
           [m \in DOMAIN rows[st.join] |-> <<At(st.from_table, k), At(st.join, m)>>]])

\* ON, and then WHERE.
Picks(st, ctx) ==
    LET on == Test(st.on, ctx)
    IN  IF Truthy(on) THEN Test(st.where, ctx) ELSE on

AllOf(t) == [i \in DOMAIN Schema[t] |-> Column(t, Schema[t][i].name)]

\* A * stands for every column; a name in front of it picks the table.
Projection(st) ==
    FlattenSeq([i \in DOMAIN st.columns |->
      LET c == st.columns[i]
      IN  IF c.col_name # Star THEN <<c>>
          ELSE IF c.table_qualifier # NoName THEN AllOf(c.table_qualifier)
          ELSE AllOf(st.from_table) \o
                 (IF st.join = NoName THEN <<>> ELSE AllOf(st.join))])

UnknownTable(st) ==
    \/ ~({st.from_table, st.join} \subseteq Tables \cup {NoName})
    \/ \E i \in DOMAIN st.columns :
         /\ st.columns[i].col_name = Star
         /\ st.columns[i].table_qualifier \notin {NoName, st.from_table, st.join}

\* The comparison the sort is given.
Before(o, a, b) ==
    LET c == CompareValues(Lookup(a, o.table_qualifier, o.col_name),
                           Lookup(b, o.table_qualifier, o.col_name))
    IN  IF o.desc THEN c > 0 ELSE c < 0

\* What std::sort may make of the rows: it is not stable.
Sorted(o, picked) ==
    {s \in {[i \in DOMAIN picked |-> picked[p[i]]] :
               p \in Permutations(DOMAIN picked)} :
       \A i, j \in DOMAIN s : i < j => ~Before(o, s[j], s[i])}

Failure == [ok |-> FALSE]
Fails(e, ctx) == EvalExpr(e, ctx) = Error

\* The answers a SELECT may give, each row with the rows it was made from.
Answers(st) ==
    IF UnknownTable(st) THEN {Failure}
    ELSE LET combos == Combos(st)
             picked == SelectSeq(combos, LAMBDA ctx : Truthy(Picks(st, ctx)))
             proj == Projection(st)
         IN  IF \/ \E k \in DOMAIN combos : Picks(st, combos[k]) = Error
                \/ \E k \in DOMAIN picked :
                     \/ \E i \in DOMAIN proj : Fails(proj[i], picked[k])
                     \/ /\ st.order # NoClause /\ Len(picked) > 1
                        /\ Fails(st.order, picked[k])
             THEN {Failure}
             ELSE {[ok |-> TRUE,
                    rows |-> [k \in DOMAIN s |->
                                [i \in DOMAIN proj |-> EvalExpr(proj[i], s[k])]]] :
                     s \in IF st.order = NoClause THEN {picked}
                           ELSE Sorted(st.order, picked)}

-----------------------------------------------------------------------------
(* INSERT, UPDATE and DELETE.                                               *)

\* The row an INSERT makes of its literals: a column that is not named is NULL.
RowOf(st, literals) ==
    LET cols == Schema[st.table]
        into == IF st.columns = <<>> THEN [i \in DOMAIN cols |-> i]
                ELSE [i \in DOMAIN st.columns |-> FindCol(st.table, st.columns[i])]
        vals == [k \in DOMAIN into |-> EvalLiteral(literals[k], cols[into[k]].type)]
    IN  IF Len(literals) # Len(into) \/ Error \in Range(vals) THEN <<>>
        ELSE [i \in DOMAIN cols |->
                LET from == {k \in DOMAIN into : into[k] = i}
                IN  IF from = {} THEN NullOf(cols[i].type) ELSE vals[Max(from)]]

\* Row after row: the ones before an error stay.
Insert(st) ==
    /\ stmt = NoStmt
    /\ Len(rows[st.table]) + Len(st.rows) <= MaxRows
    /\ LET named == \A i \in DOMAIN st.columns : HasColumn(st.table, st.columns[i])
           made == [k \in DOMAIN st.rows |-> RowOf(st, st.rows[k])]
       IN  \E done \in 0 .. Len(st.rows) :
             /\ done > 0 => named
             /\ \A k \in 1 .. done : made[k] # <<>>
             /\ rows' = [rows EXCEPT ![st.table] = @ \o SubSeq(made, 1, done)]
             /\ ok' = (done = Len(st.rows))
    /\ UNCHANGED stmt

Begin(op, st) ==
    /\ stmt = NoStmt
    /\ stmt' = [op |-> op, st |-> st, at |-> 0, targets |-> {},
                before |-> rows[st.table]]
    /\ UNCHANGED <<rows, ok>>

\* The statement is over: its last row is written, or something threw.
End(result) == stmt' = NoStmt /\ ok' = result

Scanned == stmt.at >= Len(rows[stmt.st.table])

\* The assignments, in order.
Assign(st, row) ==
    [i \in DOMAIN row |->
       LET to == {k \in DOMAIN st.assignments :
                    /\ HasColumn(st.table, st.assignments[k][1])
                    /\ FindCol(st.table, st.assignments[k][1]) = i}
       IN  IF to = {} THEN row[i]
           ELSE EvalLiteral(st.assignments[Max(to)][2], Schema[st.table][i].type)]

AssignFails(st) ==
    \E k \in DOMAIN st.assignments :
        LET c == st.assignments[k][1]
        IN  \/ ~HasColumn(st.table, c)
            \/ EvalLiteral(st.assignments[k][2],
                           Schema[st.table][FindCol(st.table, c)].type) = Error

\* Mutant of ScanRow: an UPDATE changes a row as soon as the scan reaches it.
ScanAndWrite ==
    /\ stmt # NoStmt /\ ~Scanned
    /\ LET table == stmt.st.table
           k == stmt.at + 1
           picks == Test(stmt.st.where, <<At(table, k)>>)
           write == stmt.op = "UPDATE" /\ Truthy(picks) /\ ~AssignFails(stmt.st)
       IN  /\ rows' = IF write
                  THEN [rows EXCEPT ![table][k] = Assign(stmt.st, @)] ELSE rows
           /\ IF picks = Error THEN End(FALSE)
              ELSE /\ stmt' = [stmt EXCEPT !.at = k,
                                 !.targets = IF Truthy(picks) THEN @ \cup {k} ELSE @]
                   /\ UNCHANGED ok

\* The scan collects the rows that satisfy the WHERE clause, which may throw.
ScanRow ==
    /\ stmt # NoStmt /\ ~Scanned
    /\ LET k == stmt.at + 1
           picks == Test(stmt.st.where, <<At(stmt.st.table, k)>>)
       IN  IF picks = Error THEN End(FALSE)
           ELSE /\ stmt' = [stmt EXCEPT !.at = k,
                              !.targets = IF Truthy(picks) THEN @ \cup {k} ELSE @]
                /\ UNCHANGED ok
    /\ UNCHANGED rows

\* The next of the collected rows: the assignments may throw, and so may
\* update_row; the rows before it stay changed.
UpdateRow ==
    /\ stmt.op = "UPDATE" /\ Scanned /\ stmt.targets # {}
    /\ LET k == Min(stmt.targets)
       IN  \/ /\ ~AssignFails(stmt.st)
              /\ rows' = [rows EXCEPT ![stmt.st.table][k] = Assign(stmt.st, @)]
              /\ stmt' = [stmt EXCEPT !.targets = @ \ {k}]
              /\ UNCHANGED ok
           \/ End(FALSE) /\ UNCHANGED rows

\* The rows behind the one that goes move up; they keep their row ids.
DeleteRow ==
    /\ stmt.op = "DELETE" /\ Scanned /\ stmt.targets # {}
    /\ LET k == Min(stmt.targets)
       IN  /\ rows' = [rows EXCEPT ![stmt.st.table] = RemoveAt(@, k)]
           /\ stmt' = [stmt EXCEPT !.targets = {j - 1 : j \in @ \ {k}}]
    /\ UNCHANGED ok

AllWritten ==
    /\ stmt # NoStmt /\ Scanned /\ stmt.targets = {}
    /\ End(TRUE) /\ UNCHANGED rows

Next ==
    \/ \E st \in Inserts : Insert(st)
    \/ \E st \in Updates : Begin("UPDATE", st)
    \/ \E st \in Deletes : Begin("DELETE", st)
    \/ ScanRow \/ UpdateRow \/ DeleteRow \/ AllWritten

Spec == Init /\ [][Next]_vars

=============================================================================
