---------------------------- MODULE QueryMeaning ----------------------------
(***************************************************************************)
(* What a SELECT of sql_executor.h is to mean: a set of combinations of    *)
(* rows, with AND and OR as intersection and union and numbers as numbers  *)
(* whatever their type; and the properties that compare Query with it.     *)
(***************************************************************************)
EXTENDS Query

SourcesOf(st) == <<st.from_table>> \o (IF st.join = NoName THEN <<>> ELSE <<st.join>>)

\* Where a column name may point: <<source, column>>.
Places(tabs, c) ==
    UNION {{<<k, i>> : i \in {j \in DOMAIN Schema[tabs[k]] :
                                Schema[tabs[k]][j].name = c.col_name}} :
             k \in {m \in DOMAIN tabs : c.table_qualifier \in {NoName, tabs[m]}}}

TypeIn(e, tabs) ==
    CASE e.kind = "LIT_INT" -> "INT"
      [] e.kind = "LIT_REAL" -> "REAL"
      [] e.kind = "LIT_STR" -> "TEXT"
      [] e.kind = "LIT_NULL" -> "NULL"
      [] e.kind = "COLUMN" -> LET p == CHOOSE p \in Places(tabs, e) : TRUE
                              IN  Schema[tabs[p[1]]][p[2]].type

\* An expression whose meaning is not in doubt: each name points to one column,
\* texts are compared with texts, and = and # with values of their own type.
RECURSIVE Plain(_, _)
Plain(e, tabs) ==
    CASE e.kind = "COLUMN" -> Cardinality(Places(tabs, e)) = 1
      [] e.kind \in {"AND", "OR"} -> Plain(e.left, tabs) /\ Plain(e.right, tabs)
      [] e.kind = "CMP" ->
           /\ Plain(e.left, tabs) /\ Plain(e.right, tabs)
           /\ LET ts == {TypeIn(e.left, tabs), TypeIn(e.right, tabs)}
              IN  \/ "NULL" \in ts \/ Cardinality(ts) = 1
                  \/ ts = {"INT", "REAL"} /\ e.cmp \notin {"EQ", "NEQ"}
      [] OTHER -> TRUE

PlainSelect(st) ==
    LET tabs == SourcesOf(st)
    IN  /\ ~UnknownTable(st) /\ st.from_table # st.join
        /\ Plain(st.on, tabs) /\ Plain(st.where, tabs)
        /\ \A i \in DOMAIN Projection(st) : Plain(Projection(st)[i], tabs)
        /\ Plain(st.order, tabs)

\* The value an operand has in the rows w, and a value as something to compare.
Denotes(e, tabs, w) ==
    IF e.kind = "COLUMN"
    THEN LET p == CHOOSE p \in Places(tabs, e) : TRUE
         IN  rows[tabs[p[1]]][w[p[1]]][p[2]]
    ELSE EvalExpr(e, <<>>)

Amount(v) == CASE v.type = "INT" -> Unit * v.i
               [] v.type = "REAL" -> v.d
               [] v.type = "TEXT" -> v.s

InOrder(op, x, y) ==
    CASE op = "EQ" -> x = y  [] op = "NEQ" -> x # y
      [] op = "LT" -> x < y  [] op = "LE" -> x <= y
      [] op = "GT" -> x > y  [] op = "GE" -> x >= y

RECURSIVE Meaning(_, _, _)
Meaning(e, tabs, W) ==
    CASE e.kind = "NONE" -> W
      [] e.kind = "AND" -> Meaning(e.left, tabs, W) \cap Meaning(e.right, tabs, W)
      [] e.kind = "OR" -> Meaning(e.left, tabs, W) \cup Meaning(e.right, tabs, W)
      [] e.kind = "CMP" ->
           {w \in W : LET l == Denotes(e.left, tabs, w)
                          r == Denotes(e.right, tabs, w)
                      IN  /\ ~l.is_null /\ ~r.is_null
                          /\ InOrder(e.cmp, Amount(l), Amount(r))}

\* The rows an answer to st has, and how often each.
Expected(st) ==
    LET tabs == SourcesOf(st)
        W == {w \in [DOMAIN tabs -> 1 .. MaxRows] :
                \A k \in DOMAIN tabs : w[k] \in DOMAIN rows[tabs[k]]}
        proj == Projection(st)
    IN  [w \in Meaning(st.on, tabs, W) \cap Meaning(st.where, tabs, W) |->
           [i \in DOMAIN proj |-> Denotes(proj[i], tabs, w)]]

SameBag(f, g) ==
    \A x \in Range(f) \cup Range(g) :
        Cardinality({i \in DOMAIN f : f[i] = x}) = Cardinality({i \in DOMAIN g : g[i] = x})

OrderedBy(st, out) ==
    \A i \in DOMAIN Projection(st) :
        /\ st.order # NoClause
        /\ Projection(st)[i].col_name = st.order.col_name
        /\ st.order.table_qualifier \in {NoName, Projection(st)[i].table_qualifier}
        => \A j, k \in DOMAIN out :
             j < k /\ ~out[j][i].is_null /\ ~out[k][i].is_null =>
               InOrder(IF st.order.desc THEN "GE" ELSE "LE",
                       Amount(out[j][i]), Amount(out[k][i]))

SmallNumbers ==
    \A t \in Tables : \A r \in Range(rows[t]) : \A v \in Range(r) : InRange(v.i)

\* The literals that are inserted, and the values column i of t has or may get.
Written == UNION {UNION {Range(r) : r \in Range(st.rows)} : st \in Inserts}

ValuesOf(t, i) ==
    {r[i] : r \in Range(rows[t])} \cup
    ({EvalLiteral(lit, Schema[t][i].type) : lit \in Written} \ {Error})

-----------------------------------------------------------------------------
\* Between statements, a SELECT whose meaning is not in doubt answers with the rows
\* it means, each as often as it should, and in an order its ORDER BY allows:
\* through short circuits, joins, unstable sorts and integers compared with reals.
SelectIsRight ==
    stmt = NoStmt /\ SmallNumbers =>
      \A st \in Selects : PlainSelect(st) =>
        \A a \in Answers(st) :
          a.ok /\ SameBag(Expected(st), a.rows) /\ OrderedBy(st, a.rows)

\* Does WHERE c = lit pick just the rows that hold what INSERT and UPDATE make of
\* lit in column i of t?
FoundBy(t, i, lit) ==
    LET v == EvalLiteral(lit, Schema[t][i].type)
        e == Cmp("EQ", Column(NoName, Schema[t][i].name), lit)
    IN  v # Error /\ ~v.is_null =>
          \A k \in DOMAIN rows[t] :
              Truthy(EvalExpr(e, <<At(t, k)>>)) = (rows[t][k][i] = v)

\* What was written is found by what was written.  The code does not keep this
\* for an integer in a REAL column.
FoundByWrittenLiteral ==
    \A lit \in Written : \A t \in Tables : \A i \in DOMAIN Schema[t] : FoundBy(t, i, lit)

\* ORDER BY gives std::sort a strict weak order on whatever a column holds or may
\* get, NULLs and integers that are no doubles included (any other relation would
\* be undefined behaviour), and = agrees with <= and >= there.
ComparisonIsOrder ==
    stmt = NoStmt =>
      \A t \in Tables : \A i \in DOMAIN Schema[t] :
        StrictWeakOn(ValuesOf(t, i)) /\ EqualityIsOrderOn(ValuesOf(t, i))

\* What a statement has made of the rows old once it has written the rows W.
After(op, st, old, W) ==
    IF op = "UPDATE"
    THEN [k \in DOMAIN old |-> IF k \in W THEN Assign(st, old[k]) ELSE old[k]]
    ELSE LET kept == SelectSeq([k \in DOMAIN old |-> k], LAMBDA k : k \notin W)
         IN  [j \in DOMAIN kept |-> old[kept[j]]]

\* Whatever an UPDATE or DELETE has done when it is cut short by an error, it has
\* written the first few, in the order of the table, of the rows that satisfied
\* its WHERE clause before it began, each once, and no other row.  If the clause
\* throws for any of those rows it has written none; if the statement is
\* answered with ok it has written all of them.
WritesWhatItPicked ==
    [][stmt # NoStmt =>
         LET st == stmt.st
             old == stmt.before
             holds == [k \in DOMAIN old |-> Test(st.where, <<[table |-> st.table,
                                                            row |-> old[k]]>>)]
             picked == {k \in DOMAIN old : Truthy(holds[k])}
         IN  \E n \in 0 .. Len(old) :
               LET W == {k \in picked : k <= n}
               IN  /\ rows' = [rows EXCEPT ![st.table] = After(stmt.op, st, old, W)]
                   /\ Error \in Range(holds) => W = {}
                   /\ stmt' = NoStmt /\ ok' => W = picked /\ Error \notin Range(holds)
      ]_vars
=============================================================================
