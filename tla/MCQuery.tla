------------------------------ MODULE MCQuery ------------------------------
(* t(a INT, x REAL) and u(a INT, s TEXT): names that are in one table and in *)
(* both, a number of each type, texts.  Integers up to 2 are doubles; 3 and  *)
(* 5 are not, and both become 4.                                             *)
EXTENDS QueryMeaning

CONSTANTS t, u, a, x, s, none, star

MCTables == {t, u}
Col(n, ty) == [name |-> n, type |-> ty]
MCSchema == (t :> <<Col(a, "INT"), Col(x, "REAL")>>) @@ (u :> <<Col(a, "INT"), Col(s, "TEXT")>>)
MCInts == 0 .. 5
MCDoubles == 0 .. 8
MCToDouble == [i \in MCInts |-> IF i > 2 THEN 8 ELSE 2 * i]

Whole(i) == Literal("LIT_INT", i)
Half(d) == Literal("LIT_REAL", d)
Str(i) == Literal("LIT_STR", i)
NullLit == Literal("LIT_NULL", 0)

InsertInto(tab, cols, rs) == [table |-> tab, columns |-> cols, rows |-> rs]
MCInserts ==
    {InsertInto(t, <<>>, <<<<i, d>>>>) : i \in {NullLit, Whole(1), Whole(3)},
                                         d \in {NullLit, Whole(1), Half(1)}}
    \cup {InsertInto(u, <<>>, <<<<Whole(1), Str(1)>>>>),
          InsertInto(u, <<>>, <<<<NullLit, Str(0)>>>>)}
    \cup {InsertInto(u, <<a>>, <<<<Whole(1)>>, <<Str(1)>>>>),    \* the second fails
          InsertInto(t, <<x, a>>, <<<<Half(1), Whole(5)>>, <<Whole(2), NullLit>>>>)}

MCUpdates ==
    {[table |-> t, assignments |-> as, where |-> w] :
       as \in {<<<<x, Whole(2)>>>>, <<<<a, Half(0)>>>>},
       w \in {NoClause, Cmp("EQ", Column(none, a), Whole(1)),
              Or(Cmp("LT", Column(none, a), Whole(2)), Cmp("EQ", Column(none, s), Whole(1)))}}

MCDeletes ==
    {[table |-> t, where |-> w] :
       w \in {Cmp("GE", Column(none, x), Whole(1)),
              Or(Cmp("EQ", Column(t, a), Whole(2)), Cmp("EQ", Column(u, a), Whole(1)))}}

Ops == {"EQ", "NEQ", "LT", "LE", "GT", "GE"}
Query1(cols, tab, w, o) == [columns |-> cols, from_table |-> tab, join |-> none,
                            on |-> NoClause, where |-> w, order |-> o]
Query2(cols, on, w, o) == [columns |-> cols, from_table |-> t, join |-> u,
                           on |-> on, where |-> w, order |-> o]
All == <<Column(none, star)>>
By(q, c, d) == [kind |-> "COLUMN", table_qualifier |-> q, col_name |-> c, desc |-> d]
Operands == {Column(none, a), Column(t, x), Whole(1), Half(1), NullLit}
Comparisons == {Cmp(op, l, r) : op \in Ops, l \in Operands, r \in Operands}
Some == {Cmp("EQ", Column(none, a), Whole(1)), Cmp("GT", Column(none, x), Whole(0)),
         Cmp("NEQ", Column(none, a), NullLit)}
Pairs == {And(l, r) : l \in Some, r \in Some} \cup {Or(l, r) : l \in Some, r \in Some}
Joins == {Cmp("EQ", Column(t, a), Column(u, a)), Cmp("GE", Column(none, x), Column(u, a))}

MCSelects ==
    {Query1(All, t, w, NoClause) : w \in Comparisons \cup Pairs}
    \cup {Query1(All, t, NoClause, By(none, c, d)) : c \in {a, x}, d \in BOOLEAN}
    \cup {Query2(cs, on, w, o) :
            cs \in {All, <<Column(none, s), Column(u, star)>>}, on \in Joins,
            w \in {NoClause, Or(Cmp("EQ", Column(none, s), Str(1)),
                                Cmp("LT", Column(u, a), Column(t, x)))},
            o \in {NoClause, By(u, s, TRUE)}}
=============================================================================
