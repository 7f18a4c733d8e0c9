----------------------------- MODULE SqlSyntax ------------------------------
(* The expressions of a statement, struct Expr of sql_parser.h: what the     *)
(* parser makes and the executor evaluates.                                  *)

Literal(kind, v) == [kind |-> kind, v |-> v]
Column(q, c) == [kind |-> "COLUMN", table_qualifier |-> q, col_name |-> c]
Cmp(op, l, r) == [kind |-> "CMP", cmp |-> op, left |-> l, right |-> r]
And(l, r) == [kind |-> "AND", left |-> l, right |-> r]
Or(l, r) == [kind |-> "OR", left |-> l, right |-> r]
NoClause == [kind |-> "NONE"]
=============================================================================
