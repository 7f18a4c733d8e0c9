------------------------------ MODULE Parsing -------------------------------
(* The outcome of a recursive-descent parser: what it has read and the       *)
(* position after it, or Fail for a thrown exception.                        *)
EXTENDS Naturals, Sequences

Fail == [at |-> 0]
Ok(node, at) == [node |-> node, at |-> at]
Then(p, Q(_, _)) == IF p = Fail THEN Fail ELSE Q(p.node, p.at)
=============================================================================
