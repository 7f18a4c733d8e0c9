------------------------------- MODULE Values -------------------------------
(***************************************************************************)
(* src/mydb/src/row.h: the values of columns, their equality and their     *)
(* order.  A Value carries a field for each type; the fields its type does *)
(* not use keep their initial 0, 0.0 and "".                               *)
(*                                                                         *)
(* A double is an integer count of 1/Unit (no NaN and no infinity: neither *)
(* a literal nor a JSON number can make one), and a text is its rank in    *)
(* the order of std::string, 0 being the empty one.                        *)
(***************************************************************************)
EXTENDS Integers

CONSTANTS
    Ints,        \* int64_t
    Doubles,     \* double, as counts of 1/Unit
    Unit,
    ToDouble,    \* the cast from int64_t to double
    Exact,       \* integers up to here are doubles: 2^53
    Texts        \* std::string, by rank

InRange(i) == -Exact <= i /\ i <= Exact

ASSUME NumberAssumption ==
    /\ Ints \subseteq Int /\ 0 \in Ints
    /\ Doubles \subseteq Int /\ 0 \in Doubles
    /\ Unit \in Nat \ {0} /\ Exact \in Nat
    /\ ToDouble \in [Ints -> Doubles]
    /\ \A i, j \in Ints : i <= j => ToDouble[i] <= ToDouble[j]
    /\ \A i \in Ints : InRange(i) => ToDouble[i] = Unit * i

ASSUME TextAssumption == Texts \subseteq Nat /\ 0 \in Texts

Types == {"INT", "REAL", "TEXT"}

Value == [type : Types, is_null : BOOLEAN, i : Ints, d : Doubles, s : Texts]

NullOf(t) == [type |-> t, is_null |-> TRUE, i |-> 0, d |-> 0, s |-> 0]
MakeInt(x) == [type |-> "INT", is_null |-> FALSE, i |-> x, d |-> 0, s |-> 0]
MakeReal(x) == [type |-> "REAL", is_null |-> FALSE, i |-> 0, d |-> x, s |-> 0]
MakeText(x) == [type |-> "TEXT", is_null |-> FALSE, i |-> 0, d |-> 0, s |-> x]

\* What a column of type t may hold.
ColumnValues(t) ==
    {NullOf(t)} \cup CASE t = "INT" -> {MakeInt(x) : x \in Ints}
                       [] t = "REAL" -> {MakeReal(x) : x \in Doubles}
                       [] t = "TEXT" -> {MakeText(x) : x \in Texts}

Sign(x, y) == IF x < y THEN -1 ELSE IF x > y THEN 1 ELSE 0

AsDouble(v) == IF v.type = "INT" THEN ToDouble[v.i] ELSE v.d

\* Mutant of CompareValues: a NULL comes first.
NullsFirst(a, b) ==
    IF a.is_null THEN -1
    ELSE IF a.type # "TEXT" /\ b.type # "TEXT"
    THEN Sign(AsDouble(a), AsDouble(b))
    ELSE Sign(a.s, b.s)

\* compare_values: two numbers as doubles, anything else as texts.
CompareValues(a, b) ==
    IF a.type # "TEXT" /\ b.type # "TEXT"
    THEN Sign(AsDouble(a), AsDouble(b))
    ELSE Sign(a.s, b.s)

\* values_equal: the type of the first value picks the field of both.
ValuesEqual(a, b) ==
    /\ ~a.is_null /\ ~b.is_null
    /\ a.type = "INT" => a.i = b.i
    /\ a.type = "REAL" => a.d = b.d
    /\ a.type = "TEXT" => a.s = b.s

-----------------------------------------------------------------------------
\* What std::sort asks of compare_values on the values V of a column, the NULLs
\* among them (which compare like zero): a strict weak order.
StrictWeakOn(V) ==
    \A a, b, c \in V :
        /\ CompareValues(a, b) = -CompareValues(b, a)
        /\ CompareValues(a, b) < 0 /\ CompareValues(b, c) < 0
             => CompareValues(a, c) < 0
        /\ CompareValues(a, b) = 0 /\ CompareValues(b, c) = 0
             => CompareValues(a, c) = 0

\* = and the order agree on V: x <= k and x >= k hold together just when x = k
\* does.  Integers beyond Exact are compared as doubles by the one and as
\* integers by the other, and are left out.
EqualityIsOrderOn(V) ==
    \A a, b \in V :
        ~a.is_null /\ ~b.is_null /\ InRange(a.i) /\ InRange(b.i) =>
            (ValuesEqual(a, b) <=> CompareValues(a, b) = 0)
=============================================================================
