----------------------------- MODULE SqlGrammar -----------------------------
(***************************************************************************)
(* What the parser must make of a text: each statement as it is written,   *)
(* and the texts a user types, some of them with a mistake.                *)
(***************************************************************************)
EXTENDS SqlParser, Functions

CONSTANTS
    Statements,       \* what a user may mean
    Slips,            \* the tokens that may get into its text by mistake
    MaxSlips          \* bound on the mistakes

VARIABLES
    meant,     \* the statement as it was meant
    slips      \* the mistakes in its text

vars == <<toks, meant, slips>>

-----------------------------------------------------------------------------
(* How a statement is written, from the grammar alone.                      *)

Words(types) == [k \in DOMAIN types |-> Word(types[k])]
Ident(x) == Token("IDENT", x)
Commas(xs) == FlattenSeq([k \in DOMAIN xs |-> IF k = 1 THEN xs[k] ELSE <<Word("COMMA")>> \o xs[k]])
Parens(xs) == <<Word("LPAREN")>> \o Commas(xs) \o <<Word("RPAREN")>>

TextOfColumn(c) ==
    (IF c.table_qualifier = NoName THEN <<>> ELSE <<Ident(c.table_qualifier), Word("DOT")>>)
    \o <<IF c.col_name = Star THEN Word("STAR") ELSE Ident(c.col_name)>>
TextOfLiteral(e) ==
    <<Token(CHOOSE k \in DOMAIN LiteralKinds : LiteralKinds[k] = e.kind, e.v)>>

RECURSIVE TextOf(_)
TextOf(e) ==
    CASE e.kind = "COLUMN" -> TextOfColumn(e)
      [] e.kind = "CMP" -> TextOf(e.left) \o <<Word(e.cmp)>> \o TextOf(e.right)
      [] e.kind \in {"AND", "OR"} -> TextOf(e.left) \o <<Word(e.kind)>> \o TextOf(e.right)
      [] OTHER -> TextOfLiteral(e)

Clause(words, e) == IF e = NoClause THEN <<>> ELSE Words(words) \o TextOf(e)
If(b, types) == IF b THEN Words(types) ELSE <<>>

TextOfSpec(c) ==
    <<Ident(c.name), Ident(c.type)>> \o If(c.primary_key, <<"PRIMARY", "KEY">>)
    \o If(c.not_null, <<"NOT", "NULL">>) \o If(c.unique, <<"UNIQUE">>)
    \o (IF c.fk = <<>> THEN <<>>
        ELSE <<Word("REFERENCES"), Ident(c.fk[1])>> \o Parens(<<<<Ident(c.fk[2])>>>>))

Written(st) ==
    (CASE st.op = "CREATE" ->
            Words(<<"CREATE", "TABLE">>) \o <<Ident(st.table)>>
            \o Parens([k \in DOMAIN st.columns |-> TextOfSpec(st.columns[k])])
       [] st.op = "DROP" -> Words(<<"DROP", "TABLE">>) \o <<Ident(st.table)>>
       [] st.op = "INSERT" ->
            Words(<<"INSERT", "INTO">>) \o <<Ident(st.table)>>
            \o (IF st.columns = <<>> THEN <<>>
                ELSE Parens([k \in DOMAIN st.columns |-> <<Ident(st.columns[k])>>]))
            \o <<Word("VALUES")>>
            \o Commas([r \in DOMAIN st.rows |->
                 Parens([k \in DOMAIN st.rows[r] |-> TextOfLiteral(st.rows[r][k])])])
       [] st.op = "SELECT" ->
            <<Word("SELECT")>>
            \o Commas([k \in DOMAIN st.columns |-> TextOfColumn(st.columns[k])])
            \o <<Word("FROM"), Ident(st.from_table)>>
            \o (IF st.join = NoName THEN <<>> ELSE <<Word("JOIN"), Ident(st.join)>>)
            \o Clause(<<"ON">>, st.on) \o Clause(<<"WHERE">>, st.where)
            \o Clause(<<"ORDER", "BY">>, st.order)
            \o If(st.order # NoClause /\ st.order.desc, <<"DESC">>)
       [] st.op = "UPDATE" ->
            <<Word("UPDATE"), Ident(st.table), Word("SET")>>
            \o Commas([k \in DOMAIN st.assignments |->
                 <<Ident(st.assignments[k][1]), Word("EQ")>>
                 \o TextOfLiteral(st.assignments[k][2])])
            \o Clause(<<"WHERE">>, st.where)
       [] st.op = "DELETE" ->
            Words(<<"DELETE", "FROM">>) \o <<Ident(st.table)>> \o Clause(<<"WHERE">>, st.where))
    \o <<Word("END")>>

-----------------------------------------------------------------------------
Init == toks = <<Word("END")>> /\ meant = NoClause /\ slips = 0

\* parse_sql is called with a statement, or with one that has a token too many,
\* one missing, one in the place of another or a run of them twice.
Write ==
    /\ meant = NoClause
    /\ \E st \in Statements : meant' = st /\ toks' = Written(st)
    /\ UNCHANGED slips

Slip(text) ==
    /\ meant # NoClause /\ slips < MaxSlips
    /\ slips' = slips + 1 /\ toks' = text /\ UNCHANGED meant

Omit == \E k \in 1 .. Len(toks) - 1 : Slip(RemoveAt(toks, k))
Intrude == \E k \in 1 .. Len(toks), x \in Slips : Slip(InsertAt(toks, k, x))
Confuse == \E k \in 1 .. Len(toks) - 1, x \in Slips : Slip(ReplaceAt(toks, k, x))
Repeat == \E k \in 1 .. Len(toks) - 1 : \E m \in k .. Len(toks) - 1 :
    Slip(SubSeq(toks, 1, m) \o SubSeq(toks, k, Len(toks)))

Next == Write \/ Omit \/ Intrude \/ Confuse \/ Repeat

Spec == Init /\ [][Next]_vars

-----------------------------------------------------------------------------
Accepted == Parsed # Fail
St == Parsed.node

\* The text of a statement is read as the statement it was written for.
ReadAsMeant == meant # NoClause /\ slips = 0 => Accepted /\ St = meant

\* What a parse may drop: a semicolon at the end, ASC, and the order and the
\* repetition of the constraints of a column.
Kept(text) ==
    LET dropped == {"SEMI", "ASC"} \cup
          IF text[1].type = "CREATE" THEN {"PRIMARY", "KEY", "NOT", "NULL", "UNIQUE"} ELSE {}
    IN  SelectSeq(text, LAMBDA k : k.type \notin dropped)

\* One column that is declared with two references.
TwoReferences ==
    \E k \in DOMAIN toks : \E m \in k + 1 .. Len(toks) :
        /\ Type(k) = "REFERENCES" /\ Type(m) = "REFERENCES"
        /\ \A i \in k .. m : Type(i) # "COMMA"

\* Whatever a mistake left of a text: a statement that is executed says all of
\* it.  No condition, row or column of the text is passed over (a DELETE whose
\* WHERE is mistyped never deletes every row).  The code does not keep this for
\* a second REFERENCES of one column: the first is forgotten.
NothingPassedOver == Accepted /\ ~TwoReferences => Kept(Written(St)) = Kept(toks)
=============================================================================
