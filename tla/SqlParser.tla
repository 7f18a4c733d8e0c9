----------------------------- MODULE SqlParser ------------------------------
(***************************************************************************)
(* The recursive-descent parser of sql_parser.h, over the tokens of one    *)
(* statement.                                                              *)
(***************************************************************************)
EXTENDS Parsing, SqlSyntax, SequencesExt

CONSTANTS NoName, Star   \* no qualifier and no joined table; the * of a SELECT

VARIABLE toks            \* Parser::toks_

Token(type, text) == [type |-> type, text |-> text]
Word(type) == Token(type, NoName)

-----------------------------------------------------------------------------
Type(at) == toks[at].type

\* A run of expect() and expect_ident(): the tokens read.
Match(types, at) ==
    IF \A k \in DOMAIN types : at + k - 1 \in DOMAIN toks /\ Type(at + k - 1) = types[k]
    THEN Ok(SubSeq(toks, at, at + Len(types) - 1), at + Len(types)) ELSE Fail

\* do { P } while (check(sep) && (advance(), true)), and the loops of AND and OR.
SepBy(sep, P(_), at) ==
    LET from[k \in DOMAIN toks] ==
          Then(P(k), LAMBDA x, n :
            IF Type(n) # sep THEN Ok(<<x>>, n)
            ELSE Then(from[n + 1], LAMBDA xs, m : Ok(<<x>> \o xs, m)))
    IN  from[at]

-----------------------------------------------------------------------------
LiteralKinds == [INT_NUMBER |-> "LIT_INT", REAL_NUMBER |-> "LIT_REAL",
                 STRING |-> "LIT_STR", NULL |-> "LIT_NULL"]

LiteralOrNull(at) ==
    IF Type(at) \in DOMAIN LiteralKinds
    THEN Ok(Literal(LiteralKinds[Type(at)], toks[at].text), at + 1) ELSE Fail

ColRef(at) ==
    IF Match(<<"IDENT", "DOT">>, at) # Fail
    THEN Then(Match(<<"IDENT", "DOT", "IDENT">>, at), LAMBDA id, n :
           Ok(Column(id[1].text, id[3].text), n))
    ELSE Then(Match(<<"IDENT">>, at), LAMBDA id, n : Ok(Column(NoName, id[1].text), n))

ColRefOrStar(at) ==
    CASE Type(at) = "STAR" -> Ok(Column(NoName, Star), at + 1)
      [] Match(<<"IDENT", "DOT", "STAR">>, at) # Fail ->
           Ok(Column(toks[at].text, Star), at + 3)
      [] OTHER -> ColRef(at)

Operand(at) == IF Type(at) = "IDENT" THEN ColRef(at) ELSE LiteralOrNull(at)

CmpOps == {"EQ", "NEQ", "LT", "LE", "GT", "GE"}

Comparison(at) ==
    Then(Operand(at), LAMBDA l, op :
      IF Type(op) \notin CmpOps THEN Fail
      ELSE Then(Operand(op + 1), LAMBDA r, n : Ok(Cmp(Type(op), l, r), n)))

\* Both associate to the left.
Joined(J(_, _), xs) == FoldLeft(J, Head(xs), Tail(xs))
AndExpr(at) == Then(SepBy("AND", Comparison, at), LAMBDA xs, n : Ok(Joined(And, xs), n))

OrExpr(at) == Then(SepBy("OR", AndExpr, at), LAMBDA xs, n : Ok(Joined(Or, xs), n))

Where(at) == IF Type(at) = "WHERE" THEN OrExpr(at + 1) ELSE Ok(NoClause, at)

-----------------------------------------------------------------------------
Reference == <<"REFERENCES", "IDENT", "LPAREN", "IDENT", "RPAREN">>

\* The constraints of a column, each as its tokens.
Constraints[at \in DOMAIN toks] ==
    LET one == CASE Type(at) = "PRIMARY" -> Match(<<"PRIMARY", "KEY">>, at)
                 [] Type(at) = "NOT" -> Match(<<"NOT", "NULL">>, at)
                 [] Type(at) = "UNIQUE" -> Match(<<"UNIQUE">>, at)
                 [] Type(at) = "REFERENCES" -> Match(Reference, at)
                 [] OTHER -> Ok(<<>>, at)
    IN  IF one # Fail /\ one.at = at THEN one
        ELSE Then(one, LAMBDA c, n :
               Then(Constraints[n], LAMBDA cs, m : Ok(<<c>> \o cs, m)))

\* Of two REFERENCES the later stays.
ColumnSpec(at) ==
    Then(Match(<<"IDENT", "IDENT">>, at), LAMBDA id, n :
      Then(Constraints[n], LAMBDA cs, m :
        LET Of(type) == SelectSeq(cs, LAMBDA c : c[1].type = type)
        IN  Ok([name |-> id[1].text, type |-> id[2].text,
                primary_key |-> Of("PRIMARY") # <<>>, not_null |-> Of("NOT") # <<>>,
                unique |-> Of("UNIQUE") # <<>>,
                fk |-> IF Of("REFERENCES") = <<>> THEN <<>>
                       ELSE <<Last(Of("REFERENCES"))[2].text, Last(Of("REFERENCES"))[4].text>>],
               m)))

CreateTable(at) ==
    Then(Match(<<"CREATE", "TABLE", "IDENT", "LPAREN">>, at), LAMBDA h, n :
      Then(SepBy("COMMA", ColumnSpec, n), LAMBDA cs, m :
        Then(Match(<<"RPAREN">>, m), LAMBDA r, e :
          Ok([op |-> "CREATE", table |-> h[3].text, columns |-> cs], e))))

DropTable(at) ==
    Then(Match(<<"DROP", "TABLE", "IDENT">>, at), LAMBDA h, n :
      Ok([op |-> "DROP", table |-> h[3].text], n))

Name(at) == Then(Match(<<"IDENT">>, at), LAMBDA id, n : Ok(id[1].text, n))

InParens(P(_), at) ==
    Then(Match(<<"LPAREN">>, at), LAMBDA l, n :
      Then(SepBy("COMMA", P, n), LAMBDA xs, m :
        Then(Match(<<"RPAREN">>, m), LAMBDA r, e : Ok(xs, e))))

Insert(at) ==
    Then(Match(<<"INSERT", "INTO", "IDENT">>, at), LAMBDA h, n :
      Then(IF Type(n) = "LPAREN" THEN InParens(Name, n) ELSE Ok(<<>>, n), LAMBDA cs, m :
        Then(Match(<<"VALUES">>, m), LAMBDA v, k :
          Then(SepBy("COMMA", LAMBDA j : InParens(LiteralOrNull, j), k), LAMBDA rs, e :
            Ok([op |-> "INSERT", table |-> h[3].text, columns |-> cs, rows |-> rs], e)))))

Join(at) ==
    IF Type(at) # "JOIN" THEN Ok([join |-> NoName, on |-> NoClause], at)
    ELSE Then(Match(<<"JOIN", "IDENT", "ON">>, at), LAMBDA j, n :
           Then(OrExpr(n), LAMBDA on, m : Ok([join |-> j[2].text, on |-> on], m)))

By(c, desc) == [kind |-> "COLUMN", table_qualifier |-> c.table_qualifier,
                col_name |-> c.col_name, desc |-> desc]

\* Mutant of OrderBy: DESC is read as the default.
OrderUp(at) ==
    IF Type(at) # "ORDER" THEN Ok(NoClause, at)
    ELSE Then(Match(<<"ORDER", "BY">>, at), LAMBDA o, n :
           Then(ColRef(n), LAMBDA c, m :
             Ok(By(c, FALSE), IF Type(m) \in {"ASC", "DESC"} THEN m + 1 ELSE m)))

OrderBy(at) ==
    IF Type(at) # "ORDER" THEN Ok(NoClause, at)
    ELSE Then(Match(<<"ORDER", "BY">>, at), LAMBDA o, n :
           Then(ColRef(n), LAMBDA c, m :
             Ok(By(c, Type(m) = "DESC"), IF Type(m) \in {"ASC", "DESC"} THEN m + 1 ELSE m)))

Select(at) ==
    Then(SepBy("COMMA", ColRefOrStar, at + 1), LAMBDA cs, n :
      Then(Match(<<"FROM", "IDENT">>, n), LAMBDA f, m :
        Then(Join(m), LAMBDA j, k :
          Then(Where(k), LAMBDA w, l :
            Then(OrderBy(l), LAMBDA o, e :
              Ok([op |-> "SELECT", columns |-> cs, from_table |-> f[2].text,
                  join |-> j.join, on |-> j.on, where |-> w, order |-> o], e))))))

Assignment(at) ==
    Then(Match(<<"IDENT", "EQ">>, at), LAMBDA id, n :
      Then(LiteralOrNull(n), LAMBDA v, m : Ok(<<id[1].text, v>>, m)))

Update(at) ==
    Then(Match(<<"UPDATE", "IDENT", "SET">>, at), LAMBDA h, n :
      Then(SepBy("COMMA", Assignment, n), LAMBDA as, m :
        Then(Where(m), LAMBDA w, e :
          Ok([op |-> "UPDATE", table |-> h[2].text, assignments |-> as, where |-> w], e))))

Delete(at) ==
    Then(Match(<<"DELETE", "FROM", "IDENT">>, at), LAMBDA h, n :
      Then(Where(n), LAMBDA w, e : Ok([op |-> "DELETE", table |-> h[3].text, where |-> w], e)))

One(at) ==
    CASE Type(at) = "CREATE" -> CreateTable(at)
      [] Type(at) = "DROP" -> DropTable(at)
      [] Type(at) = "INSERT" -> Insert(at)
      [] Type(at) = "SELECT" -> Select(at)
      [] Type(at) = "UPDATE" -> Update(at)
      [] Type(at) = "DELETE" -> Delete(at)
      [] OTHER -> Fail

\* Mutant of Parsed: what follows the semicolon is not looked at.
ParsedFirst ==
    Then(One(1), LAMBDA st, n :
      IF Type(n) = "SEMI" \/ Match(<<"END">>, n) # Fail THEN Ok(st, n) ELSE Fail)

\* parse_statement.
Parsed ==
    Then(One(1), LAMBDA st, n :
      Then(Match(<<"END">>, IF Type(n) = "SEMI" THEN n + 1 ELSE n), LAMBDA e, m : Ok(st, m)))

=============================================================================
