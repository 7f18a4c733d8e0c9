------------------------------ MODULE SqlText -------------------------------
(***************************************************************************)
(* Texts as a user types them, character by character, and what the lexer  *)
(* makes of each.                                                          *)
(***************************************************************************)
EXTENDS SqlLexer

CONSTANT MaxLen      \* bound on a text

VARIABLE s           \* Lexer::s_

vars == s

Init == s = <<>>
Next == \E c \in Chars : Len(s) < MaxLen /\ s' = Append(s, c)
Spec == Init /\ [][Next]_vars

Escaped(val) ==
    FlattenSeq([k \in DOMAIN val |->
      IF val[k] \in {"'", "\\"} THEN <<"\\", val[k]>> ELSE <<val[k]>>])

\* A token as a text of its own; the quotes of a literal are written again.
Spelled(t) == IF t.type = "STRING" THEN <<"'">> \o Escaped(t.text) \o <<"'">> ELSE t.text

Space == CHOOSE c \in Spaces : TRUE
Spell(toks) == FlattenSeq([k \in DOMAIN toks |-> Spelled(toks[k]) \o <<Space>>])

-----------------------------------------------------------------------------
\* Every text and number a token can hold can be written, and is read back from
\* that: quotes and backslashes in a literal, a backslash before its end, signs
\* of two characters.
ReadBack == Tokens(s) # Fail => Tokens(Spell(Tokens(s))) = Tokens(s)
=============================================================================
