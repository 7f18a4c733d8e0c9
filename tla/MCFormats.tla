----------------------------- MODULE MCFormats ------------------------------
(* The modules that read a text or bytes back, one of them per behaviour:    *)
(* each has its own state, and the other five keep theirs.  Forms has four,  *)
(* the others are instances.                                                 *)
EXTENDS Forms, SqlSyntax, TLC

CONSTANTS MaxSlips, Precision, MaxSent

VARIABLES
    format,                     \* the machine that runs
    toks, statement, slips,     \* SqlGrammar
    text, meant                 \* JsonWire

-----------------------------------------------------------------------------
(* Rows of (code TEXT UNIQUE, n INT, note TEXT): three columns and bytes of  *)
(* two bits, texts of up to four bytes.                                      *)
RowTypes == <<"TEXT", "INT", "TEXT">>
RowUnique == {1}
RowNumbers == {<<7, 8>>}
RowStrings == {<<>>, <<1>>, <<1, 2>>, <<2, 1>>, <<1, 1, 2>>, <<1, 2, 1, 2>>}

(* Tables of up to two columns, with constraints and references, under names *)
(* below the limit of a length.                                              *)
PlainDef == [name |-> <<1>>, type |-> 0, flags |-> {0, 2}, fk_table |-> <<>>, fk_column |-> <<>>]
RefDef == [name |-> <<1, 2>>, type |-> 2, flags |-> {3}, fk_table |-> <<1, 2>>, fk_column |-> <<1>>]
DefNames == {<<>>, <<1>>, <<1, 2>>, <<2, 1>>}
DefLists == {<<>>, <<PlainDef>>, <<RefDef>>, <<PlainDef, RefDef>>, <<RefDef, RefDef>>}

(* Tables whose names have up to three tokens, slashes and the fixed         *)
(* segments of a path among them.                                            *)
MCPathNames == UNION {[1 .. n -> {"/", "rows", "tables", "word"}] : n \in 0 .. 3}

(* Texts of the letters that make a keyword, one of them in two cases, a     *)
(* digit, a space, and the signs that stand alone or in pairs.               *)
Capitals == [c \in {"o", "r", "R", "1", "_"} |-> IF c = "r" THEN "R" ELSE c]

MCLetters == {"o", "r", "R"}
MCOthers == {"_", ".", "'", "\\", "=", "<", ">", "!"}
MCKeywords == <<"o", "R">> :> "OR"

(* Numbers of more than two digits do not fit.                               *)
MCTooLarge == {[i \in 1 .. n |-> "1"] : n \in 3 .. 4}

(* Rows of (a INT, b REAL, c TEXT); numbers of three digits where two are    *)
(* kept, the characters that are escaped and those that look like an escape. *)
MCAscii == [i \in 0 .. 127 |->
              CASE i = 1 -> "^A" [] i = 8 -> "^H" [] i = 10 -> "^J" [] i = 12 -> "^L"
                [] i = 13 -> "^M" [] i = 9 -> "^I" [] i = 34 -> "\"" [] i = 92 -> "\\"
                [] OTHER -> "ascii"]
MCNames == <<<<"a">>, <<"b">>, <<"\"">>>>
MCTypes == <<"INT", "REAL", "TEXT">>
MCInts == {<<0, 0>>, <<-3, 0>>, <<12, 0>>, <<101, 0>>}
MCToDouble == [x \in MCInts |-> IF x = <<101, 0>> THEN <<100, 0>> ELSE x]
MCReals == {<<0, 0>>, <<-5, 1>>, <<12, 1>>, <<5, 2>>, <<125, 1>>}
WireChars == {"\"", "\\", "^A", "^H", "^J", "u", "n"}
MCStrings == {<<>>} \cup {<<c>> : c \in WireChars} \cup {<<"\\", c>> : c \in WireChars}
                    \cup {<<c, "1">> : c \in {"^A", "^J"}}

Wire == INSTANCE JsonWire WITH
    Ascii <- MCAscii, Newline <- "^J", Return <- "^M", Tab <- "^I", Backspace <- "^H",
    FormFeed <- "^L", Names <- MCNames, Types <- MCTypes, Ints <- MCInts, Reals <- MCReals,
    Strings <- MCStrings, ToDouble <- MCToDouble

(* Statements of every form, their clauses present and absent, conditions of *)
(* up to four comparisons.                                                   *)
Spelled(type, word) == [type |-> type, text |-> word]

ColA == Column("none", "a")
ColB == Column("none", "b")
LitI == Literal("LIT_INT", "one")
LitS == Literal("LIT_STR", "str")
LitN == Literal("LIT_NULL", "none")

C1 == Cmp("EQ", ColA, LitI)
C2 == Cmp("GE", Column("t", "b"), LitS)
C3 == Cmp("NEQ", LitN, Column("u", "a"))
C4 == Cmp("LT", ColB, ColA)
Mixed == {C1, And(C1, C2), Or(C1, C2), Or(And(C1, C2), C3), Or(C1, And(C2, C3)),
          And(And(C1, C2), C3), Or(Or(C1, C2), C3), Or(And(C1, C2), And(C3, C4)),
          Or(Or(C1, And(C2, C3)), C4)}

Order(col, desc) ==
    [kind |-> "COLUMN", table_qualifier |-> col.table_qualifier, col_name |-> col.col_name,
     desc |-> desc]
Sel(cols, j, on, where, order) ==
    [op |-> "SELECT", columns |-> cols, from_table |-> "t", join |-> j, on |-> on,
     where |-> where, order |-> order]
ColumnDef(name, pk, nn, uq, fk) ==
    [name |-> name, type |-> "u", primary_key |-> pk, not_null |-> nn, unique |-> uq, fk |-> fk]

SomeStatements ==
    {[op |-> "CREATE", table |-> "t", columns |-> cs] : cs \in
       {<<ColumnDef("a", TRUE, FALSE, FALSE, <<>>)>>,
        <<ColumnDef("a", FALSE, TRUE, TRUE, <<"u", "b">>)>>,
        <<ColumnDef("a", FALSE, FALSE, FALSE, <<>>), ColumnDef("b", TRUE, TRUE, FALSE, <<>>)>>}}
    \cup {[op |-> "DROP", table |-> "t"]}
    \cup {[op |-> "INSERT", table |-> "t", columns |-> cs, rows |-> rs] :
            cs \in {<<>>, <<"b", "a">>}, rs \in {<<<<LitI, LitN>>>>, <<<<LitS>>, <<LitI, LitS>>>>}}
    \cup {[op |-> "DELETE", table |-> "t", where |-> e] : e \in {NoClause} \cup Mixed}
    \cup {[op |-> "UPDATE", table |-> "t", assignments |-> as, where |-> e] :
            as \in {<<<<"a", LitI>>>>, <<<<"a", LitN>>, <<"b", LitS>>>>},
            e \in {NoClause, C1, Or(C1, C2)}}
    \cup {Sel(<<Column("none", "*")>>, "none", NoClause, e, o) : e \in {NoClause, C1},
            o \in {NoClause, Order(ColA, FALSE), Order(Column("t", "a"), TRUE)}}
    \cup {Sel(<<ColA, Column("t", "*"), Column("u", "b")>>, "u", on, e, o) :
            on \in {C1, And(C1, C2)}, e \in {NoClause, Or(C1, C2)},
            o \in {NoClause, Order(ColB, TRUE)}}

SomeSlips ==
    {Spelled(x, "none") : x \in
      {"CREATE", "TABLE", "DROP", "INSERT", "INTO", "VALUES", "SELECT", "FROM",
       "WHERE", "UPDATE", "SET", "DELETE", "JOIN", "ON", "ORDER", "BY", "AND", "OR", "NULL",
       "PRIMARY", "KEY", "FOREIGN", "REFERENCES", "UNIQUE", "NOT", "ASC", "DESC", "STAR",
       "COMMA", "LPAREN", "RPAREN", "DOT", "SEMI", "EQ", "NEQ", "LT"}}
    \cup {Spelled("IDENT", "a"), Spelled("INT_NUMBER", "one"), Spelled("REAL_NUMBER", "half"),
          Spelled("STRING", "str")}

Grammar == INSTANCE SqlGrammar WITH
    NoName <- "none", Star <- "*", Statements <- SomeStatements, Slips <- SomeSlips,
    meant <- statement

-----------------------------------------------------------------------------
\* What FormatProofs assumes of a row, a definition, a path and a character
\* holds of these.
ASSUME FormatAssumption ==
    /\ RowAssumption /\ Catalog!CatalogAssumption /\ Paths!RouteAssumption
    /\ Text!CharAssumption

rowVars == vars
defVars == <<definitions, by_name, next_id>>
pathVars == <<request, outcome>>
grammarVars == <<toks, statement, slips>>
wireVars == <<text, meant>>

allVars == <<format, rowVars, defVars, pathVars, grammarVars, typed, wireVars>>

Formats == {"rows", "definitions", "paths", "grammar", "characters", "wire"}

FormatsInit ==
    /\ format \in Formats
    /\ Init /\ Catalog!Init /\ Paths!Init /\ Grammar!Init /\ Text!Init /\ Wire!Init

FormatsNext ==
    /\ UNCHANGED format
    /\ \/ /\ format = "rows" /\ Next
          /\ UNCHANGED <<defVars, pathVars, grammarVars, typed, wireVars>>
       \/ /\ format = "definitions" /\ Catalog!Next
          /\ UNCHANGED <<rowVars, pathVars, grammarVars, typed, wireVars>>
       \/ /\ format = "paths" /\ Paths!Next
          /\ UNCHANGED <<rowVars, defVars, grammarVars, typed, wireVars>>
       \/ /\ format = "grammar" /\ Grammar!Next
          /\ UNCHANGED <<rowVars, defVars, pathVars, typed, wireVars>>
       \/ /\ format = "characters" /\ Text!Next
          /\ UNCHANGED <<rowVars, defVars, pathVars, grammarVars, wireVars>>
       \/ /\ format = "wire" /\ Wire!Next
          /\ UNCHANGED <<rowVars, defVars, pathVars, grammarVars, typed>>

FormatsSpec == FormatsInit /\ [][FormatsNext]_allVars

-----------------------------------------------------------------------------
(* The properties of the last two, under their names in their modules.     *)

\* A statement written by the grammar is parsed as it was meant (sql_parser.h:99).
ReadAsMeant == Grammar!ReadAsMeant

\* A text is accepted only if all of it was read (sql_parser.h:99).
NothingPassedOver == Grammar!NothingPassedOver

\* The browser reads the row that the server sent (json.h:118).
AnswerIsRow == Wire!AnswerIsRow

\* The server reads the row that the browser submitted (server_main.cpp:36).
RowIsSubmitted == Wire!RowIsSubmitted

\* A body that was cut off is refused (json.h:90).
CutIsRefused == Wire!CutIsRefused
=============================================================================
