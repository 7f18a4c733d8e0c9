------------------------------ MODULE SqlLexer ------------------------------
(***************************************************************************)
(* The tokenizer of sql_lexer.h, over the characters of one text.          *)
(***************************************************************************)
EXTENDS Naturals, SequencesExt, FiniteSetsExt, Functions

CONSTANTS
    Letters, Digits, Spaces,   \* isalpha, isdigit, isspace
    Others,                    \* the rest, the signs below among them
    Upper,                     \* toupper, of the characters of a word
    Keywords,                  \* the types of the keywords, by their words
    TooLarge                   \* the runs of digits whose number exceeds an int64_t

Chars == Letters \cup Digits \cup Spaces \cup Others
WordChars == Letters \cup Digits \cup {"_"}

Token(type, text) == [type |-> type, text |-> text]
Fail == <<Token("ERROR", <<>>)>>      \* a thrown exception

Signs == [c \in {"*", ",", "(", ")", ".", ";", "=", "<", ">"} |->
    CASE c = "*" -> "STAR" [] c = "," -> "COMMA" [] c = "(" -> "LPAREN" [] c = ")" -> "RPAREN"
      [] c = "." -> "DOT" [] c = ";" -> "SEMI" [] c = "=" -> "EQ" [] c = "<" -> "LT"
      [] c = ">" -> "GT"]
LongSigns == [p \in {<<"!", "=">>, <<"<", "=">>, <<">", "=">>, <<"<", ">">>} |->
    CASE p = <<"<", "=">> -> "LE" [] p = <<">", "=">> -> "GE"
      [] p[1] = "!" \/ p[2] = ">" -> "NEQ"]

\* The classes of characters are apart from each other and from the signs, and no
\* word is a keyword for a literal.
CharAssumption ==
    /\ \A c \in DOMAIN Signs \cup {"!", "'", "\\", "_"} : c \notin Letters \cup Digits \cup Spaces
    /\ Letters \cap Digits = {} /\ Spaces \cap (Letters \cup Digits) = {} /\ Spaces # {}
    /\ \A word \in DOMAIN Keywords : Keywords[word] # "STRING"

\* The end of the run of characters of a class that starts at i.
EndOf(text, i, class) ==
    Min({j \in i .. Len(text) + 1 : j = Len(text) + 1 \/ text[j] \notin class})

\* What stod reads of a number with points ends before the second of them; stoll
\* throws when an integer does not fit.
NumberToken(text) ==
    LET points == {k \in DOMAIN text : text[k] = "."}
    IN  CASE points = {} /\ text \notin TooLarge -> Token("INT_NUMBER", text)
          [] points = {} /\ text \in TooLarge -> Fail[1]
          [] Cardinality(points) = 1 -> Token("REAL_NUMBER", text)
          [] OTHER -> Token("REAL_NUMBER", SubSeq(text, 1, Min(points \ {Min(points)}) - 1))

\* Mutant of Quoted: a backslash is a character like any other.
QuotedPlain(text, i) ==
    LET ends == {j \in i .. Len(text) : text[j] = "'"}
    IN  IF ends = {} THEN [val |-> <<>>, end |-> 0]
        ELSE [val |-> SubSeq(text, i, Min(ends) - 1), end |-> Min(ends)]

\* The content of a literal from i on, its quote not read yet, and the position
\* of the quote that ends it; an escape is any character after a backslash.
Quoted(text, i) ==
    LET n == Len(text)
        from[j \in i .. n + 1] ==
          IF j = n + 1 THEN [val |-> <<>>, end |-> 0]
          ELSE IF text[j] = "'" THEN [val |-> <<>>, end |-> j]
          ELSE LET k == IF text[j] = "\\" /\ j + 1 <= n THEN j + 1 ELSE j
                   rest == from[k + 1]
               IN  [rest EXCEPT !.val = <<text[k]>> \o @]
    IN  from[i]

WordToken(word) ==
    LET up == [k \in DOMAIN word |-> Upper[word[k]]]
    IN  IF up \in DOMAIN Keywords THEN Token(Keywords[up], word) ELSE Token("IDENT", word)

\* The token at i, a character that is not a space, and the position after it.
TokenAt(text, i) ==
    LET c == text[i]
        quoted == Quoted(text, i + 1)
        number == EndOf(text, i, Digits \cup {"."})
        word == EndOf(text, i, WordChars)
        pair == SubSeq(text, i, Min({i + 1, Len(text)}))
        At(token, next) == [token |-> token, next |-> next]
        error == At(Fail[1], Len(text) + 1)
    IN  CASE c = "'" -> IF quoted.end = 0 THEN error
                        ELSE At(Token("STRING", quoted.val), quoted.end + 1)
          [] c \in Digits -> At(NumberToken(SubSeq(text, i, number - 1)), number)
          [] c \in Letters \cup {"_"} -> At(WordToken(SubSeq(text, i, word - 1)), word)
          [] pair \in DOMAIN LongSigns -> At(Token(LongSigns[pair], pair), i + 2)
          [] pair \notin DOMAIN LongSigns /\ c \in DOMAIN Signs ->
               At(Token(Signs[c], <<c>>), i + 1)
          [] OTHER -> error

\* The tokens of a text, or Fail.
Tokens(text) ==
    LET from[i \in 1 .. Len(text) + 1] ==
          IF i = Len(text) + 1 THEN <<>>
          ELSE IF text[i] \in Spaces THEN from[i + 1]
          ELSE LET t == TokenAt(text, i)
                   rest == from[t.next]
               IN  IF Fail[1] \in {t.token} \cup Range(rest) THEN Fail
                   ELSE <<t.token>> \o rest
    IN  from[1]
=============================================================================
