------------------------------ MODULE JsonWire ------------------------------
(***************************************************************************)
(* A row on its way between a table and a window: value_to_json and        *)
(* json_to_value (server_main.cpp) and the bodies of the two directions.   *)
(* A body may end where the connection did (HttpServer).                   *)
(***************************************************************************)
EXTENDS JsonText

CONSTANTS
    Names,           \* the columns' names, as characters
    Types,           \* and their types
    Ints, Reals,     \* numbers <<n, k>>
    Strings,
    ToDouble,        \* the cast of an int64_t
    MaxSent          \* bound on the columns in one submission

VARIABLE meant       \* history: the row that is sent and by whom

vars == <<text, meant>>

Columns == DOMAIN Names
NullValue == <<"null">>
IntValue(x) == <<"int", x>>
RealValue(x) == <<"real", x>>
TextValue(s) == <<"text", s>>

ColumnValues(t) ==
    {NullValue} \cup CASE t = "INT" -> {IntValue(x) : x \in Ints}
                       [] t = "REAL" -> {RealValue(x) : x \in Reals}
                       [] t = "TEXT" -> {TextValue(s) : s \in Strings}

Row == {r \in [Columns -> UNION {ColumnValues(t) : t \in {"INT", "REAL", "TEXT"}}] :
          \A i \in Columns : r[i] \in ColumnValues(Types[i])}

-----------------------------------------------------------------------------
ValueToJson(v) ==
    CASE v[1] = "null" -> Nul
      [] v[1] = "int" -> Number(ToDouble[v[2]])
      [] v[1] = "real" -> Number(v[2])
      [] v[1] = "text" -> String(v[2])

\* static_cast<int64_t>: towards zero.
Truncated(x) ==
    <<IF x[1] < 0 THEN -((-x[1]) \div 10 ^ x[2]) ELSE x[1] \div 10 ^ x[2], 0>>

\* json_to_value, and json_literal_expr with eval_literal after it: a value of
\* another type is 0 or "".
JsonToValue(j, t) ==
    CASE j = Nul -> NullValue
      [] j # Nul /\ t = "INT" -> IntValue(Truncated(AsNumber(j)))
      [] j # Nul /\ t = "REAL" -> RealValue(AsNumber(j))
      [] j # Nul /\ t = "TEXT" -> TextValue(AsString(j))

\* JSON.stringify of the browser: all digits, and letters for two characters more.
BrowserEscapes ==
    [c \in DOMAIN Escapes \cup {Backspace, FormFeed} |->
       CASE c = Backspace -> "b" [] c = FormFeed -> "f" [] OTHER -> Escapes[c]]
Stringify(v) == Write(v, BrowserEscapes, 10 * Precision)

\* GET rows answers with arrays of values in the order of the columns.
Answer ==
    /\ meant.by = "nobody"
    /\ \E r \in Row :
          /\ text' = Dump(Array([i \in Columns |-> ValueToJson(r[i])]))
          /\ meant' = [by |-> "server", row |-> r]

\* The window sends {"values": {column: value}} for some of the columns; a number
\* that it cannot read is null.
ValuesWord == <<"v">>
Scalars == {Nul} \cup {Number(x) : x \in Ints \cup Reals} \cup {String(s) : s \in Strings}

Submissions == UNION {[S -> Scalars] : S \in {S \in SUBSET Columns : Cardinality(S) <= MaxSent}}

Submit ==
    /\ meant.by = "nobody"
    /\ \E js \in Submissions :
          LET order == SetToSortSeq(DOMAIN js, <)
              members == [k \in DOMAIN order |-> <<Names[order[k]], js[order[k]]>>]
          IN  /\ text' = Stringify(Object(<<<<ValuesWord, Object(members)>>>>))
              /\ meant' = [by |-> "window", row |-> js]

\* The connection ends in the middle of the body.
HangUp ==
    /\ meant.by = "window"
    /\ \E n \in 0 .. Len(text) - 1 : text' = SubSeq(text, 1, n)
    /\ meant' = [by |-> "hang-up", row |-> meant.row]

Init == text = <<>> /\ meant = [by |-> "nobody", row |-> <<>>]
Next == Answer \/ Submit \/ HangUp
Spec == Init /\ [][Next]_vars

-----------------------------------------------------------------------------
\* The value that a handler of rows takes from the body for a column, if any.
Values == Find(Parsed.node, ValuesWord)

\* Mutant of Sent: the values are taken in the order of the columns.
SentByPlace(i) ==
    IF i \in DOMAIN Values.obj THEN JsonToValue(Values.obj[i][2], Types[i]) ELSE NullValue

Sent(i) == JsonToValue(Find(Values, Names[i]), Types[i])

Readable == Parsed # Fail

Magnitude(n) == IF n < 0 THEN -n ELSE n

\* What the window reads is the row: texts whatever their characters, integers
\* that are doubles, numbers of up to Precision digits.  (The window reads such a
\* text as JsonText does.)
AnswerIsRow ==
    meant.by = "server" =>
        /\ Readable /\ Len(Parsed.node.arr) = Len(Names)
        /\ \A i \in Columns :
             LET v == meant.row[i]
                 exact == CASE v[1] = "int" -> ToDouble[v[2]] = v[2]
                            [] v[1] = "real" -> Rounded(v[2], Precision) = v[2]
                            [] OTHER -> TRUE
             IN  exact => JsonToValue(Parsed.node.arr[i], Types[i]) = v

\* What is stored is what was sent: a null, a number in a column of numbers (in
\* one of integers, what is left of it towards zero), a text in a column of texts;
\* and 0 or an empty text for a value of another type, so that every value is of
\* its column's type.  The code does not keep this for a backspace or a form feed
\* in a text: it takes their escapes for letters.
RowIsSubmitted ==
    meant.by = "window" =>
        /\ Readable
        /\ \A i \in DOMAIN meant.row :
             LET j == meant.row[i]
                 sent == Sent(i)
             IN  CASE j.type = "NUL" -> sent = NullValue
                   [] j.type = "NUMBER" /\ Types[i] = "REAL" -> sent = RealValue(j.num)
                   [] j.type = "NUMBER" /\ Types[i] = "INT" ->
                        \E n \in -Magnitude(j.num[1]) .. Magnitude(j.num[1]) :
                          /\ sent = IntValue(<<n, 0>>)
                          /\ Magnitude(j.num[1] - n * 10 ^ j.num[2]) < 10 ^ j.num[2]
                          /\ n * j.num[1] >= 0
                   [] j.type = "NUMBER" /\ Types[i] = "TEXT" -> sent = TextValue(<<>>)
                   [] j.type = "STRING" /\ Types[i] = "TEXT" ->
                        Range(j.str) \cap {Backspace, FormFeed} = {} => sent = TextValue(j.str)
                   [] j.type = "STRING" /\ Types[i] = "INT" -> sent = IntValue(<<0, 0>>)
                   [] j.type = "STRING" /\ Types[i] = "REAL" -> sent = RealValue(<<0, 0>>)

\* A body that was cut short is refused, whatever it holds, unless all of it was.
CutIsRefused == meant.by = "hang-up" /\ text # <<>> => ~Readable
=============================================================================
