------------------------------ MODULE JsonText ------------------------------
(***************************************************************************)
(* The values of json.h, their text and the parser of a text, character by *)
(* character.  A number <<n, k>> is n / 10^k, with no zero to spare; the   *)
(* notation with an exponent is left out.                                  *)
(***************************************************************************)
EXTENDS Parsing, Integers, SequencesExt, FiniteSetsExt

CONSTANTS
    Ascii,         \* the characters 0 .. 127, by code
    Newline, Return, Tab, Backspace, FormFeed,
    Precision      \* significant digits of a double in a text: 6

VARIABLE text      \* JsonParser::s_

Nul == [type |-> "NUL"]
Boolean(b) == [type |-> "BOOL", b |-> b]
Number(x) == [type |-> "NUMBER", num |-> x]
String(s) == [type |-> "STRING", str |-> s]
Array(vs) == [type |-> "ARRAY", arr |-> vs]
Object(ms) == [type |-> "OBJECT", obj |-> ms]     \* members <<key, value>>

AsNumber(v) == IF v.type = "NUMBER" THEN v.num ELSE <<0, 0>>
AsString(v) == IF v.type = "STRING" THEN v.str ELSE <<>>

Found(v, key) == v.type = "OBJECT" /\ \E k \in DOMAIN v.obj : v.obj[k][1] = key
Find(v, key) == v.obj[CHOOSE k \in DOMAIN v.obj : v.obj[k][1] = key][2]

\* JsonValue::set: of two members of one name the value of the later.
SetMember(obj, m) ==
    IF \E k \in DOMAIN obj : obj[k][1] = m[1]
    THEN [k \in DOMAIN obj |-> IF obj[k][1] = m[1] THEN m ELSE obj[k]]
    ELSE Append(obj, m)

-----------------------------------------------------------------------------
Digits == <<"0", "1", "2", "3", "4", "5", "6", "7", "8", "9">>
HexDigits == Digits \o <<"a", "b", "c", "d", "e", "f">>
DigitOf(c) == (CHOOSE k \in DOMAIN HexDigits : HexDigits[k] = c) - 1

Canonical[n \in Int, k \in Nat] ==
    IF k > 0 /\ n % 10 = 0 THEN Canonical[n \div 10, k - 1] ELSE <<n, k>>

ValueOf(digits, base) == FoldLeft(LAMBDA acc, c : base * acc + DigitOf(c), 0, digits)

DigitsOf[n \in Nat] ==
    (IF n < 10 THEN <<>> ELSE DigitsOf[n \div 10]) \o <<Digits[(n % 10) + 1]>>

\* A number in full; with a digit before the point.
NumText(x) ==
    LET n == IF x[1] < 0 THEN -x[1] ELSE x[1]
        ds == DigitsOf[n]
        padded == [k \in 1 .. Max({0, x[2] + 1 - Len(ds)}) |-> "0"] \o ds
        point == Len(padded) - x[2]
    IN  (IF x[1] < 0 THEN <<"-">> ELSE <<>>) \o SubSeq(padded, 1, point)
        \o (IF x[2] = 0 THEN <<>> ELSE <<".">> \o SubSeq(padded, point + 1, Len(padded)))

\* os << num: a number that is no integer, to so many digits.
Rounded(x, digits) ==
    LET n == IF x[1] < 0 THEN -x[1] ELSE x[1]
        drop == Max({0, Len(DigitsOf[n]) - digits})
        m == (2 * n + 10 ^ drop) \div (2 * 10 ^ drop)
    IN  IF x[2] = 0 \/ drop = 0 THEN x
        ELSE Canonical[IF x[1] < 0 THEN -m ELSE m, x[2] - drop]

\* escape_into: a control character without a letter of its own is \u00xx.
Escapes == [c \in {"\"", "\\", Newline, Return, Tab} |->
    CASE c = Newline -> "n" [] c = Return -> "r" [] c = Tab -> "t" [] OTHER -> c]

\* Mutant of Escaped: a backslash is written as it is.
EscapedLess(s, letters) ==
    FlattenSeq([k \in DOMAIN s |->
      IF s[k] \in DOMAIN letters \ {"\\"} THEN <<"\\", letters[s[k]]>> ELSE <<s[k]>>])

Escaped(s, letters) ==
    FlattenSeq([k \in DOMAIN s |->
      IF s[k] \in DOMAIN letters THEN <<"\\", letters[s[k]]>>
      ELSE LET codes == {i \in 0 .. 31 : Ascii[i] = s[k]}
           IN  IF codes = {} THEN <<s[k]>>
               ELSE <<"\\", "u", "0", "0", Digits[(Min(codes) \div 16) + 1],
                      HexDigits[(Min(codes) % 16) + 1]>>])

Quoted(s, letters) == <<"\"">> \o Escaped(s, letters) \o <<"\"">>

InCommas(open, xs, close) ==
    <<open>> \o FlattenSeq([k \in DOMAIN xs |-> IF k = 1 THEN xs[k] ELSE <<",">> \o xs[k]])
    \o <<close>>

NullWord == <<"n", "u", "l", "l">>
TrueWord == <<"t", "r", "u", "e">>
FalseWord == <<"f", "a", "l", "s", "e">>

\* dump_to: a value as text, with these escapes and digits of a number.
RECURSIVE Write(_, _, _)
Write(v, letters, digits) ==
    CASE v.type = "NUL" -> NullWord
      [] v.type = "BOOL" -> IF v.b THEN TrueWord ELSE FalseWord
      [] v.type = "NUMBER" -> NumText(Rounded(v.num, digits))
      [] v.type = "STRING" -> Quoted(v.str, letters)
      [] v.type = "ARRAY" ->
           InCommas("[", [k \in DOMAIN v.arr |-> Write(v.arr[k], letters, digits)], "]")
      [] v.type = "OBJECT" ->
           InCommas("{", [k \in DOMAIN v.obj |->
                       Quoted(v.obj[k][1], letters) \o <<":">> \o Write(v.obj[k][2], letters, digits)],
                    "}")

Dump(v) == Write(v, Escapes, Precision)

-----------------------------------------------------------------------------
Spaces == {" ", Newline, Return, Tab, FormFeed}
Positions == 1 .. Len(text) + 1
End == Len(text) + 1
Peek(i) == IF i < End THEN text[i] ELSE "end"
SkipWs(i) == Min({j \in i .. End : j = End \/ text[j] \notin Spaces})

ExpectLit(word, v, i) ==
    IF i + Len(word) <= End /\ SubSeq(text, i, i + Len(word) - 1) = word
    THEN Ok(v, i + Len(word)) ELSE Fail

\* The escape whose letter is at j.  stoi reads the hexadecimal digits there are.
EscapeAt(j) ==
    LET code == SubSeq(text, j + 1, j + 4)
        hex == SubSeq(code, 1, Min({k \in 0 .. 4 : k = 4 \/ code[k + 1] \notin Range(HexDigits)}))
    IN  CASE text[j] \in {"n", "r", "t"} ->
               Ok(<<CHOOSE c \in DOMAIN Escapes : Escapes[c] = text[j]>>, j + 1)
          [] text[j] = "u" /\ j + 4 >= End -> Ok(<<>>, j + 1)
          [] text[j] = "u" /\ j + 4 < End ->
               IF hex = <<>> THEN Fail
               ELSE Ok(<<IF ValueOf(hex, 16) < 128 THEN Ascii[ValueOf(hex, 16)] ELSE "?">>, j + 5)
          [] OTHER -> Ok(<<text[j]>>, j + 1)

StringAt(i) ==
    LET from[j \in Positions] ==
          CASE j = End -> Fail
            [] Peek(j) = "\"" -> Ok(<<>>, j + 1)
            [] OTHER ->
                 Then(IF text[j] = "\\" /\ j + 1 < End THEN EscapeAt(j + 1)
                      ELSE Ok(<<text[j]>>, j + 1), LAMBDA c, m :
                   Then(from[m], LAMBDA cs, e : Ok(c \o cs, e)))
    IN  IF Peek(i) # "\"" THEN Fail ELSE from[i + 1]

\* The characters of a number, of which stod reads a beginning.
NumberAt(i) ==
    LET Class == Range(Digits) \cup {".", "+", "-"}
        end == Min({j \in i .. End : j = End \/ text[j] \notin Class})
        run == SubSeq(text, i, end - 1)
        sign == IF run # <<>> /\ run[1] \in {"+", "-"} THEN 1 ELSE 0
        Prefix(k) == SubSeq(run, sign + 1, k)
        Points(k) == Len(SelectSeq(Prefix(k), LAMBDA c : c = "."))
        read == Max({k \in sign .. Len(run) :
                       Points(k) <= 1 /\ \A c \in Range(Prefix(k)) : c \notin {"+", "-"}})
        digits == SelectSeq(Prefix(read), LAMBDA c : c # ".")
        k == IF Points(read) = 0 THEN 0 ELSE Len(Prefix(read)) - Min({j \in DOMAIN Prefix(read) : Prefix(read)[j] = "."})
        n == ValueOf(digits, 10)
    IN  IF digits = <<>> THEN Fail
        ELSE Ok(Number(Canonical[IF run[1] = "-" THEN -n ELSE n, k]), end)

\* Mutant of Closing: the end of the text closes a list as well.
ClosingOrEnd(close, i) ==
    IF Peek(i) \in {close, "end"} THEN Ok(<<>>, Min({End, i + 1})) ELSE Fail

Closing(close, i) == IF Peek(i) = close THEN Ok(<<>>, i + 1) ELSE Fail

\* The elements up to a closing bracket.
Items(P(_), close, j) ==
    LET from[k \in Positions] ==
          Then(P(k), LAMBDA x, n :
            IF Peek(SkipWs(n)) = "," THEN Then(from[SkipWs(n) + 1], LAMBDA xs, e : Ok(<<x>> \o xs, e))
            ELSE Then(Closing(close, SkipWs(n)), LAMBDA none, e : Ok(<<x>>, e)))
        empty == Closing(close, SkipWs(j))
    IN  IF empty # Fail THEN empty ELSE from[j]

\* parse_value.
ValueAt[start \in Positions] ==
    LET i == SkipWs(start)
        Element(k) == ValueAt[k]
        Member(k) == Then(StringAt(SkipWs(k)), LAMBDA key, n :
                       IF Peek(SkipWs(n)) # ":" THEN Fail
                       ELSE Then(ValueAt[SkipWs(n) + 1], LAMBDA v, e : Ok(<<key, v>>, e)))
    IN  CASE Peek(i) = "{" -> Then(Items(Member, "}", i + 1), LAMBDA ms, e :
                                Ok(Object(FoldLeft(SetMember, <<>>, ms)), e))
          [] Peek(i) = "[" -> Then(Items(Element, "]", i + 1), LAMBDA vs, e : Ok(Array(vs), e))
          [] Peek(i) = "\"" -> Then(StringAt(i), LAMBDA s, e : Ok(String(s), e))
          [] Peek(i) = "t" -> ExpectLit(TrueWord, Boolean(TRUE), i)
          [] Peek(i) = "f" -> ExpectLit(FalseWord, Boolean(FALSE), i)
          [] Peek(i) = "n" -> ExpectLit(NullWord, Nul, i)
          [] OTHER -> NumberAt(i)

\* HttpRequest::json and parse_json: no body is an empty object, a blank one null;
\* what follows the value is not read.
Parsed ==
    IF text = <<>> THEN Ok(Object(<<>>), 1)
    ELSE IF SkipWs(1) = End THEN Ok(Nul, End) ELSE ValueAt[1]
=============================================================================
