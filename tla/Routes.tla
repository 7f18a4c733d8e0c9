------------------------------- MODULE Routes -------------------------------
(* The path of a request, from the web app that builds it (app.js) through  *)
(* url_decode, split_path and match (http.h) to one of the handlers that    *)
(* server_main.cpp registers.  A path is a sequence of tokens: Slash is the *)
(* character that separates segments, EscapedSlash its encoding, and every  *)
(* other token stands for text without one.                                 *)
EXTENDS Naturals, Sequences, FiniteSetsExt, Functions

CONSTANTS
    Slash, EscapedSlash,
    Api, Tables, Rows,   \* the fixed segments of the requests below
    Schema, ExportJson, ExportMd, Query,  \* and of the other routes
    Param,               \* a segment such as ":name" in a pattern
    Names,               \* the table names: sequences of tokens
    Ids                  \* the row ids: tokens

\* The tokens of the patterns are no others', and no token of a name is an escape:
\* encodeURIComponent escapes the sign that begins one.
RouteAssumption ==
    /\ Slash \notin {EscapedSlash, Api, Tables, Rows, Param}
    /\ EscapedSlash \notin {Api, Tables, Rows}
    /\ Param \notin {Api, Tables, Rows}
    /\ \A name \in Names : name \in Seq(Range(name)) /\ EscapedSlash \notin Range(name)
    /\ {Slash, EscapedSlash} \cap Ids = {}

VARIABLES request, outcome
vars == <<request, outcome>>

\* What app.js asks for: the rows of a table, a new row, the end of a table, an
\* edit or the end of one row.
Requests ==
    [op : {"list", "add", "drop"}, name : Names, id : {0}]
        \cup [op : {"edit", "del"}, name : Names, id : Ids]

NotFound == [op |-> "not found", params |-> <<>>]
NoRequest == [op |-> "none", name |-> <<>>, id |-> 0]

-----------------------------------------------------------------------------
\* encodeURIComponent leaves no slash in a name.
Encode(name) == [i \in DOMAIN name |-> IF name[i] = Slash THEN EscapedSlash ELSE name[i]]

Decode(path) == [i \in DOMAIN path |-> IF path[i] = EscapedSlash THEN Slash ELSE path[i]]

Method(r) == CASE r.op = "list" -> "GET"
               [] r.op = "add" -> "POST"
               [] r.op = "edit" -> "PATCH"
               [] r.op \in {"del", "drop"} -> "DELETE"

\* The addresses that app.js puts together.
Path(r) ==
    LET table == <<Slash, Api, Slash, Tables, Slash>> \o Encode(r.name)
    IN  CASE r.op = "drop" -> table
          [] r.op \in {"list", "add"} -> table \o <<Slash, Rows>>
          [] r.op \in {"edit", "del"} -> table \o <<Slash, Rows, Slash, r.id>>

\* The pieces between slashes that are not empty: those found, and the current one.
Found(at) == IF at.cur # <<>> THEN Append(at.out, at.cur) ELSE at.out

SplitPath(path) ==
    LET after[i \in 0 .. Len(path)] ==
          CASE i = 0 -> [out |-> <<>>, cur |-> <<>>]
            [] i > 0 /\ path[i] = Slash -> [out |-> Found(after[i - 1]), cur |-> <<>>]
            [] OTHER -> [out |-> after[i - 1].out, cur |-> Append(after[i - 1].cur, path[i])]
    IN  Found(after[Len(path)])

\* Mutant: the pattern need only match the beginning of the path.
MatchPrefix(pattern, segments) ==
    /\ Len(pattern) <= Len(segments)
    /\ \A i \in DOMAIN pattern : pattern[i] = <<Param>> \/ pattern[i] = segments[i]

Match(pattern, segments) ==
    /\ Len(pattern) = Len(segments)
    /\ \A i \in DOMAIN pattern : pattern[i] = <<Param>> \/ pattern[i] = segments[i]

\* By their places in the pattern.
ParamsOf(pattern, segments) ==
    [i \in {i \in DOMAIN pattern : pattern[i] = <<Param>>} |-> segments[i]]

Table == <<<<Api>>, <<Tables>>, <<Param>>>>
TableRows == Append(Table, <<Rows>>)
OneRow == Append(TableRows, <<Param>>)

\* In the order in which main registers them.
RouteList ==
    << [method |-> "GET", pattern |-> <<<<Api>>, <<Tables>>>>, op |-> "tables"],
       [method |-> "GET", pattern |-> <<<<Api>>, <<Schema>>>>, op |-> "schema"],
       [method |-> "GET", pattern |-> <<<<Api>>, <<ExportJson>>>>, op |-> "export"],
       [method |-> "GET", pattern |-> <<<<Api>>, <<ExportMd>>>>, op |-> "export"],
       [method |-> "POST", pattern |-> <<<<Api>>, <<Tables>>>>, op |-> "create"],
       [method |-> "DELETE", pattern |-> Table, op |-> "drop"],
       [method |-> "GET", pattern |-> TableRows, op |-> "list"],
       [method |-> "POST", pattern |-> TableRows, op |-> "add"],
       [method |-> "PATCH", pattern |-> OneRow, op |-> "edit"],
       [method |-> "DELETE", pattern |-> OneRow, op |-> "del"],
       [method |-> "POST", pattern |-> <<<<Api>>, <<Query>>>>, op |-> "query"] >>

Matching(r) ==
    {i \in DOMAIN RouteList :
        /\ RouteList[i].method = Method(r)
        /\ Match(RouteList[i].pattern, SplitPath(Decode(Path(r))))}

\* The first route that matches; a GET that matches none may still be a file.
Dispatch(r) ==
    IF Matching(r) = {}
    THEN NotFound
    ELSE LET route == RouteList[Min(Matching(r))]
         IN  [op |-> route.op,
              params |-> ParamsOf(route.pattern, SplitPath(Decode(Path(r))))]

-----------------------------------------------------------------------------
Init == request = NoRequest /\ outcome = NotFound

Serve ==
    /\ request = NoRequest
    /\ \E r \in Requests : request' = r /\ outcome' = Dispatch(r)

Close ==
    /\ request # NoRequest
    /\ request' = NoRequest /\ outcome' = NotFound

Next == Serve \/ Close

Spec == Init /\ [][Next]_vars

-----------------------------------------------------------------------------
\* What the request was meant to do, and to what.
Meant(r) ==
    [op |-> r.op,
     params |-> [i \in IF r.op \in {"edit", "del"} THEN {3, 5} ELSE {3} |->
                   IF i = 3 THEN r.name ELSE <<r.id>>]]

\* A name that is one segment of a path.  (The names "." and ".." are not among
\* Names: fetch takes such a segment out of the path before it sends it.)
Plain(name) == name # <<>> /\ \A i \in DOMAIN name : name[i] # Slash

\* For a table whose name is not empty and has no slash, every button of the web
\* app reaches the handler it is meant for, with that table and that row: a table
\* called "rows" or "tables" included (http.h:114, match; http.h:229, dispatch).
RequestsReachTheirHandler ==
    Plain(request.name) => outcome = Meant(request)
=============================================================================
