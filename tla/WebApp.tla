------------------------------- MODULE WebApp -------------------------------
(* web/app.js in one window, with the REST handlers it talks to.  A handler *)
(* of the window runs up to an await; what follows the await runs when the  *)
(* answer is there, on the page as it is then.  Between the two the user    *)
(* may do anything, and requests may overtake each other unless InOrder.    *)
(* Left out: cell values, types and wording; a table has its columns that   *)
(* are foreign keys, and a row is its id.                                   *)
EXTENDS Naturals, Sequences, SequencesExt

CONSTANTS
    Tables,      \* table names
    FkTo,        \* per table, the tables its foreign key columns refer to
    MaxGen,      \* how often one name may be created
    MaxRowid,    \* row ids per table
    MaxCalls,    \* requests a user has under way at once
    Patient,     \* the user waits until nothing is under way
    InOrder,     \* requests are served and answered in the order sent
    None

ASSUME ColumnsAssumption ==
    /\ FkTo \in [Tables -> Seq(Tables)]
    /\ None \notin Tables

ASSUME BoundAssumption == MaxGen \in Nat

VARIABLES
    world,        \* on the server, per table: present, gen, rows and next
    schema,       \* the cached table names
    activeTable,
    page,         \* what #content shows: kind, table, rows, and add, the table
                  \* to which #btn-add-row is bound
    calls         \* the requests under way, in the order sent

vars == <<world, schema, activeTable, page, calls>>

Ids == 1 .. MaxRowid
Pages == {"start", "grid", "deleted", "designer", "report", "sql"}
Pending == [done |-> FALSE, ok |-> FALSE, data |-> {}]
Failed == [done |-> TRUE, ok |-> FALSE, data |-> {}]
Answer(data) == [done |-> TRUE, ok |-> TRUE, data |-> data]

\* A request, and in `for' and `col' what the code after its await refers to.
Call(req, t, for, col, id) ==
    [req |-> req, table |-> t, for |-> for, col |-> col, id |-> id, reply |-> Pending]

Showing(kind) == [kind |-> kind, table |-> None, rows |-> {}, add |-> None]

Present == {t \in Tables : world[t].present}

Init ==
    /\ world = [t \in Tables |-> [present |-> FALSE, gen |-> 0, rows |-> {}, next |-> 1]]
    /\ schema = {}
    /\ activeTable = None
    /\ page = Showing("start")
    /\ calls = <<Call("tables", None, None, 0, 0)>>

-----------------------------------------------------------------------------
(* The server: server_main.cpp, one request at a time.  Any request that    *)
(* changes something may also be refused, by a constraint or a limit.       *)

CreatedIn(t) == [present |-> TRUE, gen |-> world[t].gen + 1, rows |-> {}, next |-> 1]
\* Mutant: the rows of a dropped table can still be read.
DropKeepsRows(t) == [world[t] EXCEPT !.present = FALSE]

DroppedIn(t) == [world[t] EXCEPT !.present = FALSE, !.rows = {}]
AddedIn(t) == [world[t] EXCEPT !.rows = @ \cup {world[t].next}, !.next = @ + 1]
DeletedIn(t, id) == [world[t] EXCEPT !.rows = @ \ {id}]

CanCreate(t) == ~world[t].present /\ world[t].gen < MaxGen
CanAdd(t) == world[t].present /\ world[t].next <= MaxRowid
Has(t, id) == world[t].present /\ id \in world[t].rows

If(guard, outcomes) == IF guard THEN outcomes ELSE {}

\* A statement about table t succeeds, or fails and, if it is an INSERT of several
\* rows, keeps those before the one refused.
Statement(t) ==
    LET Rows == {world[t]} \cup If(CanAdd(t), {AddedIn(t)})
                 \cup {DeletedIn(t, id) : id \in world[t].rows}
        Definitions == If(CanCreate(t), {CreatedIn(t)})
                        \cup If(world[t].present, {DroppedIn(t)})
    IN  {<<w, Answer({})>> : w \in Rows \cup Definitions}
            \cup {<<w, Failed>> : w \in Rows}

\* What the server may do with a request: the table of it after, and the answer.
Outcomes(c) ==
    LET t == c.table
        Refusal == {<<world[t], Failed>>}
        Ok(w) == {<<w, Answer({})>>}
    IN  CASE c.req = "rows" ->
                IF world[t].present THEN {<<world[t], Answer(world[t].rows)>>} ELSE Refusal
          [] c.req = "create" -> Refusal \cup If(CanCreate(t), Ok(CreatedIn(t)))
          [] c.req = "drop" -> IF world[t].present THEN Ok(DroppedIn(t)) ELSE Refusal
          [] c.req = "add" -> Refusal \cup If(CanAdd(t), Ok(AddedIn(t)))
          [] c.req = "edit" -> Refusal \cup If(Has(t, c.id), Ok(world[t]))
          [] c.req = "delete" -> IF Has(t, c.id) THEN Ok(DeletedIn(t, c.id)) ELSE Refusal
          [] c.req = "sql" -> Statement(t)

Serve ==
    \E i \in DOMAIN calls :
        /\ ~calls[i].reply.done /\ (InOrder => i = 1)
        /\ \/ /\ calls[i].req \in {"tables", "report"}
              /\ calls' = [calls EXCEPT ![i].reply = Answer(Present)]
              /\ UNCHANGED world
           \/ /\ calls[i].req \notin {"tables", "report"}
              /\ \E o \in Outcomes(calls[i]) :
                    /\ world' = [world EXCEPT ![calls[i].table] = o[1]]
                    /\ calls' = [calls EXCEPT ![i].reply = o[2]]
        /\ UNCHANGED <<schema, activeTable, page>>

-----------------------------------------------------------------------------
(* What follows each await.  rest: the other requests under way.            *)

FetchTables(select) == Call("tables", None, select, 0, 0)

\* def is undefined for a table that the cached schema does not list.
FetchGrid(t, known) == Call("rows", t, IF t \in known THEN t ELSE None, 0, 0)

FetchOptions(t, n) == Call("rows", FkTo[t][n], t, n, 0)

\* selectTable up to its await.
Select(t, known, rest) ==
    /\ activeTable' = t
    /\ calls' = Append(rest, FetchGrid(t, known))

SidebarArrives(c, rest) ==
    /\ c.req = "tables"
    /\ schema' = c.reply.data
    /\ IF c.for = None
       THEN calls' = rest /\ UNCHANGED activeTable
       ELSE Select(c.for, c.reply.data, rest)
    /\ UNCHANGED page

\* Mutant: the button refers to the selected table, not to the one drawn.
GridBindsActive(c, rest) ==
    /\ c.req = "rows" /\ c.col = 0 /\ c.reply.ok /\ c.for # None
    /\ page' = [kind |-> "grid", table |-> c.for, rows |-> c.reply.data,
                add |-> IF FkTo[c.for] # <<>> THEN None ELSE activeTable]
    /\ calls' = IF FkTo[c.for] # <<>> THEN Append(rest, FetchOptions(c.for, 1)) ELSE rest
    /\ UNCHANGED <<schema, activeTable>>

\* renderGrid draws the rows and binds all buttons but one; a list of options
\* is fetched for each foreign key before that one, #btn-add-row, is bound.
GridArrives(c, rest) ==
    /\ c.req = "rows" /\ c.col = 0 /\ c.reply.ok /\ c.for # None
    /\ LET t == c.for
           waits == FkTo[t] # <<>>
       IN  /\ page' = [kind |-> "grid", table |-> t, rows |-> c.reply.data,
                       add |-> IF waits THEN None ELSE t]
           /\ calls' = IF waits THEN Append(rest, FetchOptions(t, 1)) ELSE rest
    /\ UNCHANGED <<schema, activeTable>>

\* selectTable does not catch what api throws: the page stays as it is.
GridFails(c, rest) ==
    /\ c.req = "rows" /\ c.col = 0 /\ (~c.reply.ok \/ c.for = None)
    /\ calls' = rest
    /\ UNCHANGED <<schema, activeTable, page>>

\* The button is looked up in whatever #content shows by now; there is none on
\* a page that is no grid.
OptionsArrive(c, rest) ==
    /\ c.req = "rows" /\ c.col > 0
    /\ LET last == c.col = Len(FkTo[c.for])
       IN  /\ calls' = IF last THEN rest ELSE Append(rest, FetchOptions(c.for, c.col + 1))
           /\ page' = IF last /\ page.kind = "grid" THEN [page EXCEPT !.add = c.for] ELSE page
    /\ UNCHANGED <<schema, activeTable>>

\* Mutant: the grid is left as it is after a row was added.
DoneInPlace(c, rest) ==
    /\ c.req \in {"add", "delete"} /\ c.reply.ok
    /\ calls' = rest
    /\ UNCHANGED <<schema, activeTable, page>>

RowsChanged(c, rest) ==
    /\ c.req \in {"add", "delete"} /\ c.reply.ok
    /\ Select(c.table, schema, rest)
    /\ UNCHANGED <<schema, page>>

\* Mutant: a refused edit is sent again.
EditRetried(c, rest) ==
    /\ c.req = "edit"
    /\ calls' = IF c.reply.ok THEN rest ELSE Append(rest, [c EXCEPT !.reply = Pending])
    /\ UNCHANGED <<schema, activeTable, page>>

\* An edited cell already shows its new value; a refused one is drawn again.
EditReturns(c, rest) ==
    /\ c.req = "edit"
    /\ IF c.reply.ok
       THEN calls' = rest /\ UNCHANGED activeTable
       ELSE Select(c.table, schema, rest)
    /\ UNCHANGED <<schema, page>>

TableDropped(c, rest) ==
    /\ c.req = "drop" /\ c.reply.ok
    /\ activeTable' = None
    /\ page' = Showing("deleted")
    /\ calls' = Append(rest, FetchTables(None))
    /\ UNCHANGED schema

\* The designer shows the new table; the result of a statement may have changed
\* the list of tables.
TablesChanged(c, rest) ==
    /\ c.req \in {"create", "sql"} /\ c.reply.ok
    /\ calls' = Append(rest, FetchTables(IF c.req = "create" THEN c.table ELSE None))
    /\ UNCHANGED <<schema, activeTable, page>>

\* An error banner on whatever page there is.
Refused(c, rest) ==
    /\ c.req \in {"add", "delete", "drop", "create", "sql"} /\ ~c.reply.ok
    /\ calls' = rest
    /\ UNCHANGED <<schema, activeTable, page>>

ReportArrives(c, rest) ==
    /\ c.req = "report"
    /\ page' = Showing("report")
    /\ calls' = rest
    /\ UNCHANGED <<schema, activeTable>>

Resume ==
    \E i \in DOMAIN calls :
        LET c == calls[i]
            rest == RemoveAt(calls, i)
        IN  /\ c.reply.done /\ (InOrder => i = 1)
            /\ \/ SidebarArrives(c, rest) \/ GridArrives(c, rest) \/ GridFails(c, rest)
               \/ OptionsArrive(c, rest) \/ RowsChanged(c, rest) \/ EditReturns(c, rest)
               \/ TableDropped(c, rest) \/ TablesChanged(c, rest) \/ Refused(c, rest)
               \/ ReportArrives(c, rest)
            /\ UNCHANGED world

-----------------------------------------------------------------------------
(* The user.                                                                *)

MayAct == IF Patient THEN calls = <<>> ELSE Len(calls) < MaxCalls

Request(req, t, id) == calls' = Append(calls, Call(req, t, t, 0, id))

ClickTable ==
    /\ MayAct
    /\ \E t \in schema : Select(t, schema, calls)
    /\ UNCHANGED <<world, schema, page>>

\* "New table" and "Advanced SQL" are drawn at once.
OpenPage ==
    /\ MayAct
    /\ activeTable' = None
    /\ \E kind \in {"designer", "sql"} : page' = Showing(kind)
    /\ UNCHANGED <<world, schema, calls>>

\* The schema and the export are drawn when they arrive, the export with an empty
\* page until then.
OpenReport ==
    /\ MayAct
    /\ activeTable' = None
    /\ page' \in {page, Showing("report")}
    /\ Request("report", None, 0)
    /\ UNCHANGED <<world, schema>>

\* The handlers of the grid's rows and of its "Delete table" button refer to the
\* definition the grid was drawn from.
UseGrid ==
    /\ MayAct /\ page.kind = "grid"
    /\ \/ Request("drop", page.table, 0)
       \/ \E id \in page.rows, req \in {"edit", "delete"} : Request(req, page.table, id)
    /\ UNCHANGED <<world, schema, activeTable, page>>

\* The form was built for, and the button is bound to, the table page.add.
AddRow ==
    /\ MayAct /\ page.kind = "grid" /\ page.add # None
    /\ Request("add", page.add, 0)
    /\ UNCHANGED <<world, schema, activeTable, page>>

SubmitPage ==
    /\ MayAct
    /\ \E t \in Tables :
          \/ page.kind = "designer" /\ Request("create", t, 0)
          \/ page.kind = "sql" /\ Request("sql", t, 0)
    /\ UNCHANGED <<world, schema, activeTable, page>>

Next ==
    \/ Serve \/ Resume
    \/ ClickTable \/ OpenPage \/ OpenReport \/ UseGrid \/ AddRow \/ SubmitPage

\* The browser runs what is ready and the server answers what it is sent
\* (HttpServer); nothing makes the user act.
Spec == Init /\ [][Next]_vars /\ WF_vars(Serve) /\ WF_vars(Resume)

-----------------------------------------------------------------------------
TypeOK ==
    /\ \A t \in Tables :
          /\ world[t].gen \in 0 .. MaxGen
          /\ world[t].rows \subseteq 1 .. (world[t].next - 1)
          /\ ~world[t].present => world[t].rows = {}
    /\ schema \subseteq Tables
    /\ activeTable \in Tables \cup {None}
    /\ page.kind \in Pages
    /\ page.kind # "grid" => page = Showing(page.kind)
    /\ \A i \in DOMAIN calls : calls[i].reply.ok => calls[i].reply.done

\* When nothing is under way, a window that is alone with the server shows what
\* the server has: the sidebar lists the tables, the selected table is the one
\* drawn, with its rows, and every button is bound to it (app.js:56, selectTable,
\* and every handler that ends in it or in refreshSidebar).
QuietWindowIsCurrent ==
    calls = <<>> =>
        /\ schema = Present
        /\ IF page.kind = "grid"
           THEN /\ page.table \in Present /\ page.rows = world[page.table].rows
                /\ activeTable = page.table /\ page.add = page.table
           ELSE activeTable = None

\* Whatever the user starts comes to an end: no answer sets off requests for ever
\* (app.js:35, refreshSidebar; app.js:56, selectTable).
ComesToRest == []<>(calls = <<>>)

\* "Add row" adds to the table whose rows are shown above it (app.js:177).
AddGoesToShownTable == page.kind = "grid" /\ page.add # None => page.add = page.table
=============================================================================
