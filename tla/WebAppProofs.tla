---------------------------- MODULE WebAppProofs ----------------------------
(***************************************************************************)
(* The safety of one window, for any tables, any foreign keys, any number  *)
(* of requests under way and answers in any order.                         *)
(***************************************************************************)
EXTENDS MCWebApp, SequenceTheorems, TLAPS

Named == Tables \cup {None}

States == [present : BOOLEAN, gen : 0 .. MaxGen, rows : SUBSET Nat,
           next : Nat \ {0}]

StateOk(w) ==
    /\ w \in States
    /\ w.rows \subseteq 1 .. (w.next - 1)
    /\ ~w.present => w.rows = {}

Reqs == {"tables", "rows", "report", "create", "drop", "add", "edit", "delete", "sql"}
Replies == [done : BOOLEAN, ok : BOOLEAN, data : SUBSET (Nat \cup Tables)]
Calls == [req : Reqs, table : Named, for : Named, col : Nat, id : Nat, reply : Replies]

\* The requests that the window makes, with the answers they may have.
GoodCalls ==
    {c \in Calls :
       /\ c.req \notin {"tables", "report"} => c.table \in Tables
       /\ c.req = "rows" /\ c.col > 0 => c.for \in Tables /\ c.col \in 1 .. Len(FkTo[c.for])
       /\ c.req = "tables" => c.reply.data \subseteq Tables
       /\ c.req = "rows" => c.reply.data \subseteq Nat
       /\ c.reply.ok => c.reply.done}

PageOk ==
    /\ page \in [kind : Pages, table : Named, rows : SUBSET Nat, add : Named]
    /\ page.kind = "grid" => page.table \in Tables
    /\ page.kind # "grid" => page = Showing(page.kind)

WInv ==
    /\ world \in [Tables -> States] /\ \A t \in Tables : StateOk(world[t])
    /\ schema \subseteq Tables
    /\ activeTable \in Named
    /\ PageOk
    /\ calls \in Seq(GoodCalls)

-----------------------------------------------------------------------------
(* The requests under way.                                                  *)

LEMMA SentIsGood ==
    ASSUME NEW req \in Reqs, NEW t \in Named, NEW f \in Named, NEW col \in Nat, NEW id \in Nat,
           req \notin {"tables", "report"} => t \in Tables,
           req = "rows" /\ col > 0 => f \in Tables /\ col \in 1 .. Len(FkTo[f])
    PROVE  Call(req, t, f, col, id) \in GoodCalls
BY DEF Call, Pending, GoodCalls, Calls, Replies

LEMMA RestIsGood ==
    ASSUME NEW S, NEW s \in Seq(S), NEW i \in 1 .. Len(s)
    PROVE  /\ RemoveAt(s, i) \in Seq(S)
           /\ Len(s) = 1 => RemoveAt(s, i) = <<>>
<1>1. Len(s) \in Nat /\ i - 1 \in Int /\ i + 1 \in Int
  BY LenProperties
<1>2. SubSeq(s, 1, i - 1) \in Seq(S)
  BY <1>1, SubSeqProperties
<1>3. SubSeq(s, i + 1, Len(s)) \in Seq(S)
  BY <1>1, SubSeqProperties
<1>4. RemoveAt(s, i) \in Seq(S)
  BY <1>2, <1>3, ConcatProperties DEF RemoveAt
<1>5. ASSUME Len(s) = 1
      PROVE  RemoveAt(s, i) = <<>>
  <2>1. SubSeq(s, 1, i - 1) = <<>> /\ SubSeq(s, i + 1, Len(s)) = <<>>
    BY <1>1, <1>5, SubSeqEmpty
  <2> QED
    BY <2>1, EmptySeq, ConcatSimplifications DEF RemoveAt
<1> QED
  BY <1>4, <1>5

LEMMA AppendIsGood ==
    ASSUME NEW S, NEW s \in Seq(S), NEW x \in S
    PROVE  Append(s, x) \in Seq(S)
BY AppendProperties

LEMMA AnsweredIsGood ==
    ASSUME NEW s \in Seq(GoodCalls), NEW i \in 1 .. Len(s), NEW r \in Replies,
           s[i].req = "tables" => r.data \subseteq Tables,
           s[i].req = "rows" => r.data \subseteq Nat, r.ok => r.done
    PROVE  /\ [s EXCEPT ![i].reply = r] \in Seq(GoodCalls)
           /\ Len([s EXCEPT ![i].reply = r]) = Len(s)
<1>1. s[i] \in GoodCalls
  BY ElementOfSeq
<1>2. [s[i] EXCEPT !.reply = r] \in GoodCalls
  BY <1>1 DEF GoodCalls, Calls
<1>3. PICK d \in GoodCalls : d = [s[i] EXCEPT !.reply = r]
  BY <1>2
<1>4. [s EXCEPT ![i].reply = r] = [s EXCEPT ![i] = d]
  BY <1>3
<1> QED
  BY <1>4, ExceptSeq

\* What selecting a table, and fetching the tables or a list of options, sends.
LEMMA FetchIsGood ==
    ASSUME NEW t \in Tables
    PROVE  /\ \A known \in SUBSET Tables : FetchGrid(t, known) \in GoodCalls
           /\ FetchTables(t) \in GoodCalls /\ FetchTables(None) \in GoodCalls
           /\ \A n \in 1 .. Len(FkTo[t]) : FetchOptions(t, n) \in GoodCalls
<1>1. ASSUME NEW known \in SUBSET Tables
      PROVE  FetchGrid(t, known) \in GoodCalls
  <2>1. /\ "rows" \in Reqs /\ t \in Named /\ 0 \in Nat /\ ~(0 > 0)
        /\ (IF t \in known THEN t ELSE None) \in Named
    BY DEF Reqs, Named
  <2> QED
    BY <2>1, SentIsGood DEF FetchGrid
<1>2. FetchTables(t) \in GoodCalls /\ FetchTables(None) \in GoodCalls
  BY SentIsGood DEF FetchTables, Reqs, Named
<1>3. ASSUME NEW n \in 1 .. Len(FkTo[t])
      PROVE  FetchOptions(t, n) \in GoodCalls
  <2>1. FkTo[t] \in Seq(Tables) /\ Len(FkTo[t]) \in Nat
    BY ColumnsAssumption, LenProperties
  <2>2. FkTo[t][n] \in Tables
    BY <2>1, ElementOfSeq
  <2> QED
    BY <2>1, <2>2, SentIsGood DEF FetchOptions, Reqs, Named
<1> QED
  BY <1>1, <1>2, <1>3
-----------------------------------------------------------------------------
(* Every step leaves the window and the server in a state of their types.   *)

LEMMA InitTyped == Init => WInv
<1> SUFFICES ASSUME Init PROVE WInv
  OBVIOUS
<1>1. /\ world \in [Tables -> States]
      /\ \A t \in Tables : StateOk(world[t])
  BY BoundAssumption DEF Init, States, StateOk
<1>2. calls \in Seq(GoodCalls)
  <2>1. Call("tables", None, None, 0, 0) \in GoodCalls
    BY SentIsGood DEF Reqs, Named
  <2> QED
    BY <2>1 DEF Init
<1> QED
  BY <1>1, <1>2 DEF Init, WInv, PageOk, Showing, Pages, Named

\* Whatever the server does with a request about a table is one of these.
LEMMA OutcomeTyped ==
    ASSUME WInv, NEW c \in GoodCalls, c.req \notin {"tables", "report"},
           NEW o \in Outcomes(c)
    PROVE  /\ StateOk(o[1])
           /\ o[2] \in Replies /\ o[2].data \subseteq Nat /\ (o[2].ok => o[2].done)
<1> DEFINE t == c.table
<1>1. t \in Tables /\ c.req \in Reqs \ {"tables", "report"}
  BY DEF GoodCalls, Calls
<1>2. StateOk(world[t])
  BY <1>1 DEF WInv
<1>3. CanCreate(t) => StateOk(CreatedIn(t))
  BY <1>2, BoundAssumption DEF CanCreate, CreatedIn, StateOk, States
<1>4. StateOk(DroppedIn(t))
  BY <1>2 DEF DroppedIn, StateOk, States
<1>5. CanAdd(t) => StateOk(AddedIn(t))
  <2>1. SUFFICES ASSUME world[t].present PROVE StateOk(AddedIn(t))
    BY DEF CanAdd
  <2>2. /\ world[t] \in States /\ world[t].next \in Nat \ {0}
        /\ world[t].rows \subseteq 1 .. (world[t].next - 1)
    BY <1>2 DEF StateOk, States
  <2>3. /\ AddedIn(t) \in States /\ AddedIn(t).present
        /\ AddedIn(t).rows = world[t].rows \cup {world[t].next}
        /\ AddedIn(t).next = world[t].next + 1
    <3>1. /\ world[t].rows \cup {world[t].next} \in SUBSET Nat
          /\ world[t].next + 1 \in Nat \ {0}
      BY <2>2 DEF States
    <3>2. AddedIn(t) \in States
      BY <2>2, <3>1 DEF AddedIn, States
    <3>3. AddedIn(t).present = world[t].present
      BY <2>2 DEF AddedIn, States
    <3>4. AddedIn(t).rows = world[t].rows \cup {world[t].next}
      BY <2>2 DEF AddedIn, States
    <3>5. AddedIn(t).next = world[t].next + 1
      BY <2>2 DEF AddedIn, States
    <3> QED
      BY <2>1, <3>2, <3>3, <3>4, <3>5
  <2>4. AddedIn(t).rows \subseteq 1 .. (AddedIn(t).next - 1)
    BY <2>2, <2>3
  <2> QED
    BY <2>3, <2>4 DEF StateOk
<1>6. \A id : StateOk(DeletedIn(t, id))
  BY <1>2 DEF DeletedIn, StateOk, States
<1>7. /\ Failed \in Replies /\ Failed.data \subseteq Nat /\ (Failed.ok => Failed.done)
      /\ \A data \in SUBSET Nat :
            /\ Answer(data) \in Replies /\ Answer(data).data \subseteq Nat
            /\ Answer(data).ok => Answer(data).done
  BY DEF Failed, Answer, Replies
<1>8. /\ StateOk(o[1])
      /\ o[2] = Failed \/ \E data \in SUBSET Nat : o[2] = Answer(data)
  <2>1. CASE c.req = "rows"
    <3>1. world[t].rows \in SUBSET Nat
      BY <1>2 DEF StateOk, States
    <3> QED
      BY <1>2, <2>1, <3>1 DEF Outcomes
  <2>2. CASE c.req = "create"
    BY <1>2, <1>3, <2>2 DEF Outcomes, If
  <2>3. CASE c.req = "drop"
    BY <1>2, <1>4, <2>3 DEF Outcomes
  <2>4. CASE c.req = "add"
    BY <1>2, <1>5, <2>4 DEF Outcomes, If
  <2>5. CASE c.req = "edit"
    BY <1>2, <2>5 DEF Outcomes, If
  <2>6. CASE c.req = "delete"
    BY <1>2, <1>6, <2>6 DEF Outcomes
  <2>7. CASE c.req = "sql"
    BY <1>2, <1>3, <1>4, <1>5, <1>6, <2>7 DEF Outcomes, Statement, If
  <2> QED
    BY <1>1, <2>1, <2>2, <2>3, <2>4, <2>5, <2>6, <2>7 DEF Reqs
<1> QED
  BY <1>7, <1>8

LEMMA ServeTyped == ASSUME WInv, Serve PROVE WInv'
<1>1. PICK i \in DOMAIN calls :
        /\ \/ /\ calls[i].req \in {"tables", "report"}
              /\ calls' = [calls EXCEPT ![i].reply = Answer(Present)]
              /\ UNCHANGED world
           \/ /\ calls[i].req \notin {"tables", "report"}
              /\ \E o \in Outcomes(calls[i]) :
                    /\ world' = [world EXCEPT ![calls[i].table] = o[1]]
                    /\ calls' = [calls EXCEPT ![i].reply = o[2]]
        /\ UNCHANGED <<schema, activeTable, page>>
  BY DEF Serve
<1>2. calls \in Seq(GoodCalls) /\ i \in 1 .. Len(calls) /\ calls[i] \in GoodCalls
  BY ElementOfSeq DEF WInv
<1> DEFINE c == calls[i]
<1>4. CASE /\ c.req \in {"tables", "report"}
           /\ calls' = [calls EXCEPT ![i].reply = Answer(Present)]
           /\ UNCHANGED world
  <2>1. /\ Answer(Present) \in Replies /\ Answer(Present).data \subseteq Tables
        /\ Answer(Present).ok => Answer(Present).done
    BY DEF Answer, Present, Replies
  <2>2. calls' \in Seq(GoodCalls)
    BY <1>2, <1>4, <2>1, AnsweredIsGood
  <2> QED
    BY <1>1, <1>4, <2>2 DEF WInv, PageOk, Showing
<1>5. ASSUME c.req \notin {"tables", "report"}, NEW o \in Outcomes(c),
             world' = [world EXCEPT ![c.table] = o[1]],
             calls' = [calls EXCEPT ![i].reply = o[2]]
      PROVE  WInv'
  <2>1. /\ StateOk(o[1])
        /\ o[2] \in Replies /\ o[2].data \subseteq Nat /\ (o[2].ok => o[2].done)
    BY <1>2, <1>5, OutcomeTyped
  <2>2. calls' \in Seq(GoodCalls)
    <3>1. c.req # "tables"
      BY <1>5
    <3> QED
      BY <1>2, <1>5, <2>1, <3>1, AnsweredIsGood
  <2>3. world' \in [Tables -> States] /\ \A t \in Tables : StateOk(world'[t])
    BY <1>2, <1>5, <2>1 DEF WInv, StateOk
  <2> QED
    BY <1>1, <2>2, <2>3 DEF WInv, PageOk, Showing
<1> QED
  BY <1>1, <1>4, <1>5
\* Selecting a table that the window knows of.
LEMMA SelectTyped ==
    ASSUME NEW t \in Tables, NEW known \in SUBSET Tables, NEW rest \in Seq(GoodCalls),
           Select(t, known, rest)
    PROVE  activeTable' \in Named /\ calls' \in Seq(GoodCalls)
<1>1. FetchGrid(t, known) \in GoodCalls
  BY FetchIsGood
<1> QED
  BY <1>1, AppendIsGood DEF Select, Named

LEMMA FetchTablesTyped ==
    ASSUME NEW t \in Named, NEW rest \in Seq(GoodCalls)
    PROVE  Append(rest, FetchTables(t)) \in Seq(GoodCalls)
<1>1. FetchTables(t) \in GoodCalls
  BY SentIsGood DEF FetchTables, Reqs, Named
<1> QED
  BY <1>1, AppendIsGood

LEMMA GridTyped ==
    ASSUME WInv, NEW c \in GoodCalls, NEW rest \in Seq(GoodCalls), GridArrives(c, rest)
    PROVE  PageOk' /\ calls' \in Seq(GoodCalls) /\ UNCHANGED <<schema, activeTable>>
<1>1. /\ c.req = "rows" /\ c.for \in Tables
      /\ page' = [kind |-> "grid", table |-> c.for, rows |-> c.reply.data,
                  add |-> IF FkTo[c.for] # <<>> THEN None ELSE c.for]
      /\ calls' = IF FkTo[c.for] # <<>> THEN Append(rest, FetchOptions(c.for, 1)) ELSE rest
      /\ UNCHANGED <<schema, activeTable>>
  BY DEF GridArrives, GoodCalls, Calls, Named
<1>2. c.reply.data \in SUBSET Nat
  BY <1>1 DEF GoodCalls
<1>3. PageOk'
  BY <1>1, <1>2 DEF PageOk, Pages, Named
<1>4. CASE FkTo[c.for] # <<>>
  <2>1. 1 \in 1 .. Len(FkTo[c.for])
    BY <1>1, <1>4, ColumnsAssumption, EmptySeq
  <2>2. FetchOptions(c.for, 1) \in GoodCalls
    BY <1>1, <2>1, FetchIsGood
  <2> QED
    BY <1>1, <1>3, <1>4, <2>2, AppendIsGood
<1>5. CASE FkTo[c.for] = <<>>
  BY <1>1, <1>3, <1>5
<1> QED
  BY <1>4, <1>5

LEMMA OptionsTyped ==
    ASSUME WInv, NEW c \in GoodCalls, NEW rest \in Seq(GoodCalls), OptionsArrive(c, rest)
    PROVE  PageOk' /\ calls' \in Seq(GoodCalls) /\ UNCHANGED <<schema, activeTable>>
<1>1. /\ c.for \in Tables /\ c.col \in 1 .. Len(FkTo[c.for])
      /\ UNCHANGED <<schema, activeTable>>
  BY DEF OptionsArrive, GoodCalls
<1>2. Len(FkTo[c.for]) \in Nat
  BY <1>1, ColumnsAssumption, LenProperties
<1>3. PageOk'
  <2>1. CASE page' = page
    BY <2>1 DEF WInv, PageOk, Showing
  <2>2. CASE page.kind = "grid" /\ page' = [page EXCEPT !.add = c.for]
    BY <1>1, <2>2 DEF WInv, PageOk, Named
  <2> QED
    BY <2>1, <2>2 DEF OptionsArrive
<1>4. CASE c.col = Len(FkTo[c.for])
  BY <1>1, <1>3, <1>4 DEF OptionsArrive
<1>5. CASE c.col # Len(FkTo[c.for])
  <2>1. c.col + 1 \in 1 .. Len(FkTo[c.for])
    BY <1>1, <1>2, <1>5
  <2>2. FetchOptions(c.for, c.col + 1) \in GoodCalls
    BY <1>1, <2>1, FetchIsGood
  <2> QED
    BY <1>1, <1>3, <1>5, <2>2, AppendIsGood DEF OptionsArrive
<1> QED
  BY <1>4, <1>5

LEMMA ResumeTyped == ASSUME WInv, Resume PROVE WInv'
<1>1. PICK i \in DOMAIN calls :
        LET c == calls[i]
            rest == RemoveAt(calls, i)
        IN  /\ \/ SidebarArrives(c, rest) \/ GridArrives(c, rest) \/ GridFails(c, rest)
               \/ OptionsArrive(c, rest) \/ RowsChanged(c, rest) \/ EditReturns(c, rest)
               \/ TableDropped(c, rest) \/ TablesChanged(c, rest) \/ Refused(c, rest)
               \/ ReportArrives(c, rest)
            /\ UNCHANGED world
  BY DEF Resume
<1>2. PICK c \in GoodCalls : c = calls[i]
  BY ElementOfSeq DEF WInv
<1>3. PICK rest \in Seq(GoodCalls) : rest = RemoveAt(calls, i)
  BY RestIsGood DEF WInv
<1>4. /\ schema' \subseteq Tables /\ activeTable' \in Named /\ PageOk'
      /\ calls' \in Seq(GoodCalls)
  <2>1. /\ schema \subseteq Tables /\ activeTable \in Named /\ PageOk
        /\ c.table \in Named /\ c.for \in Named
        /\ c.req \in {"add", "delete", "edit", "create"} => c.table \in Tables
        /\ c.req = "tables" => c.reply.data \subseteq Tables
        /\ UNCHANGED page => PageOk'
    BY DEF WInv, GoodCalls, Calls, PageOk, Showing
  <2>2. CASE SidebarArrives(c, rest)
    <3>1. CASE c.for = None
      BY <2>1, <2>2, <3>1 DEF SidebarArrives
    <3>2. CASE c.for # None
      BY <2>1, <2>2, <3>2, SelectTyped DEF SidebarArrives, Named
    <3> QED
      BY <3>1, <3>2
  <2>3. CASE GridArrives(c, rest) \/ OptionsArrive(c, rest)
    BY <2>1, <2>3, GridTyped, OptionsTyped
  <2>4. CASE GridFails(c, rest) \/ Refused(c, rest)
    BY <2>1, <2>4 DEF GridFails, Refused
  <2>5. CASE RowsChanged(c, rest)
    BY <2>1, <2>5, SelectTyped DEF RowsChanged
  <2>6. CASE EditReturns(c, rest)
    BY <2>1, <2>6, SelectTyped DEF EditReturns
  <2>7. CASE TableDropped(c, rest) \/ ReportArrives(c, rest)
    BY <2>1, <2>7, FetchTablesTyped
    DEF TableDropped, ReportArrives, PageOk, Showing, Pages, Named
  <2>8. CASE TablesChanged(c, rest)
    BY <2>1, <2>8, FetchTablesTyped DEF TablesChanged, Named
  <2> QED
    BY <1>1, <1>2, <1>3, <2>2, <2>3, <2>4, <2>5, <2>6, <2>7, <2>8
<1> QED
  BY <1>1, <1>4 DEF WInv

LEMMA UserTyped ==
    ASSUME WInv, ClickTable \/ OpenPage \/ OpenReport \/ UseGrid \/ AddRow \/ SubmitPage
    PROVE  WInv'
<1>1. UNCHANGED <<world, schema>>
  BY DEF ClickTable, OpenPage, OpenReport, UseGrid, AddRow, SubmitPage
<1>2. ASSUME NEW req \in Reqs \ {"tables", "rows"}, NEW t \in Named, NEW id \in Nat,
             req # "report" => t \in Tables, Request(req, t, id)
      PROVE  calls' \in Seq(GoodCalls)
  BY <1>2, SentIsGood, AppendIsGood DEF Request, WInv
<1>3. activeTable' \in Named /\ PageOk' /\ calls' \in Seq(GoodCalls)
  <2>1. /\ activeTable \in Named /\ PageOk /\ schema \subseteq Tables
        /\ UNCHANGED page => PageOk'
    BY DEF WInv, PageOk, Showing
  <2>2. CASE ClickTable
    BY <2>1, <2>2, SelectTyped DEF ClickTable, WInv
  <2>3. CASE OpenPage
    BY <2>3 DEF OpenPage, WInv, PageOk, Showing, Pages, Named
  <2>4. CASE OpenReport
    <3>1. calls' \in Seq(GoodCalls)
      BY <1>2, <2>4 DEF OpenReport, Reqs, Named
    <3> QED
      BY <2>1, <2>4, <3>1 DEF OpenReport, PageOk, Showing, Pages, Named
  <2>5. CASE UseGrid
    <3>1. page.table \in Tables /\ page.rows \subseteq Nat
      BY <2>1, <2>5 DEF UseGrid, PageOk
    <3>2. calls' \in Seq(GoodCalls)
      BY <1>2, <2>5, <3>1 DEF UseGrid, Reqs, Named
    <3> QED
      BY <2>1, <2>5, <3>2 DEF UseGrid
  <2>6. CASE AddRow
    <3>1. page.add \in Tables
      BY <2>1, <2>6 DEF AddRow, PageOk, Named
    <3>2. calls' \in Seq(GoodCalls)
      BY <1>2, <2>6, <3>1 DEF AddRow, Reqs, Named
    <3> QED
      BY <2>1, <2>6, <3>2 DEF AddRow
  <2>7. CASE SubmitPage
    <3>1. calls' \in Seq(GoodCalls)
      BY <1>2, <2>7 DEF SubmitPage, Reqs, Named
    <3> QED
      BY <2>1, <2>7, <3>1 DEF SubmitPage
  <2> QED
    BY <2>2, <2>3, <2>4, <2>5, <2>6, <2>7
<1> QED
  BY <1>1, <1>3 DEF WInv

LEMMA StepTyped == WInv /\ [Next]_vars => WInv'
<1>1. WInv /\ UNCHANGED vars => WInv'
  BY DEF vars, WInv, PageOk, Showing
<1> QED
  BY <1>1, ServeTyped, ResumeTyped, UserTyped DEF Next

LEMMA AlwaysTyped == Spec => []WInv
BY InitTyped, StepTyped, PTL DEF Spec

\* The window never shows, refers to or asks for what is no table, and the server
\* hands out each row id of a table once.
THEOREM TypeCorrect == Spec => []TypeOK
<1>1. WInv => TypeOK
  <2> SUFFICES ASSUME WInv PROVE TypeOK
    OBVIOUS
  <2>1. \A i \in DOMAIN calls : calls[i].reply.ok => calls[i].reply.done
    BY ElementOfSeq DEF WInv, GoodCalls
  <2> QED
    BY <2>1 DEF WInv, PageOk, StateOk, States, TypeOK, Named
<1> QED
  BY <1>1, AlwaysTyped, PTL
-----------------------------------------------------------------------------
(* Which button adds where.                                                 *)

\* Without foreign keys a grid is drawn and all of its buttons are bound at once.
NoForeignKeys == \A t \in Tables : FkTo[t] = <<>>

LEMMA PlainStep ==
    ASSUME NoForeignKeys, WInv, AddGoesToShownTable, [Next]_vars
    PROVE  AddGoesToShownTable'
<1>1. CASE Resume
  <2>1. PICK i \in DOMAIN calls :
          LET c == calls[i]
              rest == RemoveAt(calls, i)
          IN  \/ SidebarArrives(c, rest) \/ GridArrives(c, rest) \/ GridFails(c, rest)
              \/ OptionsArrive(c, rest) \/ RowsChanged(c, rest) \/ EditReturns(c, rest)
              \/ TableDropped(c, rest) \/ TablesChanged(c, rest) \/ Refused(c, rest)
              \/ ReportArrives(c, rest)
    BY <1>1 DEF Resume
  <2>2. PICK c \in GoodCalls : c = calls[i]
    BY ElementOfSeq DEF WInv
  <2>3. PICK rest : rest = RemoveAt(calls, i)
    OBVIOUS
  <2>4. ~OptionsArrive(c, rest)
    <3> SUFFICES ASSUME OptionsArrive(c, rest) PROVE FALSE
      OBVIOUS
    <3>1. c.for \in Tables /\ c.col \in 1 .. Len(FkTo[c.for])
      BY DEF OptionsArrive, GoodCalls
    <3> QED
      BY <3>1, EmptySeq DEF NoForeignKeys
  <2>5. CASE GridArrives(c, rest)
    BY <2>5 DEF GridArrives, GoodCalls, Calls, Named, NoForeignKeys, AddGoesToShownTable
  <2>6. CASE UNCHANGED page \/ \E kind : kind # "grid" /\ page' = Showing(kind)
    BY <2>6 DEF AddGoesToShownTable, Showing
  <2> QED
    BY <2>1, <2>2, <2>3, <2>4, <2>5, <2>6
    DEF SidebarArrives, GridFails, RowsChanged, EditReturns, TableDropped, TablesChanged,
        Refused, ReportArrives
<1>2. CASE UNCHANGED page \/ \E kind : kind # "grid" /\ page' = Showing(kind)
  BY <1>2 DEF AddGoesToShownTable, Showing
<1> QED
  BY <1>1, <1>2 DEF Next, Serve, ClickTable, OpenPage, OpenReport, UseGrid, AddRow, SubmitPage, vars

-----------------------------------------------------------------------------
(* A user who waits.  There is at most one request under way, and until its *)
(* answer is worked off the window is out of date in one way only.          *)

\* The window shows what the server has.
Settled ==
    /\ schema = Present
    /\ IF page.kind = "grid"
       THEN /\ page.table \in Present /\ page.rows = world[page.table].rows
            /\ activeTable = page.table /\ page.add = page.table
       ELSE activeTable = None

Accepted(c) == c.reply.done /\ c.reply.ok
NoGrid == page.kind # "grid" /\ activeTable = None

\* What is the case while c is under way.
Awaits(c) ==
    \/ /\ c.req = "tables" /\ NoGrid
       /\ c.reply.done => c.reply.data = Present
       /\ c.for # None => c.for \in Present
    \/ /\ c.req = "rows" /\ c.col = 0 /\ c.for = c.table
       /\ schema = Present /\ c.table \in Present /\ activeTable = c.table
       /\ c.reply.done => c.reply.ok /\ c.reply.data = world[c.table].rows
    \/ /\ c.req = "rows" /\ c.col > 0
       /\ schema = Present /\ c.for \in Present /\ activeTable = c.for
       /\ page.kind = "grid" /\ page.table = c.for /\ page.add = None
       /\ page.rows = world[c.for].rows
    \/ /\ c.req \in {"add", "delete"}
       /\ schema = Present /\ c.table \in Present
       /\ ~Accepted(c) => Settled
    \/ c.req = "edit" /\ Settled /\ c.table \in Present
    \/ c.req = "drop" /\ (~Accepted(c) => Settled)
    \/ /\ c.req \in {"create", "sql"} /\ NoGrid
       /\ ~Accepted(c) => schema = Present
       /\ Accepted(c) /\ c.req = "create" => c.table \in Present
    \/ c.req = "report" /\ schema = Present /\ activeTable = None

\* The request under way, or else the window is settled.
PInv ==
    /\ Len(calls) <= 1
    /\ calls = <<>> => Settled
    /\ \A i \in 1 .. Len(calls) : Awaits(calls[i])
    /\ AddGoesToShownTable

\* What the server did to the table, as far as a window can tell.
LEMMA OutcomeKept ==
    ASSUME WInv, NEW c \in GoodCalls, c.req \notin {"tables", "report"},
           NEW o \in Outcomes(c)
    PROVE  /\ o[2].done
           /\ c.req \in {"rows", "edit"} => o[1] = world[c.table]
           /\ c.req = "rows" /\ world[c.table].present => o[2] = Answer(world[c.table].rows)
           /\ c.req # "sql" /\ ~o[2].ok => o[1] = world[c.table]
           /\ c.req \in {"add", "delete"} => o[1].present = world[c.table].present
           /\ c.req = "sql" /\ ~o[2].ok => o[1].present = world[c.table].present
           /\ c.req = "create" /\ o[2].ok => o[1].present
<1> DEFINE t == c.table
<1>1. t \in Tables /\ c.req \in Reqs \ {"tables", "report"}
  BY DEF GoodCalls, Calls
<1>2. world[t] \in States
  BY <1>1 DEF WInv, StateOk
<1>3. /\ AddedIn(t).present = world[t].present
      /\ \A id : DeletedIn(t, id).present = world[t].present
      /\ CreatedIn(t).present
  BY <1>2 DEF AddedIn, DeletedIn, CreatedIn, States
<1>4. /\ Failed.done /\ ~Failed.ok
      /\ \A data : Answer(data).done /\ Answer(data).ok
  BY DEF Failed, Answer
<1>5. CASE c.req = "rows"
  BY <1>4, <1>5 DEF Outcomes
<1>6. CASE c.req = "create"
  BY <1>3, <1>4, <1>6 DEF Outcomes, If
<1>7. CASE c.req = "drop"
  BY <1>4, <1>7 DEF Outcomes
<1>8. CASE c.req = "add"
  BY <1>3, <1>4, <1>8 DEF Outcomes, If
<1>9. CASE c.req = "edit"
  BY <1>4, <1>9 DEF Outcomes, If
<1>10. CASE c.req = "delete"
  BY <1>3, <1>4, <1>10 DEF Outcomes
<1>11. CASE c.req = "sql"
  BY <1>3, <1>4, <1>11 DEF Outcomes, Statement, If
<1> QED
  BY <1>1, <1>5, <1>6, <1>7, <1>8, <1>9, <1>10, <1>11 DEF Reqs

\* What is to be shown of a step: it settles the window, or sends one request.
LEMMA Continues ==
    ASSUME AddGoesToShownTable',
           \/ calls' = <<>> /\ Settled'
           \/ \E x \in GoodCalls : calls' = Append(<<>>, x) /\ Awaits(x)'
    PROVE  PInv'
<1>1. CASE calls' = <<>> /\ Settled'
  BY <1>1, EmptySeq DEF PInv
<1>2. ASSUME NEW x \in GoodCalls, calls' = Append(<<>>, x), Awaits(x)'
      PROVE  PInv'
  <2>1. /\ Len(calls') = 1 /\ calls'[1] = x /\ calls' # <<>>
    BY <1>2, EmptySeq, AppendProperties
  <2> QED
    BY <1>2, <2>1 DEF PInv
<1> QED
  BY <1>1, <1>2

\* The request under way is the only one.
LEMMA OnlyCall ==
    ASSUME WInv, PInv, NEW i \in DOMAIN calls
    PROVE  /\ i = 1 /\ Len(calls) = 1 /\ calls[i] \in GoodCalls /\ Awaits(calls[i])
           /\ RemoveAt(calls, i) = <<>>
<1>1. calls \in Seq(GoodCalls) /\ i \in 1 .. Len(calls) /\ Len(calls) \in Nat
  BY LenProperties DEF WInv
<1>2. i = 1 /\ Len(calls) = 1
  <2>1. Len(calls) <= 1
    BY DEF PInv
  <2> QED
    BY <1>1, <2>1
<1> QED
  BY <1>1, <1>2, RestIsGood, ElementOfSeq DEF PInv

LEMMA PatientServe ==
    ASSUME WInv, PInv, Serve
    PROVE  PInv'
<1>1. PICK i \in DOMAIN calls :
        /\ ~calls[i].reply.done
        /\ \/ /\ calls[i].req \in {"tables", "report"}
              /\ calls' = [calls EXCEPT ![i].reply = Answer(Present)]
              /\ UNCHANGED world
           \/ /\ calls[i].req \notin {"tables", "report"}
              /\ \E o \in Outcomes(calls[i]) :
                    /\ world' = [world EXCEPT ![calls[i].table] = o[1]]
                    /\ calls' = [calls EXCEPT ![i].reply = o[2]]
        /\ UNCHANGED <<schema, activeTable, page>>
  BY DEF Serve
<1>2. /\ i = 1 /\ Len(calls) = 1 /\ calls[1] \in GoodCalls /\ Awaits(calls[1])
      /\ calls \in Seq(GoodCalls)
  BY <1>1, OnlyCall DEF WInv
<1>3. PICK c \in GoodCalls : c = calls[1]
  BY <1>2
<1>4. world \in [Tables -> States] /\ ~Accepted(c) /\ AddGoesToShownTable'
  BY <1>1, <1>2, <1>3 DEF WInv, PInv, Accepted, AddGoesToShownTable
<1>5. ASSUME NEW r \in Replies,
             c.req = "tables" => r.data \subseteq Tables,
             c.req = "rows" => r.data \subseteq Nat, r.ok => r.done,
             calls' = [calls EXCEPT ![i].reply = r],
             \A x \in GoodCalls :
               /\ x.req = c.req /\ x.table = c.table /\ x.for = c.for /\ x.col = c.col
               /\ x.reply = r
               => Awaits(x)'
      PROVE  PInv'
  <2>1. PICK x \in GoodCalls : x = [c EXCEPT !.reply = r]
    BY <1>5 DEF GoodCalls, Calls
  <2>2. /\ x.req = c.req /\ x.table = c.table /\ x.for = c.for /\ x.col = c.col
        /\ x.reply = r
    BY <2>1 DEF GoodCalls, Calls
  <2>3. calls' = [calls EXCEPT ![1] = x]
    BY <1>2, <1>3, <1>5, <2>1
  <2>4. Len(calls') = 1 /\ calls'[1] = x
    BY <1>2, <2>3, ExceptSeq
  <2>5. calls' # <<>>
    BY <2>4, EmptySeq
  <2> QED
    BY <1>4, <1>5, <2>2, <2>4, <2>5 DEF PInv
<1>6. CASE /\ c.req \in {"tables", "report"}
           /\ calls' = [calls EXCEPT ![i].reply = Answer(Present)]
           /\ UNCHANGED world
  <2>1. /\ Answer(Present) \in Replies /\ Answer(Present).data = Present
        /\ Present \subseteq Tables /\ Present' = Present
        /\ Answer(Present).ok => Answer(Present).done
    BY <1>6 DEF Answer, Present, Replies
  <2>2. ASSUME NEW x \in GoodCalls, x.req = c.req, x.for = c.for, x.reply = Answer(Present)
        PROVE  Awaits(x)'
    BY <1>1, <1>2, <1>3, <1>6, <2>1, <2>2 DEF Awaits, NoGrid
  <2> QED
    BY <1>5, <1>6, <2>1, <2>2
<1>7. ASSUME c.req \notin {"tables", "report"}, NEW o \in Outcomes(c),
             world' = [world EXCEPT ![c.table] = o[1]],
             calls' = [calls EXCEPT ![i].reply = o[2]]
      PROVE  PInv'
  <2>1. PICK r \in Replies : /\ r = o[2] /\ r.data \subseteq Nat
                             /\ r.ok => r.done
    BY <1>7, OutcomeTyped
  <2>2. /\ c.table \in Tables /\ StateOk(o[1])
    BY <1>7, OutcomeTyped DEF GoodCalls
  <2>3. /\ \A t \in Tables : world'[t] = IF t = c.table THEN o[1] ELSE world[t]
        /\ o[1] = world[c.table] => world' = world
        /\ o[1].present = world[c.table].present => Present' = Present
    BY <1>4, <1>7, <2>2 DEF Present
  <2>4. ASSUME NEW x \in GoodCalls, x.req = c.req, x.table = c.table, x.for = c.for,
               x.col = c.col, x.reply = r
        PROVE  Awaits(x)'
    <3>1. CASE o[1] = world[c.table]
      <4>1. world' = world /\ Present' = Present /\ (Settled' <=> Settled)
        BY <1>1, <2>3, <3>1 DEF Present, Settled
      <4>2. CASE c.req = "rows"
        <5>1. world[c.table].present => r = Answer(world[c.table].rows)
          BY <1>7, <2>1, <4>2, OutcomeKept
        <5> QED
          BY <1>1, <1>2, <1>3, <2>4, <4>1, <4>2, <5>1
          DEF Awaits, Answer, Present
      <4>3. CASE c.req # "rows"
        <5>1. c.req = "create" /\ r.ok => c.table \in Present'
          BY <1>7, <2>1, <2>2, <2>3, <4>3, OutcomeKept DEF Present
        <5> QED
          BY <1>1, <1>2, <1>3, <1>4, <1>7, <2>4, <4>1, <4>3, <5>1
          DEF Awaits, NoGrid, Accepted
      <4> QED
        BY <4>2, <4>3
    <3>2. CASE o[1] # world[c.table]
      <4>1. c.req \notin {"rows", "edit"} /\ (c.req # "sql" => r.ok /\ r.done)
        BY <1>7, <2>1, <3>2, OutcomeKept
      <4>2. c.req \in {"add", "delete"} => Present' = Present
        BY <1>7, <2>3, OutcomeKept
      <4>3. c.req = "sql" /\ ~r.ok => Present' = Present
        BY <1>7, <2>1, <2>3, OutcomeKept
      <4>4. c.req = "create" => c.table \in Present'
        BY <1>7, <2>1, <2>2, <2>3, <4>1, OutcomeKept DEF Present
      <4>5. r.done
        BY <1>7, <2>1, OutcomeKept
      <4> QED
        BY <1>1, <1>2, <1>3, <1>4, <1>7, <2>4, <4>1, <4>2, <4>3, <4>4, <4>5
        DEF Awaits, NoGrid, Accepted
    <3> QED
      BY <3>1, <3>2
  <2> QED
    BY <1>5, <1>7, <2>1, <2>4
<1> QED
  BY <1>1, <1>2, <1>3, <1>6, <1>7

LEMMA PatientResume ==
    ASSUME WInv, PInv, Resume
    PROVE  PInv'
<1>1. PICK i \in DOMAIN calls :
        LET c == calls[i]
            rest == RemoveAt(calls, i)
        IN  /\ c.reply.done
            /\ \/ SidebarArrives(c, rest) \/ GridArrives(c, rest) \/ GridFails(c, rest)
               \/ OptionsArrive(c, rest) \/ RowsChanged(c, rest) \/ EditReturns(c, rest)
               \/ TableDropped(c, rest) \/ TablesChanged(c, rest) \/ Refused(c, rest)
               \/ ReportArrives(c, rest)
            /\ UNCHANGED world
  BY DEF Resume
<1>2. PICK c \in GoodCalls : c = calls[i] /\ Awaits(c) /\ c.reply.done
  BY <1>1, OnlyCall
<1>3. RemoveAt(calls, i) = <<>>
  BY OnlyCall
<1>4. /\ \/ SidebarArrives(c, <<>>) \/ GridArrives(c, <<>>) \/ GridFails(c, <<>>)
         \/ OptionsArrive(c, <<>>) \/ RowsChanged(c, <<>>) \/ EditReturns(c, <<>>)
         \/ TableDropped(c, <<>>) \/ TablesChanged(c, <<>>) \/ Refused(c, <<>>)
         \/ ReportArrives(c, <<>>)
      /\ world' = world /\ Present' = Present /\ Present \subseteq Tables
  BY <1>1, <1>2, <1>3 DEF Present
<1>5. AddGoesToShownTable
  BY DEF PInv
<1>6. ASSUME NEW t \in Present, schema' = Present, UNCHANGED page,
             Select(t, Present, <<>>)
      PROVE  PInv'
  <2>1. PICK x \in GoodCalls : x = FetchGrid(t, Present)
    BY <1>4, FetchIsGood
  <2>2. /\ x.req = "rows" /\ x.col = 0 /\ x.for = t /\ x.table = t /\ ~x.reply.done
    BY <2>1 DEF FetchGrid, Call, Pending
  <2>3. Awaits(x)'
    BY <1>4, <1>6, <2>2 DEF Awaits, Select
  <2> QED
    BY <1>5, <1>6, <2>1, <2>3, Continues DEF Select, AddGoesToShownTable
<1>7. ASSUME NEW t \in Present \cup {None}, NoGrid', calls' = Append(<<>>, FetchTables(t))
      PROVE  PInv'
  <2>1. PICK x \in GoodCalls : x = FetchTables(t)
    BY <1>4, SentIsGood DEF FetchTables, Reqs, Named
  <2>2. x.req = "tables" /\ x.for = t /\ ~x.reply.done
    BY <2>1 DEF FetchTables, Call, Pending
  <2>3. Awaits(x)' /\ AddGoesToShownTable'
    BY <1>4, <1>7, <2>2 DEF Awaits, NoGrid, AddGoesToShownTable
  <2> QED
    BY <1>7, <2>1, <2>3, Continues
<1>8. ASSUME NEW t \in Present, NEW n \in 1 .. Len(FkTo[t]),
             schema' = Present, activeTable' = t, calls' = Append(<<>>, FetchOptions(t, n)),
             page'.kind = "grid", page'.table = t, page'.add = None,
             page'.rows = world[t].rows
      PROVE  PInv'
  <2>1. PICK x \in GoodCalls : x = FetchOptions(t, n)
    BY <1>4, FetchIsGood
  <2>2. Len(FkTo[t]) \in Nat
    BY <1>4, ColumnsAssumption, LenProperties
  <2>3. x.req = "rows" /\ x.col > 0 /\ x.for = t
    BY <2>1, <2>2 DEF FetchOptions, Call
  <2>4. Awaits(x)' /\ AddGoesToShownTable'
    BY <1>4, <1>8, <2>3 DEF Awaits, AddGoesToShownTable
  <2> QED
    BY <1>8, <2>1, <2>4, Continues
<1>9. ASSUME Settled', calls' = <<>>
      PROVE  PInv'
  BY <1>9, Continues DEF Settled, AddGoesToShownTable
<1>10. CASE SidebarArrives(c, <<>>)
  <2>1. c.req = "tables" /\ NoGrid /\ schema' = Present /\ UNCHANGED page
    BY <1>2, <1>10 DEF SidebarArrives, Awaits
  <2>2. CASE c.for = None
    BY <1>4, <1>9, <1>10, <2>1, <2>2 DEF SidebarArrives, NoGrid, Settled
  <2>3. CASE c.for # None
    BY <1>2, <1>6, <1>10, <2>1, <2>3 DEF SidebarArrives, Awaits
  <2> QED
    BY <2>2, <2>3
<1>11. CASE GridArrives(c, <<>>)
  <2> DEFINE t == c.for
  <2>1. /\ t \in Present /\ schema' = Present /\ activeTable' = t
        /\ c.reply.data = world[t].rows
    BY <1>2, <1>11 DEF GridArrives, Awaits
  <2>2. CASE FkTo[t] = <<>>
    <3>1. /\ calls' = <<>> /\ page'.kind = "grid" /\ page'.table = t
          /\ page'.rows = world[t].rows /\ page'.add = t
      BY <1>11, <2>1, <2>2 DEF GridArrives
    <3> QED
      BY <1>4, <1>9, <2>1, <3>1 DEF Settled
  <2>3. CASE FkTo[t] # <<>>
    <3>1. 1 \in 1 .. Len(FkTo[t])
      BY <1>4, <2>1, <2>3, ColumnsAssumption, EmptySeq
    <3>2. /\ calls' = Append(<<>>, FetchOptions(t, 1))
          /\ page'.kind = "grid" /\ page'.table = t
          /\ page'.rows = world[t].rows /\ page'.add = None
      BY <1>11, <2>1, <2>3 DEF GridArrives
    <3> QED
      BY <1>8, <2>1, <3>1, <3>2
  <2> QED
    BY <2>2, <2>3
<1>12. CASE GridFails(c, <<>>)
  BY <1>2, <1>4, <1>12, ColumnsAssumption DEF GridFails, Awaits
<1>13. CASE OptionsArrive(c, <<>>)
  <2> DEFINE t == c.for
  <2>1. /\ t \in Present /\ schema' = Present /\ activeTable' = t
        /\ page.kind = "grid" /\ page.table = t /\ page.add = None
        /\ page.rows = world[t].rows
    BY <1>2, <1>13 DEF OptionsArrive, Awaits
  <2>2. c.col \in 1 .. Len(FkTo[t]) /\ Len(FkTo[t]) \in Nat
    BY <1>4, <1>13, <2>1, ColumnsAssumption, LenProperties DEF OptionsArrive, GoodCalls
  <2>3. CASE c.col = Len(FkTo[t])
    <3>1. calls' = <<>> /\ page' = [page EXCEPT !.add = t]
      BY <1>13, <2>1, <2>3 DEF OptionsArrive
    <3>2. /\ page'.kind = "grid" /\ page'.table = t
          /\ page'.rows = world[t].rows /\ page'.add = t
      BY <2>1, <3>1 DEF WInv, PageOk
    <3> QED
      BY <1>4, <1>9, <2>1, <3>1, <3>2 DEF Settled
  <2>4. CASE c.col # Len(FkTo[t])
    <3>1. /\ c.col + 1 \in 1 .. Len(FkTo[t]) /\ page' = page
          /\ calls' = Append(<<>>, FetchOptions(t, c.col + 1))
      BY <1>13, <2>1, <2>2, <2>4 DEF OptionsArrive
    <3> QED
      BY <1>8, <2>1, <3>1
  <2> QED
    BY <2>3, <2>4
<1>14. CASE RowsChanged(c, <<>>)
  <2>1. c.table \in Present /\ schema = Present
    BY <1>2, <1>14 DEF RowsChanged, Awaits
  <2> QED
    BY <1>6, <1>14, <2>1 DEF RowsChanged
<1>15. CASE EditReturns(c, <<>>)
  <2>1. Settled /\ c.table \in Present
    BY <1>2, <1>15 DEF EditReturns, Awaits
  <2>2. CASE c.reply.ok
    BY <1>4, <1>9, <1>15, <2>1, <2>2 DEF EditReturns, Settled
  <2>3. CASE ~c.reply.ok
    BY <1>6, <1>15, <2>1, <2>3 DEF EditReturns, Settled
  <2> QED
    BY <2>2, <2>3
<1>16. CASE TableDropped(c, <<>>)
  BY <1>7, <1>16 DEF TableDropped, NoGrid, Showing
<1>17. CASE TablesChanged(c, <<>>)
  <2>1. NoGrid' /\ (c.req = "create" => c.table \in Present)
    BY <1>2, <1>17 DEF TablesChanged, Awaits, NoGrid, Accepted
  <2> QED
    BY <1>7, <1>17, <2>1 DEF TablesChanged
<1>18. CASE Refused(c, <<>>)
  <2>1. Settled
    BY <1>2, <1>18 DEF Refused, Awaits, Accepted, NoGrid, Settled
  <2> QED
    BY <1>4, <1>9, <1>18, <2>1 DEF Refused, Settled
<1>19. CASE ReportArrives(c, <<>>)
  <2>1. schema = Present /\ activeTable = None
    BY <1>2, <1>19 DEF ReportArrives, Awaits
  <2> QED
    BY <1>4, <1>9, <1>19, <2>1 DEF ReportArrives, Showing, Settled
<1> QED
  BY <1>4, <1>10, <1>11, <1>12, <1>13, <1>14, <1>15, <1>16, <1>17, <1>18, <1>19

LEMMA PatientUser ==
    ASSUME Patient, WInv, PInv,
           ClickTable \/ OpenPage \/ OpenReport \/ UseGrid \/ AddRow \/ SubmitPage
    PROVE  PInv'
<1>1. /\ calls = <<>> /\ Settled /\ AddGoesToShownTable
      /\ world' = world /\ schema' = schema /\ Present' = Present /\ Present \subseteq Tables
  BY DEF PInv, MayAct, Present, ClickTable, OpenPage, OpenReport, UseGrid, AddRow, SubmitPage
<1>2. ASSUME NEW req \in Reqs \ {"tables", "rows"}, NEW t \in Named, NEW id \in Nat,
             req # "report" => t \in Tables, Request(req, t, id), AddGoesToShownTable',
             \A x \in GoodCalls :
                x.req = req /\ x.table = t /\ ~x.reply.done => Awaits(x)'
      PROVE  PInv'
  <2>1. PICK x \in GoodCalls : x = Call(req, t, t, 0, id)
    BY <1>2, SentIsGood
  <2>2. x.req = req /\ x.table = t /\ ~x.reply.done
    BY <2>1 DEF Call, Pending
  <2> QED
    BY <1>1, <1>2, <2>1, <2>2, Continues DEF Request
<1>3. UNCHANGED <<page, activeTable>> => Settled' /\ AddGoesToShownTable'
  BY <1>1 DEF Settled, AddGoesToShownTable
<1>4. CASE ClickTable
  <2>1. PICK t \in Present : Select(t, schema, <<>>)
    BY <1>1, <1>4 DEF ClickTable, Settled
  <2>2. PICK x \in GoodCalls : x = FetchGrid(t, schema)
    BY <1>1, FetchIsGood DEF Settled
  <2>3. x.req = "rows" /\ x.col = 0 /\ x.for = t /\ x.table = t /\ ~x.reply.done
    BY <1>1, <2>2 DEF FetchGrid, Call, Pending, Settled
  <2>4. Awaits(x)' /\ AddGoesToShownTable'
    BY <1>1, <1>4, <2>1, <2>3 DEF Awaits, Select, ClickTable, Settled, AddGoesToShownTable
  <2> QED
    BY <2>1, <2>2, <2>4, Continues DEF Select
<1>5. CASE OpenPage
  BY <1>1, <1>5, Continues DEF OpenPage, Showing, Settled, AddGoesToShownTable
<1>6. CASE OpenReport
  <2>1. AddGoesToShownTable' /\ activeTable' = None /\ Request("report", None, 0)
    BY <1>1, <1>6 DEF OpenReport, Showing, AddGoesToShownTable
  <2>2. \A x \in GoodCalls : x.req = "report" => Awaits(x)'
    BY <1>1, <2>1 DEF Awaits, Settled
  <2> QED
    BY <1>2, <2>1, <2>2 DEF Reqs, Named
<1>7. CASE UseGrid
  <2>1. /\ page.table \in Present /\ page.rows \subseteq Nat /\ page.table \in Named
        /\ UNCHANGED <<page, activeTable>>
    BY <1>1, <1>7 DEF UseGrid, Settled, WInv, PageOk
  <2>2. \A x \in GoodCalls :
          /\ x.req \in {"drop", "edit", "delete"} /\ x.table = page.table /\ ~x.reply.done
          => Awaits(x)'
    BY <1>1, <1>3, <2>1 DEF Awaits, Settled
  <2>3. \E req \in {"drop", "edit", "delete"}, id \in Nat : Request(req, page.table, id)
    BY <1>7, <2>1 DEF UseGrid
  <2> QED
    BY <1>1, <1>2, <1>3, <2>1, <2>2, <2>3 DEF Reqs
<1>8. CASE AddRow
  <2>1. /\ page.add \in Present /\ page.add \in Named
        /\ UNCHANGED <<page, activeTable>> /\ Request("add", page.add, 0)
    BY <1>1, <1>8 DEF AddRow, Settled, WInv, PageOk
  <2>2. \A x \in GoodCalls :
          x.req = "add" /\ x.table = page.add /\ ~x.reply.done => Awaits(x)'
    BY <1>1, <1>3, <2>1 DEF Awaits, Settled
  <2> QED
    BY <1>1, <1>2, <1>3, <2>1, <2>2 DEF Reqs
<1>9. CASE SubmitPage
  <2>1. /\ NoGrid /\ UNCHANGED <<page, activeTable>>
        /\ \E req \in {"create", "sql"}, t \in Tables : Request(req, t, 0)
    BY <1>1, <1>9 DEF SubmitPage, NoGrid, Settled
  <2>2. \A x \in GoodCalls :
          x.req \in {"create", "sql"} /\ ~x.reply.done => Awaits(x)'
    BY <1>1, <2>1 DEF Awaits, Settled, NoGrid, Accepted
  <2> QED
    BY <1>2, <1>3, <2>1, <2>2 DEF Reqs, Named
<1> QED
  BY <1>4, <1>5, <1>6, <1>7, <1>8, <1>9

LEMMA PatientInit == Init => PInv
<1> SUFFICES ASSUME Init PROVE PInv
  OBVIOUS
<1>1. Len(calls) = 1 /\ calls[1] = Call("tables", None, None, 0, 0) /\ calls # <<>>
  BY DEF Init
<1>2. Awaits(calls[1])
  BY <1>1 DEF Init, Awaits, NoGrid, Call, Pending, Showing
<1> QED
  BY <1>1, <1>2 DEF PInv, Init, Showing, AddGoesToShownTable

LEMMA PatientStep ==
    ASSUME Patient, WInv, PInv, [Next]_vars
    PROVE  PInv'
<1>1. CASE UNCHANGED vars
  BY <1>1 DEF vars, PInv, Awaits, Settled, NoGrid, Present, AddGoesToShownTable
<1> QED
  BY <1>1, PatientServe, PatientResume, PatientUser DEF Next

-----------------------------------------------------------------------------
\* "Add row" adds to the table shown above it, for a user who waits and, while no
\* table has a foreign key, for every user (app.js:177).
THEOREM AddStaysOnItsTable ==
    ASSUME Patient \/ NoForeignKeys
    PROVE  Spec => []AddGoesToShownTable
<1>1. Init => AddGoesToShownTable
  BY DEF Init, Showing, AddGoesToShownTable
<1>2. CASE NoForeignKeys
  <2>1. WInv /\ AddGoesToShownTable /\ [Next]_vars => AddGoesToShownTable'
    BY <1>2, PlainStep
  <2> QED
    BY <1>1, <2>1, AlwaysTyped, PTL DEF Spec
<1>3. CASE Patient
  <2>1. WInv /\ PInv /\ [Next]_vars => PInv'
    BY <1>3, PatientStep
  <2>2. PInv => AddGoesToShownTable
    BY DEF PInv
  <2> QED
    BY PatientInit, <2>1, <2>2, AlwaysTyped, PTL DEF Spec
<1> QED
  BY <1>2, <1>3

\* Whenever nothing is under way, the window of a user who waits and is alone with
\* the server shows what the server has (app.js:56, selectTable).
THEOREM WaitingWindowIsCurrent ==
    ASSUME Patient
    PROVE  Spec => []QuietWindowIsCurrent
<1>1. WInv /\ PInv /\ [Next]_vars => PInv'
  BY PatientStep
<1>2. PInv => QuietWindowIsCurrent
  BY DEF PInv, Settled, QuietWindowIsCurrent
<1> QED
  BY PatientInit, <1>1, <1>2, AlwaysTyped, PTL DEF Spec

\* The same of the specification that is model-checked, in which a behaviour is of the
\* user described here or of a hasty one, of whom nothing is claimed (app.js:56).
THEOREM WaitingAmongUsers ==
    ASSUME Patient
    PROVE  MCSpec => []WaitingSeesTheServer
<1> DEFINE Kept == user = "given" => WInv /\ PInv
<1>1. MCInit => Kept
  BY InitTyped, PatientInit DEF MCInit
<1>2. Kept /\ [MCNext]_<<user, vars>> => Kept'
  <2> SUFFICES ASSUME Kept, [MCNext]_<<user, vars>>, user' = "given"
               PROVE  WInv' /\ PInv'
    OBVIOUS
  <2>1. user = "given" /\ [Next]_vars
    BY DEF MCNext, Runs
  <2> QED
    BY <2>1, StepTyped, PatientStep
<1>3. Kept => WaitingSeesTheServer
  BY DEF WaitingSeesTheServer, PInv, Settled, QuietWindowIsCurrent
<1> QED
  BY <1>1, <1>2, <1>3, PTL DEF MCSpec
=============================================================================
