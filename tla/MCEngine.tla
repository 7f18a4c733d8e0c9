------------------------------ MODULE MCEngine ------------------------------
(* The engine with trees of two-entry leaves and two-key internal nodes.    *)
EXTENDS Engine

CONSTANTS t1, t2, t3, a, Plans

ThreeNames == {t1, t2, t3}
OneValue == {a}

\* Serving: one table grows past a root split, one takes a row, one none.
ServingRows == [n \in ThreeNames |-> CASE n = t1 -> 3 [] n = t2 -> 1 [] n = t3 -> 0]

\* Crashes: one table splits twice, one takes a row, one none.
CrashRows == [n \in ThreeNames |-> CASE n = t1 -> 4 [] n = t2 -> 1 [] n = t3 -> 0]

-----------------------------------------------------------------------------
\* What a behaviour is to explore.
VARIABLE plan

\* One crash in operations on the rows of two tables, the one that grows made first.
CrashInRows ==
    /\ crashes <= 1 /\ file[HEADER_PAGE_ID].next_table_id <= 3 /\ Defs[t3] = NoDef
    /\ Defs[t1] # NoDef => Defs[t1].table_id = 1

\* Two crashes in operations on the catalog: the third table splits its leaf.
CrashInCatalog ==
    \A n \in ThreeNames : Defs[n].next_rowid <= IF n = t1 THEN 2 ELSE 1

Explored ==
    CASE plan = "serving" -> TRUE
      [] plan = "crash in rows" -> CrashInRows
      [] plan = "crash in catalog" -> CrashInCatalog

MCInit == plan \in Plans /\ Init
MCNext == UNCHANGED plan /\ Next
MCSpec == MCInit /\ [][MCNext]_<<plan, vars>>
=============================================================================
