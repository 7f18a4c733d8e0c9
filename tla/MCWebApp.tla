------------------------------ MODULE MCWebApp ------------------------------
(* Two tables; one has two foreign keys, to the other table and to itself.  *)
(* A behaviour is of the user whom the constants of WebApp describe, or of  *)
(* a hasty one, who does not wait for two requests answered in any order,   *)
(* over tables without a foreign key.                                       *)
EXTENDS WebApp

CONSTANTS t1, t2, Users

TwoTables == {t1, t2}
Columns == [t \in TwoTables |-> IF t = t1 THEN <<t2, t1>> ELSE <<>>]
PlainColumns == [t \in TwoTables |-> <<>>]

Hasty == INSTANCE WebApp WITH
    Patient <- FALSE, InOrder <- FALSE, FkTo <- PlainColumns,
    MaxGen <- 1, MaxRowid <- 1, MaxCalls <- 2

VARIABLE user

Runs(kind, A) == user = kind /\ user' = kind /\ A

MCServe == Runs("given", Serve) \/ Runs("hasty", Hasty!Serve)
MCResume == Runs("given", Resume) \/ Runs("hasty", Hasty!Resume)

MCInit == user \in Users /\ Init
MCNext == Runs("given", Next) \/ Runs("hasty", Hasty!Next)

MCSpec ==
    MCInit /\ [][MCNext]_<<user, vars>> /\ WF_<<user, vars>>(MCServe) /\ WF_<<user, vars>>(MCResume)

-----------------------------------------------------------------------------
\* The window of a user who waits is current whenever nothing is under way
\* (app.js:56, selectTable).
WaitingSeesTheServer == user = "given" => QuietWindowIsCurrent

\* Whatever a user who waits starts comes to an end (app.js:35, refreshSidebar).
WaitingEnds == user = "given" => ComesToRest
=============================================================================
