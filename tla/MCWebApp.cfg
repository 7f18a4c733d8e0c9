\* A user who waits, answers in any order, tables dropped and created again; and
\* a hasty one.
SPECIFICATION MCSpec
CONSTANTS
    t1 = t1
    t2 = t2
    None = None
    Tables <- TwoTables
    FkTo <- Columns
    MaxGen = 2
    MaxRowid = 2
    MaxCalls = 1
    Patient = TRUE
    InOrder = FALSE
    Users = {"given", "hasty"}
INVARIANTS
    TypeOK
    WaitingSeesTheServer
    AddGoesToShownTable
PROPERTY
    WaitingEnds
