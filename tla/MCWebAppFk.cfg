\* A user who does not wait for two requests, answered in the order sent.
SPECIFICATION MCSpec
CONSTANTS
    t1 = t1
    t2 = t2
    None = None
    Tables <- TwoTables
    FkTo <- Columns
    MaxGen = 1
    MaxRowid = 0
    MaxCalls = 2
    Patient = FALSE
    InOrder = TRUE
    Users = {"given"}
INVARIANT
    AddGoesToShownTable
