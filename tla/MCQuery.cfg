\* Every content of two tables of up to two rows, and SELECTs over them.
SPECIFICATION Spec
CONSTANTS
    t = t
    u = u
    a = a
    x = x
    s = s
    none = none
    star = star
    Tables <- MCTables
    Schema <- MCSchema
    NoName <- none
    Star <- star
    Ints <- MCInts
    Doubles <- MCDoubles
    Unit = 2
    ToDouble <- MCToDouble
    Exact = 2
    Texts = {0, 1}
    Inserts <- MCInserts
    Updates <- MCUpdates
    Deletes <- MCDeletes
    Selects <- MCSelects
    MaxRows = 2
INVARIANTS
    SelectIsRight
    ComparisonIsOrder
PROPERTY WritesWhatItPicked
CHECK_DEADLOCK FALSE
