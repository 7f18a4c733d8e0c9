\* A crash between any two writes of any operation: one on two tables of which the
\* first grows to a third leaf, or two on three tables, enough to split the root of
\* the catalog.
SPECIFICATION MCSpec
CONSTANTS
    MAX_LEAF_SLOTS = 2
    MAX_INTERNAL_KEYS = 2
    MaxPages = 11
    MaxTableId = 4
    MaxRowid <- CrashRows
    MaxCrashes = 2
    t1 = t1
    t2 = t2
    t3 = t3
    a = a
    Plans = {"crash in rows", "crash in catalog"}
    Names <- ThreeNames
    Values <- OneValue
CONSTRAINT
    Explored
INVARIANTS
    StructureSafe
    SoundUnlessTorn
    CrashIsConfined
