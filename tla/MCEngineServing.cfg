\* No crash inside an operation: what the SQL layer relies on.  Three tables
\* split the catalog's leaf, three rows split a table's.
SPECIFICATION MCSpec
CONSTANTS
    MAX_LEAF_SLOTS = 2
    MAX_INTERNAL_KEYS = 2
    MaxPages = 11
    MaxTableId = 3
    MaxRowid <- ServingRows
    MaxCrashes = 0
    t1 = t1
    t2 = t2
    t3 = t3
    a = a
    Plans = {"serving"}
    Names <- ThreeNames
    Values <- OneValue
INVARIANTS
    TypeOK
    CacheCoherent
PROPERTY
    ImplementsStore
