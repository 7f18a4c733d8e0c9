\* Leaves of two entries, internal nodes of two keys (eight and four in the
\* code).  Eleven pages never stop an insert of five keys.
SPECIFICATION Spec
CONSTANTS
    MAX_LEAF_SLOTS = 2
    MAX_INTERNAL_KEYS = 2
    MaxPages = 11
    a = a
    b = b
    Keys <- MCKeys
    Values <- MCValues
SYMMETRY MCSymmetry
INVARIANTS
    TypeOK
    ScanFindAgree
    WellFormed
PROPERTY
    ImplementsDict
