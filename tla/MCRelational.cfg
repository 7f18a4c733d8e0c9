\* Two rows of each of two tables that refer to users, users to itself: every
\* interleaving of statements that succeed, fail half-way or are cut off.
SPECIFICATION Spec
CONSTANTS
    users = users
    orders = orders
    i0 = i0
    i1 = i1
    r0 = r0
    t0 = t0
    Tables <- MCTables
    Schema <- MCSchema
    Vals <- MCVals
    Zero <- MCZero
    Null = Null
    Keep = Keep
    MaxRowid = 2
PROPERTY
    UsesStore
INVARIANTS
    TypeOK
    NotNullHolds
    UniqueHolds
    NoInventedReference
