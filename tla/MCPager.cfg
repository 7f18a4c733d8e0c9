\* Six pages: the header, the catalog root and four pages that are
\* allocated, released and allocated again in every order, with a crash
\* between any two writes.
SPECIFICATION Spec
CONSTANTS
    MaxPages = 6
    MaxTableId = 3
INVARIANTS
    TypeOK
    DurableFreeListSound
    AllocatedPageIsFresh
    TableIdsRetired
    OpensOnceCreated
PROPERTY
    HeldPagesKept
