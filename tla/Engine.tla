------------------------------- MODULE Engine -------------------------------
(***************************************************************************)
(* The storage engine: the pager's header, the catalog (catalog.h) and the *)
(* tables (table.h) over b-trees in one file.  An operation computes its   *)
(* page writes (the algorithms of BTreePages, in the order of the code)    *)
(* and the file receives them one at a time; the process may die between   *)
(* any two.  A restart rebuilds what is in memory from the file.           *)
(*                                                                         *)
(* Nothing else runs while an operation does: the server has one thread.   *)
(* The constraint checks of table.h, which only read, are in Relational.   *)
(***************************************************************************)
EXTENDS BTreePages, FiniteSets

CONSTANTS
    Names,        \* table names
    Values,       \* row contents
    MaxTableId,   \* bound on next_table_id
    MaxRowid,     \* bound on the row ids of each table
    MaxCrashes    \* bound on the crashes inside an operation

ASSUME EngineAssumption ==
    MaxTableId \in Nat /\ MaxRowid \in [Names -> Nat] /\ MaxCrashes \in Nat

VARIABLES
    file,       \* the pages on disk
    todo,       \* the writes of the running operation still to come
    up,         \* a process has the file open
    hdr,        \* Pager::hdr_
    cat_root,   \* Catalog::tree_.root_page_id_
    by_name,    \* Catalog::by_name_
    before,     \* history: the tables when the running operation started
    after,      \* history: the tables it is to leave
    op,         \* history: the table it works on, and which trees it splits
    torn,       \* history: the trees a crash caught in the middle of a split
    crashes     \* number of crashes inside an operation so far

mem == <<up, hdr, cat_root, by_name>>
ghosts == <<before, after, op, torn>>
vars == <<file, todo, mem, ghosts, crashes>>

\* A name by_name_ has no entry for.
NoDef == [table_id |-> 0, name |-> "none", root_page |-> 0, next_rowid |-> 0]

\* The tree the catalog is in, as a member of torn.
CatalogTree == "catalog"

\* The part of the header block that a process without the file open has.
NoHeader == Header(0, 0, 0, 0)

-----------------------------------------------------------------------------
\* Catalog's constructor: the entries of the catalog tree in scan order; of
\* two entries with one name the later stays in the map.
LoadDefs(f, root) ==
    LET blobs == ScanEntries(f, root)
    IN  [n \in Names |->
           LET at == SelectLastInSeq(blobs, LAMBDA e : e.value.name = n)
           IN  IF at = 0 THEN NoDef ELSE blobs[at].value]

DiskDefs == LoadDefs(file, file[HEADER_PAGE_ID].catalog_root)

\* The tables as the SQL layer sees them through the definitions defs: a row
\* is there when scan passes it and get_row, for its id, finds it.
RowsAt(f, root) ==
    {e \in ToSet(ScanEntries(f, root)) : Found(f, root, e.key) = <<e>>}

View(f, defs) ==
    [n \in Names |->
       IF defs[n] = NoDef THEN [rows |-> {}, next_rowid |-> 0]
       ELSE [rows |-> RowsAt(f, defs[n].root_page),
             next_rowid |-> defs[n].next_rowid]]

NoOp == [table |-> "none", splits |-> {}]

NoTables == [n \in Names |-> [rows |-> {}, next_rowid |-> 0]]

Init ==
    /\ file = [p \in PageId |->
                 CASE p = HEADER_PAGE_ID -> FreshHeader
                   [] p = CATALOG_ROOT_PAGE_ID -> Leaf(<<>>, 0)
                   [] OTHER -> Absent]
    /\ todo = <<>>
    /\ up = FALSE
    /\ hdr = NoHeader
    /\ cat_root = 0
    /\ by_name = [n \in Names |-> NoDef]
    /\ before = NoTables /\ after = NoTables /\ op = NoOp
    /\ torn = {}
    /\ crashes = 0

-----------------------------------------------------------------------------
Idle == up /\ todo = <<>>

Here == Store(file, hdr)

NothingRuns == before' = NoTables /\ after' = NoTables /\ op' = NoOp

\* Every operation: its writes are to come, what it changes in memory it has
\* changed (nothing reads it before the last write, and a crash forgets it).
\* One that writes nothing is over at once.
Begin(n, s, root, defs, splits) ==
    /\ todo' = s.writes
    /\ hdr' = s.hdr
    /\ cat_root' = root
    /\ by_name' = defs
    /\ IF s.writes = <<>> THEN NothingRuns
       ELSE /\ before' = View(file, by_name)
            /\ after' = View(s.file, defs)
            /\ op' = [table |-> n, splits |-> splits]
    /\ UNCHANGED <<file, up, torn, crashes>>

\* Mutant of SyncRoot: the new root is set in memory and not flushed.
SyncRootInMemory(s, root) == [s EXCEPT !.hdr.catalog_root = root]

\* Catalog::sync_root.
SyncRoot(s, root) ==
    IF root = s.hdr.catalog_root THEN s
    ELSE LET h == [s.hdr EXCEPT !.catalog_root = root]
         IN  Put([s EXCEPT !.hdr = h], HEADER_PAGE_ID, h)

\* Mutant of Save: only a new root is worth saving.
SaveNewRoot(s, def) ==
    IF def.root_page = by_name[def.name].root_page THEN s
    ELSE Update(s, cat_root, def.table_id, def).store

\* Catalog::save, which ignores whether the entry was there.
Save(s, def) == SyncRoot(Update(s, cat_root, def.table_id, def).store, cat_root)

\* Did the tree at root gain pages between the stores s and t?
Grown(s, t) == s.hdr.num_pages < t.hdr.num_pages

\* Catalog::create_table; has_table refuses a name in use.
CreateTable(n) ==
    /\ Idle
    /\ by_name[n] = NoDef
    /\ hdr.next_table_id <= MaxTableId
    /\ CanAlloc(hdr, Len(FindPath(file, cat_root, MaxTableId)) + 2)
    /\ LET counted == [hdr EXCEPT !.next_table_id = @ + 1]
           s1 == Put([Here EXCEPT !.hdr = counted], HEADER_PAGE_ID, counted)
           def == [table_id |-> hdr.next_table_id, name |-> n,
                   root_page |-> AllocPage(s1.hdr), next_rowid |-> 1]
           s2 == CreateEmpty(s1)
           r == Insert(s2, cat_root, def.table_id, def)
       IN  Begin(n, SyncRoot(r.store, r.root), r.root,
                 IF r.ok THEN [by_name EXCEPT ![n] = def] ELSE by_name,
                 IF Grown(s2, r.store) THEN {CatalogTree} ELSE {})

\* create_table of a definition too large for a slot: the catalog's insert
\* throws, and the table id and the page of the empty tree are used up.
CreateTooLarge(n) ==
    /\ Idle
    /\ by_name[n] = NoDef
    /\ hdr.next_table_id <= MaxTableId
    /\ CanAlloc(hdr, 1)
    /\ LET counted == [hdr EXCEPT !.next_table_id = @ + 1]
           s1 == Put([Here EXCEPT !.hdr = counted], HEADER_PAGE_ID, counted)
       IN  Begin(n, CreateEmpty(s1), cat_root, by_name, {})

\* Catalog::drop_table: the entry goes, the table's pages stay allocated.
DropTable(n) ==
    /\ Idle
    /\ by_name[n] # NoDef
    /\ LET r == RemoveKey(Here, cat_root, by_name[n].table_id)
       IN  Begin(n, SyncRoot(r.store, cat_root), cat_root,
                 [by_name EXCEPT ![n] = NoDef], {})

\* Mutant of InsertRow: the definition keeps the old root.
InsertKeepsRoot(n, v) ==
    /\ Idle
    /\ by_name[n] # NoDef
    /\ by_name[n].next_rowid <= MaxRowid[n]
    /\ CanAlloc(hdr, Len(FindPath(file, by_name[n].root_page, MaxRowid[n])) + 1)
    /\ LET def == by_name[n]
           r == Insert(Here, def.root_page, def.next_rowid, v)
           saved == [def EXCEPT !.next_rowid = @ + 1]
       IN  /\ r.ok
           /\ Begin(n, Save(r.store, saved), cat_root,
                    [by_name EXCEPT ![n] = saved], {})

\* Table::insert_row after its checks, and persist.  A duplicate row id is
\* refused before anything is written or saved.
InsertRow(n, v) ==
    /\ Idle
    /\ by_name[n] # NoDef
    /\ by_name[n].next_rowid <= MaxRowid[n]
    /\ CanAlloc(hdr, Len(FindPath(file, by_name[n].root_page, MaxRowid[n])) + 1)
    /\ LET def == by_name[n]
           r == Insert(Here, def.root_page, def.next_rowid, v)
           saved == [def EXCEPT !.root_page = r.root, !.next_rowid = @ + 1]
       IN  /\ r.ok
           /\ Begin(n, Save(r.store, saved), cat_root,
                    [by_name EXCEPT ![n] = saved],
                    IF Grown(Here, r.store) THEN {n} ELSE {})

\* Mutant of UpdateRow: the row is removed and inserted again.
UpdateByReinsert(n, rowid, v) ==
    /\ Idle
    /\ by_name[n] # NoDef
    /\ LET r == RemoveKey(Here, by_name[n].root_page, rowid)
           q == Insert(r.store, by_name[n].root_page, rowid, v)
       IN  /\ r.ok
           /\ Begin(n, Save(q.store, by_name[n]), cat_root, by_name, {})

\* Table::update_row and Table::delete_row of a row id, and persist, which
\* writes the definition back although nothing in it changed.
UpdateRow(n, rowid, v) ==
    /\ Idle
    /\ by_name[n] # NoDef
    /\ LET r == Update(Here, by_name[n].root_page, rowid, v)
       IN  /\ r.ok
           /\ Begin(n, Save(r.store, by_name[n]), cat_root, by_name, {})

DeleteRow(n, rowid) ==
    /\ Idle
    /\ by_name[n] # NoDef
    /\ LET r == RemoveKey(Here, by_name[n].root_page, rowid)
       IN  /\ r.ok
           /\ Begin(n, Save(r.store, by_name[n]), cat_root, by_name, {})

-----------------------------------------------------------------------------
\* The next write_page of the running operation; after the last one it is
\* over and its answer is given.
WriteNext ==
    /\ up /\ todo # <<>>
    /\ file' = WritePage(file, Head(todo)[1], Head(todo)[2])
    /\ todo' = Tail(todo)
    /\ IF todo' = <<>> THEN NothingRuns ELSE UNCHANGED <<before, after, op>>
    /\ UNCHANGED <<mem, torn, crashes>>

\* The process goes away and memory with it.
Forget ==
    /\ up' = FALSE
    /\ todo' = <<>>
    /\ hdr' = NoHeader
    /\ cat_root' = 0
    /\ by_name' = [n \in Names |-> NoDef]

\* An orderly end, between two operations.
Stop ==
    /\ Idle
    /\ Forget
    /\ UNCHANGED <<file, ghosts, crashes>>

\* An end inside an operation: some of its writes reached the file.
Crash ==
    /\ up /\ todo # <<>>
    /\ crashes < MaxCrashes
    /\ crashes' = crashes + 1
    /\ Forget
    /\ torn' = torn \cup op.splits
    /\ UNCHANGED <<file, before, after, op>>

\* main: the Pager's constructor, then the Catalog's.
Start ==
    /\ ~up
    /\ up' = TRUE
    /\ hdr' = file[HEADER_PAGE_ID]
    /\ cat_root' = file[HEADER_PAGE_ID].catalog_root
    /\ by_name' = DiskDefs
    /\ NothingRuns
    /\ UNCHANGED <<file, todo, torn, crashes>>

Next ==
    \/ WriteNext \/ Stop \/ Crash \/ Start
    \/ \E n \in Names :
         \/ CreateTable(n) \/ CreateTooLarge(n) \/ DropTable(n)
         \/ \E v \in Values : InsertRow(n, v)
         \/ \E rowid \in 1 .. MaxRowid[n] :
              \/ DeleteRow(n, rowid)
              \/ \E v \in Values : UpdateRow(n, rowid, v)

Spec == Init /\ [][Next]_vars

-----------------------------------------------------------------------------
\* The definitions in force: the cache of a running process, or what the next
\* one will load.
Defs == IF up THEN by_name ELSE DiskDefs

Tables(defs) == {n \in Names : defs[n] # NoDef}

\* The header in memory is the one on disk whenever no write is due, and the
\* cache maps each name to the definition of that name.
TypeOK ==
    /\ todo = <<>> /\ up => hdr = file[HEADER_PAGE_ID]
    /\ \A n \in Tables(Defs) :
         Defs[n] \in [table_id : 1 .. MaxTableId, name : {n},
                      root_page : PageId \ {0}, next_rowid : 1 .. MaxRowid[n] + 1]

\* A tree can be descended: no pointer leads out of the allocated file, to
\* the header, or to a page that is still blank.
Descendable(root) ==
    \A p \in TreePages(file, root) :
        /\ p \in 1 .. file[HEADER_PAGE_ID].num_pages - 1
        /\ file[p].type \in {"leaf", "internal"}

\* At every moment, between any two writes and whatever crashes came before,
\* a process that starts on the file finds trees it can descend and scan, and
\* no page belongs to two of them, so no later write to one table can damage
\* another.
StructureSafe ==
    LET root(n) == IF n = CatalogTree THEN file[HEADER_PAGE_ID].catalog_root
                   ELSE DiskDefs[n].root_page
        trees == Tables(DiskDefs) \cup {CatalogTree}
        pages(n) == TreePages(file, root(n)) \cup ToSet(LeafChain(file, root(n)))
    IN  /\ \A n \in trees : Descendable(root(n))
        /\ \A m, n \in trees : m # n => pages(m) \cap pages(n) = {}

\* A tree scans in ascending order, and what it scans is what it finds.
Sound(root, keys) ==
    LET seen == ScanEntries(file, root)
    IN  /\ \A i, j \in DOMAIN seen : i < j => seen[i].key < seen[j].key
        /\ \A k \in keys :
             Found(file, root, k) = FirstOf(seen, k)

\* A crash that did not hit a split leaves every table sound for ever: its
\* rows ascend, scan and find agree on them, and its row id counter lags
\* behind the rows by one at most, so a row id is never put on two rows.
SoundUnlessTorn ==
    (todo = <<>> /\ CatalogTree \notin torn) =>
      /\ Sound(file[HEADER_PAGE_ID].catalog_root, 1 .. MaxTableId)
      /\ \A n \in Tables(Defs) \ torn :
           /\ Sound(Defs[n].root_page, 1 .. MaxRowid[n])
           /\ \A e \in ToSet(ScanEntries(file, Defs[n].root_page)) :
                e.key <= Defs[n].next_rowid

\* What a crash can cost, as long as none hit a split of the catalog.  The
\* tables the interrupted operation does not name keep their rows; the one it
\* names has the rows from before it or from after it, unless its tree was
\* splitting.
CrashIsConfined ==
    (~up /\ op # NoOp /\ CatalogTree \notin torn) =>
      LET now == View(file, DiskDefs)
      IN  \A n \in Names \ op.splits :
            \/ now[n].rows = after[n].rows
            \/ n = op.table /\ now[n].rows = before[n].rows

\* The catalog a process works from is the catalog in the file: no operation
\* leaves a definition behind that the next start would load differently.
CacheCoherent ==
    (Idle /\ CatalogTree \notin torn) =>
        by_name = DiskDefs /\ cat_root = file[HEADER_PAGE_ID].catalog_root

-----------------------------------------------------------------------------
Abstract ==
    INSTANCE Store WITH db <- IF todo = <<>> THEN View(file, Defs) ELSE before

\* With no crash inside an operation, splits, saved definitions and orderly
\* restarts are invisible: the engine is the Store of the SQL layer.
ImplementsStore == Abstract!Spec
=============================================================================
