------------------------------- MODULE BTree --------------------------------
(***************************************************************************)
(* One b-tree of src/mydb/src/btree.h, alone in the file: its operations,  *)
(* each taken as a whole, in every order.  The tree starts as the catalog  *)
(* tree of a fresh file: one empty leaf.  Crashes inside an operation are  *)
(* the business of Engine.                                                 *)
(***************************************************************************)
EXTENDS BTreePages, FiniteSets

CONSTANTS Keys, Values

\* Keys are 64-bit row and table ids; a value is none of the answers.
ASSUME KeysAssumption == Keys \subseteq Nat /\ Keys # {}

ASSUME ValuesAssumption == {"none", "ok", "duplicate", "absent"} \cap Values = {}

VARIABLES
    file,     \* the pages
    hdr,      \* the pager's header in memory
    root,     \* root_page_id_
    ret       \* what the last operation answered

vars == <<file, hdr, root, ret>>

Init ==
    /\ file = [p \in PageId |->
                 CASE p = HEADER_PAGE_ID -> FreshHeader
                   [] p = CATALOG_ROOT_PAGE_ID -> Leaf(<<>>, 0)
                   [] OTHER -> Absent]
    /\ hdr = FreshHeader
    /\ root = CATALOG_ROOT_PAGE_ID
    /\ ret = "none"

Here == Store(file, hdr)

Answer(ok, no) == IF ok THEN "ok" ELSE no

\* An insert takes at most a page per level and one for a new root.
CanInsert(k) == CanAlloc(hdr, Len(FindPath(file, root, k)) + 1)

DoInsert(k, v) ==
    /\ CanInsert(k)
    /\ LET r == Insert(Here, root, k, v)
       IN  /\ file' = r.store.file /\ hdr' = r.store.hdr /\ root' = r.root
           /\ ret' = Answer(r.ok, "duplicate")

DoUpdate(k, v) ==
    LET r == Update(Here, root, k, v)
    IN  /\ file' = r.store.file
        /\ ret' = Answer(r.ok, "absent")
        /\ UNCHANGED <<hdr, root>>

DoRemove(k) ==
    LET r == RemoveKey(Here, root, k)
    IN  /\ file' = r.store.file
        /\ ret' = Answer(r.ok, "absent")
        /\ UNCHANGED <<hdr, root>>

DoFind(k) ==
    LET r == Found(file, root, k)
    IN  /\ ret' = IF r = <<>> THEN "absent" ELSE r[1].value
        /\ UNCHANGED <<file, hdr, root>>

Next ==
    \E k \in Keys :
        \/ DoRemove(k) \/ DoFind(k)
        \/ \E v \in Values : DoInsert(k, v) \/ DoUpdate(k, v)

Spec == Init /\ [][Next]_vars

-----------------------------------------------------------------------------
\* The pages the tree occupies.
Pages == TreePages(file, root)

\* Every page of the tree is a leaf or an internal node within the limits
\* that write_leaf_entries and write_internal would throw on, and an internal
\* node has one child more than it has keys.
TypeOK ==
    /\ hdr = file[HEADER_PAGE_ID]
    /\ root \in Pages
    /\ \A p \in Pages :
         LET node == file[p]
         IN  \/ /\ node.type = "leaf"
                /\ Len(node.entries) <= MAX_LEAF_SLOTS
                /\ \A i \in DOMAIN node.entries :
                     node.entries[i] \in [key : Keys, value : Values]
                /\ node.next \in PageId
             \/ /\ node.type = "internal"
                /\ Len(node.keys) \in 1 .. MAX_INTERNAL_KEYS
                /\ Len(node.children) = Len(node.keys) + 1

\* The two ways to reach a row agree: what a scan passes is strictly
\* ascending, and a descent for any key ends at the leaf whose entry for that
\* key the scan passes.
ScanFindAgree ==
    LET seen == ScanEntries(file, root)
    IN  /\ \A i, j \in DOMAIN seen : i < j => seen[i].key < seen[j].key
        /\ \A k \in Keys :
             Found(file, root, k) = FirstOf(seen, k)

\* All leaves are equally deep, so every descent is as long as the leftmost.
Balanced ==
    \A k \in Keys :
        Len(FindPath(file, root, k)) = Len(LeftmostPath(file, root))

\* The slots, with the pages they are on, that point to page p.
ParentSlots(p) ==
    {at \in Pages \X (1 .. MAX_INTERNAL_KEYS + 1) :
       LET node == file[at[1]]
       IN  /\ node.type = "internal"
           /\ at[2] \in DOMAIN node.children /\ node.children[at[2]] = p}

\* Splits neither lose nor share a page: every page allocated so far is in
\* the tree, the root is nobody's child and every other page has one parent;
\* and the scan's chain visits every leaf once.
EveryPageUsedOnce ==
    LET chain == LeafChain(file, root)
    IN  /\ Pages = 1 .. hdr.num_pages - 1
        /\ \A p \in Pages : Cardinality(ParentSlots(p)) = IF p = root THEN 0 ELSE 1
        /\ ToSet(chain) = {p \in Pages : file[p].type = "leaf"}
        /\ Len(chain) = Cardinality(ToSet(chain))

\* The shape that a descent and a scan rely on (btree.h:219, insert_recursive).
WellFormed == Balanced /\ EveryPageUsedOnce

-----------------------------------------------------------------------------
\* The map the tree stands for, read the way scan reads it.
Map == ToSet(ScanEntries(file, root))

Abstract == INSTANCE Dict WITH map <- Map

\* The tree implements the dictionary: whatever splits happen, every
\* operation answers and changes exactly what the map's operation does.
ImplementsDict == Abstract!Spec
=============================================================================
