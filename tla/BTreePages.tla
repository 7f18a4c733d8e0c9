----------------------------- MODULE BTreePages -----------------------------
(***************************************************************************)
(* The algorithms of src/mydb/src/btree.h as operators on a store: the     *)
(* pages a tree occupies and the pager's header.  An operation maps a      *)
(* store to the store after all its page writes, and records those writes  *)
(* in the order the code makes them, so that a module that steps through   *)
(* them one at a time (Engine) executes the same algorithm as one that     *)
(* takes the operation as a whole (BTree).                                 *)
(***************************************************************************)
EXTENDS PageFile, Sequences, SequencesExt

CONSTANTS MAX_LEAF_SLOTS, MAX_INTERNAL_KEYS

ASSUME FanoutAssumption ==
    /\ MAX_LEAF_SLOTS \in Nat /\ MAX_LEAF_SLOTS >= 2
    /\ MAX_INTERNAL_KEYS \in Nat /\ MAX_INTERNAL_KEYS >= 2

Entry(k, v) == [key |-> k, value |-> v]

Leaf(entries, next) == [type |-> "leaf", entries |-> entries, next |-> next]

Internal(keys, children) ==
    [type |-> "internal", keys |-> keys, children |-> children]

\* A blank page read as a leaf has no slots and no successor.
EntriesOf(node) == IF node.type = "leaf" THEN node.entries ELSE <<>>

NextOf(node) == IF node.type \in {"leaf", "link"} THEN node.next ELSE 0

-----------------------------------------------------------------------------
\* A store: pages and header now, and the writes that led here.
Store(file, hdr) == [file |-> file, hdr |-> hdr, writes |-> <<>>]

Put(s, page, content) ==
    [s EXCEPT !.file = WritePage(@, page, content),
              !.writes = Append(@, <<page, content>>)]

\* Mutant of Alloc: the header is not flushed.
AllocUnflushed(s) ==
    Put([s EXCEPT !.hdr = AllocHeader(s.hdr, s.file)], AllocPage(s.hdr), Blank)

\* Pager::allocate_page: the zero page, then the header.
Alloc(s) ==
    LET hdr == AllocHeader(s.hdr, s.file)
    IN  Put(Put([s EXCEPT !.hdr = hdr], AllocPage(s.hdr), Blank),
            HEADER_PAGE_ID, hdr)

\* BTree::create_empty; the new root is AllocPage(s.hdr).
CreateEmpty(s) == Put(Alloc(s), AllocPage(s.hdr), Leaf(<<>>, 0))

-----------------------------------------------------------------------------
\* Mutant of ChildIndex: a key equal to a separator goes left of it.
ChildIndexLeft(keys, k) ==
    LET above == SelectInSeq(keys, LAMBDA sep : k <= sep)
    IN  IF above = 0 THEN Len(keys) + 1 ELSE above

\* The child slot of a key: the first separator above it, or the last child.
ChildIndex(keys, k) ==
    LET above == SelectInSeq(keys, LAMBDA sep : k < sep)
    IN  IF above = 0 THEN Len(keys) + 1 ELSE above

\* The pages from the root down to the first page that is no internal node,
\* taking at each one the child slot that Slot names.
Descent(file, root, Slot(_)) ==
    LET down[p \in PageId] ==
          IF file[p].type = "internal"
          THEN <<p>> \o down[file[p].children[Slot(file[p].keys)]]
          ELSE <<p>>
    IN  down[root]

FindPath(file, root, k) == Descent(file, root, LAMBDA keys : ChildIndex(keys, k))

FindLeaf(file, root, k) == Last(FindPath(file, root, k))

LeftmostPath(file, root) == Descent(file, root, LAMBDA keys : 1)

LeftmostLeaf(file, root) == Last(LeftmostPath(file, root))

\* The position of key k among the entries of a leaf, 0 when it is not there.
PositionOf(entries, k) == SelectInSeq(entries, LAMBDA e : e.key = k)

\* The first entry of key k, as a sequence of at most one.
FirstOf(entries, k) ==
    LET at == PositionOf(entries, k)
    IN  IF at = 0 THEN <<>> ELSE <<entries[at]>>

\* find: the entry of key k on the leaf the descent ends at, if there is one.
Found(file, root, k) ==
    LET on == [leaf \in PageId |-> FirstOf(EntriesOf(file[leaf]), k)]
    IN  on[FindLeaf(file, root, k)]

\* A scan from one leaf along the next pointers: its leaves, its entries.
ChainFrom(file, leaf) ==
    LET from[p \in PageId] ==
          IF NextOf(file[p]) = 0 THEN <<p>> ELSE <<p>> \o from[NextOf(file[p])]
    IN  from[leaf]

EntriesFrom(file, leaf) ==
    LET from[p \in PageId] ==
          IF NextOf(file[p]) = 0 THEN EntriesOf(file[p])
          ELSE EntriesOf(file[p]) \o from[NextOf(file[p])]
    IN  from[leaf]

\* scan starts at the leftmost leaf.
LeafChain(file, root) == ChainFrom(file, LeftmostLeaf(file, root))

ScanEntries(file, root) == EntriesFrom(file, LeftmostLeaf(file, root))

\* update: TRUE and the leaf rewritten when the key is there.
Update(s, root, k, v) ==
    LET leaf == FindLeaf(s.file, root, k)
        node == s.file[leaf]
        at == PositionOf(EntriesOf(node), k)
    IN  IF at = 0 THEN [ok |-> FALSE, store |-> s]
        ELSE [ok |-> TRUE,
              store |-> Put(s, leaf, [node EXCEPT !.entries[at].value = v])]

\* The entries that std::remove_if leaves, in their order.
Without(entries, k) ==
    LET kept[i \in 0 .. Len(entries)] ==
          IF i = 0 THEN <<>>
          ELSE IF entries[i].key = k THEN kept[i - 1]
          ELSE Append(kept[i - 1], entries[i])
    IN  kept[Len(entries)]

\* remove: the leaf without the key; pages are never merged or freed.
RemoveKey(s, root, k) ==
    LET leaf == FindLeaf(s.file, root, k)
        node == s.file[leaf]
        kept == Without(EntriesOf(node), k)
    IN  IF kept = EntriesOf(node) THEN [ok |-> FALSE, store |-> s]
        ELSE [ok |-> TRUE, store |-> Put(s, leaf, Leaf(kept, node.next))]

-----------------------------------------------------------------------------
\* What insert_recursive returns: SplitResult, and the store it leaves.
NoSplit(s) == [split |-> FALSE, sep |-> 0, page |-> 0, store |-> s]
Split(s, sep, page) == [split |-> TRUE, sep |-> sep, page |-> page, store |-> s]

\* std::lower_bound, then insert there.
InsertEntry(entries, e) ==
    LET at == SelectInSeq(entries, LAMBDA x : x.key >= e.key)
    IN  InsertAt(entries, IF at = 0 THEN Len(entries) + 1 ELSE at, e)

\* A leaf split.  The left half is written, already linked to the new page,
\* before the new page gets its half and the old page's successor.
HalveLeaf(s, leaf, all, next) ==
    LET mid == Len(all) \div 2
        right == AllocPage(s.hdr)
        rest == SubSeq(all, mid + 1, Len(all))
        linked == Put(Alloc(s), leaf, Leaf(SubSeq(all, 1, mid), right))
    IN  Split(Put(linked, right, Leaf(rest, next)), rest[1].key, right)

\* Mutant of InsertIntoLeaf: the limit is off by one.
OverfullLeaf(s, leaf, e) ==
    LET node == s.file[leaf]
        all == InsertEntry(node.entries, e)
    IN  IF Len(all) <= MAX_LEAF_SLOTS + 1
        THEN NoSplit(Put(s, leaf, Leaf(all, node.next)))
        ELSE HalveLeaf(s, leaf, all, node.next)

\* insert_recursive at a leaf.
InsertIntoLeaf(s, leaf, e) ==
    LET node == s.file[leaf]
        all == InsertEntry(node.entries, e)
    IN  IF Len(all) <= MAX_LEAF_SLOTS
        THEN NoSplit(Put(s, leaf, Leaf(all, node.next)))
        ELSE HalveLeaf(s, leaf, all, node.next)

\* The split of an internal node: the middle key moves up.
HalveInternal(s, pid, keys, children) ==
    LET mid == Len(keys) \div 2
        right == AllocPage(s.hdr)
        left == Put(Alloc(s), pid, Internal(SubSeq(keys, 1, mid),
                                            SubSeq(children, 1, mid + 1)))
    IN  Split(Put(left, right,
                  Internal(SubSeq(keys, mid + 2, Len(keys)),
                           SubSeq(children, mid + 2, Len(children)))),
              keys[mid + 1], right)

\* Mutant of InsertIntoInternal: a split node reports its child's new page as
\* its own.
ReportsChildPage(pid, k, r) ==
    LET node == r.store.file[pid]
        idx == ChildIndex(node.keys, k)
        keys == InsertAt(node.keys, idx, r.sep)
        children == InsertAt(node.children, idx + 1, r.page)
    IN  IF ~r.split THEN r
        ELSE IF Len(keys) <= MAX_INTERNAL_KEYS
        THEN NoSplit(Put(r.store, pid, Internal(keys, children)))
        ELSE [HalveInternal(r.store, pid, keys, children) EXCEPT !.page = r.page]

\* insert_recursive at an internal node, after the child returned r.
InsertIntoInternal(pid, k, r) ==
    LET node == r.store.file[pid]
        idx == ChildIndex(node.keys, k)
        keys == InsertAt(node.keys, idx, r.sep)
        children == InsertAt(node.children, idx + 1, r.page)
    IN  IF ~r.split THEN r
        ELSE IF Len(keys) <= MAX_INTERNAL_KEYS
        THEN NoSplit(Put(r.store, pid, Internal(keys, children)))
        ELSE HalveInternal(r.store, pid, keys, children)

\* insert_recursive from the root, unwound along the path of the descent.
InsertRecursive(s, root, e) ==
    LET path == FindPath(s.file, root, e.key)
        at[i \in 1 .. Len(path)] ==
          IF i = Len(path) THEN InsertIntoLeaf(s, path[i], e)
          ELSE InsertIntoInternal(path[i], e.key, at[i + 1])
    IN  at[1]

\* A split of the root puts a new root above both halves; which page is the
\* root is kept in memory.
GrowRoot(root, r) ==
    LET top == AllocPage(r.store.hdr)
    IN  IF ~r.split THEN [ok |-> TRUE, root |-> root, store |-> r.store]
        ELSE [ok |-> TRUE, root |-> top,
              store |-> Put(Alloc(r.store), top,
                            Internal(<<r.sep>>, <<root, r.page>>))]

\* Mutant of Insert: a duplicate is let in.
InsertAnyway(s, root, k, v) == GrowRoot(root, InsertRecursive(s, root, Entry(k, v)))

\* insert: a duplicate is refused before anything is written.
Insert(s, root, k, v) ==
    IF Found(s.file, root, k) # <<>>
    THEN [ok |-> FALSE, root |-> root, store |-> s]
    ELSE GrowRoot(root, InsertRecursive(s, root, Entry(k, v)))

-----------------------------------------------------------------------------
(* Views of a tree that its properties are stated with.                    *)

\* The pages reachable from root by child pointers.
Children(node) == IF node.type = "internal" THEN ToSet(node.children) ELSE {}

TreePages(file, root) ==
    LET below[p \in PageId] == {p} \cup UNION {below[c] : c \in Children(file[p])}
    IN  below[root]
=============================================================================
