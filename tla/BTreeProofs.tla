---------------------------- MODULE BTreeProofs -----------------------------
(***************************************************************************)
(* One tree, for every set of keys and of values, every fanout and every   *)
(* bound on the file: the pages keep the shape of a tree, find and scan    *)
(* agree, and the tree is the map of Dict.                                 *)
(***************************************************************************)
EXTENDS BTree, BTreeLemmas, FiniteSetTheorems

\* A tree that has the file to itself.
Whole == [pages |-> {}, from |-> 1]

Alone(K, V, s, root0, rng, lvl, chain) ==
    /\ GoodStore(s)
    /\ \A p \in PageId : p >= s.hdr.num_pages => s.file[p] = Absent
    /\ Tree(K, V, s.file, Own(Whole, s.hdr), root0, rng, lvl, chain)

\* The entries of the tree.
Contents == Held(file, Own(Whole, hdr))

\* The file holds the tree and nothing else.
IInv == \E rng, lvl, chain : Alone(Keys, Values, Here, root, rng, lvl, chain)

\* What the pages of the file are.
LEMMA AlonePages ==
    ASSUME NEW K, NEW V, NEW s, NEW root0, NEW rng, NEW lvl, NEW chain,
           Alone(K, V, s, root0, rng, lvl, chain)
    PROVE  /\ Own(Whole, s.hdr) \subseteq PageId \ {0} /\ Based(Whole, s.hdr)
           /\ K \subseteq Int /\ rng \in [PageId -> SUBSET K]
           /\ lvl \in [PageId -> Nat] /\ (\A p \in PageId : lvl[p] <= lvl[root0])
           /\ root0 \in Own(Whole, s.hdr)
           /\ \A p \in Own(Whole, s.hdr) : PageOK(K, V, Own(Whole, s.hdr), rng, rng, lvl, p, s.file[p])
           /\ \A p \in PageId \ Own(Whole, s.hdr) :
                /\ s.file[p].type # "internal" /\ NextOf(s.file[p]) = 0
                /\ EntriesOf(s.file[p]) = <<>>
<1> DEFINE own == Own(Whole, s.hdr)
<1>1. s.hdr.num_pages \in 1 .. MaxPages /\ MaxPages \in Nat
  BY MaxPagesAssumption DEF Alone, GoodStore, GoodHeader
<1>2. Based(Whole, s.hdr)
  BY <1>1 DEF Based, Whole
<1>3. own \subseteq PageId \ {0}
  BY <1>1, <1>2, OwnFacts
<1>4. ASSUME NEW p \in PageId \ own
      PROVE  /\ s.file[p].type # "internal" /\ NextOf(s.file[p]) = 0
             /\ EntriesOf(s.file[p]) = <<>>
  <2>1. p = 0 \/ p >= s.hdr.num_pages
    BY <1>1 DEF Own, Whole, PageId
  <2>2. s.file[p].type \in {"header", "absent"}
    BY <2>1 DEF Alone, GoodStore, GoodHeader, Absent, HEADER_PAGE_ID
  <2> QED
    BY <2>2 DEF NextOf, EntriesOf
<1>5. Tree(K, V, s.file, own, root0, rng, lvl, chain)
  BY DEF Alone
<1> HIDE DEF own
<1>6. /\ K \subseteq Int /\ rng \in [PageId -> SUBSET K]
      /\ lvl \in [PageId -> Nat] /\ (\A p \in PageId : lvl[p] <= lvl[root0])
      /\ root0 \in own
      /\ \A p \in own : PageOK(K, V, own, rng, rng, lvl, p, s.file[p])
  BY <1>5 DEF Tree, Forest, Typed
<1> QED
  BY <1>2, <1>3, <1>4, <1>6 DEF own

\* Child pointers lead to lower levels only, so a descent ends.
LEMMA AloneGrounded ==
    ASSUME NEW K, NEW V, NEW s, NEW root0, NEW rng, NEW lvl, NEW chain,
           Alone(K, V, s, root0, rng, lvl, chain)
    PROVE  Grounded(s.file)
<1> DEFINE own == Own(Whole, s.hdr)
           rk == [p \in PageId |-> lvl[p]]
<1>1. /\ own \subseteq PageId \ {0} /\ K \subseteq Int
      /\ \A p \in PageId \ own : s.file[p].type # "internal"
      /\ \A p \in own : PageOK(K, V, own, rng, rng, lvl, p, s.file[p])
      /\ lvl \in [PageId -> Nat] /\ (\A p \in PageId : lvl[p] <= lvl[root0])
      /\ root0 \in own
  BY AlonePages
<1> HIDE DEF own
<1>2. lvl[root0] \in Nat /\ rk \in [PageId -> 0 .. lvl[root0]]
  BY <1>1
<1>3. ASSUME NEW p \in PageId, s.file[p].type = "internal"
      PROVE  /\ Points(s.file[p])
             /\ \A i \in 1 .. Len(s.file[p].children) : rk[s.file[p].children[i]] < rk[p]
  <2>1. p \in own
    BY <1>1, <1>3
  <2>2. lvl[p] \in Nat /\ lvl[p] # 0
    <3>1. lvl[p] = 0 => s.file[p].type = "leaf"
      BY <1>1, <2>1, PageFacts
    <3> QED
      BY <1>1, <1>3, <3>1
  <2>3. /\ InnerOK(K, own, s.file[p])
        /\ Slotted(own, rng, lvl, rng[p], lvl[p], s.file[p].keys, s.file[p].children)
    BY <1>1, <2>1, <2>2, PageFacts
  <2>4. Points(s.file[p])
    BY <1>1, <2>3, SeqMonotonic DEF InnerOK, Points
  <2>5. \A i \in 1 .. Len(s.file[p].children) : rk[s.file[p].children[i]] < rk[p]
    BY <1>1, <2>2, <2>3 DEF Slotted
  <2> QED
    BY <2>4, <2>5
<1>4. \E r \in [PageId -> 0 .. lvl[root0]] :
        \A p \in PageId : s.file[p].type = "internal" =>
          /\ Points(s.file[p])
          /\ \A i \in 1 .. Len(s.file[p].children) : r[s.file[p].children[i]] < r[p]
  <2> HIDE DEF rk
  <2> QED
    BY <1>2, <1>3
<1> QED
  BY <1>2, <1>4 DEF Grounded

\* Next pointers lead along the chain only, so a scan ends.
LEMMA AloneLinked ==
    ASSUME NEW K, NEW V, NEW s, NEW root0, NEW rng, NEW lvl, NEW chain,
           Alone(K, V, s, root0, rng, lvl, chain)
    PROVE  Linked(s.file)
<1> DEFINE own == Own(Whole, s.hdr)
           n == Len(chain)
           rk == [p \in PageId |-> IF \E i \in 1 .. n : chain[i] = p
                                   THEN n - (CHOOSE i \in 1 .. n : chain[i] = p) ELSE 0]
<1>1. /\ own \subseteq PageId \ {0} /\ K \subseteq Int /\ rng \in [PageId -> SUBSET K]
      /\ \A p \in PageId \ own : NextOf(s.file[p]) = 0
      /\ \A p \in own : PageOK(K, V, own, rng, rng, lvl, p, s.file[p]) /\ lvl[p] \in Nat
  BY AlonePages
<1>2. Chained(s.file, own, rng, lvl, chain)
  BY DEF Alone, Tree, Forest
<1>3. /\ n \in Nat /\ \A i \in 1 .. n : chain[i] \in own
      /\ \A i \in 1 .. n : lvl[chain[i]] = 0
      /\ \A i \in 1 .. n : s.file[chain[i]].next = IF i = n THEN 0 ELSE chain[i + 1]
      /\ \A p \in own : lvl[p] = 0 => \E i \in 1 .. n : chain[i] = p
  BY <1>2, LenProperties, ElementOfSeq DEF Chained
<1>4. \A i, j \in 1 .. n : chain[i] = chain[j] => i = j
  <2>1. ASSUME NEW i \in 1 .. n, NEW j \in 1 .. n, chain[i] = chain[j], i < j
        PROVE  FALSE
    <3>1. rng[chain[i]] # {} /\ rng[chain[i]] \subseteq Int
      BY <1>1, <1>3 DEF PageOK
    <3>2. PICK x \in rng[chain[i]] : x \in Int
      BY <3>1
    <3>3. x < x
      BY <1>2, <2>1, <3>2 DEF Chained
    <3> QED
      BY <3>2, <3>3
  <2> QED
    BY <1>3, <2>1
<1> HIDE DEF own, n
<1>5. ASSUME NEW i \in 1 .. n
      PROVE  rk[chain[i]] = n - i
  <2>1. chain[i] \in PageId
    BY <1>1, <1>3
  <2>2. (CHOOSE j \in 1 .. n : chain[j] = chain[i]) = i
    BY <1>4
  <2> QED
    BY <2>1, <2>2
<1>6. rk \in [PageId -> 0 .. n]
  <2>1. \A p \in PageId : (\E i \in 1 .. n : chain[i] = p) \/ rk[p] = 0
    OBVIOUS
  <2>2. ASSUME NEW p \in PageId PROVE rk[p] \in 0 .. n
    <3>1. CASE \E i \in 1 .. n : chain[i] = p
      <4>1. PICK i \in 1 .. n : chain[i] = p
        BY <3>1
      <4>2. rk[p] = n - i
        BY <1>5, <4>1
      <4> HIDE DEF rk
      <4> QED
        BY <1>3, <4>2
    <3>2. CASE ~ \E i \in 1 .. n : chain[i] = p
      <4>1. rk[p] = 0
        BY <2>1, <3>2
      <4> HIDE DEF rk
      <4> QED
        BY <1>3, <4>1
    <3> QED
      BY <3>1, <3>2
  <2>3. rk = [p \in PageId |-> rk[p]]
    OBVIOUS
  <2> HIDE DEF rk
  <2> QED
    BY <2>2, <2>3
<1> HIDE DEF rk
<1>7. ASSUME NEW p \in PageId, NextOf(s.file[p]) # 0
      PROVE  NextOf(s.file[p]) \in PageId /\ rk[NextOf(s.file[p])] < rk[p]
  <2>1. p \in own
    BY <1>1, <1>7
  <2>2. lvl[p] = 0 /\ NextOf(s.file[p]) = s.file[p].next
    BY <1>1, <1>7, <2>1, PageFacts
  <2>3. PICK i \in 1 .. n : chain[i] = p
    BY <1>3, <2>1, <2>2
  <2>4. i # n /\ NextOf(s.file[p]) = chain[i + 1]
    BY <1>3, <1>7, <2>2, <2>3
  <2>5. i + 1 \in 1 .. n
    BY <1>3, <2>4
  <2>6. rk[chain[i + 1]] = n - (i + 1) /\ rk[p] = n - i /\ chain[i + 1] \in PageId
    BY <1>1, <1>3, <1>5, <2>3, <2>5
  <2> QED
    BY <1>3, <2>4, <2>6
<1>8. \E r \in [PageId -> 0 .. n] :
        \A p \in PageId : NextOf(s.file[p]) # 0 =>
          NextOf(s.file[p]) \in PageId /\ r[NextOf(s.file[p])] < r[p]
  BY <1>6, <1>7
<1> QED
  BY <1>3, <1>8 DEF Linked

\* A tree that is alone in the file stands in it.
LEMMA AloneStands ==
    ASSUME NEW K, NEW V, NEW s, NEW root0, NEW rng, NEW lvl, NEW chain,
           Alone(K, V, s, root0, rng, lvl, chain)
    PROVE  Stands(Whole, K, V, s, root0, rng, lvl, chain)
<1>1. GoodStore(s) /\ Tree(K, V, s.file, Own(Whole, s.hdr), root0, rng, lvl, chain)
  BY DEF Alone
<1>2. Grounded(s.file) /\ Linked(s.file) /\ Based(Whole, s.hdr)
  BY AloneGrounded, AloneLinked, AlonePages
<1>3. Readable(s.file)
  <2>1. \A q \in Own(Whole, s.hdr) : EntriesOf(s.file[q]) \in Seq([key : K, value : V])
    <3>1. /\ Own(Whole, s.hdr) \subseteq PageId \ {0}
          /\ rng \in [PageId -> SUBSET K] /\ lvl \in [PageId -> Nat]
          /\ \A p \in Own(Whole, s.hdr) : PageOK(K, V, Own(Whole, s.hdr), rng, rng, lvl, p, s.file[p])
      BY AlonePages
    <3> QED
      BY <3>1, PagesTyped
  <2>2. PICK E : E = [key : K, value : V]
    OBVIOUS
  <2>3. \A q \in PageId \ Own(Whole, s.hdr) : EntriesOf(s.file[q]) = <<>>
    BY AlonePages
  <2>4. <<>> \in Seq(E)
    OBVIOUS
  <2>5. \A q \in PageId : EntriesOf(s.file[q]) \in Seq(E)
    BY <2>1, <2>2, <2>3, <2>4
  <2> QED
    BY <2>5 DEF Readable
<1> QED
  BY <1>1, <1>2, <1>3 DEF Stands

\* The invariant, as the operations use it.
LEMMA InvStands ==
    ASSUME IInv
    PROVE  \E rng, lvl, chain : Stands(Whole, Keys, Values, Here, root, rng, lvl, chain)
  BY AloneStands DEF IInv

-----------------------------------------------------------------------------
\* Keys can be compared.
LEMMA KeysAreInt == Keys \subseteq Int
  BY KeysAssumption

\* A scan passes what the tree holds.
LEMMA InvScan ==
    ASSUME IInv
    PROVE  ToSet(ScanEntries(file, root)) = Contents
<1>1. PICK rng, lvl, chain : Stands(Whole, Keys, Values, Here, root, rng, lvl, chain)
  BY InvStands
<1>2. ToSet(ScanEntries(Here.file, root)) = Held(Here.file, Own(Whole, Here.hdr))
  BY <1>1, ScanFacts
<1> QED
  BY <1>2 DEF Here, Store, Contents

\* The tree holds keys with values.
LEMMA InvTyped ==
    ASSUME IInv
    PROVE  Contents \subseteq [key : Keys, value : Values]
<1>1. PICK rng, lvl, chain : Stands(Whole, Keys, Values, Here, root, rng, lvl, chain)
  BY InvStands
<1>2. Tree(Keys, Values, Here.file, Own(Whole, Here.hdr), root, rng, lvl, chain)
  BY <1>1 DEF Stands
<1>3. Held(Here.file, Own(Whole, Here.hdr)) \subseteq [key : Keys, value : Values]
  BY <1>2, HeldFacts
<1> QED
  BY <1>3 DEF Here, Store, Contents

-----------------------------------------------------------------------------
\* The fresh file holds an empty tree.
LEMMA InitAlone ==
    ASSUME Init
    PROVE  IInv /\ Contents = {}
<1> DEFINE rng == [p \in PageId |-> IF p = 1 THEN Keys ELSE {}]
           lvl == [p \in PageId |-> 0]
           chain == <<1>>
<1>1. 0 \in PageId /\ 1 \in PageId /\ PageId \subseteq Nat /\ MaxPages \in Nat
  BY MaxPagesAssumption DEF PageId
<1>2. /\ file[0] = FreshHeader /\ file[1] = Leaf(<<>>, 0)
      /\ \A p \in PageId \ {0, 1} : file[p] = Absent
      /\ DOMAIN file = PageId
  BY <1>1 DEF Init, HEADER_PAGE_ID, CATALOG_ROOT_PAGE_ID
<1>3. /\ hdr = [type |-> "header", catalog_root |-> 1, next_table_id |-> 1,
                free_list_head |-> 0, num_pages |-> 2]
      /\ root = 1
      /\ hdr.num_pages = 2
  BY DEF Init, FreshHeader, Header, CATALOG_ROOT_PAGE_ID
<1>4. Own(Whole, hdr) = {1}
  BY <1>3 DEF Own, Whole
<1>5. Here = [file |-> file, hdr |-> hdr, writes |-> <<>>]
  BY DEF Here, Store
<1>6. GoodHeader(hdr)
  BY <1>3, MaxPagesAssumption DEF GoodHeader
<1>7. GoodStore(Here)
  BY <1>2, <1>3, <1>5, <1>6 DEF GoodStore, FreshHeader, Header, HEADER_PAGE_ID, CATALOG_ROOT_PAGE_ID
<1>8. \A p \in PageId : p >= Here.hdr.num_pages => Here.file[p] = Absent
  BY <1>1, <1>2, <1>3, <1>5
<1>9. LeafOK(Keys, Values, file[1])
  <2>1. <<>> \in Seq([key : Keys, value : Values]) /\ Len(<<>>) = 0
    BY EmptySeq
  <2>2. Leaf(<<>>, 0).entries = <<>> /\ Leaf(<<>>, 0).next = 0
    BY DEF Leaf
  <2>3. KeysAscend(<<>>)
    BY <2>1 DEF KeysAscend
  <2>4. file[1].entries = <<>> /\ file[1].next = 0
    BY <1>2, <2>2
  <2>5. file[1] = Leaf(file[1].entries, file[1].next)
    BY <1>2, <2>4
  <2>6. Len(file[1].entries) <= MAX_LEAF_SLOTS
    BY <2>1, <2>4, FanoutAssumption
  <2> QED
    BY <2>1, <2>3, <2>4, <2>5, <2>6 DEF LeafOK
<1>10. rng[1] = Keys /\ lvl[1] = 0
  BY <1>1
<1>11. Typed(Keys, Own(Whole, hdr), root, rng, rng, lvl)
  <2>1. rng \in [PageId -> SUBSET Keys]
    OBVIOUS
  <2>2. lvl \in [PageId -> Nat] /\ \A p \in PageId : lvl[p] <= lvl[root]
    BY <1>1, <1>3
  <2> QED
    BY <1>1, <1>3, <1>4, <1>10, <2>1, <2>2 DEF Typed
<1>12. \A p \in Own(Whole, hdr) : PageOK(Keys, Values, Own(Whole, hdr), rng, rng, lvl, p, file[p])
  <2> HIDE DEF rng, lvl
  <2> QED
    BY <1>4, <1>9, <1>10, KeysAssumption DEF PageOK
<1>13. Apart(Own(Whole, hdr), rng, lvl) /\ Parented(file, Own(Whole, hdr), {root}, lvl)
  BY <1>3, <1>4 DEF Apart, Parented
<1>14. Chained(file, Own(Whole, hdr), rng, lvl, chain)
  <2>1. chain \in Seq(Own(Whole, hdr)) /\ Len(chain) = 1 /\ chain[1] = 1
    BY <1>4
  <2>2. file[1].next = 0
    BY <1>2 DEF Leaf
  <2> HIDE DEF rng, lvl, chain
  <2> QED
    BY <1>4, <1>10, <2>1, <2>2 DEF Chained
<1>15. Tree(Keys, Values, file, Own(Whole, hdr), root, rng, lvl, chain)
  BY <1>11, <1>12, <1>13, <1>14, KeysAreInt DEF Tree, Forest
<1>16. Alone(Keys, Values, Here, root, rng, lvl, chain)
  BY <1>5, <1>7, <1>8, <1>15 DEF Alone
<1>17. IInv
  <2> HIDE DEF rng, lvl, chain
  <2> QED
    BY <1>16 DEF IInv
<1>18. Contents = {}
  <2>1. EntriesOf(file[1]) = <<>>
    BY <1>2 DEF EntriesOf, Leaf
  <2>2. ToSet(<<>>) = {}
    BY DEF ToSet
  <2> QED
    BY <1>4, <2>1, <2>2 DEF Contents, Held
<1> QED
  BY <1>17, <1>18

-----------------------------------------------------------------------------
(* The steps.                                                              *)

\* What a step that leaves this tree has done.
Leaves(held) == IInv' /\ Contents' = held

\* A step whose store holds a tree, and whose other pages are as they were, leaves
\* that tree.  (The writes of an operation are not part of what is kept.)
LEMMA StepLeaves ==
    ASSUME IInv, NEW s, NEW held, Holds(Whole, Keys, Values, s, root', held),
           Spares(Whole, Here, s),
           file' = s.file, hdr' = s.hdr
    PROVE  Leaves(held)
<1>1. PICK rng, lvl, chain : Tree(Keys, Values, s.file, Own(Whole, s.hdr), root', rng, lvl, chain)
  BY DEF Holds
<1>2. /\ Here' = [file |-> s.file, hdr |-> s.hdr, writes |-> <<>>]
      /\ Here'.file = s.file /\ Here'.hdr = s.hdr
  BY DEF Here, Store
<1>3. GoodStore(Here')
  BY <1>2 DEF Holds, GoodStore
<1>4. ASSUME NEW p \in PageId, p >= s.hdr.num_pages
      PROVE  s.file[p] = Absent
  <2>1. /\ s.hdr.num_pages \in 1 .. MaxPages /\ MaxPages \in Nat
        /\ Here.hdr.num_pages \in Nat
        /\ \A q \in PageId : q >= Here.hdr.num_pages => Here.file[q] = Absent
    BY MaxPagesAssumption DEF Holds, IInv, Alone, GoodStore, GoodHeader
  <2>2. p # 0 /\ p \notin Own(Whole, s.hdr) /\ p >= Here.hdr.num_pages
    BY <1>4, <2>1 DEF Own, Whole, PageId, Spares
  <2> QED
    BY <2>1, <2>2 DEF Spares
<1>5. Alone(Keys, Values, Here', root', rng, lvl, chain)
  BY <1>1, <1>2, <1>3, <1>4 DEF Alone
<1> QED
  BY <1>2, <1>5 DEF Holds, Leaves, IInv, Contents

\* A step that writes nothing leaves what there was.
LEMMA StayLeaves ==
    ASSUME IInv, UNCHANGED <<file, hdr, root>>
    PROVE  Leaves(Contents)
  BY DEF Leaves, IInv, Contents, Here

\* An insert adds its entry, or meets its key and leaves all as it was.
LEMMA InsertStep ==
    ASSUME IInv, NEW k \in Keys, NEW v \in Values, DoInsert(k, v)
    PROVE  \/ /\ ret' = "ok" /\ ~HasKey(Contents, k)
              /\ Leaves(Contents \cup {Entry(k, v)})
           \/ /\ ret' = "duplicate" /\ HasKey(Contents, k)
              /\ Leaves(Contents)
<1>1. PICK rng, lvl, chain : Stands(Whole, Keys, Values, Here, root, rng, lvl, chain)
  BY InvStands
<1>2. Here.file = file /\ Here.hdr = hdr
  BY DEF Here, Store
<1>3. PICK r \in {Insert(Here, root, k, v)} : r = Insert(Here, root, k, v)
  OBVIOUS
<1>4. /\ file' = r.store.file /\ hdr' = r.store.hdr /\ root' = r.root
      /\ ret' = IF r.ok THEN "ok" ELSE "duplicate"
  BY <1>3 DEF DoInsert, Answer
<1>5. CASE HasKey(Contents, k)
  <2>1. Found(file, root, k) # <<>>
    <3>1. PICK e \in Held(Here.file, Own(Whole, Here.hdr)) : e.key = k
      BY <1>2, <1>5 DEF Contents, HasKey
    <3>2. Found(Here.file, root, k) = <<e>>
      BY <1>1, <3>1, FoundFacts
    <3> QED
      BY <1>2, <3>2
  <2>2. r = [ok |-> FALSE, root |-> root, store |-> Here]
    BY <1>2, <1>3, <2>1 DEF Insert
  <2>3. UNCHANGED <<file, hdr, root>> /\ ret' = "duplicate"
    BY <1>2, <1>4, <2>2
  <2> QED
    BY <1>5, <2>3, StayLeaves
<1>6. CASE ~HasKey(Contents, k)
  <2>1. Here.hdr.num_pages + Len(FindPath(Here.file, root, k)) + 1 <= MaxPages
    <3>1. /\ Here.hdr.num_pages \in 1 .. MaxPages /\ Here.hdr.free_list_head = 0
          /\ MaxPages \in Nat
      BY <1>1, MaxPagesAssumption DEF Stands, GoodStore, GoodHeader
    <3>2. Len(FindPath(Here.file, root, k)) \in Nat
      BY <1>1, FindLeafFacts
    <3> QED
      BY <1>2, <3>1, <3>2 DEF DoInsert, CanInsert, CanAlloc
  <2>2. \A x \in Held(Here.file, Own(Whole, Here.hdr)) : x.key # k
    BY <1>2, <1>6 DEF Contents, HasKey
  <2>3. /\ r.ok = TRUE
        /\ Holds(Whole, Keys, Values, r.store, r.root,
                 Held(Here.file, Own(Whole, Here.hdr)) \cup {Entry(k, v)})
        /\ Spares(Whole, Here, r.store)
    BY <1>1, <1>3, <2>1, <2>2, InsertFacts
  <2>4. Holds(Whole, Keys, Values, r.store, root', Contents \cup {Entry(k, v)})
    BY <1>2, <1>4, <2>3 DEF Contents
  <2>5. Leaves(Contents \cup {Entry(k, v)})
    BY <1>3, <1>4, <2>3, <2>4, StepLeaves
  <2> QED
    BY <1>4, <1>6, <2>3, <2>5
<1> QED
  BY <1>5, <1>6

\* An update replaces an entry, or does not meet its key.
LEMMA UpdateStep ==
    ASSUME IInv, NEW k \in Keys, NEW v \in Values, DoUpdate(k, v)
    PROVE  \/ /\ ret' = "ok" /\ HasKey(Contents, k)
              /\ Leaves(Others(Contents, k) \cup {Entry(k, v)})
           \/ /\ ret' = "absent" /\ ~HasKey(Contents, k)
              /\ Leaves(Contents)
<1>1. PICK rng, lvl, chain : Stands(Whole, Keys, Values, Here, root, rng, lvl, chain)
  BY InvStands
<1>2. Here.file = file /\ Here.hdr = hdr
  BY DEF Here, Store
<1>3. PICK r \in {Update(Here, root, k, v)} : r = Update(Here, root, k, v)
  OBVIOUS
<1>4. /\ file' = r.store.file /\ hdr' = hdr /\ root' = root
      /\ ret' = IF r.ok THEN "ok" ELSE "absent"
  BY <1>3 DEF DoUpdate, Answer
<1>5. PICK held \in {Contents} : held = Held(Here.file, Own(Whole, Here.hdr))
  BY <1>2 DEF Contents
<1>6. CASE HasKey(Contents, k)
  <2>1. Done(Whole, Keys, Values, Here, root, r, Others(held, k) \cup {Entry(k, v)})
    BY <1>1, <1>3, <1>5, <1>6, UpdateFacts
  <2>2. Holds(Whole, Keys, Values, r.store, root', Others(Contents, k) \cup {Entry(k, v)})
    BY <1>4, <1>5, <2>1 DEF Done
  <2>3. Leaves(Others(Contents, k) \cup {Entry(k, v)})
    BY <1>2, <1>4, <2>1, <2>2, StepLeaves DEF Done
  <2> QED
    BY <1>4, <1>6, <2>1, <2>3 DEF Done
<1>7. CASE ~HasKey(Contents, k)
  <2>1. Refused(Here, r)
    BY <1>1, <1>3, <1>5, <1>7, UpdateFacts
  <2>2. UNCHANGED <<file, hdr, root>> /\ ret' = "absent"
    BY <1>2, <1>4, <2>1 DEF Refused
  <2> QED
    BY <1>7, <2>2, StayLeaves
<1> QED
  BY <1>6, <1>7

\* A remove takes an entry out, or does not meet its key.
LEMMA RemoveStep ==
    ASSUME IInv, NEW k \in Keys, DoRemove(k)
    PROVE  \/ /\ ret' = "ok" /\ HasKey(Contents, k)
              /\ Leaves(Others(Contents, k))
           \/ /\ ret' = "absent" /\ ~HasKey(Contents, k)
              /\ Leaves(Contents)
<1>1. PICK rng, lvl, chain : Stands(Whole, Keys, Values, Here, root, rng, lvl, chain)
  BY InvStands
<1>2. Here.file = file /\ Here.hdr = hdr
  BY DEF Here, Store
<1>3. PICK r \in {RemoveKey(Here, root, k)} : r = RemoveKey(Here, root, k)
  OBVIOUS
<1>4. /\ file' = r.store.file /\ hdr' = hdr /\ root' = root
      /\ ret' = IF r.ok THEN "ok" ELSE "absent"
  BY <1>3 DEF DoRemove, Answer
<1>5. PICK held \in {Contents} : held = Held(Here.file, Own(Whole, Here.hdr))
  BY <1>2 DEF Contents
<1>6. CASE HasKey(Contents, k)
  <2>1. Done(Whole, Keys, Values, Here, root, r, Others(held, k))
    BY <1>1, <1>3, <1>5, <1>6, RemoveFacts
  <2>2. Holds(Whole, Keys, Values, r.store, root', Others(Contents, k))
    BY <1>4, <1>5, <2>1 DEF Done
  <2>3. Leaves(Others(Contents, k))
    BY <1>2, <1>4, <2>1, <2>2, StepLeaves DEF Done
  <2> QED
    BY <1>4, <1>6, <2>1, <2>3 DEF Done
<1>7. CASE ~HasKey(Contents, k)
  <2>1. Refused(Here, r)
    BY <1>1, <1>3, <1>5, <1>7, RemoveFacts
  <2>2. UNCHANGED <<file, hdr, root>> /\ ret' = "absent"
    BY <1>2, <1>4, <2>1 DEF Refused
  <2> QED
    BY <1>7, <2>2, StayLeaves
<1> QED
  BY <1>6, <1>7

\* A find changes nothing and answers the value of its key, if there is one.
LEMMA FindStep ==
    ASSUME IInv, NEW k \in Keys, DoFind(k)
    PROVE  /\ Leaves(Contents)
           /\ \/ ret' = "absent" /\ ~HasKey(Contents, k)
              \/ \E e \in Contents : e.key = k /\ ret' = e.value
<1>1. PICK rng, lvl, chain : Stands(Whole, Keys, Values, Here, root, rng, lvl, chain)
  BY InvStands
<1>2. Here.file = file /\ Here.hdr = hdr
  BY DEF Here, Store
<1>3. PICK r \in {Found(Here.file, root, k)} : r = Found(Here.file, root, k)
  OBVIOUS
<1>4. UNCHANGED <<file, hdr, root>> /\ ret' = IF r = <<>> THEN "absent" ELSE r[1].value
  BY <1>2, <1>3 DEF DoFind
<1>5. Leaves(Contents)
  BY <1>4, StayLeaves
<1>6. CASE HasKey(Contents, k)
  <2>1. PICK e \in Held(Here.file, Own(Whole, Here.hdr)) : e.key = k
    BY <1>2, <1>6 DEF Contents, HasKey
  <2>2. r = <<e>>
    BY <1>1, <1>3, <2>1, FoundFacts
  <2>3. ret' = e.value
    BY <1>4, <2>2
  <2> QED
    BY <1>2, <1>5, <2>1, <2>3 DEF Contents
<1>7. CASE ~HasKey(Contents, k)
  <2>1. \A e \in Held(Here.file, Own(Whole, Here.hdr)) : e.key # k
    BY <1>2, <1>7 DEF Contents, HasKey
  <2>2. r = <<>>
    BY <1>1, <1>3, <2>1, FoundFacts
  <2> QED
    BY <1>4, <1>5, <1>7, <2>2
<1> QED
  BY <1>6, <1>7

\* Every step keeps the invariant.
LEMMA NextKeeps ==
    ASSUME IInv, [Next]_vars
    PROVE  IInv'
<1>1. ASSUME NEW k \in Keys, DoRemove(k) PROVE IInv'
  BY <1>1, RemoveStep DEF Leaves
<1>2. ASSUME NEW k \in Keys, DoFind(k) PROVE IInv'
  BY <1>2, FindStep DEF Leaves
<1>3. ASSUME NEW k \in Keys, NEW v \in Values, DoInsert(k, v) PROVE IInv'
  BY <1>3, InsertStep DEF Leaves
<1>4. ASSUME NEW k \in Keys, NEW v \in Values, DoUpdate(k, v) PROVE IInv'
  BY <1>4, UpdateStep DEF Leaves
<1>5. CASE UNCHANGED vars
  BY <1>5, StayLeaves DEF vars, Leaves
<1> QED
  BY <1>1, <1>2, <1>3, <1>4, <1>5 DEF Next

\* The invariant: the file holds one tree and nothing else.
LEMMA InvariantHolds == Spec => []IInv
<1>1. Init => IInv
  BY InitAlone
<1>2. IInv /\ [Next]_vars => IInv'
  BY NextKeeps
<1> QED
  BY <1>1, <1>2, PTL DEF Spec

-----------------------------------------------------------------------------
(* The theorems.                                                           *)

\* A tree has the types the nodes are written with.
LEMMA InvTypes == IInv => TypeOK
<1> SUFFICES ASSUME NEW rng, NEW lvl, NEW chain, Stands(Whole, Keys, Values, Here, root, rng, lvl, chain)
             PROVE  TypeOK
  BY InvStands
<1>1. Here.file = file /\ Here.hdr = hdr
  BY DEF Here, Store
<1>2. /\ Own(Whole, hdr) \subseteq PageId \ {0} /\ root \in Own(Whole, hdr)
      /\ \A p \in Own(Whole, hdr) : PageOK(Keys, Values, Own(Whole, hdr), rng, rng, lvl, p, file[p])
      /\ rng \in [PageId -> SUBSET Keys] /\ lvl \in [PageId -> Nat]
  BY <1>1, StandsPages
<1>3. Pages = Own(Whole, hdr)
  BY <1>1, TreePagesFacts DEF Pages
<1>4. hdr = file[HEADER_PAGE_ID]
  BY <1>1 DEF Stands, GoodStore
<1>5. Chained(file, Own(Whole, hdr), rng, lvl, chain)
  BY <1>1 DEF Stands, Tree, Forest
<1>6. ASSUME NEW p \in Own(Whole, hdr), lvl[p] = 0
      PROVE  /\ file[p].type = "leaf"
             /\ Len(file[p].entries) <= MAX_LEAF_SLOTS
             /\ \A i \in DOMAIN file[p].entries :
                  file[p].entries[i] \in [key : Keys, value : Values]
             /\ file[p].next \in PageId
  <2>1. LeafOK(rng[p], Values, file[p]) /\ file[p].type = "leaf"
    BY <1>2, <1>6, PageFacts
  <2>2. rng[p] \subseteq Keys
    BY <1>2
  <2>3. PICK entries \in Seq([key : rng[p], value : Values]) : entries = file[p].entries
    BY <2>1 DEF LeafOK
  <2>4. \A i \in DOMAIN entries : entries[i] \in [key : Keys, value : Values]
    <3> SUFFICES ASSUME NEW i \in DOMAIN entries
                 PROVE  entries[i] \in [key : Keys, value : Values]
      OBVIOUS
    <3>1. PICK E \in {[key : rng[p], value : Values]} : E = [key : rng[p], value : Values]
      OBVIOUS
    <3>2. entries \in Seq(E)
      BY <2>3, <3>1
    <3>3. entries[i] \in E
      BY <3>2, ElementOfSeq, LenProperties
    <3> QED
      BY <2>2, <3>1, <3>3
  <2>5. file[p].next \in PageId
    <3>1. PICK i \in 1 .. Len(chain) : chain[i] = p
      BY <1>5, <1>6 DEF Chained
    <3>2. /\ chain \in Seq(Own(Whole, hdr))
          /\ file[chain[i]].next = IF i = Len(chain) THEN 0 ELSE chain[i + 1]
      BY <1>5, <3>1 DEF Chained
    <3>3. i = Len(chain) \/ chain[i + 1] \in Own(Whole, hdr)
      BY <3>2
    <3>4. 0 \in PageId
      BY MaxPagesAssumption DEF PageId
    <3> QED
      BY <1>2, <3>1, <3>2, <3>3, <3>4
  <2> QED
    BY <2>1, <2>3, <2>4, <2>5 DEF LeafOK
<1>7. ASSUME NEW p \in Own(Whole, hdr), lvl[p] # 0
      PROVE  /\ file[p].type = "internal"
             /\ Len(file[p].keys) \in 1 .. MAX_INTERNAL_KEYS
             /\ Len(file[p].children) = Len(file[p].keys) + 1
  BY <1>2, <1>7, PageFacts DEF InnerOK
<1> QED
  BY <1>2, <1>3, <1>4, <1>6, <1>7 DEF TypeOK

\* A page of the tree is a leaf or an internal node within its limits, and every
\* entry is a key with a value, whatever the fanout, the keys and the values
\* (btree.h: insert_recursive, split_leaf, split_internal).
THEOREM TypeCorrect == Spec => []TypeOK
  BY InvTypes, InvariantHolds, PTL

\* On a tree, scan and find agree.
LEMMA InvScanFind == IInv => ScanFindAgree
<1> SUFFICES ASSUME NEW rng, NEW lvl, NEW chain, Stands(Whole, Keys, Values, Here, root, rng, lvl, chain)
             PROVE  ScanFindAgree
  BY InvStands
<1>1. Here.file = file /\ Here.hdr = hdr
  BY DEF Here, Store
<1>2. PICK seen \in Seq([key : Keys, value : Values]) :
        seen = ScanEntries(file, root) /\ KeysAscend(seen)
  BY <1>1, ScanFacts
<1>3. \A i, j \in DOMAIN seen : i < j => seen[i].key < seen[j].key
  BY <1>2 DEF KeysAscend
<1>4. \A k \in Keys : Found(file, root, k) = FirstOf(ScanEntries(file, root), k)
  BY <1>1, FoundFacts
<1> QED
  BY <1>2, <1>3, <1>4 DEF ScanFindAgree

\* A scan passes strictly ascending keys and a descent finds exactly the entry
\* that the scan passes (btree.h: find, scan).
THEOREM ScanAndFindAgree == Spec => []ScanFindAgree
  BY InvScanFind, InvariantHolds, PTL

\* On a tree, all descents are equally long.
LEMMA InvBalanced == IInv => Balanced
<1> SUFFICES ASSUME NEW rng, NEW lvl, NEW chain, Stands(Whole, Keys, Values, Here, root, rng, lvl, chain),
                    NEW k \in Keys
             PROVE  Len(FindPath(file, root, k)) = Len(LeftmostPath(file, root))
  BY InvStands DEF Balanced
<1>1. Here.file = file
  BY DEF Here, Store
<1>2. Len(FindPath(file, root, k)) = lvl[root] + 1
  BY <1>1, FindLeafFacts DEF DownFrom
<1>3. Len(LeftmostPath(file, root)) = lvl[root] + 1
  BY <1>1, LeftmostFacts DEF DownFrom
<1> QED
  BY <1>2, <1>3

\* A page other than the root is in one slot of one page, by OneParent.
LEMMA InvParents ==
    ASSUME IInv, NEW p \in Pages
    PROVE  Cardinality(ParentSlots(p)) = IF p = root THEN 0 ELSE 1
<1>0. PICK rng, lvl, chain : Stands(Whole, Keys, Values, Here, root, rng, lvl, chain)
  BY InvStands
<1>1. Here.file = file /\ Here.hdr = hdr
  BY DEF Here, Store
<1>2. /\ Own(Whole, hdr) \subseteq PageId \ {0} /\ root \in Own(Whole, hdr)
      /\ \A q \in Own(Whole, hdr) : PageOK(Keys, Values, Own(Whole, hdr), rng, rng, lvl, q, file[q])
      /\ lvl \in [PageId -> Nat] /\ \A q \in PageId : lvl[q] <= lvl[root]
  BY <1>0, <1>1, StandsPages
<1>3. Pages = Own(Whole, hdr)
  BY <1>0, <1>1, TreePagesFacts DEF Pages
<1>4. Forest(Keys, Values, file, Own(Whole, hdr), root, {root}, rng, rng, lvl, chain)
  BY <1>0, <1>1 DEF Stands, Tree
<1>5. ASSUME NEW q \in Own(Whole, hdr), file[q].type = "internal", NEW i \in DOMAIN file[q].children
      PROVE  /\ lvl[q] > 0 /\ i \in 1 .. Len(file[q].children)
             /\ Len(file[q].children) <= MAX_INTERNAL_KEYS + 1
             /\ lvl[file[q].children[i]] = lvl[q] - 1
  <2>1. lvl[q] \in Nat /\ PageOK(Keys, Values, Own(Whole, hdr), rng, rng, lvl, q, file[q])
    BY <1>2
  <2>2. lvl[q] # 0
    <3>1. lvl[q] = 0 => file[q].type = "leaf"
      BY <2>1, PageFacts
    <3> QED
      BY <1>5, <3>1
  <2>3. /\ InnerOK(Keys, Own(Whole, hdr), file[q])
        /\ Slotted(Own(Whole, hdr), rng, lvl, rng[q], lvl[q], file[q].keys, file[q].children)
    BY <2>1, <2>2, PageFacts
  <2>4. i \in 1 .. Len(file[q].children)
    <3>1. file[q].children \in Seq(Own(Whole, hdr))
      BY <2>3 DEF InnerOK
    <3> QED
      BY <1>5, <3>1
  <2>5. Len(file[q].children) <= MAX_INTERNAL_KEYS + 1
    BY <2>3, FanoutAssumption DEF InnerOK
  <2>6. lvl[file[q].children[i]] = lvl[q] - 1
    BY <2>3, <2>4 DEF Slotted
  <2> QED
    BY <2>1, <2>2, <2>4, <2>5, <2>6
<1>6. CASE p = root
  <2>1. \A at \in ParentSlots(p) : FALSE
    <3> SUFFICES ASSUME NEW at \in ParentSlots(p) PROVE FALSE
      OBVIOUS
    <3>1. PICK q \in Own(Whole, hdr) :
            /\ file[q].type = "internal"
            /\ \E i \in DOMAIN file[q].children : file[q].children[i] = root
      BY <1>3, <1>6 DEF ParentSlots
    <3>2. lvl[root] = lvl[q] - 1
      BY <1>5, <3>1
    <3>3. lvl[q] <= lvl[root] /\ lvl[q] \in Nat /\ lvl[root] \in Nat
      BY <1>2
    <3> QED
      BY <3>2, <3>3
  <2>2. ParentSlots(p) = {}
    BY <2>1
  <2> QED
    BY <1>6, <2>2, FS_EmptySet
<1>7. CASE p # root
  <2>1. PICK q \in Own(Whole, hdr) :
          lvl[q] > 0 /\ \E i \in 1 .. Len(file[q].children) : file[q].children[i] = p
    BY <1>3, <1>4, <1>7 DEF Forest, Parented
  <2>2. PICK i \in 1 .. Len(file[q].children) : file[q].children[i] = p
    BY <2>1
  <2>3. <<q, i>> \in ParentSlots(p)
    <3>1. InnerOK(Keys, Own(Whole, hdr), file[q]) /\ file[q].type = "internal"
      <4>1. lvl[q] \in Nat /\ lvl[q] # 0
        BY <1>2, <2>1
      <4> QED
        BY <1>2, <4>1, PageFacts
    <3>2. i \in DOMAIN file[q].children
      BY <3>1 DEF InnerOK
    <3>3. i \in 1 .. MAX_INTERNAL_KEYS + 1
      BY <1>5, <3>1, <3>2, FanoutAssumption
    <3> QED
      BY <1>3, <2>2, <3>1, <3>2, <3>3 DEF ParentSlots
  <2>4. ASSUME NEW at \in ParentSlots(p)
        PROVE  at = <<q, i>>
    <3>1. /\ at = <<at[1], at[2]>>
          /\ at[1] \in Own(Whole, hdr) /\ file[at[1]].type = "internal"
          /\ at[2] \in DOMAIN file[at[1]].children /\ file[at[1]].children[at[2]] = p
      BY <1>3, <2>4 DEF ParentSlots
    <3>2. lvl[at[1]] > 0 /\ at[2] \in 1 .. Len(file[at[1]].children)
      BY <1>5, <3>1
    <3>3. file[q].children[i] = file[at[1]].children[at[2]]
      BY <2>2, <3>1
    <3>4. \A c \in Own(Whole, hdr) : rng[c] \subseteq rng[c]
      OBVIOUS
    <3>5. q = at[1] /\ i = at[2]
      BY <1>4, <2>1, <3>1, <3>2, <3>3, <3>4, OneParent
    <3> QED
      BY <3>1, <3>5
  <2>5. ParentSlots(p) = {<<q, i>>}
    BY <2>3, <2>4
  <2> QED
    BY <1>7, <2>5, FS_Singleton
<1> QED
  BY <1>6, <1>7

\* The chain has every leaf once.
LEMMA InvChain ==
    ASSUME IInv
    PROVE  /\ ToSet(LeafChain(file, root)) = {p \in Pages : file[p].type = "leaf"}
           /\ Len(LeafChain(file, root)) = Cardinality(ToSet(LeafChain(file, root)))
<1>0. PICK rng, lvl, chain : Stands(Whole, Keys, Values, Here, root, rng, lvl, chain)
  BY InvStands
<1>1. Here.file = file /\ Here.hdr = hdr
  BY DEF Here, Store
<1>2. /\ Own(Whole, hdr) \subseteq PageId
      /\ \A q \in Own(Whole, hdr) : PageOK(Keys, Values, Own(Whole, hdr), rng, rng, lvl, q, file[q])
      /\ lvl \in [PageId -> Nat]
  BY <1>0, <1>1, StandsPages
<1>3. Pages = Own(Whole, hdr) /\ LeafChain(file, root) = chain
  BY <1>0, <1>1, TreePagesFacts, ChainFacts DEF Pages
<1>4. /\ chain \in Seq(Own(Whole, hdr)) /\ Len(chain) \in Nat
      /\ \A i \in 1 .. Len(chain) : lvl[chain[i]] = 0
      /\ \A p \in Own(Whole, hdr) : lvl[p] = 0 => \E i \in 1 .. Len(chain) : chain[i] = p
      /\ \A i, j \in 1 .. Len(chain) : chain[i] = chain[j] => i = j
  BY <1>0, <1>1, ChainOnce
<1>5. \A q \in Own(Whole, hdr) : file[q].type = "leaf" <=> lvl[q] = 0
  <2> SUFFICES ASSUME NEW q \in Own(Whole, hdr) PROVE file[q].type = "leaf" <=> lvl[q] = 0
    OBVIOUS
  <2>1. lvl[q] \in Nat /\ PageOK(Keys, Values, Own(Whole, hdr), rng, rng, lvl, q, file[q])
    BY <1>2
  <2>2. /\ lvl[q] = 0 => file[q].type = "leaf"
        /\ lvl[q] # 0 => file[q].type = "internal"
    BY <2>1, PageFacts
  <2> QED
    BY <2>2
<1>6. ToSet(chain) = {chain[i] : i \in 1 .. Len(chain)}
  BY <1>4 DEF ToSet
<1>7. ToSet(chain) = {p \in Own(Whole, hdr) : file[p].type = "leaf"}
  BY <1>4, <1>5, <1>6
<1>8. chain \in Bijection(1 .. Len(chain), ToSet(chain))
  <2>1. chain \in [1 .. Len(chain) -> ToSet(chain)] /\ DOMAIN chain = 1 .. Len(chain)
    BY <1>4, <1>6
  <2>2. IsInjective(chain)
    BY <1>4, <2>1 DEF IsInjective
  <2>3. \A p \in ToSet(chain) : \E i \in 1 .. Len(chain) : chain[i] = p
    BY <1>6
  <2> QED
    BY <2>1, <2>2, <2>3 DEF Bijection, Injection, Surjection
<1>9. Cardinality(ToSet(chain)) = Len(chain)
  BY <1>4, <1>8, FS_CountingElements DEF ExistsBijection
<1> QED
  BY <1>3, <1>7, <1>9

\* A tree is balanced and uses every page once.
LEMMA InvWellFormed == IInv => WellFormed
<1> SUFFICES ASSUME IInv PROVE WellFormed
  OBVIOUS
<1>1. Pages = 1 .. hdr.num_pages - 1
  <2>1. PICK rng, lvl, chain : Stands(Whole, Keys, Values, Here, root, rng, lvl, chain)
    BY InvStands
  <2>2. Here.file = file /\ Here.hdr = hdr
    BY DEF Here, Store
  <2>3. TreePages(file, root) = Own(Whole, hdr)
    BY <2>1, <2>2, TreePagesFacts
  <2>4. Own(Whole, hdr) = 1 .. hdr.num_pages - 1
    BY DEF Own, Whole
  <2> QED
    BY <2>3, <2>4 DEF Pages
<1> QED
  BY <1>1, InvBalanced, InvParents, InvChain DEF WellFormed, EveryPageUsedOnce

\* Splits keep all leaves equally deep, lose and share no page, give every page
\* but the root one parent, and leave a chain that visits every leaf once
\* (btree.h: insert, insert_recursive).
THEOREM TreeWellFormed == Spec => []WellFormed
  BY InvWellFormed, InvariantHolds, PTL

\* The map the tree stands for is what it holds.
LEMMA InvMap == IInv => Map = Contents
  BY InvScan DEF Map

\* Every step is one of the map, or changes nothing of it.
LEMMA StepIsDict ==
    ASSUME IInv, [Next]_vars
    PROVE  [Abstract!Next]_<<Map, ret>>
<1>1. Map = Contents /\ Map' = Contents'
  <2>1. IInv'
    BY NextKeeps
  <2>2. Map = Contents
    BY InvMap
  <2>3. (Map = Contents)'
    BY <2>1, InvMap, PTL
  <2> QED
    BY <2>2, <2>3
<1>2. ASSUME NEW k \in Keys
      PROVE  /\ HasKey(Contents, k) <=> Abstract!At(k) # {}
             /\ Others(Contents, k) = Map \ Abstract!At(k)
  BY <1>1 DEF HasKey, Others, Abstract!At
<1>3. ASSUME NEW k \in Keys, DoRemove(k) PROVE Abstract!Next
  <2>1. Abstract!Remove(k)
    BY <1>1, <1>2, <1>3, RemoveStep DEF Leaves, Abstract!Remove
  <2> QED
    BY <2>1 DEF Abstract!Next
<1>4. ASSUME NEW k \in Keys, NEW v \in Values, DoInsert(k, v) PROVE Abstract!Next
  <2>1. Abstract!Insert(k, v)
    BY <1>1, <1>2, <1>4, InsertStep DEF Leaves, Abstract!Insert, Entry
  <2> QED
    BY <2>1 DEF Abstract!Next
<1>5. ASSUME NEW k \in Keys, NEW v \in Values, DoUpdate(k, v) PROVE Abstract!Next
  <2>1. Abstract!Update(k, v)
    BY <1>1, <1>2, <1>5, UpdateStep DEF Leaves, Abstract!Update, Entry
  <2> QED
    BY <2>1 DEF Abstract!Next
<1>6. ASSUME NEW k \in Keys, DoFind(k) PROVE Abstract!Next
  <2>1. Contents \subseteq [key : Keys, value : Values]
    BY InvTyped
  <2>2. UNCHANGED Map
    BY <1>1, <1>6, FindStep DEF Leaves
  <2>3. CASE ret' = "absent" /\ ~HasKey(Contents, k)
    <3>1. Abstract!Find(k)
      BY <1>2, <2>2, <2>3 DEF Abstract!Find
    <3> QED
      BY <3>1 DEF Abstract!Next
  <2>4. CASE \E e \in Contents : e.key = k /\ ret' = e.value
    <3>1. PICK e \in Contents : e.key = k /\ ret' = e.value
      BY <2>4
    <3>2. ret' \notin {"ok", "duplicate"}
      BY <2>1, <3>1, ValuesAssumption
    <3>3. e \in Abstract!At(k)
      BY <1>1, <3>1 DEF Abstract!At
    <3>4. Abstract!Find(k)
      BY <2>2, <3>1, <3>2, <3>3 DEF Abstract!Find
    <3> QED
      BY <3>4 DEF Abstract!Next
  <2> QED
    BY <1>6, <2>3, <2>4, FindStep
<1>7. CASE UNCHANGED vars
  <2>1. Contents' = Contents /\ ret' = ret
    BY <1>7, StayLeaves DEF vars, Leaves
  <2> QED
    BY <1>1, <2>1
<1> QED
  BY <1>3, <1>4, <1>5, <1>6, <1>7 DEF Next

\* A tree is the map it stands for: with every split taken into account, each
\* operation answers what the operation of the map answers and changes exactly
\* what it changes (btree.h: find, insert, update, remove, scan).
THEOREM TreeIsDict == Spec => ImplementsDict
<1>1. Init => Abstract!Init
  BY InitAlone, InvMap DEF Init, Abstract!Init
<1>2. IInv /\ [Next]_vars => [Abstract!Next]_<<Map, ret>>
  BY StepIsDict
<1> QED
  BY <1>1, <1>2, InvariantHolds, PTL DEF Spec, ImplementsDict, Abstract!Spec
=============================================================================
