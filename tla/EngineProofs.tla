---------------------------- MODULE EngineProofs ----------------------------
(***************************************************************************)
(* Proofs about Engine.  First, what the page writes of an operation on a  *)
(* tree pass through, one after the other, in a file of several trees some *)
(* of which a crash may have torn.  Then the engine itself: whatever       *)
(* operations run, and wherever processes crash, the file between any two  *)
(* writes is one a process can start on, a crash costs what the engine says*)
(* it may, and without one the engine is a Store.                          *)
(***************************************************************************)
EXTENDS Engine, BTreeLemmas

-----------------------------------------------------------------------------
(* A file with several trees, some of which an interrupted split may have  *)
(* left without a pointer to one of their pages.  For each page, g says    *)
(* which tree owns it (-1 for none), how far it is from the leaves and in  *)
(* which order the leaves are chained.  E has the entries a tree may hold, *)
(* and R the roots that the trees are known by.                            *)

Solid(node) == node.type \in {"leaf", "internal"}

Ghosts(g) ==
    /\ g.top \in Nat
    /\ g.owner \in [PageId -> Nat \cup {-1}]
    /\ g.lvl \in [PageId -> 0 .. g.top] /\ g.ord \in [PageId -> 0 .. g.top]

\* A page of no tree.
Spare(node) == node = Blank \/ node.type \in {"header", "absent"}

FitsLeaf(E, g, p, node) ==
    /\ node = Leaf(node.entries, node.next)
    /\ g.lvl[p] = 0
    /\ node.entries \in Seq(E[g.owner[p]])
    /\ node.next # 0 =>
         /\ node.next \in PageId
         /\ g.owner[node.next] = g.owner[p] /\ g.ord[node.next] < g.ord[p]

FitsInner(f, g, p, node) ==
    /\ node = Internal(node.keys, node.children)
    /\ Points(node)
    /\ g.lvl[p] > 0
    /\ \A i \in 1 .. Len(node.children) :
         /\ g.owner[node.children[i]] = g.owner[p] /\ Solid(f[node.children[i]])
         /\ g.lvl[node.children[i]] = g.lvl[p] - 1

\* What a page of a tree may hold: a page just allocated is still blank.
Fits(E, f, g, p, node) ==
    node = Blank \/ FitsLeaf(E, g, p, node) \/ FitsInner(f, g, p, node)

\* The page x[2] can serve as the root of the tree x[1].
Rooted(f, g, x) == x[2] \in PageId /\ g.owner[x[2]] = x[1] /\ Solid(f[x[2]])

Sane(E, R, f, g) ==
    /\ DOMAIN f = PageId /\ GoodHeader(f[0])
    /\ Ghosts(g)
    /\ \A p \in PageId : g.owner[p] = -1 => Spare(f[p])
    /\ \A p \in PageId : g.owner[p] # -1 =>
         p \in 1 .. f[0].num_pages - 1 /\ Fits(E, f, g, p, f[p])
    /\ \A x \in R : Rooted(f, g, x)

\* Entries are found by a number.
Keyed(E) == \A i \in Nat : \A e \in E[i] : e.key \in Int /\ e = Entry(e.key, e.value)

\* What the kinds of pages are.
LEMMA Kinds ==
    /\ Blank.type = "link" /\ NextOf(Blank) = 0 /\ EntriesOf(Blank) = <<>> /\ ~Solid(Blank)
    /\ \A e, n : /\ Leaf(e, n).type = "leaf" /\ Leaf(e, n).entries = e /\ Leaf(e, n).next = n
                 /\ Solid(Leaf(e, n))
    /\ \A e, n : /\ Internal(e, n).type = "internal" /\ Internal(e, n).keys = e
                 /\ Internal(e, n).children = n /\ Solid(Internal(e, n))
  BY DEF Blank, Link, Leaf, Internal, Solid, NextOf, EntriesOf

\* A page is what its type says.
LEMMA FitsFacts ==
    ASSUME NEW E, NEW f, NEW g, NEW p, NEW node, Fits(E, f, g, p, node)
    PROVE  /\ node.type = "leaf" => FitsLeaf(E, g, p, node)
           /\ node.type = "internal" => FitsInner(f, g, p, node)
           /\ ~Solid(node) => node = Blank
           /\ FitsLeaf(E, g, p, node) =>
                /\ node.type = "leaf" /\ NextOf(node) = node.next
                /\ EntriesOf(node) = node.entries
           /\ node.type # "leaf" => NextOf(node) = 0 /\ EntriesOf(node) = <<>>
<1>1. /\ FitsLeaf(E, g, p, node) => node.type = "leaf"
      /\ FitsInner(f, g, p, node) => node.type = "internal"
      /\ node = Blank => node.type = "link" /\ NextOf(node) = 0
  BY Kinds DEF FitsLeaf, FitsInner
<1> QED
  BY <1>1 DEF Fits, Solid, NextOf, EntriesOf

\* Spare pages lead nowhere.
LEMMA SpareFacts ==
    ASSUME NEW node, Spare(node)
    PROVE  /\ node.type \notin {"leaf", "internal"} /\ ~Solid(node)
           /\ NextOf(node) = 0 /\ EntriesOf(node) = <<>>
  BY DEF Spare, Blank, Link, Solid, NextOf, EntriesOf

\* In such a file every recursion over pages ends.
LEMMA SaneEnds ==
    ASSUME NEW E, NEW R, NEW f, NEW g, Sane(E, R, f, g)
    PROVE  Grounded(f) /\ Linked(f) /\ Readable(f)
<1>1. /\ \A p \in PageId : g.owner[p] = -1 => Spare(f[p])
      /\ \A p \in PageId : g.owner[p] # -1 => Fits(E, f, g, p, f[p])
      /\ g.top \in Nat /\ g.lvl \in [PageId -> 0 .. g.top] /\ g.ord \in [PageId -> 0 .. g.top]
      /\ g.owner \in [PageId -> Nat \cup {-1}]
  BY DEF Sane, Ghosts
<1>2. ASSUME NEW p \in PageId, f[p].type = "internal"
      PROVE  FitsInner(f, g, p, f[p])
  BY <1>1, <1>2, FitsFacts, SpareFacts
<1>3. Grounded(f)
  <2>1. \A p \in PageId : f[p].type = "internal" =>
          /\ Points(f[p])
          /\ \A i \in 1 .. Len(f[p].children) : g.lvl[f[p].children[i]] < g.lvl[p]
    <3> SUFFICES ASSUME NEW p \in PageId, f[p].type = "internal"
                 PROVE  /\ Points(f[p])
                        /\ \A i \in 1 .. Len(f[p].children) : g.lvl[f[p].children[i]] < g.lvl[p]
      OBVIOUS
    <3>1. g.lvl[p] \in Nat
      BY <1>1
    <3> QED
      BY <1>2, <3>1 DEF FitsInner
  <2>2. \E rk \in [PageId -> 0 .. g.top] : \A p \in PageId : f[p].type = "internal" =>
          /\ Points(f[p])
          /\ \A i \in 1 .. Len(f[p].children) : rk[f[p].children[i]] < rk[p]
    BY <1>1, <2>1
  <2> QED
    BY <1>1, <2>2 DEF Grounded
<1>4. Linked(f)
  <2>1. ASSUME NEW p \in PageId, NextOf(f[p]) # 0
        PROVE  NextOf(f[p]) \in PageId /\ g.ord[NextOf(f[p])] < g.ord[p]
    <3>1. g.owner[p] # -1 /\ f[p].type = "leaf"
      BY <1>1, <2>1, FitsFacts, SpareFacts
    <3>2. FitsLeaf(E, g, p, f[p]) /\ NextOf(f[p]) = f[p].next
      BY <1>1, <3>1, FitsFacts
    <3> QED
      BY <2>1, <3>2 DEF FitsLeaf
  <2>2. \E rk \in [PageId -> 0 .. g.top] : \A p \in PageId : NextOf(f[p]) # 0 =>
          NextOf(f[p]) \in PageId /\ rk[NextOf(f[p])] < rk[p]
    BY <1>1, <2>1
  <2> QED
    BY <1>1, <2>2 DEF Linked
<1>5. Readable(f)
  <2> DEFINE U == UNION {E[i] : i \in Nat}
  <2>1. ASSUME NEW p \in PageId
        PROVE  EntriesOf(f[p]) \in Seq(U)
    <3>1. CASE g.owner[p] # -1 /\ f[p].type = "leaf"
      <4>1. FitsLeaf(E, g, p, f[p]) /\ EntriesOf(f[p]) = f[p].entries
        BY <1>1, <3>1, FitsFacts
      <4>2. g.owner[p] \in Nat
        BY <1>1, <3>1
      <4>3. f[p].entries \in Seq(E[g.owner[p]]) /\ E[g.owner[p]] \subseteq U
        BY <4>1, <4>2 DEF FitsLeaf
      <4> HIDE DEF U
      <4>4. f[p].entries \in Seq(U)
        BY <4>3, SeqMonotonic
      <4> QED
        BY <4>1, <4>4
    <3>2. CASE ~(g.owner[p] # -1 /\ f[p].type = "leaf")
      <4>1. EntriesOf(f[p]) = <<>>
        BY <1>1, <3>2, FitsFacts, SpareFacts
      <4> QED
        BY <4>1
    <3> QED
      BY <3>1, <3>2
  <2> HIDE DEF U
  <2> QED
    BY <2>1 DEF Readable
<1> QED
  BY <1>3, <1>4, <1>5

\* An internal node fits as long as the pages that are written stay written.
LEMMA InnerStays ==
    ASSUME NEW f, NEW f2, \A q \in PageId : Solid(f[q]) => Solid(f2[q]),
           NEW g, NEW p, NEW node, FitsInner(f, g, p, node)
    PROVE  FitsInner(f2, g, p, node)
<1>1. node.children \in Seq(PageId)
  BY DEF FitsInner, Points
<1>2. \A i \in 1 .. Len(node.children) : Solid(f2[node.children[i]])
  BY <1>1, ElementOfSeq DEF FitsInner
<1> QED
  BY <1>2 DEF FitsInner

-----------------------------------------------------------------------------
(* The writes.                                                             *)

\* A page of a tree is written: it was blank, or it keeps its kind.
LEMMA SaneWrite ==
    ASSUME NEW E, NEW R, NEW f, NEW g, Sane(E, R, f, g),
           NEW p \in PageId, g.owner[p] # -1, NEW c, Fits(E, f, g, p, c), Solid(c)
    PROVE  Sane(E, R, WritePage(f, p, c), g)
<1> DEFINE f2 == WritePage(f, p, c)
<1>1. DOMAIN f2 = PageId /\ \A q \in PageId : f2[q] = IF q = p THEN c ELSE f[q]
  BY WritePageFacts DEF Sane
<1> HIDE DEF f2
<1>2. 0 \in PageId /\ p # 0 /\ f2[0] = f[0]
  BY <1>1, MaxPagesAssumption DEF Sane, PageId
<1>3. \A q \in PageId : Solid(f[q]) => Solid(f2[q])
  BY <1>1
<1>4. \A q \in PageId : \A node : FitsInner(f, g, q, node) => FitsInner(f2, g, q, node)
  BY <1>3, InnerStays
<1>5. ASSUME NEW q \in PageId, g.owner[q] # -1
      PROVE  q \in 1 .. f2[0].num_pages - 1 /\ Fits(E, f2, g, q, f2[q])
  <2>1. q \in 1 .. f2[0].num_pages - 1
    BY <1>2, <1>5 DEF Sane
  <2>2. Fits(E, f, g, q, f2[q])
    BY <1>1, <1>5 DEF Sane
  <2> QED
    BY <1>4, <2>1, <2>2 DEF Fits
<1>6. \A q \in PageId : g.owner[q] = -1 => Spare(f2[q])
  BY <1>1 DEF Sane
<1>7. \A x \in R : Rooted(f2, g, x)
  BY <1>3 DEF Sane, Rooted
<1> QED
  BY <1>1, <1>2, <1>5, <1>6, <1>7 DEF Sane, f2

\* A header that counts no fewer pages is written.
LEMMA SaneHeader ==
    ASSUME NEW E, NEW R, NEW f, NEW g, Sane(E, R, f, g),
           NEW h, GoodHeader(h), f[0].num_pages <= h.num_pages
    PROVE  Sane(E, R, WritePage(f, 0, h), g)
<1> DEFINE f2 == WritePage(f, 0, h)
<1>1. DOMAIN f2 = PageId /\ \A q \in PageId : f2[q] = IF q = 0 THEN h ELSE f[q]
  BY WritePageFacts DEF Sane
<1> HIDE DEF f2
<1>2. 0 \in PageId /\ f2[0] = h /\ Spare(h)
  BY <1>1, MaxPagesAssumption DEF PageId, Spare, GoodHeader
<1>3. \A q \in PageId : Solid(f[q]) => Solid(f2[q])
  <2>1. g.owner[0] = -1 /\ Spare(f[0])
    BY <1>2 DEF Sane
  <2>2. ~Solid(f[0])
    BY <2>1, SpareFacts
  <2> QED
    BY <1>1, <2>2
<1>4. \A q \in PageId : \A node : FitsInner(f, g, q, node) => FitsInner(f2, g, q, node)
  BY <1>3, InnerStays
<1>5. ASSUME NEW q \in PageId, g.owner[q] # -1
      PROVE  q \in 1 .. f2[0].num_pages - 1 /\ Fits(E, f2, g, q, f2[q])
  <2>1. q \in 1 .. f[0].num_pages - 1 /\ Fits(E, f, g, q, f[q])
    BY <1>5 DEF Sane
  <2>2. f[0].num_pages \in 1 .. MaxPages /\ h.num_pages \in 1 .. MaxPages /\ MaxPages \in Nat
    BY MaxPagesAssumption DEF Sane, GoodHeader
  <2>3. f2[q] = f[q] /\ q \in 1 .. f2[0].num_pages - 1
    BY <1>1, <1>2, <2>1, <2>2
  <2> QED
    BY <1>4, <2>1, <2>3 DEF Fits
<1>6. \A q \in PageId : g.owner[q] = -1 => Spare(f2[q])
  BY <1>1, <1>2 DEF Sane
<1>7. \A x \in R : Rooted(f2, g, x)
  BY <1>3 DEF Sane, Rooted
<1> QED
  BY <1>1, <1>2, <1>5, <1>6, <1>7 DEF Sane, f2

\* A page of no tree is zeroed.
LEMMA SaneBlank ==
    ASSUME NEW E, NEW R, NEW f, NEW g, Sane(E, R, f, g),
           NEW n \in PageId \ {0}, g.owner[n] = -1
    PROVE  Sane(E, R, WritePage(f, n, Blank), g)
<1> DEFINE f2 == WritePage(f, n, Blank)
<1>1. DOMAIN f2 = PageId /\ \A q \in PageId : f2[q] = IF q = n THEN Blank ELSE f[q]
  BY WritePageFacts DEF Sane
<1> HIDE DEF f2
<1>2. 0 \in PageId /\ f2[0] = f[0]
  BY <1>1, MaxPagesAssumption DEF PageId
<1>3. \A q \in PageId : Solid(f[q]) => Solid(f2[q])
  <2>1. ~Solid(f[n])
    BY SpareFacts DEF Sane
  <2> QED
    BY <1>1, <2>1
<1>4. \A q \in PageId : \A node : FitsInner(f, g, q, node) => FitsInner(f2, g, q, node)
  BY <1>3, InnerStays
<1>5. ASSUME NEW q \in PageId, g.owner[q] # -1
      PROVE  q \in 1 .. f2[0].num_pages - 1 /\ Fits(E, f2, g, q, f2[q])
  <2>1. q \in 1 .. f[0].num_pages - 1 /\ Fits(E, f, g, q, f[q]) /\ q # n
    BY <1>5 DEF Sane
  <2>3. f2[q] = f[q] /\ q \in 1 .. f2[0].num_pages - 1
    BY <1>1, <1>2, <2>1
  <2> QED
    BY <1>4, <2>1, <2>3 DEF Fits
<1>6. \A q \in PageId : g.owner[q] = -1 => Spare(f2[q])
  BY <1>1 DEF Sane, Spare
<1>7. \A x \in R : Rooted(f2, g, x)
  BY <1>3 DEF Sane, Rooted
<1> QED
  BY <1>1, <1>2, <1>5, <1>6, <1>7 DEF Sane, f2

\* A page that was free is given to tree i, at level l and, in the chain, right
\* after page p.
Claims(g, n, i, l, p, g2) ==
    /\ g2.owner = [g.owner EXCEPT ![n] = i]
    /\ g2.lvl = [g.lvl EXCEPT ![n] = l]
    /\ \A q \in PageId : q # n =>
         /\ g2.ord[q] = 2 * g.ord[q] + 2
         /\ g.ord[q] < g.ord[p] => g2.ord[q] < g2.ord[n]
    /\ p # n => g2.ord[n] < g2.ord[p]

LEMMA SaneClaim ==
    ASSUME NEW E, NEW R, NEW f, NEW g, Sane(E, R, f, g),
           NEW n \in PageId, n \in 1 .. f[0].num_pages - 1, g.owner[n] = -1, f[n] = Blank,
           NEW i \in Nat, NEW l \in Nat, NEW p \in PageId
    PROVE  \E g2 : Sane(E, R, f, g2) /\ Claims(g, n, i, l, p, g2)
<1> DEFINE top == 2 * g.top + 2 + l
           owner == [g.owner EXCEPT ![n] = i]
           lvl == [g.lvl EXCEPT ![n] = l]
           ord == [q \in PageId |-> IF q = n THEN 2 * g.ord[p] + 1 ELSE 2 * g.ord[q] + 2]
           g2 == [top |-> top, owner |-> owner, lvl |-> lvl, ord |-> ord]
<1>1. /\ g.top \in Nat
      /\ g.owner \in [PageId -> Nat \cup {-1}]
      /\ g.lvl \in [PageId -> 0 .. g.top] /\ g.ord \in [PageId -> 0 .. g.top]
  BY DEF Sane, Ghosts
<1>2. /\ \A q \in PageId : q # n => owner[q] = g.owner[q] /\ lvl[q] = g.lvl[q] /\ ord[q] = 2 * g.ord[q] + 2
      /\ owner[n] = i /\ lvl[n] = l /\ ord[n] = 2 * g.ord[p] + 1
  BY <1>1
<1>3. top \in Nat /\ owner \in [PageId -> Nat \cup {-1}]
  BY <1>1
<1>4. lvl \in [PageId -> 0 .. top]
  <2>1. ASSUME NEW q \in PageId PROVE lvl[q] \in 0 .. top
    <3>1. g.lvl[q] \in 0 .. g.top
      BY <1>1
    <3>2. CASE q = n
      BY <1>1, <1>2, <3>2
    <3>3. CASE q # n
      BY <1>1, <1>2, <3>1, <3>3
    <3> QED
      BY <3>2, <3>3
  <2>2. lvl = [q \in PageId |-> lvl[q]]
    BY <1>1
  <2> HIDE DEF lvl, top
  <2> QED
    BY <2>1, <2>2
<1>5. ord \in [PageId -> 0 .. top]
  <2>1. ASSUME NEW q \in PageId PROVE ord[q] \in 0 .. top
    <3>1. g.ord[q] \in 0 .. g.top /\ g.ord[p] \in 0 .. g.top
      BY <1>1
    <3>2. CASE q = n
      BY <1>1, <1>2, <3>1, <3>2
    <3>3. CASE q # n
      BY <1>1, <1>2, <3>1, <3>3
    <3> QED
      BY <3>2, <3>3
  <2>2. ord = [q \in PageId |-> ord[q]]
    OBVIOUS
  <2> HIDE DEF ord, top
  <2> QED
    BY <2>1, <2>2
<1>6. /\ g2.top = top /\ g2.owner = owner /\ g2.lvl = lvl /\ g2.ord = ord
  OBVIOUS
<1>7. Ghosts(g2)
  <2> HIDE DEF owner, lvl, ord, top, g2
  <2> QED
    BY <1>3, <1>4, <1>5, <1>6 DEF Ghosts
<1>8. \A q \in PageId : g.ord[q] \in Nat
  BY <1>1
<1> HIDE DEF owner, lvl, ord, top, g2
<1>9. Claims(g, n, i, l, p, g2)
  <2>1. g2.owner = [g.owner EXCEPT ![n] = i] /\ g2.lvl = [g.lvl EXCEPT ![n] = l]
    BY <1>6 DEF owner, lvl
  <2>2. ASSUME NEW q \in PageId, q # n
        PROVE  /\ g2.ord[q] = 2 * g.ord[q] + 2
               /\ g.ord[q] < g.ord[p] => g2.ord[q] < g2.ord[n]
    BY <1>2, <1>6, <1>8, <2>2
  <2>3. p # n => g2.ord[n] < g2.ord[p]
    BY <1>2, <1>6, <1>8
  <2> QED
    BY <2>1, <2>2, <2>3 DEF Claims
<1>10. ASSUME NEW q \in PageId, g2.owner[q] = -1 PROVE Spare(f[q])
  <2>1. q # n
    BY <1>2, <1>6, <1>10
  <2> QED
    BY <1>2, <1>6, <1>10, <2>1 DEF Sane
<1>11. ASSUME NEW q \in PageId, g2.owner[q] # -1
       PROVE  q \in 1 .. f[0].num_pages - 1 /\ Fits(E, f, g2, q, f[q])
  <2>1. CASE q = n
    BY <2>1 DEF Fits
  <2>2. CASE q # n
    <3>1. g.owner[q] # -1 /\ g2.owner[q] = g.owner[q] /\ g2.lvl[q] = g.lvl[q] /\ g2.ord[q] = 2 * g.ord[q] + 2
      BY <1>2, <1>6, <1>11, <2>2
    <3>2. q \in 1 .. f[0].num_pages - 1 /\ Fits(E, f, g, q, f[q])
      BY <3>1 DEF Sane
    <3>3. CASE FitsLeaf(E, g, q, f[q])
      <4>1. ASSUME f[q].next # 0
            PROVE  /\ g2.owner[f[q].next] = g2.owner[q]
                   /\ g2.ord[f[q].next] < g2.ord[q]
        <5> DEFINE m == f[q].next
        <5>1. m \in PageId /\ g.owner[m] = g.owner[q] /\ g.ord[m] < g.ord[q]
          BY <3>3, <4>1 DEF FitsLeaf
        <5> HIDE DEF m
        <5>2. m # n
          BY <3>1, <5>1
        <5>3. g2.owner[m] = g.owner[m] /\ g2.ord[m] = 2 * g.ord[m] + 2
          BY <1>2, <1>6, <5>1, <5>2
        <5>4. g2.owner[m] = g2.owner[q]
          BY <3>1, <5>1, <5>3
        <5>5. g2.ord[m] < g2.ord[q]
          <6>1. g.ord[m] \in Nat /\ g.ord[q] \in Nat
            BY <1>8, <5>1
          <6> QED
            BY <6>1, <3>1, <5>1, <5>3
        <5> QED
          BY <5>4, <5>5 DEF m
      <4> QED
        BY <3>1, <3>2, <3>3, <4>1 DEF Fits, FitsLeaf
    <3>4. CASE FitsInner(f, g, q, f[q])
      <4>1. ASSUME NEW j \in 1 .. Len(f[q].children)
            PROVE  LET c == f[q].children[j]
                   IN  g2.owner[c] = g2.owner[q] /\ g2.lvl[c] = g2.lvl[q] - 1
        <5> DEFINE c == f[q].children[j]
        <5>1. c \in PageId
          <6>1. f[q].children \in Seq(PageId)
            BY <3>4 DEF FitsInner, Points
          <6> QED
            BY <6>1, ElementOfSeq
        <5>2. g.owner[c] = g.owner[q] /\ Solid(f[c]) /\ g.lvl[c] = g.lvl[q] - 1
          BY <3>4 DEF FitsInner
        <5> HIDE DEF c
        <5>3. c # n
          BY <3>1, <5>2
        <5>4. g2.owner[c] = g.owner[c] /\ g2.lvl[c] = g.lvl[c]
          BY <1>2, <1>6, <5>1, <5>3
        <5> QED
          BY <3>1, <5>2, <5>4 DEF c
      <4>2. FitsInner(f, g2, q, f[q])
        BY <3>1, <3>4, <4>1 DEF FitsInner
      <4> QED
        BY <3>2, <4>2 DEF Fits
    <3> QED
      BY <3>2, <3>3, <3>4 DEF Fits
  <2> QED
    BY <2>1, <2>2
<1>12. ASSUME NEW x \in R PROVE Rooted(f, g2, x)
  <2>1. Rooted(f, g, x)
    BY DEF Sane
  <2>2. x[2] # n
    BY <2>1, Kinds DEF Rooted
  <2> QED
    BY <1>2, <1>6, <2>1, <2>2 DEF Rooted
<1>13. Sane(E, R, f, g2)
  BY <1>7, <1>10, <1>11, <1>12 DEF Sane
<1> QED
  BY <1>9, <1>13

-----------------------------------------------------------------------------
(* From one store to the next, write by write.                             *)

IsSeq(w) == \E S : w \in Seq(S)

\* The writes of t are those of s and some more, and fs has the files between.
Replay(s, t, fs) ==
    /\ IsSeq(s.writes) /\ IsSeq(t.writes) /\ Len(s.writes) <= Len(t.writes)
    /\ \A j \in 1 .. Len(s.writes) : t.writes[j] = s.writes[j]
    /\ fs[Len(s.writes)] = s.file /\ fs[Len(t.writes)] = t.file
    /\ \A j \in Len(s.writes) + 1 .. Len(t.writes) :
         fs[j] = WritePage(fs[j - 1], t.writes[j][1], t.writes[j][2])

LEMMA IsSeqFacts ==
    ASSUME NEW w, IsSeq(w), NEW x
    PROVE  /\ Len(w) \in Nat /\ IsSeq(Append(w, x)) /\ Len(Append(w, x)) = Len(w) + 1
           /\ \A j \in 1 .. Len(w) : Append(w, x)[j] = w[j]
           /\ Append(w, x)[Len(w) + 1] = x
<1>1. PICK S : w \in Seq(S)
  BY DEF IsSeq
<1>2. PICK T : T = S \cup {x}
  OBVIOUS
<1>3. w \in Seq(T) /\ x \in T
  <2>1. S \subseteq T /\ x \in T
    BY <1>2
  <2> QED
    BY <1>1, <2>1, SeqMonotonic
<1>4. /\ Append(w, x) \in Seq(T) /\ Len(Append(w, x)) = Len(w) + 1
      /\ \A j \in 1 .. Len(w) : Append(w, x)[j] = w[j]
      /\ Append(w, x)[Len(w) + 1] = x
  BY <1>3, AppendProperties
<1> QED
  BY <1>3, <1>4, LenProperties DEF IsSeq

\* No write at all.
LEMMA ReplayNone ==
    ASSUME NEW s, IsSeq(s.writes)
    PROVE  Replay(s, s, [j \in {Len(s.writes)} |-> s.file])
<1>1. Len(s.writes) \in Nat
  BY IsSeqFacts
<1> QED
  BY <1>1 DEF Replay

\* The store s after the page p is written; its header in memory is h.
Puts(s, h, p, c, t) ==
    /\ t.file = WritePage(s.file, p, c) /\ t.hdr = h
    /\ t.writes = Append(s.writes, <<p, c>>)
    /\ t = [file |-> t.file, hdr |-> t.hdr, writes |-> t.writes]

LEMMA PutIs ==
    ASSUME NEW s, s = [file |-> s.file, hdr |-> s.hdr, writes |-> s.writes], NEW p, NEW c, NEW h
    PROVE  Puts(s, s.hdr, p, c, Put(s, p, c)) /\ Puts(s, h, p, c, Put([s EXCEPT !.hdr = h], p, c))
<1>1. PICK w : w = Append(s.writes, <<p, c>>)
  OBVIOUS
<1>2. PICK f : f = WritePage(s.file, p, c)
  OBVIOUS
<1>3. Put(s, p, c) = [s EXCEPT !.file = f, !.writes = w]
  BY <1>1, <1>2 DEF Put
<1>4. Put(s, p, c) \in [file : {f}, hdr : {s.hdr}, writes : {w}]
  BY <1>3
<1>5. Put(s, p, c) = [file |-> f, hdr |-> s.hdr, writes |-> w]
  BY <1>4
<1>6. [s EXCEPT !.hdr = h] = [file |-> s.file, hdr |-> h, writes |-> s.writes]
  OBVIOUS
<1>7. PICK u : u = [s EXCEPT !.hdr = h]
  OBVIOUS
<1>8. u.file = s.file /\ u.hdr = h /\ u.writes = s.writes
      /\ u = [file |-> u.file, hdr |-> u.hdr, writes |-> u.writes]
  BY <1>6, <1>7
<1>9. Put(u, p, c) = [u EXCEPT !.file = f, !.writes = w]
  BY <1>1, <1>2, <1>8 DEF Put
<1>10. Put(u, p, c) \in [file : {f}, hdr : {h}, writes : {w}]
  BY <1>8, <1>9
<1>11. Put(u, p, c) = [file |-> f, hdr |-> h, writes |-> w]
  BY <1>10
<1>12. Puts(s, s.hdr, p, c, Put(s, p, c))
  BY <1>1, <1>2, <1>5 DEF Puts
<1>13. Puts(s, h, p, c, Put(u, p, c))
  BY <1>1, <1>2, <1>11 DEF Puts
<1> QED
  BY <1>7, <1>12, <1>13

\* One write more.
LEMMA ReplayPut ==
    ASSUME NEW s, NEW t, NEW fs, Replay(s, t, fs), NEW h, NEW p, NEW c, NEW u,
           Puts(t, h, p, c, u),
           NEW gs, gs = [j \in Len(s.writes) .. Len(u.writes) |->
                           IF j <= Len(t.writes) THEN fs[j] ELSE u.file]
    PROVE  /\ Replay(s, u, gs) /\ Len(u.writes) = Len(t.writes) + 1
           /\ Len(s.writes) \in Nat /\ Len(t.writes) \in Nat /\ Len(s.writes) <= Len(t.writes)
<1> DEFINE m == Len(s.writes)
           n == Len(t.writes)
<1>1. /\ m \in Nat /\ n \in Nat /\ IsSeq(u.writes) /\ Len(u.writes) = n + 1 /\ m <= n
      /\ \A j \in 1 .. n : u.writes[j] = t.writes[j]
      /\ u.writes[n + 1] = <<p, c>>
  BY IsSeqFacts DEF Replay, Puts
<1>2. gs[m] = s.file /\ gs[n + 1] = u.file
  BY <1>1 DEF Replay
<1>3. ASSUME NEW j \in m + 1 .. n + 1
      PROVE  gs[j] = WritePage(gs[j - 1], u.writes[j][1], u.writes[j][2])
  <2>1. CASE j <= n
    <3>1. gs[j] = fs[j] /\ gs[j - 1] = fs[j - 1] /\ u.writes[j] = t.writes[j]
      BY <1>1, <2>1
    <3>2. fs[j] = WritePage(fs[j - 1], t.writes[j][1], t.writes[j][2])
      BY <1>1, <2>1 DEF Replay
    <3> QED
      BY <3>1, <3>2
  <2>2. CASE ~(j <= n)
    <3>1. j = n + 1 /\ gs[j] = u.file /\ gs[j - 1] = fs[n]
      BY <1>1, <2>2
    <3> QED
      BY <1>1, <3>1 DEF Puts, Replay
  <2> QED
    BY <2>1, <2>2
<1>4. \A j \in 1 .. m : u.writes[j] = s.writes[j]
  BY <1>1 DEF Replay
<1>5. IsSeq(s.writes) /\ m <= Len(u.writes)
  BY <1>1 DEF Replay
<1>6. Replay(s, u, gs)
  <2> HIDE DEF m, n
  <2> QED
    BY <1>1, <1>2, <1>3, <1>4, <1>5 DEF Replay, m, n
<1> QED
  BY <1>1, <1>6

\* The writes of one step after those of another.
LEMMA ReplayThen ==
    ASSUME NEW s, NEW t, NEW u, NEW fs, Replay(s, t, fs), NEW hs, Replay(t, u, hs),
           NEW gs, gs = [j \in Len(s.writes) .. Len(u.writes) |->
                           IF j <= Len(t.writes) THEN fs[j] ELSE hs[j]]
    PROVE  /\ Replay(s, u, gs)
           /\ Len(s.writes) \in Nat /\ Len(t.writes) \in Nat /\ Len(u.writes) \in Nat
           /\ Len(s.writes) <= Len(t.writes) /\ Len(t.writes) <= Len(u.writes)
<1> DEFINE m == Len(s.writes)
           n == Len(t.writes)
           k == Len(u.writes)
<1>1. m \in Nat /\ n \in Nat /\ k \in Nat /\ m <= n /\ n <= k
  BY IsSeqFacts DEF Replay
<1>2. fs[n] = t.file /\ hs[n] = t.file /\ fs[m] = s.file /\ hs[k] = u.file
  BY DEF Replay
<1>3. gs[m] = s.file /\ gs[k] = u.file
  BY <1>1, <1>2
<1>4. ASSUME NEW j \in m + 1 .. k
      PROVE  gs[j] = WritePage(gs[j - 1], u.writes[j][1], u.writes[j][2])
  <2>1. CASE j <= n
    <3>1. gs[j] = fs[j] /\ gs[j - 1] = fs[j - 1] /\ u.writes[j] = t.writes[j]
      BY <1>1, <2>1 DEF Replay
    <3>2. fs[j] = WritePage(fs[j - 1], t.writes[j][1], t.writes[j][2])
      BY <1>1, <2>1 DEF Replay
    <3> QED
      BY <3>1, <3>2
  <2>2. CASE ~(j <= n)
    <3>1. gs[j] = hs[j] /\ gs[j - 1] = hs[j - 1]
      BY <1>1, <1>2, <2>2
    <3>2. hs[j] = WritePage(hs[j - 1], u.writes[j][1], u.writes[j][2])
      BY <1>1, <2>2 DEF Replay
    <3> QED
      BY <3>1, <3>2
  <2> QED
    BY <2>1, <2>2
<1>5. \A j \in 1 .. m : u.writes[j] = s.writes[j]
  BY <1>1 DEF Replay
<1> QED
  BY <1>1, <1>3, <1>4, <1>5 DEF Replay

-----------------------------------------------------------------------------
(* An operation on tree i that is under way.                               *)

\* Only the count of pages is another.
Counts(h, h2) == h2 = [h EXCEPT !.num_pages = h2.num_pages] /\ h.num_pages <= h2.num_pages

\* A file it may leave: pages of other trees are as they were in f0.
Passing(E, R, f0, g0, i, f) ==
    \E g : /\ Sane(E, R, f, g)
           /\ Counts(f0[0], f[0])
           /\ \A q \in PageId :
                /\ g0.owner[q] \notin {-1, i} => f[q] = f0[q]
                /\ g0.owner[q] # -1 => g.owner[q] = g0.owner[q]
                /\ g0.owner[q] = -1 => g.owner[q] \in {-1, i}

Onward(E, R, s, g0, i, t, g) ==
    /\ GoodStore(s) /\ GoodStore(t) /\ i \in Nat
    /\ Sane(E, R, t.file, g)
    /\ Counts(s.hdr, t.hdr)
    /\ \A q \in PageId :
         /\ g.owner[q] = IF q \in s.hdr.num_pages .. t.hdr.num_pages - 1 THEN i ELSE g0.owner[q]
         /\ g0.owner[q] # -1 => g.lvl[q] = g0.lvl[q] /\ g0.owner[q] = g.owner[q]
         /\ Solid(s.file[q]) => Solid(t.file[q])
         /\ q # 0 /\ g.owner[q] # i => t.file[q] = s.file[q]
    /\ \E fs : /\ Replay(s, t, fs)
               /\ \A j \in Len(s.writes) .. Len(t.writes) : Passing(E, R, s.file, g0, i, fs[j])

\* Nothing is written yet.
LEMMA OnwardNone ==
    ASSUME NEW E, NEW R, NEW s, GoodStore(s), IsSeq(s.writes), NEW g, Sane(E, R, s.file, g),
           NEW i \in Nat
    PROVE  Onward(E, R, s, g, i, s, g)
<1>1. s.hdr.num_pages \in Nat /\ Counts(s.hdr, s.hdr)
  BY MaxPagesAssumption DEF GoodStore, GoodHeader, Counts
<1>2. Passing(E, R, s.file, g, i, s.file)
  <2>1. s.file[0] = s.hdr /\ g.owner \in [PageId -> Nat \cup {-1}]
    BY DEF GoodStore, HEADER_PAGE_ID, Sane, Ghosts
  <2>2. \A q \in PageId : g.owner[q] = -1 => g.owner[q] \in {-1, i}
    OBVIOUS
  <2> QED
    BY <1>1, <2>1, <2>2 DEF Passing
<1>3. PICK fs : fs = [j \in {Len(s.writes)} |-> s.file]
  OBVIOUS
<1>4. Replay(s, s, fs) /\ \A j \in Len(s.writes) .. Len(s.writes) : fs[j] = s.file
  BY <1>3, ReplayNone, IsSeqFacts
<1>5. \E fs2 : /\ Replay(s, s, fs2)
               /\ \A j \in Len(s.writes) .. Len(s.writes) : Passing(E, R, s.file, g, i, fs2[j])
  BY <1>2, <1>4
<1>6. \A q \in PageId : q \notin s.hdr.num_pages .. s.hdr.num_pages - 1
  BY <1>1
<1> QED
  BY <1>1, <1>5, <1>6 DEF Onward

\* What is left so far may be left.
LEMMA OnwardPasses ==
    ASSUME NEW E, NEW R, NEW s, NEW g0, NEW i, NEW t, NEW g, Onward(E, R, s, g0, i, t, g),
           0 \in PageId => g0.owner[0] = -1
    PROVE  Passing(E, R, s.file, g0, i, t.file)
<1>1. Counts(s.file[0], t.file[0])
  BY DEF Onward, GoodStore, HEADER_PAGE_ID
<1>2. ASSUME NEW q \in PageId
      PROVE  /\ g0.owner[q] \notin {-1, i} => t.file[q] = s.file[q]
             /\ g0.owner[q] # -1 => g.owner[q] = g0.owner[q]
             /\ g0.owner[q] = -1 => g.owner[q] \in {-1, i}
  BY DEF Onward
<1> QED
  BY <1>1, <1>2 DEF Passing, Onward

\* The file after a write that may be the last one.
LEMMA OneWriteMore ==
    ASSUME NEW E, NEW R, NEW s, NEW g0, NEW i, NEW t, NEW fs, Replay(s, t, fs),
           \A j \in Len(s.writes) .. Len(t.writes) : Passing(E, R, s.file, g0, i, fs[j]),
           NEW h, NEW p, NEW c, NEW u, Puts(t, h, p, c, u), Passing(E, R, s.file, g0, i, u.file)
    PROVE  \E gs : /\ Replay(s, u, gs)
                   /\ \A j \in Len(s.writes) .. Len(u.writes) : Passing(E, R, s.file, g0, i, gs[j])
<1>2. PICK gs : gs = [j \in Len(s.writes) .. Len(u.writes) |->
                        IF j <= Len(t.writes) THEN fs[j] ELSE u.file]
  OBVIOUS
<1>3. /\ Replay(s, u, gs) /\ Len(u.writes) = Len(t.writes) + 1
      /\ Len(s.writes) \in Nat /\ Len(t.writes) \in Nat /\ Len(s.writes) <= Len(t.writes)
  BY <1>2, ReplayPut
<1>4. ASSUME NEW j \in Len(s.writes) .. Len(u.writes)
      PROVE  Passing(E, R, s.file, g0, i, gs[j])
  <2>1. CASE j <= Len(t.writes)
    <3>1. gs[j] = fs[j] /\ j \in Len(s.writes) .. Len(t.writes)
      BY <1>2, <1>3, <2>1
    <3> QED
      BY <3>1
  <2>2. CASE ~(j <= Len(t.writes))
    BY <1>2, <2>2
  <2> QED
    BY <2>1, <2>2
<1> QED
  BY <1>3, <1>4

\* The tree's own pages are pages other than the header's.
LEMMA OwnedPages ==
    ASSUME NEW E, NEW R, NEW f, NEW g, Sane(E, R, f, g)
    PROVE  /\ 0 \in PageId /\ g.owner[0] = -1
           /\ \A q \in PageId : g.owner[q] # -1 => q \in PageId \ {0} /\ q < f[0].num_pages
           /\ \A q \in PageId : q >= f[0].num_pages => g.owner[q] = -1 /\ Spare(f[q])
           /\ f[0].num_pages \in 1 .. MaxPages /\ MaxPages \in Nat
<1>1. f[0].num_pages \in 1 .. MaxPages /\ MaxPages \in Nat /\ PageId = 0 .. MaxPages - 1
  BY MaxPagesAssumption DEF Sane, GoodHeader, PageId
<1>2. \A q \in PageId : g.owner[q] # -1 => q \in 1 .. f[0].num_pages - 1
  BY DEF Sane
<1>3. \A q \in PageId : g.owner[q] = -1 => Spare(f[q])
  BY DEF Sane
<1> QED
  BY <1>1, <1>2, <1>3

\* The next page of the tree is written.
LEMMA OnwardWrite ==
    ASSUME NEW E, NEW R, NEW s, NEW g0, NEW i, NEW t, NEW g, Onward(E, R, s, g0, i, t, g),
           NEW p \in PageId, g.owner[p] = i, NEW c, Fits(E, t.file, g, p, c), Solid(c)
    PROVE  /\ Onward(E, R, s, g0, i, Put(t, p, c), g)
           /\ Put(t, p, c).hdr = t.hdr
           /\ \A q \in PageId : Put(t, p, c).file[q] = IF q = p THEN c ELSE t.file[q]
<1>1. PICK u : u = Put(t, p, c)
  OBVIOUS
<1>2. g.owner[p] # -1 /\ i \in Nat
  BY DEF Onward
<1>3. p \in PageId \ {0} /\ 0 \in PageId /\ g.owner[0] = -1
  BY <1>2, OwnedPages DEF Onward
<1>4. /\ GoodStore(u) /\ u.hdr = t.hdr
      /\ \A q \in PageId : u.file[q] = IF q = p THEN c ELSE t.file[q]
  BY <1>1, <1>3, PutPageFacts DEF Onward
<1>5. Puts(t, t.hdr, p, c, u)
  BY <1>1, PutIs DEF Onward, GoodStore
<1>6. Sane(E, R, u.file, g)
  <2>1. u.file = WritePage(t.file, p, c)
    BY <1>5 DEF Puts
  <2> QED
    BY <1>2, <2>1, SaneWrite DEF Onward
<1>7. \A q \in PageId :
         /\ g.owner[q] = IF q \in s.hdr.num_pages .. u.hdr.num_pages - 1 THEN i ELSE g0.owner[q]
         /\ g0.owner[q] # -1 => g.lvl[q] = g0.lvl[q] /\ g0.owner[q] = g.owner[q]
         /\ Solid(s.file[q]) => Solid(u.file[q])
         /\ q # 0 /\ g.owner[q] # i => u.file[q] = s.file[q]
  BY <1>4 DEF Onward
<1>8. Counts(s.hdr, u.hdr)
  BY <1>4 DEF Onward
<1>9. Passing(E, R, s.file, g0, i, u.file)
  <2>1. Counts(s.file[0], u.file[0])
    BY <1>4, <1>8 DEF Onward, GoodStore, HEADER_PAGE_ID
  <2>2. ASSUME NEW q \in PageId
        PROVE  /\ g0.owner[q] \notin {-1, i} => u.file[q] = s.file[q]
               /\ g0.owner[q] # -1 => g.owner[q] = g0.owner[q]
               /\ g0.owner[q] = -1 => g.owner[q] \in {-1, i}
    <3>1. g0.owner[q] # -1 => g.owner[q] = g0.owner[q]
      BY <1>7
    <3>2. g0.owner[q] = -1 => g.owner[q] \in {-1, i}
      BY <1>7
    <3>3. ASSUME g0.owner[q] \notin {-1, i}
          PROVE  u.file[q] = s.file[q]
      BY <1>3, <1>7, <3>1, <3>3
    <3> QED
      BY <3>1, <3>2, <3>3
  <2> QED
    BY <1>6, <2>1, <2>2 DEF Passing
<1>10. \E fs : /\ Replay(s, u, fs)
               /\ \A j \in Len(s.writes) .. Len(u.writes) : Passing(E, R, s.file, g0, i, fs[j])
  BY <1>5, <1>9, OneWriteMore DEF Onward
<1>11. Onward(E, R, s, g0, i, u, g)
  BY <1>4, <1>6, <1>7, <1>8, <1>10 DEF Onward
<1> QED
  BY <1>1, <1>4, <1>11

\* The two writes of an allocation: the page is zeroed, then counted.
LEMMA AllocIs ==
    ASSUME NEW s, GoodStore(s), s.hdr.num_pages < MaxPages,
           NEW h, h = [s.hdr EXCEPT !.num_pages = @ + 1]
    PROVE  \E m : /\ Puts(s, h, s.hdr.num_pages, Blank, m)
                  /\ Puts(m, h, 0, h, Alloc(s))
<1>1. s.hdr.free_list_head = 0
  BY DEF GoodStore, GoodHeader
<1>2. AllocPage(s.hdr) = s.hdr.num_pages /\ AllocHeader(s.hdr, s.file) = h
  BY <1>1 DEF AllocPage, AllocHeader
<1>3. PICK m : m = Put([s EXCEPT !.hdr = h], s.hdr.num_pages, Blank)
  OBVIOUS
<1>4. Puts(s, h, s.hdr.num_pages, Blank, m)
  BY <1>3, PutIs DEF GoodStore
<1>5. Puts(m, h, 0, h, Put(m, 0, h))
  <2>1. m = [file |-> m.file, hdr |-> m.hdr, writes |-> m.writes] /\ m.hdr = h
    BY <1>4 DEF Puts
  <2>2. Puts(m, m.hdr, 0, h, Put(m, 0, h))
    BY <2>1, PutIs
  <2> QED
    BY <2>1, <2>2
<1>6. Alloc(s) = Put(m, 0, h)
  BY <1>2, <1>3 DEF Alloc, HEADER_PAGE_ID
<1> QED
  BY <1>4, <1>5, <1>6

\* A page is allocated for tree i.
LEMMA OnwardAlloc ==
    ASSUME NEW E, NEW R, NEW s, NEW g0, NEW i, NEW t, NEW g, Onward(E, R, s, g0, i, t, g),
           t.hdr.num_pages < MaxPages, NEW l \in Nat, NEW p \in PageId,
           NEW n, n = t.hdr.num_pages
    PROVE  /\ \E g2 : Onward(E, R, s, g0, i, Alloc(t), g2) /\ Claims(g, n, i, l, p, g2)
           /\ n \in PageId \ {0} /\ AllocPage(t.hdr) = n /\ g.owner[n] = -1
           /\ Alloc(t).hdr.num_pages = n + 1
           /\ Alloc(t).file[n] = Blank
           /\ \A q \in PageId \ {0, n} : Alloc(t).file[q] = t.file[q]
<1>1. PICK u : u = Alloc(t)
  OBVIOUS
<1>2. PICK h : h = [t.hdr EXCEPT !.num_pages = @ + 1]
  OBVIOUS
<1>3. /\ GoodStore(s) /\ GoodStore(t) /\ i \in Nat /\ Sane(E, R, t.file, g)
      /\ t.file[0] = t.hdr
  BY DEF Onward, GoodStore, HEADER_PAGE_ID
<1>4. /\ GoodStore(u) /\ AllocPage(t.hdr) = n /\ n \in PageId \ {0} /\ u.hdr = h
      /\ u.hdr.num_pages = n + 1
      /\ \A q \in PageId \ {0, n} : u.file[q] = t.file[q]
  BY <1>1, <1>2, <1>3, AllocFacts
<1>5. PICK m : Puts(t, h, n, Blank, m) /\ Puts(m, h, 0, h, u)
  BY <1>1, <1>2, <1>3, AllocIs
<1>6. /\ 0 \in PageId /\ g.owner[0] = -1 /\ g.owner[n] = -1 /\ Spare(t.file[n])
      /\ n \in Nat /\ MaxPages \in Nat /\ n <= MaxPages
  BY <1>3, <1>4, OwnedPages
<1>7. /\ DOMAIN m.file = PageId
      /\ \A q \in PageId : m.file[q] = IF q = n THEN Blank ELSE t.file[q]
      /\ \A q \in PageId : u.file[q] = IF q = 0 THEN h ELSE m.file[q]
  <2>1. m.file = WritePage(t.file, n, Blank) /\ u.file = WritePage(m.file, 0, h)
    BY <1>5 DEF Puts
  <2>2. DOMAIN m.file = PageId /\ \A q \in PageId : m.file[q] = IF q = n THEN Blank ELSE t.file[q]
    BY <1>3, <2>1, WritePageFacts DEF GoodStore
  <2> QED
    BY <2>1, <2>2, WritePageFacts
<1>8. Sane(E, R, m.file, g)
  <2>1. m.file = WritePage(t.file, n, Blank)
    BY <1>5 DEF Puts
  <2> QED
    BY <1>3, <1>4, <1>6, <2>1, SaneBlank
<1>9. Counts(t.hdr, h) /\ GoodHeader(h) /\ h.num_pages = n + 1
  <2>1. GoodHeader(t.hdr)
    BY <1>3 DEF GoodStore
  <2> QED
    BY <1>2, <1>6, <2>1 DEF Counts, GoodHeader
<1>10. Sane(E, R, u.file, g)
  <2>1. u.file = WritePage(m.file, 0, h)
    BY <1>5 DEF Puts
  <2>2. m.file[0] = t.hdr
    BY <1>3, <1>4, <1>6, <1>7
  <2> QED
    BY <1>8, <1>9, <2>1, <2>2, SaneHeader DEF Counts
<1>11. PICK g2 : Sane(E, R, u.file, g2) /\ Claims(g, n, i, l, p, g2)
  <2>1. u.file[n] = Blank /\ u.file[0] = h
    BY <1>4, <1>6, <1>7
  <2>2. n \in 1 .. u.file[0].num_pages - 1
    BY <1>4, <1>6, <1>9, <2>1
  <2> QED
    BY <1>3, <1>4, <1>6, <1>10, <2>1, <2>2, SaneClaim
<1>12. g.owner \in [PageId -> Nat \cup {-1}]
  BY <1>3 DEF Sane, Ghosts
<1>13. /\ g2.owner[n] = i
       /\ \A q \in PageId : q # n => g2.owner[q] = g.owner[q] /\ g2.lvl[q] = g.lvl[q]
  BY <1>4, <1>11, <1>12, <1>3 DEF Claims, Sane, Ghosts
<1>14. Counts(s.hdr, u.hdr)
  <2>1. Counts(s.hdr, t.hdr) /\ GoodHeader(s.hdr) /\ GoodHeader(t.hdr)
    BY <1>3 DEF Onward, GoodStore
  <2> QED
    BY <1>4, <1>2, <1>9, <1>6, <2>1 DEF Counts, GoodHeader
<1>15. s.hdr.num_pages \in Nat /\ s.hdr.num_pages <= n /\ u.hdr.num_pages - 1 = n
  <2>1. Counts(s.hdr, t.hdr) /\ s.hdr.num_pages \in Nat
    BY <1>3, MaxPagesAssumption DEF Onward, GoodStore, GoodHeader
  <2> QED
    BY <1>4, <1>6, <2>1 DEF Counts
<1>16. \A q \in PageId :
         /\ g.owner[q] = IF q \in s.hdr.num_pages .. n - 1 THEN i ELSE g0.owner[q]
         /\ g0.owner[q] # -1 => g.lvl[q] = g0.lvl[q] /\ g0.owner[q] = g.owner[q]
         /\ Solid(s.file[q]) => Solid(t.file[q])
         /\ q # 0 /\ g.owner[q] # i => t.file[q] = s.file[q]
  BY DEF Onward
<1>17. ASSUME NEW q \in PageId
       PROVE  /\ g2.owner[q] = IF q \in s.hdr.num_pages .. u.hdr.num_pages - 1 THEN i ELSE g0.owner[q]
              /\ g0.owner[q] # -1 => g2.lvl[q] = g0.lvl[q] /\ g0.owner[q] = g2.owner[q]
              /\ Solid(s.file[q]) => Solid(u.file[q])
              /\ q # 0 /\ g2.owner[q] # i => u.file[q] = s.file[q]
  <2>1. CASE q = n
    <3>1. g0.owner[q] = -1
      BY <1>6, <1>16, <2>1
    <3>2. ~Solid(s.file[q])
      BY <1>6, <1>16, <2>1, SpareFacts
    <3>3. q \in s.hdr.num_pages .. u.hdr.num_pages - 1
      BY <1>6, <1>15, <2>1
    <3> QED
      BY <1>13, <2>1, <3>1, <3>2, <3>3
  <2>2. CASE q # n
    <3>1. g2.owner[q] = g.owner[q] /\ g2.lvl[q] = g.lvl[q]
      BY <1>13, <2>2
    <3>2. q \in s.hdr.num_pages .. u.hdr.num_pages - 1 <=> q \in s.hdr.num_pages .. n - 1
      BY <1>6, <1>15, <2>2 DEF PageId
    <3>3. q # 0 => u.file[q] = t.file[q]
      BY <1>4, <2>2
    <3>4. q = 0 => ~Solid(s.file[q])
      BY <1>6, <1>16, <1>3, SpareFacts DEF Sane
    <3> QED
      BY <1>16, <3>1, <3>2, <3>3, <3>4
  <2> QED
    BY <2>1, <2>2
<1>18. Passing(E, R, s.file, g0, i, m.file)
  <2>1. Counts(s.file[0], m.file[0])
    <3>1. m.file[0] = t.hdr /\ s.file[0] = s.hdr
      BY <1>3, <1>4, <1>6, <1>7 DEF GoodStore, HEADER_PAGE_ID
    <3> QED
      BY <3>1 DEF Onward
  <2>2. ASSUME NEW q \in PageId
        PROVE  /\ g0.owner[q] \notin {-1, i} => m.file[q] = s.file[q]
               /\ g0.owner[q] # -1 => g.owner[q] = g0.owner[q]
               /\ g0.owner[q] = -1 => g.owner[q] \in {-1, i}
    <3>1. ASSUME g0.owner[q] \notin {-1, i}
          PROVE  m.file[q] = s.file[q]
      <4>1. g.owner[q] = g0.owner[q] /\ q # n /\ q # 0
        BY <1>6, <1>16, <3>1
      <4> QED
        BY <1>7, <1>16, <3>1, <4>1
    <3> QED
      BY <1>16, <3>1
  <2> QED
    BY <1>8, <2>1, <2>2 DEF Passing
<1>19. Passing(E, R, s.file, g0, i, u.file)
  <2>1. Counts(s.file[0], u.file[0])
    BY <1>3, <1>4, <1>14 DEF GoodStore, HEADER_PAGE_ID
  <2>2. ASSUME NEW q \in PageId
        PROVE  /\ g0.owner[q] \notin {-1, i} => u.file[q] = s.file[q]
               /\ g0.owner[q] # -1 => g2.owner[q] = g0.owner[q]
               /\ g0.owner[q] = -1 => g2.owner[q] \in {-1, i}
    <3>1. g0.owner[q] # -1 => g2.owner[q] = g0.owner[q]
      BY <1>17
    <3>2. g0.owner[q] = -1 => g2.owner[q] \in {-1, i}
      BY <1>17
    <3>3. ASSUME g0.owner[q] \notin {-1, i}
          PROVE  u.file[q] = s.file[q]
      <4>1. q # 0 /\ g2.owner[q] # i
        BY <1>6, <1>16, <3>1, <3>3
      <4> QED
        BY <1>17, <4>1
    <3> QED
      BY <3>1, <3>2, <3>3
  <2> QED
    BY <1>11, <2>1, <2>2 DEF Passing
<1>20. PICK fs : /\ Replay(s, t, fs)
                 /\ \A j \in Len(s.writes) .. Len(t.writes) : Passing(E, R, s.file, g0, i, fs[j])
  BY DEF Onward
<1>21. \E gs : /\ Replay(s, u, gs)
               /\ \A j \in Len(s.writes) .. Len(u.writes) : Passing(E, R, s.file, g0, i, gs[j])
  <2>1. \E gs : /\ Replay(s, m, gs)
                /\ \A j \in Len(s.writes) .. Len(m.writes) : Passing(E, R, s.file, g0, i, gs[j])
    BY <1>5, <1>18, <1>20, OneWriteMore
  <2> QED
    BY <1>5, <1>19, <2>1, OneWriteMore
<1>22. Onward(E, R, s, g0, i, u, g2)
  BY <1>3, <1>4, <1>11, <1>14, <1>17, <1>21 DEF Onward
<1> QED
  BY <1>1, <1>4, <1>6, <1>7, <1>11, <1>22

-----------------------------------------------------------------------------
(* Descents and scans in such a file.                                      *)

\* The written pages of tree i.
Written(f, g, i) == {q \in PageId : g.owner[q] = i /\ Solid(f[q])}

\* A page of a tree is a leaf on level 0 and an internal node above it, and its
\* children are pages of that tree one level down.
LEMMA WrittenFacts ==
    ASSUME NEW E, NEW R, NEW f, NEW g, Sane(E, R, f, g), NEW i \in Nat, NEW p \in Written(f, g, i)
    PROVE  /\ p \in PageId \ {0} /\ p < f[0].num_pages /\ g.lvl[p] \in Nat
           /\ g.lvl[p] = 0 => FitsLeaf(E, g, p, f[p]) /\ f[p].type = "leaf"
           /\ g.lvl[p] # 0 =>
                /\ FitsInner(f, g, p, f[p]) /\ f[p].type = "internal"
                /\ Len(f[p].children) = Len(f[p].keys) + 1 /\ Len(f[p].keys) \in Nat
                /\ \A j \in 1 .. Len(f[p].children) :
                     f[p].children[j] \in Written(f, g, i) /\ g.lvl[f[p].children[j]] = g.lvl[p] - 1
<1>1. p \in PageId /\ g.owner[p] = i /\ i # -1 /\ Solid(f[p])
  BY DEF Written
<1>2. p \in PageId \ {0} /\ p < f[0].num_pages
  BY <1>1, OwnedPages
<1>3. g.lvl[p] \in Nat
  <2>1. g.top \in Nat /\ g.lvl \in [PageId -> 0 .. g.top]
    BY DEF Sane, Ghosts
  <2> QED
    BY <1>1, <2>1
<1>4. Fits(E, f, g, p, f[p])
  BY <1>1 DEF Sane
<1>5. /\ FitsLeaf(E, g, p, f[p]) => f[p].type = "leaf" /\ g.lvl[p] = 0
      /\ FitsInner(f, g, p, f[p]) => f[p].type = "internal" /\ g.lvl[p] # 0
      /\ f[p] # Blank
  BY <1>1, <1>3, Kinds DEF FitsLeaf, FitsInner
<1>6. ASSUME FitsInner(f, g, p, f[p]), NEW j \in 1 .. Len(f[p].children)
      PROVE  f[p].children[j] \in Written(f, g, i) /\ g.lvl[f[p].children[j]] = g.lvl[p] - 1
  <2>1. f[p].children \in Seq(PageId)
    BY <1>6 DEF FitsInner, Points
  <2>2. f[p].children[j] \in PageId
    BY <2>1, ElementOfSeq
  <2> QED
    BY <1>1, <1>6, <2>2 DEF FitsInner, Written
<1>7. FitsInner(f, g, p, f[p]) => Len(f[p].children) = Len(f[p].keys) + 1 /\ Len(f[p].keys) \in Nat
  BY LenProperties DEF FitsInner, Points
<1> QED
  BY <1>2, <1>3, <1>4, <1>5, <1>6, <1>7 DEF Fits

\* However the child slots are chosen, a descent is as long as the tree is high.
LEMMA PathOwned ==
    ASSUME NEW E, NEW R, NEW f, NEW g, Sane(E, R, f, g), NEW i \in Nat, NEW k \in Int,
           NEW root \in Written(f, g, i)
    PROVE  /\ DownFrom(Written(f, g, i), g.lvl, root, FindPath(f, root, k))
           /\ DownFrom(Written(f, g, i), g.lvl, root, LeftmostPath(f, root))
<1> DEFINE own == Written(f, g, i)
           Good(q) == /\ DownFrom(own, g.lvl, q, FindPath(f, q, k))
                      /\ DownFrom(own, g.lvl, q, LeftmostPath(f, q))
           T == {n \in Nat : \A q \in own : g.lvl[q] = n => Good(q)}
<1>1. Grounded(f)
  BY SaneEnds
<1>2. ASSUME NEW n \in Nat, \A m \in Nat : m < n => m \in T
      PROVE  n \in T
  <2> SUFFICES ASSUME NEW q \in own, g.lvl[q] = n
               PROVE  Good(q)
    OBVIOUS
  <2>1. /\ q \in PageId /\ g.lvl[q] \in Nat
        /\ FindPath(f, q, k) =
             IF f[q].type = "internal"
             THEN <<q>> \o FindPath(f, f[q].children[ChildIndex(f[q].keys, k)], k)
             ELSE <<q>>
        /\ LeftmostPath(f, q) =
             IF f[q].type = "internal"
             THEN <<q>> \o LeftmostPath(f, f[q].children[1]) ELSE <<q>>
    BY <1>1, WrittenFacts, FindPathStep, LeftmostPathStep
  <2>2. CASE n = 0
    <3>1. f[q].type = "leaf"
      BY <2>2, WrittenFacts
    <3>2. FindPath(f, q, k) = <<q>> /\ LeftmostPath(f, q) = <<q>>
      BY <2>1, <3>1
    <3>3. DownFrom(own, g.lvl, q, <<q>>)
      BY <2>2 DEF DownFrom
    <3> QED
      BY <3>2, <3>3
  <2>3. CASE n # 0
    <3>1. /\ FitsInner(f, g, q, f[q]) /\ f[q].type = "internal"
          /\ Len(f[q].children) = Len(f[q].keys) + 1 /\ Len(f[q].keys) \in Nat
          /\ \A j \in 1 .. Len(f[q].children) :
               f[q].children[j] \in own /\ g.lvl[f[q].children[j]] = n - 1
      BY <2>3, WrittenFacts
    <3>2. f[q].keys \in Seq(Int)
      BY <3>1 DEF FitsInner, Points
    <3> DEFINE at == ChildIndex(f[q].keys, k)
    <3>3. at \in 1 .. Len(f[q].children) /\ 1 \in 1 .. Len(f[q].children)
      <4> HIDE DEF own
      <4>1. at \in 1 .. Len(f[q].keys) + 1
        BY <3>2, ChildIndexRange
      <4> HIDE DEF at
      <4> QED
        BY <3>1, <4>1
    <3>4. ASSUME NEW j \in 1 .. Len(f[q].children)
          PROVE  Good(f[q].children[j]) /\ f[q].children[j] \in own
                 /\ g.lvl[f[q].children[j]] = g.lvl[q] - 1
      <4>1. f[q].children[j] \in own /\ g.lvl[f[q].children[j]] = n - 1
        BY <3>1
      <4>2. n - 1 \in T
        BY <1>2, <2>3
      <4> QED
        BY <4>1, <4>2
    <3>5. /\ FindPath(f, q, k) = <<q>> \o FindPath(f, f[q].children[at], k)
          /\ LeftmostPath(f, q) = <<q>> \o LeftmostPath(f, f[q].children[1])
      BY <2>1, <3>1
    <3> HIDE DEF at, own
    <3>6. DownFrom(own, g.lvl, q, FindPath(f, q, k))
      BY <2>1, <3>3, <3>4, <3>5, DownStep
    <3>7. DownFrom(own, g.lvl, q, LeftmostPath(f, q))
      BY <2>1, <3>3, <3>4, <3>5, DownStep
    <3> QED
      BY <3>6, <3>7
  <2> QED
    BY <2>2, <2>3
<1>3. T = Nat
  <2> HIDE DEF T
  <2>1. T \in SUBSET Nat
    BY DEF T
  <2> QED
    BY <1>2, <2>1, AllNumbers
<1>4. g.lvl[root] \in Nat
  BY WrittenFacts
<1> QED
  BY <1>3, <1>4

\* A descent ends at a leaf of the tree.
LEMMA LeafOwned ==
    ASSUME NEW E, NEW R, NEW f, NEW g, Sane(E, R, f, g), NEW i \in Nat, NEW k \in Int,
           NEW root \in Written(f, g, i)
    PROVE  /\ FindLeaf(f, root, k) \in Written(f, g, i) /\ g.lvl[FindLeaf(f, root, k)] = 0
           /\ LeftmostLeaf(f, root) \in Written(f, g, i) /\ g.lvl[LeftmostLeaf(f, root)] = 0
<1> DEFINE own == Written(f, g, i)
<1>1. ASSUME NEW path, DownFrom(own, g.lvl, root, path)
      PROVE  Last(path) \in own /\ g.lvl[Last(path)] = 0
  <2>1. path \in Seq(own) /\ Len(path) = g.lvl[root] + 1 /\ g.lvl[root] \in Nat
    BY <1>1, WrittenFacts DEF DownFrom
  <2>2. Len(path) \in 1 .. Len(path) /\ Last(path) = path[Len(path)]
    BY <2>1 DEF Last
  <2> HIDE DEF own
  <2>3. path[Len(path)] \in own /\ g.lvl[path[Len(path)]] = Len(path) - Len(path)
    BY <1>1, <2>2 DEF DownFrom
  <2> QED
    BY <2>1, <2>2, <2>3
<1> QED
  BY <1>1, PathOwned DEF FindLeaf, LeftmostLeaf

\* A page of a tree that is not yet written has no entries.
LEMMA OwnedEntries ==
    ASSUME NEW E, NEW R, NEW f, NEW g, Sane(E, R, f, g), NEW i \in Nat,
           NEW p \in PageId, g.owner[p] = i
    PROVE  /\ EntriesOf(f[p]) \in Seq(E[i])
           /\ NextOf(f[p]) # 0 => /\ NextOf(f[p]) \in PageId /\ g.owner[NextOf(f[p])] = i
                                  /\ g.ord[NextOf(f[p])] < g.ord[p]
<1>1. Fits(E, f, g, p, f[p])
  BY DEF Sane
<1>2. CASE FitsLeaf(E, g, p, f[p])
  <2>1. EntriesOf(f[p]) = f[p].entries /\ NextOf(f[p]) = f[p].next
    BY <1>1, <1>2, FitsFacts
  <2> QED
    BY <1>2, <2>1 DEF FitsLeaf
<1>3. CASE ~FitsLeaf(E, g, p, f[p])
  <2>1. f[p].type # "leaf"
    BY <1>1, <1>3, FitsFacts
  <2>2. EntriesOf(f[p]) = <<>> /\ NextOf(f[p]) = 0
    BY <1>1, <2>1, FitsFacts
  <2> QED
    BY <2>2
<1> QED
  BY <1>2, <1>3

\* A scan stays in its tree.
LEMMA ScanOwned ==
    ASSUME NEW E, NEW R, NEW f, NEW g, Sane(E, R, f, g), NEW i \in Nat,
           NEW root \in Written(f, g, i)
    PROVE  /\ ToSet(LeafChain(f, root)) \subseteq {q \in PageId : g.owner[q] = i}
           /\ ScanEntries(f, root) \in Seq(E[i])
<1> DEFINE own == {q \in PageId : g.owner[q] = i}
           Good(q) == ChainFrom(f, q) \in Seq(own) /\ EntriesFrom(f, q) \in Seq(E[i])
           T == {n \in Nat : \A q \in own : g.ord[q] = n => Good(q)}
<1>1. Linked(f) /\ Readable(f)
  BY SaneEnds
<1>2. g.top \in Nat /\ g.ord \in [PageId -> 0 .. g.top]
  BY DEF Sane, Ghosts
<1>3. ASSUME NEW n \in Nat, \A m \in Nat : m < n => m \in T
      PROVE  n \in T
  <2> SUFFICES ASSUME NEW q \in own, g.ord[q] = n
               PROVE  Good(q)
    OBVIOUS
  <2>1. q \in PageId
    OBVIOUS
  <2>2. ChainFrom(f, q) = IF NextOf(f[q]) = 0 THEN <<q>> ELSE <<q>> \o ChainFrom(f, NextOf(f[q]))
    BY <1>1, <2>1, ChainFromStep
  <2>3. EntriesFrom(f, q) = IF NextOf(f[q]) = 0 THEN EntriesOf(f[q])
                            ELSE EntriesOf(f[q]) \o EntriesFrom(f, NextOf(f[q]))
    BY <1>1, <2>1, EntriesFromStep DEF Readable
  <2>4. EntriesOf(f[q]) \in Seq(E[i]) /\ <<q>> \in Seq(own)
    <3>1. EntriesOf(f[q]) \in Seq(E[i])
      BY OwnedEntries
    <3> QED
      BY <3>1
  <2>5. CASE NextOf(f[q]) = 0
    BY <2>2, <2>3, <2>4, <2>5
  <2>6. CASE NextOf(f[q]) # 0
    <3> DEFINE c == NextOf(f[q])
    <3>1. c \in PageId /\ g.owner[c] = i /\ g.ord[c] < n
      BY <2>6, OwnedEntries
    <3>2. g.ord[c] \in Nat
      BY <1>2, <3>1
    <3>3. Good(c)
      <4>1. g.ord[c] \in T
        BY <1>3, <3>1, <3>2
      <4> QED
        BY <3>1, <4>1
    <3> HIDE DEF own, c
    <3>4. <<q>> \o ChainFrom(f, c) \in Seq(own)
      BY <2>4, <3>3, ConcatProperties
    <3>5. EntriesOf(f[q]) \o EntriesFrom(f, c) \in Seq(E[i])
      BY <2>4, <3>3, ConcatProperties
    <3> QED
      BY <2>2, <2>3, <2>6, <3>4, <3>5 DEF c
  <2> QED
    BY <2>5, <2>6
<1>4. T = Nat
  <2> HIDE DEF T
  <2>1. T \in SUBSET Nat
    BY DEF T
  <2> QED
    BY <1>3, <2>1, AllNumbers
<1>5. LeftmostLeaf(f, root) \in own
  BY LeafOwned DEF Written
<1>6. Good(LeftmostLeaf(f, root))
  <2>1. g.ord[LeftmostLeaf(f, root)] \in Nat
    BY <1>2, <1>5
  <2> QED
    BY <1>4, <1>5, <2>1
<1>7. ToSet(LeafChain(f, root)) \subseteq own
  <2> HIDE DEF own
  <2>1. LeafChain(f, root) \in Seq(own)
    BY <1>6 DEF LeafChain
  <2> QED
    BY <2>1 DEF ToSet
<1> QED
  BY <1>6, <1>7 DEF ScanEntries

\* No child pointer leads out of the tree, or to a page that is not written.
LEMMA PagesOwned ==
    ASSUME NEW E, NEW R, NEW f, NEW g, Sane(E, R, f, g), NEW i \in Nat,
           NEW root \in Written(f, g, i)
    PROVE  TreePages(f, root) \subseteq Written(f, g, i)
<1> DEFINE own == Written(f, g, i)
           T == {n \in Nat : \A q \in own : g.lvl[q] = n => TreePages(f, q) \subseteq own}
<1>1. Grounded(f)
  BY SaneEnds
<1>2. ASSUME NEW n \in Nat, \A m \in Nat : m < n => m \in T
      PROVE  n \in T
  <2> SUFFICES ASSUME NEW q \in own, g.lvl[q] = n
               PROVE  TreePages(f, q) \subseteq own
    OBVIOUS
  <2>1. q \in PageId /\ TreePages(f, q) = {q} \cup UNION {TreePages(f, c) : c \in Children(f[q])}
    BY <1>1, WrittenFacts, TreePagesStep
  <2>2. ASSUME NEW c \in Children(f[q])
        PROVE  TreePages(f, c) \subseteq own
    <3>1. f[q].type = "internal" /\ c \in ToSet(f[q].children)
      BY DEF Children
    <3>2. n # 0
      BY <3>1, WrittenFacts
    <3>3. \A j \in 1 .. Len(f[q].children) : f[q].children[j] \in own /\ g.lvl[f[q].children[j]] = n - 1
      BY <3>2, WrittenFacts
    <3>4. FitsInner(f, g, q, f[q])
      BY <3>2, WrittenFacts
    <3>5. DOMAIN f[q].children = 1 .. Len(f[q].children)
      BY <3>4, LenProperties DEF FitsInner, Points
    <3>6. c \in own /\ g.lvl[c] = n - 1
      BY <3>1, <3>3, <3>5 DEF ToSet
    <3>7. n - 1 \in T
      BY <1>2, <3>2
    <3> QED
      BY <3>6, <3>7
  <2> QED
    BY <2>1, <2>2
<1>3. T = Nat
  <2> HIDE DEF T
  <2>1. T \in SUBSET Nat
    BY DEF T
  <2> QED
    BY <1>2, <2>1, AllNumbers
<1>4. g.lvl[root] \in Nat
  BY WrittenFacts
<1> QED
  BY <1>3, <1>4

-----------------------------------------------------------------------------
(* An insert, write by write.                                              *)

\* Wherever an entry is put.
LEMMA InsertEntryTyped ==
    ASSUME NEW S, NEW entries \in Seq(S), NEW e \in S
    PROVE  InsertEntry(entries, e) \in Seq(S)
<1> DEFINE I == {i \in 1 .. Len(entries) : entries[i].key >= e.key}
<1>1. Len(entries) \in Nat
  BY LenProperties
<1>2. \E n \in 1 .. Len(entries) + 1 : InsertEntry(entries, e) = InsertAt(entries, n, e)
  <2>1. CASE I = {}
    <3>1. InsertEntry(entries, e) = InsertAt(entries, Len(entries) + 1, e)
      BY <2>1 DEF InsertEntry, SelectInSeq
    <3> QED
      BY <1>1, <3>1
  <2>2. CASE I # {}
    <3>1. I \in SUBSET Nat
      BY <1>1
    <3>2. PICK n \in I : \A m \in I : n <= m
      <4> HIDE DEF I
      <4> QED
        BY <2>2, <3>1, LeastNumber
    <3>3. Min(I) = n
      BY <3>1, <3>2 DEF Min
    <3>4. InsertEntry(entries, e) = InsertAt(entries, n, e)
      <4>1. n # 0
        BY <3>2
      <4> QED
        BY <2>2, <3>3, <4>1 DEF InsertEntry, SelectInSeq
    <3> QED
      BY <1>1, <3>2, <3>4
  <2> QED
    BY <2>1, <2>2
<1> QED
  BY <1>2, InsertAtFacts

\* Whatever is left out.
LEMMA WithoutTyped ==
    ASSUME NEW S, NEW entries \in Seq(S), NEW k
    PROVE  Without(entries, k) \in Seq(S)
<1>1. Len(entries) \in Nat
  BY LenProperties
<1>2. PICK g : /\ Without(entries, k) = g[Len(entries)]
               /\ g[0] = <<>>
               /\ \A i \in 1 .. Len(entries) :
                    g[i] = IF entries[i].key = k THEN g[i - 1] ELSE Append(g[i - 1], entries[i])
  BY WithoutRecursion
<1> DEFINE T == {i \in Nat : i <= Len(entries) => g[i] \in Seq(S)}
<1>3. ASSUME NEW i \in Nat, \A l \in Nat : l < i => l \in T
      PROVE  i \in T
  <2>1. CASE i = 0
    <3>1. <<>> \in Seq(S) /\ g[i] = <<>>
      BY <1>2, <2>1
    <3> QED
      BY <3>1
  <2>2. CASE i # 0 /\ i <= Len(entries)
    <3>1. i - 1 \in T /\ i \in 1 .. Len(entries)
      BY <1>1, <1>3, <2>2
    <3>2. g[i - 1] \in Seq(S) /\ entries[i] \in S
      BY <1>1, <3>1, ElementOfSeq
    <3>3. g[i] \in Seq(S)
      BY <1>2, <3>1, <3>2, AppendProperties
    <3> QED
      BY <3>3
  <2> QED
    BY <2>1, <2>2
<1>4. T = Nat
  <2> HIDE DEF T
  <2> QED
    BY <1>3, AllNumbers DEF T
<1> QED
  BY <1>1, <1>2, <1>4

\* The store before an operation, and what it owes to the one on tree i.
Begins(E, R, s, g0, i) ==
    /\ GoodStore(s) /\ IsSeq(s.writes) /\ Sane(E, R, s.file, g0) /\ i \in Nat /\ Keyed(E)

\* The store t is s with one page written.
OneWrite(s, t) == \E p, c : t = Put(s, p, c)

\* What insert_recursive leaves when it returns from page p.
Unfolds(E, R, s, g0, i, p, r) ==
    /\ r.split \in BOOLEAN
    /\ r.store.hdr.num_pages <= s.hdr.num_pages + g0.lvl[p] + 1
    /\ r.store.hdr.num_pages = s.hdr.num_pages => ~r.split /\ OneWrite(s, r.store)
    /\ \E g : /\ Onward(E, R, s, g0, i, r.store, g)
              /\ r.split => /\ r.sep \in Int /\ r.page \in Written(r.store.file, g, i)
                            /\ g.lvl[r.page] = g0.lvl[p]

LEMMA UnfoldsNoSplit ==
    ASSUME NEW E, NEW R, NEW s, NEW g0, NEW i, NEW p, NEW t, NEW g, Onward(E, R, s, g0, i, t, g),
           t.hdr.num_pages <= s.hdr.num_pages + g0.lvl[p] + 1,
           t.hdr.num_pages = s.hdr.num_pages => OneWrite(s, t)
    PROVE  Unfolds(E, R, s, g0, i, p, NoSplit(t))
<1> DEFINE r == NoSplit(t)
<1>1. r.store = t /\ r.split = FALSE
  BY DEF NoSplit
<1> HIDE DEF r
<1>2. r.split \in BOOLEAN
  BY <1>1
<1>3. /\ r.store.hdr.num_pages <= s.hdr.num_pages + g0.lvl[p] + 1
      /\ r.store.hdr.num_pages = s.hdr.num_pages => ~r.split /\ OneWrite(s, r.store)
  BY <1>1
<1>4. /\ Onward(E, R, s, g0, i, r.store, g)
      /\ r.split => /\ r.sep \in Int /\ r.page \in Written(r.store.file, g, i)
                    /\ g.lvl[r.page] = g0.lvl[p]
  BY <1>1
<1> QED
  BY <1>2, <1>3, <1>4 DEF Unfolds, r

LEMMA UnfoldsSplit ==
    ASSUME NEW E, NEW R, NEW s, NEW g0, NEW i, NEW p, NEW t, NEW g, Onward(E, R, s, g0, i, t, g),
           t.hdr.num_pages <= s.hdr.num_pages + g0.lvl[p] + 1,
           t.hdr.num_pages # s.hdr.num_pages,
           NEW sep \in Int, NEW q \in Written(t.file, g, i), g.lvl[q] = g0.lvl[p]
    PROVE  Unfolds(E, R, s, g0, i, p, Split(t, sep, q))
<1> DEFINE r == Split(t, sep, q)
<1>1. r.store = t /\ r.split = TRUE /\ r.sep = sep /\ r.page = q
  BY DEF Split
<1> HIDE DEF r
<1>2. r.split \in BOOLEAN
  BY <1>1
<1>3. /\ r.store.hdr.num_pages <= s.hdr.num_pages + g0.lvl[p] + 1
      /\ r.store.hdr.num_pages = s.hdr.num_pages => ~r.split /\ OneWrite(s, r.store)
  BY <1>1
<1>4. /\ Onward(E, R, s, g0, i, r.store, g)
      /\ r.split => /\ r.sep \in Int /\ r.page \in Written(r.store.file, g, i)
                    /\ g.lvl[r.page] = g0.lvl[p]
  BY <1>1
<1> QED
  BY <1>2, <1>3, <1>4 DEF Unfolds, r

\* Pages of the tree stay pages of the tree, on their level.
LEMMA OnwardWritten ==
    ASSUME NEW E, NEW R, NEW s, NEW g0, NEW i, NEW t, NEW g, Onward(E, R, s, g0, i, t, g),
           NEW p \in Written(s.file, g0, i)
    PROVE  p \in Written(t.file, g, i) /\ g.lvl[p] = g0.lvl[p] /\ i \in Nat
<1>1. i \in Nat /\ p \in PageId /\ g0.owner[p] = i /\ i # -1 /\ Solid(s.file[p])
  BY DEF Onward, Written
<1> QED
  BY <1>1 DEF Onward, Written

\* Both halves of the page p fit once the page n is taken for the second one.
HalvesFit(E, f0, g, i, p, n, c, d) ==
    \A g2, f :
      (/\ Claims(g, n, i, g.lvl[p], p, g2)
       /\ g2.owner[n] = i /\ g2.lvl[n] = g.lvl[p]
       /\ \A q \in PageId : q # n => g2.owner[q] = g.owner[q] /\ g2.lvl[q] = g.lvl[q]
       /\ \A q \in PageId \ {0, n} : Solid(f0[q]) => Solid(f[q]))
      => Fits(E, f, g2, p, c) /\ Fits(E, f, g2, n, d)

\* The three writes of a split: the page that is taken is the last of them.
LEMMA OnwardSplit ==
    ASSUME NEW E, NEW R, NEW s, NEW g0, NEW i, NEW t, NEW g, Onward(E, R, s, g0, i, t, g),
           t.hdr.num_pages < MaxPages, NEW p \in Written(t.file, g, i),
           NEW n, n = t.hdr.num_pages, NEW c, NEW d,
           Solid(c), Solid(d),
           HalvesFit(E, t.file, g, i, p, n, c, d),
           NEW u, u = Put(Put(Alloc(t), p, c), n, d)
    PROVE  /\ \E g2 : /\ Onward(E, R, s, g0, i, u, g2)
                      /\ n \in Written(u.file, g2, i) /\ g2.lvl[n] = g.lvl[p]
           /\ u.hdr.num_pages = n + 1
<1> DEFINE a == Alloc(t)
           b == Put(a, p, c)
<1>1. GoodStore(t) /\ i \in Nat /\ Sane(E, R, t.file, g)
  BY DEF Onward
<1>2. p \in PageId \ {0} /\ g.lvl[p] \in Nat /\ g.owner[p] = i
  BY <1>1, WrittenFacts DEF Written
<1>3. PICK g2 : Onward(E, R, s, g0, i, a, g2) /\ Claims(g, n, i, g.lvl[p], p, g2)
  BY <1>2, OnwardAlloc
<1>4. /\ n \in PageId \ {0} /\ AllocPage(t.hdr) = n /\ g.owner[n] = -1
      /\ a.hdr.num_pages = n + 1 /\ a.file[n] = Blank
      /\ \A q \in PageId \ {0, n} : a.file[q] = t.file[q]
  BY <1>2, OnwardAlloc
<1>5. p # n
  BY <1>1, <1>2, <1>4
<1>6. /\ g2.owner[n] = i /\ g2.lvl[n] = g.lvl[p]
      /\ \A q \in PageId : q # n => g2.owner[q] = g.owner[q] /\ g2.lvl[q] = g.lvl[q]
  <2>1. /\ g2.owner = [g.owner EXCEPT ![n] = i] /\ g2.lvl = [g.lvl EXCEPT ![n] = g.lvl[p]]
        /\ DOMAIN g.owner = PageId /\ DOMAIN g.lvl = PageId
    BY <1>1, <1>3 DEF Claims, Sane, Ghosts
  <2> QED
    BY <1>4, <2>1
<1> HIDE DEF a
<1>7. Fits(E, a.file, g2, p, c)
  <2>1. \A q \in PageId \ {0, n} : Solid(t.file[q]) => Solid(a.file[q])
    BY <1>4
  <2> QED
    BY <1>3, <1>6, <2>1 DEF HalvesFit
<1>8. g2.owner[p] = i
  BY <1>2, <1>5, <1>6
<1>9. /\ Onward(E, R, s, g0, i, b, g2) /\ b.hdr = a.hdr
      /\ \A q \in PageId : b.file[q] = IF q = p THEN c ELSE a.file[q]
  BY <1>2, <1>3, <1>7, <1>8, OnwardWrite
<1> HIDE DEF b
<1>10. Fits(E, b.file, g2, n, d)
  <2>1. \A q \in PageId \ {0, n} : Solid(t.file[q]) => Solid(b.file[q])
    BY <1>4, <1>9
  <2> QED
    BY <1>3, <1>6, <2>1 DEF HalvesFit
<1>11. /\ Onward(E, R, s, g0, i, u, g2) /\ u.hdr = b.hdr
       /\ \A q \in PageId : u.file[q] = IF q = n THEN d ELSE b.file[q]
  BY <1>4, <1>6, <1>9, <1>10, OnwardWrite DEF b, a
<1>12. n \in Written(u.file, g2, i)
  BY <1>4, <1>6, <1>11 DEF Written
<1> QED
  BY <1>4, <1>6, <1>9, <1>11, <1>12

\* A leaf takes the entry or is halved.
LEMMA LeafUnfolds ==
    ASSUME NEW E, NEW R, NEW s, NEW g0, NEW i, Begins(E, R, s, g0, i),
           NEW p \in Written(s.file, g0, i), g0.lvl[p] = 0, NEW e \in E[i],
           s.hdr.num_pages < MaxPages
    PROVE  Unfolds(E, R, s, g0, i, p, InsertIntoLeaf(s, p, e))
<1> DEFINE node == s.file[p]
           all == InsertEntry(node.entries, e)
           n == s.hdr.num_pages
           r == InsertIntoLeaf(s, p, e)
<1>1. /\ GoodStore(s) /\ IsSeq(s.writes) /\ Sane(E, R, s.file, g0) /\ i \in Nat /\ Keyed(E)
  BY DEF Begins
<1>2. FitsLeaf(E, g0, p, node) /\ p \in PageId \ {0} /\ g0.owner[p] = i
  BY <1>1, WrittenFacts DEF Written
<1>3. all \in Seq(E[i]) /\ Len(all) \in Nat
  <2>1. node.entries \in Seq(E[i])
    BY <1>2 DEF FitsLeaf
  <2> QED
    BY <2>1, InsertEntryTyped, LenProperties
<1>4. Onward(E, R, s, g0, i, s, g0)
  BY <1>1, OnwardNone
<1>5. r = IF Len(all) <= MAX_LEAF_SLOTS THEN NoSplit(Put(s, p, Leaf(all, node.next)))
          ELSE HalveLeaf(s, p, all, node.next)
  BY DEF InsertIntoLeaf
<1>6. /\ node.next # 0 =>
           /\ node.next \in PageId
           /\ g0.owner[node.next] = i /\ g0.ord[node.next] < g0.ord[p]
  BY <1>2 DEF FitsLeaf
<1>7. n \in Nat /\ MaxPages \in Nat
  BY <1>1, MaxPagesAssumption DEF GoodStore, GoodHeader
<1> HIDE DEF all, r
<1>8. CASE Len(all) <= MAX_LEAF_SLOTS
  <2> DEFINE c == Leaf(all, node.next)
             t == Put(s, p, c)
  <2>1. Fits(E, s.file, g0, p, c) /\ Solid(c)
    <3>1. c.entries = all /\ c.next = node.next /\ Solid(c)
      BY Kinds
    <3> QED
      BY <1>2, <1>3, <1>6, <3>1 DEF Fits, FitsLeaf
  <2> HIDE DEF c
  <2>2. Onward(E, R, s, g0, i, t, g0) /\ t.hdr = s.hdr
    BY <1>2, <1>4, <2>1, OnwardWrite
  <2>3. OneWrite(s, t)
    BY DEF OneWrite
  <2> HIDE DEF t
  <2>4. r = NoSplit(t)
    BY <1>5, <1>8 DEF t, c
  <2>5. t.hdr.num_pages <= s.hdr.num_pages + g0.lvl[p] + 1
    BY <1>7, <2>2
  <2>6. Unfolds(E, R, s, g0, i, p, r)
    BY <2>2, <2>3, <2>4, <2>5, UnfoldsNoSplit
  <2> QED
    BY <2>6 DEF r
<1>9. CASE ~(Len(all) <= MAX_LEAF_SLOTS)
  <2> DEFINE mid == Len(all) \div 2
             left == SubSeq(all, 1, mid)
             rest == SubSeq(all, mid + 1, Len(all))
             c == Leaf(left, n)
             d == Leaf(rest, node.next)
             u == Put(Put(Alloc(s), p, c), n, d)
  <2>1. mid \in 1 .. Len(all) /\ mid + 1 \in 1 .. Len(all)
    <3>1. Len(all) >= 3
      BY <1>3, <1>9, FanoutAssumption
    <3> QED
      BY <1>3, <3>1
  <2> HIDE DEF mid
  <2>2. left \in Seq(E[i]) /\ rest \in Seq(E[i]) /\ Len(rest) >= 1
    <3>1. \A j \in 1 .. Len(all) : all[j] \in E[i]
      BY <1>3, ElementOfSeq
    <3>2. 1 \in 1 .. Len(all) + 1 /\ mid \in 0 .. Len(all) /\ 1 <= mid + 1
          /\ (\A j \in 1 .. mid : all[j] \in E[i])
      BY <1>3, <2>1, <3>1
    <3>3. left \in Seq(E[i])
      BY <1>3, <3>2, SubSeqFacts
    <3>4. mid + 1 \in 1 .. Len(all) + 1 /\ Len(all) \in 0 .. Len(all) /\ mid + 1 <= Len(all) + 1
          /\ (\A j \in mid + 1 .. Len(all) : all[j] \in E[i])
      BY <1>3, <2>1, <3>1
    <3>5. rest \in Seq(E[i]) /\ Len(rest) = Len(all) - (mid + 1) + 1
      <4> HIDE DEF left
      <4>1. PICK a, b : a = mid + 1 /\ b = Len(all)
        OBVIOUS
      <4>2. a \in 1 .. Len(all) + 1 /\ b \in 0 .. Len(all) /\ a <= b + 1
            /\ (\A j \in a .. b : all[j] \in E[i])
        BY <3>4, <4>1
      <4>3. SubSeq(all, a, b) \in Seq(E[i]) /\ Len(SubSeq(all, a, b)) = b - a + 1
        BY <1>3, <4>2, SubSeqFacts
      <4> QED
        BY <4>1, <4>3
    <3> HIDE DEF rest, left
    <3>6. Len(rest) >= 1
      BY <1>3, <2>1, <3>5
    <3> QED
      BY <3>3, <3>5, <3>6
  <2> HIDE DEF left, rest
  <2>3. rest[1].key \in Int
    <3>1. 1 \in 1 .. Len(rest)
      BY <2>2, LenProperties
    <3>2. rest[1] \in E[i]
      BY <2>2, <3>1, ElementOfSeq
    <3> QED
      BY <1>1, <3>2 DEF Keyed
  <2>4. /\ c.entries = left /\ c.next = n /\ Solid(c) /\ c = Leaf(c.entries, c.next)
        /\ d.entries = rest /\ d.next = node.next /\ Solid(d) /\ d = Leaf(d.entries, d.next)
    BY Kinds
  <2>5. /\ AllocPage(s.hdr) = n /\ n \in PageId \ {0} /\ g0.owner[n] = -1
    BY <1>2, <1>4, <1>7, OnwardAlloc
  <2>6. p # n
    BY <1>1, <1>2, <2>5
  <2>7. ASSUME NEW g2, NEW f, Claims(g0, n, i, g0.lvl[p], p, g2),
               g2.owner[n] = i /\ g2.lvl[n] = g0.lvl[p],
               \A q \in PageId : q # n => g2.owner[q] = g0.owner[q] /\ g2.lvl[q] = g0.lvl[q]
        PROVE  Fits(E, f, g2, p, c) /\ Fits(E, f, g2, n, d)
    <3>1. g2.ord[n] < g2.ord[p] /\ g2.owner[p] = i /\ g2.lvl[p] = 0 /\ g2.lvl[n] = 0
      BY <1>2, <2>6, <2>7 DEF Claims
    <3>2. FitsLeaf(E, g2, p, c)
      BY <2>2, <2>4, <2>5, <2>7, <3>1 DEF FitsLeaf
    <3>3. node.next # 0 => g2.owner[node.next] = i /\ g2.ord[node.next] < g2.ord[n]
      <4>1. SUFFICES ASSUME node.next # 0
                     PROVE  g2.owner[node.next] = i /\ g2.ord[node.next] < g2.ord[n]
        OBVIOUS
      <4>2. node.next \in PageId /\ node.next # n
        BY <1>1, <1>6, <2>5, <4>1
      <4> QED
        BY <1>6, <2>7, <4>1, <4>2 DEF Claims
    <3>4. FitsLeaf(E, g2, n, d)
      BY <1>6, <2>2, <2>4, <2>7, <3>1, <3>3 DEF FitsLeaf
    <3> QED
      BY <3>2, <3>4 DEF Fits
  <2> HIDE DEF c, d, u, node
  <2>8. /\ \E g2 : /\ Onward(E, R, s, g0, i, u, g2)
                   /\ n \in Written(u.file, g2, i) /\ g2.lvl[n] = g0.lvl[p]
        /\ u.hdr.num_pages = n + 1
    <3> HIDE DEF n
    <3>1. Solid(c) /\ Solid(d) /\ p \in Written(s.file, g0, i) /\ s.hdr.num_pages < MaxPages
      BY <2>4
    <3>2. HalvesFit(E, s.file, g0, i, p, n, c, d)
      BY <2>7 DEF HalvesFit
    <3> QED
      <4>1. u = Put(Put(Alloc(s), p, c), n, d) /\ n = s.hdr.num_pages
        BY DEF n, u
      <4> QED
        BY <1>4, <3>1, <3>2, <4>1, OnwardSplit
  <2>9. r = Split(u, rest[1].key, n)
    BY <1>5, <1>9, <2>5 DEF HalveLeaf, u, c, d, rest, left, mid, node
  <2>10. u.hdr.num_pages <= s.hdr.num_pages + g0.lvl[p] + 1 /\ u.hdr.num_pages # s.hdr.num_pages
    BY <1>7, <2>8
  <2> HIDE DEF rest, n, r
  <2>11. Unfolds(E, R, s, g0, i, p, r)
    BY <2>3, <2>8, <2>9, <2>10, UnfoldsSplit
  <2> QED
    BY <2>11 DEF r
<1> QED
  BY <1>8, <1>9

\* The pages that a page of tree i on level l may have as children.
Beneath(f, g, i, l) == {q \in Written(f, g, i) : g.lvl[q] = l - 1}

\* A page with such children fits.
LEMMA InnerFits ==
    ASSUME NEW E, NEW f, NEW g, NEW i, NEW p, g.owner[p] = i, g.lvl[p] > 0,
           NEW keys \in Seq(Int), NEW children \in Seq(Beneath(f, g, i, g.lvl[p])),
           Len(children) = Len(keys) + 1
    PROVE  Fits(E, f, g, p, Internal(keys, children))
<1> DEFINE node == Internal(keys, children)
           G == Beneath(f, g, i, g.lvl[p])
<1>1. node.keys = keys /\ node.children = children /\ node = Internal(node.keys, node.children)
  BY Kinds
<1>2. G \subseteq PageId
  BY DEF Beneath, Written
<1>3. \A j \in 1 .. Len(children) : children[j] \in G
  BY ElementOfSeq
<1>4. children \in Seq(PageId)
  <2> HIDE DEF G
  <2>1. children \in Seq(G)
    BY DEF G
  <2> QED
    BY <1>2, <2>1, SeqMonotonic
<1>5. Points(node)
  BY <1>1, <1>4 DEF Points
<1>6. \A j \in 1 .. Len(node.children) :
         /\ g.owner[node.children[j]] = g.owner[p] /\ Solid(f[node.children[j]])
         /\ g.lvl[node.children[j]] = g.lvl[p] - 1
  BY <1>1, <1>3 DEF Beneath, Written
<1> HIDE DEF node
<1>7. FitsInner(f, g, p, node)
  BY <1>1, <1>5, <1>6 DEF FitsInner
<1> QED
  BY <1>7 DEF Fits, node

\* The keys and children of a page with one of each put in.
LEMMA InnerWidened ==
    ASSUME NEW E, NEW R, NEW f, NEW g, Sane(E, R, f, g), NEW i \in Nat,
           NEW p \in Written(f, g, i), g.lvl[p] # 0, NEW k \in Int, NEW sep \in Int,
           NEW q \in Beneath(f, g, i, g.lvl[p]),
           NEW idx, idx = ChildIndex(f[p].keys, k),
           NEW keys, keys = InsertAt(f[p].keys, idx, sep),
           NEW children, children = InsertAt(f[p].children, idx + 1, q)
    PROVE  /\ keys \in Seq(Int) /\ children \in Seq(Beneath(f, g, i, g.lvl[p]))
           /\ Len(children) = Len(keys) + 1 /\ Len(keys) \in Nat
<1> DEFINE G == Beneath(f, g, i, g.lvl[p])
           node == f[p]
<1>1. /\ FitsInner(f, g, p, node) /\ Len(node.children) = Len(node.keys) + 1 /\ Len(node.keys) \in Nat
      /\ \A j \in 1 .. Len(node.children) :
           node.children[j] \in Written(f, g, i) /\ g.lvl[node.children[j]] = g.lvl[p] - 1
  BY WrittenFacts
<1>2. node.keys \in Seq(Int) /\ node.children \in Seq(PageId)
  BY <1>1 DEF FitsInner, Points
<1>3. \A j \in 1 .. Len(node.children) : node.children[j] \in G
  BY <1>1 DEF Beneath
<1> HIDE DEF G, node
<1>4. node.children \in Seq(G)
  BY <1>2, <1>3, IsASeq
<1>5. idx \in 1 .. Len(node.keys) + 1
  BY <1>2, ChildIndexRange DEF node
<1>6. idx + 1 \in 1 .. Len(node.children) + 1
  BY <1>1, <1>5
<1>7. keys \in Seq(Int) /\ Len(keys) = Len(node.keys) + 1
  <2>1. keys = InsertAt(node.keys, idx, sep)
    BY DEF node
  <2>2. /\ InsertAt(node.keys, idx, sep) \in Seq(Int)
        /\ InsertedAt(node.keys, idx, sep, InsertAt(node.keys, idx, sep))
    BY <1>2, <1>5, InsertAtFacts
  <2> QED
    BY <2>1, <2>2 DEF InsertedAt
<1>8. children \in Seq(G) /\ Len(children) = Len(node.children) + 1
  <2>1. q \in G
    BY DEF G
  <2> QED
    BY <1>4, <1>6, <2>1, InsertAtFacts DEF InsertedAt, node
<1> QED
  BY <1>1, <1>7, <1>8 DEF G

LEMMA InnerUnfolds ==
    ASSUME NEW E, NEW R, NEW s, NEW g0, NEW i, Begins(E, R, s, g0, i),
           NEW p \in Written(s.file, g0, i), g0.lvl[p] # 0, NEW k \in Int,
           NEW c, g0.lvl[c] = g0.lvl[p] - 1, NEW r, Unfolds(E, R, s, g0, i, c, r),
           s.hdr.num_pages + g0.lvl[p] + 1 <= MaxPages
    PROVE  Unfolds(E, R, s, g0, i, p, InsertIntoInternal(p, k, r))
<1> DEFINE res == InsertIntoInternal(p, k, r)
           t == r.store
           n == t.hdr.num_pages
<1>1. GoodStore(s) /\ i \in Nat /\ Keyed(E) /\ Sane(E, R, s.file, g0)
  BY DEF Begins
<1>2. g0.lvl[p] \in Nat
  BY <1>1, WrittenFacts
<1>3. s.hdr.num_pages \in Nat /\ MaxPages \in Nat
  BY <1>1, MaxPagesAssumption DEF GoodStore, GoodHeader
<1>4. PICK g : /\ Onward(E, R, s, g0, i, t, g)
               /\ r.split => /\ r.sep \in Int /\ r.page \in Written(t.file, g, i)
                             /\ g.lvl[r.page] = g0.lvl[c]
  BY DEF Unfolds
<1>5. /\ n <= s.hdr.num_pages + g0.lvl[p]
      /\ n = s.hdr.num_pages => ~r.split /\ OneWrite(s, t)
      /\ r.split \in BOOLEAN
  BY <1>2, <1>3 DEF Unfolds
<1>6. GoodStore(t) /\ Sane(E, R, t.file, g) /\ n \in Nat
  <2>1. GoodStore(t) /\ Sane(E, R, t.file, g)
    BY <1>4 DEF Onward
  <2> QED
    BY <2>1, MaxPagesAssumption DEF GoodStore, GoodHeader
<1>7. p \in Written(t.file, g, i) /\ g.lvl[p] = g0.lvl[p]
  BY <1>4, OnwardWritten
<1>8. CASE ~r.split
  <2>1. res = r
    BY <1>8 DEF InsertIntoInternal
  <2>2. r.store.hdr.num_pages <= s.hdr.num_pages + g0.lvl[p] + 1
    BY <1>2, <1>3, <1>5, <1>6
  <2>3. Unfolds(E, R, s, g0, i, p, r)
    BY <1>4, <1>5, <1>8, <2>2 DEF Unfolds
  <2> QED
    BY <2>1, <2>3
<1>9. CASE r.split
  <2> DEFINE node == t.file[p]
             idx == ChildIndex(node.keys, k)
             keys == InsertAt(node.keys, idx, r.sep)
             children == InsertAt(node.children, idx + 1, r.page)
             G == Beneath(t.file, g, i, g.lvl[p])
  <2>1. n # s.hdr.num_pages
    BY <1>5, <1>9
  <2>2. r.sep \in Int /\ r.page \in G
    BY <1>4, <1>7, <1>9 DEF Beneath
  <2>3. keys \in Seq(Int) /\ children \in Seq(G) /\ Len(children) = Len(keys) + 1 /\ Len(keys) \in Nat
    <3>1. g.lvl[p] # 0 /\ Sane(E, R, t.file, g) /\ i \in Nat /\ p \in Written(t.file, g, i)
      BY <1>1, <1>6, <1>7
    <3> HIDE DEF t
    <3>2. r.page \in Beneath(t.file, g, i, g.lvl[p]) /\ r.sep \in Int
      BY <2>2
    <3> HIDE DEF G, node, idx, keys, children
    <3>3. /\ idx = ChildIndex(t.file[p].keys, k)
          /\ keys = InsertAt(t.file[p].keys, idx, r.sep)
          /\ children = InsertAt(t.file[p].children, idx + 1, r.page)
      BY DEF idx, keys, children, node
    <3>4. /\ keys \in Seq(Int) /\ children \in Seq(Beneath(t.file, g, i, g.lvl[p]))
          /\ Len(children) = Len(keys) + 1 /\ Len(keys) \in Nat
      BY <3>1, <3>2, <3>3, InnerWidened
    <3> QED
      BY <3>4 DEF G
  <2>4. res = IF Len(keys) <= MAX_INTERNAL_KEYS
              THEN NoSplit(Put(t, p, Internal(keys, children)))
              ELSE HalveInternal(t, p, keys, children)
    BY <1>9 DEF InsertIntoInternal
  <2>5. g.owner[p] = i /\ g.lvl[p] > 0 /\ p \in PageId /\ i # -1
    BY <1>1, <1>2, <1>7 DEF Written
  <2> HIDE DEF keys, children, G, res
  <2>6. CASE Len(keys) <= MAX_INTERNAL_KEYS
    <3> DEFINE new == Internal(keys, children)
               u == Put(t, p, new)
    <3>1. Fits(E, t.file, g, p, new)
      BY <2>3, <2>5, InnerFits DEF G
    <3>2. Solid(new)
      BY Kinds
    <3> HIDE DEF new
    <3>3. Onward(E, R, s, g0, i, u, g) /\ u.hdr = t.hdr
      BY <1>4, <2>5, <3>1, <3>2, OnwardWrite
    <3>4. u.hdr.num_pages <= s.hdr.num_pages + g0.lvl[p] + 1 /\ u.hdr.num_pages # s.hdr.num_pages
      BY <1>2, <1>3, <1>5, <1>6, <2>1, <3>3
    <3>5. res = NoSplit(u)
      BY <2>4, <2>6 DEF new
    <3> HIDE DEF u
    <3>6. Unfolds(E, R, s, g0, i, p, res)
      BY <3>3, <3>4, <3>5, UnfoldsNoSplit
    <3> QED
      BY <3>6 DEF res
  <2>7. CASE ~(Len(keys) <= MAX_INTERNAL_KEYS)
    <3> DEFINE mid == Len(keys) \div 2
               lk == SubSeq(keys, 1, mid)
               lc == SubSeq(children, 1, mid + 1)
               rk == SubSeq(keys, mid + 2, Len(keys))
               rc == SubSeq(children, mid + 2, Len(children))
               a == Internal(lk, lc)
               b == Internal(rk, rc)
               u == Put(Put(Alloc(t), p, a), n, b)
    <3>1. mid \in Nat /\ mid >= 1 /\ mid + 2 <= Len(keys)
      <4>1. Len(keys) >= 3
        BY <2>3, <2>7, FanoutAssumption
      <4> QED
        BY <2>3, <4>1
    <3> HIDE DEF mid
    <3>2. \A j \in 1 .. Len(children) : children[j] \in G
      BY <2>3, ElementOfSeq
    <3>3. \A j \in 1 .. Len(keys) : keys[j] \in Int
      BY <2>3, ElementOfSeq
    <3>4. lk \in Seq(Int) /\ Len(lk) = mid
      <4>1. 1 \in 1 .. Len(keys) + 1 /\ mid \in 0 .. Len(keys) /\ 1 <= mid + 1
            /\ \A j \in 1 .. mid : keys[j] \in Int
        BY <2>3, <3>1, <3>3
      <4>2. lk \in Seq(Int) /\ Len(lk) = mid - 1 + 1
        BY <2>3, <4>1, SubSeqFacts
      <4> QED
        BY <3>1, <4>2
    <3>5. lc \in Seq(G) /\ Len(lc) = mid + 1
      <4> HIDE DEF lk
      <4>1. PICK m : m = mid + 1
        OBVIOUS
      <4>2. 1 \in 1 .. Len(children) + 1 /\ m \in 0 .. Len(children) /\ 1 <= m + 1
            /\ \A j \in 1 .. m : children[j] \in G
        BY <2>3, <3>1, <3>2, <4>1
      <4>3. SubSeq(children, 1, m) \in Seq(G) /\ Len(SubSeq(children, 1, m)) = m - 1 + 1
        BY <2>3, <4>2, SubSeqFacts
      <4> QED
        BY <3>1, <4>1, <4>3
    <3>6. rk \in Seq(Int) /\ Len(rk) = Len(keys) - mid - 1
      <4> HIDE DEF lk, lc
      <4>1. PICK m, l : m = mid + 2 /\ l = Len(keys)
        OBVIOUS
      <4>2. m \in 1 .. Len(keys) + 1 /\ l \in 0 .. Len(keys) /\ m <= l + 1
            /\ \A j \in m .. l : keys[j] \in Int
        BY <2>3, <3>1, <3>3, <4>1
      <4>3. SubSeq(keys, m, l) \in Seq(Int) /\ Len(SubSeq(keys, m, l)) = l - m + 1
        BY <2>3, <4>2, SubSeqFacts
      <4> QED
        BY <2>3, <3>1, <4>1, <4>3
    <3>7. rc \in Seq(G) /\ Len(rc) = Len(children) - mid - 1
      <4> HIDE DEF lk, lc, rk
      <4>1. PICK m, l : m = mid + 2 /\ l = Len(children)
        OBVIOUS
      <4>2. m \in 1 .. Len(children) + 1 /\ l \in 0 .. Len(children) /\ m <= l + 1
            /\ \A j \in m .. l : children[j] \in G
        BY <2>3, <3>1, <3>2, <4>1
      <4>3. SubSeq(children, m, l) \in Seq(G) /\ Len(SubSeq(children, m, l)) = l - m + 1
        BY <2>3, <4>2, SubSeqFacts
      <4> QED
        BY <2>3, <3>1, <4>1, <4>3
    <3> HIDE DEF lk, lc, rk, rc
    <3>8. Len(lc) = Len(lk) + 1 /\ Len(rc) = Len(rk) + 1
      BY <2>3, <3>1, <3>4, <3>5, <3>6, <3>7
    <3>9. n < MaxPages
      BY <1>2, <1>3, <1>5, <1>6
    <3>10. n \in PageId \ {0} /\ AllocPage(t.hdr) = n /\ g.owner[n] = -1
      BY <1>2, <1>4, <1>7, <2>5, <3>9, OnwardAlloc
    <3>11. p # n
      BY <2>5, <3>10
    <3>12. ASSUME NEW g2, NEW f, Claims(g, n, i, g.lvl[p], p, g2),
                  g2.owner[n] = i /\ g2.lvl[n] = g.lvl[p],
                  \A q \in PageId : q # n => g2.owner[q] = g.owner[q] /\ g2.lvl[q] = g.lvl[q],
                  \A q \in PageId \ {0, n} : Solid(t.file[q]) => Solid(f[q])
           PROVE  Fits(E, f, g2, p, a) /\ Fits(E, f, g2, n, b)
      <4>1. g2.owner[p] = i /\ g2.lvl[p] = g.lvl[p] /\ g2.lvl[p] > 0 /\ g2.lvl[n] > 0
        BY <2>5, <3>11, <3>12
      <4>2. G \subseteq Beneath(f, g2, i, g2.lvl[p])
        <5>1. ASSUME NEW q \in G PROVE q \in Beneath(f, g2, i, g2.lvl[p])
          <6>1. q \in PageId /\ g.owner[q] = i /\ Solid(t.file[q]) /\ g.lvl[q] = g.lvl[p] - 1
            BY DEF G, Beneath, Written
          <6>2. q # n /\ q # 0
            BY <1>6, <2>5, <3>10, <6>1, OwnedPages
          <6> QED
            BY <3>12, <4>1, <6>1, <6>2 DEF Beneath, Written
        <5> QED
          BY <5>1
      <4>3. /\ lc \in Seq(Beneath(f, g2, i, g2.lvl[p])) /\ rc \in Seq(Beneath(f, g2, i, g2.lvl[n]))
        BY <3>5, <3>7, <3>12, <4>1, <4>2, SeqMonotonic
      <4> QED
        BY <3>4, <3>6, <3>8, <3>12, <4>1, <4>3, InnerFits
    <3>13. Solid(a) /\ Solid(b)
      BY Kinds
    <3> HIDE DEF a, b, node, n
    <3>14. HalvesFit(E, t.file, g, i, p, n, a, b)
      BY <3>12 DEF HalvesFit
    <3>15. /\ \E g2 : /\ Onward(E, R, s, g0, i, u, g2)
                      /\ n \in Written(u.file, g2, i) /\ g2.lvl[n] = g.lvl[p]
           /\ u.hdr.num_pages = n + 1
      <4>1. n = t.hdr.num_pages
        BY DEF n
      <4> QED
        BY <1>4, <1>7, <3>9, <3>13, <3>14, <4>1, OnwardSplit
    <3>16. res = Split(u, keys[mid + 1], n)
      BY <2>4, <2>7, <3>10 DEF HalveInternal, u, a, b, lk, lc, rk, rc, mid
    <3>17. keys[mid + 1] \in Int
      <4>1. mid + 1 \in 1 .. Len(keys)
        BY <2>3, <3>1
      <4> QED
        BY <3>3, <4>1
    <3>18. u.hdr.num_pages <= s.hdr.num_pages + g0.lvl[p] + 1 /\ u.hdr.num_pages # s.hdr.num_pages
      <4>1. s.hdr.num_pages <= n
        BY <1>4 DEF Onward, Counts, n
      <4> QED
        BY <1>2, <1>3, <1>5, <1>6, <3>15, <4>1 DEF n
    <3> HIDE DEF u
    <3>19. Unfolds(E, R, s, g0, i, p, res)
      BY <1>7, <3>15, <3>16, <3>17, <3>18, UnfoldsSplit
    <3> QED
      BY <3>19 DEF res
  <2> QED
    BY <2>6, <2>7
<1> QED
  BY <1>8, <1>9

\* What insert_recursive returns from the root.
LEMMA InsertUnfolds ==
    ASSUME NEW E, NEW R, NEW s, NEW g0, NEW i, Begins(E, R, s, g0, i),
           NEW root \in Written(s.file, g0, i), NEW e \in E[i],
           s.hdr.num_pages + g0.lvl[root] + 1 <= MaxPages
    PROVE  Unfolds(E, R, s, g0, i, root, InsertRecursive(s, root, e))
<1> DEFINE path == FindPath(s.file, root, e.key)
           n == Len(path)
           own == Written(s.file, g0, i)
<1>1. GoodStore(s) /\ i \in Nat /\ Keyed(E) /\ Sane(E, R, s.file, g0)
  BY DEF Begins
<1>2. e.key \in Int
  BY <1>1 DEF Keyed
<1>3. s.hdr.num_pages \in Nat /\ MaxPages \in Nat /\ g0.lvl[root] \in Nat
  BY <1>1, WrittenFacts, MaxPagesAssumption DEF GoodStore, GoodHeader
<1>4. DownFrom(own, g0.lvl, root, path)
  BY <1>1, <1>2, PathOwned
<1>5. /\ n = g0.lvl[root] + 1 /\ path[1] = root /\ n \in Nat \ {0}
      /\ \A j \in 1 .. n : path[j] \in own /\ g0.lvl[path[j]] = n - j
  BY <1>3, <1>4 DEF DownFrom
<1>6. PICK g : /\ InsertRecursive(s, root, e) = g[1]
               /\ g[n] = InsertIntoLeaf(s, path[n], e)
               /\ \A j \in 1 .. n - 1 : g[j] = InsertIntoInternal(path[j], e.key, g[j + 1])
  <2>1. Len(path) \in Nat \ {0}
    BY <1>5
  <2> QED
    BY <2>1, InsertRecursion
<1> HIDE DEF path, n, own
<1> DEFINE T == {m \in Nat : m < n => Unfolds(E, R, s, g0, i, path[n - m], g[n - m])}
<1>7. ASSUME NEW m \in Nat, \A l \in Nat : l < m => l \in T
      PROVE  m \in T
  <2> SUFFICES ASSUME m < n PROVE Unfolds(E, R, s, g0, i, path[n - m], g[n - m])
    OBVIOUS
  <2>1. PICK j \in 1 .. n : j = n - m
    <3>1. n - m \in 1 .. n
      BY <1>5
    <3> QED
      BY <3>1
  <2>2. path[j] \in Written(s.file, g0, i) /\ g0.lvl[path[j]] = m
    BY <1>5, <2>1 DEF own
  <2>3. CASE j = n
    <3>1. m = 0
      BY <1>5, <2>1, <2>3
    <3>2. s.hdr.num_pages < MaxPages
      BY <1>3
    <3>3. Unfolds(E, R, s, g0, i, path[n], InsertIntoLeaf(s, path[n], e))
      BY <2>2, <2>3, <3>1, <3>2, LeafUnfolds
    <3> QED
      BY <1>6, <2>1, <2>3, <3>3
  <2>4. CASE j # n
    <3>1. j \in 1 .. n - 1 /\ j + 1 = n - (m - 1) /\ m - 1 \in Nat /\ m - 1 < m /\ m - 1 < n /\ m # 0
          /\ j + 1 \in 1 .. n
      BY <1>5, <2>1, <2>4
    <3>2. m - 1 \in T
      BY <1>7, <3>1
    <3>3. Unfolds(E, R, s, g0, i, path[j + 1], g[j + 1])
      BY <3>1, <3>2
    <3>4. g0.lvl[path[j + 1]] = g0.lvl[path[j]] - 1
      <4>1. g0.lvl[path[j + 1]] = n - (j + 1)
        BY <1>5, <3>1
      <4> QED
        BY <1>5, <2>1, <2>2, <4>1
    <3>5. s.hdr.num_pages + g0.lvl[path[j]] + 1 <= MaxPages
      BY <1>3, <1>5, <2>1, <2>2
    <3>6. g0.lvl[path[j]] # 0
      BY <2>2, <3>1
    <3>7. Unfolds(E, R, s, g0, i, path[j], InsertIntoInternal(path[j], e.key, g[j + 1]))
      BY <1>2, <2>2, <3>3, <3>4, <3>5, <3>6, InnerUnfolds
    <3> QED
      BY <1>6, <2>1, <3>1, <3>7
  <2> QED
    BY <2>3, <2>4
<1>8. T = Nat
  <2> HIDE DEF T
  <2> QED
    BY <1>7, AllNumbers DEF T
<1>9. n - 1 \in Nat /\ n - 1 < n /\ n - (n - 1) = 1
  BY <1>5
<1>10. Unfolds(E, R, s, g0, i, path[1], g[1])
  <2>1. n - 1 \in T
    BY <1>8, <1>9
  <2> QED
    BY <1>9, <2>1
<1> QED
  BY <1>5, <1>6, <1>10

\* An operation on tree i that refuses leaves everything as it was; one that
\* does not is on its way through files of several trees.
SafeInsert(E, R, s, g0, i, root, r) ==
    \/ r.ok = FALSE /\ r.store = s /\ r.root = root
    \/ /\ r.ok = TRUE
       /\ r.store.hdr.num_pages = s.hdr.num_pages => r.root = root /\ OneWrite(s, r.store)
       /\ \E g : Onward(E, R, s, g0, i, r.store, g) /\ r.root \in Written(r.store.file, g, i)

LEMMA InsertSteps ==
    ASSUME NEW E, NEW R, NEW s, NEW g0, NEW i, Begins(E, R, s, g0, i),
           NEW root \in Written(s.file, g0, i), NEW k \in Int, NEW v, Entry(k, v) \in E[i],
           s.hdr.num_pages + g0.lvl[root] + 2 <= MaxPages
    PROVE  SafeInsert(E, R, s, g0, i, root, Insert(s, root, k, v))
<1> DEFINE e == Entry(k, v)
           r == InsertRecursive(s, root, e)
           res == Insert(s, root, k, v)
           t == r.store
           n == t.hdr.num_pages
<1>1. GoodStore(s) /\ i \in Nat /\ Keyed(E) /\ Sane(E, R, s.file, g0)
  BY DEF Begins
<1>2. s.hdr.num_pages \in Nat /\ MaxPages \in Nat /\ g0.lvl[root] \in Nat
  BY <1>1, WrittenFacts, MaxPagesAssumption DEF GoodStore, GoodHeader
<1>3. CASE Found(s.file, root, k) # <<>>
  <2>1. res = [ok |-> FALSE, root |-> root, store |-> s]
    BY <1>3 DEF Insert
  <2> HIDE DEF res
  <2>2. res.ok = FALSE /\ res.store = s /\ res.root = root
    BY <2>1
  <2> QED
    BY <2>2 DEF SafeInsert, res
<1>4. CASE Found(s.file, root, k) = <<>>
  <2>1. res = GrowRoot(root, r)
    BY <1>4 DEF Insert
  <2>2. Unfolds(E, R, s, g0, i, root, r)
    <3> HIDE DEF e
    <3>1. e \in E[i] /\ s.hdr.num_pages + g0.lvl[root] + 1 <= MaxPages
      BY <1>2 DEF e
    <3> QED
      BY <3>1, InsertUnfolds
  <2> HIDE DEF r, res
  <2>3. PICK g : /\ Onward(E, R, s, g0, i, t, g)
                 /\ r.split => /\ r.sep \in Int /\ r.page \in Written(t.file, g, i)
                               /\ g.lvl[r.page] = g0.lvl[root]
    BY <2>2 DEF Unfolds
  <2>4. /\ n <= s.hdr.num_pages + g0.lvl[root] + 1
        /\ n = s.hdr.num_pages => ~r.split /\ OneWrite(s, t)
        /\ r.split \in BOOLEAN
    BY <2>2 DEF Unfolds
  <2>5. GoodStore(t) /\ Sane(E, R, t.file, g) /\ n \in Nat
    <3>1. GoodStore(t) /\ Sane(E, R, t.file, g)
      BY <2>3 DEF Onward
    <3> QED
      BY <3>1, MaxPagesAssumption DEF GoodStore, GoodHeader
  <2>6. root \in Written(t.file, g, i) /\ g.lvl[root] = g0.lvl[root]
    BY <2>3, OnwardWritten
  <2>7. CASE ~r.split
    <3>1. res = [ok |-> TRUE, root |-> root, store |-> t]
      BY <2>1, <2>7 DEF GrowRoot
    <3>2. res.ok = TRUE /\ res.store = t /\ res.root = root
      BY <3>1
    <3>3. res.store.hdr.num_pages = s.hdr.num_pages => res.root = root /\ OneWrite(s, res.store)
      BY <2>4, <3>2
    <3>4. Onward(E, R, s, g0, i, res.store, g) /\ res.root \in Written(res.store.file, g, i)
      BY <2>3, <2>6, <3>2
    <3> QED
      BY <3>2, <3>3, <3>4 DEF SafeInsert, res
  <2>8. CASE r.split
    <3> DEFINE new == Internal(<<r.sep>>, <<root, r.page>>)
               a == Alloc(t)
               u == Put(a, n, new)
    <3>1. n < MaxPages
      BY <1>2, <2>4, <2>5
    <3>2. root \in PageId /\ g.lvl[root] + 1 \in Nat
      BY <1>2, <2>6 DEF Written
    <3>3. PICK g2 : Onward(E, R, s, g0, i, a, g2) /\ Claims(g, n, i, g.lvl[root] + 1, root, g2)
      BY <2>3, <3>1, <3>2, OnwardAlloc
    <3>4. /\ n \in PageId \ {0} /\ AllocPage(t.hdr) = n /\ g.owner[n] = -1
          /\ a.hdr.num_pages = n + 1
          /\ \A q \in PageId \ {0, n} : a.file[q] = t.file[q]
      BY <2>3, <3>1, <3>2, OnwardAlloc
    <3>5. /\ g2.owner[n] = i /\ g2.lvl[n] = g.lvl[root] + 1
          /\ \A q \in PageId : q # n => g2.owner[q] = g.owner[q] /\ g2.lvl[q] = g.lvl[q]
      <4>1. /\ g2.owner = [g.owner EXCEPT ![n] = i] /\ g2.lvl = [g.lvl EXCEPT ![n] = g.lvl[root] + 1]
            /\ DOMAIN g.owner = PageId /\ DOMAIN g.lvl = PageId
        BY <2>5, <3>3 DEF Claims, Sane, Ghosts
      <4> HIDE DEF n
      <4> QED
        BY <3>4, <4>1
    <3> HIDE DEF a
    <3>6. ASSUME NEW q \in {root, r.page}
          PROVE  q \in Beneath(a.file, g2, i, g2.lvl[n])
      <4>1. q \in PageId /\ g.owner[q] = i /\ Solid(t.file[q]) /\ g.lvl[q] = g.lvl[root]
        BY <2>3, <2>6, <2>8 DEF Written
      <4>2. q # n /\ q # 0
        BY <1>1, <2>5, <3>4, <4>1, OwnedPages
      <4>3. a.file[q] = t.file[q] /\ g2.owner[q] = i /\ g2.lvl[q] = g.lvl[root]
        BY <3>4, <3>5, <4>1, <4>2
      <4> QED
        BY <1>2, <2>6, <3>5, <4>1, <4>3 DEF Beneath, Written
    <3>7. Fits(E, a.file, g2, n, new)
      <4> DEFINE G == Beneath(a.file, g2, i, g2.lvl[n])
      <4>1. root \in G /\ r.page \in G
        BY <3>6
      <4> HIDE DEF G
      <4>2. /\ <<root, r.page>> \in Seq(G) /\ Len(<<root, r.page>>) = 2
        BY <4>1
      <4>3. <<r.sep>> \in Seq(Int) /\ Len(<<r.sep>>) = 1
        BY <2>3, <2>8
      <4>4. g2.lvl[n] > 0
        BY <1>2, <2>6, <3>5
      <4> HIDE DEF n
      <4>5. PICK ks, cs : ks = <<r.sep>> /\ cs = <<root, r.page>>
        OBVIOUS
      <4>6. ks \in Seq(Int) /\ cs \in Seq(Beneath(a.file, g2, i, g2.lvl[n])) /\ Len(cs) = Len(ks) + 1
        BY <4>2, <4>3, <4>5 DEF G
      <4>7. Fits(E, a.file, g2, n, Internal(ks, cs))
        BY <3>5, <4>4, <4>6, InnerFits
      <4> QED
        BY <4>5, <4>7
    <3>8. Solid(new)
      BY Kinds
    <3> HIDE DEF new
    <3>9. /\ Onward(E, R, s, g0, i, u, g2) /\ u.hdr = a.hdr
          /\ \A q \in PageId : u.file[q] = IF q = n THEN new ELSE a.file[q]
      BY <3>3, <3>4, <3>5, <3>7, <3>8, OnwardWrite
    <3> HIDE DEF u
    <3>10. n \in Written(u.file, g2, i)
      BY <3>4, <3>5, <3>8, <3>9 DEF Written
    <3>11. res = [ok |-> TRUE, root |-> n, store |-> u]
      BY <2>1, <2>8, <3>4 DEF GrowRoot, u, a, new
    <3> HIDE DEF n
    <3>12. res.ok = TRUE /\ res.root = n /\ res.store = u
      BY <3>11
    <3>13. u.hdr.num_pages # s.hdr.num_pages
      <4>1. s.hdr.num_pages <= n
        BY <2>3 DEF Onward, Counts, n
      <4> QED
        BY <1>2, <2>5, <3>4, <3>9, <4>1 DEF n
    <3> QED
      BY <3>9, <3>10, <3>12, <3>13 DEF SafeInsert, res
  <2> QED
    BY <2>7, <2>8
<1> QED
  BY <1>3, <1>4

\* One page of the tree, a leaf, is rewritten, and no other page.
SafeRewrite(E, R, s, g0, i, u) ==
    \/ u.ok = FALSE /\ u.store = s
    \/ u.ok = TRUE /\ OneWrite(s, u.store) /\ Onward(E, R, s, g0, i, u.store, g0)

\* A leaf gets other entries that its tree may hold.
LEMMA LeafSteps ==
    ASSUME NEW E, NEW R, NEW s, NEW g0, NEW i, Begins(E, R, s, g0, i),
           NEW p \in Written(s.file, g0, i), g0.lvl[p] = 0, NEW entries \in Seq(E[i])
    PROVE  /\ OneWrite(s, Put(s, p, Leaf(entries, s.file[p].next)))
           /\ Onward(E, R, s, g0, i, Put(s, p, Leaf(entries, s.file[p].next)), g0)
<1> DEFINE node == s.file[p]
           c == Leaf(entries, node.next)
<1>1. /\ GoodStore(s) /\ IsSeq(s.writes) /\ Sane(E, R, s.file, g0) /\ i \in Nat
  BY DEF Begins
<1>2. FitsLeaf(E, g0, p, node) /\ p \in PageId /\ g0.owner[p] = i
  BY <1>1, WrittenFacts DEF Written
<1>3. Onward(E, R, s, g0, i, s, g0)
  BY <1>1, OnwardNone
<1>4. c.entries = entries /\ c.next = node.next /\ Solid(c)
  BY Kinds
<1>5. Fits(E, s.file, g0, p, c)
  BY <1>2, <1>4 DEF Fits, FitsLeaf
<1> HIDE DEF c
<1>6. Onward(E, R, s, g0, i, Put(s, p, c), g0)
  BY <1>2, <1>3, <1>4, <1>5, OnwardWrite
<1> QED
  BY <1>6 DEF OneWrite, c

LEMMA UpdateSteps ==
    ASSUME NEW E, NEW R, NEW s, NEW g0, NEW i, Begins(E, R, s, g0, i),
           NEW root \in Written(s.file, g0, i), NEW k \in Int, NEW v, Entry(k, v) \in E[i]
    PROVE  SafeRewrite(E, R, s, g0, i, Update(s, root, k, v))
<1> DEFINE l == FindLeaf(s.file, root, k)
           node == s.file[l]
           entries == EntriesOf(node)
           at == PositionOf(entries, k)
           u == Update(s, root, k, v)
<1>1. GoodStore(s) /\ i \in Nat /\ Keyed(E) /\ Sane(E, R, s.file, g0)
  BY DEF Begins
<1>2. l \in Written(s.file, g0, i) /\ g0.lvl[l] = 0
  BY <1>1, LeafOwned
<1>3. u = IF at = 0 THEN [ok |-> FALSE, store |-> s]
          ELSE [ok |-> TRUE, store |-> Put(s, l, [node EXCEPT !.entries[at].value = v])]
  BY DEF Update
<1> HIDE DEF l, u
<1>4. FitsLeaf(E, g0, l, node) /\ node.type = "leaf" /\ g0.owner[l] = i
  <2>1. FitsLeaf(E, g0, l, s.file[l]) /\ s.file[l].type = "leaf"
    BY <1>1, <1>2, WrittenFacts
  <2>2. g0.owner[l] = i
    BY <1>2 DEF Written
  <2> QED
    BY <2>1, <2>2
<1>5. entries = node.entries /\ entries \in Seq(E[i])
  BY <1>4 DEF EntriesOf, FitsLeaf
<1>6. /\ at \in 0 .. Len(entries)
      /\ at # 0 => entries[at].key = k
  <2> HIDE DEF entries
  <2> QED
    BY <1>5, PositionFacts
<1>7. Len(entries) \in Nat /\ DOMAIN entries = 1 .. Len(entries)
  <2> HIDE DEF entries
  <2> QED
    BY <1>5, LenProperties
<1> HIDE DEF at, entries
<1>8. CASE at = 0
  <2>1. u.ok = FALSE /\ u.store = s
    BY <1>3, <1>8
  <2> QED
    BY <2>1 DEF SafeRewrite, u
<1>9. CASE at # 0
  <2> DEFINE t == [entries EXCEPT ![at].value = v]
             new == [node EXCEPT !.entries[at].value = v]
  <2>1. at \in 1 .. Len(entries) /\ entries[at].key = k
    BY <1>6, <1>7, <1>9
  <2>2. t \in Seq(E[i])
    <3>1. \A j \in 1 .. Len(entries) : entries[j] \in E[i]
      BY <1>5, ElementOfSeq
    <3>2. t[at] = Entry(k, v)
      <4>1. entries[at] = Entry(k, entries[at].value)
        BY <1>1, <2>1, <3>1 DEF Keyed
      <4>2. t[at] = [entries[at] EXCEPT !.value = v]
        BY <1>7, <2>1
      <4> QED
        BY <4>1, <4>2 DEF Entry
    <3>3. \A j \in 1 .. Len(entries) : j # at => t[j] = entries[j]
      BY <1>7
    <3>4. \A j \in 1 .. Len(entries) : t[j] \in E[i]
      BY <3>1, <3>2, <3>3
    <3>5. DOMAIN t = 1 .. Len(entries)
      BY <1>7
    <3>6. t = [j \in 1 .. Len(entries) |-> t[j]]
      BY <1>7
    <3> HIDE DEF t
    <3> QED
      BY <1>7, <3>4, <3>6
  <2>3. new = Leaf(t, node.next)
    <3>1. node = Leaf(node.entries, node.next)
      BY <1>4 DEF FitsLeaf
    <3>2. new = [node EXCEPT !.entries = t]
      BY <1>5
    <3> HIDE DEF t, new, node
    <3> QED
      BY <3>1, <3>2 DEF Leaf
  <2> HIDE DEF t, new
  <2>4. /\ OneWrite(s, Put(s, l, new)) /\ Onward(E, R, s, g0, i, Put(s, l, new), g0)
    BY <1>2, <2>2, <2>3, LeafSteps
  <2>5. u.ok = TRUE /\ u.store = Put(s, l, new)
    BY <1>3, <1>9 DEF new
  <2> QED
    BY <2>4, <2>5 DEF SafeRewrite, u
<1> QED
  BY <1>8, <1>9

LEMMA RemoveSteps ==
    ASSUME NEW E, NEW R, NEW s, NEW g0, NEW i, Begins(E, R, s, g0, i),
           NEW root \in Written(s.file, g0, i), NEW k \in Int
    PROVE  SafeRewrite(E, R, s, g0, i, RemoveKey(s, root, k))
<1> DEFINE l == FindLeaf(s.file, root, k)
           node == s.file[l]
           entries == EntriesOf(node)
           kept == Without(entries, k)
           u == RemoveKey(s, root, k)
<1>1. GoodStore(s) /\ i \in Nat /\ Keyed(E) /\ Sane(E, R, s.file, g0)
  BY DEF Begins
<1>2. l \in Written(s.file, g0, i) /\ g0.lvl[l] = 0
  BY <1>1, LeafOwned
<1>3. u = IF kept = entries THEN [ok |-> FALSE, store |-> s]
          ELSE [ok |-> TRUE, store |-> Put(s, l, Leaf(kept, node.next))]
  BY DEF RemoveKey
<1> HIDE DEF l, u
<1>4. FitsLeaf(E, g0, l, node) /\ node.type = "leaf" /\ g0.owner[l] = i
  <2>1. FitsLeaf(E, g0, l, s.file[l]) /\ s.file[l].type = "leaf"
    BY <1>1, <1>2, WrittenFacts
  <2>2. g0.owner[l] = i
    BY <1>2 DEF Written
  <2> QED
    BY <2>1, <2>2
<1>5. entries = node.entries /\ entries \in Seq(E[i])
  BY <1>4 DEF EntriesOf, FitsLeaf
<1>6. kept \in Seq(E[i])
  <2> HIDE DEF entries
  <2> QED
    BY <1>5, WithoutTyped
<1> HIDE DEF kept, entries
<1>7. CASE kept = entries
  <2>1. u.ok = FALSE /\ u.store = s
    BY <1>3, <1>7
  <2> QED
    BY <2>1 DEF SafeRewrite, u
<1>8. CASE kept # entries
  <2>1. /\ OneWrite(s, Put(s, l, Leaf(kept, node.next)))
        /\ Onward(E, R, s, g0, i, Put(s, l, Leaf(kept, node.next)), g0)
    BY <1>2, <1>6, LeafSteps
  <2>2. u.ok = TRUE /\ u.store = Put(s, l, Leaf(kept, node.next))
    BY <1>3, <1>8
  <2> QED
    BY <2>1, <2>2 DEF SafeRewrite, u
<1> QED
  BY <1>7, <1>8

\* An empty tree is made.
LEMMA CreateSteps ==
    ASSUME NEW E, NEW R, NEW s, NEW g0, NEW i, Begins(E, R, s, g0, i),
           s.hdr.num_pages < MaxPages, NEW n, n = s.hdr.num_pages
    PROVE  /\ AllocPage(s.hdr) = n /\ n \in PageId \ {0}
           /\ CreateEmpty(s).hdr.num_pages = n + 1
           /\ CreateEmpty(s).file[n] = Leaf(<<>>, 0)
           /\ \E g : Onward(E, R, s, g0, i, CreateEmpty(s), g) /\ n \in Written(CreateEmpty(s).file, g, i)
<1> DEFINE a == Alloc(s)
           c == Leaf(<<>>, 0)
           u == Put(a, n, c)
<1>1. GoodStore(s) /\ i \in Nat /\ Sane(E, R, s.file, g0) /\ IsSeq(s.writes)
  BY DEF Begins
<1>2. 0 \in PageId
  BY <1>1, OwnedPages
<1>3. Onward(E, R, s, g0, i, s, g0)
  BY <1>1, OnwardNone
<1>4. /\ n \in PageId \ {0} /\ AllocPage(s.hdr) = n /\ a.hdr.num_pages = n + 1
  BY <1>2, <1>3, OnwardAlloc
<1>5. PICK g : Onward(E, R, s, g0, i, a, g) /\ Claims(g0, n, i, 0, n, g)
  BY <1>3, <1>4, OnwardAlloc
<1>6. g.owner[n] = i /\ g.lvl[n] = 0
  <2>1. /\ g.owner = [g0.owner EXCEPT ![n] = i] /\ g.lvl = [g0.lvl EXCEPT ![n] = 0]
        /\ DOMAIN g0.owner = PageId /\ DOMAIN g0.lvl = PageId
    BY <1>1, <1>5 DEF Claims, Sane, Ghosts
  <2> QED
    BY <1>4, <2>1
<1>7. CreateEmpty(s) = u
  BY <1>4 DEF CreateEmpty
<1> HIDE DEF a
<1>8. c.entries = <<>> /\ c.next = 0 /\ Solid(c) /\ c = Leaf(c.entries, c.next) /\ <<>> \in Seq(E[i])
  BY Kinds
<1> HIDE DEF c
<1>9. Fits(E, a.file, g, n, c)
  BY <1>6, <1>8 DEF Fits, FitsLeaf
<1>10. /\ Onward(E, R, s, g0, i, u, g) /\ u.hdr = a.hdr
       /\ \A q \in PageId : u.file[q] = IF q = n THEN c ELSE a.file[q]
  BY <1>4, <1>5, <1>6, <1>8, <1>9, OnwardWrite
<1> HIDE DEF u
<1>11. n \in Written(u.file, g, i)
  BY <1>4, <1>6, <1>8, <1>10 DEF Written
<1> QED
  BY <1>4, <1>7, <1>10, <1>11 DEF c

-----------------------------------------------------------------------------
(* The files between two stores.                                           *)

\* The writes that lead from s to t pass only files of F.
Through(s, t, F) ==
    \E fs : /\ Replay(s, t, fs)
            /\ \A j \in Len(s.writes) .. Len(t.writes) : fs[j] \in F

LEMMA ThroughNone ==
    ASSUME NEW s, IsSeq(s.writes)
    PROVE  Through(s, s, {s.file})
<1>1. PICK fs : fs = [j \in {Len(s.writes)} |-> s.file]
  OBVIOUS
<1>2. Replay(s, s, fs) BY <1>1, ReplayNone
<1>3. Len(s.writes) \in Nat BY DEF IsSeq
<1>4. \A j \in Len(s.writes) .. Len(s.writes) : fs[j] \in {s.file}
  BY <1>1, <1>3
<1> QED BY <1>2, <1>4 DEF Through

LEMMA ThroughThen ==
    ASSUME NEW s, NEW t, NEW u, NEW F, NEW G, NEW H, Through(s, t, F), Through(t, u, G),
           F \subseteq H, G \subseteq H
    PROVE  Through(s, u, H)
<1>1. PICK fs : Replay(s, t, fs) /\ \A j \in Len(s.writes) .. Len(t.writes) : fs[j] \in F
  BY DEF Through
<1>2. PICK hs : Replay(t, u, hs) /\ \A j \in Len(t.writes) .. Len(u.writes) : hs[j] \in G
  BY DEF Through
<1>3. PICK gs : gs = [j \in Len(s.writes) .. Len(u.writes) |->
                        IF j <= Len(t.writes) THEN fs[j] ELSE hs[j]]
  OBVIOUS
<1>4. /\ Replay(s, u, gs)
      /\ Len(s.writes) \in Nat /\ Len(t.writes) \in Nat /\ Len(u.writes) \in Nat
      /\ Len(s.writes) <= Len(t.writes) /\ Len(t.writes) <= Len(u.writes)
  BY <1>1, <1>2, <1>3, ReplayThen
<1>5. \A j \in Len(s.writes) .. Len(u.writes) : gs[j] \in H
  BY <1>1, <1>2, <1>3, <1>4
<1> QED BY <1>4, <1>5 DEF Through

\* One write: the file before it and the file after it.
LEMMA ThroughPut ==
    ASSUME NEW s, IsSeq(s.writes), NEW h, NEW p, NEW c, NEW t, Puts(s, h, p, c, t)
    PROVE  Through(s, t, {s.file, t.file})
<1>1. PICK fs : fs = [j \in {Len(s.writes)} |-> s.file]
  OBVIOUS
<1>2. Replay(s, s, fs) BY <1>1, ReplayNone
<1>3. PICK gs : gs = [j \in Len(s.writes) .. Len(t.writes) |->
                        IF j <= Len(s.writes) THEN fs[j] ELSE t.file]
  OBVIOUS
<1>4. Replay(s, t, gs) /\ Len(t.writes) = Len(s.writes) + 1 /\ Len(s.writes) \in Nat
  BY <1>2, <1>3, ReplayPut
<1>5. \A j \in Len(s.writes) .. Len(t.writes) : gs[j] \in {s.file, t.file}
  BY <1>1, <1>3, <1>4
<1> QED BY <1>4, <1>5 DEF Through

\* An operation on tree i passes files it may leave.
LEMMA OnwardThrough ==
    ASSUME NEW E, NEW R, NEW s, NEW g0, NEW i, NEW t, NEW g, Onward(E, R, s, g0, i, t, g)
    PROVE  \E F : Through(s, t, F) /\ \A f \in F : Passing(E, R, s.file, g0, i, f)
<1>1. PICK fs : /\ Replay(s, t, fs)
                /\ \A j \in Len(s.writes) .. Len(t.writes) : Passing(E, R, s.file, g0, i, fs[j])
  BY DEF Onward
<1>2. PICK F : F = {fs[j] : j \in Len(s.writes) .. Len(t.writes)}
  OBVIOUS
<1>3. Through(s, t, F) BY <1>1, <1>2 DEF Through
<1>4. \A f \in F : Passing(E, R, s.file, g0, i, f) BY <1>1, <1>2
<1> QED BY <1>3, <1>4

-----------------------------------------------------------------------------
(* The file of an engine.  Tree 0 is the catalog; the tree of a table has  *)
(* the number of the table, whether the catalog still knows the table or   *)
(* not.  N has the name a table was created under, R the pages that have   *)
(* been the root of a tree.                                                *)

CatEntries(N, R) ==
    {e \in [key : 1 .. MaxTableId,
            value : [table_id : 1 .. MaxTableId, name : Names,
                     root_page : PageId \ {0}, next_rowid : Nat]] :
       /\ e.value.table_id = e.key /\ e.value.name = N[e.key]
       /\ e.value.next_rowid \in 1 .. MaxRowid[e.value.name] + 1
       /\ <<e.key, e.value.root_page>> \in R}

\* The entries a tree may hold.
Ents(N, R) == [i \in Nat |-> IF i = 0 THEN CatEntries(N, R) ELSE [key : Int, value : Values]]

\* The trees a header speaks of.
Numbered(R, h, g) ==
    /\ h.next_table_id \in 1 .. MaxTableId + 1
    /\ \A x \in R : x = <<x[1], x[2]>> /\ x[1] \in Nat /\ x[1] < h.next_table_id
    /\ <<0, h.catalog_root>> \in R
    /\ \A q \in PageId : g.owner[q] < h.next_table_id

Firm(N, R, f, g) == Sane(Ents(N, R), R, f, g) /\ Numbered(R, f[0], g)

\* A file a process can start on.
Stored(f) == \E N, R, g : Firm(N, R, f, g)

\* An operation under way from s has come to t.
Arrives(N, R, s, t, g) ==
    /\ GoodStore(t) /\ IsSeq(t.writes) /\ Firm(N, R, t.file, g)
    /\ \E F : Through(s, t, F) /\ \A f \in F : Stored(f)

LEMMA EntsFacts ==
    ASSUME NEW N, NEW R
    PROVE  /\ Keyed(Ents(N, R)) /\ Ents(N, R)[0] = CatEntries(N, R)
           /\ \A i \in Nat \ {0} : Ents(N, R)[i] = [key : Int, value : Values]
<1>1. \A e \in CatEntries(N, R) : e.key \in Int /\ e = Entry(e.key, e.value)
  BY EngineAssumption DEF CatEntries, Entry
<1>2. \A e \in [key : Int, value : Values] : e.key \in Int /\ e = Entry(e.key, e.value)
  BY DEF Entry
<1> QED BY <1>1, <1>2 DEF Keyed, Ents

\* A row is an entry of its table.
LEMMA RowEntry ==
    ASSUME NEW N, NEW R, NEW i \in Nat \ {0}, NEW k \in Int, NEW v \in Values
    PROVE  Entry(k, v) \in Ents(N, R)[i]
<1>1. Entry(k, v) \in [key : Int, value : Values] BY DEF Entry
<1>2. Ents(N, R)[i] = [key : Int, value : Values] BY DEF Ents
<1> QED BY <1>1, <1>2

\* Entries stay entries when trees and roots come in addition.
LEMMA EntsGrow ==
    ASSUME NEW N, NEW R, NEW N2, NEW R2, R \subseteq R2, \A x \in R : N2[x[1]] = N[x[1]]
    PROVE  \A i \in Nat : Ents(N, R)[i] \subseteq Ents(N2, R2)[i]
<1>1. CatEntries(N, R) \subseteq CatEntries(N2, R2)
  <2> SUFFICES ASSUME NEW e \in CatEntries(N, R) PROVE e \in CatEntries(N2, R2) OBVIOUS
  <2>1. <<e.key, e.value.root_page>> \in R BY DEF CatEntries
  <2>2. N2[e.key] = N[e.key] BY <2>1
  <2> QED BY <2>1, <2>2 DEF CatEntries
<1> QED BY <1>1 DEF Ents

\* The same file, seen with more entries and roots.
LEMMA SaneMore ==
    ASSUME NEW E, NEW R, NEW f, NEW g, Sane(E, R, f, g), NEW E2, NEW R2,
           \A i \in Nat : E[i] \subseteq E2[i], \A x \in R2 : Rooted(f, g, x)
    PROVE  Sane(E2, R2, f, g)
<1>1. \A p \in PageId : g.owner[p] # -1 => Fits(E2, f, g, p, f[p])
  <2> SUFFICES ASSUME NEW p \in PageId, g.owner[p] # -1 PROVE Fits(E2, f, g, p, f[p]) OBVIOUS
  <2>1. Fits(E, f, g, p, f[p]) BY DEF Sane
  <2>2. g.owner[p] \in Nat BY DEF Sane, Ghosts
  <2>3. FitsLeaf(E, g, p, f[p]) => FitsLeaf(E2, g, p, f[p])
    BY <2>2 DEF FitsLeaf
  <2> QED BY <2>1, <2>3 DEF Fits
<1> QED BY <1>1 DEF Sane

\* A tree gets a root.
LEMMA FirmRoot ==
    ASSUME NEW N, NEW R, NEW f, NEW g, Firm(N, R, f, g), NEW i \in Nat, NEW p \in Written(f, g, i)
    PROVE  Firm(N, R \cup {<<i, p>>}, f, g)
<1> DEFINE R2 == R \cup {<<i, p>>}
<1>1. \A j \in Nat : Ents(N, R)[j] \subseteq Ents(N, R2)[j]
  BY EntsGrow
<1>2. \A x \in R2 : Rooted(f, g, x)
  BY DEF Firm, Sane, Rooted, Written
<1>3. Sane(Ents(N, R2), R2, f, g) BY <1>1, <1>2, SaneMore DEF Firm
<1>4. i < f[0].next_table_id
  BY DEF Written, Firm, Numbered
<1> QED BY <1>3, <1>4 DEF Firm, Numbered

\* The table id is known by the name n.
Renames(N, id, n, N2) == N2 = [k \in 0 .. MaxTableId |-> IF k = id THEN n ELSE N[k]]

\* A table that has no root yet gets its name.
LEMMA FirmName ==
    ASSUME NEW N, NEW R, NEW f, NEW g, Firm(N, R, f, g), NEW id \in 1 .. MaxTableId,
           \A x \in R : x[1] # id, NEW n,
           NEW N2, Renames(N, id, n, N2)
    PROVE  Firm(N2, R, f, g) /\ N2[id] = n
<1>1. \A x \in R : N2[x[1]] = N[x[1]]
  BY EngineAssumption DEF Firm, Numbered, Renames
<1>2. \A j \in Nat : Ents(N, R)[j] \subseteq Ents(N2, R)[j]
  BY <1>1, EntsGrow
<1>3. Sane(Ents(N2, R), R, f, g) BY <1>2, SaneMore DEF Firm, Sane
<1> QED BY <1>3, EngineAssumption DEF Firm, Renames

\* What an operation may leave.
LEMMA FirmPassing ==
    ASSUME NEW N, NEW R, NEW f0, NEW g0, Firm(N, R, f0, g0), NEW i \in Nat,
           i < f0[0].next_table_id, NEW f, NEW g, Sane(Ents(N, R), R, f, g), Counts(f0[0], f[0]),
           \A q \in PageId : g0.owner[q] # -1 => g.owner[q] = g0.owner[q],
           \A q \in PageId : g0.owner[q] = -1 => g.owner[q] \in {-1, i}
    PROVE  Firm(N, R, f, g)
<1>1. f[0].next_table_id = f0[0].next_table_id /\ f[0].catalog_root = f0[0].catalog_root
  BY DEF Counts, Firm, Sane, GoodHeader
<1>2. f0[0].next_table_id \in 1 .. MaxTableId + 1 /\ MaxTableId \in Nat
  BY EngineAssumption DEF Firm, Numbered
<1>3. \A q \in PageId : g.owner[q] < f[0].next_table_id
  BY <1>1, <1>2 DEF Firm, Numbered
<1> QED BY <1>1, <1>3 DEF Firm, Numbered

LEMMA PassingStored ==
    ASSUME NEW N, NEW R, NEW f0, NEW g0, Firm(N, R, f0, g0), NEW i \in Nat,
           i < f0[0].next_table_id, NEW f, Passing(Ents(N, R), R, f0, g0, i, f)
    PROVE  Stored(f)
<1>1. PICK g : /\ Sane(Ents(N, R), R, f, g)
               /\ Counts(f0[0], f[0])
               /\ \A q \in PageId :
                    /\ g0.owner[q] # -1 => g.owner[q] = g0.owner[q]
                    /\ g0.owner[q] = -1 => g.owner[q] \in {-1, i}
  BY DEF Passing
<1>2. Firm(N, R, f, g) BY <1>1, FirmPassing
<1> QED BY <1>2 DEF Stored

LEMMA FirmOnward ==
    ASSUME NEW N, NEW R, NEW s, NEW g0, Firm(N, R, s.file, g0), NEW i,
           i < s.hdr.next_table_id, NEW t, NEW g, Onward(Ents(N, R), R, s, g0, i, t, g)
    PROVE  Firm(N, R, t.file, g)
<1>1. i \in Nat /\ Sane(Ents(N, R), R, t.file, g) /\ Counts(s.hdr, t.hdr)
  BY DEF Onward
<1>2. s.file[0] = s.hdr /\ t.file[0] = t.hdr
  BY DEF Onward, GoodStore, HEADER_PAGE_ID
<1>3. \A q \in PageId : g0.owner[q] # -1 => g.owner[q] = g0.owner[q]
  BY DEF Onward
<1>4. \A q \in PageId : g0.owner[q] = -1 => g.owner[q] \in {-1, i}
  BY DEF Onward
<1> QED BY <1>1, <1>2, <1>3, <1>4, FirmPassing

-----------------------------------------------------------------------------
(* Operations, page write by page write.                                   *)

LEMMA ArrivesNone ==
    ASSUME NEW N, NEW R, NEW s, GoodStore(s), IsSeq(s.writes), NEW g, Firm(N, R, s.file, g)
    PROVE  Arrives(N, R, s, s, g)
<1>1. Through(s, s, {s.file}) BY ThroughNone
<1>2. \A f \in {s.file} : Stored(f) BY DEF Stored
<1> QED BY <1>1, <1>2 DEF Arrives

\* An operation on tree i comes next.
LEMMA ArrivesOnward ==
    ASSUME NEW N, NEW R, NEW s, NEW t, NEW g0, Arrives(N, R, s, t, g0),
           NEW i, i < t.hdr.next_table_id, NEW u, NEW g, Onward(Ents(N, R), R, t, g0, i, u, g)
    PROVE  Arrives(N, R, s, u, g)
<1>1. GoodStore(u) /\ i \in Nat BY DEF Onward
<1>2. Firm(N, R, u.file, g) BY FirmOnward DEF Arrives
<1>3. PICK F : Through(s, t, F) /\ \A f \in F : Stored(f) BY DEF Arrives
<1>4. PICK G : Through(t, u, G) /\ \A f \in G : Passing(Ents(N, R), R, t.file, g0, i, f)
  BY OnwardThrough
<1>5. t.file[0] = t.hdr BY DEF Onward, GoodStore, HEADER_PAGE_ID
<1>6. \A f \in G : Stored(f)
  BY <1>1, <1>4, <1>5, PassingStored DEF Arrives
<1>7. Through(s, u, F \cup G) BY <1>3, <1>4, ThroughThen
<1>8. IsSeq(u.writes) BY <1>4 DEF Through, Replay
<1> QED BY <1>1, <1>2, <1>3, <1>6, <1>7, <1>8 DEF Arrives

\* The header is written next.
LEMMA ArrivesHeader ==
    ASSUME NEW N, NEW R, NEW s, NEW t, NEW g, Arrives(N, R, s, t, g),
           NEW h, GoodHeader(h), h.num_pages = t.hdr.num_pages, Numbered(R, h, g),
           NEW u, Puts(t, h, 0, h, u)
    PROVE  /\ Arrives(N, R, s, u, g) /\ u.hdr = h
           /\ \A q \in PageId \ {0} : u.file[q] = t.file[q]
<1>1. GoodStore(t) /\ Firm(N, R, t.file, g) /\ IsSeq(t.writes) BY DEF Arrives
<1>2. DOMAIN t.file = PageId /\ t.file[0] = t.hdr BY <1>1 DEF GoodStore, HEADER_PAGE_ID
<1>3. 0 \in PageId BY MaxPagesAssumption DEF PageId
<1>4. u.file = WritePage(t.file, 0, h) /\ u.hdr = h BY DEF Puts
<1>5. DOMAIN u.file = PageId /\ \A q \in PageId : u.file[q] = IF q = 0 THEN h ELSE t.file[q]
  BY <1>2, <1>4, WritePageFacts
<1>6. GoodStore(u) BY <1>3, <1>4, <1>5 DEF GoodStore, Puts, HEADER_PAGE_ID
<1>7. t.file[0].num_pages <= h.num_pages
  BY <1>2 DEF GoodHeader
<1>8. Sane(Ents(N, R), R, u.file, g) BY <1>1, <1>4, <1>7, SaneHeader DEF Firm
<1>9. Firm(N, R, u.file, g) BY <1>3, <1>5, <1>8 DEF Firm
<1>10. Through(t, u, {t.file, u.file}) BY <1>1, ThroughPut
<1>11. PICK F : Through(s, t, F) /\ \A f \in F : Stored(f) BY DEF Arrives
<1>12. Through(s, u, F \cup {t.file, u.file}) BY <1>10, <1>11, ThroughThen
<1>13. \A f \in F \cup {t.file, u.file} : Stored(f) BY <1>1, <1>9, <1>11 DEF Stored
<1>14. IsSeq(u.writes) BY <1>10 DEF Through, Replay
<1> QED BY <1>4, <1>5, <1>6, <1>9, <1>12, <1>13, <1>14 DEF Arrives

LEMMA ArrivesRoot ==
    ASSUME NEW N, NEW R, NEW s, NEW t, NEW g, Arrives(N, R, s, t, g),
           NEW i \in Nat, NEW p \in Written(t.file, g, i)
    PROVE  Arrives(N, R \cup {<<i, p>>}, s, t, g)
BY FirmRoot DEF Arrives

LEMMA ArrivesName ==
    ASSUME NEW N, NEW R, NEW s, NEW t, NEW g, Arrives(N, R, s, t, g),
           NEW id \in 1 .. MaxTableId, \A x \in R : x[1] # id, NEW n,
           NEW N2, Renames(N, id, n, N2)
    PROVE  Arrives(N2, R, s, t, g) /\ N2[id] = n
<1>1. Firm(N, R, t.file, g) BY DEF Arrives
<1>2. Firm(N2, R, t.file, g) /\ N2[id] = n BY <1>1, FirmName
<1> QED BY <1>2 DEF Arrives

\* Catalog::sync_root.
LEMMA ArrivesSynced ==
    ASSUME NEW N, NEW R, NEW s, NEW t, NEW g, Arrives(N, R, s, t, g),
           NEW root, <<0, root>> \in R, NEW u, u = SyncRoot(t, root)
    PROVE  /\ Arrives(N, R, s, u, g)
           /\ u.hdr = [t.hdr EXCEPT !.catalog_root = root]
           /\ \A q \in PageId \ {0} : u.file[q] = t.file[q]
<1>1. GoodStore(t) /\ Firm(N, R, t.file, g) BY DEF Arrives
<1>2. GoodHeader(t.hdr) /\ t.file[0] = t.hdr BY <1>1 DEF GoodStore, HEADER_PAGE_ID
<1>3. PICK h : h = [t.hdr EXCEPT !.catalog_root = root] OBVIOUS
<1>4. root \in Nat
  <2>1. Rooted(t.file, g, <<0, root>>) BY <1>1 DEF Firm, Sane
  <2> QED BY <2>1, MaxPagesAssumption DEF Rooted, PageId
<1>5. GoodHeader(h) /\ h.num_pages = t.hdr.num_pages /\ h.next_table_id = t.hdr.next_table_id
      /\ h.catalog_root = root
  BY <1>2, <1>3, <1>4 DEF GoodHeader
<1>6. CASE root = t.hdr.catalog_root
  <2>1. u = t BY <1>6 DEF SyncRoot
  <2>2. h = t.hdr BY <1>2, <1>3, <1>6 DEF GoodHeader
  <2> QED BY <2>1, <2>2, <1>3
<1>7. CASE root # t.hdr.catalog_root
  <2>1. u = Put([t EXCEPT !.hdr = h], 0, h)
    BY <1>3, <1>7 DEF SyncRoot, HEADER_PAGE_ID
  <2>2. Puts(t, h, 0, h, u) BY <1>1, <2>1, PutIs DEF GoodStore
  <2>3. Numbered(R, h, g) BY <1>1, <1>2, <1>5 DEF Firm, Numbered
  <2>4. /\ Arrives(N, R, s, u, g) /\ u.hdr = h
        /\ \A q \in PageId \ {0} : u.file[q] = t.file[q]
    BY <1>5, <2>2, <2>3, ArrivesHeader
  <2> QED BY <1>3, <2>4
<1> QED BY <1>6, <1>7

-----------------------------------------------------------------------------
(* The inductive invariant.                                                *)

\* What a process knows when the header is h.
Known(N, R, h, root, defs) ==
    /\ root = h.catalog_root
    /\ defs = [n \in Names |-> defs[n]]
    /\ \A n \in Names : defs[n] # NoDef =>
         /\ defs[n].name = n
         /\ Entry(defs[n].table_id, defs[n]) \in CatEntries(N, R)

\* The files the writes w make of f, one after the other.
Leaves(f, w, fs) ==
    /\ fs[0] = f
    /\ \A j \in 1 .. Len(w) : fs[j] = WritePage(fs[j - 1], w[j][1], w[j][2])

\* Wherever a process stops, what it leaves is a file one can start on, and
\* when its operation is over, what it knows is true of the file.
Restartable ==
    /\ IsSeq(todo) /\ up \in BOOLEAN /\ (up \/ todo = <<>>)
    /\ \E fs :
         /\ Leaves(file, todo, fs)
         /\ \A j \in 0 .. Len(todo) : Stored(fs[j])
         /\ up => \E N, R, g : /\ Firm(N, R, fs[Len(todo)], g)
                               /\ hdr = fs[Len(todo)][0]
                               /\ Known(N, R, hdr, cat_root, by_name)

\* Between two operations.
LEMMA IdleFacts ==
    ASSUME Restartable, Idle
    PROVE  /\ GoodStore(Here) /\ IsSeq(Here.writes)
           /\ Here.file = file /\ Here.hdr = hdr /\ Here.writes = <<>>
           /\ \E N, R, g : /\ Firm(N, R, file, g) /\ Arrives(N, R, Here, Here, g)
                           /\ Known(N, R, hdr, cat_root, by_name)
<1>1. Here.file = file /\ Here.hdr = hdr /\ Here.writes = <<>>
      /\ Here = [file |-> Here.file, hdr |-> Here.hdr, writes |-> Here.writes]
  BY DEF Here, Store
<1>2. IsSeq(Here.writes) BY <1>1 DEF Restartable, Idle
<1>3. PICK fs : /\ fs[0] = file
                /\ \E N, R, g : /\ Firm(N, R, fs[0], g)
                                /\ hdr = fs[0][0]
                                /\ Known(N, R, hdr, cat_root, by_name)
  BY DEF Restartable, Idle, Leaves
<1>4. PICK N, R, g : Firm(N, R, file, g) /\ hdr = file[0] /\ Known(N, R, hdr, cat_root, by_name)
  BY <1>3
<1>5. GoodStore(Here)
  BY <1>1, <1>4 DEF GoodStore, Firm, Sane, HEADER_PAGE_ID
<1>6. Arrives(N, R, Here, Here, g) BY <1>1, <1>2, <1>4, <1>5, ArrivesNone
<1> QED BY <1>1, <1>2, <1>4, <1>5, <1>6

\* An operation that arrives begins well.
LEMMA BeginRestartable ==
    ASSUME Restartable, Idle, NEW N, NEW R, NEW t, NEW g, Arrives(N, R, Here, t, g),
           NEW n, NEW root, NEW defs, NEW splits, Known(N, R, t.hdr, root, defs),
           Begin(n, t, root, defs, splits)
    PROVE  Restartable'
<1>1. Here.file = file /\ Here.writes = <<>> BY DEF Here, Store
<1>2. /\ todo' = t.writes /\ hdr' = t.hdr /\ cat_root' = root /\ by_name' = defs
      /\ file' = file /\ up' = up
  BY DEF Begin
<1>3. PICK F : Through(Here, t, F) /\ \A f \in F : Stored(f) BY DEF Arrives
<1>4. PICK fs : /\ Replay(Here, t, fs)
                /\ \A j \in Len(Here.writes) .. Len(t.writes) : fs[j] \in F
  BY <1>3 DEF Through
<1>5. Len(Here.writes) = 0 BY <1>1
<1>6. Leaves(file, t.writes, fs) BY <1>1, <1>4, <1>5 DEF Replay, Leaves
<1>7. \A j \in 0 .. Len(t.writes) : Stored(fs[j]) BY <1>3, <1>4, <1>5
<1>8. fs[Len(t.writes)] = t.file BY <1>4 DEF Replay
<1>9. Firm(N, R, fs[Len(t.writes)], g) /\ t.hdr = fs[Len(t.writes)][0]
  BY <1>8 DEF Arrives, GoodStore, HEADER_PAGE_ID
<1>10. IsSeq(t.writes) BY DEF Arrives
<1>11. up' = TRUE /\ up' \in BOOLEAN BY <1>2 DEF Idle
<1> QED BY <1>2, <1>6, <1>7, <1>9, <1>10, <1>11 DEF Restartable

-----------------------------------------------------------------------------
(* The actions.                                                            *)

\* The root a tree is known by.
LEMMA RootFacts ==
    ASSUME NEW N, NEW R, NEW f, NEW g, Firm(N, R, f, g), NEW i, NEW p, <<i, p>> \in R
    PROVE  /\ i \in Nat /\ i < f[0].next_table_id
           /\ p \in Written(f, g, i) /\ p \in PageId \ {0} /\ g.lvl[p] \in Nat
<1>1. i \in Nat /\ i < f[0].next_table_id
  <2>1. PICK x \in R : x = <<i, p>> OBVIOUS
  <2> QED BY <2>1 DEF Firm, Numbered
<1>2. Rooted(f, g, <<i, p>>) BY DEF Firm, Sane
<1>3. p \in Written(f, g, i) BY <1>2 DEF Rooted, Written
<1>4. Sane(Ents(N, R), R, f, g) BY DEF Firm
<1>5. p \in PageId \ {0} BY <1>1, <1>3, <1>4, WrittenFacts
<1>6. g.lvl[p] \in Nat BY <1>4, <1>5 DEF Sane, Ghosts
<1> QED BY <1>1, <1>3, <1>5, <1>6

\* A definition in force.
LEMMA DefFacts ==
    ASSUME NEW N, NEW R, NEW h, NEW root, NEW defs, Known(N, R, h, root, defs),
           NEW n \in Names, defs[n] # NoDef
    PROVE  /\ defs[n] \in [table_id : 1 .. MaxTableId, name : {n},
                           root_page : PageId \ {0}, next_rowid : 1 .. MaxRowid[n] + 1]
           /\ Entry(defs[n].table_id, defs[n]) \in CatEntries(N, R)
           /\ <<defs[n].table_id, defs[n].root_page>> \in R
           /\ defs[n].table_id \in Nat \ {0}
           /\ N[defs[n].table_id] = n
<1>1. Entry(defs[n].table_id, defs[n]) \in CatEntries(N, R) /\ defs[n].name = n
  BY DEF Known
<1>2. \A k, d : Entry(k, d).key = k /\ Entry(k, d).value = d BY DEF Entry
<1>3. /\ defs[n] \in [table_id : 1 .. MaxTableId, name : Names,
                      root_page : PageId \ {0}, next_rowid : Nat]
      /\ N[defs[n].table_id] = n
      /\ defs[n].next_rowid \in 1 .. MaxRowid[n] + 1
      /\ <<defs[n].table_id, defs[n].root_page>> \in R
  BY <1>1, <1>2 DEF CatEntries
<1> QED BY <1>1, <1>3, EngineAssumption

\* A definition as an entry of the catalog.
LEMMA EntryIs ==
    ASSUME NEW N, NEW R, NEW n \in Names, NEW def,
           def \in [table_id : 1 .. MaxTableId, name : {n},
                    root_page : PageId \ {0}, next_rowid : 1 .. MaxRowid[n] + 1],
           N[def.table_id] = n, <<def.table_id, def.root_page>> \in R
    PROVE  Entry(def.table_id, def) \in CatEntries(N, R)
<1>1. MaxRowid[n] \in Nat BY EngineAssumption
<1> QED BY <1>1 DEF Entry, CatEntries

LEMMA KnownMore ==
    ASSUME NEW N, NEW R, NEW h, NEW root, NEW defs, Known(N, R, h, root, defs),
           NEW N2, NEW R2, R \subseteq R2, \A x \in R : N2[x[1]] = N[x[1]], NEW h2
    PROVE  Known(N2, R2, h2, h2.catalog_root, defs)
<1>1. CatEntries(N, R) \subseteq CatEntries(N2, R2)
  BY EntsGrow, EntsFacts
<1> QED BY <1>1 DEF Known

LEMMA KnownSet ==
    ASSUME NEW N, NEW R, NEW h, NEW root, NEW defs, Known(N, R, h, root, defs),
           NEW n \in Names, NEW def, NEW defs2, defs2 = [defs EXCEPT ![n] = def],
           def = NoDef \/ (def.name = n /\ Entry(def.table_id, def) \in CatEntries(N, R))
    PROVE  Known(N, R, h, root, defs2)
<1>1. DOMAIN defs = Names BY DEF Known
<1>2. \A m \in Names : defs2[m] = IF m = n THEN def ELSE defs[m]
  BY <1>1
<1>3. defs2 = [m \in Names |-> defs2[m]] BY <1>1
<1> QED BY <1>2, <1>3 DEF Known

\* Catalog::save.
LEMMA ArrivesSaved ==
    ASSUME NEW N, NEW R, NEW s, NEW t, NEW g, Arrives(N, R, s, t, g),
           t.hdr.catalog_root = cat_root,
           NEW def, Entry(def.table_id, def) \in CatEntries(N, R)
    PROVE  /\ Arrives(N, R, s, Save(t, def), g) /\ Save(t, def).hdr = t.hdr
           /\ SafeRewrite(Ents(N, R), R, t, g, 0, Update(t, cat_root, def.table_id, def))
           /\ Save(t, def) = Update(t, cat_root, def.table_id, def).store
<1> DEFINE u == Update(t, cat_root, def.table_id, def)
<1>1. GoodStore(t) /\ Firm(N, R, t.file, g) /\ IsSeq(t.writes) /\ t.file[0] = t.hdr
  BY DEF Arrives, GoodStore, HEADER_PAGE_ID
<1>2. <<0, cat_root>> \in R BY <1>1 DEF Firm, Numbered
<1>3. cat_root \in Written(t.file, g, 0) /\ 0 < t.hdr.next_table_id BY <1>1, <1>2, RootFacts
<1>4. Begins(Ents(N, R), R, t, g, 0) BY <1>1, EntsFacts DEF Begins, Firm
<1>5. def.table_id \in Int BY EngineAssumption DEF CatEntries, Entry
<1>6. SafeRewrite(Ents(N, R), R, t, g, 0, u)
  BY <1>3, <1>4, <1>5, EntsFacts, UpdateSteps
<1>7. u.store.hdr = t.hdr /\ Arrives(N, R, s, u.store, g)
  <2>1. CASE u.ok = FALSE /\ u.store = t BY <2>1
  <2>2. CASE OneWrite(t, u.store) /\ Onward(Ents(N, R), R, t, g, 0, u.store, g)
    <3>1. PICK p, c : u.store = Put(t, p, c) BY <2>2 DEF OneWrite
    <3>2. u.store.hdr = t.hdr BY <1>1, <3>1, PutFacts DEF GoodStore
    <3>3. Arrives(N, R, s, u.store, g) BY <1>3, <2>2, ArrivesOnward
    <3> QED BY <3>2, <3>3
  <2> QED BY <1>6, <2>1, <2>2 DEF SafeRewrite
<1>8. Save(t, def) = u.store BY <1>7 DEF Save, SyncRoot
<1> QED BY <1>6, <1>7, <1>8

\* A tree can take an insert.
LEMMA RoomFacts ==
    ASSUME NEW N, NEW R, NEW f, NEW g, Firm(N, R, f, g), NEW i, NEW p, <<i, p>> \in R,
           NEW k \in Int, NEW m \in Nat, CanAlloc(f[0], Len(FindPath(f, p, k)) + m)
    PROVE  f[0].num_pages + g.lvl[p] + 1 + m <= MaxPages
<1>1. i \in Nat /\ p \in Written(f, g, i) /\ g.lvl[p] \in Nat BY RootFacts
<1>2. Sane(Ents(N, R), R, f, g) BY DEF Firm
<1>3. Len(FindPath(f, p, k)) = g.lvl[p] + 1 BY <1>1, <1>2, PathOwned DEF DownFrom
<1>4. f[0].free_list_head = 0 /\ f[0].num_pages \in Nat
  BY <1>2, MaxPagesAssumption DEF Sane, GoodHeader
<1> QED BY <1>1, <1>3, <1>4 DEF CanAlloc

\* The store that a row goes to.
LEMMA InsertRowSteps ==
    ASSUME NEW N, NEW R, NEW g, Firm(N, R, file, g), Arrives(N, R, Here, Here, g),
           Known(N, R, hdr, cat_root, by_name),
           NEW n \in Names, NEW v \in Values, InsertRow(n, v),
           NEW def, def = by_name[n], NEW r, r = Insert(Here, def.root_page, def.next_rowid, v)
    PROVE  /\ SafeInsert(Ents(N, R), R, Here, g, def.table_id, def.root_page, r) /\ r.ok = TRUE
           /\ g.lvl[def.root_page] \in Nat
           /\ hdr.num_pages + g.lvl[def.root_page] + 2 <= MaxPages
<1>1. Here.file = file /\ Here.hdr = hdr BY DEF Here, Store
<1>2. GoodStore(Here) /\ IsSeq(Here.writes) /\ file[0] = hdr
  BY <1>1 DEF Arrives, GoodStore, HEADER_PAGE_ID
<1>3. by_name[n] # NoDef /\ def.next_rowid <= MaxRowid[n]
      /\ CanAlloc(hdr, Len(FindPath(file, def.root_page, MaxRowid[n])) + 1)
  BY DEF InsertRow
<1>4. /\ def \in [table_id : 1 .. MaxTableId, name : {n},
                  root_page : PageId \ {0}, next_rowid : 1 .. MaxRowid[n] + 1]
      /\ <<def.table_id, def.root_page>> \in R /\ def.table_id \in Nat \ {0}
  BY <1>3, DefFacts
<1>5. MaxRowid[n] \in Int BY EngineAssumption
<1>6. /\ g.lvl[def.root_page] \in Nat
      /\ hdr.num_pages + g.lvl[def.root_page] + 2 <= MaxPages
  <2>1. g.lvl[def.root_page] \in Nat BY <1>4, RootFacts
  <2>2. hdr.num_pages + g.lvl[def.root_page] + 1 + 1 <= MaxPages
    BY <1>2, <1>3, <1>4, <1>5, RoomFacts
  <2>3. hdr.num_pages \in Nat BY <1>1, <1>2, MaxPagesAssumption DEF GoodStore, GoodHeader
  <2> QED BY <2>1, <2>2, <2>3
<1>7. def.root_page \in Written(file, g, def.table_id) BY <1>4, RootFacts
<1>8. Begins(Ents(N, R), R, Here, g, def.table_id)
  BY <1>1, <1>2, <1>4, EntsFacts DEF Begins, Firm
<1>9. Entry(def.next_rowid, v) \in Ents(N, R)[def.table_id]
  <2>1. def.next_rowid \in Int BY <1>4
  <2> QED BY <1>4, <2>1, RowEntry
<1>10. def.next_rowid \in Int BY <1>4
<1>11. SafeInsert(Ents(N, R), R, Here, g, def.table_id, def.root_page, r)
  BY <1>1, <1>6, <1>7, <1>8, <1>9, <1>10, InsertSteps
<1>12. r.ok = TRUE
  <2>1. r.ok BY DEF InsertRow
  <2>2. r.ok = FALSE \/ r.ok = TRUE BY <1>11 DEF SafeInsert
  <2> QED BY <2>1, <2>2
<1> QED BY <1>6, <1>11, <1>12

LEMMA InsertRowRestartable ==
    ASSUME Restartable, NEW n \in Names, NEW v \in Values, InsertRow(n, v)
    PROVE  Restartable'
<1>1. Idle BY DEF InsertRow
<1>2. PICK N, R, g : /\ Firm(N, R, file, g) /\ Arrives(N, R, Here, Here, g)
                     /\ Known(N, R, hdr, cat_root, by_name)
  BY <1>1, IdleFacts
<1>3. Here.file = file /\ Here.hdr = hdr BY DEF Here, Store
<1>4. PICK def : def = by_name[n] OBVIOUS
<1>5. PICK r : r = Insert(Here, def.root_page, def.next_rowid, v) OBVIOUS
<1>6. PICK saved : saved = [def EXCEPT !.root_page = r.root, !.next_rowid = @ + 1] OBVIOUS
<1>7. Begin(n, Save(r.store, saved), cat_root, [by_name EXCEPT ![n] = saved],
            IF Grown(Here, r.store) THEN {n} ELSE {})
      /\ def # NoDef /\ def.next_rowid <= MaxRowid[n]
  BY <1>4, <1>5, <1>6 DEF InsertRow
<1>8. SafeInsert(Ents(N, R), R, Here, g, def.table_id, def.root_page, r) /\ r.ok = TRUE
  BY <1>2, <1>4, <1>5, InsertRowSteps
<1>9. PICK g1 : /\ Onward(Ents(N, R), R, Here, g, def.table_id, r.store, g1)
                /\ r.root \in Written(r.store.file, g1, def.table_id)
  BY <1>8 DEF SafeInsert
<1>10. /\ def \in [table_id : 1 .. MaxTableId, name : {n},
                   root_page : PageId \ {0}, next_rowid : 1 .. MaxRowid[n] + 1]
       /\ <<def.table_id, def.root_page>> \in R /\ def.table_id \in Nat \ {0}
       /\ N[def.table_id] = n
  BY <1>2, <1>4, <1>7, DefFacts
<1>11. file[0] = hdr BY <1>2, <1>3 DEF Arrives, GoodStore, HEADER_PAGE_ID
<1>12. def.table_id < Here.hdr.next_table_id
  BY <1>2, <1>3, <1>10, <1>11, RootFacts
<1>13. Arrives(N, R, Here, r.store, g1)
  BY <1>2, <1>9, <1>12, ArrivesOnward
<1>14. PICK R2 : R2 = R \cup {<<def.table_id, r.root>>} OBVIOUS
<1>15. Arrives(N, R2, Here, r.store, g1)
  BY <1>9, <1>10, <1>13, <1>14, ArrivesRoot
<1>16. r.store.hdr.catalog_root = cat_root
  <2>1. GoodHeader(Here.hdr) /\ Counts(Here.hdr, r.store.hdr)
    BY <1>9 DEF Onward, GoodStore
  <2>2. r.store.hdr.catalog_root = Here.hdr.catalog_root BY <2>1 DEF Counts, GoodHeader
  <2> QED BY <1>2, <1>3, <2>2 DEF Known
<1>17. saved \in [table_id : 1 .. MaxTableId, name : {n},
                  root_page : PageId \ {0}, next_rowid : 1 .. MaxRowid[n] + 1]
       /\ saved.table_id = def.table_id /\ saved.root_page = r.root
  <2>1. r.root \in PageId \ {0}
    BY <1>9, <1>10, <1>13, WrittenFacts DEF Arrives, Firm
  <2>2. MaxRowid[n] \in Nat BY EngineAssumption
  <2>3. def.next_rowid + 1 \in 1 .. MaxRowid[n] + 1
    BY <1>7, <1>10, <2>2
  <2>4. saved = [table_id |-> def.table_id, name |-> def.name, root_page |-> r.root,
                 next_rowid |-> def.next_rowid + 1]
    BY <1>6, <1>10
  <2> QED BY <1>10, <2>1, <2>3, <2>4
<1>18. Entry(saved.table_id, saved) \in CatEntries(N, R2)
  BY <1>10, <1>14, <1>17, EntryIs
<1>19. PICK t : t = Save(r.store, saved) OBVIOUS
<1>20. Arrives(N, R2, Here, t, g1) /\ t.hdr = r.store.hdr
  BY <1>15, <1>16, <1>18, <1>19, ArrivesSaved
<1>21. Known(N, R2, t.hdr, cat_root, by_name)
  BY <1>2, <1>14, <1>16, <1>20, KnownMore
<1>22. Known(N, R2, t.hdr, cat_root, [by_name EXCEPT ![n] = saved])
  BY <1>17, <1>18, <1>21, KnownSet
<1> QED BY <1>1, <1>7, <1>19, <1>20, <1>22, BeginRestartable

\* A row is rewritten or removed.
LEMMA RewriteRestartable ==
    ASSUME Restartable, Idle, NEW n \in Names, by_name[n] # NoDef,
           NEW def, def = by_name[n], NEW u,
           \A N, R, g : Begins(Ents(N, R), R, Here, g, def.table_id)
                        /\ def.root_page \in Written(file, g, def.table_id)
                        => SafeRewrite(Ents(N, R), R, Here, g, def.table_id, u),
           Begin(n, Save(u.store, def), cat_root, by_name, {})
    PROVE  Restartable'
<1>2. PICK N, R, g : /\ Firm(N, R, file, g) /\ Arrives(N, R, Here, Here, g)
                     /\ Known(N, R, hdr, cat_root, by_name)
  BY IdleFacts
<1>3. Here.file = file /\ Here.hdr = hdr BY DEF Here, Store
<1>4. GoodStore(Here) /\ IsSeq(Here.writes) /\ file[0] = hdr
  BY <1>2, <1>3 DEF Arrives, GoodStore, HEADER_PAGE_ID
<1>5. /\ <<def.table_id, def.root_page>> \in R /\ def.table_id \in Nat \ {0}
      /\ Entry(def.table_id, def) \in CatEntries(N, R)
  BY <1>2, DefFacts
<1>6. def.root_page \in Written(file, g, def.table_id) /\ def.table_id < Here.hdr.next_table_id
  BY <1>2, <1>3, <1>4, <1>5, RootFacts
<1>7. Begins(Ents(N, R), R, Here, g, def.table_id)
  BY <1>2, <1>3, <1>4, <1>5, EntsFacts DEF Begins, Firm
<1>8. SafeRewrite(Ents(N, R), R, Here, g, def.table_id, u) BY <1>6, <1>7
<1>9. Arrives(N, R, Here, u.store, g) /\ u.store.hdr = hdr
  <2>1. CASE u.ok = FALSE /\ u.store = Here BY <1>2, <1>3, <2>1
  <2>2. CASE OneWrite(Here, u.store) /\ Onward(Ents(N, R), R, Here, g, def.table_id, u.store, g)
    <3>1. PICK p, c : u.store = Put(Here, p, c) BY <2>2 DEF OneWrite
    <3>2. u.store.hdr = hdr BY <1>3, <1>4, <3>1, PutFacts DEF GoodStore
    <3>3. Arrives(N, R, Here, u.store, g) BY <1>2, <1>6, <2>2, ArrivesOnward
    <3> QED BY <3>2, <3>3
  <2> QED BY <1>8, <2>1, <2>2 DEF SafeRewrite
<1>10. u.store.hdr.catalog_root = cat_root BY <1>2, <1>9 DEF Known
<1>11. PICK t : t = Save(u.store, def) OBVIOUS
<1>12. Arrives(N, R, Here, t, g) /\ t.hdr = hdr
  BY <1>5, <1>9, <1>10, <1>11, ArrivesSaved
<1> QED BY <1>2, <1>11, <1>12, BeginRestartable

LEMMA UpdateRowRestartable ==
    ASSUME Restartable, NEW n \in Names, NEW rowid \in Int, NEW v \in Values,
           UpdateRow(n, rowid, v)
    PROVE  Restartable'
<1>1. PICK def : def = by_name[n] OBVIOUS
<1>2. PICK u : u = Update(Here, def.root_page, rowid, v) OBVIOUS
<1>3. Idle /\ by_name[n] # NoDef /\ Begin(n, Save(u.store, def), cat_root, by_name, {})
  BY <1>1, <1>2 DEF UpdateRow
<1>4. def.table_id \in Nat \ {0}
  <2>1. PICK N, R, g : Known(N, R, hdr, cat_root, by_name) BY <1>3, IdleFacts
  <2> QED BY <1>1, <1>3, <2>1, DefFacts
<1>5. ASSUME NEW N, NEW R, NEW g, Begins(Ents(N, R), R, Here, g, def.table_id),
             def.root_page \in Written(file, g, def.table_id)
      PROVE  SafeRewrite(Ents(N, R), R, Here, g, def.table_id, u)
  <2>1. Here.file = file BY DEF Here, Store
  <2>2. Entry(rowid, v) \in Ents(N, R)[def.table_id] BY <1>4, RowEntry
  <2> QED BY <1>2, <1>5, <2>1, <2>2, UpdateSteps
<1> QED BY <1>1, <1>3, <1>5, RewriteRestartable

LEMMA DeleteRowRestartable ==
    ASSUME Restartable, NEW n \in Names, NEW rowid \in Int, DeleteRow(n, rowid)
    PROVE  Restartable'
<1>1. PICK def : def = by_name[n] OBVIOUS
<1>2. PICK u : u = RemoveKey(Here, def.root_page, rowid) OBVIOUS
<1>3. Idle /\ by_name[n] # NoDef /\ Begin(n, Save(u.store, def), cat_root, by_name, {})
  BY <1>1, <1>2 DEF DeleteRow
<1>5. ASSUME NEW N, NEW R, NEW g, Begins(Ents(N, R), R, Here, g, def.table_id),
             def.root_page \in Written(file, g, def.table_id)
      PROVE  SafeRewrite(Ents(N, R), R, Here, g, def.table_id, u)
  <2>1. Here.file = file BY DEF Here, Store
  <2>2. def.table_id \in Nat BY <1>5 DEF Begins
  <2> QED BY <1>2, <1>5, <2>1, <2>2, RemoveSteps
<1> QED BY <1>1, <1>3, <1>5, RewriteRestartable

LEMMA DropTableRestartable ==
    ASSUME Restartable, NEW n \in Names, DropTable(n)
    PROVE  Restartable'
<1>1. Idle BY DEF DropTable
<1>2. PICK N, R, g : /\ Firm(N, R, file, g) /\ Arrives(N, R, Here, Here, g)
                     /\ Known(N, R, hdr, cat_root, by_name)
  BY <1>1, IdleFacts
<1>3. Here.file = file /\ Here.hdr = hdr BY DEF Here, Store
<1>4. GoodStore(Here) /\ IsSeq(Here.writes) /\ file[0] = hdr
  BY <1>2, <1>3 DEF Arrives, GoodStore, HEADER_PAGE_ID
<1>5. PICK id : id = by_name[n].table_id OBVIOUS
<1>6. PICK r : r = RemoveKey(Here, cat_root, id) OBVIOUS
<1>7. by_name[n] # NoDef
      /\ Begin(n, SyncRoot(r.store, cat_root), cat_root, [by_name EXCEPT ![n] = NoDef], {})
  BY <1>5, <1>6 DEF DropTable
<1>8. <<0, cat_root>> \in R BY <1>2, <1>4 DEF Known, Firm, Numbered
<1>9. cat_root \in Written(file, g, 0) /\ 0 < hdr.next_table_id BY <1>2, <1>4, <1>8, RootFacts
<1>10. id \in Int
  <2>1. by_name[n].table_id \in Nat \ {0} BY <1>2, <1>7, DefFacts
  <2> QED BY <1>5, <2>1
<1>11. Begins(Ents(N, R), R, Here, g, 0) BY <1>2, <1>3, <1>4, EntsFacts DEF Begins, Firm
<1>12. SafeRewrite(Ents(N, R), R, Here, g, 0, r) BY <1>3, <1>6, <1>9, <1>10, <1>11, RemoveSteps
<1>13. Arrives(N, R, Here, r.store, g)
  BY <1>2, <1>3, <1>9, <1>12, ArrivesOnward DEF SafeRewrite
<1>14. PICK t : t = SyncRoot(r.store, cat_root) OBVIOUS
<1>15. Arrives(N, R, Here, t, g) /\ t.hdr = [r.store.hdr EXCEPT !.catalog_root = cat_root]
  BY <1>8, <1>13, <1>14, ArrivesSynced
<1>16. t.hdr.catalog_root = cat_root
  <2>1. GoodHeader(r.store.hdr) BY <1>13 DEF Arrives, GoodStore
  <2> QED BY <1>15, <2>1 DEF GoodHeader
<1>17. Known(N, R, t.hdr, cat_root, by_name) BY <1>2, <1>16, KnownMore
<1>18. Known(N, R, t.hdr, cat_root, [by_name EXCEPT ![n] = NoDef]) BY <1>17, KnownSet
<1> QED BY <1>1, <1>7, <1>14, <1>15, <1>18, BeginRestartable

\* How create_table begins: the number is counted, the empty tree is made.
Numbers(id, counted, s1, s2, p) ==
    /\ hdr.next_table_id <= MaxTableId /\ id = hdr.next_table_id
    /\ counted = [hdr EXCEPT !.next_table_id = @ + 1]
    /\ s1 = Put([Here EXCEPT !.hdr = counted], HEADER_PAGE_ID, counted)
    /\ s2 = CreateEmpty(s1) /\ p = AllocPage(s1.hdr)

\* What that leaves.
Counted(R, id, counted, s1, s2, p) ==
    /\ id \in 1 .. MaxTableId /\ \A x \in R : x[1] # id
    /\ Puts(Here, counted, 0, counted, s1) /\ s1.hdr = counted
    /\ s2.hdr = [counted EXCEPT !.num_pages = hdr.num_pages + 1]
    /\ p = hdr.num_pages /\ p \in PageId \ {0}
    /\ s2.file[p] = Leaf(<<>>, 0)

Planted(N, R, g, id, s1, s2, p, N2, g2) ==
    /\ Onward(Ents(N, R), R, s1, g, id, s2, g2)
    /\ Arrives(N2, R \cup {<<id, p>>}, Here, s2, g2)

\* The number and the empty tree a new table gets.
LEMMA NewTree ==
    ASSUME NEW N, NEW R, NEW g, Firm(N, R, file, g), Arrives(N, R, Here, Here, g),
           hdr.num_pages + 1 <= MaxPages,
           NEW id, NEW counted, NEW s1, NEW s2, NEW p, Numbers(id, counted, s1, s2, p),
           NEW n, NEW N2, Renames(N, id, n, N2)
    PROVE  /\ Counted(R, id, counted, s1, s2, p) /\ N2[id] = n
           /\ Arrives(N, R, Here, s1, g)
           /\ \E g2 : Planted(N, R, g, id, s1, s2, p, N2, g2)
<1>1. Here.file = file /\ Here.hdr = hdr BY DEF Here, Store
<1>2. GoodStore(Here) /\ file[0] = hdr BY <1>1 DEF Arrives, GoodStore, HEADER_PAGE_ID
<1>3. GoodHeader(hdr) BY <1>1, <1>2 DEF GoodStore
<1>4. Numbered(R, hdr, g) BY <1>2 DEF Firm
<1>5. id \in 1 .. MaxTableId /\ id \notin {x[1] : x \in R} /\ id = hdr.next_table_id
  BY <1>4, EngineAssumption DEF Numbered, Numbers
<1>6. /\ GoodHeader(counted) /\ counted.num_pages = hdr.num_pages
      /\ counted.next_table_id = id + 1 /\ counted.catalog_root = hdr.catalog_root
  BY <1>3, <1>5 DEF GoodHeader, Numbers
<1>7. Numbered(R, counted, g)
  <2>1. \A x \in R : x = <<x[1], x[2]>> /\ x[1] \in Nat /\ x[1] < counted.next_table_id
    BY <1>4, <1>5, <1>6 DEF Numbered
  <2>2. \A q \in PageId : g.owner[q] < counted.next_table_id
    <3>1. g.owner \in [PageId -> Nat \cup {-1}] BY DEF Firm, Sane, Ghosts
    <3> QED BY <1>4, <1>5, <1>6, <3>1 DEF Numbered
  <2>3. counted.next_table_id \in 1 .. MaxTableId + 1 BY <1>5, <1>6, EngineAssumption
  <2> QED BY <1>4, <1>6, <2>1, <2>2, <2>3 DEF Numbered
<1>8. Puts(Here, counted, 0, counted, s1) BY <1>2, PutIs DEF GoodStore, HEADER_PAGE_ID, Numbers
<1>9. Arrives(N, R, Here, s1, g) /\ s1.hdr = counted
  BY <1>1, <1>6, <1>7, <1>8, ArrivesHeader
<1>10. Begins(Ents(N, R), R, s1, g, id)
  BY <1>5, <1>9, EntsFacts DEF Begins, Arrives, Firm
<1>11. hdr.num_pages < MaxPages BY <1>3, MaxPagesAssumption DEF GoodHeader
<1>12. /\ p = hdr.num_pages /\ p \in PageId \ {0}
       /\ s2.hdr.num_pages = hdr.num_pages + 1 /\ s2.file[p] = Leaf(<<>>, 0)
       /\ \E g2 : Onward(Ents(N, R), R, s1, g, id, s2, g2) /\ p \in Written(s2.file, g2, id)
  <2>1. s2 = CreateEmpty(s1) /\ p = AllocPage(s1.hdr) BY DEF Numbers
  <2>2. PICK m : m = s1.hdr.num_pages OBVIOUS
  <2>3. m = hdr.num_pages BY <1>6, <1>9, <2>2
  <2>4. s1.hdr.num_pages < MaxPages BY <1>11, <2>2, <2>3
  <2>5. /\ AllocPage(s1.hdr) = m /\ m \in PageId \ {0}
        /\ CreateEmpty(s1).hdr.num_pages = m + 1
        /\ CreateEmpty(s1).file[m] = Leaf(<<>>, 0)
        /\ \E g2 : /\ Onward(Ents(N, R), R, s1, g, id, CreateEmpty(s1), g2)
                   /\ m \in Written(CreateEmpty(s1).file, g2, id)
    BY <1>10, <2>2, <2>4, CreateSteps
  <2> QED BY <2>1, <2>3, <2>5
<1>13. PICK g2 : Onward(Ents(N, R), R, s1, g, id, s2, g2) /\ p \in Written(s2.file, g2, id)
  BY <1>12
<1>14. Arrives(N, R, Here, s2, g2)
  <2>1. id < s1.hdr.next_table_id BY <1>5, <1>6, <1>9
  <2> QED BY <1>9, <1>13, <2>1, ArrivesOnward
<1>15. Arrives(N2, R, Here, s2, g2) /\ N2[id] = n
  <2>1. \A x \in R : x[1] # id BY <1>5
  <2> QED BY <1>5, <1>14, <2>1, ArrivesName
<1>16. Arrives(N2, R \cup {<<id, p>>}, Here, s2, g2) BY <1>5, <1>13, <1>15, ArrivesRoot
<1>17. s2.hdr = [counted EXCEPT !.num_pages = hdr.num_pages + 1]
  BY <1>6, <1>9, <1>12, <1>13 DEF Onward, Counts, GoodHeader
<1>18. Counted(R, id, counted, s1, s2, p)
  BY <1>5, <1>8, <1>9, <1>12, <1>17 DEF Counted
<1> QED BY <1>9, <1>13, <1>15, <1>16, <1>18 DEF Planted

LEMMA CreateTooLargeRestartable ==
    ASSUME Restartable, NEW n \in Names, CreateTooLarge(n)
    PROVE  Restartable'
<1>1. Idle BY DEF CreateTooLarge
<1>2. PICK N, R, g : /\ Firm(N, R, file, g) /\ Arrives(N, R, Here, Here, g)
                     /\ Known(N, R, hdr, cat_root, by_name)
  BY <1>1, IdleFacts
<1>3. PICK id, counted, s1, s2, p :
        /\ id = hdr.next_table_id /\ counted = [hdr EXCEPT !.next_table_id = @ + 1]
        /\ s1 = Put([Here EXCEPT !.hdr = counted], HEADER_PAGE_ID, counted)
        /\ s2 = CreateEmpty(s1) /\ p = AllocPage(s1.hdr)
  OBVIOUS
<1>6. CanAlloc(hdr, 1) /\ Begin(n, s2, cat_root, by_name, {}) /\ hdr.next_table_id <= MaxTableId
  BY <1>3 DEF CreateTooLarge
<1>5. Numbers(id, counted, s1, s2, p) BY <1>3, <1>6 DEF Numbers
<1>7. GoodHeader(hdr) BY <1>2 DEF Arrives, GoodStore, Here, Store
<1>8. hdr.num_pages + 1 <= MaxPages BY <1>6, <1>7 DEF GoodHeader, CanAlloc
<1>10. PICK N2 : Renames(N, id, n, N2)
  BY DEF Renames
<1>16. Counted(R, id, counted, s1, s2, p)
  BY <1>2, <1>5, <1>8, <1>10, NewTree
<1>17. PICK g2 : Planted(N, R, g, id, s1, s2, p, N2, g2)
  BY <1>2, <1>5, <1>8, <1>10, NewTree
<1>11. Arrives(N2, R \cup {<<id, p>>}, Here, s2, g2) BY <1>17 DEF Planted
<1>12. /\ id \notin {x[1] : x \in R} /\ s2.hdr = [counted EXCEPT !.num_pages = hdr.num_pages + 1]
  BY <1>16 DEF Counted
<1>13. s2.hdr.catalog_root = cat_root
  BY <1>2, <1>5, <1>7, <1>12 DEF GoodHeader, Known, Numbers
<1>14. \A x \in R : N2[x[1]] = N[x[1]]
  <2>1. Numbered(R, hdr, g) BY <1>2 DEF Firm, Arrives, GoodStore, Here, Store, HEADER_PAGE_ID
  <2> QED BY <1>6, <1>10, <1>12, <2>1, EngineAssumption DEF Numbered, Renames
<1>15. Known(N2, R \cup {<<id, p>>}, s2.hdr, cat_root, by_name)
  BY <1>2, <1>10, <1>13, <1>14, KnownMore
<1> QED BY <1>1, <1>6, <1>11, <1>15, BeginRestartable

\* How create_table goes on: the catalog takes the definition.
CreatesTable(n, id, counted, s1, s2, p, def, r) ==
    /\ Numbers(id, counted, s1, s2, p)
    /\ def = [table_id |-> id, name |-> n, root_page |-> p, next_rowid |-> 1]
    /\ r = Insert(s2, cat_root, id, def)

\* What CreateTable does, in these terms.
LEMMA CreateTableIs ==
    ASSUME NEW n, CreateTable(n)
    PROVE  /\ Idle /\ by_name[n] = NoDef
           /\ CanAlloc(hdr, Len(FindPath(file, cat_root, MaxTableId)) + 2)
           /\ \E id, counted, s1, s2, p, def, r :
                /\ CreatesTable(n, id, counted, s1, s2, p, def, r)
                /\ Begin(n, SyncRoot(r.store, r.root), r.root,
                         IF r.ok THEN [by_name EXCEPT ![n] = def] ELSE by_name,
                         IF Grown(s2, r.store) THEN {CatalogTree} ELSE {})
<1>3. PICK id, counted, s1, s2, p :
        /\ id = hdr.next_table_id /\ counted = [hdr EXCEPT !.next_table_id = @ + 1]
        /\ s1 = Put([Here EXCEPT !.hdr = counted], HEADER_PAGE_ID, counted)
        /\ s2 = CreateEmpty(s1) /\ p = AllocPage(s1.hdr)
  OBVIOUS
<1>4. PICK def : def = [table_id |-> id, name |-> n, root_page |-> p, next_rowid |-> 1]
  OBVIOUS
<1>5. def.table_id = id BY <1>4
<1>6. PICK r : r = Insert(s2, cat_root, id, def) OBVIOUS
<1>7. Numbers(id, counted, s1, s2, p) BY <1>3 DEF Numbers, CreateTable
<1>8. CreatesTable(n, id, counted, s1, s2, p, def, r) BY <1>4, <1>6, <1>7 DEF CreatesTable
<1>9. Begin(n, SyncRoot(r.store, r.root), r.root,
            IF r.ok THEN [by_name EXCEPT ![n] = def] ELSE by_name,
            IF Grown(s2, r.store) THEN {CatalogTree} ELSE {})
  BY <1>3, <1>4, <1>5, <1>6 DEF CreateTable
<1> QED BY <1>8, <1>9 DEF CreateTable

\* The insertion into the catalog.
LEMMA CatalogInsert ==
    ASSUME NEW N, NEW R, NEW g, Firm(N, R, file, g), Arrives(N, R, Here, Here, g),
           Known(N, R, hdr, cat_root, by_name),
           NEW n \in Names, CanAlloc(hdr, Len(FindPath(file, cat_root, MaxTableId)) + 2),
           NEW id, NEW counted, NEW s1, NEW s2, NEW p, NEW def, NEW r,
           CreatesTable(n, id, counted, s1, s2, p, def, r),
           NEW N2, Renames(N, id, n, N2),
           NEW R2, R2 = R \cup {<<id, p>>}
    PROVE  /\ Counted(R, id, counted, s1, s2, p) /\ Arrives(N, R, Here, s1, g)
           /\ Known(N2, R2, s2.hdr, cat_root, by_name)
           /\ Entry(id, def) \in CatEntries(N2, R2)
           /\ def \in [table_id : 1 .. MaxTableId, name : {n},
                       root_page : PageId \ {0}, next_rowid : 1 .. MaxRowid[n] + 1]
           /\ hdr.num_pages + g.lvl[cat_root] + 3 <= MaxPages /\ g.lvl[cat_root] \in Nat
           /\ \E g2 : /\ Planted(N, R, g, id, s1, s2, p, N2, g2)
                      /\ SafeInsert(Ents(N2, R2), R2, s2, g2, 0, cat_root, r)
<1>1. Here.file = file /\ Here.hdr = hdr BY DEF Here, Store
<1>2. GoodStore(Here) /\ file[0] = hdr /\ GoodHeader(hdr)
  BY <1>1 DEF Arrives, GoodStore, HEADER_PAGE_ID
<1>3. Numbers(id, counted, s1, s2, p) BY DEF CreatesTable
<1>4. <<0, cat_root>> \in R BY <1>2 DEF Known, Firm, Numbered
<1>5. g.lvl[cat_root] \in Nat /\ cat_root \in Written(file, g, 0) BY <1>4, RootFacts
<1>6. hdr.num_pages + g.lvl[cat_root] + 3 <= MaxPages
  <2>1. MaxTableId \in Int BY EngineAssumption
  <2>2. hdr.num_pages + g.lvl[cat_root] + 1 + 2 <= MaxPages
    BY <1>2, <1>4, <2>1, RoomFacts
  <2>3. hdr.num_pages \in Nat BY <1>2, MaxPagesAssumption DEF GoodHeader
  <2> QED BY <1>5, <2>2, <2>3
<1>7. hdr.num_pages + 1 <= MaxPages
  BY <1>2, <1>5, <1>6, MaxPagesAssumption DEF GoodHeader
<1>8. Counted(R, id, counted, s1, s2, p) /\ Arrives(N, R, Here, s1, g) /\ N2[id] = n
  BY <1>3, <1>7, NewTree
<1>9. PICK g2 : Planted(N, R, g, id, s1, s2, p, N2, g2)
  BY <1>3, <1>7, NewTree
<1>10. /\ id \in 1 .. MaxTableId /\ (\A x \in R : x[1] # id)
       /\ s1.hdr = counted /\ s2.hdr = [counted EXCEPT !.num_pages = hdr.num_pages + 1]
       /\ p \in PageId \ {0} /\ counted = [hdr EXCEPT !.next_table_id = @ + 1]
  BY <1>3, <1>8 DEF Counted, Numbers
<1>11. s2.hdr.num_pages = hdr.num_pages + 1 /\ s2.hdr.catalog_root = hdr.catalog_root
  BY <1>2, <1>10 DEF GoodHeader
<1>12. Onward(Ents(N, R), R, s1, g, id, s2, g2) /\ Arrives(N2, R2, Here, s2, g2)
  BY <1>9 DEF Planted
<1>13. <<0, cat_root>> \in R2 /\ <<id, p>> \in R2 BY <1>4
<1>14. cat_root \in Written(s2.file, g2, 0) BY <1>12, <1>13, RootFacts DEF Arrives
<1>15. g2.lvl[cat_root] = g.lvl[cat_root]
  BY <1>5, <1>12 DEF Onward, Written
<1>16. def \in [table_id : 1 .. MaxTableId, name : {n},
                root_page : PageId \ {0}, next_rowid : 1 .. MaxRowid[n] + 1]
       /\ def.table_id = id /\ def.root_page = p
  <2>1. MaxRowid[n] \in Nat BY EngineAssumption
  <2>2. 1 \in 1 .. MaxRowid[n] + 1 BY <2>1
  <2>3. def = [table_id |-> id, name |-> n, root_page |-> p, next_rowid |-> 1]
    BY DEF CreatesTable
  <2> QED BY <1>10, <2>2, <2>3
<1>17. Entry(id, def) \in CatEntries(N2, R2) BY <1>8, <1>13, <1>16, EntryIs
<1>18. Begins(Ents(N2, R2), R2, s2, g2, 0)
  BY <1>12, EntsFacts DEF Begins, Arrives, Firm
<1>19. SafeInsert(Ents(N2, R2), R2, s2, g2, 0, cat_root, r)
  <2>1. s2.hdr.num_pages + g2.lvl[cat_root] + 2 <= MaxPages
    BY <1>2, <1>5, <1>6, <1>11, <1>15, MaxPagesAssumption DEF GoodHeader
  <2>2. r = Insert(s2, cat_root, id, def) BY DEF CreatesTable
  <2>3. Entry(id, def) \in Ents(N2, R2)[0] BY <1>17, EntsFacts
  <2>4. id \in Int BY <1>10, EngineAssumption
  <2> QED BY <1>14, <1>18, <2>1, <2>2, <2>3, <2>4, InsertSteps
<1>20. Known(N2, R2, s2.hdr, cat_root, by_name)
  <2>1. s2.hdr.catalog_root = cat_root BY <1>11 DEF Known
  <2>2. \A x \in R : N2[x[1]] = N[x[1]]
    <3>1. Numbered(R, hdr, g) BY <1>2 DEF Firm
    <3> QED BY <1>10, <3>1, EngineAssumption DEF Numbered, Renames
  <2> QED BY <2>1, <2>2, KnownMore
<1> QED BY <1>5, <1>6, <1>8, <1>9, <1>16, <1>17, <1>19, <1>20

LEMMA CreateTableRestartable ==
    ASSUME Restartable, NEW n \in Names, CreateTable(n)
    PROVE  Restartable'
<1>1. Idle /\ CanAlloc(hdr, Len(FindPath(file, cat_root, MaxTableId)) + 2)
  BY CreateTableIs
<1>2. PICK N, R, g : /\ Firm(N, R, file, g) /\ Arrives(N, R, Here, Here, g)
                     /\ Known(N, R, hdr, cat_root, by_name)
  BY <1>1, IdleFacts
<1>3. PICK id, counted, s1, s2, p, def, r :
        /\ CreatesTable(n, id, counted, s1, s2, p, def, r)
        /\ Begin(n, SyncRoot(r.store, r.root), r.root,
                 IF r.ok THEN [by_name EXCEPT ![n] = def] ELSE by_name,
                 IF Grown(s2, r.store) THEN {CatalogTree} ELSE {})
  BY CreateTableIs
<1>4. PICK N2 : Renames(N, id, n, N2) BY DEF Renames
<1>5. PICK R2 : R2 = R \cup {<<id, p>>} OBVIOUS
<1>6. /\ Known(N2, R2, s2.hdr, cat_root, by_name)
      /\ Entry(id, def) \in CatEntries(N2, R2)
      /\ def \in [table_id : 1 .. MaxTableId, name : {n},
                  root_page : PageId \ {0}, next_rowid : 1 .. MaxRowid[n] + 1]
  BY <1>1, <1>2, <1>3, <1>4, <1>5, CatalogInsert
<1>7. PICK g2 : /\ Planted(N, R, g, id, s1, s2, p, N2, g2)
                /\ SafeInsert(Ents(N2, R2), R2, s2, g2, 0, cat_root, r)
  BY <1>1, <1>2, <1>3, <1>4, <1>5, CatalogInsert
<1>8. Arrives(N2, R2, Here, s2, g2) BY <1>5, <1>7 DEF Planted
<1>9. s2.file[0] = s2.hdr /\ GoodHeader(s2.hdr) BY <1>8 DEF Arrives, GoodStore, HEADER_PAGE_ID
<1>10. Entry(def.table_id, def) \in CatEntries(N2, R2) /\ def.name = n
  BY <1>3, <1>6 DEF CreatesTable
<1>11. <<0, cat_root>> \in R2 BY <1>6, <1>8, <1>9 DEF Arrives, Firm, Numbered, Known
<1>12. PICK defs : defs = IF r.ok THEN [by_name EXCEPT ![n] = def] ELSE by_name OBVIOUS
<1>13. ASSUME NEW R3, R2 \subseteq R3, NEW h, h.catalog_root = r.root PROVE Known(N2, R3, h, r.root, defs)
  <2>1. Known(N2, R3, h, r.root, by_name) BY <1>6, <1>13, KnownMore
  <2>2. CatEntries(N2, R2) \subseteq CatEntries(N2, R3)
    BY <1>13, EntsGrow, EntsFacts
  <2>3. Entry(def.table_id, def) \in CatEntries(N2, R3) BY <1>10, <2>2
  <2>4. PICK defs2 : defs2 = [by_name EXCEPT ![n] = def] OBVIOUS
  <2>5. Known(N2, R3, h, r.root, defs2) BY <1>10, <2>1, <2>3, <2>4, KnownSet
  <2>6. defs = by_name \/ defs = defs2 BY <1>12, <2>4
  <2> QED BY <2>1, <2>5, <2>6
<1>14. PICK t : t = SyncRoot(r.store, r.root) OBVIOUS
<1>15. CASE r.store = s2 /\ r.root = cat_root
  <2>1. Arrives(N2, R2, Here, t, g2) /\ t.hdr = [s2.hdr EXCEPT !.catalog_root = r.root]
    BY <1>8, <1>11, <1>14, <1>15, ArrivesSynced
  <2>2. t.hdr.catalog_root = r.root BY <1>9, <2>1 DEF GoodHeader
  <2>3. Known(N2, R2, t.hdr, r.root, defs) BY <1>13, <2>2
  <2> QED BY <1>1, <1>3, <1>12, <1>14, <2>1, <2>3, BeginRestartable
<1>16. CASE \E g3 : /\ Onward(Ents(N2, R2), R2, s2, g2, 0, r.store, g3)
                    /\ r.root \in Written(r.store.file, g3, 0)
  <2>1. PICK g3 : /\ Onward(Ents(N2, R2), R2, s2, g2, 0, r.store, g3)
                  /\ r.root \in Written(r.store.file, g3, 0)
    BY <1>16
  <2>2. 0 < s2.hdr.next_table_id BY <1>8, <1>9, <1>11, RootFacts DEF Arrives
  <2>3. Arrives(N2, R2, Here, r.store, g3) BY <1>8, <2>1, <2>2, ArrivesOnward
  <2>4. PICK R3 : R3 = R2 \cup {<<0, r.root>>} OBVIOUS
  <2>5. Arrives(N2, R3, Here, r.store, g3) BY <2>1, <2>3, <2>4, ArrivesRoot
  <2>6. Arrives(N2, R3, Here, t, g3) /\ t.hdr = [r.store.hdr EXCEPT !.catalog_root = r.root]
    <3>1. <<0, r.root>> \in R3 BY <2>4
    <3> QED BY <1>14, <2>5, <3>1, ArrivesSynced
  <2>7. t.hdr.catalog_root = r.root BY <2>3, <2>6 DEF GoodHeader, Arrives, GoodStore
  <2>8. Known(N2, R3, t.hdr, r.root, defs) BY <1>13, <2>4, <2>7
  <2> QED BY <1>1, <1>3, <1>12, <1>14, <2>6, <2>8, BeginRestartable
<1> QED BY <1>7, <1>15, <1>16 DEF SafeInsert

-----------------------------------------------------------------------------
(* What a process loads.                                                   *)

\* A set of numbers that is bounded has a greatest one.
LEMMA GreatestNumber ==
    ASSUME NEW m \in Nat, NEW T \in SUBSET (1 .. m), T # {}
    PROVE  \E n \in T : \A k \in T : n >= k
<1> DEFINE D == {m - k : k \in T}
<1>1. D \in SUBSET Nat /\ D # {}
  <2>1. ASSUME NEW k \in T PROVE m - k \in Nat
    <3>1. k \in 1 .. m OBVIOUS
    <3> QED BY <3>1
  <2>2. PICK k : k \in T OBVIOUS
  <2>3. m - k \in D BY <2>2
  <2> QED BY <2>1, <2>3
<1>2. PICK d \in D : \A c \in D : d <= c
  <2> HIDE DEF D
  <2> QED BY <1>1, LeastNumber
<1>3. PICK n \in T : d = m - n OBVIOUS
<1>4. \A k \in T : n >= k
  <2> SUFFICES ASSUME NEW k \in T PROVE n >= k OBVIOUS
  <2>1. m - k \in D OBVIOUS
  <2>2. d <= m - k
    <3> HIDE DEF D
    <3> QED BY <1>2, <2>1
  <2> QED BY <1>3, <2>2
<1> QED BY <1>4

\* The definition a process takes for the name n from these entries.
DefIn(entries, n) ==
    LET at == SelectLastInSeq(entries, LAMBDA e : e.value.name = n)
    IN  IF at = 0 THEN NoDef ELSE entries[at].value

LEMMA LoadDefsIs ==
    ASSUME NEW f, NEW root
    PROVE  /\ LoadDefs(f, root) = [n \in Names |-> LoadDefs(f, root)[n]]
           /\ \A n \in Names : LoadDefs(f, root)[n] = DefIn(ScanEntries(f, root), n)
BY DEF LoadDefs, DefIn

\* It is that of the last of its entries.
LEMMA DefInFacts ==
    ASSUME NEW S, NEW entries \in Seq(S), NEW n
    PROVE  \/ /\ DefIn(entries, n) = NoDef
              /\ \A j \in 1 .. Len(entries) : entries[j].value.name # n
           \/ \E i \in 1 .. Len(entries) :
                /\ entries[i].value.name = n /\ DefIn(entries, n) = entries[i].value
                /\ \A j \in 1 .. Len(entries) : entries[j].value.name = n => j <= i
<1> DEFINE I == {i \in 1 .. Len(entries) : entries[i].value.name = n}
<1>1. Len(entries) \in Nat BY LenProperties
<1>2. CASE I = {}
  <2>1. DefIn(entries, n) = NoDef BY <1>2 DEF DefIn, SelectLastInSeq
  <2> QED BY <1>2, <2>1
<1>3. CASE I # {}
  <2>1. I \in SUBSET (1 .. Len(entries)) OBVIOUS
  <2>2. PICK i \in I : \A k \in I : i >= k
    <3> HIDE DEF I
    <3> QED BY <1>1, <1>3, <2>1, GreatestNumber
  <2>3. Max(I) = i BY <2>1, <2>2 DEF Max
  <2>4. DefIn(entries, n) = entries[i].value
    BY <1>1, <1>3, <2>3 DEF DefIn, SelectLastInSeq
  <2> QED BY <2>2, <2>4
<1> QED BY <1>2, <1>3

\* What a process loads from a file it can start on is true of the file.
LEMMA LoadedKnown ==
    ASSUME NEW N, NEW R, NEW f, NEW g, Firm(N, R, f, g), NEW root, root = f[0].catalog_root
    PROVE  Known(N, R, f[0], root, LoadDefs(f, root))
<1>1. <<0, root>> \in R BY DEF Firm, Numbered
<1>2. root \in Written(f, g, 0) BY <1>1, RootFacts
<1>3. ScanEntries(f, root) \in Seq(CatEntries(N, R)) BY <1>2, ScanOwned, EntsFacts DEF Firm
<1>4. ASSUME NEW n \in Names, LoadDefs(f, root)[n] # NoDef
      PROVE  /\ LoadDefs(f, root)[n].name = n
             /\ Entry(LoadDefs(f, root)[n].table_id, LoadDefs(f, root)[n]) \in CatEntries(N, R)
  <2>1. LoadDefs(f, root)[n] = DefIn(ScanEntries(f, root), n) BY LoadDefsIs
  <2>2. PICK i \in 1 .. Len(ScanEntries(f, root)) :
          /\ ScanEntries(f, root)[i].value.name = n
          /\ DefIn(ScanEntries(f, root), n) = ScanEntries(f, root)[i].value
    BY <1>3, <1>4, <2>1, DefInFacts
  <2>3. PICK e : e = ScanEntries(f, root)[i] OBVIOUS
  <2>4. e \in CatEntries(N, R) BY <1>3, <2>3
  <2>5. e = Entry(e.value.table_id, e.value) BY <2>4 DEF CatEntries, Entry
  <2> QED BY <2>1, <2>2, <2>3, <2>4, <2>5
<1> QED BY <1>4, LoadDefsIs DEF Known

-----------------------------------------------------------------------------
(* The inductive invariant holds.                                          *)

\* The new file has one tree, the empty catalog.
LEMMA InitFirm ==
    ASSUME Init
    PROVE  \E N, R, g : /\ Firm(N, R, file, g) /\ file[1] = Leaf(<<>>, 0)
                        /\ file[0].catalog_root = 1 /\ 1 \in PageId
                        /\ \A q \in PageId : g.owner[q] = 0 <=> q = 1
<1>1. PICK g : g = [top |-> 0, owner |-> [p \in PageId |-> IF p = 1 THEN 0 ELSE -1],
                    lvl |-> [p \in PageId |-> 0], ord |-> [p \in PageId |-> 0]]
  OBVIOUS
<1>2. PICK R : R = {<<0, 1>>} OBVIOUS
<1>3. PICK N : N = {} OBVIOUS
<1>4. 0 \in PageId /\ 1 \in PageId /\ MaxPages \in Nat /\ MaxPages >= 2
  BY MaxPagesAssumption DEF PageId
<1>5. /\ DOMAIN file = PageId /\ file[0] = FreshHeader /\ file[1] = Leaf(<<>>, 0)
      /\ \A p \in PageId : p \notin {0, 1} => file[p] = Absent
  BY <1>4 DEF Init, HEADER_PAGE_ID, CATALOG_ROOT_PAGE_ID
<1>6. GoodHeader(file[0]) /\ file[0].num_pages = 2 /\ file[0].next_table_id = 1
      /\ file[0].catalog_root = 1 /\ file[0].type = "header"
  BY <1>4, <1>5 DEF FreshHeader, Header, GoodHeader, CATALOG_ROOT_PAGE_ID
<1>7. Ghosts(g) BY <1>1 DEF Ghosts
<1>8. Solid(file[1]) /\ FitsLeaf(Ents(N, R), g, 1, file[1])
  <2>1. Solid(file[1]) /\ file[1].entries = <<>> /\ file[1].next = 0 BY <1>5, Kinds
  <2>2. g.lvl[1] = 0 BY <1>1, <1>4
  <2>3. <<>> \in Seq(Ents(N, R)[g.owner[1]]) OBVIOUS
  <2> QED BY <1>5, <2>1, <2>2, <2>3 DEF FitsLeaf
<1>9. \A p \in PageId : g.owner[p] = -1 => Spare(file[p])
  BY <1>1, <1>5, <1>6 DEF Spare, Absent
<1>10. \A p \in PageId : g.owner[p] # -1 => p \in 1 .. file[0].num_pages - 1
                                            /\ Fits(Ents(N, R), file, g, p, file[p])
  BY <1>1, <1>6, <1>8 DEF Fits
<1>11. \A x \in R : Rooted(file, g, x)
  BY <1>1, <1>2, <1>4, <1>8 DEF Rooted
<1>12. Sane(Ents(N, R), R, file, g)
  BY <1>5, <1>6, <1>7, <1>9, <1>10, <1>11 DEF Sane
<1>13. Numbered(R, file[0], g)
  BY <1>1, <1>2, <1>6, EngineAssumption DEF Numbered
<1>14. \A q \in PageId : g.owner[q] = 0 <=> q = 1 BY <1>1
<1> QED BY <1>4, <1>5, <1>6, <1>12, <1>13, <1>14 DEF Firm

LEMMA InitRestartable ==
    ASSUME Init
    PROVE  Restartable
<1>1. Stored(file) BY InitFirm DEF Stored
<1>2. PICK fs : fs = [j \in {0} |-> file] OBVIOUS
<1>3. todo = <<>> /\ up = FALSE BY DEF Init
<1>4. Leaves(file, todo, fs) /\ \A j \in 0 .. Len(todo) : Stored(fs[j])
  BY <1>1, <1>2, <1>3 DEF Leaves
<1>5. IsSeq(<<>>) BY EmptySeq DEF IsSeq
<1> QED BY <1>3, <1>4, <1>5 DEF Restartable

\* The process is gone: the next one finds the file as it is.
LEMMA GoneRestartable ==
    ASSUME Restartable, Forget, file' = file
    PROVE  Restartable'
<1>1. PICK fs : Leaves(file, todo, fs) /\ \A j \in 0 .. Len(todo) : Stored(fs[j])
  BY DEF Restartable
<1>2. Stored(file)
  <2>1. Len(todo) \in Nat BY DEF Restartable, IsSeq
  <2> QED BY <1>1, <2>1 DEF Leaves
<1>3. PICK hs : hs = [j \in {0} |-> file] OBVIOUS
<1>4. todo' = <<>> /\ up' = FALSE BY DEF Forget
<1>5. Leaves(file', todo', hs) /\ \A j \in 0 .. Len(todo') : Stored(hs[j])
  BY <1>2, <1>3, <1>4 DEF Leaves
<1>6. IsSeq(<<>>) BY EmptySeq DEF IsSeq
<1> QED BY <1>4, <1>5, <1>6 DEF Restartable

LEMMA StartRestartable ==
    ASSUME Restartable, Start
    PROVE  Restartable'
<1>1. PICK fs : Leaves(file, todo, fs) /\ \A j \in 0 .. Len(todo) : Stored(fs[j])
  BY DEF Restartable
<1>2. todo = <<>> /\ file' = file /\ todo' = todo /\ up' = TRUE
  BY DEF Start, Restartable
<1>3. Stored(fs[0]) /\ fs[0] = file BY <1>1, <1>2 DEF Leaves
<1>4. PICK N, R, g : Firm(N, R, file, g) BY <1>3 DEF Stored
<1>5. /\ hdr' = file[0] /\ cat_root' = file[0].catalog_root
      /\ by_name' = LoadDefs(file, file[0].catalog_root)
  BY DEF Start, DiskDefs, HEADER_PAGE_ID
<1>6. Known(N, R, hdr', cat_root', by_name') BY <1>4, <1>5, LoadedKnown
<1>7. Firm(N, R, fs[Len(todo')], g) /\ hdr' = fs[Len(todo')][0]
  BY <1>2, <1>3, <1>4, <1>5
<1> QED BY <1>1, <1>2, <1>6, <1>7 DEF Restartable

\* The first of the writes and the others.
LEMMA TailFacts ==
    ASSUME NEW w, IsSeq(w), w # <<>>
    PROVE  /\ IsSeq(Tail(w)) /\ Len(Tail(w)) = Len(w) - 1 /\ Len(w) \in Nat \ {0}
           /\ Head(w) = w[1] /\ \A j \in 1 .. Len(w) - 1 : Tail(w)[j] = w[j + 1]
BY DEF IsSeq

LEMMA WriteRestartable ==
    ASSUME Restartable, WriteNext
    PROVE  Restartable'
<1>1. PICK fs :
         /\ Leaves(file, todo, fs)
         /\ \A j \in 0 .. Len(todo) : Stored(fs[j])
         /\ up => \E N, R, g : /\ Firm(N, R, fs[Len(todo)], g)
                               /\ hdr = fs[Len(todo)][0]
                               /\ Known(N, R, hdr, cat_root, by_name)
  BY DEF Restartable
<1>2. /\ IsSeq(Tail(todo)) /\ Len(Tail(todo)) = Len(todo) - 1 /\ Len(todo) \in Nat \ {0}
      /\ Head(todo) = todo[1] /\ \A j \in 1 .. Len(todo) - 1 : Tail(todo)[j] = todo[j + 1]
  BY TailFacts DEF Restartable, WriteNext
<1>3. /\ file' = WritePage(file, todo[1][1], todo[1][2]) /\ todo' = Tail(todo)
      /\ up' = up /\ hdr' = hdr /\ cat_root' = cat_root /\ by_name' = by_name
  BY <1>2 DEF WriteNext, mem
<1>4. PICK hs : hs = [j \in 0 .. Len(todo) - 1 |-> fs[j + 1]] OBVIOUS
<1>5. Leaves(file', todo', hs)
  <2>1. hs[0] = fs[1] BY <1>2, <1>4
  <2>2. fs[1] = WritePage(fs[0], todo[1][1], todo[1][2]) /\ fs[0] = file
    BY <1>1, <1>2 DEF Leaves
  <2>3. ASSUME NEW j \in 1 .. Len(todo')
        PROVE  hs[j] = WritePage(hs[j - 1], todo'[j][1], todo'[j][2])
    <3>1. hs[j] = fs[j + 1] /\ hs[j - 1] = fs[j] /\ todo'[j] = todo[j + 1]
      BY <1>2, <1>3, <1>4
    <3>2. j + 1 \in 1 .. Len(todo) /\ (j + 1) - 1 = j BY <1>2, <1>3
    <3>3. fs[j + 1] = WritePage(fs[(j + 1) - 1], todo[j + 1][1], todo[j + 1][2])
      BY <1>1, <3>2 DEF Leaves
    <3> QED BY <3>1, <3>2, <3>3
  <2> QED BY <1>3, <2>1, <2>2, <2>3 DEF Leaves
<1>6. \A j \in 0 .. Len(todo') : Stored(hs[j]) BY <1>1, <1>2, <1>3, <1>4
<1>7. hs[Len(todo')] = fs[Len(todo)] BY <1>2, <1>3, <1>4
<1>8. up BY DEF WriteNext
<1> QED BY <1>1, <1>2, <1>3, <1>5, <1>6, <1>7, <1>8 DEF Restartable

LEMMA NextRestartable ==
    ASSUME Restartable, [Next]_vars
    PROVE  Restartable'
<1>1. CASE UNCHANGED vars BY <1>1 DEF vars, mem, Restartable
<1>2. CASE WriteNext BY <1>2, WriteRestartable
<1>3. CASE Stop BY <1>3, GoneRestartable DEF Stop
<1>4. CASE Crash BY <1>4, GoneRestartable DEF Crash
<1>5. CASE Start BY <1>5, StartRestartable
<1>6. ASSUME NEW n \in Names, CreateTable(n) PROVE Restartable' BY <1>6, CreateTableRestartable
<1>7. ASSUME NEW n \in Names, CreateTooLarge(n) PROVE Restartable'
  BY <1>7, CreateTooLargeRestartable
<1>8. ASSUME NEW n \in Names, DropTable(n) PROVE Restartable' BY <1>8, DropTableRestartable
<1>9. ASSUME NEW n \in Names, NEW v \in Values, InsertRow(n, v) PROVE Restartable'
  BY <1>9, InsertRowRestartable
<1>10. ASSUME NEW n \in Names, NEW rowid \in 1 .. MaxRowid[n], DeleteRow(n, rowid)
       PROVE  Restartable'
  <2>1. rowid \in Int BY EngineAssumption
  <2> QED BY <1>10, <2>1, DeleteRowRestartable
<1>11. ASSUME NEW n \in Names, NEW rowid \in 1 .. MaxRowid[n], NEW v \in Values,
              UpdateRow(n, rowid, v)
       PROVE  Restartable'
  <2>1. rowid \in Int BY EngineAssumption
  <2> QED BY <1>11, <2>1, UpdateRowRestartable
<1> QED BY <1>1, <1>2, <1>3, <1>4, <1>5, <1>6, <1>7, <1>8, <1>9, <1>10, <1>11 DEF Next

LEMMA AlwaysRestartable == Spec => []Restartable
<1>1. Init => Restartable BY InitRestartable
<1>2. Restartable /\ [Next]_vars => Restartable' BY NextRestartable
<1> QED BY <1>1, <1>2, PTL DEF Spec

-----------------------------------------------------------------------------
(* What follows from it.                                                   *)

\* Between any two writes the file is one a process can start on.
LEMMA FileStored ==
    ASSUME Restartable
    PROVE  Stored(file)
<1>1. PICK fs : Leaves(file, todo, fs) /\ \A j \in 0 .. Len(todo) : Stored(fs[j])
  BY DEF Restartable
<1>2. Len(todo) \in Nat BY DEF Restartable, IsSeq
<1> QED BY <1>1, <1>2 DEF Leaves

\* A definition on disk, and whose tree it is the root of.
LEMMA DiskDefFacts ==
    ASSUME NEW N, NEW R, NEW g, Firm(N, R, file, g), NEW n \in Names, DiskDefs[n] # NoDef
    PROVE  /\ DiskDefs[n] \in [table_id : 1 .. MaxTableId, name : {n},
                               root_page : PageId \ {0}, next_rowid : 1 .. MaxRowid[n] + 1]
           /\ <<DiskDefs[n].table_id, DiskDefs[n].root_page>> \in R
           /\ DiskDefs[n].table_id \in Nat \ {0} /\ N[DiskDefs[n].table_id] = n
<1>1. Known(N, R, file[0], file[0].catalog_root, DiskDefs)
  BY LoadedKnown DEF DiskDefs, HEADER_PAGE_ID
<1> QED BY <1>1, DefFacts

LEMMA RestartableTypeOK ==
    ASSUME Restartable
    PROVE  TypeOK
<1>1. todo = <<>> /\ up => hdr = file[HEADER_PAGE_ID]
  <2> SUFFICES ASSUME todo = <<>>, up PROVE hdr = file[0] BY DEF HEADER_PAGE_ID
  <2>1. GoodStore(Here) /\ Here.file = file /\ Here.hdr = hdr BY IdleFacts DEF Idle
  <2> QED BY <2>1 DEF GoodStore, HEADER_PAGE_ID
<1>2. ASSUME NEW n \in Tables(Defs)
      PROVE  Defs[n] \in [table_id : 1 .. MaxTableId, name : {n},
                          root_page : PageId \ {0}, next_rowid : 1 .. MaxRowid[n] + 1]
  <2>1. n \in Names /\ Defs[n] # NoDef BY DEF Tables
  <2>2. CASE up
    <3>1. PICK N, R : Known(N, R, hdr, cat_root, by_name) BY <2>2 DEF Restartable
    <3>2. Defs = by_name BY <2>2 DEF Defs
    <3> QED BY <2>1, <3>1, <3>2, DefFacts
  <2>3. CASE ~up
    <3>1. PICK N, R, g : Firm(N, R, file, g) BY FileStored DEF Stored
    <3>2. Defs = DiskDefs BY <2>3 DEF Defs
    <3> QED BY <2>1, <3>1, <3>2, DiskDefFacts
  <2> QED BY <2>2, <2>3
<1> QED BY <1>1, <1>2 DEF TypeOK

\* What is below the root of a tree and along its leaves is of that tree.
LEMMA TreeApart ==
    ASSUME NEW N, NEW R, NEW f, NEW g, Firm(N, R, f, g), NEW i, NEW p, <<i, p>> \in R
    PROVE  /\ \A q \in TreePages(f, p) : /\ q \in 1 .. f[0].num_pages - 1
                                         /\ f[q].type \in {"leaf", "internal"}
           /\ \A q \in TreePages(f, p) \cup ToSet(LeafChain(f, p)) : g.owner[q] = i
<1>1. i \in Nat /\ p \in Written(f, g, i) BY RootFacts
<1>2. Sane(Ents(N, R), R, f, g) BY DEF Firm
<1>3. TreePages(f, p) \subseteq Written(f, g, i) BY <1>1, <1>2, PagesOwned
<1>4. ToSet(LeafChain(f, p)) \subseteq {q \in PageId : g.owner[q] = i}
  BY <1>1, <1>2, ScanOwned
<1>5. ASSUME NEW q \in TreePages(f, p) PROVE q \in 1 .. f[0].num_pages - 1 /\ Solid(f[q])
  <2>1. q \in Written(f, g, i) BY <1>3
  <2>2. q \in PageId /\ g.owner[q] # -1 /\ Solid(f[q]) BY <1>1, <2>1 DEF Written
  <2> QED BY <1>2, <2>2 DEF Sane
<1> QED BY <1>3, <1>4, <1>5 DEF Solid, Written

LEMMA RestartableStructureSafe ==
    ASSUME Restartable
    PROVE  StructureSafe
<1>1. PICK N, R, g : Firm(N, R, file, g) BY FileStored DEF Stored
<1> DEFINE root(n) == IF n = CatalogTree THEN file[HEADER_PAGE_ID].catalog_root
                      ELSE DiskDefs[n].root_page
           id(n) == IF n = CatalogTree THEN 0 ELSE DiskDefs[n].table_id
           trees == Tables(DiskDefs) \cup {CatalogTree}
           pages(n) == TreePages(file, root(n)) \cup ToSet(LeafChain(file, root(n)))
<1>2. ASSUME NEW n \in trees
      PROVE  /\ <<id(n), root(n)>> \in R
             /\ n # CatalogTree => id(n) # 0 /\ N[id(n)] = n
  <2>1. CASE n = CatalogTree
    BY <1>1, <2>1 DEF Firm, Numbered, HEADER_PAGE_ID
  <2>2. CASE n # CatalogTree
    <3>1. n \in Names /\ DiskDefs[n] # NoDef BY <2>2 DEF Tables
    <3> QED BY <1>1, <2>2, <3>1, DiskDefFacts
  <2> QED BY <2>1, <2>2
<1>3. \A m, n \in trees : m # n => id(m) # id(n)
  <2> SUFFICES ASSUME NEW m \in trees, NEW n \in trees, m # n PROVE id(m) # id(n) OBVIOUS
  <2>1. /\ m # CatalogTree => id(m) # 0 /\ N[id(m)] = m
        /\ n # CatalogTree => id(n) # 0 /\ N[id(n)] = n
    BY <1>2
  <2>2. /\ m = CatalogTree => id(m) = 0
        /\ n = CatalogTree => id(n) = 0
    OBVIOUS
  <2> HIDE DEF id, trees
  <2> QED BY <2>1, <2>2
<1>4. ASSUME NEW n \in trees
      PROVE  Descendable(root(n)) /\ \A q \in pages(n) : g.owner[q] = id(n)
  <2>1. <<id(n), root(n)>> \in R BY <1>2
  <2> HIDE DEF id, trees, root
  <2>2. /\ \A q \in TreePages(file, root(n)) : /\ q \in 1 .. file[0].num_pages - 1
                                               /\ file[q].type \in {"leaf", "internal"}
        /\ \A q \in TreePages(file, root(n)) \cup ToSet(LeafChain(file, root(n))) :
             g.owner[q] = id(n)
    BY <1>1, <2>1, TreeApart
  <2> QED BY <2>2 DEF Descendable, HEADER_PAGE_ID
<1>5. ASSUME NEW m \in trees, NEW n \in trees, m # n PROVE pages(m) \cap pages(n) = {}
  <2>1. id(m) # id(n) BY <1>3, <1>5
  <2>2. \A q \in pages(m) : g.owner[q] = id(m) BY <1>4
  <2>3. \A q \in pages(n) : g.owner[q] = id(n) BY <1>4
  <2> HIDE DEF id, pages, trees
  <2> QED BY <2>1, <2>2, <2>3
<1> QED BY <1>4, <1>5 DEF StructureSafe

\* The cache of a process has, for each table name, the definition of a table of
\* that name with a root in the file and row ids that the bound allows; between two
\* operations the header in memory is that of the file (pager.h flush_header after
\* each change of hdr_, catalog.h).
THEOREM EngineTypeCorrect == Spec => []TypeOK
<1>1. Restartable => TypeOK BY RestartableTypeOK
<1> QED BY <1>1, AlwaysRestartable, PTL

\* Between any two page writes, whatever crashes came before, a process that starts
\* finds trees it can descend and scan, and no page belongs to two of them
\* (btree.h, catalog.h, table.h: the order of their write_page calls).
THEOREM AlwaysStructureSafe == Spec => []StructureSafe
<1>1. Restartable => StructureSafe BY RestartableStructureSafe
<1> QED BY <1>1, AlwaysRestartable, PTL

-----------------------------------------------------------------------------
(* What is read of a tree depends on its pages only.                       *)

\* The pages of tree i.
Pages(g, i) == {q \in PageId : g.owner[q] = i}

\* The files f and f2 have the same on the pages of tree i.
Agree(f, f2, g, i) == \A q \in Pages(g, i) : f2[q] = f[q]

LEMMA PathSame ==
    ASSUME NEW E, NEW R, NEW f, NEW g, Sane(E, R, f, g), NEW i \in Nat, NEW k \in Int,
           NEW root \in Written(f, g, i), NEW f2, Grounded(f2), Agree(f, f2, g, i)
    PROVE  /\ FindPath(f2, root, k) = FindPath(f, root, k)
           /\ LeftmostPath(f2, root) = LeftmostPath(f, root)
<1> DEFINE own == Written(f, g, i)
           Good(q) == /\ FindPath(f2, q, k) = FindPath(f, q, k)
                      /\ LeftmostPath(f2, q) = LeftmostPath(f, q)
           T == {n \in Nat : \A q \in own : g.lvl[q] = n => Good(q)}
<1>1. Grounded(f)
  BY SaneEnds
<1>2. ASSUME NEW n \in Nat, \A m \in Nat : m < n => m \in T
      PROVE  n \in T
  <2> SUFFICES ASSUME NEW q \in own, g.lvl[q] = n
               PROVE  Good(q)
    OBVIOUS
  <2>1. /\ q \in PageId /\ g.lvl[q] \in Nat
        /\ FindPath(f, q, k) =
             IF f[q].type = "internal"
             THEN <<q>> \o FindPath(f, f[q].children[ChildIndex(f[q].keys, k)], k)
             ELSE <<q>>
        /\ LeftmostPath(f, q) =
             IF f[q].type = "internal"
             THEN <<q>> \o LeftmostPath(f, f[q].children[1]) ELSE <<q>>
    BY <1>1, WrittenFacts, FindPathStep, LeftmostPathStep
  <2>2. /\ FindPath(f2, q, k) =
             IF f2[q].type = "internal"
             THEN <<q>> \o FindPath(f2, f2[q].children[ChildIndex(f2[q].keys, k)], k)
             ELSE <<q>>
        /\ LeftmostPath(f2, q) =
             IF f2[q].type = "internal"
             THEN <<q>> \o LeftmostPath(f2, f2[q].children[1]) ELSE <<q>>
    BY <2>1, FindPathStep, LeftmostPathStep
  <2>3. f2[q] = f[q] BY DEF Agree, Pages, Written
  <2>4. CASE n = 0
    <3>1. f[q].type = "leaf"
      BY <2>4, WrittenFacts
    <3> QED
      BY <2>1, <2>2, <2>3, <3>1
  <2>5. CASE n # 0
    <3>1. /\ FitsInner(f, g, q, f[q]) /\ f[q].type = "internal"
          /\ Len(f[q].children) = Len(f[q].keys) + 1 /\ Len(f[q].keys) \in Nat
          /\ \A j \in 1 .. Len(f[q].children) :
               f[q].children[j] \in own /\ g.lvl[f[q].children[j]] = n - 1
      BY <2>5, WrittenFacts
    <3>2. f[q].keys \in Seq(Int)
      BY <3>1 DEF FitsInner, Points
    <3> DEFINE at == ChildIndex(f[q].keys, k)
    <3>3. at \in 1 .. Len(f[q].children) /\ 1 \in 1 .. Len(f[q].children)
      <4> HIDE DEF own
      <4>1. at \in 1 .. Len(f[q].keys) + 1
        BY <3>2, ChildIndexRange
      <4> HIDE DEF at
      <4> QED
        BY <3>1, <4>1
    <3>4. ASSUME NEW j \in 1 .. Len(f[q].children)
          PROVE  Good(f[q].children[j])
      <4>1. f[q].children[j] \in own /\ g.lvl[f[q].children[j]] = n - 1
        BY <3>1
      <4>2. n - 1 \in T
        BY <1>2, <2>5
      <4> QED
        BY <4>1, <4>2
    <3>5. Good(f[q].children[at]) /\ Good(f[q].children[1]) BY <3>3, <3>4
    <3> QED
      BY <2>1, <2>2, <2>3, <3>1, <3>5
  <2> QED
    BY <2>4, <2>5
<1>3. T = Nat
  <2> HIDE DEF T
  <2>1. T \in SUBSET Nat
    BY DEF T
  <2> QED
    BY <1>2, <2>1, AllNumbers
<1>4. g.lvl[root] \in Nat BY WrittenFacts
<1> QED
  BY <1>3, <1>4

LEMMA ScanSame ==
    ASSUME NEW E, NEW R, NEW f, NEW g, Sane(E, R, f, g), NEW i \in Nat,
           NEW root \in Written(f, g, i),
           NEW f2, Grounded(f2), Linked(f2), Readable(f2), Agree(f, f2, g, i)
    PROVE  /\ ScanEntries(f2, root) = ScanEntries(f, root)
           /\ \A k \in Int : Found(f2, root, k) = Found(f, root, k)
<1> DEFINE own == Pages(g, i)
           T == {n \in Nat : \A q \in own : g.ord[q] = n => EntriesFrom(f2, q) = EntriesFrom(f, q)}
<1>1. Linked(f) /\ Readable(f)
  BY SaneEnds
<1>2. g.top \in Nat /\ g.ord \in [PageId -> 0 .. g.top]
  BY DEF Sane, Ghosts
<1>3. ASSUME NEW n \in Nat, \A m \in Nat : m < n => m \in T
      PROVE  n \in T
  <2> SUFFICES ASSUME NEW q \in own, g.ord[q] = n
               PROVE  EntriesFrom(f2, q) = EntriesFrom(f, q)
    OBVIOUS
  <2>1. q \in PageId /\ g.owner[q] = i /\ f2[q] = f[q]
    BY DEF Pages, Agree
  <2>2. EntriesFrom(f, q) = IF NextOf(f[q]) = 0 THEN EntriesOf(f[q])
                            ELSE EntriesOf(f[q]) \o EntriesFrom(f, NextOf(f[q]))
    BY <1>1, <2>1, EntriesFromStep DEF Readable
  <2>3. EntriesFrom(f2, q) = IF NextOf(f2[q]) = 0 THEN EntriesOf(f2[q])
                             ELSE EntriesOf(f2[q]) \o EntriesFrom(f2, NextOf(f2[q]))
    BY <2>1, EntriesFromStep DEF Readable
  <2>4. CASE NextOf(f[q]) = 0
    BY <2>1, <2>2, <2>3, <2>4
  <2>5. CASE NextOf(f[q]) # 0
    <3>1. NextOf(f[q]) \in PageId /\ g.owner[NextOf(f[q])] = i /\ g.ord[NextOf(f[q])] < n
      BY <2>1, <2>5, OwnedEntries
    <3>2. g.ord[NextOf(f[q])] \in Nat
      BY <1>2, <3>1
    <3>3. g.ord[NextOf(f[q])] \in T
      BY <1>3, <3>1, <3>2
    <3>4. EntriesFrom(f2, NextOf(f[q])) = EntriesFrom(f, NextOf(f[q]))
      BY <3>1, <3>3 DEF Pages
    <3> QED BY <2>1, <2>2, <2>3, <2>5, <3>4
  <2> QED
    BY <2>4, <2>5
<1>4. T = Nat
  <2> HIDE DEF T
  <2>1. T \in SUBSET Nat
    BY DEF T
  <2> QED
    BY <1>3, <2>1, AllNumbers
<1>5. LeftmostLeaf(f, root) \in own
  <2>1. LeftmostLeaf(f, root) \in Written(f, g, i) BY 0 \in Int, LeafOwned
  <2> QED BY <2>1 DEF Written, Pages
<1>6. LeftmostLeaf(f2, root) = LeftmostLeaf(f, root)
  BY 0 \in Int, PathSame DEF LeftmostLeaf
<1>7. ScanEntries(f2, root) = ScanEntries(f, root)
  <2>1. g.ord[LeftmostLeaf(f, root)] \in Nat
    BY <1>2, <1>5 DEF Pages
  <2> QED
    BY <1>4, <1>5, <1>6, <2>1 DEF ScanEntries
<1>8. ASSUME NEW k \in Int PROVE Found(f2, root, k) = Found(f, root, k)
  <2>1. FindLeaf(f2, root, k) = FindLeaf(f, root, k) BY PathSame DEF FindLeaf
  <2>2. FindLeaf(f, root, k) \in Written(f, g, i) BY LeafOwned
  <2>3. FindLeaf(f, root, k) \in PageId /\ f2[FindLeaf(f, root, k)] = f[FindLeaf(f, root, k)]
    BY <2>2 DEF Written, Agree, Pages
  <2> QED BY <2>1, <2>3 DEF Found
<1> QED
  BY <1>7, <1>8

\* So do the rows a table shows and the definitions a process loads.
LEMMA RowsSame ==
    ASSUME NEW E, NEW R, NEW f, NEW g, Sane(E, R, f, g), Keyed(E), NEW i \in Nat,
           NEW root \in Written(f, g, i),
           NEW f2, Grounded(f2), Linked(f2), Readable(f2), Agree(f, f2, g, i)
    PROVE  RowsAt(f2, root) = RowsAt(f, root) /\ LoadDefs(f2, root) = LoadDefs(f, root)
<1>1. ScanEntries(f2, root) = ScanEntries(f, root) BY ScanSame
<1>2. \A k \in Int : Found(f2, root, k) = Found(f, root, k) BY ScanSame
<1>3. ScanEntries(f, root) \in Seq(E[i]) BY ScanOwned
<1>4. \A e \in ToSet(ScanEntries(f, root)) : e.key \in Int
  BY <1>3 DEF ToSet, Keyed
<1>5. RowsAt(f2, root) = RowsAt(f, root)
  BY <1>1, <1>2, <1>4 DEF RowsAt
<1>6. LoadDefs(f2, root) = LoadDefs(f, root) BY <1>1 DEF LoadDefs
<1> QED BY <1>5, <1>6

-----------------------------------------------------------------------------
(* Trees that no crash has torn.                                           *)

\* What the pages of tree i hold.
Rows(f, g, i) == Held(f, Pages(g, i))

\* Every page of tree i is in the tree below root.
Whole(f, g, i, root, V) ==
    \E rng, lvl, chain : Tree(Int, V, f, Pages(g, i), root, rng, lvl, chain)

\* The pages of tree i, as those of a tree in a store.
Ground(g, i, h) == [pages |-> Pages(g, i), from |-> h.num_pages]

LEMMA WholeStands ==
    ASSUME NEW E, NEW R, NEW s, NEW g, GoodStore(s), Sane(E, R, s.file, g), NEW i \in Nat,
           NEW root, NEW V, Whole(s.file, g, i, root, V)
    PROVE  /\ Own(Ground(g, i, s.hdr), s.hdr) = Pages(g, i)
           /\ \E rng, lvl, chain :
                Stands(Ground(g, i, s.hdr), Int, V, s, root, rng, lvl, chain)
<1> DEFINE base == Ground(g, i, s.hdr)
<1>1. base.pages = Pages(g, i) /\ base.from = s.hdr.num_pages
  BY DEF Ground
<1>2. s.hdr.num_pages \in Nat \ {0} /\ s.hdr = s.file[0]
  BY MaxPagesAssumption DEF GoodStore, GoodHeader, HEADER_PAGE_ID
<1>3. Pages(g, i) \subseteq 1 .. s.hdr.num_pages - 1
  BY <1>2 DEF Pages, Sane
<1>4. Own(base, s.hdr) = Pages(g, i)
  BY <1>1, <1>2 DEF Own
<1>5. Based(base, s.hdr)
  BY <1>1, <1>2, <1>3 DEF Based
<1>6. Grounded(s.file) /\ Linked(s.file) /\ Readable(s.file)
  BY SaneEnds
<1> HIDE DEF base
<1>7. PICK rng, lvl, chain : Tree(Int, V, s.file, Pages(g, i), root, rng, lvl, chain)
  BY DEF Whole
<1>8. Stands(base, Int, V, s, root, rng, lvl, chain)
  BY <1>4, <1>5, <1>6, <1>7 DEF Stands
<1> QED
  BY <1>4, <1>8 DEF base

\* What a file shows of such a tree.
Shows(f, root, rows, V) ==
    /\ ScanEntries(f, root) \in Seq([key : Int, value : V])
    /\ KeysAscend(ScanEntries(f, root)) /\ ToSet(ScanEntries(f, root)) = rows
    /\ \A k \in Int : Found(f, root, k) = FirstOf(ScanEntries(f, root), k)
    /\ \A e \in rows : e.key \in Int /\ Found(f, root, e.key) = <<e>> /\ e.value \in V
                       /\ e = Entry(e.key, e.value)
    /\ \A k \in Int : (\A e \in rows : e.key # k) => Found(f, root, k) = <<>>
    /\ RowsAt(f, root) = rows
    /\ \A d, e \in rows : d.key = e.key => d = e

LEMMA WholeShows ==
    ASSUME NEW E, NEW R, NEW f, NEW g, Sane(E, R, f, g), NEW i \in Nat,
           NEW root, NEW V, Whole(f, g, i, root, V)
    PROVE  Shows(f, root, Rows(f, g, i), V)
<1> DEFINE s == Store(f, f[0])
           base == Ground(g, i, s.hdr)
           rows == Rows(f, g, i)
<1>1. GoodStore(s) /\ s.file = f
  BY DEF Sane, GoodStore, Store, HEADER_PAGE_ID
<1> HIDE DEF s
<1>0. Sane(E, R, s.file, g) /\ Whole(s.file, g, i, root, V)
  BY <1>1
<1> HIDE DEF base
<1>2. /\ Own(base, s.hdr) = Pages(g, i)
      /\ \E rng, lvl, chain : Stands(base, Int, V, s, root, rng, lvl, chain)
  BY <1>0, <1>1, WholeStands DEF base
<1>11. PICK K : K = Int
  OBVIOUS
<1>3. PICK rng, lvl, chain : Stands(base, K, V, s, root, rng, lvl, chain)
  BY <1>2, <1>11
<1>4. /\ ScanEntries(f, root) \in Seq([key : Int, value : V])
      /\ KeysAscend(ScanEntries(f, root)) /\ ToSet(ScanEntries(f, root)) = rows
  <2>1. /\ ScanEntries(s.file, root) \in Seq([key : K, value : V])
        /\ KeysAscend(ScanEntries(s.file, root))
        /\ ToSet(ScanEntries(s.file, root)) = Held(s.file, Own(base, s.hdr))
    BY <1>3, ScanFacts
  <2> QED
    BY <2>1, <1>1, <1>2, <1>11 DEF Rows
<1>5. \A k \in Int : /\ Found(f, root, k) = FirstOf(ScanEntries(f, root), k)
                     /\ \A e \in rows : e.key = k => Found(f, root, k) = <<e>>
                     /\ (\A e \in rows : e.key # k) => Found(f, root, k) = <<>>
  <2>1. ASSUME NEW k \in K
        PROVE  /\ Found(s.file, root, k) = FirstOf(ScanEntries(s.file, root), k)
               /\ \A e \in Held(s.file, Own(base, s.hdr)) : e.key = k => Found(s.file, root, k) = <<e>>
               /\ (\A e \in Held(s.file, Own(base, s.hdr)) : e.key # k) => Found(s.file, root, k) = <<>>
    BY <1>3, FoundFacts
  <2> QED
    BY <2>1, <1>1, <1>2, <1>11 DEF Rows
<1>6. \A e \in rows : e \in [key : Int, value : V]
  <2> DEFINE seen == ScanEntries(f, root)
  <2>1. \A j \in DOMAIN seen : seen[j] \in [key : Int, value : V]
    <3>1. seen \in Seq([key : Int, value : V])
      BY <1>4
    <3> HIDE DEF seen
    <3>2. \A S : seen \in Seq(S) => \A j \in DOMAIN seen : seen[j] \in S
      OBVIOUS
    <3> QED
      BY <3>1, <3>2
  <2>2. rows = {seen[j] : j \in DOMAIN seen}
    BY <1>4 DEF ToSet
  <2> QED
    BY <2>1, <2>2
<1>7. \A e \in rows : e.key \in Int /\ e.value \in V /\ e = Entry(e.key, e.value)
  BY <1>6 DEF Entry
<1>8. RowsAt(f, root) = rows
  BY <1>4, <1>5, <1>7 DEF RowsAt
<1>9. \A d, e \in rows : d.key = e.key => d = e
  <2> SUFFICES ASSUME NEW d \in rows, NEW e \in rows, d.key = e.key
               PROVE  d = e
    OBVIOUS
  <2>1. Found(f, root, e.key) = <<e>> /\ Found(f, root, e.key) = <<d>>
    BY <1>5, <1>7
  <2>2. <<e>>[1] = e /\ <<d>>[1] = d
    OBVIOUS
  <2> QED
    BY <2>1, <2>2
<1> HIDE DEF rows
<1>10. Shows(f, root, rows, V)
  BY <1>4, <1>5, <1>7, <1>8, <1>9 DEF Shows
<1> QED
  BY <1>10 DEF rows

\* A tree is whole in every file that has the same on its pages.
LEMMA WholeSame ==
    ASSUME NEW f, NEW g, NEW f2, NEW g2, NEW i, Pages(g2, i) = Pages(g, i), Agree(f, f2, g, i)
    PROVE  /\ Rows(f2, g2, i) = Rows(f, g, i)
           /\ \A root, V : Whole(f, g, i, root, V) => Whole(f2, g2, i, root, V)
<1>1. \A q \in Pages(g, i) : f2[q] = f[q]
  BY DEF Agree
<1>2. Rows(f2, g2, i) = Rows(f, g, i)
  BY <1>1 DEF Rows, Held
<1>3. ASSUME NEW root, NEW V, Whole(f, g, i, root, V)
      PROVE  Whole(f2, g2, i, root, V)
  <2> DEFINE own == Pages(g, i)
  <2>1. PICK rng, lvl, chain : Tree(Int, V, f, own, root, rng, lvl, chain)
    BY <1>3 DEF Whole
  <2> HIDE DEF own
  <2>2. \A q \in own : f2[q] = f[q]
    BY <1>1 DEF own
  <2>3. /\ Typed(Int, own, root, rng, rng, lvl)
        /\ \A p \in own : PageOK(Int, V, own, rng, rng, lvl, p, f[p])
        /\ Apart(own, rng, lvl)
        /\ Parented(f, own, {root}, lvl)
        /\ Chained(f, own, rng, lvl, chain)
    BY <2>1 DEF Tree, Forest
  <2>4. \A p \in own : PageOK(Int, V, own, rng, rng, lvl, p, f2[p])
    BY <2>2, <2>3
  <2>5. Parented(f2, own, {root}, lvl)
    BY <2>2, <2>3 DEF Parented
  <2>6. \A j \in 1 .. Len(chain) : chain[j] \in own
    BY <2>3 DEF Chained
  <2>7. Chained(f2, own, rng, lvl, chain)
    BY <2>2, <2>3, <2>6 DEF Chained
  <2>8. Tree(Int, V, f2, own, root, rng, lvl, chain)
    BY <2>3, <2>4, <2>5, <2>7 DEF Tree, Forest
  <2> QED
    BY <2>8 DEF Whole, own
<1> QED
  BY <1>2, <1>3

\* The pages that an operation on tree i gives it.
LEMMA OnwardPages ==
    ASSUME NEW E, NEW R, NEW s, NEW g, NEW i, Sane(E, R, s.file, g), NEW t, NEW g2,
           Onward(E, R, s, g, i, t, g2)
    PROVE  /\ Own(Ground(g, i, s.hdr), t.hdr) = Pages(g2, i)
           /\ \A j \in Nat \ {i} : Pages(g2, j) = Pages(g, j) /\ Agree(s.file, t.file, g, j)
<1>1. /\ GoodStore(s) /\ GoodStore(t) /\ i \in Nat /\ s.hdr.num_pages <= t.hdr.num_pages
      /\ \A q \in PageId :
           /\ g2.owner[q] = IF q \in s.hdr.num_pages .. t.hdr.num_pages - 1 THEN i ELSE g.owner[q]
           /\ q # 0 /\ g2.owner[q] # i => t.file[q] = s.file[q]
  BY DEF Onward, Counts
<1>2. s.hdr = s.file[0] /\ s.hdr.num_pages \in Nat /\ t.hdr.num_pages \in 1 .. MaxPages /\ MaxPages \in Nat
  BY <1>1, MaxPagesAssumption DEF GoodStore, GoodHeader, HEADER_PAGE_ID
<1>3. \A q \in PageId : q >= s.hdr.num_pages => g.owner[q] = -1
  BY <1>2, OwnedPages
<1>4. g.owner[0] = -1 /\ 0 \in PageId
  BY OwnedPages
<1>5. \A q : q \in s.hdr.num_pages .. t.hdr.num_pages - 1 => q \in PageId
  BY <1>2 DEF PageId
<1>6. Own(Ground(g, i, s.hdr), t.hdr) = Pages(g, i) \cup (s.hdr.num_pages .. t.hdr.num_pages - 1)
  BY DEF Own, Ground
<1>7. Pages(g2, i) = Pages(g, i) \cup (s.hdr.num_pages .. t.hdr.num_pages - 1)
  BY <1>1, <1>5 DEF Pages
<1>8. ASSUME NEW j \in Nat \ {i}
      PROVE  Pages(g2, j) = Pages(g, j) /\ Agree(s.file, t.file, g, j)
  <2>1. \A q \in PageId : q \in s.hdr.num_pages .. t.hdr.num_pages - 1 => g.owner[q] = -1
    BY <1>2, <1>3
  <2>2. \A q \in PageId : g2.owner[q] = j <=> g.owner[q] = j
    BY <1>1, <2>1, <1>8
  <2>3. Pages(g2, j) = Pages(g, j)
    BY <2>2 DEF Pages
  <2>4. \A q \in PageId : g.owner[q] = j => q # 0 /\ g2.owner[q] # i
    BY <1>4, <2>2, <1>8
  <2> QED
    BY <1>1, <2>3, <2>4 DEF Agree, Pages
<1> QED
  BY <1>6, <1>7, <1>8

\* A whole tree takes the entry unless it has one with that key.
Takes(E, R, s, g, i, V, k, v, r) ==
    /\ r.ok = TRUE <=> \A e \in Rows(s.file, g, i) : e.key # k
    /\ \A g2 : r.ok = TRUE /\ Onward(E, R, s, g, i, r.store, g2) =>
         /\ Whole(r.store.file, g2, i, r.root, V)
         /\ Rows(r.store.file, g2, i) = Rows(s.file, g, i) \cup {Entry(k, v)}

\* An insert of a new key into a whole tree leaves a whole tree.
LEMMA WholeInsert ==
    ASSUME NEW E, NEW R, NEW s, NEW g, NEW i, Begins(E, R, s, g, i),
           NEW root \in Written(s.file, g, i), NEW V, Whole(s.file, g, i, root, V),
           NEW k \in Int, NEW v \in V, NEW r, r = Insert(s, root, k, v),
           s.hdr.num_pages + g.lvl[root] + 2 <= MaxPages
    PROVE  Takes(E, R, s, g, i, V, k, v, r)
<1> DEFINE base == Ground(g, i, s.hdr)
<1>1. GoodStore(s) /\ i \in Nat /\ Keyed(E) /\ Sane(E, R, s.file, g)
  BY DEF Begins
<1> HIDE DEF base
<1>2. /\ Own(base, s.hdr) = Pages(g, i)
      /\ \E rng, lvl, chain : Stands(base, Int, V, s, root, rng, lvl, chain)
  BY <1>1, WholeStands DEF base
<1>3. PICK K : K = Int
  OBVIOUS
<1>4. PICK rng, lvl, chain : Stands(base, K, V, s, root, rng, lvl, chain)
  BY <1>2, <1>3
<1>5. Held(s.file, Own(base, s.hdr)) = Rows(s.file, g, i)
  BY <1>2 DEF Rows
<1>6. Len(FindPath(s.file, root, k)) = g.lvl[root] + 1 /\ g.lvl[root] \in Nat
  <2>1. DownFrom(Written(s.file, g, i), g.lvl, root, FindPath(s.file, root, k))
    BY <1>1, PathOwned
  <2> QED
    BY <1>1, <2>1, WrittenFacts DEF DownFrom
<1>7. s.hdr.num_pages \in Nat /\ MaxPages \in Nat
  BY <1>1, MaxPagesAssumption DEF GoodStore, GoodHeader
<1>8. s.hdr.num_pages + Len(FindPath(s.file, root, k)) + 1 <= MaxPages
  BY <1>6, <1>7
<1>9. ASSUME \E e \in Rows(s.file, g, i) : e.key = k
      PROVE  ~ (r.ok = TRUE)
  <2>1. PICK e \in Rows(s.file, g, i) : e.key = k
    BY <1>9
  <2>2. Found(s.file, root, k) = <<e>>
    <3>1. Shows(s.file, root, Rows(s.file, g, i), V)
      BY <1>1, WholeShows
    <3> QED
      BY <2>1, <3>1 DEF Shows
  <2>3. Found(s.file, root, k) # <<>>
    BY <2>2
  <2>4. r = [ok |-> FALSE, root |-> root, store |-> s]
    BY <2>3 DEF Insert
  <2> QED
    BY <2>4
<1>10. ASSUME \A e \in Rows(s.file, g, i) : e.key # k
       PROVE  /\ r.ok = TRUE
              /\ Holds(base, K, V, r.store, r.root, Rows(s.file, g, i) \cup {Entry(k, v)})
  <2>1. \A x \in Held(s.file, Own(base, s.hdr)) : x.key # k
    BY <1>5, <1>10
  <2>2. k \in K
    BY <1>3
  <2>3. /\ Insert(s, root, k, v).ok = TRUE
        /\ Holds(base, K, V, Insert(s, root, k, v).store, Insert(s, root, k, v).root,
                    Held(s.file, Own(base, s.hdr)) \cup {Entry(k, v)})
    BY <1>4, <1>8, <2>1, <2>2, InsertFacts
  <2> QED
    BY <2>3, <1>5
<1>11. ASSUME NEW g2, r.ok = TRUE, Onward(E, R, s, g, i, r.store, g2)
       PROVE  /\ Whole(r.store.file, g2, i, r.root, V)
              /\ Rows(r.store.file, g2, i) = Rows(s.file, g, i) \cup {Entry(k, v)}
  <2>1. Own(base, r.store.hdr) = Pages(g2, i)
    BY <1>1, <1>11, OnwardPages DEF base
  <2>2. Holds(base, K, V, r.store, r.root, Rows(s.file, g, i) \cup {Entry(k, v)})
    BY <1>9, <1>10, <1>11
  <2> QED
    BY <2>1, <2>2, <1>3 DEF Holds, Whole, Rows
<1> QED
  BY <1>9, <1>10, <1>11 DEF Takes

\* An operation rewrites one leaf of a whole tree, which then holds these entries.
Rewrites(E, R, s, g, i, root, V, u, held) ==
    /\ u.ok = TRUE /\ OneWrite(s, u.store) /\ Onward(E, R, s, g, i, u.store, g)
    /\ u.store.hdr = s.hdr
    /\ Whole(u.store.file, g, i, root, V) /\ Rows(u.store.file, g, i) = held

LEMMA WholeDone ==
    ASSUME NEW E, NEW R, NEW s, NEW g, NEW i, Begins(E, R, s, g, i),
           NEW root, NEW V, NEW K, K = Int, NEW u, SafeRewrite(E, R, s, g, i, u), NEW held,
           Done(Ground(g, i, s.hdr), K, V, s, root, u, held)
    PROVE  Rewrites(E, R, s, g, i, root, V, u, held)
<1> DEFINE base == Ground(g, i, s.hdr)
<1> HIDE DEF base
<1>1. /\ u.ok = TRUE /\ u.store.hdr = s.hdr
      /\ Holds(base, K, V, u.store, root, held)
  BY DEF Done, base
<1>2. OneWrite(s, u.store) /\ Onward(E, R, s, g, i, u.store, g)
  BY <1>1 DEF SafeRewrite
<1>3. Sane(E, R, s.file, g)
  BY DEF Begins
<1>4. Own(base, u.store.hdr) = Pages(g, i)
  BY <1>2, <1>3, OnwardPages DEF base
<1> QED
  BY <1>1, <1>2, <1>4 DEF Holds, Whole, Rows, Rewrites

\* What is left of rows when the one with the key k is rewritten or removed.
LEMMA WholeUpdate ==
    ASSUME NEW E, NEW R, NEW s, NEW g, NEW i, Begins(E, R, s, g, i),
           NEW root \in Written(s.file, g, i), NEW V, Whole(s.file, g, i, root, V),
           NEW k \in Int, NEW v \in V, Entry(k, v) \in E[i], NEW u, u = Update(s, root, k, v)
    PROVE  IF HasKey(Rows(s.file, g, i), k)
           THEN Rewrites(E, R, s, g, i, root, V, u, Others(Rows(s.file, g, i), k) \cup {Entry(k, v)})
           ELSE Refused(s, u)
<1> DEFINE base == Ground(g, i, s.hdr)
<1>1. GoodStore(s) /\ i \in Nat /\ Keyed(E) /\ Sane(E, R, s.file, g)
  BY DEF Begins
<1> HIDE DEF base
<1>2. /\ Own(base, s.hdr) = Pages(g, i)
      /\ \E rng, lvl, chain : Stands(base, Int, V, s, root, rng, lvl, chain)
  BY <1>1, WholeStands DEF base
<1>3. PICK K : K = Int
  OBVIOUS
<1>4. PICK rng, lvl, chain : Stands(base, K, V, s, root, rng, lvl, chain)
  BY <1>2, <1>3
<1>5. PICK held : held = Held(s.file, Own(base, s.hdr))
  OBVIOUS
<1>6. held = Rows(s.file, g, i)
  BY <1>2, <1>5 DEF Rows
<1>7. SafeRewrite(E, R, s, g, i, u)
  BY UpdateSteps
<1>8. k \in K
  BY <1>3
<1>9. /\ HasKey(held, k) => Done(base, K, V, s, root, u, Others(held, k) \cup {Entry(k, v)})
      /\ ~HasKey(held, k) => Refused(s, u)
  BY <1>4, <1>5, <1>8, UpdateFacts
<1>10. PICK left : left = Others(held, k) \cup {Entry(k, v)}
  OBVIOUS
<1>11. CASE HasKey(held, k)
  <2>1. Done(Ground(g, i, s.hdr), K, V, s, root, u, left)
    BY <1>9, <1>10, <1>11 DEF base
  <2>2. Rewrites(E, R, s, g, i, root, V, u, left)
    BY <1>3, <1>7, <2>1, WholeDone
  <2> QED
    BY <1>6, <1>10, <1>11, <2>2
<1>12. CASE ~HasKey(held, k)
  BY <1>6, <1>9, <1>12
<1> QED
  BY <1>11, <1>12

LEMMA WholeRemove ==
    ASSUME NEW E, NEW R, NEW s, NEW g, NEW i, Begins(E, R, s, g, i),
           NEW root \in Written(s.file, g, i), NEW V, Whole(s.file, g, i, root, V),
           NEW k \in Int, NEW u, u = RemoveKey(s, root, k)
    PROVE  IF HasKey(Rows(s.file, g, i), k)
           THEN Rewrites(E, R, s, g, i, root, V, u, Others(Rows(s.file, g, i), k))
           ELSE Refused(s, u)
<1> DEFINE base == Ground(g, i, s.hdr)
<1>1. GoodStore(s) /\ i \in Nat /\ Keyed(E) /\ Sane(E, R, s.file, g)
  BY DEF Begins
<1> HIDE DEF base
<1>2. /\ Own(base, s.hdr) = Pages(g, i)
      /\ \E rng, lvl, chain : Stands(base, Int, V, s, root, rng, lvl, chain)
  BY <1>1, WholeStands DEF base
<1>3. PICK K : K = Int
  OBVIOUS
<1>4. PICK rng, lvl, chain : Stands(base, K, V, s, root, rng, lvl, chain)
  BY <1>2, <1>3
<1>5. PICK held : held = Held(s.file, Own(base, s.hdr))
  OBVIOUS
<1>6. held = Rows(s.file, g, i)
  BY <1>2, <1>5 DEF Rows
<1>7. SafeRewrite(E, R, s, g, i, u)
  BY RemoveSteps
<1>8. k \in K
  BY <1>3
<1>9. /\ HasKey(held, k) => Done(base, K, V, s, root, u, Others(held, k))
      /\ ~HasKey(held, k) => Refused(s, u)
  BY <1>4, <1>5, <1>8, RemoveFacts
<1>10. PICK left : left = Others(held, k)
  OBVIOUS
<1>11. CASE HasKey(held, k)
  <2>1. Done(Ground(g, i, s.hdr), K, V, s, root, u, left)
    BY <1>9, <1>10, <1>11 DEF base
  <2>2. Rewrites(E, R, s, g, i, root, V, u, left)
    BY <1>3, <1>7, <2>1, WholeDone
  <2> QED
    BY <1>6, <1>10, <1>11, <2>2
<1>12. CASE ~HasKey(held, k)
  BY <1>6, <1>9, <1>12
<1> QED
  BY <1>11, <1>12

\* A tree of one empty leaf.
LEMMA WholeEmpty ==
    ASSUME NEW f, NEW g, NEW i, NEW p \in PageId \ {0}, Pages(g, i) = {p}, f[p] = Leaf(<<>>, 0),
           NEW V
    PROVE  Whole(f, g, i, p, V) /\ Rows(f, g, i) = {}
<1> DEFINE rng == [q \in PageId |-> IF q = p THEN Int ELSE {}]
           lvl == [q \in PageId |-> 0]
           chain == <<p>>
           own == Pages(g, i)
<1>1. Leaf(<<>>, 0).entries = <<>> /\ Leaf(<<>>, 0).next = 0 /\ Leaf(<<>>, 0).type = "leaf"
  BY DEF Leaf
<1>2. LeafOK(Int, V, f[p])
  <2>1. <<>> \in Seq([key : Int, value : V]) /\ Len(<<>>) = 0
    BY EmptySeq
  <2>2. KeysAscend(<<>>)
    BY <2>1 DEF KeysAscend
  <2>3. f[p] = Leaf(f[p].entries, f[p].next) /\ f[p].entries = <<>>
    BY <1>1
  <2>4. Len(f[p].entries) <= MAX_LEAF_SLOTS
    BY <2>1, <2>3, FanoutAssumption
  <2> QED
    BY <2>1, <2>2, <2>3, <2>4 DEF LeafOK
<1>3. rng[p] = Int /\ lvl[p] = 0 /\ Int # {}
  BY 0 \in Int
<1>4. Typed(Int, own, p, rng, rng, lvl)
  <2>1. rng \in [PageId -> SUBSET Int]
    OBVIOUS
  <2>2. lvl \in [PageId -> Nat] /\ \A q \in PageId : lvl[q] <= lvl[p]
    OBVIOUS
  <2> QED
    BY <1>3, <2>1, <2>2 DEF Typed
<1> HIDE DEF rng, lvl
<1>5. \A q \in own : PageOK(Int, V, own, rng, rng, lvl, q, f[q])
  BY <1>2, <1>3 DEF PageOK
<1>6. Apart(own, rng, lvl) /\ Parented(f, own, {p}, lvl)
  BY DEF Apart, Parented
<1>7. Chained(f, own, rng, lvl, chain)
  <2>1. chain \in Seq(own) /\ Len(chain) = 1 /\ chain[1] = p
    OBVIOUS
  <2>2. f[p].next = 0
    BY <1>1
  <2> HIDE DEF chain
  <2> QED
    BY <1>3, <2>1, <2>2 DEF Chained
<1>8. Tree(Int, V, f, own, p, rng, lvl, chain)
  BY <1>4, <1>5, <1>6, <1>7 DEF Tree, Forest
<1>9. Rows(f, g, i) = {}
  <2>1. EntriesOf(f[p]) = <<>>
    BY <1>1 DEF EntriesOf
  <2>2. ToSet(<<>>) = {}
    BY DEF ToSet
  <2> QED
    BY <2>1, <2>2 DEF Rows, Held
<1> QED
  BY <1>8, <1>9 DEF Whole

-----------------------------------------------------------------------------
(* A file whose catalog no crash has torn.                                 *)

DefRecords ==
    [table_id : 1 .. MaxTableId, name : Names, root_page : PageId \ {0}, next_rowid : Nat]

OneName(rows) == \A d, e \in rows : d.value.name = e.value.name => d = e

\* The table of the catalog's entry e: its tree is whole, and its row id counter
\* lags behind its rows by one at most.
SoundTable(f, g, e) ==
    /\ Whole(f, g, e.key, e.value.root_page, Values)
    /\ \A x \in Rows(f, g, e.key) : x.key <= e.value.next_rowid

\* The catalog is whole, and so are the tables it has, but for those in B.
Intact(f, g, B) ==
    /\ Whole(f, g, 0, f[0].catalog_root, DefRecords)
    /\ OneName(Rows(f, g, 0))
    /\ \A e \in Rows(f, g, 0) : e.value.name \notin B => SoundTable(f, g, e)

LEMMA FirmFacts ==
    ASSUME NEW N, NEW R, NEW f, NEW g, Firm(N, R, f, g)
    PROVE  /\ Sane(Ents(N, R), R, f, g) /\ Keyed(Ents(N, R))
           /\ Grounded(f) /\ Linked(f) /\ Readable(f)
           /\ f[0].catalog_root \in Written(f, g, 0)
           /\ Rows(f, g, 0) \subseteq CatEntries(N, R)
<1>1. Sane(Ents(N, R), R, f, g) /\ Keyed(Ents(N, R)) /\ <<0, f[0].catalog_root>> \in R
  BY EntsFacts DEF Firm, Numbered
<1>2. Grounded(f) /\ Linked(f) /\ Readable(f)
  BY <1>1, SaneEnds
<1>3. f[0].catalog_root \in Written(f, g, 0)
  BY <1>1, RootFacts
<1>4. ASSUME NEW q \in Pages(g, 0)
      PROVE  ToSet(EntriesOf(f[q])) \subseteq CatEntries(N, R)
  <2>1. EntriesOf(f[q]) \in Seq(Ents(N, R)[0])
    BY <1>1, <1>4, OwnedEntries DEF Pages
  <2>2. EntriesOf(f[q]) \in Seq(CatEntries(N, R))
    BY <2>1, EntsFacts
  <2>3. \A S, w : w \in Seq(S) => \A j \in DOMAIN w : w[j] \in S
    OBVIOUS
  <2>4. \A j \in DOMAIN EntriesOf(f[q]) : EntriesOf(f[q])[j] \in CatEntries(N, R)
    BY <2>2, <2>3
  <2> QED
    BY <2>4 DEF ToSet
<1>5. Rows(f, g, 0) \subseteq CatEntries(N, R)
  BY <1>4 DEF Rows, Held
<1> QED
  BY <1>1, <1>2, <1>3, <1>5

\* An entry of the catalog.
LEMMA CatEntryFacts ==
    ASSUME NEW N, NEW R, NEW e \in CatEntries(N, R)
    PROVE  /\ e = Entry(e.key, e.value) /\ e.key = e.value.table_id
           /\ e.key \in 1 .. MaxTableId /\ e.key \in Nat \ {0}
           /\ e.value \in DefRecords /\ e.value.name = N[e.key]
           /\ e.value.next_rowid \in Nat /\ e.value.next_rowid <= MaxRowid[e.value.name] + 1
           /\ <<e.key, e.value.root_page>> \in R
           /\ e.value # NoDef
<1>1. /\ e \in [key : 1 .. MaxTableId,
            value : [table_id : 1 .. MaxTableId, name : Names,
                     root_page : PageId \ {0}, next_rowid : Nat]]
      /\ e.value.table_id = e.key /\ e.value.name = N[e.key]
      /\ e.value.next_rowid \in 1 .. MaxRowid[e.value.name] + 1
      /\ <<e.key, e.value.root_page>> \in R
  BY DEF CatEntries
<1>2. e = Entry(e.key, e.value) /\ e.value \in DefRecords
  BY <1>1 DEF Entry, DefRecords
<1>3. MaxTableId \in Nat /\ MaxRowid[e.value.name] \in Nat
  BY <1>1, EngineAssumption
<1>4. NoDef.table_id = 0
  BY DEF NoDef
<1> QED
  BY <1>1, <1>2, <1>3, <1>4

-----------------------------------------------------------------------------
(* What a process loads from it.                                           *)

\* The definitions D are those of these entries of the catalog.
Lists(rows, D) ==
    /\ D = [n \in Names |-> D[n]]
    /\ \A n \in Names :
         IF D[n] = NoDef THEN \A e \in rows : e.value.name # n
         ELSE D[n].name = n /\ Entry(D[n].table_id, D[n]) \in rows

LEMMA LoadedLists ==
    ASSUME NEW N, NEW R, NEW f, NEW g, Firm(N, R, f, g), NEW B, Intact(f, g, B)
    PROVE  Lists(Rows(f, g, 0), LoadDefs(f, f[0].catalog_root))
<1> DEFINE root == f[0].catalog_root
           D == LoadDefs(f, root)
           seen == ScanEntries(f, root)
           rows == Rows(f, g, 0)
<1>1. Sane(Ents(N, R), R, f, g) /\ rows \subseteq CatEntries(N, R)
  BY FirmFacts
<1>2. Whole(f, g, 0, root, DefRecords)
  BY DEF Intact
<1>3. Shows(f, root, rows, DefRecords)
  BY <1>1, <1>2, WholeShows
<1>4. /\ D = [n \in Names |-> D[n]]
      /\ \A n \in Names : D[n] = DefIn(seen, n)
  BY LoadDefsIs
<1> HIDE DEF D, rows, root
<1>5. seen \in Seq([key : Int, value : DefRecords]) /\ ToSet(seen) = rows
  BY <1>3 DEF Shows
<1> HIDE DEF seen
<1>6. DOMAIN seen = 1 .. Len(seen) /\ \A e : e \in rows <=> \E j \in 1 .. Len(seen) : e = seen[j]
  <2>1. DOMAIN seen = 1 .. Len(seen)
    BY <1>5
  <2> QED
    BY <1>5, <2>1 DEF ToSet
<1>7. ASSUME NEW n \in Names
      PROVE  IF D[n] = NoDef THEN \A e \in rows : e.value.name # n
             ELSE D[n].name = n /\ Entry(D[n].table_id, D[n]) \in rows
  <2>1. CASE /\ DefIn(seen, n) = NoDef
             /\ \A j \in 1 .. Len(seen) : seen[j].value.name # n
    BY <1>4, <1>6, <2>1
  <2>2. CASE \E i \in 1 .. Len(seen) :
                /\ seen[i].value.name = n /\ DefIn(seen, n) = seen[i].value
    <3>1. PICK i \in 1 .. Len(seen) : seen[i].value.name = n /\ D[n] = seen[i].value
      BY <1>4, <2>2
    <3>2. seen[i] \in rows /\ seen[i] \in CatEntries(N, R)
      BY <1>1, <1>6, <3>1
    <3>3. /\ seen[i] = Entry(seen[i].key, seen[i].value)
          /\ seen[i].key = seen[i].value.table_id /\ seen[i].value # NoDef
      <4>1. PICK e : e = seen[i]
        OBVIOUS
      <4>2. e \in CatEntries(N, R)
        BY <3>2, <4>1
      <4>3. e = Entry(e.key, e.value) /\ e.key = e.value.table_id /\ e.value # NoDef
        BY <4>2, CatEntryFacts
      <4> QED
        BY <4>1, <4>3
    <3>4. seen[i] = Entry(D[n].table_id, D[n]) /\ D[n] # NoDef
      BY <3>1, <3>3
    <3> QED
      BY <3>1, <3>2, <3>4
  <2> QED
    BY <1>5, <2>1, <2>2, DefInFacts
<1> QED
  BY <1>4, <1>7 DEF Lists, D, rows, root

\* They are determined by the entries.
LEMMA ListsOne ==
    ASSUME NEW rows, OneName(rows), \A e \in rows : e.value # NoDef,
           NEW D, Lists(rows, D), NEW D2, Lists(rows, D2)
    PROVE  D = D2
<1>1. \A k, d : Entry(k, d).value = d
  BY DEF Entry
<1>2. ASSUME NEW n \in Names
      PROVE  D[n] = D2[n]
  <2>1. CASE D[n] = NoDef /\ D2[n] = NoDef
    BY <2>1
  <2>2. CASE D[n] = NoDef /\ D2[n] # NoDef
    BY <1>1, <2>2 DEF Lists
  <2>3. CASE D[n] # NoDef /\ D2[n] = NoDef
    BY <1>1, <2>3 DEF Lists
  <2>4. CASE D[n] # NoDef /\ D2[n] # NoDef
    <3>1. /\ Entry(D[n].table_id, D[n]) \in rows /\ Entry(D[n].table_id, D[n]).value = D[n]
          /\ Entry(D2[n].table_id, D2[n]) \in rows /\ Entry(D2[n].table_id, D2[n]).value = D2[n]
          /\ D[n].name = D2[n].name
      BY <1>1, <2>4 DEF Lists
    <3>2. Entry(D[n].table_id, D[n]) = Entry(D2[n].table_id, D2[n])
      BY <3>1 DEF OneName
    <3> QED
      BY <3>1, <3>2
  <2> QED
    BY <2>1, <2>2, <2>3, <2>4
<1>3. D = [n \in Names |-> D[n]] /\ D2 = [n \in Names |-> D2[n]]
  BY DEF Lists
<1> QED
  BY <1>2, <1>3

\* The entry of the name n is replaced, removed or added.
LEMMA ListsSet ==
    ASSUME NEW rows, OneName(rows), \A d, e \in rows : d.key = e.key => d = e,
           \A e \in rows : e.key = e.value.table_id,
           NEW D, Lists(rows, D), NEW n \in Names, D[n] # NoDef,
           NEW def, def.table_id = D[n].table_id, def.name = n, def # NoDef,
           NEW rows2, rows2 = Others(rows, D[n].table_id) \cup {Entry(D[n].table_id, def)},
           NEW D2, D2 = [D EXCEPT ![n] = def]
    PROVE  OneName(rows2) /\ Lists(rows2, D2)
<1> DEFINE id == D[n].table_id
           old == Entry(id, D[n])
           new == Entry(id, def)
<1>1. old \in rows /\ old.key = id /\ old.value = D[n] /\ old.value.name = n
  BY DEF Lists, Entry
<1>2. new.key = id /\ new.value = def /\ new.value.name = n
  BY DEF Entry
<1> HIDE DEF old, new
<1>3. \A e : e \in rows2 <=> e = new \/ (e \in rows /\ e.key # id)
  BY DEF Others, new
<1>4. \A e \in rows : e.value.name = n => e = old
  BY <1>1 DEF OneName
<1>5. \A e \in rows : e.key # id => e.value.name # n
  BY <1>1, <1>4
<1>6. OneName(rows2)
  BY <1>2, <1>3, <1>5 DEF OneName
<1>7. D2 = [m \in Names |-> D2[m]] /\ D2[n] = def /\ \A m \in Names \ {n} : D2[m] = D[m]
  BY DEF Lists
<1>8. ASSUME NEW m \in Names
      PROVE  IF D2[m] = NoDef THEN \A e \in rows2 : e.value.name # m
             ELSE D2[m].name = m /\ Entry(D2[m].table_id, D2[m]) \in rows2
  <2>1. CASE m = n
    <3>1. D2[m] = def /\ Entry(D2[m].table_id, D2[m]) = new
      BY <1>7, <2>1 DEF new
    <3> QED
      BY <1>3, <3>1, <2>1
  <2>2. CASE m # n /\ D[m] = NoDef
    <3>1. \A e \in rows : e.value.name # m
      BY <2>2 DEF Lists
    <3> QED
      BY <1>2, <1>3, <1>7, <2>2, <3>1
  <2>3. CASE m # n /\ D[m] # NoDef
    <3>1. /\ D[m].name = m /\ Entry(D[m].table_id, D[m]) \in rows
          /\ Entry(D[m].table_id, D[m]).value = D[m]
      BY <2>3 DEF Lists, Entry
    <3>2. Entry(D[m].table_id, D[m]).key # id
      BY <1>1, <3>1, <2>3
    <3> QED
      BY <1>3, <1>7, <2>3, <3>1, <3>2
  <2> QED
    BY <2>1, <2>2, <2>3
<1> QED
  BY <1>6, <1>7, <1>8 DEF Lists

LEMMA ListsRemove ==
    ASSUME NEW rows, OneName(rows), \A d, e \in rows : d.key = e.key => d = e,
           \A e \in rows : e.key = e.value.table_id,
           NEW D, Lists(rows, D), NEW n \in Names, D[n] # NoDef,
           NEW rows2, rows2 = Others(rows, D[n].table_id),
           NEW D2, D2 = [D EXCEPT ![n] = NoDef]
    PROVE  OneName(rows2) /\ Lists(rows2, D2)
<1> DEFINE id == D[n].table_id
           old == Entry(id, D[n])
<1>1. old \in rows /\ old.key = id /\ old.value = D[n] /\ old.value.name = n
  BY DEF Lists, Entry
<1> HIDE DEF old
<1>3. \A e : e \in rows2 <=> e \in rows /\ e.key # id
  BY DEF Others
<1>4. \A e \in rows : e.value.name = n => e = old
  BY <1>1 DEF OneName
<1>5. \A e \in rows : e.key # id => e.value.name # n
  BY <1>1, <1>4
<1>6. OneName(rows2)
  BY <1>3 DEF OneName
<1>7. D2 = [m \in Names |-> D2[m]] /\ D2[n] = NoDef /\ \A m \in Names \ {n} : D2[m] = D[m]
  BY DEF Lists
<1>8. ASSUME NEW m \in Names
      PROVE  IF D2[m] = NoDef THEN \A e \in rows2 : e.value.name # m
             ELSE D2[m].name = m /\ Entry(D2[m].table_id, D2[m]) \in rows2
  <2>1. CASE m = n
    BY <1>3, <1>5, <1>7, <2>1
  <2>2. CASE m # n /\ D[m] = NoDef
    <3>1. \A e \in rows : e.value.name # m
      BY <2>2 DEF Lists
    <3> QED
      BY <1>3, <1>7, <2>2, <3>1
  <2>3. CASE m # n /\ D[m] # NoDef
    <3>1. /\ D[m].name = m /\ Entry(D[m].table_id, D[m]) \in rows
          /\ Entry(D[m].table_id, D[m]).value = D[m]
      BY <2>3 DEF Lists, Entry
    <3>2. Entry(D[m].table_id, D[m]).key # id
      BY <1>1, <3>1, <2>3
    <3> QED
      BY <1>3, <1>7, <2>3, <3>1, <3>2
  <2> QED
    BY <2>1, <2>2, <2>3
<1> QED
  BY <1>6, <1>7, <1>8 DEF Lists

LEMMA ListsAdd ==
    ASSUME NEW rows, OneName(rows),
           NEW D, Lists(rows, D), NEW n \in Names, D[n] = NoDef,
           NEW def, def.name = n, def # NoDef,
           NEW rows2, rows2 = rows \cup {Entry(def.table_id, def)},
           NEW D2, D2 = [D EXCEPT ![n] = def]
    PROVE  OneName(rows2) /\ Lists(rows2, D2)
<1> DEFINE new == Entry(def.table_id, def)
<1>2. new.value = def /\ new.value.name = n
  BY DEF Entry
<1> HIDE DEF new
<1>3. \A e : e \in rows2 <=> e = new \/ e \in rows
  BY DEF new
<1>5. \A e \in rows : e.value.name # n
  BY DEF Lists
<1>6. OneName(rows2)
  BY <1>2, <1>3, <1>5 DEF OneName
<1>7. D2 = [m \in Names |-> D2[m]] /\ D2[n] = def /\ \A m \in Names \ {n} : D2[m] = D[m]
  BY DEF Lists
<1>8. ASSUME NEW m \in Names
      PROVE  IF D2[m] = NoDef THEN \A e \in rows2 : e.value.name # m
             ELSE D2[m].name = m /\ Entry(D2[m].table_id, D2[m]) \in rows2
  <2>1. CASE m = n
    <3>1. D2[m] = def /\ Entry(D2[m].table_id, D2[m]) = new
      BY <1>7, <2>1 DEF new
    <3> QED
      BY <1>3, <3>1, <2>1
  <2>2. CASE m # n /\ D[m] = NoDef
    <3>1. \A e \in rows : e.value.name # m
      BY <2>2 DEF Lists
    <3> QED
      BY <1>2, <1>3, <1>7, <2>2, <3>1
  <2>3. CASE m # n /\ D[m] # NoDef
    <3>1. D[m].name = m /\ Entry(D[m].table_id, D[m]) \in rows
      BY <2>3 DEF Lists
    <3> QED
      BY <1>3, <1>7, <2>3, <3>1
  <2> QED
    BY <2>1, <2>2, <2>3
<1> QED
  BY <1>6, <1>7, <1>8 DEF Lists

-----------------------------------------------------------------------------
(* From one file to another.                                               *)

\* No tree but i has changed.
Same(f, g, f2, g2, i) ==
    \A j \in Nat \ {i} : Pages(g2, j) = Pages(g, j) /\ Agree(f, f2, g, j)

\* A table as the definition def shows it.
TableAt(f, def) ==
    IF def = NoDef THEN [rows |-> {}, next_rowid |-> 0]
    ELSE [rows |-> RowsAt(f, def.root_page), next_rowid |-> def.next_rowid]

LEMMA ViewIs ==
    ASSUME NEW f, NEW D
    PROVE  /\ View(f, D) = [n \in Names |-> View(f, D)[n]]
           /\ \A n \in Names : View(f, D)[n] = TableAt(f, D[n])
BY DEF View, TableAt

LEMMA SameThen ==
    ASSUME NEW f, NEW g, NEW f2, NEW g2, NEW i, Same(f, g, f2, g2, i),
           NEW f3, NEW g3, NEW k, Same(f2, g2, f3, g3, k)
    PROVE  \A j \in Nat \ {i, k} : Pages(g3, j) = Pages(g, j) /\ Agree(f, f3, g, j)
<1> SUFFICES ASSUME NEW j \in Nat \ {i, k}
             PROVE  Pages(g3, j) = Pages(g, j) /\ Agree(f, f3, g, j)
  OBVIOUS
<1>1. /\ Pages(g2, j) = Pages(g, j) /\ \A q \in Pages(g, j) : f2[q] = f[q]
      /\ Pages(g3, j) = Pages(g2, j) /\ \A q \in Pages(g2, j) : f3[q] = f2[q]
  BY DEF Same, Agree
<1> QED
  BY <1>1 DEF Agree

\* A table is shown the same.
LEMMA TableSame ==
    ASSUME NEW N, NEW R, NEW f, NEW g, Firm(N, R, f, g),
           NEW N2, NEW R2, NEW f2, NEW g2, Firm(N2, R2, f2, g2),
           NEW def, <<def.table_id, def.root_page>> \in R, Agree(f, f2, g, def.table_id)
    PROVE  TableAt(f2, def) = TableAt(f, def)
<1>1. def.table_id \in Nat /\ def.root_page \in Written(f, g, def.table_id)
  BY RootFacts
<1>2. Sane(Ents(N, R), R, f, g) /\ Keyed(Ents(N, R))
  BY FirmFacts
<1>3. Grounded(f2) /\ Linked(f2) /\ Readable(f2)
  BY FirmFacts
<1>4. RowsAt(f2, def.root_page) = RowsAt(f, def.root_page)
  BY <1>1, <1>2, <1>3, RowsSame
<1> QED
  BY <1>4 DEF TableAt

LEMMA SoundSame ==
    ASSUME NEW f, NEW g, NEW f2, NEW g2, NEW e, SoundTable(f, g, e),
           Pages(g2, e.key) = Pages(g, e.key), Agree(f, f2, g, e.key)
    PROVE  SoundTable(f2, g2, e)
BY WholeSame DEF SoundTable

\* The tree of a table, or of none, has changed.
LEMMA TreeChanged ==
    ASSUME NEW N, NEW R, NEW f, NEW g, Firm(N, R, f, g), NEW B, Intact(f, g, B),
           NEW N2, NEW R2, NEW f2, NEW g2, Firm(N2, R2, f2, g2), NEW i \in Nat \ {0},
           Same(f, g, f2, g2, i), f2[0].catalog_root = f[0].catalog_root,
           NEW B2, B \subseteq B2,
           \A e \in Rows(f, g, 0) : e.key = i /\ e.value.name \notin B2 => SoundTable(f2, g2, e)
    PROVE  /\ Intact(f2, g2, B2)
           /\ Rows(f2, g2, 0) = Rows(f, g, 0)
           /\ LoadDefs(f2, f2[0].catalog_root) = LoadDefs(f, f[0].catalog_root)
<1>1. Pages(g2, 0) = Pages(g, 0) /\ Agree(f, f2, g, 0)
  BY DEF Same
<1>2. /\ Rows(f2, g2, 0) = Rows(f, g, 0)
      /\ Whole(f2, g2, 0, f2[0].catalog_root, DefRecords)
  <2>1. Whole(f, g, 0, f[0].catalog_root, DefRecords)
    BY DEF Intact
  <2>2. /\ Rows(f2, g2, 0) = Rows(f, g, 0)
        /\ \A root, V : Whole(f, g, 0, root, V) => Whole(f2, g2, 0, root, V)
    BY <1>1, WholeSame
  <2> QED
    BY <2>1, <2>2
<1>3. LoadDefs(f2, f2[0].catalog_root) = LoadDefs(f, f[0].catalog_root)
  <2>1. /\ Sane(Ents(N, R), R, f, g) /\ Keyed(Ents(N, R))
        /\ f[0].catalog_root \in Written(f, g, 0)
    BY FirmFacts
  <2>2. Grounded(f2) /\ Linked(f2) /\ Readable(f2)
    BY FirmFacts
  <2> QED
    BY <1>1, <2>1, <2>2, RowsSame
<1>4. ASSUME NEW e \in Rows(f, g, 0), e.value.name \notin B2
      PROVE  SoundTable(f2, g2, e)
  <2>1. CASE e.key = i
    BY <1>4, <2>1
  <2>2. CASE e.key # i
    <3>1. e.key \in Nat
      BY FirmFacts, CatEntryFacts
    <3>2. SoundTable(f, g, e)
      BY <1>4 DEF Intact
    <3>3. Pages(g2, e.key) = Pages(g, e.key) /\ Agree(f, f2, g, e.key)
      BY <2>2, <3>1 DEF Same
    <3> QED
      BY <3>2, <3>3, SoundSame
  <2> QED
    BY <2>1, <2>2
<1>5. OneName(Rows(f2, g2, 0))
  BY <1>2 DEF Intact
<1> QED
  BY <1>2, <1>3, <1>4, <1>5 DEF Intact

\* The catalog has changed.
LEMMA CatalogChanged ==
    ASSUME NEW f, NEW g, NEW f2, NEW g2, Same(f, g, f2, g2, 0),
           Whole(f2, g2, 0, f2[0].catalog_root, DefRecords),
           NEW N2, NEW R2, Firm(N2, R2, f2, g2),
           OneName(Rows(f2, g2, 0)), NEW B,
           \A e \in Rows(f2, g2, 0) : e.value.name \notin B => SoundTable(f, g, e)
    PROVE  Intact(f2, g2, B)
<1>1. ASSUME NEW e \in Rows(f2, g2, 0), e.value.name \notin B
      PROVE  SoundTable(f2, g2, e)
  <2>1. e.key \in Nat \ {0}
    BY FirmFacts, CatEntryFacts
  <2>2. Pages(g2, e.key) = Pages(g, e.key) /\ Agree(f, f2, g, e.key)
    BY <2>1 DEF Same
  <2> QED
    BY <1>1, <2>2, SoundSame
<1> QED
  BY <1>1 DEF Intact

\* A file that an operation on the tree of a table may leave.
LEMMA PassingChanged ==
    ASSUME NEW N, NEW R, NEW f, NEW g, Firm(N, R, f, g), NEW i \in Nat \ {0},
           i < f[0].next_table_id,
           NEW f2, Passing(Ents(N, R), R, f, g, i, f2)
    PROVE  \E g2 : /\ Firm(N, R, f2, g2) /\ Same(f, g, f2, g2, i)
                   /\ f2[0].catalog_root = f[0].catalog_root
<1>1. PICK g2 : /\ Sane(Ents(N, R), R, f2, g2)
                /\ Counts(f[0], f2[0])
                /\ \A q \in PageId :
                     /\ g.owner[q] \notin {-1, i} => f2[q] = f[q]
                     /\ g.owner[q] # -1 => g2.owner[q] = g.owner[q]
                     /\ g.owner[q] = -1 => g2.owner[q] \in {-1, i}
  BY DEF Passing
<1>2. Firm(N, R, f2, g2)
  BY <1>1, FirmPassing
<1>3. GoodHeader(f[0])
  BY DEF Firm, Sane
<1>4. f2[0].catalog_root = f[0].catalog_root
  BY <1>1, <1>3 DEF Counts, GoodHeader
<1>5. Same(f, g, f2, g2, i)
  BY <1>1 DEF Same, Pages, Agree
<1> QED
  BY <1>2, <1>4, <1>5

\* What an operation on a tree leaves.
LEMMA OnwardChanged ==
    ASSUME NEW N, NEW R, NEW s, NEW g, Firm(N, R, s.file, g), NEW i \in Nat,
           i < s.hdr.next_table_id, NEW t, NEW g2, Onward(Ents(N, R), R, s, g, i, t, g2)
    PROVE  /\ Firm(N, R, t.file, g2) /\ Same(s.file, g, t.file, g2, i)
           /\ t.file[0].catalog_root = s.file[0].catalog_root /\ t.hdr = t.file[0]
<1>1. Firm(N, R, t.file, g2)
  BY FirmOnward
<1>2. Sane(Ents(N, R), R, s.file, g)
  BY DEF Firm
<1>3. Same(s.file, g, t.file, g2, i)
  BY <1>2, OnwardPages DEF Same
<1>4. GoodStore(s) /\ GoodStore(t) /\ Counts(s.hdr, t.hdr)
  BY DEF Onward
<1> QED
  BY <1>1, <1>3, <1>4 DEF GoodStore, GoodHeader, Counts, HEADER_PAGE_ID

-----------------------------------------------------------------------------
(* What an operation does to what is stored.                               *)

Fine(f, B) == \E N, R, g : Firm(N, R, f, g) /\ Intact(f, g, B)

\* A table as the next process will show it.
TableOf(f, m) == TableAt(f, LoadDefs(f, f[0].catalog_root)[m])

\* In the file f every table but those in sp has the rows that af has, or is the
\* table n with the rows that bf has.
Confined(f, n, sp, bf, af) ==
    \A m \in Names \ sp :
      \/ TableOf(f, m).rows = af[m].rows
      \/ m = n /\ TableOf(f, m).rows = bf[m].rows

\* Between two operations, when no crash has torn the catalog.
Ready(N, R, g) ==
    /\ Idle /\ GoodStore(Here) /\ IsSeq(Here.writes) /\ Here.file = file /\ Here.hdr = hdr
    /\ Firm(N, R, file, g) /\ Intact(file, g, torn)
    /\ hdr = file[0] /\ cat_root = file[0].catalog_root
    /\ Known(N, R, hdr, cat_root, by_name)
    /\ by_name = LoadDefs(file, cat_root) /\ Lists(Rows(file, g, 0), by_name)

\* The definition of n in force, as an entry of the catalog.
DefAt(N, R, g, n, def, id) ==
    /\ def.name = n /\ id \in Nat \ {0} /\ id < hdr.next_table_id /\ N[id] = n
    /\ <<id, def.root_page>> \in R
    /\ def.root_page \in Written(file, g, id)
    /\ def \in [table_id : 1 .. MaxTableId, name : {n},
                root_page : PageId \ {0}, next_rowid : 1 .. MaxRowid[n] + 1]
    /\ def.next_rowid \in Nat
    /\ Entry(id, def) \in Rows(file, g, 0)
    /\ \A e \in Rows(file, g, 0) : e.key = id => e = Entry(id, def)
    /\ n \notin torn => SoundTable(file, g, Entry(id, def))

LEMMA ReadyDef ==
    ASSUME NEW N, NEW R, NEW g, Ready(N, R, g), NEW n \in Names, by_name[n] # NoDef,
           NEW def, def = by_name[n], NEW id, id = def.table_id
    PROVE  DefAt(N, R, g, n, def, id)
<1>1. /\ Firm(N, R, file, g) /\ Intact(file, g, torn) /\ hdr = file[0]
      /\ Known(N, R, hdr, cat_root, by_name) /\ Lists(Rows(file, g, 0), by_name)
  BY DEF Ready
<1>2. /\ def \in [table_id : 1 .. MaxTableId, name : {n},
                  root_page : PageId \ {0}, next_rowid : 1 .. MaxRowid[n] + 1]
      /\ <<id, def.root_page>> \in R /\ id \in Nat \ {0} /\ N[id] = n
  BY <1>1, DefFacts
<1>3. id < hdr.next_table_id /\ def.root_page \in Written(file, g, id)
  BY <1>1, <1>2, RootFacts
<1>4. MaxRowid[n] \in Nat
  BY EngineAssumption
<1>5. def.next_rowid \in Nat /\ def.name = n
  BY <1>2, <1>4
<1>6. Entry(id, def) \in Rows(file, g, 0) /\ Entry(id, def).key = id /\ Entry(id, def).value = def
  BY <1>1 DEF Lists, Entry
<1>7. \A d, e \in Rows(file, g, 0) : d.key = e.key => d = e
  <2>1. Sane(Ents(N, R), R, file, g)
    BY <1>1, FirmFacts
  <2>2. Shows(file, file[0].catalog_root, Rows(file, g, 0), DefRecords)
    BY <1>1, <2>1, WholeShows DEF Intact
  <2> QED
    BY <2>2 DEF Shows
<1>8. n \notin torn => SoundTable(file, g, Entry(id, def))
  BY <1>1, <1>5, <1>6 DEF Intact
<1>9. \A e \in Rows(file, g, 0) : e.key = id => e = Entry(id, def)
  BY <1>6, <1>7
<1> QED
  BY <1>2, <1>3, <1>5, <1>6, <1>8, <1>9 DEF DefAt

\* A write more.
LEMMA ThroughOne ==
    ASSUME NEW s, GoodStore(s), IsSeq(s.writes), NEW t, OneWrite(s, t)
    PROVE  Through(s, t, {s.file, t.file})
<1>1. PICK p, c : t = Put(s, p, c)
  BY DEF OneWrite
<1>2. Puts(s, s.hdr, p, c, t)
  BY <1>1, PutIs DEF GoodStore
<1> QED
  BY <1>2, ThroughPut

LEMMA IntactMore ==
    ASSUME NEW f, NEW g, NEW B, Intact(f, g, B), NEW B2, B \subseteq B2
    PROVE  Intact(f, g, B2)
BY DEF Intact

\* The tables other than n are shown the same.
OthersKept(f, D, n) == \A m \in Names \ {n} : TableAt(f, D[m]) = TableAt(file, by_name[m])

LEMMA OthersSame ==
    ASSUME NEW N, NEW R, NEW g, Ready(N, R, g), NEW n \in Names,
           NEW id, \A m \in Names \ {n} : by_name[m] # NoDef => by_name[m].table_id # id,
           NEW N2, NEW R2, NEW f, NEW g2, Firm(N2, R2, f, g2),
           \A j \in Nat \ {0, id} : Agree(file, f, g, j),
           NEW D, \A m \in Names \ {n} : D[m] = by_name[m]
    PROVE  OthersKept(f, D, n)
<1> SUFFICES ASSUME NEW m \in Names \ {n}
             PROVE  TableAt(f, D[m]) = TableAt(file, by_name[m])
  BY DEF OthersKept
<1>1. CASE by_name[m] = NoDef
  BY <1>1 DEF TableAt
<1>2. CASE by_name[m] # NoDef
  <2>1. PICK def : def = by_name[m]
    OBVIOUS
  <2>2. def.table_id \in Nat \ {0, id} /\ <<def.table_id, def.root_page>> \in R
    BY <1>2, <2>1, ReadyDef DEF DefAt
  <2>3. Firm(N, R, file, g)
    BY DEF Ready
  <2>4. TableAt(f, def) = TableAt(file, def)
    BY <2>2, <2>3, TableSame
  <2> QED
    BY <2>1, <2>4
<1> QED
  BY <1>1, <1>2

-----------------------------------------------------------------------------
(* An operation on the rows of a table: its tree changes, its definition   *)
(* is saved.                                                               *)

RowWork(N, R, g, n, id, s1, g1, R2, def, def2, splits) ==
    /\ Ready(N, R, g) /\ n \in Names /\ by_name[n] # NoDef
    /\ def = by_name[n] /\ id = def.table_id
    /\ Onward(Ents(N, R), R, Here, g, id, s1, g1)
    /\ R \subseteq R2 /\ Firm(N, R2, s1.file, g1)
    /\ def2.table_id = id /\ def2.name = n /\ Entry(id, def2) \in CatEntries(N, R2)
    /\ def.next_rowid <= def2.next_rowid
    /\ n \notin torn => /\ Whole(s1.file, g1, id, def2.root_page, Values)
                        /\ \A x \in Rows(s1.file, g1, id) : x.key \in Int /\ x.key <= def.next_rowid
    /\ \/ splits = {n}
       \/ splits = {} /\ OneWrite(Here, s1) /\ def2.root_page = def.root_page

\* What comes of it.
RowsSaved(N, R2, n, s1, g1, def2, t, D) ==
    /\ Firm(N, R2, t.file, g1) /\ Intact(t.file, g1, torn)
    /\ cat_root = t.file[0].catalog_root /\ D = LoadDefs(t.file, cat_root)
    /\ D = [m \in Names |-> D[m]] /\ D[n] = def2
    /\ OthersKept(t.file, D, n) /\ TableAt(t.file, def2) = TableAt(s1.file, def2)
    /\ OneWrite(s1, t)

LEMMA RowWorkSaved ==
    ASSUME NEW N, NEW R, NEW g, NEW n, NEW id, NEW s1, NEW g1, NEW R2, NEW def, NEW def2, NEW splits,
           RowWork(N, R, g, n, id, s1, g1, R2, def, def2, splits),
           NEW t, t = Save(s1, def2), NEW D, D = [by_name EXCEPT ![n] = def2]
    PROVE  RowsSaved(N, R2, n, s1, g1, def2, t, D)
<1> DEFINE rows == Rows(file, g, 0)
<1>1. /\ Ready(N, R, g) /\ n \in Names /\ by_name[n] # NoDef
      /\ def = by_name[n] /\ id = def.table_id
      /\ Onward(Ents(N, R), R, Here, g, id, s1, g1)
      /\ R \subseteq R2 /\ Firm(N, R2, s1.file, g1)
      /\ def2.table_id = id /\ def2.name = n /\ Entry(id, def2) \in CatEntries(N, R2)
      /\ def.next_rowid <= def2.next_rowid
  BY DEF RowWork
<1>2. /\ Here.file = file /\ Here.hdr = hdr /\ Firm(N, R, file, g) /\ Intact(file, g, torn)
      /\ hdr = file[0] /\ cat_root = file[0].catalog_root
      /\ Lists(rows, by_name) /\ Firm(N, R, Here.file, g)
  BY <1>1 DEF Ready
<1>3. /\ id \in Nat \ {0} /\ id < hdr.next_table_id /\ N[id] = n
      /\ def.next_rowid \in Nat /\ Entry(id, def) \in rows
      /\ \A e \in rows : e.key = id => e = Entry(id, def)
  <2>1. DefAt(N, R, g, n, def, id)
    BY <1>1, ReadyDef
  <2> QED
    BY <2>1 DEF DefAt
<1>4. /\ Same(file, g, s1.file, g1, id) /\ s1.file[0].catalog_root = cat_root /\ s1.hdr = s1.file[0]
  BY <1>1, <1>2, <1>3, OnwardChanged
<1>5. Pages(g1, 0) = Pages(g, 0) /\ Agree(file, s1.file, g, 0)
  BY <1>3, <1>4 DEF Same
<1> HIDE DEF rows
<1>6. Rows(s1.file, g1, 0) = rows /\ Whole(s1.file, g1, 0, cat_root, DefRecords)
  <2>1. Whole(file, g, 0, cat_root, DefRecords)
    BY <1>2 DEF Intact
  <2>2. /\ Rows(s1.file, g1, 0) = Rows(file, g, 0)
        /\ \A root, V : Whole(file, g, 0, root, V) => Whole(s1.file, g1, 0, root, V)
    BY <1>5, WholeSame
  <2> QED
    BY <2>1, <2>2 DEF rows
<1>7. PICK u : u = Update(s1, cat_root, id, def2)
  OBVIOUS
<1>8. Begins(Ents(N, R2), R2, s1, g1, 0)
  <2>1. GoodStore(s1) /\ IsSeq(s1.writes)
    BY <1>1 DEF Onward, Replay
  <2> QED
    BY <1>1, <2>1, FirmFacts DEF Begins
<1>9. def2 \in DefRecords /\ def2.next_rowid \in Nat /\ def2 # NoDef /\ <<id, def2.root_page>> \in R2
  <2>1. Entry(id, def2).value = def2 /\ Entry(id, def2).key = id
    BY DEF Entry
  <2>2. PICK e \in CatEntries(N, R2) : e = Entry(id, def2)
    BY <1>1
  <2>3. e.value \in DefRecords /\ e.value.next_rowid \in Nat /\ e.value # NoDef
        /\ <<e.key, e.value.root_page>> \in R2
    BY <2>2, CatEntryFacts
  <2> QED
    BY <2>1, <2>2, <2>3
<1>10. PICK left : left = Others(rows, id) \cup {Entry(id, def2)}
  OBVIOUS
<1>11. Rewrites(Ents(N, R2), R2, s1, g1, 0, cat_root, DefRecords, u, left)
  <2>1. cat_root \in Written(s1.file, g1, 0)
    BY <1>1, <1>4, FirmFacts
  <2>2. Entry(id, def2) \in Ents(N, R2)[0]
    BY <1>1, EntsFacts
  <2>3. HasKey(Rows(s1.file, g1, 0), id)
    <3>1. Entry(id, def).key = id
      BY DEF Entry
    <3> QED
      BY <1>3, <1>6, <3>1 DEF HasKey
  <2>4. id \in Int
    BY <1>3
  <2>5. IF HasKey(Rows(s1.file, g1, 0), id)
        THEN Rewrites(Ents(N, R2), R2, s1, g1, 0, cat_root, DefRecords, u,
                      Others(Rows(s1.file, g1, 0), id) \cup {Entry(id, def2)})
        ELSE Refused(s1, u)
    BY <1>6, <1>7, <1>8, <1>9, <2>1, <2>2, <2>4, WholeUpdate
  <2> QED
    BY <1>6, <1>10, <2>3, <2>5
<1>12. /\ OneWrite(s1, u.store) /\ Onward(Ents(N, R2), R2, s1, g1, 0, u.store, g1)
       /\ u.store.hdr = s1.hdr
       /\ Whole(u.store.file, g1, 0, cat_root, DefRecords) /\ Rows(u.store.file, g1, 0) = left
  BY <1>11 DEF Rewrites
<1>13. t = u.store
  <2>1. Save(s1, def2) = SyncRoot(Update(s1, cat_root, id, def2).store, cat_root)
    BY <1>1 DEF Save
  <2>2. cat_root = u.store.hdr.catalog_root
    BY <1>4, <1>12
  <2> QED
    BY <1>7, <2>1, <2>2 DEF SyncRoot
<1>14. /\ Firm(N, R2, t.file, g1) /\ Same(s1.file, g1, t.file, g1, 0)
       /\ t.file[0].catalog_root = cat_root
  <2>1. 0 < s1.hdr.next_table_id
    BY <1>1, <1>4 DEF Firm, Numbered
  <2> QED
    BY <1>1, <1>4, <1>12, <1>13, <2>1, OnwardChanged
<1>15. \A e \in rows : e \in CatEntries(N, R) /\ e.key = e.value.table_id
  <2>1. rows \subseteq CatEntries(N, R)
    BY <1>2, FirmFacts DEF rows
  <2>2. \A e \in CatEntries(N, R) : e.key = e.value.table_id
    BY CatEntryFacts
  <2> QED
    BY <2>1, <2>2
<1>16. OneName(left) /\ Lists(left, D)
  <2>1. \A d, e \in rows : d.key = e.key => d = e
    <3>1. Sane(Ents(N, R), R, file, g)
      BY <1>2, FirmFacts
    <3>2. Whole(file, g, 0, cat_root, DefRecords)
      BY <1>2 DEF Intact
    <3>3. Shows(file, cat_root, Rows(file, g, 0), DefRecords)
      BY <3>1, <3>2, WholeShows
    <3> QED
      BY <3>3 DEF Shows, rows
  <2>2. OneName(rows)
    BY <1>2 DEF Intact, rows
  <2> QED
    <3>1. /\ Lists(rows, by_name) /\ by_name[n].table_id = id /\ \A e \in rows : e.key = e.value.table_id
          /\ left = Others(rows, by_name[n].table_id) \cup {Entry(by_name[n].table_id, def2)}
      BY <1>1, <1>2, <1>10, <1>15
    <3>2. def2.table_id = by_name[n].table_id /\ def2.name = n /\ def2 # NoDef
      BY <1>1, <1>9
    <3> QED
      BY <1>1, <2>1, <2>2, <3>1, <3>2, ListsSet
<1>17. Rows(t.file, g1, 0) = left /\ Whole(t.file, g1, 0, t.file[0].catalog_root, DefRecords)
  BY <1>12, <1>13, <1>14
<1>18. ASSUME NEW e \in left, e.value.name \notin torn
       PROVE  SoundTable(s1.file, g1, e)
  <2>1. CASE e = Entry(id, def2)
    <3>1. e.key = id /\ e.value = def2
      BY <2>1 DEF Entry
    <3>2. /\ Whole(s1.file, g1, id, def2.root_page, Values)
          /\ \A x \in Rows(s1.file, g1, id) : x.key \in Int /\ x.key <= def.next_rowid
      BY <1>1, <1>18, <3>1 DEF RowWork
    <3>3. \A x \in Rows(s1.file, g1, id) : x.key <= def2.next_rowid
      BY <1>1, <1>3, <1>9, <3>2
    <3> QED
      BY <3>1, <3>2, <3>3 DEF SoundTable
  <2>2. CASE e # Entry(id, def2)
    <3>1. e \in rows /\ e.key # id
      BY <1>10, <1>18, <2>2 DEF Others
    <3>2. SoundTable(file, g, e)
      BY <1>2, <1>18, <3>1 DEF Intact, rows
    <3>3. e.key \in Nat
      BY <1>15, <3>1, CatEntryFacts
    <3>4. Pages(g1, e.key) = Pages(g, e.key) /\ Agree(file, s1.file, g, e.key)
      BY <1>4, <3>1, <3>3 DEF Same
    <3> QED
      BY <3>2, <3>4, SoundSame
  <2> QED
    BY <2>1, <2>2
<1>19. Intact(t.file, g1, torn)
  BY <1>14, <1>16, <1>17, <1>18, CatalogChanged
<1>20. D = LoadDefs(t.file, cat_root)
  <2>1. Lists(left, LoadDefs(t.file, cat_root))
    BY <1>14, <1>17, <1>19, LoadedLists
  <2>2. \A e \in left : e.value # NoDef
    <3>1. left \subseteq CatEntries(N, R2)
      BY <1>14, <1>17, FirmFacts
    <3> QED
      BY <3>1, CatEntryFacts
  <2> QED
    BY <1>16, <2>1, <2>2, ListsOne
<1>21. D = [m \in Names |-> D[m]] /\ D[n] = def2 /\ \A m \in Names \ {n} : D[m] = by_name[m]
  BY <1>1, <1>2 DEF Lists
<1>22. OthersKept(t.file, D, n)
  <2>1. \A j \in Nat \ {id, 0} : Pages(g1, j) = Pages(g, j) /\ Agree(file, t.file, g, j)
    BY <1>4, <1>14, SameThen
  <2>2. \A j \in Nat \ {0, id} : Agree(file, t.file, g, j)
    BY <2>1
  <2>3. \A m \in Names \ {n} : by_name[m] # NoDef => by_name[m].table_id # id
    <3> SUFFICES ASSUME NEW m \in Names \ {n}, by_name[m] # NoDef
                 PROVE  by_name[m].table_id # id
      OBVIOUS
    <3>1. DefAt(N, R, g, m, by_name[m], by_name[m].table_id)
      BY <1>1, ReadyDef
    <3> QED
      BY <1>3, <3>1 DEF DefAt
  <2> QED
    BY <1>1, <1>14, <1>21, <2>2, <2>3, OthersSame
<1>23. TableAt(t.file, def2) = TableAt(s1.file, def2)
  <2>1. Agree(s1.file, t.file, g1, id)
    BY <1>3, <1>14 DEF Same
  <2>2. <<def2.table_id, def2.root_page>> \in R2
    BY <1>1, <1>9
  <2> QED
    BY <1>1, <1>14, <2>1, <2>2, TableSame
<1>24. OneWrite(s1, t)
  BY <1>12, <1>13
<1>25. cat_root = t.file[0].catalog_root
  BY <1>14
<1> QED
  BY <1>14, <1>19, <1>20, <1>21, <1>22, <1>23, <1>24, <1>25 DEF RowsSaved

-----------------------------------------------------------------------------
(* What a crash in the middle of an operation leaves.                      *)

\* A file that the operation on n, which is to leave the store t and the
\* definitions D and which splits these trees, may leave.
Bears(f, n, splits, t, D) ==
    /\ Fine(f, torn \cup splits)
    /\ Confined(f, n, splits, View(file, by_name), View(t.file, D))

LEMMA FinalBears ==
    ASSUME NEW N, NEW R, NEW t, NEW g, Firm(N, R, t.file, g), Intact(t.file, g, torn),
           NEW D, D = LoadDefs(t.file, t.file[0].catalog_root), NEW n, NEW splits
    PROVE  Bears(t.file, n, splits, t, D)
<1>1. Fine(t.file, torn \cup splits)
  BY IntactMore DEF Fine
<1>2. ASSUME NEW m \in Names
      PROVE  TableOf(t.file, m).rows = View(t.file, D)[m].rows
  BY <1>2, ViewIs DEF TableOf
<1> QED
  BY <1>1, <1>2 DEF Bears, Confined

LEMMA InitialBears ==
    ASSUME NEW N, NEW R, NEW g, Ready(N, R, g), NEW n, NEW splits, NEW t, NEW D,
           OthersKept(t.file, D, n)
    PROVE  Bears(file, n, splits, t, D)
<1>1. Fine(file, torn \cup splits)
  BY IntactMore DEF Ready, Fine
<1>2. by_name = LoadDefs(file, file[0].catalog_root)
  BY DEF Ready
<1>3. ASSUME NEW m \in Names
      PROVE  /\ TableOf(file, m).rows = View(file, by_name)[m].rows
             /\ m # n => View(t.file, D)[m].rows = View(file, by_name)[m].rows
  <2>1. View(file, by_name)[m] = TableAt(file, by_name[m]) /\ View(t.file, D)[m] = TableAt(t.file, D[m])
    BY <1>3, ViewIs
  <2> QED
    BY <1>2, <1>3, <2>1 DEF TableOf, OthersKept
<1> QED
  BY <1>1, <1>3 DEF Bears, Confined

\* What a file that the work on tree id has changed shows of the table n.
Excused(f, g, g2, n, id, splits, t, D) ==
    /\ \A e \in Rows(file, g, 0) :
         e.key = id /\ e.value.name \notin torn \cup splits => SoundTable(f, g2, e)
    /\ \/ n \in splits
       \/ TableAt(f, by_name[n]).rows = TableAt(t.file, D[n]).rows
       \/ TableAt(f, by_name[n]).rows = TableAt(file, by_name[n]).rows

LEMMA ChangedBears ==
    ASSUME NEW N, NEW R, NEW g, Ready(N, R, g), NEW n \in Names, NEW splits, NEW t, NEW D,
           OthersKept(t.file, D, n),
           NEW id \in Nat \ {0}, \A m \in Names \ {n} : by_name[m] # NoDef => by_name[m].table_id # id,
           NEW N2, NEW R2, NEW f, NEW g2, Firm(N2, R2, f, g2), Same(file, g, f, g2, id),
           f[0].catalog_root = cat_root, Excused(f, g, g2, n, id, splits, t, D)
    PROVE  Bears(f, n, splits, t, D)
<1> DEFINE B == torn \cup splits
<1>1. /\ Firm(N, R, file, g) /\ Intact(file, g, torn) /\ cat_root = file[0].catalog_root
      /\ by_name = LoadDefs(file, cat_root)
  BY DEF Ready
<1>2. \A e \in Rows(file, g, 0) : e.key = id /\ e.value.name \notin B => SoundTable(f, g2, e)
  BY DEF Excused
<1>3. torn \subseteq B /\ f[0].catalog_root = file[0].catalog_root
  BY <1>1
<1> HIDE DEF B
<1>4. Intact(f, g2, B) /\ LoadDefs(f, f[0].catalog_root) = LoadDefs(file, file[0].catalog_root)
  BY <1>1, <1>2, <1>3, TreeChanged
<1>5. Fine(f, torn \cup splits)
  BY <1>4 DEF Fine, B
<1>6. OthersKept(f, by_name, n)
  <2>1. \A j \in Nat \ {0, id} : Agree(file, f, g, j)
    BY DEF Same
  <2>2. \A m \in Names \ {n} : by_name[m] = by_name[m]
    OBVIOUS
  <2> QED
    BY <2>1, OthersSame
<1>7. ASSUME NEW m \in Names \ splits
      PROVE  \/ TableOf(f, m).rows = View(t.file, D)[m].rows
             \/ m = n /\ TableOf(f, m).rows = View(file, by_name)[m].rows
  <2>1. View(file, by_name)[m] = TableAt(file, by_name[m]) /\ View(t.file, D)[m] = TableAt(t.file, D[m])
    BY <1>7, ViewIs
  <2>2. TableOf(f, m) = TableAt(f, by_name[m])
    BY <1>1, <1>4 DEF TableOf
  <2>3. m # n => TableAt(f, by_name[m]) = TableAt(t.file, D[m])
    BY <1>6, <1>7 DEF OthersKept
  <2> QED
    BY <1>7, <2>1, <2>2, <2>3 DEF Excused
<1> QED
  BY <1>5, <1>7 DEF Bears, Confined

\* A file that the work on the tree of a table passes.
LEMMA PassingBears ==
    ASSUME NEW N, NEW R, NEW g, Ready(N, R, g), NEW n \in Names, NEW splits, NEW t, NEW D,
           OthersKept(t.file, D, n),
           NEW id \in Nat \ {0}, \A m \in Names \ {n} : by_name[m] # NoDef => by_name[m].table_id # id,
           id < hdr.next_table_id, NEW f, Passing(Ents(N, R), R, file, g, id, f),
           n \in splits,
           \A e \in Rows(file, g, 0) : e.key = id => e.value.name = n
    PROVE  Bears(f, n, splits, t, D)
<1>1. Firm(N, R, file, g) /\ hdr = file[0] /\ cat_root = file[0].catalog_root
  BY DEF Ready
<1>2. PICK g2 : /\ Firm(N, R, f, g2) /\ Same(file, g, f, g2, id)
                /\ f[0].catalog_root = file[0].catalog_root
  BY <1>1, PassingChanged
<1>3. Excused(f, g, g2, n, id, splits, t, D)
  BY DEF Excused
<1> QED
  BY <1>1, <1>2, <1>3, ChangedBears

\* If a crash can stop it, it can do so in such files only.
Passes(n, t, D, splits) ==
    CatalogTree \notin splits =>
      \E F : Through(Here, t, F) /\ \A f \in F : Bears(f, n, splits, t, D)

LEMMA RowWorkPasses ==
    ASSUME NEW N, NEW R, NEW g, NEW n, NEW id, NEW s1, NEW g1, NEW R2, NEW def, NEW def2, NEW splits,
           RowWork(N, R, g, n, id, s1, g1, R2, def, def2, splits),
           NEW t, NEW D, RowsSaved(N, R2, n, s1, g1, def2, t, D)
    PROVE  Passes(n, t, D, splits)
<1>1. /\ Ready(N, R, g) /\ n \in Names /\ by_name[n] # NoDef
      /\ def = by_name[n] /\ id = def.table_id
      /\ Onward(Ents(N, R), R, Here, g, id, s1, g1)
      /\ Firm(N, R2, s1.file, g1)
  BY DEF RowWork
<1>2. /\ Here.file = file /\ Here.hdr = hdr /\ Firm(N, R, file, g) /\ GoodStore(Here) /\ IsSeq(Here.writes)
      /\ hdr = file[0] /\ cat_root = file[0].catalog_root
      /\ Firm(N, R, Here.file, g)
  BY <1>1 DEF Ready
<1>3. /\ id \in Nat \ {0} /\ id < hdr.next_table_id /\ N[id] = n
      /\ \A e \in Rows(file, g, 0) : e.key = id => e = Entry(id, def)
      /\ def.name = n
  <2>1. DefAt(N, R, g, n, def, id)
    BY <1>1, ReadyDef
  <2> QED
    BY <2>1 DEF DefAt
<1>4. \A m \in Names \ {n} : by_name[m] # NoDef => by_name[m].table_id # id
  <2> SUFFICES ASSUME NEW m \in Names \ {n}, by_name[m] # NoDef
               PROVE  by_name[m].table_id # id
    OBVIOUS
  <2>1. DefAt(N, R, g, m, by_name[m], by_name[m].table_id)
    BY <1>1, ReadyDef
  <2> QED
    BY <1>3, <2>1 DEF DefAt
<1>5. /\ Firm(N, R2, t.file, g1) /\ Intact(t.file, g1, torn)
      /\ D = LoadDefs(t.file, t.file[0].catalog_root) /\ D[n] = def2
      /\ OthersKept(t.file, D, n) /\ TableAt(t.file, def2) = TableAt(s1.file, def2)
      /\ OneWrite(s1, t)
  BY DEF RowsSaved
<1>6. GoodStore(s1) /\ IsSeq(s1.writes)
  BY <1>1 DEF Onward, Replay
<1>7. Through(s1, t, {s1.file, t.file})
  BY <1>5, <1>6, ThroughOne
<1>8. Bears(t.file, n, splits, t, D)
  BY <1>5, FinalBears
<1>9. CASE splits = {n}
  <2>1. PICK F : /\ Through(Here, s1, F)
                 /\ \A f \in F : Passing(Ents(N, R), R, file, g, id, f)
    BY <1>1, <1>2, OnwardThrough
  <2>2. Passing(Ents(N, R), R, file, g, id, s1.file)
    <3>1. g.owner[0] = -1
      BY <1>2, OwnedPages DEF Firm
    <3> QED
      BY <1>1, <1>2, <3>1, OnwardPasses
  <2>3. \A e \in Rows(file, g, 0) : e.key = id => e.value.name = n
    BY <1>3 DEF Entry
  <2>4. ASSUME NEW f, Passing(Ents(N, R), R, file, g, id, f)
        PROVE  Bears(f, n, splits, t, D)
    <3>1. n \in splits
      BY <1>9
    <3> QED
      BY <1>1, <1>3, <1>4, <1>5, <2>3, <2>4, <3>1, PassingBears
  <2>5. PICK H : H = F \cup {s1.file, t.file}
    OBVIOUS
  <2>6. Through(Here, t, H)
    <3>1. F \subseteq H /\ {s1.file, t.file} \subseteq H
      BY <2>5
    <3> QED
      BY <1>7, <2>1, <3>1, ThroughThen
  <2>7. \A f \in H : Bears(f, n, splits, t, D)
    BY <1>8, <2>1, <2>2, <2>4, <2>5
  <2> QED
    BY <2>6, <2>7 DEF Passes
<1>10. CASE splits = {} /\ OneWrite(Here, s1) /\ def2.root_page = def.root_page
  <2>1. Through(Here, s1, {file, s1.file})
    BY <1>2, <1>10, ThroughOne
  <2>2. PICK H : H = {file, s1.file, t.file}
    OBVIOUS
  <2>3. Through(Here, t, H)
    <3>1. {file, s1.file} \subseteq H /\ {s1.file, t.file} \subseteq H
      BY <2>2
    <3> QED
      BY <1>7, <2>1, <3>1, ThroughThen
  <2>4. Bears(file, n, splits, t, D)
    BY <1>1, <1>5, InitialBears
  <2>5. Bears(s1.file, n, splits, t, D)
    <3>1. Same(file, g, s1.file, g1, id) /\ s1.file[0].catalog_root = cat_root
      BY <1>1, <1>2, <1>3, OnwardChanged
    <3>2. def2 # NoDef /\ def # NoDef
      <4>1. Entry(id, def2) \in CatEntries(N, R2) /\ Entry(id, def2).value = def2
        BY DEF RowWork, Entry
      <4>2. PICK e \in CatEntries(N, R2) : e = Entry(id, def2)
        BY <4>1
      <4>3. e.value # NoDef
        BY CatEntryFacts
      <4> QED
        BY <1>1, <4>1, <4>2, <4>3
    <3>3. TableAt(s1.file, by_name[n]).rows = TableAt(t.file, D[n]).rows
      BY <1>1, <1>5, <1>10, <3>2 DEF TableAt
    <3>4. ASSUME NEW e \in Rows(file, g, 0), e.key = id, e.value.name \notin torn \cup splits
          PROVE  SoundTable(s1.file, g1, e)
      <4>1. e.value = def /\ n \notin torn
        BY <1>3, <3>4 DEF Entry
      <4>2. /\ Whole(s1.file, g1, id, def2.root_page, Values)
            /\ \A x \in Rows(s1.file, g1, id) : x.key <= def.next_rowid
        BY <4>1 DEF RowWork
      <4> QED
        BY <1>10, <3>4, <4>1, <4>2 DEF SoundTable
    <3>5. Excused(s1.file, g, g1, n, id, splits, t, D)
      BY <3>3, <3>4 DEF Excused
    <3>6. /\ Ready(N, R, g) /\ n \in Names /\ OthersKept(t.file, D, n) /\ id \in Nat \ {0}
          /\ Firm(N, R2, s1.file, g1)
      BY <1>1, <1>3, <1>5
    <3> QED
      BY <1>4, <3>1, <3>5, <3>6, ChangedBears
  <2>6. \A f \in H : Bears(f, n, splits, t, D)
    BY <1>8, <2>2, <2>4, <2>5
  <2> QED
    BY <2>3, <2>6 DEF Passes
<1> QED
  BY <1>9, <1>10 DEF RowWork

-----------------------------------------------------------------------------
(* Operations as steps of Store, and what they leave.                      *)

NoRows == [rows |-> {}, next_rowid |-> 0]

\* A step of Store on one table, which x becomes y.
TableStep(x, y) ==
    \/ x = NoRows /\ y = [rows |-> {}, next_rowid |-> 1]
    \/ x # NoRows /\ y = NoRows
    \/ \E v \in Values :
         /\ x # NoRows
         /\ y = [rows |-> x.rows \cup {Entry(x.next_rowid, v)}, next_rowid |-> x.next_rowid + 1]
    \/ \E row \in x.rows : y = [rows |-> x.rows \ {row}, next_rowid |-> x.next_rowid]
    \/ \E row \in x.rows, v \in Values :
         /\ row = Entry(row.key, row.value)
         /\ y = [rows |-> (x.rows \ {row}) \cup {Entry(row.key, v)}, next_rowid |-> x.next_rowid]

Shown(d) ==
    /\ d = [n \in Names |-> d[n]]
    /\ \A n \in Names : d[n] = [rows |-> d[n].rows, next_rowid |-> d[n].next_rowid]

StoreStep(b, a) ==
    /\ Shown(b) /\ Shown(a)
    /\ \E n \in Names : /\ \A m \in Names \ {n} : a[m] = b[m]
                        /\ a[n] = b[n] \/ TableStep(b[n], a[n])

\* The operation on n that is to leave the store t, and in memory this root and
\* these definitions, is a step of Store, and a crash can make only that of it
\* which CrashIsConfined allows.
Performs(n, t, root, defs, splits) ==
    /\ Fine(t.file, torn)
    /\ root = t.file[0].catalog_root /\ defs = LoadDefs(t.file, root)
    /\ \E F : Through(Here, t, F)
    /\ Passes(n, t, defs, splits)
    /\ torn = {} => StoreStep(View(file, by_name), View(t.file, defs))

LEMMA ViewShown ==
    ASSUME NEW f, NEW D
    PROVE  Shown(View(f, D))
<1>1. PICK d : d = View(f, D)
  OBVIOUS
<1>2. d = [n \in Names |-> d[n]] /\ \A n \in Names : d[n] = TableAt(f, D[n])
  BY <1>1, ViewIs
<1>3. \A n \in Names : d[n] = [rows |-> d[n].rows, next_rowid |-> d[n].next_rowid]
  BY <1>2 DEF TableAt
<1> QED
  BY <1>1, <1>2, <1>3 DEF Shown

LEMMA StepOf ==
    ASSUME NEW n \in Names, NEW t, NEW D, OthersKept(t.file, D, n),
           \/ TableAt(t.file, D[n]) = TableAt(file, by_name[n])
           \/ TableStep(TableAt(file, by_name[n]), TableAt(t.file, D[n]))
    PROVE  StoreStep(View(file, by_name), View(t.file, D))
<1>1. PICK b : b = View(file, by_name) OBVIOUS
<1>2. PICK a : a = View(t.file, D) OBVIOUS
<1>3. \A m \in Names : b[m] = TableAt(file, by_name[m]) /\ a[m] = TableAt(t.file, D[m])
  BY <1>1, <1>2, ViewIs
<1>4. \A m \in Names \ {n} : a[m] = b[m]
  BY <1>3 DEF OthersKept
<1>5. a[n] = b[n] \/ TableStep(b[n], a[n])
  BY <1>3
<1>6. Shown(a) /\ Shown(b)
  BY <1>1, <1>2, ViewShown
<1> QED
  BY <1>1, <1>2, <1>4, <1>5, <1>6 DEF StoreStep

\* An operation on the rows of a table.
LEMMA RowPerforms ==
    ASSUME NEW N, NEW R, NEW g, NEW n, NEW id, NEW s1, NEW g1, NEW R2, NEW def, NEW def2, NEW splits,
           RowWork(N, R, g, n, id, s1, g1, R2, def, def2, splits),
           torn = {} => TableStep(TableAt(file, def), TableAt(s1.file, def2)),
           NEW t, t = Save(s1, def2), NEW D, D = [by_name EXCEPT ![n] = def2]
    PROVE  Performs(n, t, cat_root, D, splits)
<1>1. RowsSaved(N, R2, n, s1, g1, def2, t, D)
  BY RowWorkSaved
<1>2. Passes(n, t, D, splits)
  BY <1>1, RowWorkPasses
<1>3. Fine(t.file, torn) /\ cat_root = t.file[0].catalog_root /\ D = LoadDefs(t.file, cat_root)
  BY <1>1 DEF RowsSaved, Fine
<1>4. \E F : Through(Here, t, F)
  <2>1. \E F : Through(Here, s1, F)
    BY OnwardThrough DEF RowWork
  <2>2. GoodStore(s1) /\ IsSeq(s1.writes) /\ OneWrite(s1, t)
    BY <1>1 DEF RowsSaved, RowWork, Onward, Replay
  <2>3. PICK F : Through(Here, s1, F)
    BY <2>1
  <2>4. PICK G : Through(s1, t, G)
    BY <2>2, ThroughOne
  <2> QED
    <3>1. PICK H : H = F \cup G
      OBVIOUS
    <3>2. F \subseteq H /\ G \subseteq H
      BY <3>1
    <3> QED
      BY <2>3, <2>4, <3>2, ThroughThen
<1>5. ASSUME torn = {}
      PROVE  StoreStep(View(file, by_name), View(t.file, D))
  <2>1. n \in Names /\ def = by_name[n]
    BY DEF RowWork
  <2>2. D[n] = def2 /\ OthersKept(t.file, D, n) /\ TableAt(t.file, def2) = TableAt(s1.file, def2)
    BY <1>1 DEF RowsSaved
  <2>3. TableStep(TableAt(file, by_name[n]), TableAt(t.file, D[n]))
    BY <1>5, <2>1, <2>2
  <2> QED
    BY <2>1, <2>2, <2>3, StepOf
<1> QED
  BY <1>2, <1>3, <1>4, <1>5 DEF Performs

\* Between two operations all of this is so.
LEMMA RowReady ==
    ASSUME NEW N, NEW R, NEW g, Ready(N, R, g), NEW n \in Names, by_name[n] # NoDef,
           NEW def, def = by_name[n], NEW id, id = def.table_id
    PROVE  /\ DefAt(N, R, g, n, def, id)
           /\ Begins(Ents(N, R), R, Here, g, id)
           /\ Here.file = file /\ Here.hdr = hdr
           /\ def # NoDef /\ def.table_id = id /\ def.name = n
           /\ Entry(id, def) \in CatEntries(N, R)
<1>1. DefAt(N, R, g, n, def, id)
  BY ReadyDef
<1>2. Begins(Ents(N, R), R, Here, g, id)
  BY <1>1, EntsFacts DEF Begins, Ready, Firm, DefAt
<1>3. Entry(id, def) \in CatEntries(N, R)
  BY DefFacts DEF Ready
<1> QED
  BY <1>1, <1>2, <1>3 DEF Ready, DefAt

\* What a table of a whole tree shows.
LEMMA TableShows ==
    ASSUME NEW N, NEW R, NEW f, NEW g, Firm(N, R, f, g), NEW i \in Nat, NEW def, def # NoDef,
           Whole(f, g, i, def.root_page, Values)
    PROVE  TableAt(f, def) = [rows |-> Rows(f, g, i), next_rowid |-> def.next_rowid]
<1>1. Shows(f, def.root_page, Rows(f, g, i), Values)
  BY WholeShows DEF Firm
<1>2. RowsAt(f, def.root_page) = Rows(f, g, i)
  BY <1>1 DEF Shows
<1> QED
  BY <1>2 DEF TableAt

\* The row of the key k in a whole tree.
LEMMA RowOf ==
    ASSUME NEW N, NEW R, NEW f, NEW g, Firm(N, R, f, g), NEW i \in Nat, NEW root,
           Whole(f, g, i, root, Values), NEW k \in Int, HasKey(Rows(f, g, i), k)
    PROVE  \E row \in Rows(f, g, i) :
             /\ row = Entry(row.key, row.value) /\ row.key = k
             /\ Others(Rows(f, g, i), k) = Rows(f, g, i) \ {row}
<1>1. PICK rows : rows = Rows(f, g, i)
  OBVIOUS
<1>2. Shows(f, root, rows, Values)
  BY <1>1, WholeShows DEF Firm
<1>3. PICK row \in rows : row.key = k
  BY <1>1 DEF HasKey
<1>4. \A d, e \in rows : d.key = e.key => d = e
  BY <1>2 DEF Shows
<1>5. row = Entry(row.key, row.value)
  BY <1>2, <1>3 DEF Shows
<1>6. Others(rows, k) = rows \ {row}
  BY <1>3, <1>4 DEF Others
<1> QED
  BY <1>1, <1>3, <1>5, <1>6

\* Row ids the counter of the table has passed.
Passed(rows, def) == \A x \in rows : x.key \in Int /\ x.key <= def.next_rowid

LEMMA RewriteWork ==
    ASSUME NEW N, NEW R, NEW g, Ready(N, R, g), NEW n \in Names, by_name[n] # NoDef,
           NEW def, def = by_name[n], NEW id, id = def.table_id,
           NEW u, SafeRewrite(Ents(N, R), R, Here, g, id, u), u.ok, NEW held,
           n \notin torn => /\ Rewrites(Ents(N, R), R, Here, g, id, def.root_page, Values, u, held)
                            /\ Passed(held, def)
    PROVE  RowWork(N, R, g, n, id, u.store, g, R, def, def, {})
<1>1. /\ OneWrite(Here, u.store) /\ Onward(Ents(N, R), R, Here, g, id, u.store, g)
  BY DEF SafeRewrite
<1>2. DefAt(N, R, g, n, def, id) /\ Entry(id, def) \in CatEntries(N, R) /\ def.name = n
      /\ Here.file = file /\ Here.hdr = hdr
  BY RowReady
<1>3. Firm(N, R, u.store.file, g)
  <2>1. Firm(N, R, Here.file, g) /\ id < Here.hdr.next_table_id
    BY <1>2 DEF Ready, DefAt
  <2> QED
    BY <1>1, <2>1, FirmOnward
<1>4. ASSUME n \notin torn
      PROVE  /\ Whole(u.store.file, g, id, def.root_page, Values)
             /\ \A x \in Rows(u.store.file, g, id) : x.key \in Int /\ x.key <= def.next_rowid
  BY <1>4 DEF Rewrites, Passed
<1>5. def.next_rowid <= def.next_rowid
  BY <1>2 DEF DefAt
<1> QED
  BY <1>1, <1>2, <1>3, <1>4, <1>5 DEF RowWork

\* The rows of a table that no crash has torn.
LEMMA SoundRows ==
    ASSUME NEW N, NEW R, NEW g, Ready(N, R, g), NEW n \in Names, by_name[n] # NoDef,
           NEW def, def = by_name[n], NEW id, id = def.table_id, n \notin torn
    PROVE  /\ Whole(file, g, id, def.root_page, Values)
           /\ Passed(Rows(file, g, id), def)
<1>1. DefAt(N, R, g, n, def, id) /\ Firm(N, R, file, g)
  BY RowReady DEF Ready
<1>2. SoundTable(file, g, Entry(id, def)) /\ id \in Nat
  BY <1>1 DEF DefAt
<1>3. PICK e : e = Entry(id, def)
  OBVIOUS
<1>4. e.key = id /\ e.value = def
  BY <1>3 DEF Entry
<1>5. /\ Whole(file, g, id, def.root_page, Values)
      /\ \A x \in Rows(file, g, id) : x.key <= def.next_rowid
  BY <1>2, <1>3, <1>4 DEF SoundTable
<1>6. Shows(file, def.root_page, Rows(file, g, id), Values)
  BY <1>1, <1>2, <1>5, WholeShows DEF Firm
<1> QED
  BY <1>5, <1>6 DEF Passed, Shows

\* What is saved by writing the definition back.
LEMMA SavedSame ==
    ASSUME NEW N, NEW R, NEW g, Ready(N, R, g), NEW n \in Names
    PROVE  by_name = [by_name EXCEPT ![n] = by_name[n]]
<1>1. by_name = [m \in Names |-> by_name[m]]
  BY DEF Ready, Known
<1> QED
  BY <1>1

LEMMA UpdateRowPerforms ==
    ASSUME NEW N, NEW R, NEW g, Ready(N, R, g), NEW n \in Names, by_name[n] # NoDef,
           NEW k \in Int, NEW v \in Values,
           NEW u, u = Update(Here, by_name[n].root_page, k, v), u.ok,
           NEW t, t = Save(u.store, by_name[n])
    PROVE  Performs(n, t, cat_root, by_name, {})
<1>1. PICK def : def = by_name[n]
  OBVIOUS
<1>2. PICK id : id = def.table_id
  OBVIOUS
<1>3. /\ DefAt(N, R, g, n, def, id) /\ Begins(Ents(N, R), R, Here, g, id)
      /\ Here.file = file /\ def # NoDef
  BY <1>1, <1>2, RowReady
<1>4. id \in Nat \ {0} /\ def.root_page \in Written(file, g, id) /\ def.next_rowid \in Nat
  BY <1>3 DEF DefAt
<1>5. Entry(k, v) \in Ents(N, R)[id]
  BY <1>4, RowEntry
<1>6. SafeRewrite(Ents(N, R), R, Here, g, id, u)
  BY <1>1, <1>3, <1>4, <1>5, UpdateSteps
<1>7. PICK rows : rows = Rows(file, g, id)
  OBVIOUS
<1>8. PICK held : held = Others(rows, k) \cup {Entry(k, v)}
  OBVIOUS
<1>9. ASSUME n \notin torn
      PROVE  /\ Rewrites(Ents(N, R), R, Here, g, id, def.root_page, Values, u, held)
             /\ Passed(held, def) /\ Whole(file, g, id, def.root_page, Values) /\ HasKey(rows, k)
  <2>1. Whole(file, g, id, def.root_page, Values) /\ Passed(rows, def)
    BY <1>1, <1>2, <1>7, <1>9, SoundRows
  <2>2. Whole(Here.file, g, id, def.root_page, Values) /\ def.root_page \in Written(Here.file, g, id)
    BY <1>3, <1>4, <2>1
  <2>3. IF HasKey(Rows(Here.file, g, id), k)
        THEN Rewrites(Ents(N, R), R, Here, g, id, def.root_page, Values, u,
                      Others(Rows(Here.file, g, id), k) \cup {Entry(k, v)})
        ELSE Refused(Here, u)
    BY <1>1, <1>3, <1>5, <2>2, WholeUpdate
  <2>4. HasKey(rows, k) /\ Rewrites(Ents(N, R), R, Here, g, id, def.root_page, Values, u, held)
    BY <1>3, <1>7, <1>8, <2>3 DEF Refused
  <2>5. Passed(held, def)
    <3>1. PICK row \in rows : row.key = k
      BY <2>4 DEF HasKey
    <3> QED
      BY <1>8, <2>1, <3>1 DEF Passed, Others, Entry
  <2> QED
    BY <2>1, <2>4, <2>5
<1>10. RowWork(N, R, g, n, id, u.store, g, R, def, def, {})
  BY <1>1, <1>2, <1>6, <1>9, RewriteWork
<1>11. ASSUME torn = {}
       PROVE  TableStep(TableAt(file, def), TableAt(u.store.file, def))
  <2>1. /\ Whole(file, g, id, def.root_page, Values) /\ HasKey(rows, k)
        /\ Whole(u.store.file, g, id, def.root_page, Values) /\ Rows(u.store.file, g, id) = held
    BY <1>9, <1>11 DEF Rewrites
  <2>2. Firm(N, R, file, g) /\ Firm(N, R, u.store.file, g)
    BY <1>10 DEF RowWork, Ready
  <2>3. /\ TableAt(file, def) = [rows |-> rows, next_rowid |-> def.next_rowid]
        /\ TableAt(u.store.file, def) = [rows |-> held, next_rowid |-> def.next_rowid]
    BY <1>3, <1>4, <1>7, <2>1, <2>2, TableShows
  <2>4. PICK row \in rows : /\ row = Entry(row.key, row.value) /\ row.key = k
                            /\ Others(rows, k) = rows \ {row}
    BY <1>4, <1>7, <2>1, <2>2, RowOf
  <2>5. PICK x : x = TableAt(file, def)
    OBVIOUS
  <2>6. PICK y : y = TableAt(u.store.file, def)
    OBVIOUS
  <2>7. row \in x.rows /\ x.rows = rows /\ x.next_rowid = def.next_rowid
    BY <2>3, <2>4, <2>5
  <2>8. y = [rows |-> (x.rows \ {row}) \cup {Entry(row.key, v)}, next_rowid |-> x.next_rowid]
    BY <1>8, <2>3, <2>4, <2>6, <2>7
  <2> QED
    BY <2>4, <2>5, <2>6, <2>7, <2>8 DEF TableStep
<1>12. by_name = [by_name EXCEPT ![n] = def]
  BY <1>1, SavedSame
<1> QED
  BY <1>1, <1>10, <1>11, <1>12, RowPerforms

LEMMA DeleteRowPerforms ==
    ASSUME NEW N, NEW R, NEW g, Ready(N, R, g), NEW n \in Names, by_name[n] # NoDef,
           NEW k \in Int, NEW u, u = RemoveKey(Here, by_name[n].root_page, k), u.ok,
           NEW t, t = Save(u.store, by_name[n])
    PROVE  Performs(n, t, cat_root, by_name, {})
<1>1. PICK def : def = by_name[n]
  OBVIOUS
<1>2. PICK id : id = def.table_id
  OBVIOUS
<1>3. /\ DefAt(N, R, g, n, def, id) /\ Begins(Ents(N, R), R, Here, g, id)
      /\ Here.file = file /\ def # NoDef
  BY <1>1, <1>2, RowReady
<1>4. id \in Nat \ {0} /\ def.root_page \in Written(file, g, id) /\ def.next_rowid \in Nat
  BY <1>3 DEF DefAt
<1>6. SafeRewrite(Ents(N, R), R, Here, g, id, u)
  BY <1>1, <1>3, <1>4, RemoveSteps
<1>7. PICK rows : rows = Rows(file, g, id)
  OBVIOUS
<1>8. PICK held : held = Others(rows, k)
  OBVIOUS
<1>9. ASSUME n \notin torn
      PROVE  /\ Rewrites(Ents(N, R), R, Here, g, id, def.root_page, Values, u, held)
             /\ Passed(held, def) /\ Whole(file, g, id, def.root_page, Values) /\ HasKey(rows, k)
  <2>1. Whole(file, g, id, def.root_page, Values) /\ Passed(rows, def)
    BY <1>1, <1>2, <1>7, <1>9, SoundRows
  <2>2. Whole(Here.file, g, id, def.root_page, Values) /\ def.root_page \in Written(Here.file, g, id)
    BY <1>3, <1>4, <2>1
  <2>3. IF HasKey(Rows(Here.file, g, id), k)
        THEN Rewrites(Ents(N, R), R, Here, g, id, def.root_page, Values, u,
                      Others(Rows(Here.file, g, id), k))
        ELSE Refused(Here, u)
    BY <1>1, <1>3, <2>2, WholeRemove
  <2>4. HasKey(rows, k) /\ Rewrites(Ents(N, R), R, Here, g, id, def.root_page, Values, u, held)
    BY <1>3, <1>7, <1>8, <2>3 DEF Refused
  <2>5. Passed(held, def)
    BY <1>8, <2>1 DEF Passed, Others
  <2> QED
    BY <2>1, <2>4, <2>5
<1>10. RowWork(N, R, g, n, id, u.store, g, R, def, def, {})
  BY <1>1, <1>2, <1>6, <1>9, RewriteWork
<1>11. ASSUME torn = {}
       PROVE  TableStep(TableAt(file, def), TableAt(u.store.file, def))
  <2>1. /\ Whole(file, g, id, def.root_page, Values) /\ HasKey(rows, k)
        /\ Whole(u.store.file, g, id, def.root_page, Values) /\ Rows(u.store.file, g, id) = held
    BY <1>9, <1>11 DEF Rewrites
  <2>2. Firm(N, R, file, g) /\ Firm(N, R, u.store.file, g)
    BY <1>10 DEF RowWork, Ready
  <2>3. /\ TableAt(file, def) = [rows |-> rows, next_rowid |-> def.next_rowid]
        /\ TableAt(u.store.file, def) = [rows |-> held, next_rowid |-> def.next_rowid]
    BY <1>3, <1>4, <1>7, <2>1, <2>2, TableShows
  <2>4. PICK row \in rows : /\ row = Entry(row.key, row.value) /\ row.key = k
                            /\ Others(rows, k) = rows \ {row}
    BY <1>4, <1>7, <2>1, <2>2, RowOf
  <2>5. PICK x : x = TableAt(file, def)
    OBVIOUS
  <2>6. PICK y : y = TableAt(u.store.file, def)
    OBVIOUS
  <2>7. row \in x.rows /\ x.rows = rows /\ x.next_rowid = def.next_rowid
    BY <2>3, <2>4, <2>5
  <2>8. y = [rows |-> x.rows \ {row}, next_rowid |-> x.next_rowid]
    BY <1>8, <2>3, <2>4, <2>6, <2>7
  <2> QED
    BY <2>4, <2>5, <2>6, <2>7, <2>8 DEF TableStep
<1>12. by_name = [by_name EXCEPT ![n] = def]
  BY <1>1, SavedSame
<1> QED
  BY <1>1, <1>10, <1>11, <1>12, RowPerforms

\* An action that begins such an operation.
Begun(n) ==
    \E t, root, defs, splits : /\ Performs(n, t, root, defs, splits)
                               /\ Begin(n, t, root, defs, splits)

LEMMA UpdateRowBegun ==
    ASSUME NEW N, NEW R, NEW g, Ready(N, R, g), NEW n \in Names, NEW k \in Int, NEW v \in Values,
           UpdateRow(n, k, v)
    PROVE  Begun(n)
<1>1. PICK u : u = Update(Here, by_name[n].root_page, k, v)
  OBVIOUS
<1>2. PICK t : t = Save(u.store, by_name[n])
  OBVIOUS
<1>3. by_name[n] # NoDef /\ u.ok /\ Begin(n, t, cat_root, by_name, {})
  BY <1>1, <1>2 DEF UpdateRow
<1>4. Performs(n, t, cat_root, by_name, {})
  BY <1>1, <1>2, <1>3, UpdateRowPerforms
<1> QED
  BY <1>3, <1>4 DEF Begun

LEMMA DeleteRowBegun ==
    ASSUME NEW N, NEW R, NEW g, Ready(N, R, g), NEW n \in Names, NEW k \in Int, DeleteRow(n, k)
    PROVE  Begun(n)
<1>1. PICK u : u = RemoveKey(Here, by_name[n].root_page, k)
  OBVIOUS
<1>2. PICK t : t = Save(u.store, by_name[n])
  OBVIOUS
<1>3. by_name[n] # NoDef /\ u.ok /\ Begin(n, t, cat_root, by_name, {})
  BY <1>1, <1>2 DEF DeleteRow
<1>4. Performs(n, t, cat_root, by_name, {})
  BY <1>1, <1>2, <1>3, DeleteRowPerforms
<1> QED
  BY <1>3, <1>4 DEF Begun

LEMMA InsertRowBegun ==
    ASSUME NEW N, NEW R, NEW g, Ready(N, R, g), NEW n \in Names, NEW v \in Values,
           InsertRow(n, v)
    PROVE  Begun(n)
<1>1. PICK def : def = by_name[n]
  OBVIOUS
<1>2. PICK id : id = def.table_id
  OBVIOUS
<1>3. PICK r : r = Insert(Here, def.root_page, def.next_rowid, v)
  OBVIOUS
<1>4. PICK saved : saved = [def EXCEPT !.root_page = r.root, !.next_rowid = @ + 1]
  OBVIOUS
<1>5. PICK t : t = Save(r.store, saved)
  OBVIOUS
<1>6. PICK D : D = [by_name EXCEPT ![n] = saved]
  OBVIOUS
<1>7. PICK splits : splits = IF Grown(Here, r.store) THEN {n} ELSE {}
  OBVIOUS
<1>8. /\ by_name[n] # NoDef /\ def.next_rowid <= MaxRowid[n] /\ r.ok
      /\ Begin(n, t, cat_root, D, splits)
  BY <1>1, <1>3, <1>4, <1>5, <1>6, <1>7 DEF InsertRow
<1>9. /\ DefAt(N, R, g, n, def, id) /\ Begins(Ents(N, R), R, Here, g, id)
      /\ Here.file = file /\ Here.hdr = hdr /\ def # NoDef /\ def.name = n
      /\ Firm(N, R, file, g) /\ Arrives(N, R, Here, Here, g)
      /\ Known(N, R, hdr, cat_root, by_name)
  <2>1. /\ DefAt(N, R, g, n, def, id) /\ Begins(Ents(N, R), R, Here, g, id)
        /\ Here.file = file /\ Here.hdr = hdr /\ def # NoDef /\ def.name = n
    BY <1>1, <1>2, <1>8, RowReady
  <2>2. /\ Firm(N, R, Here.file, g) /\ GoodStore(Here) /\ IsSeq(Here.writes)
        /\ Known(N, R, hdr, cat_root, by_name)
    BY <2>1 DEF Ready
  <2>3. Arrives(N, R, Here, Here, g)
    BY <2>2, ArrivesNone
  <2> QED
    BY <2>1, <2>2, <2>3
<1>10. /\ id \in Nat \ {0} /\ def.root_page \in Written(file, g, id) /\ def.next_rowid \in Nat
       /\ N[id] = n /\ id < hdr.next_table_id
       /\ def \in [table_id : 1 .. MaxTableId, name : {n},
                   root_page : PageId \ {0}, next_rowid : 1 .. MaxRowid[n] + 1]
  BY <1>9 DEF DefAt
<1>11. /\ SafeInsert(Ents(N, R), R, Here, g, id, def.root_page, r) /\ r.ok = TRUE
       /\ hdr.num_pages + g.lvl[def.root_page] + 2 <= MaxPages
  BY <1>1, <1>2, <1>3, <1>9, InsertRowSteps
<1>12. PICK g1 : /\ Onward(Ents(N, R), R, Here, g, id, r.store, g1)
                 /\ r.root \in Written(r.store.file, g1, id)
  BY <1>11 DEF SafeInsert
<1>13. PICK R2 : R2 = R \cup {<<id, r.root>>}
  OBVIOUS
<1>14. Firm(N, R, r.store.file, g1) /\ Firm(N, R2, r.store.file, g1)
  <2>1. Firm(N, R, Here.file, g) /\ id < Here.hdr.next_table_id
    BY <1>9, <1>10
  <2>2. Firm(N, R, r.store.file, g1)
    BY <1>12, <2>1, FirmOnward
  <2> QED
    BY <1>10, <1>12, <1>13, <2>2, FirmRoot
<1>15. /\ saved \in [table_id : 1 .. MaxTableId, name : {n},
                     root_page : PageId \ {0}, next_rowid : 1 .. MaxRowid[n] + 1]
       /\ saved.table_id = id /\ saved.root_page = r.root /\ saved.name = n
       /\ saved.next_rowid = def.next_rowid + 1
  <2>1. r.root \in PageId \ {0}
    BY <1>10, <1>12, <1>14, WrittenFacts DEF Firm
  <2>2. MaxRowid[n] \in Nat
    BY EngineAssumption
  <2>3. def.next_rowid + 1 \in 1 .. MaxRowid[n] + 1
    BY <1>8, <1>10, <2>2
  <2>4. saved = [table_id |-> def.table_id, name |-> def.name, root_page |-> r.root,
                 next_rowid |-> def.next_rowid + 1]
    BY <1>4, <1>10
  <2> QED
    BY <1>2, <1>9, <1>10, <2>1, <2>3, <2>4
<1>16. Entry(id, saved) \in CatEntries(N, R2) /\ saved # NoDef
  <2>1. Entry(saved.table_id, saved) \in CatEntries(N, R2)
    BY <1>10, <1>13, <1>15, EntryIs
  <2>2. saved.table_id # 0 /\ NoDef.table_id = 0
    BY <1>10, <1>15 DEF NoDef
  <2> QED
    BY <1>15, <2>1, <2>2
<1>17. PICK rows : rows = Rows(file, g, id)
  OBVIOUS
<1>18. PICK held : held = rows \cup {Entry(def.next_rowid, v)}
  OBVIOUS
<1>19. ASSUME n \notin torn
       PROVE  /\ Whole(file, g, id, def.root_page, Values)
              /\ Whole(r.store.file, g1, id, r.root, Values)
              /\ Rows(r.store.file, g1, id) = held /\ Passed(held, def)
  <2>1. Whole(file, g, id, def.root_page, Values) /\ Passed(rows, def)
    BY <1>1, <1>2, <1>8, <1>17, <1>19, SoundRows
  <2>2. /\ Whole(Here.file, g, id, def.root_page, Values)
        /\ def.root_page \in Written(Here.file, g, id)
        /\ Here.hdr.num_pages + g.lvl[def.root_page] + 2 <= MaxPages
        /\ def.next_rowid \in Int
    BY <1>9, <1>10, <1>11, <2>1
  <2>3. \A g2 : r.ok = TRUE /\ Onward(Ents(N, R), R, Here, g, id, r.store, g2) =>
           /\ Whole(r.store.file, g2, id, r.root, Values)
           /\ Rows(r.store.file, g2, id) = Rows(Here.file, g, id) \cup {Entry(def.next_rowid, v)}
    <3>1. PICK k : k = def.next_rowid
      OBVIOUS
    <3>2. PICK root : root = def.root_page
      OBVIOUS
    <3>3. /\ Whole(Here.file, g, id, root, Values) /\ root \in Written(Here.file, g, id)
          /\ Here.hdr.num_pages + g.lvl[root] + 2 <= MaxPages
          /\ k \in Int /\ r = Insert(Here, root, k, v)
          /\ Begins(Ents(N, R), R, Here, g, id)
      BY <1>3, <1>9, <2>2, <3>1, <3>2
    <3>4. Takes(Ents(N, R), R, Here, g, id, Values, k, v, r)
      BY <3>3, WholeInsert
    <3> QED
      BY <3>1, <3>4 DEF Takes
  <2>4. /\ Whole(r.store.file, g1, id, r.root, Values)
        /\ Rows(r.store.file, g1, id) = held
    BY <1>9, <1>11, <1>12, <1>17, <1>18, <2>3
  <2>5. Passed(held, def)
    BY <1>10, <1>18, <2>1 DEF Passed, Entry
  <2> QED
    BY <2>1, <2>4, <2>5
<1>20. \/ splits = {n}
       \/ splits = {} /\ OneWrite(Here, r.store) /\ saved.root_page = def.root_page
  <2>1. CASE Grown(Here, r.store)
    BY <1>7, <2>1
  <2>2. CASE ~Grown(Here, r.store)
    <3>1. r.store.hdr.num_pages = Here.hdr.num_pages
      <4>1. Here.hdr.num_pages <= r.store.hdr.num_pages
        BY <1>12 DEF Onward, Counts
      <4>2. Here.hdr.num_pages \in Nat /\ r.store.hdr.num_pages \in Nat
        BY <1>12 DEF Onward, GoodStore, GoodHeader
      <4> QED
        BY <2>2, <4>1, <4>2 DEF Grown
    <3>2. r.root = def.root_page /\ OneWrite(Here, r.store)
      BY <1>11, <3>1 DEF SafeInsert
    <3> QED
      BY <1>7, <1>15, <2>2, <3>2
  <2> QED
    BY <2>1, <2>2
<1>21. RowWork(N, R, g, n, id, r.store, g1, R2, def, saved, splits)
  <2>1. R \subseteq R2 /\ def.next_rowid <= saved.next_rowid
    BY <1>10, <1>13, <1>15
  <2>2. n \notin torn => /\ Whole(r.store.file, g1, id, saved.root_page, Values)
                         /\ \A x \in Rows(r.store.file, g1, id) :
                              x.key \in Int /\ x.key <= def.next_rowid
    BY <1>15, <1>19 DEF Passed
  <2> QED
    BY <1>1, <1>2, <1>8, <1>12, <1>14, <1>15, <1>16, <1>20, <2>1, <2>2 DEF RowWork
<1>22. ASSUME torn = {}
       PROVE  TableStep(TableAt(file, def), TableAt(r.store.file, saved))
  <2>1. /\ Whole(file, g, id, def.root_page, Values)
        /\ Whole(r.store.file, g1, id, saved.root_page, Values) /\ Rows(r.store.file, g1, id) = held
    BY <1>15, <1>19, <1>22
  <2>2. PICK x : x = TableAt(file, def)
    OBVIOUS
  <2>3. PICK y : y = TableAt(r.store.file, saved)
    OBVIOUS
  <2>4. x = [rows |-> rows, next_rowid |-> def.next_rowid]
    BY <1>9, <1>10, <1>17, <2>1, <2>2, TableShows
  <2>5. y = [rows |-> held, next_rowid |-> saved.next_rowid]
    BY <1>10, <1>14, <1>16, <2>1, <2>3, TableShows
  <2>6. x.rows = rows /\ x.next_rowid = def.next_rowid
    BY <2>4
  <2>7. y = [rows |-> x.rows \cup {Entry(x.next_rowid, v)}, next_rowid |-> x.next_rowid + 1]
    BY <1>15, <1>18, <2>5, <2>6
  <2>8. x # NoRows
    BY <1>10, <2>6 DEF NoRows
  <2> QED
    BY <2>2, <2>3, <2>7, <2>8 DEF TableStep
<1>23. Performs(n, t, cat_root, D, splits)
  BY <1>5, <1>6, <1>21, <1>22, RowPerforms
<1> QED
  BY <1>8, <1>23 DEF Begun

-----------------------------------------------------------------------------
(* Operations on the catalog.                                              *)

\* What a process loads is what the entries of the catalog list.
LEMMA CatalogLoads ==
    ASSUME NEW N, NEW R, NEW f, NEW g, Firm(N, R, f, g), NEW B, Intact(f, g, B),
           NEW rows, rows = Rows(f, g, 0), NEW D, Lists(rows, D)
    PROVE  D = LoadDefs(f, f[0].catalog_root)
<1>1. Lists(rows, LoadDefs(f, f[0].catalog_root)) /\ OneName(rows)
  BY LoadedLists DEF Intact
<1>2. \A e \in rows : e.value # NoDef
  <2>1. ASSUME NEW e \in rows
        PROVE  e.value # NoDef
    <3>1. e \in CatEntries(N, R)
      BY FirmFacts
    <3> QED
      BY <3>1, CatEntryFacts
  <2> QED
    BY <2>1
<1> QED
  BY <1>1, <1>2, ListsOne

\* The catalog between two operations.
CatalogAt(N, R, g, rows) ==
    /\ rows = Rows(file, g, 0) /\ OneName(rows) /\ Lists(rows, by_name)
    /\ Whole(file, g, 0, cat_root, DefRecords)
    /\ cat_root \in Written(file, g, 0) /\ 0 < hdr.next_table_id /\ <<0, cat_root>> \in R
    /\ Begins(Ents(N, R), R, Here, g, 0)
    /\ \A d, e \in rows : d.key = e.key => d = e
    /\ \A e \in rows : /\ e.key = e.value.table_id /\ e.key < hdr.next_table_id
                       /\ e.value.name \notin torn => SoundTable(file, g, e)

LEMMA ReadyCatalog ==
    ASSUME NEW N, NEW R, NEW g, Ready(N, R, g), NEW rows, rows = Rows(file, g, 0)
    PROVE  CatalogAt(N, R, g, rows)
<1>1. /\ Firm(N, R, file, g) /\ Intact(file, g, torn) /\ GoodStore(Here) /\ IsSeq(Here.writes)
      /\ Here.file = file /\ hdr = file[0] /\ cat_root = file[0].catalog_root
      /\ Lists(rows, by_name)
  BY DEF Ready
<1>2. /\ Sane(Ents(N, R), R, file, g) /\ cat_root \in Written(file, g, 0)
      /\ rows \subseteq CatEntries(N, R)
  BY <1>1, FirmFacts
<1>3. <<0, cat_root>> \in R
  BY <1>1 DEF Firm, Numbered
<1>4. 0 < hdr.next_table_id
  BY <1>1, <1>3, RootFacts
<1>5. Begins(Ents(N, R), R, Here, g, 0)
  BY <1>1, <1>2, EntsFacts DEF Begins
<1>6. /\ OneName(rows) /\ Whole(file, g, 0, cat_root, DefRecords)
      /\ \A e \in rows : e.value.name \notin torn => SoundTable(file, g, e)
  BY <1>1 DEF Intact
<1>7. Shows(file, cat_root, rows, DefRecords)
  BY <1>2, <1>6, WholeShows
<1>8. ASSUME NEW e \in rows
      PROVE  e.key = e.value.table_id /\ e.key < hdr.next_table_id
  <2>1. e \in CatEntries(N, R)
    BY <1>2
  <2>2. e.key = e.value.table_id /\ <<e.key, e.value.root_page>> \in R
    BY <2>1, CatEntryFacts
  <2>3. PICK i : i = e.key
    OBVIOUS
  <2>4. PICK q : q = e.value.root_page
    OBVIOUS
  <2>5. i < file[0].next_table_id
    BY <1>1, <2>2, <2>3, <2>4, RootFacts
  <2> QED
    BY <1>1, <2>2, <2>3, <2>5
<1>9. \A d, e \in rows : d.key = e.key => d = e
  BY <1>7 DEF Shows
<1> QED
  BY <1>1, <1>2, <1>3, <1>4, <1>5, <1>6, <1>8, <1>9 DEF CatalogAt

LEMMA DropTableBegun ==
    ASSUME NEW N, NEW R, NEW g, Ready(N, R, g), NEW n \in Names, DropTable(n)
    PROVE  Begun(n)
<1>1. PICK def : def = by_name[n]
  OBVIOUS
<1>2. PICK id : id = def.table_id
  OBVIOUS
<1>3. PICK u : u = RemoveKey(Here, cat_root, id)
  OBVIOUS
<1>4. PICK t : t = SyncRoot(u.store, cat_root)
  OBVIOUS
<1>5. PICK D : D = [by_name EXCEPT ![n] = NoDef]
  OBVIOUS
<1>6. by_name[n] # NoDef /\ Begin(n, t, cat_root, D, {})
  BY <1>1, <1>2, <1>3, <1>4, <1>5 DEF DropTable
<1>7. /\ DefAt(N, R, g, n, def, id) /\ Here.file = file /\ Here.hdr = hdr /\ def # NoDef
      /\ Firm(N, R, file, g) /\ Firm(N, R, Here.file, g) /\ hdr = file[0]
      /\ cat_root = file[0].catalog_root /\ GoodStore(Here) /\ IsSeq(Here.writes)
  BY <1>1, <1>2, <1>6, RowReady DEF Ready
<1>8. PICK rows : rows = Rows(file, g, 0)
  OBVIOUS
<1>9. CatalogAt(N, R, g, rows)
  BY <1>8, ReadyCatalog
<1>10. id \in Int /\ id \in Nat \ {0} /\ Entry(id, def) \in rows /\ def.next_rowid \in Nat \ {0}
  BY <1>7, <1>8 DEF DefAt
<1>11. PICK held : held = Others(rows, id)
  OBVIOUS
<1>12. Rewrites(Ents(N, R), R, Here, g, 0, cat_root, DefRecords, u, held)
  <2>1. HasKey(rows, id)
    BY <1>10 DEF HasKey, Entry
  <2>2. /\ Begins(Ents(N, R), R, Here, g, 0) /\ cat_root \in Written(Here.file, g, 0)
        /\ Whole(Here.file, g, 0, cat_root, DefRecords)
    BY <1>7, <1>9 DEF CatalogAt
  <2>3. IF HasKey(Rows(Here.file, g, 0), id)
        THEN Rewrites(Ents(N, R), R, Here, g, 0, cat_root, DefRecords, u,
                      Others(Rows(Here.file, g, 0), id))
        ELSE Refused(Here, u)
    BY <1>3, <1>10, <2>2, WholeRemove
  <2> QED
    BY <1>7, <1>8, <1>11, <2>1, <2>3
<1>13. t = u.store
  <2>1. u.store.hdr.catalog_root = cat_root
    BY <1>7, <1>12 DEF Rewrites
  <2> QED
    BY <1>4, <2>1 DEF SyncRoot
<1>14. /\ OneWrite(Here, t) /\ Onward(Ents(N, R), R, Here, g, 0, t, g)
       /\ Whole(t.file, g, 0, cat_root, DefRecords) /\ Rows(t.file, g, 0) = held
  BY <1>12, <1>13 DEF Rewrites
<1>15. Firm(N, R, t.file, g) /\ Same(file, g, t.file, g, 0) /\ t.file[0].catalog_root = cat_root
  <2>1. 0 < Here.hdr.next_table_id /\ 0 \in Nat
    BY <1>7, <1>9 DEF CatalogAt
  <2>2. /\ Firm(N, R, t.file, g) /\ Same(Here.file, g, t.file, g, 0)
        /\ t.file[0].catalog_root = Here.file[0].catalog_root
    BY <1>7, <1>14, <2>1, OnwardChanged
  <2> QED
    BY <1>7, <2>2
<1>16. OneName(held) /\ Lists(held, D)
  <2>1. /\ OneName(rows) /\ Lists(rows, by_name)
        /\ \A d, e \in rows : d.key = e.key => d = e
        /\ \A e \in rows : e.key = e.value.table_id
    BY <1>9 DEF CatalogAt
  <2>2. held = Others(rows, by_name[n].table_id)
    BY <1>1, <1>2, <1>11
  <2> QED
    BY <1>5, <1>6, <2>1, <2>2, ListsRemove
<1>17. Intact(t.file, g, torn)
  <2>1. \A e \in Rows(t.file, g, 0) : e.value.name \notin torn => SoundTable(file, g, e)
    BY <1>9, <1>11, <1>14 DEF CatalogAt, Others
  <2>2. /\ Whole(t.file, g, 0, t.file[0].catalog_root, DefRecords) /\ OneName(Rows(t.file, g, 0))
    BY <1>14, <1>15, <1>16
  <2> QED
    BY <1>15, <2>1, <2>2, CatalogChanged
<1>18. D = LoadDefs(t.file, t.file[0].catalog_root)
  BY <1>14, <1>15, <1>16, <1>17, CatalogLoads
<1>19. D[n] = NoDef /\ \A m \in Names \ {n} : D[m] = by_name[m]
  <2>1. by_name = [m \in Names |-> by_name[m]]
    BY <1>9 DEF CatalogAt, Lists
  <2> QED
    BY <1>5, <2>1
<1>20. OthersKept(t.file, D, n)
  <2>1. \A m \in Names \ {n} : by_name[m] # NoDef => by_name[m].table_id # id
    <3> SUFFICES ASSUME NEW m \in Names \ {n}, by_name[m] # NoDef
                 PROVE  by_name[m].table_id # id
      OBVIOUS
    <3>1. DefAt(N, R, g, m, by_name[m], by_name[m].table_id)
      BY ReadyDef
    <3> QED
      BY <1>7, <3>1 DEF DefAt
  <2>2. \A j \in Nat \ {0, id} : Agree(file, t.file, g, j)
    BY <1>15 DEF Same
  <2> QED
    BY <1>15, <1>19, <2>1, <2>2, OthersSame
<1>21. Passes(n, t, D, {})
  <2>1. Through(Here, t, {file, t.file})
    BY <1>7, <1>14, ThroughOne
  <2>2. PICK F : F = {file, t.file}
    OBVIOUS
  <2>3. Bears(t.file, n, {}, t, D)
    BY <1>15, <1>17, <1>18, FinalBears
  <2>4. Bears(file, n, {}, t, D)
    BY <1>20, InitialBears
  <2> QED
    BY <2>1, <2>2, <2>3, <2>4 DEF Passes
<1>22. \E F : Through(Here, t, F)
  BY <1>14, OnwardThrough
<1>23. TableStep(TableAt(file, by_name[n]), TableAt(t.file, D[n]))
  <2>1. TableAt(t.file, D[n]) = NoRows
    BY <1>19 DEF TableAt, NoRows
  <2>2. TableAt(file, by_name[n]).next_rowid = def.next_rowid
    BY <1>1, <1>6 DEF TableAt
  <2>3. TableAt(file, by_name[n]) # NoRows
    BY <1>10, <2>2 DEF NoRows
  <2> QED
    BY <2>1, <2>3 DEF TableStep
<1>24. StoreStep(View(file, by_name), View(t.file, D))
  BY <1>20, <1>23, StepOf
<1>25. Fine(t.file, torn)
  BY <1>15, <1>17 DEF Fine
<1>26. Performs(n, t, cat_root, D, {})
  BY <1>15, <1>18, <1>21, <1>22, <1>24, <1>25 DEF Performs
<1> QED
  BY <1>6, <1>26 DEF Begun

-----------------------------------------------------------------------------
(* create_table.                                                           *)

\* No table has the number that comes next.
LEMMA FreshNumber ==
    ASSUME NEW N, NEW R, NEW g, Ready(N, R, g), NEW n \in Names, by_name[n] = NoDef,
           NEW id, id = hdr.next_table_id, id \in Nat \ {0}
    PROVE  /\ \A m \in Names \ {n} : by_name[m] # NoDef => by_name[m].table_id # id
           /\ \A e \in Rows(file, g, 0) : e.key # id
<1>1. ASSUME NEW m \in Names \ {n}, by_name[m] # NoDef
      PROVE  by_name[m].table_id # id
  <2>1. DefAt(N, R, g, m, by_name[m], by_name[m].table_id)
    BY <1>1, ReadyDef
  <2> QED
    BY <2>1 DEF DefAt
<1>2. PICK rows : rows = Rows(file, g, 0)
  OBVIOUS
<1>3. CatalogAt(N, R, g, rows)
  BY <1>2, ReadyCatalog
<1>4. \A e \in rows : e.key # id
  BY <1>3 DEF CatalogAt
<1> QED
  BY <1>1, <1>2, <1>4

\* A file in which only the tree of that number has changed.
LEMMA FreshBears ==
    ASSUME NEW N, NEW R, NEW g, Ready(N, R, g), NEW n \in Names, by_name[n] = NoDef,
           NEW id, id = hdr.next_table_id, id \in Nat \ {0},
           NEW N2, NEW R2, NEW f, NEW g2, Firm(N2, R2, f, g2), Same(file, g, f, g2, id),
           f[0].catalog_root = cat_root, NEW t, NEW D, OthersKept(t.file, D, n), NEW splits
    PROVE  Bears(f, n, splits, t, D)
<1>1. /\ \A m \in Names \ {n} : by_name[m] # NoDef => by_name[m].table_id # id
      /\ \A e \in Rows(file, g, 0) : e.key # id
  BY FreshNumber
<1>2. TableAt(f, by_name[n]) = TableAt(file, by_name[n])
  BY DEF TableAt
<1>3. Excused(f, g, g2, n, id, splits, t, D)
  BY <1>1, <1>2 DEF Excused
<1> QED
  BY <1>1, <1>3, ChangedBears

\* The tree 0 is that of the catalog, and no tree has the page of the header.
LEMMA HeaderAgree ==
    ASSUME NEW N, NEW R, NEW f, NEW g, Firm(N, R, f, g),
           NEW f2, \A q \in PageId \ {0} : f2[q] = f[q], NEW i
    PROVE  Same(f, g, f2, g, i)
<1>1. g.owner[0] = -1
  BY OwnedPages DEF Firm
<1>2. ASSUME NEW j \in Nat, NEW q \in Pages(g, j)
      PROVE  f2[q] = f[q]
  BY <1>1, <1>2 DEF Pages
<1> QED
  BY <1>2 DEF Same, Agree

LEMMA SameBoth ==
    ASSUME NEW f, NEW g, NEW f2, NEW g2, NEW i, Same(f, g, f2, g2, i),
           NEW f3, NEW g3, Same(f2, g2, f3, g3, i)
    PROVE  Same(f, g, f3, g3, i)
<1>1. \A j \in Nat \ {i, i} : Pages(g3, j) = Pages(g, j) /\ Agree(f, f3, g, j)
  BY SameThen
<1> QED
  BY <1>1 DEF Same

\* The number is counted and the empty tree made.
Starts(N, R, g, n, id, counted, s1, s2, p, g2) ==
    /\ Ready(N, R, g) /\ n \in Names /\ by_name[n] = NoDef
    /\ Numbers(id, counted, s1, s2, p) /\ Counted(R, id, counted, s1, s2, p)
    /\ Firm(N, R, s1.file, g) /\ GoodStore(s1) /\ IsSeq(s1.writes)
    /\ Onward(Ents(N, R), R, s1, g, id, s2, g2)

LEMMA StartsFacts ==
    ASSUME NEW N, NEW R, NEW g, NEW n, NEW id, NEW counted, NEW s1, NEW s2, NEW p, NEW g2,
           Starts(N, R, g, n, id, counted, s1, s2, p, g2)
    PROVE  /\ id = hdr.next_table_id /\ id \in Nat \ {0} /\ id < s1.hdr.next_table_id
           /\ s1.hdr = s1.file[0] /\ s1.file[0].catalog_root = cat_root
           /\ Same(file, g, s1.file, g, id)
           /\ Firm(N, R, s2.file, g2) /\ Same(file, g, s2.file, g2, id)
           /\ s2.file[0].catalog_root = cat_root /\ s2.hdr = s2.file[0]
<1>1. /\ id = hdr.next_table_id /\ counted = [hdr EXCEPT !.next_table_id = @ + 1]
      /\ id \in 1 .. MaxTableId /\ Puts(Here, counted, 0, counted, s1) /\ s1.hdr = counted
      /\ cat_root = hdr.catalog_root /\ GoodHeader(hdr) /\ Here.file = file
      /\ Firm(N, R, file, g) /\ DOMAIN file = PageId
  BY DEF Starts, Numbers, Counted, Ready, GoodStore
<1>2. /\ counted.catalog_root = cat_root /\ counted.next_table_id = id + 1 /\ id \in Nat \ {0}
  BY <1>1, EngineAssumption DEF GoodHeader
<1>3. s1.hdr = s1.file[0] /\ Onward(Ents(N, R), R, s1, g, id, s2, g2) /\ Firm(N, R, s1.file, g)
  BY DEF Starts, GoodStore, HEADER_PAGE_ID
<1>4. \A q \in PageId \ {0} : s1.file[q] = file[q]
  BY <1>1 DEF Puts, WritePage
<1>5. Same(file, g, s1.file, g, id)
  BY <1>1, <1>4, HeaderAgree
<1>6. id < s1.hdr.next_table_id /\ id \in Nat
  BY <1>1, <1>2
<1>7. /\ Firm(N, R, s2.file, g2) /\ Same(s1.file, g, s2.file, g2, id)
      /\ s2.file[0].catalog_root = s1.file[0].catalog_root /\ s2.hdr = s2.file[0]
  BY <1>3, <1>6, OnwardChanged
<1>8. Same(file, g, s2.file, g2, id)
  BY <1>5, <1>7, SameBoth
<1> QED
  BY <1>1, <1>2, <1>3, <1>5, <1>6, <1>7, <1>8

LEMMA StartsBear ==
    ASSUME NEW N, NEW R, NEW g, NEW n, NEW id, NEW counted, NEW s1, NEW s2, NEW p, NEW g2,
           Starts(N, R, g, n, id, counted, s1, s2, p, g2),
           NEW t, NEW D, OthersKept(t.file, D, n), NEW splits
    PROVE  \E F : Through(Here, s2, F) /\ \A f \in F : Bears(f, n, splits, t, D)
<1>1. /\ id = hdr.next_table_id /\ id \in Nat \ {0} /\ id < s1.hdr.next_table_id
      /\ s1.hdr = s1.file[0] /\ s1.file[0].catalog_root = cat_root
      /\ Same(file, g, s1.file, g, id)
  BY StartsFacts
<1>2. /\ Ready(N, R, g) /\ n \in Names /\ by_name[n] = NoDef
      /\ Puts(Here, counted, 0, counted, s1) /\ Firm(N, R, s1.file, g)
      /\ Onward(Ents(N, R), R, s1, g, id, s2, g2)
      /\ Here.file = file /\ IsSeq(Here.writes)
  BY DEF Starts, Counted, Ready
<1>3. Through(Here, s1, {Here.file, s1.file})
  BY <1>2, ThroughPut
<1>4. PICK F : Through(s1, s2, F) /\ \A f \in F : Passing(Ents(N, R), R, s1.file, g, id, f)
  BY <1>2, OnwardThrough
<1>5. Bears(file, n, splits, t, D)
  BY <1>2, InitialBears
<1>6. Bears(s1.file, n, splits, t, D)
  BY <1>1, <1>2, FreshBears
<1>7. ASSUME NEW f, Passing(Ents(N, R), R, s1.file, g, id, f)
      PROVE  Bears(f, n, splits, t, D)
  <2>1. PICK g3 : /\ Firm(N, R, f, g3) /\ Same(s1.file, g, f, g3, id)
                  /\ f[0].catalog_root = s1.file[0].catalog_root
    BY <1>1, <1>2, <1>7, PassingChanged
  <2>2. Same(file, g, f, g3, id) /\ f[0].catalog_root = cat_root
    BY <1>1, <2>1, SameBoth
  <2> QED
    BY <1>1, <1>2, <2>1, <2>2, FreshBears
<1>8. PICK H : H = F \cup {file, s1.file}
  OBVIOUS
<1>9. Through(Here, s2, H)
  <2>1. F \subseteq H /\ {Here.file, s1.file} \subseteq H
    BY <1>2, <1>8
  <2> QED
    BY <1>3, <1>4, <2>1, ThroughThen
<1>10. \A f \in H : Bears(f, n, splits, t, D)
  BY <1>4, <1>5, <1>6, <1>7, <1>8
<1> QED
  BY <1>9, <1>10

LEMMA NewTreeStarts ==
    ASSUME NEW N, NEW R, NEW g, Ready(N, R, g), NEW n \in Names, by_name[n] = NoDef,
           hdr.num_pages + 1 <= MaxPages,
           NEW id, NEW counted, NEW s1, NEW s2, NEW p, Numbers(id, counted, s1, s2, p),
           NEW N2, Renames(N, id, n, N2)
    PROVE  \E g2 : /\ Starts(N, R, g, n, id, counted, s1, s2, p, g2)
                   /\ Arrives(N2, R \cup {<<id, p>>}, Here, s2, g2)
<1>1. Firm(N, R, file, g) /\ Arrives(N, R, Here, Here, g)
  <2>1. GoodStore(Here) /\ IsSeq(Here.writes) /\ Firm(N, R, Here.file, g) /\ Here.file = file
    BY DEF Ready
  <2> QED
    BY <2>1, ArrivesNone
<1>2. Counted(R, id, counted, s1, s2, p) /\ Arrives(N, R, Here, s1, g)
  BY <1>1, NewTree
<1>3. PICK g2 : Planted(N, R, g, id, s1, s2, p, N2, g2)
  BY <1>1, NewTree
<1>4. Firm(N, R, s1.file, g) /\ GoodStore(s1) /\ IsSeq(s1.writes)
  BY <1>2 DEF Arrives
<1>5. /\ Onward(Ents(N, R), R, s1, g, id, s2, g2)
      /\ Arrives(N2, R \cup {<<id, p>>}, Here, s2, g2)
  BY <1>3 DEF Planted
<1>6. Starts(N, R, g, n, id, counted, s1, s2, p, g2)
  BY <1>2, <1>4, <1>5 DEF Starts
<1> QED
  BY <1>5, <1>6

LEMMA CreateTooLargeBegun ==
    ASSUME NEW N, NEW R, NEW g, Ready(N, R, g), NEW n \in Names, CreateTooLarge(n)
    PROVE  Begun(n)
<1>1. PICK id : id = hdr.next_table_id
  OBVIOUS
<1>2. PICK counted : counted = [hdr EXCEPT !.next_table_id = @ + 1]
  OBVIOUS
<1>3. PICK s1 : s1 = Put([Here EXCEPT !.hdr = counted], HEADER_PAGE_ID, counted)
  OBVIOUS
<1>4. PICK t : t = CreateEmpty(s1)
  OBVIOUS
<1>5. PICK p : p = AllocPage(s1.hdr)
  OBVIOUS
<1>6. /\ by_name[n] = NoDef /\ CanAlloc(hdr, 1) /\ hdr.next_table_id <= MaxTableId
      /\ Begin(n, t, cat_root, by_name, {})
  BY <1>2, <1>3, <1>4 DEF CreateTooLarge
<1>7. Numbers(id, counted, s1, t, p)
  BY <1>1, <1>2, <1>3, <1>4, <1>5, <1>6 DEF Numbers
<1>8. hdr.num_pages + 1 <= MaxPages
  BY <1>6 DEF Ready, GoodStore, GoodHeader, CanAlloc
<1>9. PICK N2 : Renames(N, id, n, N2)
  BY DEF Renames
<1>10. PICK g2 : Starts(N, R, g, n, id, counted, s1, t, p, g2)
  BY <1>6, <1>7, <1>8, <1>9, NewTreeStarts
<1>11. /\ id = hdr.next_table_id /\ id \in Nat \ {0}
       /\ Firm(N, R, t.file, g2) /\ Same(file, g, t.file, g2, id)
       /\ t.file[0].catalog_root = cat_root
  BY <1>10, StartsFacts
<1>12. /\ \A m \in Names \ {n} : by_name[m] # NoDef => by_name[m].table_id # id
       /\ \A e \in Rows(file, g, 0) : e.key # id
  BY <1>6, <1>11, FreshNumber
<1>13. /\ Firm(N, R, file, g) /\ Intact(file, g, torn) /\ cat_root = file[0].catalog_root
       /\ by_name = LoadDefs(file, cat_root) /\ t.file[0].catalog_root = file[0].catalog_root
  BY <1>11 DEF Ready
<1>14. \A e \in Rows(file, g, 0) : e.key = id /\ e.value.name \notin torn => SoundTable(t.file, g2, e)
  BY <1>12
<1>15. Intact(t.file, g2, torn) /\ by_name = LoadDefs(t.file, cat_root)
  <2>1. torn \subseteq torn
    OBVIOUS
  <2>2. /\ Intact(t.file, g2, torn)
        /\ LoadDefs(t.file, t.file[0].catalog_root) = LoadDefs(file, file[0].catalog_root)
    BY <1>11, <1>13, <1>14, <2>1, TreeChanged
  <2> QED
    BY <1>13, <2>2
<1>16. OthersKept(t.file, by_name, n)
  <2>1. \A j \in Nat \ {0, id} : Agree(file, t.file, g, j)
    BY <1>11 DEF Same
  <2>2. \A m \in Names \ {n} : by_name[m] = by_name[m]
    OBVIOUS
  <2> QED
    BY <1>11, <1>12, <2>1, <2>2, OthersSame
<1>17. PICK F : Through(Here, t, F) /\ \A f \in F : Bears(f, n, {}, t, by_name)
  BY <1>10, <1>16, StartsBear
<1>18. StoreStep(View(file, by_name), View(t.file, by_name))
  <2>1. TableAt(t.file, by_name[n]) = TableAt(file, by_name[n])
    BY <1>6 DEF TableAt
  <2> QED
    BY <1>16, <2>1, StepOf
<1>19. Fine(t.file, torn)
  BY <1>11, <1>15 DEF Fine
<1>20. Performs(n, t, cat_root, by_name, {})
  BY <1>11, <1>15, <1>17, <1>18, <1>19 DEF Performs, Passes
<1> QED
  BY <1>6, <1>20 DEF Begun

\* The catalog takes the definition, whose table has no rows yet.
Taken(N, R, g, n, id, counted, s1, s2, p, g2, N2, R2, def, r, g3) ==
    /\ Starts(N, R, g, n, id, counted, s1, s2, p, g2)
    /\ R2 = R \cup {<<id, p>>} /\ Arrives(N2, R2, Here, s2, g2)
    /\ def = [table_id |-> id, name |-> n, root_page |-> p, next_rowid |-> 1]
    /\ SafeInsert(Ents(N2, R2), R2, s2, g2, 0, cat_root, r)
    /\ r.ok = TRUE /\ Onward(Ents(N2, R2), R2, s2, g2, 0, r.store, g3)
    /\ r.root \in Written(r.store.file, g3, 0)
    /\ Whole(r.store.file, g3, 0, r.root, DefRecords)
    /\ Rows(r.store.file, g3, 0) = Rows(file, g, 0) \cup {Entry(id, def)}

LEMMA CreateTaken ==
    ASSUME NEW N, NEW R, NEW g, Ready(N, R, g), NEW n \in Names, by_name[n] = NoDef,
           CanAlloc(hdr, Len(FindPath(file, cat_root, MaxTableId)) + 2),
           NEW id, NEW counted, NEW s1, NEW s2, NEW p, NEW def, NEW r,
           CreatesTable(n, id, counted, s1, s2, p, def, r),
           NEW N2, Renames(N, id, n, N2), NEW R2, R2 = R \cup {<<id, p>>}
    PROVE  \E g2, g3 : Taken(N, R, g, n, id, counted, s1, s2, p, g2, N2, R2, def, r, g3)
<1>1. /\ Firm(N, R, file, g) /\ Arrives(N, R, Here, Here, g)
      /\ Known(N, R, hdr, cat_root, by_name)
  <2>1. /\ GoodStore(Here) /\ IsSeq(Here.writes) /\ Firm(N, R, Here.file, g) /\ Here.file = file
        /\ Known(N, R, hdr, cat_root, by_name)
    BY DEF Ready
  <2> QED
    BY <2>1, ArrivesNone
<1>2. /\ Counted(R, id, counted, s1, s2, p) /\ Arrives(N, R, Here, s1, g)
      /\ def \in [table_id : 1 .. MaxTableId, name : {n},
                  root_page : PageId \ {0}, next_rowid : 1 .. MaxRowid[n] + 1]
      /\ hdr.num_pages + g.lvl[cat_root] + 3 <= MaxPages /\ g.lvl[cat_root] \in Nat
  BY <1>1, CatalogInsert
<1>3. PICK g2 : /\ Planted(N, R, g, id, s1, s2, p, N2, g2)
                /\ SafeInsert(Ents(N2, R2), R2, s2, g2, 0, cat_root, r)
  BY <1>1, CatalogInsert
<1>4. /\ Numbers(id, counted, s1, s2, p) /\ r = Insert(s2, cat_root, id, def)
      /\ def = [table_id |-> id, name |-> n, root_page |-> p, next_rowid |-> 1]
  BY DEF CreatesTable
<1>5. Onward(Ents(N, R), R, s1, g, id, s2, g2) /\ Arrives(N2, R2, Here, s2, g2)
  BY <1>3 DEF Planted
<1>6. Starts(N, R, g, n, id, counted, s1, s2, p, g2)
  BY <1>2, <1>4, <1>5 DEF Starts, Arrives
<1>7. /\ id = hdr.next_table_id /\ id \in Nat \ {0} /\ Same(file, g, s2.file, g2, id)
  BY <1>6, StartsFacts
<1>8. PICK rows : rows = Rows(file, g, 0)
  OBVIOUS
<1>9. CatalogAt(N, R, g, rows)
  BY <1>8, ReadyCatalog
<1>10. /\ Whole(file, g, 0, cat_root, DefRecords) /\ cat_root \in Written(file, g, 0)
       /\ <<0, cat_root>> \in R
  BY <1>9 DEF CatalogAt
<1>11. /\ Whole(s2.file, g2, 0, cat_root, DefRecords) /\ Rows(s2.file, g2, 0) = rows
  <2>1. Pages(g2, 0) = Pages(g, 0) /\ Agree(file, s2.file, g, 0)
    BY <1>7 DEF Same
  <2> QED
    BY <1>8, <1>10, <2>1, WholeSame
<1>12. cat_root \in Written(s2.file, g2, 0)
  <2>1. Firm(N2, R2, s2.file, g2) /\ <<0, cat_root>> \in R2
    BY <1>5, <1>10 DEF Arrives
  <2> QED
    BY <2>1, RootFacts
<1>13. s2.hdr.num_pages + g2.lvl[cat_root] + 2 <= MaxPages
  <2>1. g2.lvl[cat_root] = g.lvl[cat_root]
    BY <1>5, <1>10 DEF Onward, Written
  <2>2. s2.hdr.num_pages = hdr.num_pages + 1
    <3>1. s2.hdr = [counted EXCEPT !.num_pages = hdr.num_pages + 1] /\ s1.hdr = counted
          /\ GoodHeader(s1.hdr)
      BY <1>2, <1>6 DEF Counted, Starts, GoodStore
    <3> QED
      BY <3>1 DEF GoodHeader
  <2>3. hdr.num_pages \in Nat /\ MaxPages \in Nat
    BY MaxPagesAssumption DEF Ready, GoodStore, GoodHeader
  <2> QED
    BY <1>2, <2>1, <2>2, <2>3
<1>14. Begins(Ents(N2, R2), R2, s2, g2, 0)
  BY <1>5, EntsFacts DEF Arrives, Begins, Firm
<1>15. id \in Int /\ def \in DefRecords
  <2>1. MaxRowid[n] \in Nat
    BY EngineAssumption
  <2> QED
    BY <1>2, <1>7, <2>1 DEF DefRecords
<1>16. Takes(Ents(N2, R2), R2, s2, g2, 0, DefRecords, id, def, r)
  BY <1>4, <1>11, <1>12, <1>13, <1>14, <1>15, WholeInsert
<1>17. r.ok = TRUE
  <2>1. \A e \in rows : e.key # id
    BY <1>7, <1>8, FreshNumber
  <2> QED
    BY <1>11, <1>16, <2>1 DEF Takes
<1>18. PICK g3 : /\ Onward(Ents(N2, R2), R2, s2, g2, 0, r.store, g3)
                 /\ r.root \in Written(r.store.file, g3, 0)
  BY <1>3, <1>17 DEF SafeInsert
<1>19. /\ Whole(r.store.file, g3, 0, r.root, DefRecords)
       /\ Rows(r.store.file, g3, 0) = rows \cup {Entry(id, def)}
  BY <1>11, <1>16, <1>17, <1>18 DEF Takes
<1>20. Taken(N, R, g, n, id, counted, s1, s2, p, g2, N2, R2, def, r, g3)
  BY <1>3, <1>4, <1>5, <1>6, <1>8, <1>17, <1>18, <1>19 DEF Taken
<1> QED
  BY <1>20

\* The empty tree of the new table.
LEMMA NewTable ==
    ASSUME NEW N, NEW R, NEW g, NEW n, NEW id, NEW counted, NEW s1, NEW s2, NEW p, NEW g2,
           Starts(N, R, g, n, id, counted, s1, s2, p, g2)
    PROVE  Whole(s2.file, g2, id, p, Values) /\ Rows(s2.file, g2, id) = {}
<1>1. /\ s2.file[p] = Leaf(<<>>, 0) /\ p = hdr.num_pages /\ p \in PageId \ {0}
      /\ s2.hdr = [counted EXCEPT !.num_pages = hdr.num_pages + 1] /\ s1.hdr = counted
      /\ Puts(Here, counted, 0, counted, s1)
      /\ counted = [hdr EXCEPT !.next_table_id = @ + 1]
      /\ Onward(Ents(N, R), R, s1, g, id, s2, g2)
      /\ GoodHeader(hdr) /\ Firm(N, R, file, g) /\ hdr = file[0]
  BY DEF Starts, Counted, Numbers, Ready, GoodStore
<1>2. id = hdr.next_table_id /\ id \in Nat \ {0}
  BY StartsFacts
<1>3. s1.hdr.num_pages = p /\ s2.hdr.num_pages = p + 1 /\ p \in Nat
  BY <1>1 DEF GoodHeader
<1>4. \A q \in PageId : g.owner[q] # id
  BY <1>1, <1>2 DEF Firm, Numbered
<1>5. Pages(g2, id) = {p}
  <2>1. ASSUME NEW q \in PageId
        PROVE  g2.owner[q] = id <=> q = p
    <3>1. g2.owner[q] = IF q \in p .. (p + 1) - 1 THEN id ELSE g.owner[q]
      BY <1>1, <1>3, <2>1 DEF Onward
    <3>2. q \in p .. (p + 1) - 1 <=> q = p
      BY <1>3
    <3> QED
      BY <1>4, <3>1, <3>2
  <2> QED
    BY <1>1, <2>1 DEF Pages
<1> QED
  BY <1>1, <1>5, WholeEmpty

\* The store create_table leaves: the root of the catalog is set in the header.
Settled(N2, R3, g3, s2, g2, r, rows2, t) ==
    /\ Arrives(N2, R3, Here, t, g3) /\ Firm(N2, R3, t.file, g3)
    /\ t.file[0].catalog_root = r.root
    /\ Same(s2.file, g2, t.file, g3, 0)
    /\ Whole(t.file, g3, 0, r.root, DefRecords) /\ Rows(t.file, g3, 0) = rows2

LEMMA TakenSettles ==
    ASSUME NEW N, NEW R, NEW g, NEW n, NEW id, NEW counted, NEW s1, NEW s2, NEW p, NEW g2,
           NEW N2, NEW R2, NEW def, NEW r, NEW g3,
           Taken(N, R, g, n, id, counted, s1, s2, p, g2, N2, R2, def, r, g3),
           NEW t, t = SyncRoot(r.store, r.root),
           NEW rows2, rows2 = Rows(file, g, 0) \cup {Entry(id, def)}
    PROVE  \E R3 : Settled(N2, R3, g3, s2, g2, r, rows2, t)
<1>1. /\ Starts(N, R, g, n, id, counted, s1, s2, p, g2)
      /\ Arrives(N2, R2, Here, s2, g2)
      /\ Onward(Ents(N2, R2), R2, s2, g2, 0, r.store, g3)
      /\ r.root \in Written(r.store.file, g3, 0)
      /\ Whole(r.store.file, g3, 0, r.root, DefRecords) /\ Rows(r.store.file, g3, 0) = rows2
  BY DEF Taken
<1>2. /\ Firm(N2, R2, s2.file, g2) /\ GoodStore(s2)
  BY <1>1 DEF Arrives
<1>3. 0 < s2.hdr.next_table_id /\ 0 \in Nat
  <2>1. s2.hdr = s2.file[0] /\ s2.hdr.next_table_id \in Nat
    BY <1>2 DEF GoodStore, GoodHeader, HEADER_PAGE_ID
  <2>2. <<0, s2.file[0].catalog_root>> \in R2
    BY <1>2 DEF Firm, Numbered
  <2> QED
    BY <1>2, <2>1, <2>2, RootFacts
<1>4. Arrives(N2, R2, Here, r.store, g3)
  BY <1>1, <1>3, ArrivesOnward
<1>5. PICK R3 : R3 = R2 \cup {<<0, r.root>>}
  OBVIOUS
<1>6. Arrives(N2, R3, Here, r.store, g3)
  BY <1>1, <1>3, <1>4, <1>5, ArrivesRoot
<1>7. /\ Arrives(N2, R3, Here, t, g3) /\ t.hdr = [r.store.hdr EXCEPT !.catalog_root = r.root]
      /\ \A q \in PageId \ {0} : t.file[q] = r.store.file[q]
  <2>1. <<0, r.root>> \in R3
    BY <1>5
  <2> QED
    BY <1>6, <2>1, ArrivesSynced
<1>8. Firm(N2, R3, t.file, g3) /\ Firm(N2, R3, r.store.file, g3)
  BY <1>6, <1>7 DEF Arrives
<1>9. t.file[0].catalog_root = r.root
  <2>1. t.hdr = t.file[0] /\ GoodHeader(r.store.hdr)
    BY <1>6, <1>7 DEF Arrives, GoodStore, HEADER_PAGE_ID
  <2> QED
    BY <1>7, <2>1 DEF GoodHeader
<1>10. Same(s2.file, g2, r.store.file, g3, 0)
  BY <1>1, <1>2, <1>3, OnwardChanged
<1>11. Same(r.store.file, g3, t.file, g3, 0)
  BY <1>7, <1>8, HeaderAgree
<1>12. Same(s2.file, g2, t.file, g3, 0)
  BY <1>10, <1>11, SameBoth
<1>13. /\ Whole(t.file, g3, 0, r.root, DefRecords) /\ Rows(t.file, g3, 0) = rows2
  <2>1. PICK i : i = 1
    OBVIOUS
  <2>2. Same(r.store.file, g3, t.file, g3, i)
    BY <1>7, <1>8, HeaderAgree
  <2>3. Pages(g3, 0) = Pages(g3, 0) /\ Agree(r.store.file, t.file, g3, 0)
    BY <2>1, <2>2 DEF Same
  <2>4. PICK f : f = r.store.file
    OBVIOUS
  <2>5. PICK f2 : f2 = t.file
    OBVIOUS
  <2>6. Agree(f, f2, g3, 0)
    BY <2>3, <2>4, <2>5
  <2>7. Rows(f2, g3, 0) = Rows(f, g3, 0) /\ (Whole(f, g3, 0, r.root, DefRecords) => Whole(f2, g3, 0, r.root, DefRecords))
    <3>1. PICK j : j = 0
      OBVIOUS
    <3>2. Pages(g3, j) = Pages(g3, j) /\ Agree(f, f2, g3, j)
      BY <2>6, <3>1
    <3>3. Rows(f2, g3, j) = Rows(f, g3, j)
      BY <3>2, WholeSame
    <3>4. Whole(f, g3, j, r.root, DefRecords) => Whole(f2, g3, j, r.root, DefRecords)
      BY <3>2, WholeSame
    <3> QED
      BY <3>1, <3>3, <3>4
  <2> QED
    BY <1>1, <2>4, <2>5, <2>7
<1> QED
  BY <1>7, <1>8, <1>9, <1>12, <1>13 DEF Settled

LEMMA CreateTableBegun ==
    ASSUME NEW N, NEW R, NEW g, Ready(N, R, g), NEW n \in Names, CreateTable(n)
    PROVE  Begun(n)
<1>1. /\ by_name[n] = NoDef /\ CanAlloc(hdr, Len(FindPath(file, cat_root, MaxTableId)) + 2)
  BY CreateTableIs
<1>2. PICK id, counted, s1, s2, p, def, r :
        /\ CreatesTable(n, id, counted, s1, s2, p, def, r)
        /\ Begin(n, SyncRoot(r.store, r.root), r.root,
                 IF r.ok THEN [by_name EXCEPT ![n] = def] ELSE by_name,
                 IF Grown(s2, r.store) THEN {CatalogTree} ELSE {})
  BY CreateTableIs
<1>3. PICK N2 : Renames(N, id, n, N2)
  BY DEF Renames
<1>4. PICK R2 : R2 = R \cup {<<id, p>>}
  OBVIOUS
<1>5. PICK g2, g3 : Taken(N, R, g, n, id, counted, s1, s2, p, g2, N2, R2, def, r, g3)
  BY <1>1, <1>2, <1>3, <1>4, CreateTaken
<1>6. PICK t : t = SyncRoot(r.store, r.root)
  OBVIOUS
<1>7. PICK D : D = [by_name EXCEPT ![n] = def]
  OBVIOUS
<1>8. PICK splits : splits = IF Grown(s2, r.store) THEN {CatalogTree} ELSE {}
  OBVIOUS
<1>9. Begin(n, t, r.root, D, splits) /\ r.ok = TRUE
  BY <1>2, <1>5, <1>6, <1>7, <1>8 DEF Taken
<1>10. PICK rows : rows = Rows(file, g, 0)
  OBVIOUS
<1>11. PICK rows2 : rows2 = Rows(file, g, 0) \cup {Entry(id, def)}
  OBVIOUS
<1>12. PICK R3 : Settled(N2, R3, g3, s2, g2, r, rows2, t)
  BY <1>5, <1>6, <1>11, TakenSettles
<1>13. /\ Arrives(N2, R3, Here, t, g3) /\ Firm(N2, R3, t.file, g3)
       /\ t.file[0].catalog_root = r.root /\ Same(s2.file, g2, t.file, g3, 0)
       /\ Whole(t.file, g3, 0, r.root, DefRecords) /\ Rows(t.file, g3, 0) = rows2
  BY <1>12 DEF Settled
<1>14. Starts(N, R, g, n, id, counted, s1, s2, p, g2)
  BY <1>5 DEF Taken
<1>15. /\ id = hdr.next_table_id /\ id \in Nat \ {0}
       /\ Firm(N, R, s2.file, g2) /\ Same(file, g, s2.file, g2, id)
  BY <1>14, StartsFacts
<1>16. CatalogAt(N, R, g, rows)
  BY <1>10, ReadyCatalog
<1>17. def.table_id = id /\ def.name = n /\ def.root_page = p /\ def.next_rowid = 1 /\ def # NoDef
  BY <1>5, <1>15 DEF Taken, NoDef
<1>18. OneName(rows2) /\ Lists(rows2, D)
  <2>1. OneName(rows) /\ Lists(rows, by_name)
    BY <1>16 DEF CatalogAt
  <2>2. rows2 = rows \cup {Entry(def.table_id, def)}
    BY <1>10, <1>11, <1>17
  <2> QED
    BY <1>1, <1>7, <1>17, <2>1, <2>2, ListsAdd
<1>19. Whole(s2.file, g2, id, p, Values) /\ Rows(s2.file, g2, id) = {}
  BY <1>14, NewTable
<1>20. /\ \A m \in Names \ {n} : by_name[m] # NoDef => by_name[m].table_id # id
       /\ \A e \in rows : e.key # id
  BY <1>1, <1>10, <1>15, FreshNumber
<1>21. Intact(t.file, g3, torn)
  <2>1. ASSUME NEW e \in rows2, e.value.name \notin torn
        PROVE  SoundTable(s2.file, g2, e)
    <3>1. CASE e \in rows
      <4>1. SoundTable(file, g, e) /\ e.key # id
        BY <1>16, <1>20, <2>1, <3>1 DEF CatalogAt
      <4>2. e.key \in Nat
        <5>1. e \in CatEntries(N, R)
          BY <1>10, <3>1, FirmFacts DEF Ready
        <5> QED
          BY <5>1, CatEntryFacts
      <4>3. Pages(g2, e.key) = Pages(g, e.key) /\ Agree(file, s2.file, g, e.key)
        BY <1>15, <4>1, <4>2 DEF Same
      <4> QED
        BY <4>1, <4>3, SoundSame
    <3>2. CASE e = Entry(id, def)
      <4>1. e.key = id /\ e.value = def
        BY <3>2 DEF Entry
      <4> QED
        BY <1>17, <1>19, <4>1 DEF SoundTable
    <3> QED
      BY <1>10, <1>11, <2>1, <3>1, <3>2
  <2>2. /\ \A e \in Rows(t.file, g3, 0) : e.value.name \notin torn => SoundTable(s2.file, g2, e)
        /\ Whole(t.file, g3, 0, t.file[0].catalog_root, DefRecords) /\ OneName(Rows(t.file, g3, 0))
    BY <1>13, <1>18, <2>1
  <2> QED
    BY <1>13, <2>2, CatalogChanged
<1>22. D = LoadDefs(t.file, t.file[0].catalog_root)
  BY <1>13, <1>18, <1>21, CatalogLoads
<1>23. D[n] = def /\ \A m \in Names \ {n} : D[m] = by_name[m]
  <2>1. by_name = [m \in Names |-> by_name[m]]
    BY <1>16 DEF CatalogAt, Lists
  <2> QED
    BY <1>7, <2>1
<1>24. OthersKept(t.file, D, n)
  <2>1. \A j \in Nat \ {id, 0} : Pages(g3, j) = Pages(g, j) /\ Agree(file, t.file, g, j)
    BY <1>13, <1>15, SameThen
  <2>2. \A j \in Nat \ {0, id} : Agree(file, t.file, g, j)
    BY <2>1
  <2> QED
    BY <1>13, <1>20, <1>23, <2>2, OthersSame
<1>25. StoreStep(View(file, by_name), View(t.file, D))
  <2>1. TableAt(file, by_name[n]) = NoRows
    BY <1>1 DEF TableAt, NoRows
  <2>2. Whole(t.file, g3, id, p, Values) /\ Rows(t.file, g3, id) = {}
    <3>1. Pages(g3, id) = Pages(g2, id) /\ Agree(s2.file, t.file, g2, id)
      BY <1>13, <1>15 DEF Same
    <3>2. PICK f : f = s2.file
      OBVIOUS
    <3>3. PICK f2 : f2 = t.file
      OBVIOUS
    <3>4. Pages(g3, id) = Pages(g2, id) /\ Agree(f, f2, g2, id)
      BY <3>1, <3>2, <3>3
    <3>5. /\ Rows(f2, g3, id) = Rows(f, g2, id)
          /\ Whole(f, g2, id, p, Values) => Whole(f2, g3, id, p, Values)
      <4>1. Rows(f2, g3, id) = Rows(f, g2, id)
        BY <3>4, WholeSame
      <4>2. Whole(f, g2, id, p, Values) => Whole(f2, g3, id, p, Values)
        BY <3>4, WholeSame
      <4> QED
        BY <4>1, <4>2
    <3> QED
      BY <1>19, <3>2, <3>3, <3>5
  <2>3. Whole(t.file, g3, id, def.root_page, Values) /\ id \in Nat
    BY <1>15, <1>17, <2>2
  <2>4. TableAt(t.file, def) = [rows |-> Rows(t.file, g3, id), next_rowid |-> def.next_rowid]
    BY <1>13, <1>17, <2>3, TableShows
  <2>5. TableAt(t.file, D[n]) = [rows |-> {}, next_rowid |-> 1]
    BY <1>17, <1>23, <2>2, <2>4
  <2>6. TableStep(TableAt(file, by_name[n]), TableAt(t.file, D[n]))
    BY <2>1, <2>5 DEF TableStep
  <2> QED
    BY <1>24, <2>6, StepOf
<1>26. Passes(n, t, D, splits)
  <2>1. CASE Grown(s2, r.store)
    BY <1>8, <2>1 DEF Passes
  <2>2. CASE ~Grown(s2, r.store)
    <3>1. Onward(Ents(N2, R2), R2, s2, g2, 0, r.store, g3) /\ SafeInsert(Ents(N2, R2), R2, s2, g2, 0, cat_root, r)
      BY <1>5 DEF Taken
    <3>2. r.store.hdr.num_pages = s2.hdr.num_pages
      <4>1. s2.hdr.num_pages <= r.store.hdr.num_pages
        BY <3>1 DEF Onward, Counts
      <4>2. s2.hdr.num_pages \in Nat /\ r.store.hdr.num_pages \in Nat
        BY <3>1 DEF Onward, GoodStore, GoodHeader
      <4> QED
        BY <2>2, <4>1, <4>2 DEF Grown
    <3>3. r.root = cat_root /\ OneWrite(s2, r.store)
      BY <1>9, <3>1, <3>2 DEF SafeInsert
    <3>4. r.store.hdr.catalog_root = r.root
      <4>1. GoodStore(s2) /\ s2.hdr.catalog_root = cat_root
        <5>1. s2.file[0].catalog_root = cat_root /\ s2.hdr = s2.file[0]
          BY <1>14, StartsFacts
        <5> QED
          BY <3>1, <5>1 DEF Onward
      <4>2. r.store.hdr.catalog_root = s2.hdr.catalog_root
        BY <3>1, <4>1 DEF Onward, Counts, GoodStore, GoodHeader
      <4> QED
        BY <3>3, <4>1, <4>2
    <3>5. t = r.store
      BY <1>6, <3>4 DEF SyncRoot
    <3>6. PICK F : Through(Here, s2, F) /\ \A f \in F : Bears(f, n, splits, t, D)
      BY <1>14, <1>24, StartsBear
    <3>7. Through(s2, t, {s2.file, t.file})
      <4>1. GoodStore(s2) /\ IsSeq(s2.writes)
        BY <1>5 DEF Taken, Arrives
      <4> QED
        BY <3>3, <3>5, <4>1, ThroughOne
    <3>8. PICK H : H = F \cup {s2.file, t.file}
      OBVIOUS
    <3>9. Through(Here, t, H)
      <4>1. F \subseteq H /\ {s2.file, t.file} \subseteq H
        BY <3>8
      <4> QED
        BY <3>6, <3>7, <4>1, ThroughThen
    <3>10. Bears(s2.file, n, splits, t, D)
      <4>1. s2.file[0].catalog_root = cat_root /\ Ready(N, R, g)
        BY <1>14, StartsFacts DEF Starts
      <4> QED
        BY <1>1, <1>15, <1>24, <4>1, FreshBears
    <3>11. Bears(t.file, n, splits, t, D)
      BY <1>13, <1>21, <1>22, FinalBears
    <3>12. \A f \in H : Bears(f, n, splits, t, D)
      BY <3>6, <3>8, <3>10, <3>11
    <3> QED
      BY <3>9, <3>12 DEF Passes
  <2> QED
    BY <2>1, <2>2
<1>27. \E F : Through(Here, t, F)
  BY <1>13 DEF Arrives
<1>28. Fine(t.file, torn)
  BY <1>13, <1>21 DEF Fine
<1>29. Performs(n, t, r.root, D, splits)
  BY <1>13, <1>22, <1>25, <1>26, <1>27, <1>28 DEF Performs
<1> QED
  BY <1>9, <1>29 DEF Begun

-----------------------------------------------------------------------------
(* The second inductive invariant: what a process is doing, and what a     *)
(* crash would leave of it.                                                *)

\* The files that the writes w pass, when the trees of B are torn or splitting.
Midway(fs, w, B, o, b, a) ==
    \A j \in 0 .. Len(w) :
      /\ Fine(fs[j], B)
      /\ o # NoOp => Confined(fs[j], o.table, o.splits, b, a)

\* The file f that the writes w lead to.
Ahead(f, w, B, root, defs, b, a) ==
    /\ Fine(f, B)
    /\ root = f[0].catalog_root /\ defs = LoadDefs(f, root)
    /\ w # <<>> => a = View(f, defs) /\ (B = {} => StoreStep(b, a))

Recoverable ==
    /\ ~up => op.splits \subseteq torn
    /\ Idle => op = NoOp
    /\ \E fs :
         /\ Leaves(file, todo, fs)
         /\ CatalogTree \notin torn \cup op.splits =>
              Midway(fs, todo, torn \cup op.splits, op, before, after)
         /\ up /\ CatalogTree \notin torn =>
              Ahead(fs[Len(todo)], todo, torn, cat_root, by_name, before, after)

LEMMA IdleReady ==
    ASSUME Restartable, Recoverable, Idle, CatalogTree \notin torn
    PROVE  \E N, R, g : Ready(N, R, g)
<1>1. PICK fs : /\ Leaves(file, todo, fs)
                /\ Ahead(fs[Len(todo)], todo, torn, cat_root, by_name, before, after)
  BY DEF Recoverable, Idle
<1>2. fs[Len(todo)] = file
  BY <1>1 DEF Leaves, Idle
<1>3. Fine(file, torn) /\ cat_root = file[0].catalog_root /\ by_name = LoadDefs(file, cat_root)
  BY <1>1, <1>2 DEF Ahead
<1>4. PICK N, R, g : Firm(N, R, file, g) /\ Intact(file, g, torn)
  BY <1>3 DEF Fine
<1>5. GoodStore(Here) /\ IsSeq(Here.writes) /\ Here.file = file /\ Here.hdr = hdr
  BY IdleFacts
<1>6. hdr = file[0]
  BY <1>5 DEF GoodStore, HEADER_PAGE_ID
<1>7. Known(N, R, hdr, cat_root, by_name)
  BY <1>3, <1>4, <1>6, LoadedKnown
<1>8. Lists(Rows(file, g, 0), by_name)
  BY <1>3, <1>4, LoadedLists
<1> QED
  BY <1>3, <1>4, <1>5, <1>6, <1>7, <1>8 DEF Ready

LEMMA BeginRecoverable ==
    ASSUME Idle, CatalogTree \notin torn, NEW n \in Names, Begun(n)
    PROVE  Recoverable'
<1>1. PICK t, root, defs, splits : /\ Performs(n, t, root, defs, splits)
                                   /\ Begin(n, t, root, defs, splits)
  BY DEF Begun
<1>2. /\ todo' = t.writes /\ cat_root' = root /\ by_name' = defs
      /\ file' = file /\ up' = TRUE /\ torn' = torn
  BY <1>1 DEF Begin, Idle
<1>3. IF t.writes = <<>> THEN op' = NoOp
      ELSE /\ before' = View(file, by_name) /\ after' = View(t.file, defs)
           /\ op' = [table |-> n, splits |-> splits]
  BY <1>1 DEF Begin, NothingRuns
<1>4. /\ Fine(t.file, torn) /\ root = t.file[0].catalog_root /\ defs = LoadDefs(t.file, root)
      /\ torn = {} => StoreStep(View(file, by_name), View(t.file, defs))
  BY <1>1 DEF Performs
<1>5. PICK F : /\ Through(Here, t, F)
               /\ CatalogTree \notin splits => \A f \in F : Bears(f, n, splits, t, defs)
  BY <1>1 DEF Performs, Passes
<1>6. Here.file = file /\ Here.writes = <<>>
  BY DEF Here, Store
<1>7. PICK fs : /\ Replay(Here, t, fs)
                /\ \A j \in Len(Here.writes) .. Len(t.writes) : fs[j] \in F
  BY <1>5 DEF Through
<1>8. Len(Here.writes) = 0
  BY <1>6
<1>9. Leaves(file, t.writes, fs) /\ fs[Len(t.writes)] = t.file
  BY <1>6, <1>7, <1>8 DEF Replay, Leaves
<1>10. Ahead(t.file, todo', torn, root, defs, before', after')
  BY <1>2, <1>3, <1>4 DEF Ahead
<1>11. ASSUME CatalogTree \notin torn \cup op'.splits
       PROVE  Midway(fs, todo', torn \cup op'.splits, op', before', after')
  <2>1. CASE t.writes = <<>>
    <3>1. op'.splits = {} /\ op' = NoOp /\ Len(t.writes) = 0
      BY <1>3, <2>1 DEF NoOp
    <3>2. fs[0] = t.file
      BY <1>9, <3>1
    <3>3. torn \cup op'.splits = torn
      BY <3>1
    <3> QED
      BY <1>2, <1>4, <3>1, <3>2, <3>3 DEF Midway
  <2>2. CASE t.writes # <<>>
    <3>1. op'.splits = splits /\ op'.table = n /\ before' = View(file, by_name)
          /\ after' = View(t.file, defs)
      BY <1>3, <2>2
    <3>2. \A f \in F : Bears(f, n, splits, t, defs)
      BY <1>5, <1>11, <3>1
    <3>3. \A j \in 0 .. Len(t.writes) : Bears(fs[j], n, splits, t, defs)
      BY <1>7, <1>8, <3>2
    <3> QED
      BY <1>2, <3>1, <3>3 DEF Midway, Bears
  <2> QED
    BY <2>1, <2>2
<1>12. Idle' => op' = NoOp
  BY <1>2, <1>3 DEF Idle
<1> QED
  BY <1>2, <1>9, <1>10, <1>11, <1>12 DEF Recoverable

\* Nothing is said of a file whose catalog is torn.
LEMMA TornRecoverable ==
    ASSUME Restartable', CatalogTree \in torn', Idle' => op' = NoOp,
           ~up' => op'.splits \subseteq torn'
    PROVE  Recoverable'
<1>1. PICK fs : Leaves(file', todo', fs)
  BY DEF Restartable
<1> QED
  BY <1>1 DEF Recoverable

LEMMA WriteRecoverable ==
    ASSUME Restartable, Recoverable, WriteNext
    PROVE  Recoverable'
<1>1. PICK fs :
         /\ Leaves(file, todo, fs)
         /\ CatalogTree \notin torn \cup op.splits =>
              Midway(fs, todo, torn \cup op.splits, op, before, after)
         /\ up /\ CatalogTree \notin torn =>
              Ahead(fs[Len(todo)], todo, torn, cat_root, by_name, before, after)
  BY DEF Recoverable
<1>2. /\ IsSeq(Tail(todo)) /\ Len(Tail(todo)) = Len(todo) - 1 /\ Len(todo) \in Nat \ {0}
      /\ Head(todo) = todo[1] /\ \A j \in 1 .. Len(todo) - 1 : Tail(todo)[j] = todo[j + 1]
  BY TailFacts DEF Restartable, WriteNext
<1>3. /\ file' = WritePage(file, todo[1][1], todo[1][2]) /\ todo' = Tail(todo) /\ todo # <<>>
      /\ up /\ up' = up /\ cat_root' = cat_root /\ by_name' = by_name /\ torn' = torn
      /\ IF todo' = <<>> THEN op' = NoOp ELSE before' = before /\ after' = after /\ op' = op
  BY <1>2 DEF WriteNext, mem, NothingRuns
<1>4. PICK hs : hs = [j \in 0 .. Len(todo) - 1 |-> fs[j + 1]]
  OBVIOUS
<1>5. Leaves(file', todo', hs)
  <2>1. hs[0] = fs[1]
    BY <1>2, <1>4
  <2>2. fs[1] = WritePage(fs[0], todo[1][1], todo[1][2]) /\ fs[0] = file
    BY <1>1, <1>2 DEF Leaves
  <2>3. ASSUME NEW j \in 1 .. Len(todo')
        PROVE  hs[j] = WritePage(hs[j - 1], todo'[j][1], todo'[j][2])
    <3>1. hs[j] = fs[j + 1] /\ hs[j - 1] = fs[j] /\ todo'[j] = todo[j + 1]
      BY <1>2, <1>3, <1>4
    <3>2. j + 1 \in 1 .. Len(todo) /\ (j + 1) - 1 = j
      BY <1>2, <1>3
    <3>3. fs[j + 1] = WritePage(fs[(j + 1) - 1], todo[j + 1][1], todo[j + 1][2])
      BY <1>1, <3>2 DEF Leaves
    <3> QED
      BY <3>1, <3>2, <3>3
  <2> QED
    BY <1>3, <2>1, <2>2, <2>3 DEF Leaves
<1>6. hs[Len(todo')] = fs[Len(todo)]
  BY <1>2, <1>3, <1>4
<1>7. ASSUME CatalogTree \notin torn
      PROVE  Ahead(hs[Len(todo')], todo', torn, cat_root, by_name, before', after')
  BY <1>1, <1>3, <1>6, <1>7 DEF Ahead
<1>8. ASSUME CatalogTree \notin torn \cup op'.splits
      PROVE  Midway(hs, todo', torn \cup op'.splits, op', before', after')
  <2>1. CASE todo' = <<>>
    <3>1. op' = NoOp /\ op'.splits = {} /\ Len(todo') = 0 /\ CatalogTree \notin torn
      <4>1. op' = NoOp
        BY <1>3, <2>1
      <4>2. op'.splits = {}
        BY <4>1 DEF NoOp
      <4>3. Len(todo') = 0
        BY <2>1
      <4>4. CatalogTree \notin torn
        BY <1>8
      <4> QED
        BY <4>1, <4>2, <4>3, <4>4
    <3>2. Fine(hs[0], torn)
      BY <1>7, <3>1 DEF Ahead
    <3>3. torn \cup op'.splits = torn
      BY <3>1
    <3> QED
      BY <3>1, <3>2, <3>3 DEF Midway
  <2>2. CASE todo' # <<>>
    <3>1. op' = op /\ before' = before /\ after' = after
      BY <1>3, <2>2
    <3>2. Midway(fs, todo, torn \cup op.splits, op, before, after)
      BY <1>1, <1>8, <3>1
    <3>3. ASSUME NEW j \in 0 .. Len(todo')
          PROVE  hs[j] = fs[j + 1] /\ j + 1 \in 0 .. Len(todo)
      BY <1>2, <1>3, <1>4, <3>3
    <3> QED
      BY <3>1, <3>2, <3>3 DEF Midway
  <2> QED
    BY <2>1, <2>2
<1>9. Idle' => op' = NoOp
  BY <1>3 DEF Idle
<1> QED
  BY <1>3, <1>5, <1>7, <1>8, <1>9 DEF Recoverable

\* Nothing but the process goes.
LEMMA GoneRecoverable ==
    ASSUME Restartable, Recoverable, Forget, file' = file, before' = before, after' = after,
           op' = op, torn' = torn \cup op.splits
    PROVE  Recoverable'
<1>1. PICK fs :
         /\ Leaves(file, todo, fs)
         /\ CatalogTree \notin torn \cup op.splits =>
              Midway(fs, todo, torn \cup op.splits, op, before, after)
  BY DEF Recoverable
<1>2. todo' = <<>> /\ up' = FALSE
  BY DEF Forget
<1>3. PICK hs : hs = [j \in {0} |-> file]
  OBVIOUS
<1>4. Leaves(file', todo', hs)
  BY <1>2, <1>3 DEF Leaves
<1>5. torn' \cup op'.splits = torn \cup op.splits
  OBVIOUS
<1>6. ASSUME CatalogTree \notin torn \cup op.splits
      PROVE  Midway(hs, todo', torn \cup op.splits, op, before, after)
  <2>1. Len(todo) \in Nat
    BY DEF Restartable, IsSeq
  <2>2. fs[0] = file /\ hs[0] = file /\ Len(todo') = 0
    BY <1>1, <1>2, <1>3 DEF Leaves
  <2>3. Midway(fs, todo, torn \cup op.splits, op, before, after) /\ 0 \in 0 .. Len(todo)
    BY <1>1, <1>6, <2>1
  <2>4. /\ Fine(fs[0], torn \cup op.splits)
        /\ op # NoOp => Confined(fs[0], op.table, op.splits, before, after)
    BY <2>3 DEF Midway
  <2>5. \A j \in 0 .. Len(todo') : hs[j] = fs[0]
    BY <2>2
  <2> QED
    BY <2>4, <2>5 DEF Midway
<1> QED
  BY <1>2, <1>4, <1>5, <1>6 DEF Recoverable, Idle

LEMMA StartRecoverable ==
    ASSUME Restartable, Recoverable, Start
    PROVE  Recoverable'
<1>1. PICK fs :
         /\ Leaves(file, todo, fs)
         /\ CatalogTree \notin torn \cup op.splits =>
              Midway(fs, todo, torn \cup op.splits, op, before, after)
  BY DEF Recoverable
<1>2. /\ todo = <<>> /\ file' = file /\ todo' = todo /\ up' = TRUE /\ torn' = torn
      /\ op' = NoOp /\ op'.splits = {} /\ Len(todo) = 0
      /\ cat_root' = file[0].catalog_root /\ by_name' = LoadDefs(file, file[0].catalog_root)
  BY DEF Start, Restartable, NothingRuns, NoOp, DiskDefs, HEADER_PAGE_ID
<1>3. fs[0] = file /\ op.splits \subseteq torn
  BY <1>1 DEF Leaves, Recoverable, Start
<1>4. torn \cup op.splits = torn /\ torn' \cup op'.splits = torn
  BY <1>2, <1>3
<1>5. ASSUME CatalogTree \notin torn
      PROVE  Fine(file, torn)
  <2>1. Midway(fs, todo, torn \cup op.splits, op, before, after) /\ 0 \in 0 .. Len(todo)
    BY <1>1, <1>2, <1>4, <1>5
  <2>2. Fine(fs[0], torn \cup op.splits)
    BY <2>1 DEF Midway
  <2> QED
    BY <1>3, <1>4, <2>2
<1>6. ASSUME CatalogTree \notin torn
      PROVE  /\ Midway(fs, todo', torn, op', before', after')
             /\ Ahead(fs[Len(todo')], todo', torn, cat_root', by_name', before', after')
  BY <1>2, <1>3, <1>5, <1>6 DEF Midway, Ahead
<1> QED
  BY <1>1, <1>2, <1>4, <1>6 DEF Recoverable

\* The catalog of a new file is whole and empty.
LEMMA InitIntact ==
    ASSUME Init
    PROVE  \E N, R, g : Firm(N, R, file, g) /\ Intact(file, g, {}) /\ Rows(file, g, 0) = {}
<1>1. PICK N, R, g : /\ Firm(N, R, file, g) /\ file[1] = Leaf(<<>>, 0)
                     /\ file[0].catalog_root = 1 /\ 1 \in PageId
                     /\ \A q \in PageId : g.owner[q] = 0 <=> q = 1
  BY InitFirm
<1>2. PICK p : p = 1
  OBVIOUS
<1>3. p \in PageId \ {0} /\ Pages(g, 0) = {p} /\ file[p] = Leaf(<<>>, 0)
  BY <1>1, <1>2 DEF Pages
<1>4. PICK V : V = DefRecords
  OBVIOUS
<1>5. PICK i : i = 0
  OBVIOUS
<1>6. Pages(g, i) = {p}
  BY <1>3, <1>5
<1>7. Whole(file, g, i, p, V) /\ Rows(file, g, i) = {}
  BY <1>3, <1>6, WholeEmpty
<1>8. Whole(file, g, 0, file[0].catalog_root, DefRecords) /\ Rows(file, g, 0) = {}
  BY <1>1, <1>2, <1>4, <1>5, <1>7
<1>9. Intact(file, g, {})
  BY <1>8 DEF Intact, OneName
<1> QED
  BY <1>1, <1>8, <1>9

LEMMA InitRecoverable ==
    ASSUME Init
    PROVE  Recoverable
<1>1. Fine(file, {})
  BY InitIntact DEF Fine
<1>2. PICK fs : fs = [j \in {0} |-> file]
  OBVIOUS
<1>3. todo = <<>> /\ up = FALSE /\ op = NoOp /\ op.splits = {} /\ torn = {}
  BY DEF Init, NoOp
<1>4. Len(todo) = 0 /\ torn \cup op.splits = {}
  BY <1>3
<1>5. Leaves(file, todo, fs) /\ Midway(fs, todo, {}, op, before, after)
  BY <1>1, <1>2, <1>3, <1>4 DEF Leaves, Midway
<1> QED
  BY <1>3, <1>4, <1>5 DEF Recoverable, Idle

\* An operation that begins on a torn catalog.
LEMMA BeginTorn ==
    ASSUME Restartable', CatalogTree \in torn, up,
           NEW n, NEW t, NEW root, NEW defs, NEW splits, Begin(n, t, root, defs, splits)
    PROVE  Recoverable'
<1>1. torn' = torn /\ up' = TRUE /\ (Idle' => op' = NoOp)
  BY DEF Begin, Idle, NothingRuns
<1> QED
  BY <1>1, TornRecoverable

LEMMA OperationRecoverable ==
    ASSUME Restartable, Recoverable, Restartable', Idle, NEW n \in Names,
           \A N, R, g : Ready(N, R, g) => Begun(n),
           \E t, root, defs, splits : Begin(n, t, root, defs, splits)
    PROVE  Recoverable'
<1>1. CASE CatalogTree \in torn
  <2>1. PICK t, root, defs, splits : Begin(n, t, root, defs, splits)
    OBVIOUS
  <2> QED
    BY <1>1, <2>1, BeginTorn DEF Idle
<1>2. CASE CatalogTree \notin torn
  <2>1. \E N, R, g : Ready(N, R, g)
    BY <1>2, IdleReady
  <2>2. Begun(n)
    BY <2>1
  <2> QED
    BY <1>2, <2>2, BeginRecoverable
<1> QED
  BY <1>1, <1>2

LEMMA CreateTableRecoverable ==
    ASSUME Restartable, Recoverable, Restartable', NEW n \in Names, CreateTable(n)
    PROVE  Recoverable'
<1>1. Idle /\ \E t, root, defs, splits : Begin(n, t, root, defs, splits)
  BY CreateTableIs
<1>2. \A N, R, g : Ready(N, R, g) => Begun(n)
  BY CreateTableBegun
<1> QED
  BY <1>1, <1>2, OperationRecoverable

LEMMA CreateTooLargeRecoverable ==
    ASSUME Restartable, Recoverable, Restartable', NEW n \in Names, CreateTooLarge(n)
    PROVE  Recoverable'
<1>1. Idle /\ \E t, root, defs, splits : Begin(n, t, root, defs, splits)
  BY DEF CreateTooLarge
<1>2. \A N, R, g : Ready(N, R, g) => Begun(n)
  BY CreateTooLargeBegun
<1> QED
  BY <1>1, <1>2, OperationRecoverable

LEMMA DropTableRecoverable ==
    ASSUME Restartable, Recoverable, Restartable', NEW n \in Names, DropTable(n)
    PROVE  Recoverable'
<1>1. Idle /\ \E t, root, defs, splits : Begin(n, t, root, defs, splits)
  BY DEF DropTable
<1>2. \A N, R, g : Ready(N, R, g) => Begun(n)
  BY DropTableBegun
<1> QED
  BY <1>1, <1>2, OperationRecoverable

LEMMA InsertRowRecoverable ==
    ASSUME Restartable, Recoverable, Restartable', NEW n \in Names, NEW v \in Values,
           InsertRow(n, v)
    PROVE  Recoverable'
<1>1. Idle /\ \E t, root, defs, splits : Begin(n, t, root, defs, splits)
  BY DEF InsertRow
<1>2. \A N, R, g : Ready(N, R, g) => Begun(n)
  BY InsertRowBegun
<1> QED
  BY <1>1, <1>2, OperationRecoverable

LEMMA DeleteRowRecoverable ==
    ASSUME Restartable, Recoverable, Restartable', NEW n \in Names, NEW rowid \in Int,
           DeleteRow(n, rowid)
    PROVE  Recoverable'
<1>1. Idle /\ \E t, root, defs, splits : Begin(n, t, root, defs, splits)
  BY DEF DeleteRow
<1>2. \A N, R, g : Ready(N, R, g) => Begun(n)
  BY DeleteRowBegun
<1> QED
  BY <1>1, <1>2, OperationRecoverable

LEMMA UpdateRowRecoverable ==
    ASSUME Restartable, Recoverable, Restartable', NEW n \in Names, NEW rowid \in Int,
           NEW v \in Values, UpdateRow(n, rowid, v)
    PROVE  Recoverable'
<1>1. Idle /\ \E t, root, defs, splits : Begin(n, t, root, defs, splits)
  BY DEF UpdateRow
<1>2. \A N, R, g : Ready(N, R, g) => Begun(n)
  BY UpdateRowBegun
<1> QED
  BY <1>1, <1>2, OperationRecoverable

LEMMA NextRecoverable ==
    ASSUME Restartable, Recoverable, Restartable', [Next]_vars
    PROVE  Recoverable'
<1>1. CASE UNCHANGED vars
  BY <1>1 DEF vars, mem, ghosts, Recoverable, Idle
<1>2. CASE WriteNext
  BY <1>2, WriteRecoverable
<1>3. CASE Stop
  <2>1. op = NoOp
    BY <1>3 DEF Stop, Recoverable
  <2>2. op.splits = {}
    BY <2>1 DEF NoOp
  <2>3. Forget /\ file' = file /\ before' = before /\ after' = after /\ op' = op /\ torn' = torn
    BY <1>3 DEF Stop, ghosts
  <2> QED
    BY <2>2, <2>3, GoneRecoverable
<1>4. CASE Crash
  BY <1>4, GoneRecoverable DEF Crash
<1>5. CASE Start
  BY <1>5, StartRecoverable
<1>6. ASSUME NEW n \in Names, CreateTable(n)
      PROVE  Recoverable'
  BY <1>6, CreateTableRecoverable
<1>7. ASSUME NEW n \in Names, CreateTooLarge(n)
      PROVE  Recoverable'
  BY <1>7, CreateTooLargeRecoverable
<1>8. ASSUME NEW n \in Names, DropTable(n)
      PROVE  Recoverable'
  BY <1>8, DropTableRecoverable
<1>9. ASSUME NEW n \in Names, NEW v \in Values, InsertRow(n, v)
      PROVE  Recoverable'
  BY <1>9, InsertRowRecoverable
<1>10. ASSUME NEW n \in Names, NEW rowid \in 1 .. MaxRowid[n], DeleteRow(n, rowid)
       PROVE  Recoverable'
  <2>1. rowid \in Int
    BY EngineAssumption
  <2> QED
    BY <1>10, <2>1, DeleteRowRecoverable
<1>11. ASSUME NEW n \in Names, NEW rowid \in 1 .. MaxRowid[n], NEW v \in Values,
              UpdateRow(n, rowid, v)
       PROVE  Recoverable'
  <2>1. rowid \in Int
    BY EngineAssumption
  <2> QED
    BY <1>11, <2>1, UpdateRowRecoverable
<1> QED
  BY <1>1, <1>2, <1>3, <1>4, <1>5, <1>6, <1>7, <1>8, <1>9, <1>10, <1>11 DEF Next

LEMMA AlwaysRecoverable == Spec => [](Restartable /\ Recoverable)
<1>1. Init => Restartable /\ Recoverable
  BY InitRestartable, InitRecoverable
<1>2. Restartable /\ Recoverable /\ [Next]_vars => Restartable' /\ Recoverable'
  BY NextRestartable, NextRecoverable
<1> QED
  BY <1>1, <1>2, PTL DEF Spec

-----------------------------------------------------------------------------
(* What follows from it.                                                   *)

\* Whenever no operation runs, the file is intact but for what is torn, and what is
\* in force is what is on disk.
LEMMA QuietFacts ==
    ASSUME Restartable, Recoverable, todo = <<>>, CatalogTree \notin torn
    PROVE  /\ Defs = DiskDefs
           /\ \E N, R, g : Firm(N, R, file, g) /\ Intact(file, g, torn)
<1>1. CASE up
  <2>1. Idle
    BY <1>1 DEF Idle
  <2>2. PICK N, R, g : Ready(N, R, g)
    BY <2>1, IdleReady
  <2> QED
    BY <1>1, <2>2 DEF Ready, Defs, DiskDefs, HEADER_PAGE_ID
<1>2. CASE ~up
  <2>1. torn \cup op.splits = torn
    BY <1>2 DEF Recoverable
  <2>2. PICK fs : Leaves(file, todo, fs) /\ Midway(fs, todo, torn, op, before, after)
    BY <2>1 DEF Recoverable
  <2>3. Len(todo) = 0 /\ fs[0] = file
    BY <2>2 DEF Leaves
  <2>4. Fine(fs[0], torn)
    BY <2>2, <2>3 DEF Midway
  <2> QED
    BY <1>2, <2>3, <2>4 DEF Fine, Defs
<1> QED
  BY <1>1, <1>2

LEMMA RecoverableCoherent ==
    ASSUME Restartable, Recoverable
    PROVE  CacheCoherent
<1> SUFFICES ASSUME Idle, CatalogTree \notin torn
             PROVE  by_name = DiskDefs /\ cat_root = file[HEADER_PAGE_ID].catalog_root
  BY DEF CacheCoherent
<1>1. PICK N, R, g : Ready(N, R, g)
  BY IdleReady
<1> QED
  BY <1>1 DEF Ready, DiskDefs, HEADER_PAGE_ID

\* A tree without a tear is sound.
LEMMA WholeSound ==
    ASSUME NEW N, NEW R, NEW g, Firm(N, R, file, g), NEW i \in Nat,
           NEW root, NEW V, Whole(file, g, i, root, V), NEW keys \in SUBSET Int
    PROVE  Sound(root, keys) /\ ToSet(ScanEntries(file, root)) = Rows(file, g, i)
<1>1. Shows(file, root, Rows(file, g, i), V)
  BY WholeShows DEF Firm
<1>2. PICK seen : seen = ScanEntries(file, root)
  OBVIOUS
<1>3. /\ seen \in Seq([key : Int, value : V]) /\ KeysAscend(seen)
      /\ ToSet(seen) = Rows(file, g, i)
      /\ \A k \in Int : Found(file, root, k) = FirstOf(seen, k)
  BY <1>1, <1>2 DEF Shows
<1>4. DOMAIN seen = 1 .. Len(seen)
  BY <1>3
<1>5. \A a, b \in DOMAIN seen : a < b => seen[a].key < seen[b].key
  BY <1>3, <1>4 DEF KeysAscend
<1> QED
  BY <1>2, <1>3, <1>5 DEF Sound

LEMMA RecoverableSound ==
    ASSUME Restartable, Recoverable
    PROVE  SoundUnlessTorn
<1> SUFFICES ASSUME todo = <<>>, CatalogTree \notin torn
             PROVE  /\ Sound(file[HEADER_PAGE_ID].catalog_root, 1 .. MaxTableId)
                    /\ \A n \in Tables(Defs) \ torn :
                         /\ Sound(Defs[n].root_page, 1 .. MaxRowid[n])
                         /\ \A e \in ToSet(ScanEntries(file, Defs[n].root_page)) :
                              e.key <= Defs[n].next_rowid
  BY DEF SoundUnlessTorn
<1>1. PICK N, R, g : Firm(N, R, file, g) /\ Intact(file, g, torn)
  BY QuietFacts
<1>2. Sound(file[0].catalog_root, 1 .. MaxTableId)
  <2>1. Whole(file, g, 0, file[0].catalog_root, DefRecords)
    BY <1>1 DEF Intact
  <2>2. PICK keys \in SUBSET Int : keys = 1 .. MaxTableId
    BY EngineAssumption
  <2>3. PICK i \in Nat : i = 0
    OBVIOUS
  <2>4. PICK V : V = DefRecords
    OBVIOUS
  <2>5. PICK root : root = file[0].catalog_root
    OBVIOUS
  <2>6. Whole(file, g, i, root, V)
    BY <2>1, <2>3, <2>4, <2>5
  <2>7. Sound(root, keys)
    BY <1>1, <2>6, WholeSound
  <2> QED
    BY <2>2, <2>5, <2>7
<1>3. PICK rows : rows = Rows(file, g, 0)
  OBVIOUS
<1>4. Lists(rows, Defs)
  <2>1. Lists(rows, LoadDefs(file, file[0].catalog_root))
    BY <1>1, <1>3, LoadedLists
  <2>2. Defs = LoadDefs(file, file[0].catalog_root)
    BY QuietFacts DEF DiskDefs, HEADER_PAGE_ID
  <2> QED
    BY <2>1, <2>2
<1>5. ASSUME NEW n \in Tables(Defs) \ torn
      PROVE  /\ Sound(Defs[n].root_page, 1 .. MaxRowid[n])
             /\ \A e \in ToSet(ScanEntries(file, Defs[n].root_page)) : e.key <= Defs[n].next_rowid
  <2>1. PICK def : def = Defs[n]
    OBVIOUS
  <2>2. n \in Names /\ n \notin torn /\ def # NoDef
    BY <1>5, <2>1 DEF Tables
  <2>3. def.name = n /\ Entry(def.table_id, def) \in rows
    BY <1>4, <2>1, <2>2 DEF Lists
  <2>4. PICK e : e = Entry(def.table_id, def)
    OBVIOUS
  <2>5. e \in rows /\ e.key = def.table_id /\ e.value = def /\ e.value.name \notin torn
    BY <2>2, <2>3, <2>4 DEF Entry
  <2>6. SoundTable(file, g, e)
    BY <1>1, <1>3, <2>5 DEF Intact
  <2>7. e.key \in Nat
    <3>1. e \in CatEntries(N, R)
      BY <1>1, <1>3, <2>5, FirmFacts
    <3> QED
      BY <3>1, CatEntryFacts
  <2>8. PICK i \in Nat : i = e.key
    BY <2>7
  <2>9. PICK root : root = def.root_page
    OBVIOUS
  <2>10. /\ Whole(file, g, i, root, Values)
         /\ \A x \in Rows(file, g, i) : x.key <= def.next_rowid
    BY <2>5, <2>6, <2>8, <2>9 DEF SoundTable
  <2>11. PICK keys \in SUBSET Int : keys = 1 .. MaxRowid[n]
    BY <2>2, EngineAssumption
  <2>12. Sound(root, keys) /\ ToSet(ScanEntries(file, root)) = Rows(file, g, i)
    BY <1>1, <2>10, WholeSound
  <2> QED
    BY <2>1, <2>9, <2>10, <2>11, <2>12
<1> QED
  BY <1>2, <1>5 DEF HEADER_PAGE_ID

LEMMA RecoverableConfined ==
    ASSUME Restartable, Recoverable
    PROVE  CrashIsConfined
<1> SUFFICES ASSUME ~up, op # NoOp, CatalogTree \notin torn, NEW n \in Names \ op.splits
             PROVE  \/ View(file, DiskDefs)[n].rows = after[n].rows
                    \/ n = op.table /\ View(file, DiskDefs)[n].rows = before[n].rows
  BY DEF CrashIsConfined
<1>1. todo = <<>> /\ torn \cup op.splits = torn
  BY DEF Restartable, Recoverable
<1>2. PICK fs : Leaves(file, todo, fs) /\ Midway(fs, todo, torn, op, before, after)
  BY <1>1 DEF Recoverable
<1>3. Len(todo) = 0 /\ fs[0] = file
  BY <1>1, <1>2 DEF Leaves
<1>4. Confined(file, op.table, op.splits, before, after)
  BY <1>2, <1>3 DEF Midway
<1>5. TableOf(file, n) = View(file, DiskDefs)[n]
  BY ViewIs DEF TableOf, DiskDefs, HEADER_PAGE_ID
<1> QED
  BY <1>4, <1>5 DEF Confined

\* Between two operations the definitions and the catalog root a process works from
\* are those in the file (catalog.h save, sync_root; the constructor), unless a crash
\* has torn the catalog.
THEOREM CacheIsCoherent == Spec => []CacheCoherent
BY AlwaysRecoverable, RecoverableCoherent, PTL

\* However many crashes came before, a table whose tree none of them caught in a
\* split scans in ascending order, finds what it scans and has no row id that it
\* will give out twice (table.h insert_row, catalog.h save).
THEOREM AlwaysSoundUnlessTorn == Spec => []SoundUnlessTorn
BY AlwaysRecoverable, RecoverableSound, PTL

\* A crash costs no row of a table the interrupted operation does not name, and
\* leaves the one it names as before or as after, unless its tree was splitting
\* (the order of the write_page calls of btree.h, catalog.h and table.h).
THEOREM CrashAlwaysConfined == Spec => []CrashIsConfined
BY AlwaysRecoverable, RecoverableConfined, PTL

-----------------------------------------------------------------------------
(* Without a crash inside an operation the engine is a Store.              *)

\* The tables as the SQL layer knows them.
Served == IF todo = <<>> THEN View(file, Defs) ELSE before

\* One table of db changes.
PutTable(b, n, X, i) == [b EXCEPT ![n] = [rows |-> X, next_rowid |-> i]]

PutRows(b, n, X) == [b EXCEPT ![n].rows = X]

PutNext(b, n, i) == [b EXCEPT ![n].next_rowid = i]

LEMMA NewRows ==
    ASSUME NEW b, NEW n, NEW X, NEW i, b[n] = [rows |-> b[n].rows, next_rowid |-> i]
    PROVE  PutRows(b, n, X) = PutTable(b, n, X, i)
<1>1. PICK x : x = b[n]
  OBVIOUS
<1>2. x = [rows |-> x.rows, next_rowid |-> i]
  BY <1>1
<1>3. [x EXCEPT !.rows = X] = [rows |-> X, next_rowid |-> i]
  BY <1>2
<1>4. [b[n] EXCEPT !.rows = X] = [rows |-> X, next_rowid |-> i]
  BY <1>1, <1>3
<1> QED
  BY <1>4 DEF PutRows, PutTable

LEMMA NewNext ==
    ASSUME NEW b, NEW n \in DOMAIN b, NEW X, NEW i, NEW j
    PROVE  PutNext(PutTable(b, n, X, i), n, j) = PutTable(b, n, X, j)
<1>1. PICK y : y = [rows |-> X, next_rowid |-> i]
  OBVIOUS
<1>2. PICK c : c = [b EXCEPT ![n] = y]
  OBVIOUS
<1>3. c = PutTable(b, n, X, i)
  BY <1>1, <1>2 DEF PutTable
<1>4. c[n] = y
  BY <1>2
<1>5. [y EXCEPT !.next_rowid = j] = [rows |-> X, next_rowid |-> j]
  BY <1>1
<1>6. [c EXCEPT ![n].next_rowid = j] = [c EXCEPT ![n] = [rows |-> X, next_rowid |-> j]]
  BY <1>4, <1>5
<1>7. [c EXCEPT ![n] = [rows |-> X, next_rowid |-> j]] = PutTable(b, n, X, j)
  BY <1>2 DEF PutTable
<1> QED
  BY <1>3, <1>6, <1>7 DEF PutNext

LEMMA InsertServed ==
    ASSUME NEW n \in Names, NEW v \in Values, Shown(Served), Served[n] # NoRows,
           Served' = PutTable(Served, n,
                              Served[n].rows \cup {Entry(Served[n].next_rowid, v)},
                              Served[n].next_rowid + 1)
    PROVE  Abstract!InsertRow(n, v)
<1>1. PICK b : b = Served
  OBVIOUS
<1>2. PICK X : X = b[n].rows \cup {Entry(b[n].next_rowid, v)}
  OBVIOUS
<1>3. PICK i : i = b[n].next_rowid
  OBVIOUS
<1>4. n \in DOMAIN b /\ b[n] = [rows |-> b[n].rows, next_rowid |-> i]
  BY <1>1, <1>3 DEF Shown
<1>5. Served' = PutNext(PutRows(b, n, X), n, i + 1)
  <2>1. Served' = PutTable(b, n, X, i + 1)
    BY <1>1, <1>2, <1>3
  <2>2. PutRows(b, n, X) = PutTable(b, n, X, i)
    BY <1>4, NewRows
  <2>3. PutNext(PutTable(b, n, X, i), n, i + 1) = PutTable(b, n, X, i + 1)
    BY <1>4, NewNext
  <2> QED
    BY <2>1, <2>2, <2>3
<1>6. X = b[n].rows \cup {[key |-> b[n].next_rowid, value |-> v]}
  BY <1>2 DEF Entry
<1> QED
  BY <1>1, <1>3, <1>5, <1>6
     DEF PutNext, PutRows, Abstract!InsertRow, Abstract!Exists, Abstract!NoTable, NoRows, Served

\* A step of Store, in Store's words.
LEMMA AbstractStep ==
    ASSUME StoreStep(Served, Served')
    PROVE  [Abstract!Next]_Served
<1>1. PICK b : b = Served
  OBVIOUS
<1>2. PICK a : a = Served'
  OBVIOUS
<1>3. /\ b = [n \in Names |-> b[n]] /\ a = [n \in Names |-> a[n]]
      /\ \A n \in Names : b[n] = [rows |-> b[n].rows, next_rowid |-> b[n].next_rowid]
  BY <1>1, <1>2 DEF StoreStep, Shown
<1>4. PICK n \in Names : /\ \A m \in Names \ {n} : a[m] = b[m]
                         /\ a[n] = b[n] \/ TableStep(b[n], a[n])
  BY <1>1, <1>2 DEF StoreStep
<1>5. a = [b EXCEPT ![n] = a[n]]
  BY <1>3, <1>4
<1>6. CASE a[n] = b[n]
  <2>1. a = b
    BY <1>3, <1>4, <1>6
  <2> QED
    BY <1>1, <1>2, <2>1
<1>7. CASE b[n] = NoRows /\ a[n] = [rows |-> {}, next_rowid |-> 1]
  <2>1. Abstract!CreateTable(n)
    BY <1>1, <1>2, <1>5, <1>7
       DEF Abstract!CreateTable, Abstract!Exists, Abstract!NoTable, NoRows, Served
  <2> QED
    BY <2>1 DEF Abstract!Next
<1>8. CASE b[n] # NoRows /\ a[n] = NoRows
  <2>1. Abstract!DropTable(n)
    BY <1>1, <1>2, <1>5, <1>8
       DEF Abstract!DropTable, Abstract!Exists, Abstract!NoTable, NoRows, Served
  <2> QED
    BY <2>1 DEF Abstract!Next
<1>9. ASSUME NEW v \in Values, b[n] # NoRows,
             a[n] = [rows |-> b[n].rows \cup {Entry(b[n].next_rowid, v)},
                     next_rowid |-> b[n].next_rowid + 1]
      PROVE  Abstract!Next
  <2>1. Shown(b)
    BY <1>1 DEF StoreStep
  <2>2. Abstract!InsertRow(n, v)
    BY <1>1, <1>2, <1>5, <1>9, <2>1, InsertServed DEF PutTable
  <2> QED
    BY <2>2 DEF Abstract!Next
<1>10. ASSUME NEW row \in b[n].rows,
              a[n] = [rows |-> b[n].rows \ {row}, next_rowid |-> b[n].next_rowid]
       PROVE  Abstract!Next
  <2>1. a = PutRows(b, n, b[n].rows \ {row})
    <3>1. PICK X : X = b[n].rows \ {row}
      OBVIOUS
    <3>2. PICK i : i = b[n].next_rowid
      OBVIOUS
    <3>3. a = PutTable(b, n, X, i)
      BY <1>5, <1>10, <3>1, <3>2 DEF PutTable
    <3>4. PutRows(b, n, X) = PutTable(b, n, X, i)
      BY <1>3, <3>2, NewRows
    <3> QED
      BY <3>1, <3>3, <3>4
  <2>2. Abstract!DeleteRow(n, row)
    BY <1>1, <1>2, <2>1 DEF Abstract!DeleteRow, Served, PutRows
  <2>3. row \in Served[n].rows
    BY <1>1, <1>10
  <2> QED
    BY <2>2, <2>3 DEF Abstract!Next, Served
<1>11. ASSUME NEW row \in b[n].rows, NEW v \in Values, row = Entry(row.key, row.value),
              a[n] = [rows |-> (b[n].rows \ {row}) \cup {Entry(row.key, v)},
                      next_rowid |-> b[n].next_rowid]
       PROVE  Abstract!Next
  <2>1. [row EXCEPT !.value = v] = Entry(row.key, v)
    BY <1>11 DEF Entry
  <2>2. a = [b EXCEPT ![n].rows = (b[n].rows \ {row}) \cup {[row EXCEPT !.value = v]}]
    <3>1. PICK X : X = (b[n].rows \ {row}) \cup {[row EXCEPT !.value = v]}
      OBVIOUS
    <3>2. PICK i : i = b[n].next_rowid
      OBVIOUS
    <3>3. a = PutTable(b, n, X, i)
      BY <1>5, <1>11, <2>1, <3>1, <3>2 DEF PutTable
    <3>4. PutRows(b, n, X) = PutTable(b, n, X, i)
      BY <1>3, <3>2, NewRows
    <3> QED
      BY <3>1, <3>3, <3>4 DEF PutRows
  <2>3. Abstract!UpdateRow(n, row, v)
    BY <1>1, <1>2, <2>2 DEF Abstract!UpdateRow, Served
  <2>4. row \in Served[n].rows
    BY <1>1, <1>11
  <2> QED
    BY <2>3, <2>4 DEF Abstract!Next, Served
<1> QED
  BY <1>4, <1>6, <1>7, <1>8, <1>9, <1>10, <1>11 DEF TableStep

\* The same tables.
LEMMA AbstractStutter ==
    ASSUME Served' = Served
    PROVE  [Abstract!Next]_Served
OBVIOUS

\* No tree is torn.
Unharmed == torn = {}

\* A step other than a crash tears nothing.
LEMMA NoTear ==
    ASSUME [Next]_vars, [~Crash]_vars
    PROVE  torn' = torn
<1>1. CASE WriteNext \/ Stop \/ Start
  BY <1>1 DEF WriteNext, Stop, Start, ghosts
<1>2. ASSUME NEW n, NEW t, NEW root, NEW defs, NEW splits, Begin(n, t, root, defs, splits)
      PROVE  torn' = torn
  BY <1>2 DEF Begin
<1>3. ASSUME NEW n \in Names, CreateTable(n) \/ CreateTooLarge(n) \/ DropTable(n)
      PROVE  torn' = torn
  BY <1>2, <1>3 DEF CreateTable, CreateTooLarge, DropTable
<1>4. ASSUME NEW n \in Names, NEW v \in Values, InsertRow(n, v)
      PROVE  torn' = torn
  BY <1>2, <1>4 DEF InsertRow
<1>5. ASSUME NEW n \in Names, NEW rowid, DeleteRow(n, rowid)
      PROVE  torn' = torn
  BY <1>2, <1>5 DEF DeleteRow
<1>6. ASSUME NEW n \in Names, NEW rowid, NEW v \in Values, UpdateRow(n, rowid, v)
      PROVE  torn' = torn
  BY <1>2, <1>6 DEF UpdateRow
<1>7. CASE UNCHANGED vars
  BY <1>7 DEF vars, ghosts
<1>8. CASE Crash
  BY <1>7, <1>8
<1> QED
  BY <1>1, <1>3, <1>4, <1>5, <1>6, <1>7, <1>8 DEF Next

LEMMA ServedInit ==
    ASSUME Init
    PROVE  Abstract!Init
<1>1. PICK N, R, g : Firm(N, R, file, g) /\ Intact(file, g, {}) /\ Rows(file, g, 0) = {}
  BY InitIntact
<1>2. Defs = LoadDefs(file, file[0].catalog_root) /\ todo = <<>>
  BY DEF Init, Defs, DiskDefs, HEADER_PAGE_ID
<1>3. Lists({}, Defs)
  BY <1>1, <1>2, LoadedLists
<1>4. PICK d : d = Served
  OBVIOUS
<1>5. d = [n \in Names |-> d[n]] /\ \A n \in Names : d[n] = TableAt(file, Defs[n])
  BY <1>2, <1>4, ViewIs DEF Served
<1>6. \A n \in Names : d[n] = [rows |-> {}, next_rowid |-> 0]
  BY <1>3, <1>5 DEF Lists, TableAt
<1>7. d = [n \in Names |-> [rows |-> {}, next_rowid |-> 0]]
  BY <1>5, <1>6
<1> QED
  BY <1>4, <1>7 DEF Abstract!Init, Abstract!NoTable, Served

LEMMA BegunServed ==
    ASSUME Restartable, Recoverable, Idle, torn = {}, NEW n \in Names, Begun(n)
    PROVE  [Abstract!Next]_Served
<1>1. PICK t, root, defs, splits : /\ Performs(n, t, root, defs, splits)
                                   /\ Begin(n, t, root, defs, splits)
  BY DEF Begun
<1>2. Served = View(file, by_name)
  BY DEF Served, Defs, Idle
<1>3. /\ todo' = t.writes /\ by_name' = defs /\ file' = file /\ up' = TRUE
  BY <1>1 DEF Begin, Idle
<1>4. CASE t.writes # <<>>
  <2>1. Served' = View(file, by_name)
    BY <1>1, <1>3, <1>4 DEF Served, Begin
  <2> QED
    BY <1>2, <2>1, AbstractStutter
<1>5. CASE t.writes = <<>>
  <2>1. PICK F : Through(Here, t, F)
    BY <1>1 DEF Performs
  <2>2. PICK fs : Replay(Here, t, fs)
    BY <2>1 DEF Through
  <2>3. Here.file = file /\ Here.writes = <<>>
    BY DEF Here, Store
  <2>4. t.file = file
    BY <1>5, <2>2, <2>3 DEF Replay
  <2>5. Served' = View(t.file, defs)
    BY <1>3, <1>5, <2>4 DEF Served, Defs
  <2>6. StoreStep(Served, Served')
    BY <1>1, <1>2, <2>5 DEF Performs
  <2> QED
    BY <2>6, AbstractStep
<1> QED
  BY <1>4, <1>5

LEMMA WriteServed ==
    ASSUME Restartable, Recoverable, torn = {}, WriteNext
    PROVE  [Abstract!Next]_Served
<1>1. CASE todo' # <<>>
  <2>1. Served' = Served
    BY <1>1 DEF WriteNext, Served
  <2> QED
    BY <2>1, AbstractStutter
<1>2. CASE todo' = <<>>
  <2>1. PICK fs : /\ Leaves(file, todo, fs)
                  /\ Ahead(fs[Len(todo)], todo, torn, cat_root, by_name, before, after)
    BY DEF Recoverable, WriteNext
  <2>2. /\ Len(Tail(todo)) = Len(todo) - 1 /\ Len(todo) \in Nat \ {0} /\ Head(todo) = todo[1]
    BY TailFacts DEF Restartable, WriteNext
  <2>3. /\ file' = WritePage(file, todo[1][1], todo[1][2]) /\ Len(todo) = 1
        /\ todo # <<>> /\ by_name' = by_name /\ up' = TRUE
    <3>1. todo' = Tail(todo) /\ todo # <<>> /\ up' = TRUE /\ by_name' = by_name
          /\ file' = WritePage(file, todo[1][1], todo[1][2])
      BY <2>2 DEF WriteNext, mem, Restartable
    <3>2. PICK w : w = Tail(todo)
      OBVIOUS
    <3>3. w = <<>>
      BY <1>2, <3>1, <3>2
    <3>4. Len(w) = 0
      BY <3>3
    <3>5. Len(Tail(todo)) = 0
      BY <3>2, <3>4
    <3>6. PICK k : k = Len(todo)
      OBVIOUS
    <3>7. k - 1 = 0 /\ k \in Nat
      BY <2>2, <3>5, <3>6
    <3>8. k = 1
      BY <3>7
    <3> QED
      BY <3>1, <3>6, <3>8
  <2>4. fs[Len(todo)] = file'
    BY <2>1, <2>3 DEF Leaves
  <2>5. after = View(file', by_name) /\ StoreStep(before, after)
    BY <2>1, <2>3, <2>4 DEF Ahead
  <2>6. Served = before /\ Served' = after
    BY <1>2, <2>3, <2>5 DEF Served, Defs
  <2> QED
    BY <2>5, <2>6, AbstractStep
<1> QED
  BY <1>1, <1>2

LEMMA OperationServed ==
    ASSUME Restartable, Recoverable, Idle, torn = {}, NEW n \in Names,
           \A N, R, g : Ready(N, R, g) => Begun(n)
    PROVE  [Abstract!Next]_Served
<1>1. \E N, R, g : Ready(N, R, g)
  BY IdleReady
<1> QED
  BY <1>1, BegunServed

LEMMA StopServed ==
    ASSUME Restartable, Recoverable, torn = {}, Stop
    PROVE  [Abstract!Next]_Served
<1>1. Idle /\ up' = FALSE /\ todo' = <<>> /\ file' = file
  BY DEF Stop, Forget
<1>2. by_name = DiskDefs
  BY <1>1, RecoverableCoherent DEF CacheCoherent
<1>3. Served = View(file, DiskDefs)
  BY <1>1, <1>2 DEF Served, Defs, Idle
<1>4. DiskDefs' = DiskDefs
  BY <1>1 DEF DiskDefs
<1>5. Served' = View(file, DiskDefs)
  BY <1>1, <1>4 DEF Served, Defs
<1> QED
  BY <1>3, <1>5, AbstractStutter

LEMMA StartServed ==
    ASSUME Restartable, Start
    PROVE  [Abstract!Next]_Served
<1>1. ~up /\ todo = <<>> /\ up' = TRUE /\ todo' = <<>> /\ file' = file /\ by_name' = DiskDefs
  BY DEF Start, Restartable
<1>2. Served' = Served
  BY <1>1 DEF Served, Defs
<1> QED
  BY <1>2, AbstractStutter

LEMMA NextServed ==
    ASSUME Restartable, Recoverable, torn = {}, [Next]_vars, [~Crash]_vars
    PROVE  [Abstract!Next]_Served
<1>1. CASE UNCHANGED vars
  <2>1. DiskDefs' = DiskDefs
    BY <1>1 DEF vars, DiskDefs
  <2>2. Served' = Served
    BY <1>1, <2>1 DEF vars, mem, ghosts, Served, Defs
  <2> QED
    BY <2>2, AbstractStutter
<1>2. CASE WriteNext
  BY <1>2, WriteServed
<1>3. CASE Stop
  BY <1>3, StopServed
<1>4. CASE Start
  BY <1>4, StartServed
<1>5. ASSUME NEW n \in Names, CreateTable(n)
      PROVE  [Abstract!Next]_Served
  <2>1. Idle
    BY <1>5, CreateTableIs
  <2>2. \A N, R, g : Ready(N, R, g) => Begun(n)
    BY <1>5, CreateTableBegun
  <2> QED
    BY <2>1, <2>2, OperationServed
<1>6. ASSUME NEW n \in Names, CreateTooLarge(n)
      PROVE  [Abstract!Next]_Served
  <2>1. Idle
    BY <1>6 DEF CreateTooLarge
  <2>2. \A N, R, g : Ready(N, R, g) => Begun(n)
    BY <1>6, CreateTooLargeBegun
  <2> QED
    BY <2>1, <2>2, OperationServed
<1>7. ASSUME NEW n \in Names, DropTable(n)
      PROVE  [Abstract!Next]_Served
  <2>1. Idle
    BY <1>7 DEF DropTable
  <2>2. \A N, R, g : Ready(N, R, g) => Begun(n)
    BY <1>7, DropTableBegun
  <2> QED
    BY <2>1, <2>2, OperationServed
<1>8. ASSUME NEW n \in Names, NEW v \in Values, InsertRow(n, v)
      PROVE  [Abstract!Next]_Served
  <2>1. Idle
    BY <1>8 DEF InsertRow
  <2>2. \A N, R, g : Ready(N, R, g) => Begun(n)
    BY <1>8, InsertRowBegun
  <2> QED
    BY <2>1, <2>2, OperationServed
<1>9. ASSUME NEW n \in Names, NEW rowid \in 1 .. MaxRowid[n], DeleteRow(n, rowid)
      PROVE  [Abstract!Next]_Served
  <2>1. Idle /\ rowid \in Int
    BY <1>9, EngineAssumption DEF DeleteRow
  <2>2. \A N, R, g : Ready(N, R, g) => Begun(n)
    BY <1>9, <2>1, DeleteRowBegun
  <2> QED
    BY <2>1, <2>2, OperationServed
<1>10. ASSUME NEW n \in Names, NEW rowid \in 1 .. MaxRowid[n], NEW v \in Values,
              UpdateRow(n, rowid, v)
       PROVE  [Abstract!Next]_Served
  <2>1. Idle /\ rowid \in Int
    BY <1>10, EngineAssumption DEF UpdateRow
  <2>2. \A N, R, g : Ready(N, R, g) => Begun(n)
    BY <1>10, <2>1, UpdateRowBegun
  <2> QED
    BY <2>1, <2>2, OperationServed
<1> QED
  BY <1>1, <1>2, <1>3, <1>4, <1>5, <1>6, <1>7, <1>8, <1>9, <1>10 DEF Next

\* As long as no process dies inside an operation, the tables that the SQL layer is
\* served are those of Store: a page write other than the last of an operation, a
\* split, a definition saved and an orderly restart show nothing, and the last write
\* shows exactly what create_table, drop_table, insert_row, update_row or delete_row
\* promises (catalog.h, table.h).
THEOREM EngineImplementsStore == Spec /\ [][~Crash]_vars => ImplementsStore
<1>1. Init => Abstract!Init /\ Unharmed
  BY ServedInit DEF Init, Unharmed
<1>2. Restartable /\ Recoverable /\ Unharmed /\ [Next]_vars /\ [~Crash]_vars
        => [Abstract!Next]_(IF todo = <<>> THEN View(file, Defs) ELSE before) /\ Unharmed'
  BY NextServed, NoTear DEF Served, Unharmed
<1> QED
  BY <1>1, <1>2, AlwaysRecoverable, PTL DEF Spec, ImplementsStore, Abstract!Spec
=============================================================================
