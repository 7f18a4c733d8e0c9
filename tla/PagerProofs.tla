---------------------------- MODULE PagerProofs -----------------------------
(***************************************************************************)
(* The pager's invariants for files of any length and any number of table  *)
(* ids.  They rest on one inductive invariant, IInv: beside the header on  *)
(* disk it speaks of the header in memory, which is one write ahead while  *)
(* an allocation or a release is half done.                                *)
(***************************************************************************)
EXTENDS Pager, TLAPS

\* A process that has the file open.
Running == pc \in {"idle", "alloc_flush", "free_flush"}

\* The pages that are spoken for: those held, and one being allocated.
Used == IF pc = "alloc_flush" THEN held \cup {arg} ELSE held

\* Before the first start is through, nothing is held or issued.
InitPhase ==
    /\ ~created => pc = "down" /\ held = {}
    /\ pc \in {"init_header", "init_root"} => held = {} /\ hdr = FreshHeader
    /\ pc = "init_root" => file[0] = FreshHeader
    /\ pc = "refused" => held = {}
    /\ Running => held # {}
    /\ issued # {} => held # {}
    /\ held = {} => file[0] \in {Absent, FreshHeader} /\ file[1] = Absent

\* What the header on disk says, from then on.
DiskPhase ==
    held # {} =>
      /\ file[0] \in HeaderSet
      /\ file[0].catalog_root \in held
      /\ InFile(file, file[0], held)
      /\ HasFreeList(file, file[0], held)
      /\ \A i \in issued : i < file[0].next_table_id

\* What the header in memory says, and how far it is ahead of the disk.
MemPhase ==
    Running =>
      /\ pc = "idle" => hdr = file[0]
      /\ hdr.catalog_root = file[0].catalog_root
      /\ hdr.next_table_id = file[0].next_table_id
      /\ InFile(file, hdr, Used)
      /\ HasFreeList(file, hdr, Used)
      /\ pc = "alloc_flush" => arg \notin held

IInv == TypeOK /\ InitPhase /\ DiskPhase /\ MemPhase

-----------------------------------------------------------------------------
(* Lemmas about free lists.                                                *)

\* A list is a matter of its own pages: writing elsewhere leaves it alone.
LEMMA FreeListLocal ==
    ASSUME NEW f, NEW g, NEW head, NEW F, IsFreeList(f, head, F),
           \A p \in F : g[p] = f[p]
    PROVE  IsFreeList(g, head, F)
BY DEF IsFreeList

\* Taking the head off a list leaves a list that starts at its successor.
LEMMA FreeListPop ==
    ASSUME NEW f, NEW F, NEW head \in F, 0 \notin F, IsFreeList(f, head, F)
    PROVE  /\ f[head] \in LinkSet
           /\ IsFreeList(f, f[head].next, F \ {head})
BY DEF IsFreeList

\* Putting a page in front of a list.
LEMMA FreeListPush ==
    ASSUME NEW f, NEW g, NEW F, NEW head \in PageId, NEW p,
           p \notin F, p # 0, p \in PageId, IsFreeList(f, head, F),
           \A q \in F : g[q] = f[q], g[p] = Link(head)
    PROVE  IsFreeList(g, p, F \cup {p})
<1>1. g[p] \in LinkSet /\ g[p].next = head
  BY DEF Link, LinkSet
<1> QED
  BY <1>1 DEF IsFreeList

\* A blank page is a list of itself.
LEMMA FreeListBlank ==
    ASSUME NEW f, NEW p, p # 0, f[p] = Blank
    PROVE  IsFreeList(f, p, {p})
<1>1. 0 \in PageId
  BY MaxPagesAssumption DEF PageId
<1>2. f[p] \in LinkSet /\ f[p].next = 0
  BY <1>1 DEF Blank, Link, LinkSet
<1> QED
  BY <1>2 DEF IsFreeList

-----------------------------------------------------------------------------
(* The inductive invariant, one lemma per action that moves pages.         *)

LEMMA PageIds == 0 \in PageId /\ 1 \in PageId /\ PageId \subseteq Nat
BY MaxPagesAssumption DEF PageId

LEMMA InitInv == Init => IInv
<1> SUFFICES ASSUME Init PROVE IInv
  OBVIOUS
<1>1. TypeOK
  <2>1. NoHeader \in HeaderSet
    BY PageIds, MaxPagesAssumption DEF NoHeader, Header, HeaderSet
  <2> QED
    BY <2>1, PageIds DEF Init, TypeOK
<1>2. InitPhase /\ DiskPhase /\ MemPhase
  BY PageIds DEF Init, InitPhase, DiskPhase, MemPhase, Running
<1> QED
  BY <1>1, <1>2 DEF IInv

\* allocate_page, first write.  The header on disk still has the page at the
\* head of its list, where it is now a list of itself, or past its end; the
\* header in memory no longer does.
LEMMA AllocateZeroStep == IInv /\ AllocateZero => IInv'
<1> SUFFICES ASSUME IInv, AllocateZero PROVE IInv'
  OBVIOUS
<1> USE DEF IInv
<1> DEFINE id == AllocPage(hdr)
<1>1. /\ pc = "idle" /\ Running /\ held # {} /\ hdr = file[0]
      /\ hdr \in HeaderSet /\ Used = held /\ created
  BY DEF AllocateZero, Running, InitPhase, MemPhase, DiskPhase, Used
<1>2. PICK F \in SUBSET (1 .. hdr.num_pages - 1) :
        F \cap held = {} /\ IsFreeList(file, hdr.free_list_head, F)
  BY <1>1 DEF MemPhase, HasFreeList
<1>3. InFile(file, hdr, held)
  BY <1>1 DEF MemPhase
<1>4. hdr.num_pages \in Nat /\ hdr.free_list_head \in PageId
  BY <1>1, MaxPagesAssumption DEF HeaderSet
<1>5. /\ id \in PageId /\ id # 0 /\ id \notin held
      /\ hdr' \in HeaderSet /\ id < hdr'.num_pages
      /\ hdr.num_pages <= hdr'.num_pages
      /\ hdr'.catalog_root = hdr.catalog_root
      /\ hdr'.next_table_id = hdr.next_table_id
  <2>1. CASE hdr.free_list_head # 0
    <3>1. id = hdr.free_list_head /\ id \in F
      BY <2>1, <1>2 DEF AllocPage, IsFreeList
    <3>2. hdr' = [hdr EXCEPT !.free_list_head = file[id].next]
      BY <2>1, <3>1 DEF AllocateZero, AllocHeader
    <3>3. file[id].next \in PageId
      BY <3>1, <1>2 DEF IsFreeList, LinkSet
    <3> QED
      BY <3>1, <3>2, <3>3, <1>1, <1>2, <1>4 DEF HeaderSet
  <2>2. CASE hdr.free_list_head = 0
    <3>1. id = hdr.num_pages /\ hdr' = [hdr EXCEPT !.num_pages = @ + 1]
      BY <2>2 DEF AllocateZero, AllocHeader, AllocPage
    <3>2. hdr.num_pages + 1 <= MaxPages
      BY <2>2 DEF AllocateZero, CanAlloc
    <3>3. id \notin held
      BY <3>1, <1>3, <1>4 DEF InFile
    <3>4. hdr.num_pages # 0
      <4>1. PICK p \in held : TRUE
        BY <1>1
      <4> QED
        BY <4>1, <1>3, <1>4, PageIds DEF InFile, TypeOK
    <3> QED
      BY <3>1, <3>2, <3>3, <3>4, <1>1, <1>4, MaxPagesAssumption
         DEF HeaderSet, PageId
  <2> QED
    BY <2>1, <2>2
<1>6. /\ file' = [file EXCEPT ![id] = Blank] /\ arg' = id
      /\ pc' = "alloc_flush"
      /\ UNCHANGED <<created, held, issued>>
  BY DEF AllocateZero, WritePage
<1>7. Blank \in LinkSet
  BY PageIds DEF Blank, Link, LinkSet
<1>8. TypeOK'
  BY <1>1, <1>5, <1>6, <1>7 DEF TypeOK
<1>9. InitPhase'
  BY <1>1, <1>6 DEF InitPhase, Running
<1>10. file'[0] = file[0] /\ file'[id] = Blank
      /\ \A p \in PageId : p # id => file'[p] = file[p]
  BY <1>5, <1>6, PageIds DEF TypeOK
<1>11. held \subseteq PageId
  BY DEF TypeOK
<1>12. Blank # Absent
  BY DEF Blank, Link, Absent
<1>13. DiskPhase'
  <2>1. InFile(file', file'[0], held')
    BY <1>1, <1>3, <1>5, <1>6, <1>10, <1>11 DEF InFile
  <2>2. HasFreeList(file', file'[0], held')
    <3>1. CASE hdr.free_list_head # 0
      <4>1. id = hdr.free_list_head /\ id \in F
        BY <3>1, <1>2 DEF AllocPage, IsFreeList
      <4>2. IsFreeList(file', id, {id})
        BY <1>5, <1>10, FreeListBlank
      <4> QED
        BY <4>1, <4>2, <1>1, <1>2, <1>5, <1>6, <1>10 DEF HasFreeList
    <3>2. CASE hdr.free_list_head = 0
      <4>1. id = hdr.num_pages
        BY <3>2 DEF AllocPage
      <4>2. \A p \in F : file'[p] = file[p]
        BY <4>1, <1>2, <1>4, <1>5, <1>10, MaxPagesAssumption DEF PageId
      <4>3. IsFreeList(file', hdr.free_list_head, F)
        BY <4>2, <1>2, FreeListLocal
      <4> QED
        BY <4>3, <1>1, <1>2, <1>6, <1>10 DEF HasFreeList
    <3> QED
      BY <3>1, <3>2
  <2> QED
    BY <2>1, <2>2, <1>1, <1>6, <1>10 DEF DiskPhase
<1>14. MemPhase'
  <2>1. Used' = held \cup {id}
    BY <1>6 DEF Used
  <2>2. InFile(file', hdr', Used')
    <3> SUFFICES ASSUME NEW p \in held \cup {id}
                 PROVE  p # 0 /\ p < hdr'.num_pages /\ file'[p] # Absent
      BY <2>1 DEF InFile
    <3>1. CASE p = id
      BY <3>1, <1>5, <1>10, <1>12
    <3>2. CASE p \in held
      <4>1. p # 0 /\ p < hdr.num_pages /\ file[p] # Absent
        BY <3>2, <1>3 DEF InFile
      <4>2. p \in Nat /\ hdr'.num_pages \in Nat
        BY <3>2, <1>5, <1>11, PageIds, MaxPagesAssumption DEF HeaderSet
      <4> QED
        BY <3>2, <4>1, <4>2, <1>4, <1>5, <1>10, <1>11
    <3> QED
      BY <3>1, <3>2
  <2>3. HasFreeList(file', hdr', Used')
    <3>1. CASE hdr.free_list_head # 0
      <4>1. id = hdr.free_list_head /\ id \in F
        BY <3>1, <1>2 DEF AllocPage, IsFreeList
      <4>2. hdr' = [hdr EXCEPT !.free_list_head = file[id].next]
        BY <3>1, <4>1 DEF AllocateZero, AllocHeader
      <4>3. IsFreeList(file, file[id].next, F \ {id})
        BY <4>1, <1>2, FreeListPop
      <4>4. \A p \in F \ {id} : file'[p] = file[p]
        BY <1>6 DEF TypeOK
      <4>5. IsFreeList(file', file[id].next, F \ {id})
        BY <4>3, <4>4, FreeListLocal
      <4>6. hdr'.free_list_head = file[id].next /\ hdr'.num_pages = hdr.num_pages
        BY <4>2, <1>1 DEF HeaderSet
      <4> QED
        BY <4>5, <4>6, <2>1, <1>2 DEF HasFreeList
    <3>2. CASE hdr.free_list_head = 0
      <4>1. id = hdr.num_pages /\ hdr' = [hdr EXCEPT !.num_pages = @ + 1]
        BY <3>2 DEF AllocateZero, AllocHeader, AllocPage
      <4>2. id \notin F /\ F \in SUBSET (1 .. hdr'.num_pages - 1)
        BY <4>1, <1>1, <1>2, <1>4 DEF HeaderSet
      <4>3. \A p \in F : file'[p] = file[p]
        BY <4>2, <1>6 DEF TypeOK
      <4>4. IsFreeList(file', hdr.free_list_head, F)
        BY <4>3, <1>2, FreeListLocal
      <4>5. hdr'.free_list_head = hdr.free_list_head
        BY <4>1, <1>1 DEF HeaderSet
      <4> QED
        BY <4>2, <4>4, <4>5, <2>1, <1>2 DEF HasFreeList
    <3> QED
      BY <3>1, <3>2
  <2> QED
    BY <2>2, <2>3, <1>1, <1>5, <1>6, <1>10 DEF MemPhase
<1> QED
  BY <1>8, <1>9, <1>13, <1>14

\* A write of the header in memory over the one on disk, when it is sound for
\* the pages used by then.
LEMMA HeaderWrite ==
    ASSUME TypeOK, NEW h \in HeaderSet, NEW used \in SUBSET PageId,
           InFile(file, h, used), HasFreeList(file, h, used)
    PROVE  LET g == [file EXCEPT ![0] = h]
           IN  /\ g \in [PageId -> HeaderSet \cup LinkSet \cup {Data, Absent}]
               /\ g[0] = h
               /\ InFile(g, h, used) /\ HasFreeList(g, h, used)
<1> DEFINE g == [file EXCEPT ![0] = h]
<1>1. g \in [PageId -> HeaderSet \cup LinkSet \cup {Data, Absent}] /\ g[0] = h
  BY PageIds DEF TypeOK
<1>2. InFile(g, h, used)
  BY DEF InFile, TypeOK
<1>3. PICK F \in SUBSET (1 .. h.num_pages - 1) :
        F \cap used = {} /\ IsFreeList(file, h.free_list_head, F)
  BY DEF HasFreeList
<1>4. \A p \in F : g[p] = file[p]
  BY DEF TypeOK
<1>5. IsFreeList(g, h.free_list_head, F)
  BY <1>3, <1>4, FreeListLocal
<1> QED
  BY <1>1, <1>2, <1>3, <1>5 DEF HasFreeList

\* A client's write to a page it holds leaves every list alone that keeps off
\* the pages held.
LEMMA ClientWriteKeeps ==
    ASSUME TypeOK, NEW h, NEW p \in held, p # 0,
           InFile(file, h, held), HasFreeList(file, h, held)
    PROVE  LET g == [file EXCEPT ![p] = Data]
           IN  InFile(g, h, held) /\ HasFreeList(g, h, held)
<1> DEFINE g == [file EXCEPT ![p] = Data]
<1>1. Data # Absent
  BY DEF Data, Absent
<1>2. InFile(g, h, held)
  BY <1>1 DEF InFile, TypeOK
<1>3. PICK F \in SUBSET (1 .. h.num_pages - 1) :
        F \cap held = {} /\ IsFreeList(file, h.free_list_head, F)
  BY DEF HasFreeList
<1>4. \A q \in F : g[q] = file[q]
  BY <1>3 DEF TypeOK
<1>5. IsFreeList(g, h.free_list_head, F)
  BY <1>3, <1>4, FreeListLocal
<1> QED
  BY <1>2, <1>3, <1>5 DEF HasFreeList

\* The four actions that flush the header: afterwards memory and disk agree.
LEMMA FlushStep ==
    ASSUME IInv, NEW h \in HeaderSet, NEW used \in SUBSET PageId, Running,
           InFile(file, h, used), HasFreeList(file, h, used),
           h.catalog_root \in used, \A i \in issued' : i < h.next_table_id,
           file' = [file EXCEPT ![0] = h], hdr' = h, held' = used,
           pc' = "idle", arg' = arg, created' = created,
           issued' \in SUBSET Nat
    PROVE  IInv'
<1> USE DEF IInv
<1>1. /\ file' \in [PageId -> HeaderSet \cup LinkSet \cup {Data, Absent}]
      /\ file'[0] = h
      /\ InFile(file', h, used) /\ HasFreeList(file', h, used)
  BY HeaderWrite
<1>2. TypeOK'
  BY <1>1 DEF TypeOK
<1>3. InitPhase'
  BY DEF InitPhase, Running
<1>4. DiskPhase'
  BY <1>1 DEF DiskPhase
<1>5. MemPhase'
  BY <1>1 DEF MemPhase, Used
<1> QED
  BY <1>2, <1>3, <1>4, <1>5

LEMMA AllocateFlushStep == IInv /\ AllocateFlush => IInv'
<1> SUFFICES ASSUME IInv, AllocateFlush PROVE IInv'
  OBVIOUS
<1> USE DEF IInv
<1>1. /\ pc = "alloc_flush" /\ Running /\ Used = held \cup {arg}
      /\ hdr \in HeaderSet /\ held # {} /\ Used \in SUBSET PageId
  BY DEF AllocateFlush, Running, Used, InitPhase, TypeOK
<1>2. InFile(file, hdr, Used) /\ HasFreeList(file, hdr, Used)
  BY <1>1 DEF MemPhase
<1>3. hdr.catalog_root \in Used /\ \A i \in issued : i < hdr.next_table_id
  BY <1>1 DEF MemPhase, DiskPhase
<1>4. /\ file' = [file EXCEPT ![0] = hdr] /\ hdr' = hdr /\ held' = Used
      /\ pc' = "idle" /\ arg' = arg /\ created' = created /\ issued' = issued
  BY <1>1 DEF AllocateFlush, WritePage, HEADER_PAGE_ID
<1>5. issued' \in SUBSET Nat
  BY <1>4 DEF TypeOK
<1> QED
  BY <1>1, <1>2, <1>3, <1>4, <1>5, FlushStep

LEMMA FreeFlushStep == IInv /\ FreeFlush => IInv'
<1> SUFFICES ASSUME IInv, FreeFlush PROVE IInv'
  OBVIOUS
<1> USE DEF IInv
<1>1. /\ pc = "free_flush" /\ Running /\ Used = held
      /\ hdr \in HeaderSet /\ held # {} /\ held \in SUBSET PageId
  BY DEF FreeFlush, Running, Used, InitPhase, TypeOK
<1>2. InFile(file, hdr, held) /\ HasFreeList(file, hdr, held)
  BY <1>1 DEF MemPhase
<1>3. hdr.catalog_root \in held /\ \A i \in issued : i < hdr.next_table_id
  BY <1>1 DEF MemPhase, DiskPhase
<1>4. /\ file' = [file EXCEPT ![0] = hdr] /\ hdr' = hdr /\ held' = held
      /\ pc' = "idle" /\ arg' = arg /\ created' = created /\ issued' = issued
  BY DEF FreeFlush, WritePage, HEADER_PAGE_ID
<1>5. issued' \in SUBSET Nat
  BY <1>4 DEF TypeOK
<1> QED
  BY <1>1, <1>2, <1>3, <1>4, <1>5, FlushStep

LEMMA SetCatalogRootStep ==
    ASSUME IInv, NEW p \in PageId, SetCatalogRoot(p)
    PROVE  IInv'
<1> USE DEF IInv
<1>1. /\ pc = "idle" /\ Running /\ Used = held /\ p \in held
      /\ hdr \in HeaderSet /\ held # {} /\ held \in SUBSET PageId
  BY DEF SetCatalogRoot, Running, Used, InitPhase, TypeOK
<1>2. /\ hdr' = [hdr EXCEPT !.catalog_root = p]
      /\ file' = [file EXCEPT ![0] = hdr'] /\ held' = held
      /\ pc' = "idle" /\ arg' = arg /\ created' = created /\ issued' = issued
  BY <1>1 DEF SetCatalogRoot, WritePage, HEADER_PAGE_ID
<1>3. /\ hdr' \in HeaderSet /\ hdr'.catalog_root = p
      /\ hdr'.num_pages = hdr.num_pages
      /\ hdr'.free_list_head = hdr.free_list_head
      /\ hdr'.next_table_id = hdr.next_table_id
  BY <1>1, <1>2 DEF HeaderSet
<1>4. InFile(file, hdr', held) /\ HasFreeList(file, hdr', held)
  BY <1>1, <1>3 DEF MemPhase, InFile, HasFreeList
<1>5. \A i \in issued' : i < hdr'.next_table_id
  BY <1>1, <1>2, <1>3 DEF MemPhase, DiskPhase
<1>6. issued' \in SUBSET Nat
  BY <1>2 DEF TypeOK
<1> QED
  BY <1>1, <1>2, <1>3, <1>4, <1>5, <1>6, FlushStep

LEMMA NextTableIdStep == IInv /\ NextTableId => IInv'
<1> SUFFICES ASSUME IInv, NextTableId PROVE IInv'
  OBVIOUS
<1> USE DEF IInv
<1>1. /\ pc = "idle" /\ Running /\ Used = held
      /\ hdr \in HeaderSet /\ held # {} /\ held \in SUBSET PageId
  BY DEF NextTableId, Running, Used, InitPhase, TypeOK
<1>2. /\ hdr' = [hdr EXCEPT !.next_table_id = @ + 1]
      /\ file' = [file EXCEPT ![0] = hdr'] /\ held' = held
      /\ pc' = "idle" /\ arg' = arg /\ created' = created
      /\ issued' = issued \cup {hdr.next_table_id}
  BY <1>1 DEF NextTableId, WritePage, HEADER_PAGE_ID
<1>3. /\ hdr' \in HeaderSet /\ hdr'.catalog_root = hdr.catalog_root
      /\ hdr'.num_pages = hdr.num_pages
      /\ hdr'.free_list_head = hdr.free_list_head
      /\ hdr'.next_table_id = hdr.next_table_id + 1
  BY <1>1, <1>2 DEF HeaderSet
<1>4. InFile(file, hdr', held) /\ HasFreeList(file, hdr', held)
  BY <1>1, <1>3 DEF MemPhase, InFile, HasFreeList
<1>5. hdr.next_table_id \in Nat /\ issued \in SUBSET Nat
  BY <1>1 DEF TypeOK, HeaderSet
<1>6. \A i \in issued : i < hdr.next_table_id
  BY <1>1 DEF MemPhase, DiskPhase
<1>7. issued' \in SUBSET Nat /\ \A i \in issued' : i < hdr'.next_table_id
  BY <1>2, <1>3, <1>5, <1>6
<1>8. hdr'.catalog_root \in held
  BY <1>1, <1>3 DEF MemPhase, DiskPhase
<1> QED
  BY <1>1, <1>2, <1>3, <1>4, <1>7, <1>8, FlushStep

\* free_page, first write: the page now leads the list in memory, and the
\* list on disk does not know of it.
LEMMA FreeLinkStep ==
    ASSUME IInv, NEW p \in PageId, FreeLink(p)
    PROVE  IInv'
<1> USE DEF IInv
<1>1. /\ pc = "idle" /\ Running /\ Used = held /\ p \in held
      /\ hdr \in HeaderSet /\ held # {} /\ held \in SUBSET PageId
      /\ hdr = file[0] /\ p # hdr.catalog_root
  BY DEF FreeLink, Running, Used, InitPhase, TypeOK, MemPhase
<1>2. /\ file' = [file EXCEPT ![p] = Link(hdr.free_list_head)]
      /\ hdr' = [hdr EXCEPT !.free_list_head = p]
      /\ held' = held \ {p} /\ arg' = p /\ pc' = "free_flush"
      /\ UNCHANGED <<created, issued>>
  BY DEF FreeLink, WritePage
<1>3. PICK F \in SUBSET (1 .. hdr.num_pages - 1) :
        F \cap held = {} /\ IsFreeList(file, hdr.free_list_head, F)
  BY <1>1 DEF MemPhase, HasFreeList
<1>4. InFile(file, hdr, held) /\ hdr.catalog_root \in held
  BY <1>1 DEF MemPhase, DiskPhase
<1>5. /\ hdr.num_pages \in Nat /\ hdr.free_list_head \in PageId
      /\ p # 0 /\ p \in 1 .. hdr.num_pages - 1 /\ p \notin F
  BY <1>1, <1>3, <1>4, PageIds, MaxPagesAssumption DEF HeaderSet, InFile
<1>6. /\ hdr' \in HeaderSet /\ hdr'.catalog_root = hdr.catalog_root
      /\ hdr'.num_pages = hdr.num_pages /\ hdr'.free_list_head = p
      /\ hdr'.next_table_id = hdr.next_table_id
  BY <1>1, <1>2 DEF HeaderSet
<1>7. Link(hdr.free_list_head) \in LinkSet
  BY <1>5 DEF Link, LinkSet
<1>8. /\ file'[p] = Link(hdr.free_list_head) /\ file'[0] = file[0]
      /\ \A q \in PageId : q # p => file'[q] = file[q]
      /\ \A q \in F : file'[q] = file[q]
  BY <1>1, <1>2, <1>5, PageIds DEF TypeOK
<1>9. TypeOK'
  BY <1>1, <1>2, <1>6, <1>7 DEF TypeOK
<1>10. hdr.catalog_root \in held'
  BY <1>1, <1>2, <1>4
<1>11. InitPhase'
  BY <1>1, <1>2, <1>10 DEF InitPhase, Running
<1>12. InFile(file', hdr, held')
  BY <1>1, <1>2, <1>4, <1>8 DEF InFile
<1>13. IsFreeList(file', hdr.free_list_head, F)
  BY <1>3, <1>8, FreeListLocal
<1>14. IsFreeList(file', p, F \cup {p})
  BY <1>3, <1>5, <1>8, FreeListPush
<1>15. DiskPhase'
  <2>1. HasFreeList(file', hdr, held')
    BY <1>2, <1>3, <1>13 DEF HasFreeList
  <2> QED
    BY <2>1, <1>1, <1>2, <1>8, <1>10, <1>12 DEF DiskPhase
<1>16. MemPhase'
  <2>1. Used' = held'
    BY <1>2 DEF Used
  <2>2. InFile(file', hdr', held')
    BY <1>6, <1>12 DEF InFile
  <2>3. F \cup {p} \in SUBSET (1 .. hdr'.num_pages - 1)
    BY <1>3, <1>5, <1>6
  <2>4. (F \cup {p}) \cap held' = {}
    BY <1>2, <1>3
  <2>5. HasFreeList(file', hdr', held')
    BY <2>3, <2>4, <1>6, <1>14 DEF HasFreeList
  <2> QED
    BY <2>1, <2>2, <2>5, <1>1, <1>2, <1>6, <1>8 DEF MemPhase
<1> QED
  BY <1>9, <1>11, <1>15, <1>16

LEMMA ClientWriteStep ==
    ASSUME IInv, NEW p \in PageId, ClientWrite(p)
    PROVE  IInv'
<1> USE DEF IInv
<1>1. /\ pc = "idle" /\ Running /\ Used = held /\ p \in held
      /\ held # {} /\ hdr = file[0]
  BY DEF ClientWrite, Running, Used, InitPhase, MemPhase
<1>2. /\ file' = [file EXCEPT ![p] = Data]
      /\ UNCHANGED <<pc, created, hdr, arg, held, issued>>
  BY DEF ClientWrite, WritePage
<1>3. InFile(file, hdr, held) /\ HasFreeList(file, hdr, held) /\ p # 0
  BY <1>1 DEF MemPhase, InFile
<1>4. InFile(file', hdr, held) /\ HasFreeList(file', hdr, held)
  BY <1>1, <1>2, <1>3, ClientWriteKeeps
<1>5. file'[0] = file[0]
  BY <1>2, <1>3, PageIds DEF TypeOK
<1>6. TypeOK'
  BY <1>2 DEF TypeOK
<1>7. InitPhase'
  BY <1>1, <1>2 DEF InitPhase, Running
<1>8. DiskPhase'
  BY <1>1, <1>2, <1>4, <1>5 DEF DiskPhase
<1>9. MemPhase'
  BY <1>1, <1>2, <1>4, <1>5 DEF MemPhase, Used
<1> QED
  BY <1>6, <1>7, <1>8, <1>9

-----------------------------------------------------------------------------
(* Starting and ending.                                                    *)

LEMMA FreshHeaderType ==
    /\ FreshHeader \in HeaderSet /\ NoHeader \in HeaderSet
    /\ FreshHeader.type = "header" /\ FreshHeader.catalog_root = 1
    /\ FreshHeader.num_pages = 2 /\ FreshHeader.free_list_head = 0
BY PageIds, MaxPagesAssumption
   DEF FreshHeader, NoHeader, Header, HeaderSet, CATALOG_ROOT_PAGE_ID

LEMMA CreationStep == IInv /\ (Create \/ InitHeader) => IInv'
<1> SUFFICES ASSUME IInv, Create \/ InitHeader PROVE IInv'
  OBVIOUS
<1> USE DEF IInv
<1>1. CASE Create
  <2>1. TypeOK'
    BY <1>1, FreshHeaderType DEF Create, TypeOK
  <2>2. InitPhase' /\ DiskPhase' /\ MemPhase'
    BY <1>1 DEF Create, InitPhase, DiskPhase, MemPhase, Running
  <2> QED
    BY <2>1, <2>2
<1>2. CASE InitHeader
  <2>1. file' = [file EXCEPT ![0] = FreshHeader] /\ held = {} /\ held' = {}
    BY <1>2 DEF InitHeader, InitPhase, WritePage, HEADER_PAGE_ID
  <2>2. TypeOK'
    BY <1>2, <2>1, FreshHeaderType DEF InitHeader, TypeOK
  <2>3. file'[0] = FreshHeader /\ file'[1] = file[1]
    BY <2>1, PageIds DEF TypeOK
  <2>4. InitPhase' /\ DiskPhase' /\ MemPhase'
    BY <1>2, <2>1, <2>3 DEF InitHeader, InitPhase, DiskPhase, MemPhase, Running
  <2> QED
    BY <2>2, <2>4
<1> QED
  BY <1>1, <1>2

\* The end of init_fresh: the list is empty and the catalog root is held.
LEMMA InitRootStep == IInv /\ InitRoot => IInv'
<1> SUFFICES ASSUME IInv, InitRoot PROVE IInv'
  OBVIOUS
<1> USE DEF IInv
<1>1. /\ held = {} /\ hdr = FreshHeader /\ file[0] = FreshHeader
      /\ issued = {}
  BY DEF InitRoot, InitPhase
<1>2. /\ file' = [file EXCEPT ![1] = Data] /\ held' = {1} /\ pc' = "idle"
      /\ UNCHANGED <<created, hdr, arg, issued>>
  BY <1>1 DEF InitRoot, WritePage, CATALOG_ROOT_PAGE_ID
<1>3. file'[0] = FreshHeader /\ file'[1] = Data
  BY <1>1, <1>2, PageIds DEF TypeOK
<1>4. TypeOK'
  BY <1>2, PageIds DEF TypeOK
<1>5. Data # Absent
  BY DEF Data, Absent
<1>6. InFile(file', FreshHeader, {1})
  BY <1>3, <1>5, FreshHeaderType DEF InFile
<1>7. HasFreeList(file', FreshHeader, {1})
  <2>1. IsFreeList(file', 0, {})
    BY DEF IsFreeList
  <2> QED
    BY <2>1, FreshHeaderType DEF HasFreeList
<1>8. InitPhase'
  BY <1>1, <1>2 DEF InitRoot, InitPhase, Running
<1>9. DiskPhase' /\ MemPhase'
  BY <1>1, <1>2, <1>3, <1>6, <1>7, FreshHeaderType
     DEF DiskPhase, MemPhase, Used
<1> QED
  BY <1>4, <1>8, <1>9

\* A file that was ever served from is loadable, one that was not is not.
LEMMA LoadableIffHeld == IInv => (Loadable <=> held # {})
<1> SUFFICES ASSUME IInv PROVE Loadable <=> held # {}
  OBVIOUS
<1>1. ASSUME held = {} PROVE ~Loadable
  <2>1. file[0] \in {Absent, FreshHeader} /\ file[1] = Absent
    BY <1>1 DEF IInv, InitPhase
  <2>2. Absent.type # "header"
    BY DEF Absent
  <2> QED
    BY <2>1, <2>2, FreshHeaderType DEF Loadable, HEADER_PAGE_ID
<1>2. ASSUME held # {} PROVE Loadable
  BY <1>2 DEF IInv, DiskPhase, InFile, HeaderSet, Loadable, HEADER_PAGE_ID
<1> QED
  BY <1>1, <1>2

LEMMA LoadStep == IInv /\ Load => IInv'
<1> SUFFICES ASSUME IInv, Load PROVE IInv'
  OBVIOUS
<1> USE DEF IInv
<1>1. held # {}
  BY LoadableIffHeld DEF Load
<1>2. /\ hdr' = file[0] /\ pc' = "idle"
      /\ UNCHANGED <<created, file, arg, held, issued>>
  BY DEF Load, HEADER_PAGE_ID
<1>3. TypeOK'
  BY <1>1, <1>2 DEF TypeOK, DiskPhase
<1>4. InitPhase'
  BY <1>1, <1>2 DEF Load, InitPhase
<1>5. DiskPhase' /\ MemPhase'
  BY <1>1, <1>2 DEF DiskPhase, MemPhase, Used
<1> QED
  BY <1>3, <1>4, <1>5

LEMMA EndStep == IInv /\ (LoadFails \/ Crash) => IInv'
<1> SUFFICES ASSUME IInv, LoadFails \/ Crash PROVE IInv'
  OBVIOUS
<1> USE DEF IInv
<1>1. CASE LoadFails
  <2>1. held = {}
    BY <1>1, LoadableIffHeld DEF LoadFails
  <2> QED
    BY <1>1, <2>1
       DEF LoadFails, TypeOK, InitPhase, DiskPhase, MemPhase, Running
<1>2. CASE Crash
  <2>1. TypeOK'
    BY <1>2, FreshHeaderType DEF Crash, TypeOK
  <2>2. ~created => pc = "down"
    BY DEF InitPhase
  <2>3. InitPhase' /\ DiskPhase' /\ MemPhase'
    BY <1>2, <2>2 DEF Crash, InitPhase, DiskPhase, MemPhase, Running
  <2> QED
    BY <2>1, <2>3
<1> QED
  BY <1>1, <1>2

-----------------------------------------------------------------------------
(* The theorems.                                                           *)

LEMMA StepInv == IInv /\ [Next]_vars => IInv'
<1> SUFFICES ASSUME IInv, [Next]_vars PROVE IInv'
  OBVIOUS
<1>1. CASE Create \/ InitHeader
  BY <1>1, CreationStep
<1>2. CASE InitRoot
  BY <1>2, InitRootStep
<1>3. CASE Load
  BY <1>3, LoadStep
<1>4. CASE LoadFails \/ Crash
  BY <1>4, EndStep
<1>5. CASE AllocateZero
  BY <1>5, AllocateZeroStep
<1>6. CASE AllocateFlush
  BY <1>6, AllocateFlushStep
<1>7. CASE FreeFlush
  BY <1>7, FreeFlushStep
<1>8. CASE NextTableId
  BY <1>8, NextTableIdStep
<1>9. ASSUME NEW p \in PageId, FreeLink(p) PROVE IInv'
  BY <1>9, FreeLinkStep
<1>10. ASSUME NEW p \in PageId, SetCatalogRoot(p) PROVE IInv'
  BY <1>10, SetCatalogRootStep
<1>11. ASSUME NEW p \in PageId, ClientWrite(p) PROVE IInv'
  BY <1>11, ClientWriteStep
<1>12. CASE UNCHANGED vars
  BY <1>12 DEF vars, IInv, TypeOK, InitPhase, DiskPhase, MemPhase, Running, Used,
     InFile, HasFreeList, IsFreeList
<1> QED
  BY <1>1, <1>2, <1>3, <1>4, <1>5, <1>6, <1>7, <1>8, <1>9, <1>10, <1>11, <1>12
     DEF Next

\* The inductive invariant holds in every reachable state.
LEMMA InvariantHolds == Spec => []IInv
BY InitInv, StepInv, PTL DEF Spec

\* The variables keep their types, whatever the length of the file: in
\* particular a free page always yields a page id when it is popped.
THEOREM TypeCorrect == Spec => []TypeOK
<1>1. IInv => TypeOK
  BY DEF IInv
<1> QED
  BY <1>1, InvariantHolds, PTL

\* At every moment the header on disk describes a free list apart from the
\* pages clients hold: no crash between two writes of allocate_page or
\* free_page makes a later process hand out a page twice.
THEOREM FreeListSurvivesCrash == Spec => []DurableFreeListSound
<1>1. IInv => DurableFreeListSound
  BY DEF IInv, DiskPhase, DurableFreeListSound
<1> QED
  BY <1>1, InvariantHolds, PTL

\* A page about to be returned by allocate_page is held by nobody.
THEOREM AllocationIsFresh == Spec => []AllocatedPageIsFresh
<1>1. IInv => AllocatedPageIsFresh
  BY DEF IInv, MemPhase, Running, Used, InFile, AllocatedPageIsFresh
<1> QED
  BY <1>1, InvariantHolds, PTL

\* Table ids handed out are retired in the header on disk.
THEOREM TableIdsNeverReturn == Spec => []TableIdsRetired
<1>1. IInv => TableIdsRetired
  BY DEF IInv, InitPhase, DiskPhase, TableIdsRetired
<1> QED
  BY <1>1, InvariantHolds, PTL

\* A file whose creation completed is never refused by a later start.
THEOREM CreatedFilesOpen == Spec => []OpensOnceCreated
<1>1. IInv => OpensOnceCreated
  BY DEF IInv, InitPhase, OpensOnceCreated
<1> QED
  BY <1>1, InvariantHolds, PTL

\* One step of the pager writes page 0, which nobody holds, a page nobody
\* holds any more, a page nobody holds yet, or a page for its client.
LEMMA HeldStep ==
    ASSUME IInv, [Next]_vars, NEW p \in held \cap held', file'[p] # file[p]
    PROVE  file'[p] = Data
<1> USE DEF IInv
<1>1. held \subseteq PageId /\ file \in [PageId -> HeaderSet \cup LinkSet \cup {Data, Absent}]
  BY DEF TypeOK
<1>2. p \in PageId /\ p # 0 /\ held # {}
  BY <1>1 DEF DiskPhase, InFile
<1>3. CASE Create \/ InitHeader \/ InitRoot
  BY <1>2, <1>3 DEF Create, InitHeader, InitRoot, InitPhase
<1>4. CASE Load \/ LoadFails \/ Crash \/ UNCHANGED vars
  BY <1>4 DEF Load, LoadFails, Crash, vars
<1>5. CASE AllocateZero
  <2>1. Running /\ MemPhase'
    BY <1>5, AllocateZeroStep DEF AllocateZero, Running
  <2>2. arg' \notin held' /\ held' = held
    BY <1>5, <2>1 DEF AllocateZero, MemPhase, Running
  <2> QED
    BY <1>1, <1>2, <1>5, <2>2 DEF AllocateZero, WritePage
<1>6. CASE AllocateFlush \/ FreeFlush \/ NextTableId
  BY <1>1, <1>2, <1>6
     DEF AllocateFlush, FreeFlush, NextTableId, WritePage, HEADER_PAGE_ID
<1>7. ASSUME NEW q \in PageId, FreeLink(q) PROVE file'[p] = Data
  BY <1>1, <1>2, <1>7 DEF FreeLink, WritePage
<1>8. ASSUME NEW q \in PageId, SetCatalogRoot(q) PROVE file'[p] = Data
  BY <1>1, <1>2, <1>8 DEF SetCatalogRoot, WritePage, HEADER_PAGE_ID
<1>9. ASSUME NEW q \in PageId, ClientWrite(q) PROVE file'[p] = Data
  BY <1>1, <1>2, <1>9 DEF ClientWrite, WritePage
<1> QED
  BY <1>3, <1>4, <1>5, <1>6, <1>7, <1>8, <1>9 DEF Next

\* The pager never overwrites a page a client holds, in any step of any run,
\* restarts included.
THEOREM HeldPagesAreKept == Spec => HeldPagesKept
<1>1. IInv /\ [Next]_vars
        => [\A p \in held \cap held' : file'[p] # file[p] => file'[p] = Data]_vars
  BY HeldStep
<1> QED
  BY <1>1, InvariantHolds, PTL DEF Spec, HeldPagesKept
=============================================================================
