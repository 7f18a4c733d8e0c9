------------------------------- MODULE Pager --------------------------------
(***************************************************************************)
(* src/mydb/src/pager.h: the page allocator over the file, one action per  *)
(* write_page.  Every write_page is flushed before it returns, so a crash  *)
(* leaves a prefix of the writes: what the code does in memory before a    *)
(* write belongs to the action of that write.  An operation of two writes  *)
(* is two actions, and the process may die between them.                   *)
(*                                                                         *)
(* held and issued are history variables: the pages and the table ids the  *)
(* pager has handed out.  Its clients are the b-trees (btree.h), external  *)
(* here: they write the pages they hold and may give one back.             *)
(***************************************************************************)
EXTENDS PageFile

CONSTANT MaxTableId      \* bound on next_table_id, a uint32 counter

ASSUME MaxTableIdAssumption == MaxTableId \in Nat

VARIABLES
    pc,       \* where the process is; "down" when there is none
    created,  \* the file exists, be it empty
    file,     \* the contents of the pages on disk
    hdr,      \* hdr_, the header in memory
    arg,      \* the page the running operation works on
    held,     \* history: pages allocated to a client and not released
    issued    \* history: table ids handed out

vars == <<pc, created, file, hdr, arg, held, issued>>

\* The content a client gives its page; the pager never looks at it.
Data == [type |-> "data"]

\* hdr_{} : no header in memory.
NoHeader == Header(0, 0, 0, 0)

Init ==
    /\ pc = "down"
    /\ created = FALSE
    /\ file = [p \in PageId |-> Absent]
    /\ hdr = NoHeader
    /\ arg = 0
    /\ held = {}
    /\ issued = {}

-----------------------------------------------------------------------------
\* The constructor on a path where no file is: an empty file appears.
Create ==
    /\ pc = "down" /\ ~created
    /\ created' = TRUE
    /\ hdr' = FreshHeader
    /\ pc' = "init_header"
    /\ UNCHANGED <<file, arg, held, issued>>

\* Mutant of InitHeader: flush_header is forgotten.
InitNoHeader ==
    /\ pc = "init_header"
    /\ pc' = "init_root"
    /\ UNCHANGED <<created, file, hdr, arg, held, issued>>

\* init_fresh, first write: the header.
InitHeader ==
    /\ pc = "init_header"
    /\ file' = WritePage(file, HEADER_PAGE_ID, hdr)
    /\ pc' = "init_root"
    /\ UNCHANGED <<created, hdr, arg, held, issued>>

\* init_fresh, second write: the root leaf of the catalog tree.
InitRoot ==
    /\ pc = "init_root"
    /\ file' = WritePage(file, CATALOG_ROOT_PAGE_ID, Data)
    /\ held' = held \cup {CATALOG_ROOT_PAGE_ID}
    /\ pc' = "idle"
    /\ UNCHANGED <<created, hdr, arg, issued>>

\* The constructor on an existing file, and the read of the catalog root
\* that every start makes next: page 0 or that root past the end of the file
\* is a failed read, and the server does not start.
Loadable ==
    /\ file[HEADER_PAGE_ID].type = "header"
    /\ file[file[HEADER_PAGE_ID].catalog_root] # Absent

Load ==
    /\ pc = "down" /\ created
    /\ Loadable
    /\ hdr' = file[HEADER_PAGE_ID]
    /\ pc' = "idle"
    /\ UNCHANGED <<created, file, arg, held, issued>>

LoadFails ==
    /\ pc = "down" /\ created
    /\ ~Loadable
    /\ pc' = "refused"
    /\ UNCHANGED <<created, file, hdr, arg, held, issued>>

-----------------------------------------------------------------------------
\* allocate_page up to the write of the zero page.
AllocateZero ==
    /\ pc = "idle"
    /\ CanAlloc(hdr, 1)
    /\ arg' = AllocPage(hdr)
    /\ hdr' = AllocHeader(hdr, file)
    /\ file' = WritePage(file, AllocPage(hdr), Blank)
    /\ pc' = "alloc_flush"
    /\ UNCHANGED <<created, held, issued>>

\* allocate_page, flush_header, and the return of the page to the client.
AllocateFlush ==
    /\ pc = "alloc_flush"
    /\ file' = WritePage(file, HEADER_PAGE_ID, hdr)
    /\ held' = held \cup {arg}
    /\ pc' = "idle"
    /\ UNCHANGED <<created, hdr, arg, issued>>

\* Mutant of FreeLink: the page is put on the list without its link.
FreeNoLink(p) ==
    /\ pc = "idle"
    /\ p \in held /\ p # hdr.catalog_root
    /\ hdr' = [hdr EXCEPT !.free_list_head = p]
    /\ held' = held \ {p}
    /\ arg' = p
    /\ pc' = "free_flush"
    /\ UNCHANGED <<created, file, issued>>

\* free_page up to the write of the link.  A client frees a page it holds,
\* never the root of the catalog.
FreeLink(p) ==
    /\ pc = "idle"
    /\ p \in held /\ p # hdr.catalog_root
    /\ file' = WritePage(file, p, Link(hdr.free_list_head))
    /\ hdr' = [hdr EXCEPT !.free_list_head = p]
    /\ held' = held \ {p}
    /\ arg' = p
    /\ pc' = "free_flush"
    /\ UNCHANGED <<created, issued>>

\* free_page, flush_header.
FreeFlush ==
    /\ pc = "free_flush"
    /\ file' = WritePage(file, HEADER_PAGE_ID, hdr)
    /\ pc' = "idle"
    /\ UNCHANGED <<created, hdr, arg, held, issued>>

\* set_catalog_root: the header is the only write.
SetCatalogRoot(p) ==
    /\ pc = "idle"
    /\ p \in held /\ p # hdr.catalog_root
    /\ hdr' = [hdr EXCEPT !.catalog_root = p]
    /\ file' = WritePage(file, HEADER_PAGE_ID, hdr')
    /\ UNCHANGED <<pc, created, arg, held, issued>>

\* Mutant of NextTableId: the counter is left to the next flush.
NextTableIdUnflushed ==
    /\ pc = "idle"
    /\ hdr.next_table_id < MaxTableId
    /\ hdr' = [hdr EXCEPT !.next_table_id = @ + 1]
    /\ issued' = issued \cup {hdr.next_table_id}
    /\ UNCHANGED <<pc, created, file, arg, held>>

\* next_table_id: the counter is flushed before the id is returned.
NextTableId ==
    /\ pc = "idle"
    /\ hdr.next_table_id < MaxTableId
    /\ hdr' = [hdr EXCEPT !.next_table_id = @ + 1]
    /\ file' = WritePage(file, HEADER_PAGE_ID, hdr')
    /\ issued' = issued \cup {hdr.next_table_id}
    /\ UNCHANGED <<pc, created, arg, held>>

\* write_page by the client that holds p.
ClientWrite(p) ==
    /\ pc = "idle"
    /\ p \in held
    /\ file' = WritePage(file, p, Data)
    /\ UNCHANGED <<pc, created, hdr, arg, held, issued>>

-----------------------------------------------------------------------------
\* The process ends, between any two writes; or it gave up at start.
Crash ==
    /\ pc # "down"
    /\ pc' = "down"
    /\ hdr' = NoHeader
    /\ UNCHANGED <<created, file, arg, held, issued>>

Next ==
    \/ Create \/ InitHeader \/ InitRoot \/ Load \/ LoadFails
    \/ AllocateZero \/ AllocateFlush
    \/ \E p \in PageId : FreeLink(p) \/ SetCatalogRoot(p) \/ ClientWrite(p)
    \/ FreeFlush \/ NextTableId \/ Crash

Spec == Init /\ [][Next]_vars

-----------------------------------------------------------------------------
HeaderSet ==
    [type : {"header"}, catalog_root : PageId, next_table_id : Nat,
     free_list_head : PageId, num_pages : 0 .. MaxPages]

LinkSet == [type : {"link"}, next : PageId]

\* The types of the pager's variables.
TypeOK ==
    /\ pc \in {"down", "refused", "init_header", "init_root", "idle",
               "alloc_flush", "free_flush"}
    /\ created \in BOOLEAN
    /\ file \in [PageId -> HeaderSet \cup LinkSet \cup {Data, Absent}]
    /\ hdr \in HeaderSet
    /\ arg \in PageId
    /\ held \in SUBSET PageId
    /\ issued \in SUBSET Nat

\* In the file f, F is the set of pages of a well-formed free list that starts
\* at head: the list stays in F, and no page of F is on it twice.
IsFreeList(f, head, F) ==
    /\ head \in F \cup {0}
    /\ \A p \in F : f[p] \in LinkSet /\ f[p].next \in F \cup {0}
    /\ \A p \in F : f[p].next # 0 => f[p].next # head
    /\ \A p, q \in F : f[p].next = f[q].next /\ f[p].next # 0 => p = q

\* The header h describes a file that holds the pages used, and a free list
\* apart from them.
InFile(f, h, used) ==
    \A p \in used : p # 0 /\ p < h.num_pages /\ f[p] # Absent

HasFreeList(f, h, used) ==
    \E F \in SUBSET (1 .. h.num_pages - 1) :
        F \cap used = {} /\ IsFreeList(f, h.free_list_head, F)

\* From the moment the file is initialised, whichever header a restart loads
\* (the one on disk) describes a free list of pages that are in the file and
\* that no client holds, so a page is never handed out twice: neither by a
\* running process nor by one that starts after a crash between two writes.
DurableFreeListSound ==
    held # {} => InFile(file, file[0], held) /\ HasFreeList(file, file[0], held)

\* The page allocate_page is about to return is held by nobody.
AllocatedPageIsFresh == pc = "alloc_flush" => arg # 0 /\ arg \notin held

\* A page a client holds is overwritten by its client only: no operation of
\* the pager, on any page, destroys it, before or after a restart.
HeldPagesKept ==
    [][\A p \in held \cap held' : file'[p] # file[p] => file'[p] = Data]_vars

\* A table id is retired on disk before anybody sees it: a process started
\* later never hands it out again.
TableIdsRetired ==
    issued # {} => \A i \in issued : i < file[0].next_table_id

\* A file whose creation once completed is accepted at every later start.
\* (A crash inside the creation leaves a file that is refused for ever.)
OpensOnceCreated == held # {} => pc # "refused"
=============================================================================
