------------------------------ MODULE PageFile ------------------------------
(***************************************************************************)
(* The database file of src/mydb/src/pager.h and the arithmetic of its     *)
(* page allocator, without any control: what a page can hold as far as the *)
(* pager looks into it, and which page and header an allocation or a       *)
(* release produces.  Pager, BTree and Engine are built from these.        *)
(*                                                                         *)
(* The file is a function from page ids to contents.  A content is a       *)
(* record tagged with its type; the pager itself reads only the header and *)
(* the link in the first four bytes of a free page.                        *)
(***************************************************************************)
EXTENDS Naturals

CONSTANT MaxPages        \* bound on the length of the file, in pages

ASSUME MaxPagesAssumption == MaxPages \in Nat /\ MaxPages >= 2

HEADER_PAGE_ID == 0
CATALOG_ROOT_PAGE_ID == 1

PageId == 0 .. MaxPages - 1

\* HeaderData, as page 0 holds it.  magic and page_size never change.
Header(root, tid, head, n) ==
    [type |-> "header", catalog_root |-> root, next_table_id |-> tid,
     free_list_head |-> head, num_pages |-> n]

\* A page whose first four bytes are the id of the next free page.
Link(n) == [type |-> "link", next |-> n]

\* An all-zero page: byte for byte a free page that links to nothing.
Blank == Link(0)

\* A page past the end of the file: reading it fails.
Absent == [type |-> "absent"]

\* The header init_fresh sets up.
FreshHeader == Header(CATALOG_ROOT_PAGE_ID, 1, 0, 2)

-----------------------------------------------------------------------------
\* Mutant of AllocPage: the last page of the file for the one after it.
AllocLastPage(hdr) ==
    IF hdr.free_list_head # 0 THEN hdr.free_list_head ELSE hdr.num_pages - 1

\* Mutant of AllocHeader: the page stays on the free list.
AllocNoPop(hdr, file) ==
    IF hdr.free_list_head # 0 THEN hdr ELSE [hdr EXCEPT !.num_pages = @ + 1]

\* Mutant of AllocHeader: a reused page counts as a new one.
AllocCountsReuse(hdr, file) ==
    LET grown == [hdr EXCEPT !.num_pages = @ + 1]
    IN  IF hdr.free_list_head # 0
        THEN [grown EXCEPT !.free_list_head = file[hdr.free_list_head].next]
        ELSE grown

\* allocate_page: the page it returns, and the header it leaves.
AllocPage(hdr) ==
    IF hdr.free_list_head # 0 THEN hdr.free_list_head ELSE hdr.num_pages

AllocHeader(hdr, file) ==
    IF hdr.free_list_head # 0
      THEN [hdr EXCEPT !.free_list_head = file[hdr.free_list_head].next]
      ELSE [hdr EXCEPT !.num_pages = @ + 1]

\* The allocation stays within the bound of the model.
CanAlloc(hdr, n) == hdr.free_list_head # 0 \/ hdr.num_pages + n <= MaxPages

\* Overwriting one page of the file.
WritePage(file, page, content) == [file EXCEPT ![page] = content]
=============================================================================
