---------------------------- MODULE CatalogCodec ----------------------------
(***************************************************************************)
(* encode_table_def and decode_table_def (catalog.h) under the operations  *)
(* of the catalog: what the tables are called after the file is opened     *)
(* again.  The pages below are Engine's: here a root is any page.           *)
(***************************************************************************)
EXTENDS Bytes, SequencesExt

CONSTANTS
    Names,        \* names of tables and columns
    ColumnLists,  \* the columns a table may be created with: for each its name, its
                  \* type, the flags of its constraints and what it references
    Roots,        \* the pages a table's tree may have for its root
    MaxTableId, MaxRowid

\* A column of a definition: the flags are the bits of one byte.
Column ==
    [name : Names, type : Nat, flags : SUBSET Nat, fk_table : Names, fk_column : Names]

\* A list whose length cannot be stored fits no slot: create_table refuses it.
CatalogAssumption ==
    /\ LenLimit \in Nat \ {0} /\ Roots \subseteq Nat
    /\ Names \subseteq Seq(Nat)
    /\ \A cols \in ColumnLists : cols \in Seq(Column) /\ Len(cols) < LenLimit

VARIABLES
    tree,      \* the stored definitions, by table id
    by_name,   \* the definitions in memory
    next_id    \* the pager's counter

vars == <<tree, by_name, next_id>>

Init == tree = [i \in {} |-> <<>>] /\ by_name = [n \in {} |-> <<>>] /\ next_id = 1

-----------------------------------------------------------------------------
\* Mutant of EncodeColumn: the column referenced comes before its table.
SwappedReference(c) ==
    WriteString(c.name) \o <<c.type, c.flags>> \o
    WriteString(c.fk_column) \o WriteString(c.fk_table)

EncodeColumn(c) ==
    WriteString(c.name) \o <<c.type, c.flags>> \o
    WriteString(c.fk_table) \o WriteString(c.fk_column)

EncodeDef(def) ==
    <<def.table_id, def.root_page, def.next_rowid>> \o WriteString(def.name) \o
    <<Len(def.columns) % LenLimit>> \o
    FlattenSeq([k \in DOMAIN def.columns |-> EncodeColumn(def.columns[k])])

\* The column at an offset, and where the next one starts.
ColumnAt(buf, off) ==
    LET type == AfterString(buf, off)
        column == AfterString(buf, type + 2)
    IN  [def |-> [name |-> ReadString(buf, off),
                  type |-> buf[type + 1], flags |-> buf[type + 2],
                  fk_table |-> ReadString(buf, type + 2),
                  fk_column |-> ReadString(buf, column)],
         next |-> AfterString(buf, column)]

DecodeDef(buf) ==
    LET cols == AfterString(buf, 3)
        at[k \in 1 .. buf[cols + 1]] ==
          ColumnAt(buf, IF k = 1 THEN cols + 1 ELSE at[k - 1].next)
    IN  [table_id |-> buf[1], root_page |-> buf[2], next_rowid |-> buf[3],
         name |-> ReadString(buf, 3),
         columns |-> [k \in 1 .. buf[cols + 1] |-> at[k].def]]

-----------------------------------------------------------------------------
Without(f, x) == [y \in DOMAIN f \ {x} |-> f[y]]
With(f, x, v) == [y \in DOMAIN f \cup {x} |-> IF y = x THEN v ELSE f[y]]

NewDef(n, cols, root) ==
    [table_id |-> next_id, root_page |-> root, next_rowid |-> 1, name |-> n, columns |-> cols]

\* A definition that does not fit costs its table id.
CreateTable(n, cols, root) ==
    LET def == NewDef(n, cols, root)
        fits == Fits(EncodeDef(def))
    IN  /\ n \notin DOMAIN by_name /\ next_id < MaxTableId
        /\ next_id' = next_id + 1
        /\ by_name' = IF fits THEN With(by_name, n, def) ELSE by_name
        /\ tree' = IF fits THEN With(tree, next_id, EncodeDef(def)) ELSE tree

DropTable(n) ==
    /\ n \in DOMAIN by_name
    /\ tree' = Without(tree, by_name[n].table_id)
    /\ by_name' = Without(by_name, n)
    /\ UNCHANGED next_id

\* Table::persist after an insert, through save: the tree may have a new root.
Save(n, root) ==
    /\ n \in DOMAIN by_name /\ by_name[n].next_rowid < MaxRowid
    /\ LET def == [by_name[n] EXCEPT !.root_page = root, !.next_rowid = @ + 1]
       IN  /\ by_name' = With(by_name, def.name, def)
           /\ tree' = [tree EXCEPT ![def.table_id] = EncodeDef(def)]
    /\ UNCHANGED next_id

\* Catalog::Catalog: of two definitions of one name the later in the scan stays.
Loaded ==
    LET defs == {DecodeDef(tree[i]) : i \in DOMAIN tree}
    IN  [n \in {d.name : d \in defs} |->
           CHOOSE d \in defs : /\ d.name = n
                               /\ \A e \in defs : e.name = n => e.table_id <= d.table_id]

Reopen == by_name' = Loaded /\ UNCHANGED <<tree, next_id>>

Next ==
    \/ \E n \in Names, cols \in ColumnLists, root \in Roots : CreateTable(n, cols, root)
    \/ \E n \in DOMAIN by_name : DropTable(n)
    \/ \E n \in DOMAIN by_name, root \in Roots : Save(n, root)
    \/ Reopen

Spec == Init /\ [][Next]_vars

-----------------------------------------------------------------------------
\* What the next start will load is what is served now: names, constraints,
\* references, ids, roots and row counters.  The code keeps this for names below the
\* limit of a length; a longer one is cut where it is stored only.
ReloadIsServed == (\A n \in Names : Len(n) < LenLimit) => Loaded = by_name
=============================================================================
