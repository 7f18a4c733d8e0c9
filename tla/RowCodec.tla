------------------------------ MODULE RowCodec ------------------------------
(***************************************************************************)
(* encode_row and decode_row (row.h) under the rows of one table: what is  *)
(* stored is the encoding, and every check reads it back.                  *)
(***************************************************************************)
EXTENDS Bytes, SequencesExt

CONSTANTS
    ColTypes,      \* the types of the columns
    Unique,        \* the columns that are UNIQUE
    BitsPerByte,   \* of the bitmap of NULLs: 8
    NumberSize,    \* bytes of an INT or a REAL: 8
    Numbers,       \* their values, as these bytes
    Strings, Null,
    MaxRows        \* bound on the rows

\* Numbers of one size; NULL is no value of a column.
RowAssumption ==
    /\ LenLimit \in Nat \ {0} /\ BitsPerByte \in Nat \ {0} /\ NumberSize \in Nat
    /\ ColTypes \in Seq({"INT", "REAL", "TEXT"})
    /\ \A x \in Numbers : x \in Seq(Nat) /\ Len(x) = NumberSize
    /\ Strings \subseteq Seq(Nat)
    /\ Null \notin Seq(Nat)

Columns == 1 .. Len(ColTypes)

ColumnVals(i) == {Null} \cup IF ColTypes[i] = "TEXT" THEN Strings ELSE Numbers
Row == {v \in [Columns -> {Null} \cup Numbers \cup Strings] :
          \A i \in Columns : v[i] \in ColumnVals(i)}

BitmapBytes == (Len(ColTypes) + BitsPerByte - 1) \div BitsPerByte

\* A byte of the bitmap, as the set of its bits.
Bitmap(v) ==
    [b \in 1 .. BitmapBytes |->
       {(i - 1) % BitsPerByte : i \in {j \in Columns : /\ (j - 1) \div BitsPerByte = b - 1
                                                       /\ v[j] = Null}}]

\* Mutant of Field: a NULL takes the room of a number.
FieldAlways(i, v) ==
    IF v = Null THEN <<0>> ELSE IF ColTypes[i] = "TEXT" THEN WriteString(v) ELSE v

Field(i, v) ==
    IF v = Null THEN <<>> ELSE IF ColTypes[i] = "TEXT" THEN WriteString(v) ELSE v

Encode(v) == Bitmap(v) \o FlattenSeq([i \in Columns |-> Field(i, v[i])])

\* Each column starts where the one before it ends.
Decode(buf) ==
    LET IsNull(i) == (i - 1) % BitsPerByte \in buf[(i - 1) \div BitsPerByte + 1]
        off[i \in Columns] ==
          IF i = 1 THEN BitmapBytes
          ELSE CASE IsNull(i - 1) -> off[i - 1]
                 [] ~IsNull(i - 1) /\ ColTypes[i - 1] = "TEXT" ->
                      AfterString(buf, off[i - 1])
                 [] OTHER -> off[i - 1] + NumberSize
    IN  [i \in Columns |->
           CASE IsNull(i) -> Null
             [] ~IsNull(i) /\ ColTypes[i] = "TEXT" -> ReadString(buf, off[i])
             [] OTHER -> SubSeq(buf, off[i] + 1, off[i] + NumberSize)]

-----------------------------------------------------------------------------
VARIABLES
    tree,     \* the stored rows
    given     \* history: the values they were written with

vars == <<tree, given>>

Init == tree = <<>> /\ given = <<>>

\* Table::check_constraints: the values compared are the ones given.
UniqueOk(v, self) ==
    \A i \in Unique : v[i] # Null =>
        \A r \in DOMAIN tree \ {self} : Decode(tree[r])[i] # v[i]

InsertRow(v) ==
    /\ Len(tree) < MaxRows
    /\ UniqueOk(v, 0) /\ Fits(Encode(v))
    /\ tree' = Append(tree, Encode(v)) /\ given' = Append(given, v)

\* The row is read, one column is assigned, and the whole is written again.
UpdateRow(r, i, x) ==
    LET v == [Decode(tree[r]) EXCEPT ![i] = x]
    IN  /\ UniqueOk(v, r) /\ Fits(Encode(v))
        /\ tree' = [tree EXCEPT ![r] = Encode(v)]
        /\ given' = [given EXCEPT ![r][i] = x]

Next ==
    \/ \E v \in Row : InsertRow(v)
    \/ \E r \in DOMAIN tree, i \in Columns : \E x \in ColumnVals(i) : UpdateRow(r, i, x)

Spec == Init /\ [][Next]_vars

-----------------------------------------------------------------------------
\* Every column reads back as it was written, whatever the others hold: NULLs
\* beyond the first byte of the bitmap, and texts that were cut (which read back
\* as their beginning and leave the columns after them in place; two texts that
\* UNIQUE found different may be the same by then).
ReadsAsWritten ==
    \A r \in DOMAIN tree : \A i \in Columns :
        Decode(tree[r])[i] =
          IF ColTypes[i] = "TEXT" /\ given[r][i] # Null THEN Cut(given[r][i])
          ELSE given[r][i]
=============================================================================
