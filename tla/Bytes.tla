------------------------------- MODULE Bytes --------------------------------
(***************************************************************************)
(* How a string is laid out in a row (row.h) and in a definition           *)
(* (catalog.h): its length as an unsigned integer of sixteen bits, then as *)
(* many of its bytes.  A buffer is a sequence of bytes, an offset the      *)
(* number of them that have been read; the length takes one element of it. *)
(***************************************************************************)
EXTENDS Naturals, Sequences

CONSTANT LenLimit      \* 2^16

\* static_cast<uint16_t>(s.size()), and the bytes that are copied.
StoredLen(s) == Len(s) % LenLimit
Cut(s) == SubSeq(s, 1, StoredLen(s))

WriteString(s) == <<StoredLen(s)>> \o Cut(s)
ReadString(buf, off) == SubSeq(buf, off + 2, off + 1 + buf[off + 1])
AfterString(buf, off) == off + 1 + buf[off + 1]

\* A buffer that does not fit a slot of a leaf is refused: MAX_ROW_BYTES.
CONSTANT SlotSize
Fits(buf) == Len(buf) <= SlotSize
=============================================================================
