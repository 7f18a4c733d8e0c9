---------------------------- MODULE BTreeLemmas ----------------------------
(***************************************************************************)
(* Facts about the operators of BTreePages, on every tree of every height  *)
(* and whatever else is in the file: the searches inside a node, what the  *)
(* recursive descents and scans compute when they end, the shape of a tree,*)
(* what a split does to that shape at every level, and which entries an    *)
(* insert, an update and a remove leave.                                   *)
(***************************************************************************)
EXTENDS BTreePages, SequenceTheorems, WellFoundedInduction, TLAPS

-----------------------------------------------------------------------------
(* Induction over the natural numbers, for sets.                           *)

\* A set of numbers that is not empty has a least one.
LEMMA LeastNumber ==
    ASSUME NEW T \in SUBSET Nat, T # {}
    PROVE  \E n \in T : \A m \in T : n <= m
<1> DEFINE R == {ss \in Nat \X Nat : ss[1] < ss[2]}
<1>1. IsWellFoundedOn(R, Nat)
  BY NatLessThanWellFounded DEF OpToRel
<1>2. PICK x \in T : \A y \in T : ~ (<<y, x>> \in R)
  <2> HIDE DEF R
  <2> QED
    BY <1>1, WFMin
<1>3. \A y \in T : ~ (y < x)
  BY <1>2
<1> QED
  BY <1>3

\* A set that has every number all of whose predecessors it has, has them all.
LEMMA AllNumbers ==
    ASSUME NEW T \in SUBSET Nat,
           \A n \in Nat : (\A m \in Nat : m < n => m \in T) => n \in T
    PROVE  T = Nat
<1> SUFFICES ASSUME Nat \ T # {} PROVE FALSE
  OBVIOUS
<1>1. PICK n \in Nat \ T : \A m \in Nat \ T : n <= m
  BY LeastNumber
<1>2. \A m \in Nat : m < n => m \in T
  BY <1>1
<1> QED
  BY <1>1, <1>2

-----------------------------------------------------------------------------
(* The searches inside a node.                                             *)

Ascending(keys) == \A i, j \in 1 .. Len(keys) : i < j => keys[i] < keys[j]

\* The key x belongs below the child in slot i.
InSlot(keys, i, x) ==
    /\ i = 1 \/ keys[i - 1] <= x
    /\ i = Len(keys) + 1 \/ x < keys[i]

\* A descent takes the one child slot that the key belongs to.
LEMMA ChildIndexFacts ==
    ASSUME NEW keys \in Seq(Int), Ascending(keys), NEW k \in Int
    PROVE  /\ ChildIndex(keys, k) \in 1 .. Len(keys) + 1
           /\ \A i \in 1 .. Len(keys) + 1 : InSlot(keys, i, k) <=> i = ChildIndex(keys, k)
<1> DEFINE I == {i \in 1 .. Len(keys) : k < keys[i]}
<1>1. Len(keys) \in Nat /\ \A i \in 1 .. Len(keys) : keys[i] \in Int
  BY LenProperties, ElementOfSeq
<1>2. CASE I = {}
  <2>1. ChildIndex(keys, k) = Len(keys) + 1
    BY <1>2 DEF ChildIndex, SelectInSeq
  <2>2. \A i \in 1 .. Len(keys) : keys[i] <= k
    BY <1>1, <1>2
  <2>3. InSlot(keys, Len(keys) + 1, k)
    <3>1. Len(keys) + 1 = 1 \/ (Len(keys) + 1) - 1 \in 1 .. Len(keys)
      BY <1>1
    <3> QED
      BY <2>2, <3>1 DEF InSlot
  <2>4. ASSUME NEW i \in 1 .. Len(keys) + 1, InSlot(keys, i, k)
        PROVE  i = Len(keys) + 1
    <3>1. i = Len(keys) + 1 \/ k < keys[i]
      BY <2>4 DEF InSlot
    <3>2. i = Len(keys) + 1 \/ i \in 1 .. Len(keys)
      BY <1>1
    <3> QED
      BY <1>1, <2>2, <3>1, <3>2
  <2>5. Len(keys) + 1 \in 1 .. Len(keys) + 1
    BY <1>1
  <2> QED
    BY <2>1, <2>3, <2>4, <2>5
<1>3. CASE I # {}
  <2>1. PICK n \in I : \A m \in I : n <= m
    <3>1. I \in SUBSET Nat
      BY <1>1
    <3> HIDE DEF I
    <3> QED
      BY <1>3, <3>1, LeastNumber
  <2>2. Min(I) = n
    BY <1>1, <2>1 DEF Min
  <2>3. ChildIndex(keys, k) = n
    BY <1>1, <1>3, <2>1, <2>2 DEF ChildIndex, SelectInSeq
  <2> HIDE DEF I
  <2>4. n \in 1 .. Len(keys) /\ k < keys[n]
    BY <2>1 DEF I
  <2>5. \A m \in 1 .. Len(keys) : m < n => keys[m] <= k
    BY <1>1, <2>1 DEF I
  <2>6. InSlot(keys, n, k)
    BY <1>1, <2>4, <2>5 DEF InSlot
  <2>7. ASSUME NEW i \in 1 .. Len(keys) + 1, InSlot(keys, i, k)
        PROVE  i = n
    <3>1. ~(i < n)
      BY <1>1, <2>4, <2>5, <2>7 DEF InSlot
    <3>2. ~(n < i)
      <4> SUFFICES ASSUME n < i PROVE FALSE
        OBVIOUS
      <4>1. i # 1 /\ i - 1 \in 1 .. Len(keys) /\ (n = i - 1 \/ n < i - 1)
        BY <1>1, <2>4
      <4>2. keys[i - 1] <= k
        BY <2>7, <4>1 DEF InSlot
      <4>3. keys[n] <= keys[i - 1]
        <5>1. CASE n = i - 1
          BY <1>1, <2>4, <5>1
        <5>2. CASE n < i - 1
          <6>1. keys[n] < keys[i - 1]
            BY <2>4, <4>1, <5>2 DEF Ascending
          <6> QED
            BY <1>1, <2>4, <4>1, <6>1
        <5> QED
          BY <4>1, <5>1, <5>2
      <4>4. keys[n] \in Int /\ keys[i - 1] \in Int
        BY <1>1, <2>4, <4>1
      <4> QED
        BY <2>4, <4>2, <4>3, <4>4
    <3> QED
      BY <1>1, <2>4, <3>1, <3>2
  <2> QED
    BY <1>1, <2>3, <2>4, <2>6, <2>7
<1> QED
  BY <1>2, <1>3

\* Whatever the keys, a descent takes one of the child slots.
LEMMA ChildIndexRange ==
    ASSUME NEW keys \in Seq(Int), NEW k \in Int
    PROVE  ChildIndex(keys, k) \in 1 .. Len(keys) + 1
<1> DEFINE I == {i \in 1 .. Len(keys) : k < keys[i]}
<1>1. Len(keys) \in Nat
  BY LenProperties
<1>2. CASE I = {}
  <2>1. ChildIndex(keys, k) = Len(keys) + 1
    BY <1>2 DEF ChildIndex, SelectInSeq
  <2> QED
    BY <1>1, <2>1
<1>3. CASE I # {}
  <2>1. PICK n \in I : \A m \in I : n <= m
    <3>1. I \in SUBSET Nat
      BY <1>1
    <3> HIDE DEF I
    <3> QED
      BY <1>3, <3>1, LeastNumber
  <2>2. Min(I) = n
    BY <1>1, <2>1 DEF Min
  <2>3. ChildIndex(keys, k) = n
    BY <1>1, <1>3, <2>1, <2>2 DEF ChildIndex, SelectInSeq
  <2> QED
    BY <1>1, <2>1, <2>3
<1> QED
  BY <1>2, <1>3

\* The sequence t is s with e put before its i-th element.
InsertedAt(s, i, e, t) ==
    /\ Len(t) = Len(s) + 1
    /\ \A j \in 1 .. i - 1 : t[j] = s[j]
    /\ t[i] = e
    /\ \A j \in i .. Len(s) : t[j + 1] = s[j]

\* What vector::insert does.
LEMMA InsertAtFacts ==
    ASSUME NEW S, NEW s \in Seq(S), NEW i \in 1 .. Len(s) + 1, NEW e \in S
    PROVE  InsertAt(s, i, e) \in Seq(S) /\ InsertedAt(s, i, e, InsertAt(s, i, e))
<1> DEFINE a == SubSeq(s, 1, i - 1)
           b == SubSeq(s, i, Len(s))
<1>1. Len(s) \in Nat /\ \A j \in 1 .. Len(s) : s[j] \in S
  BY LenProperties, ElementOfSeq
<1>2. a \in Seq(S) /\ Len(a) = i - 1 /\ \A j \in 1 .. i - 1 : a[j] = s[j]
  <2>1. \A j \in 1 .. i - 1 : s[j] \in S
    BY <1>1
  <2> QED
    BY <1>1, <2>1, SubSeqProperties
<1>3. /\ b \in Seq(S) /\ Len(b) = Len(s) - i + 1
      /\ \A j \in 1 .. Len(s) - i + 1 : b[j] = s[i + j - 1]
  <2>1. \A j \in i .. Len(s) : s[j] \in S
    BY <1>1
  <2> QED
    BY <1>1, <2>1, SubSeqProperties
<1> HIDE DEF a, b
<1>4. <<e>> \in Seq(S) /\ Len(<<e>>) = 1 /\ <<e>>[1] = e
  OBVIOUS
<1>5. /\ a \o <<e>> \in Seq(S) /\ Len(a \o <<e>>) = i
      /\ \A j \in 1 .. i : (a \o <<e>>)[j] = IF j < i THEN s[j] ELSE e
  BY <1>1, <1>2, <1>4, ConcatProperties
<1>6. /\ (a \o <<e>>) \o b \in Seq(S) /\ Len((a \o <<e>>) \o b) = Len(s) + 1
      /\ \A j \in 1 .. Len(s) + 1 : ((a \o <<e>>) \o b)[j] =
           IF j <= i THEN (a \o <<e>>)[j] ELSE b[j - i]
  <2> DEFINE c == a \o <<e>>
  <2>1. c \in Seq(S) /\ Len(c) = i /\ Len(b) = Len(s) - i + 1 /\ b \in Seq(S)
    BY <1>3, <1>5
  <2>2. Len(s) \in Nat /\ i \in 1 .. Len(s) + 1
    BY <1>1
  <2> HIDE DEF c
  <2>3. /\ c \o b \in Seq(S) /\ Len(c \o b) = Len(c) + Len(b)
        /\ \A j \in 1 .. Len(c) + Len(b) : (c \o b)[j] = IF j <= Len(c) THEN c[j] ELSE b[j - Len(c)]
    BY <2>1, ConcatProperties
  <2>4. Len(c) + Len(b) = Len(s) + 1
    BY <2>1, <2>2
  <2> QED
    BY <2>1, <2>3, <2>4 DEF c
<1>7. InsertAt(s, i, e) = (a \o <<e>>) \o b
  BY DEF InsertAt, a, b
<1> DEFINE t == InsertAt(s, i, e)
<1> HIDE DEF t
<1>8. t \in Seq(S) /\ Len(t) = Len(s) + 1
  BY <1>6, <1>7 DEF t
<1>9. \A j \in 1 .. i - 1 : t[j] = s[j]
  BY <1>1, <1>5, <1>6, <1>7 DEF t
<1>10. t[i] = e
  BY <1>1, <1>5, <1>6, <1>7 DEF t
<1>11. \A j \in i .. Len(s) : t[j + 1] = s[j]
  <2> SUFFICES ASSUME NEW j \in i .. Len(s) PROVE t[j + 1] = s[j]
    OBVIOUS
  <2>1. /\ j + 1 \in 1 .. Len(s) + 1 /\ ~(j + 1 <= i)
        /\ (j + 1) - i \in 1 .. Len(s) - i + 1 /\ i + ((j + 1) - i) - 1 = j
    BY <1>1
  <2>2. t[j + 1] = b[(j + 1) - i]
    BY <1>6, <1>7, <2>1 DEF t
  <2> QED
    BY <1>3, <2>1, <2>2
<1> QED
  BY <1>8, <1>9, <1>10, <1>11 DEF InsertedAt, t

KeysAscend(entries) ==
    \A i, j \in 1 .. Len(entries) : i < j => entries[i].key < entries[j].key

\* The search for a key in a leaf finds it when it is there.
LEMMA PositionFacts ==
    ASSUME NEW S, NEW entries \in Seq(S), NEW k
    PROVE  /\ PositionOf(entries, k) \in 0 .. Len(entries)
           /\ PositionOf(entries, k) # 0 => entries[PositionOf(entries, k)].key = k
           /\ PositionOf(entries, k) = 0 => \A i \in 1 .. Len(entries) : entries[i].key # k
<1> DEFINE I == {i \in 1 .. Len(entries) : entries[i].key = k}
<1>1. Len(entries) \in Nat
  BY LenProperties
<1>2. CASE I = {}
  BY <1>1, <1>2 DEF PositionOf, SelectInSeq
<1>3. CASE I # {}
  <2>1. I \in SUBSET Nat
    BY <1>1
  <2>2. PICK n \in I : \A m \in I : n <= m
    <3> HIDE DEF I
    <3> QED
      BY <1>3, <2>1, LeastNumber
  <2>3. Min(I) = n
    BY <2>1, <2>2 DEF Min
  <2>4. PositionOf(entries, k) = Min(I)
    BY <1>3 DEF PositionOf, SelectInSeq
  <2> QED
    BY <1>1, <2>2, <2>3, <2>4
<1> QED
  BY <1>2, <1>3

\* With ascending keys, the first entry of a key is its only one.
LEMMA FirstOfFacts ==
    ASSUME NEW S, NEW entries \in Seq(S), KeysAscend(entries), \A e \in S : e.key \in Int,
           NEW k
    PROVE  /\ \A e \in ToSet(entries) : e.key = k => FirstOf(entries, k) = <<e>>
           /\ (\A e \in ToSet(entries) : e.key # k) => FirstOf(entries, k) = <<>>
<1> DEFINE at == PositionOf(entries, k)
<1>1. /\ Len(entries) \in Nat /\ DOMAIN entries = 1 .. Len(entries)
      /\ \A i \in 1 .. Len(entries) : entries[i].key \in Int
  BY LenProperties, ElementOfSeq
<1>2. /\ at \in 0 .. Len(entries)
      /\ at # 0 => entries[at].key = k
      /\ at = 0 => \A i \in 1 .. Len(entries) : entries[i].key # k
  BY PositionFacts
<1>3. FirstOf(entries, k) = IF at = 0 THEN <<>> ELSE <<entries[at]>>
  BY DEF FirstOf
<1> HIDE DEF at
<1>4. ASSUME NEW e \in ToSet(entries), e.key = k
      PROVE  FirstOf(entries, k) = <<e>>
  <2>1. PICK i \in 1 .. Len(entries) : e = entries[i]
    BY <1>1 DEF ToSet
  <2>2. at # 0 /\ entries[at].key = k
    BY <1>2, <1>4, <2>1
  <2>3. at = i
    BY <1>1, <1>2, <1>4, <2>1, <2>2 DEF KeysAscend
  <2> QED
    BY <1>3, <2>1, <2>2, <2>3
<1>5. ASSUME \A e \in ToSet(entries) : e.key # k
      PROVE  FirstOf(entries, k) = <<>>
  <2>1. at = 0
    BY <1>1, <1>2, <1>5 DEF ToSet
  <2> QED
    BY <1>3, <2>1
<1> QED
  BY <1>4, <1>5

\* A new key is put where it belongs.
LEMMA InsertEntryFacts ==
    ASSUME NEW S, NEW entries \in Seq(S), KeysAscend(entries), \A x \in S : x.key \in Int,
           NEW e \in S, \A i \in 1 .. Len(entries) : entries[i].key # e.key
    PROVE  /\ InsertEntry(entries, e) \in Seq(S)
           /\ Len(InsertEntry(entries, e)) = Len(entries) + 1
           /\ KeysAscend(InsertEntry(entries, e))
           /\ ToSet(InsertEntry(entries, e)) = ToSet(entries) \cup {e}
<1> DEFINE I == {i \in 1 .. Len(entries) : entries[i].key >= e.key}
           all == InsertEntry(entries, e)
<1>1. /\ Len(entries) \in Nat /\ DOMAIN entries = 1 .. Len(entries)
      /\ \A i \in 1 .. Len(entries) : entries[i].key \in Int
      /\ e.key \in Int
  BY LenProperties, ElementOfSeq
<1>2. \E n \in 1 .. Len(entries) + 1 :
        /\ all = InsertAt(entries, n, e)
        /\ \A i \in 1 .. Len(entries) : i < n => entries[i].key < e.key
        /\ \A i \in 1 .. Len(entries) : i >= n => e.key < entries[i].key
  <2>1. CASE I = {}
    <3>1. all = InsertAt(entries, Len(entries) + 1, e)
      BY <2>1 DEF InsertEntry, SelectInSeq
    <3>2. \A i \in 1 .. Len(entries) : entries[i].key < e.key
      BY <1>1, <2>1
    <3> HIDE DEF all
    <3> QED
      BY <1>1, <3>1, <3>2
  <2>2. CASE I # {}
    <3>1. I \in SUBSET Nat
      BY <1>1
    <3>2. PICK n \in I : \A m \in I : n <= m
      <4> HIDE DEF I
      <4> QED
        BY <2>2, <3>1, LeastNumber
    <3>3. Min(I) = n
      BY <3>1, <3>2 DEF Min
    <3>4. all = InsertAt(entries, n, e)
      <4>1. n # 0
        BY <3>2
      <4> QED
        BY <2>2, <3>3, <4>1 DEF InsertEntry, SelectInSeq
    <3> HIDE DEF all
    <3>5. n \in 1 .. Len(entries) /\ e.key < entries[n].key
      BY <1>1, <3>2
    <3>6. \A i \in 1 .. Len(entries) : i < n => entries[i].key < e.key
      BY <1>1, <3>2
    <3>7. \A i \in 1 .. Len(entries) : i >= n => e.key < entries[i].key
      BY <1>1, <3>5 DEF KeysAscend
    <3> QED
      BY <1>1, <3>4, <3>5, <3>6, <3>7
  <2> QED
    BY <2>1, <2>2
<1> HIDE DEF all
<1>3. PICK n \in 1 .. Len(entries) + 1 :
        /\ all = InsertAt(entries, n, e)
        /\ \A i \in 1 .. Len(entries) : i < n => entries[i].key < e.key
        /\ \A i \in 1 .. Len(entries) : i >= n => e.key < entries[i].key
  BY <1>2
<1>4. /\ all \in Seq(S) /\ Len(all) = Len(entries) + 1
      /\ \A j \in 1 .. Len(entries) + 1 :
           all[j] = IF j < n THEN entries[j] ELSE IF j = n THEN e ELSE entries[j - 1]
  <2>1. all \in Seq(S) /\ InsertedAt(entries, n, e, all)
    BY <1>3, InsertAtFacts
  <2>2. ASSUME NEW j \in n + 1 .. Len(entries) + 1
        PROVE  all[j] = entries[j - 1]
    <3>1. j - 1 \in n .. Len(entries) /\ (j - 1) + 1 = j
      BY <1>1
    <3> QED
      BY <2>1, <3>1 DEF InsertedAt
  <2> QED
    BY <1>1, <2>1, <2>2 DEF InsertedAt
<1>5. DOMAIN all = 1 .. Len(entries) + 1
  BY <1>4, LenProperties
<1>6. ASSUME NEW i \in 1 .. Len(entries) + 1, NEW j \in 1 .. Len(entries) + 1, i < j
      PROVE  all[i].key < all[j].key
  <2>1. CASE j < n
    BY <1>1, <1>3, <1>4, <1>6, <2>1 DEF KeysAscend
  <2>2. CASE j = n
    BY <1>1, <1>3, <1>4, <1>6, <2>2
  <2>3. CASE j > n /\ i < n
    <3>1. j - 1 \in 1 .. Len(entries) /\ i < j - 1 /\ i \in 1 .. Len(entries)
      BY <1>1, <1>6, <2>3
    <3>2. all[i] = entries[i] /\ all[j] = entries[j - 1]
      BY <1>4, <2>3
    <3> QED
      BY <1>1, <3>1, <3>2 DEF KeysAscend
  <2>4. CASE j > n /\ i = n
    <3>1. j - 1 \in 1 .. Len(entries) /\ j - 1 >= n
      BY <1>1, <1>6, <2>4
    <3> QED
      BY <1>1, <1>3, <1>4, <2>4, <3>1
  <2>5. CASE j > n /\ i > n
    <3>1. i - 1 \in 1 .. Len(entries) /\ j - 1 \in 1 .. Len(entries) /\ i - 1 < j - 1
      BY <1>1, <1>6, <2>5
    <3>2. all[i] = entries[i - 1] /\ all[j] = entries[j - 1]
      BY <1>4, <2>5
    <3> QED
      BY <1>1, <3>1, <3>2 DEF KeysAscend
  <2> QED
    BY <1>1, <2>1, <2>2, <2>3, <2>4, <2>5
<1>7. ToSet(all) = ToSet(entries) \cup {e}
  <2>1. \A j \in 1 .. Len(entries) + 1 : all[j] \in ToSet(entries) \cup {e}
    <3> SUFFICES ASSUME NEW j \in 1 .. Len(entries) + 1
                 PROVE  all[j] \in ToSet(entries) \cup {e}
      OBVIOUS
    <3>1. CASE j < n
      <4>1. j \in 1 .. Len(entries) /\ all[j] = entries[j]
        BY <1>1, <1>4, <3>1
      <4> QED
        BY <1>1, <4>1 DEF ToSet
    <3>2. CASE j = n
      BY <1>4, <3>2
    <3>3. CASE j > n
      <4>1. j - 1 \in 1 .. Len(entries) /\ all[j] = entries[j - 1]
        BY <1>1, <1>4, <3>3
      <4> QED
        BY <1>1, <4>1 DEF ToSet
    <3> QED
      BY <1>1, <3>1, <3>2, <3>3
  <2>2. all[n] = e
    BY <1>4
  <2>3. ASSUME NEW i \in 1 .. Len(entries)
        PROVE  \E j \in 1 .. Len(entries) + 1 : all[j] = entries[i]
    <3>1. CASE i < n
      <4>1. i \in 1 .. Len(entries) + 1
        BY <1>1
      <4>2. all[i] = entries[i]
        BY <1>4, <3>1, <4>1
      <4> QED
        BY <4>1, <4>2
    <3>2. CASE i >= n
      <4>1. i + 1 \in 1 .. Len(entries) + 1 /\ ~(i + 1 < n) /\ i + 1 # n /\ (i + 1) - 1 = i
        BY <1>1, <3>2
      <4>2. all[i + 1] = entries[i]
        BY <1>4, <4>1
      <4> QED
        BY <4>1, <4>2
    <3> QED
      BY <1>1, <3>1, <3>2
  <2>4. ToSet(entries) = {entries[i] : i \in 1 .. Len(entries)}
    BY DEF ToSet
  <2>5. ToSet(all) = {all[j] : j \in 1 .. Len(entries) + 1}
    BY <1>5 DEF ToSet
  <2>6. n \in 1 .. Len(entries) + 1
    BY <1>1
  <2>7. ToSet(all) \subseteq ToSet(entries) \cup {e}
    BY <2>1, <2>5
  <2>8. ToSet(entries) \subseteq ToSet(all)
    BY <2>3, <2>4, <2>5
  <2>9. e \in ToSet(all)
    BY <2>2, <2>5, <2>6
  <2> QED
    BY <2>7, <2>8, <2>9
<1> QED
  BY <1>4, <1>6, <1>7 DEF KeysAscend, all

\* The recursion of Without has a solution, so Without satisfies its equation.
LEMMA WithoutRecursion ==
    ASSUME NEW S, NEW entries \in Seq(S), NEW k
    PROVE  \E g : /\ Without(entries, k) = g[Len(entries)]
                  /\ g[0] = <<>>
                  /\ \A i \in 1 .. Len(entries) :
                       g[i] = IF entries[i].key = k THEN g[i - 1] ELSE Append(g[i - 1], entries[i])
<1> DEFINE Body(g, i) == IF i = 0 THEN <<>>
                         ELSE IF entries[i].key = k THEN g[i - 1]
                         ELSE Append(g[i - 1], entries[i])
           T == {m \in Nat : \E g : g = [i \in 0 .. m |-> Body(g, i)]}
<1>1. Len(entries) \in Nat
  BY LenProperties
<1>2. ASSUME NEW m \in Nat, \A l \in Nat : l < m => l \in T
      PROVE  m \in T
  <2>1. CASE m = 0
    <3> DEFINE g == [i \in 0 .. 0 |-> <<>>]
    <3>1. g = [i \in 0 .. 0 |-> Body(g, i)]
      OBVIOUS
    <3> QED
      BY <2>1, <3>1
  <2>2. CASE m # 0
    <3>1. m - 1 \in T
      <4> HIDE DEF T
      <4> QED
        BY <1>2, <2>2
    <3>2. PICK g : g = [i \in 0 .. m - 1 |-> Body(g, i)]
      BY <3>1
    <3> DEFINE h == [i \in 0 .. m |-> IF i = m THEN Body(g, i) ELSE g[i]]
    <3>3. \A i \in 0 .. m - 1 : h[i] = g[i]
      OBVIOUS
    <3>4. \A i \in 0 .. m : Body(h, i) = Body(g, i)
      <4> HIDE DEF h
      <4> QED
        BY <3>3
    <3>5. \A i \in 0 .. m - 1 : g[i] = Body(g, i)
      <4> HIDE DEF Body
      <4> QED
        BY <3>2
    <3>6. h = [i \in 0 .. m |-> Body(h, i)]
      <4> HIDE DEF Body
      <4> QED
        BY <3>4, <3>5
    <3> HIDE DEF h
    <3> QED
      BY <3>6
  <2> QED
    BY <2>1, <2>2
<1>3. T = Nat
  <2> HIDE DEF T
  <2> QED
    BY <1>2, AllNumbers DEF T
<1>4. \E g : g = [i \in 0 .. Len(entries) |-> Body(g, i)]
  <2> HIDE DEF Body
  <2> QED
    BY <1>1, <1>3
<1>5. PICK g : g = [i \in 0 .. Len(entries) |-> Body(g, i)] /\ Without(entries, k) = g[Len(entries)]
  BY <1>4 DEF Without
<1>6. g[0] = Body(g, 0) /\ \A i \in 1 .. Len(entries) : g[i] = Body(g, i)
  <2> HIDE DEF Body
  <2> QED
    BY <1>1, <1>5
<1>7. \A i \in 1 .. Len(entries) : i # 0
  BY <1>1
<1>8. /\ g[0] = <<>>
      /\ \A i \in 1 .. Len(entries) :
           g[i] = IF entries[i].key = k THEN g[i - 1] ELSE Append(g[i - 1], entries[i])
  BY <1>6, <1>7
<1> HIDE DEF Body
<1> QED
  BY <1>5, <1>8

\* The sequence s is what is left of the first i entries.
LeftOf(S, entries, k, i, s) ==
    /\ s \in Seq(S) /\ Len(s) <= i
    /\ \A j \in 1 .. Len(s) : \E m \in 1 .. i : s[j] = entries[m] /\ entries[m].key # k
    /\ \A m \in 1 .. i : entries[m].key # k => \E j \in 1 .. Len(s) : s[j] = entries[m]
    /\ KeysAscend(s)

\* What is left, one entry further.
LEMMA LeftOfStep ==
    ASSUME NEW S, NEW entries \in Seq(S), KeysAscend(entries), \A x \in S : x.key \in Int,
           NEW k, NEW i \in 1 .. Len(entries), NEW s, LeftOf(S, entries, k, i - 1, s)
    PROVE  LeftOf(S, entries, k, i,
                  IF entries[i].key = k THEN s ELSE Append(s, entries[i]))
<1>1. /\ i \in Nat /\ i - 1 \in Nat /\ Len(entries) \in Nat
      /\ \A m \in 1 .. Len(entries) : entries[m] \in S /\ entries[m].key \in Int
  BY LenProperties, ElementOfSeq
<1>2. /\ s \in Seq(S) /\ Len(s) <= i - 1 /\ Len(s) \in Nat
      /\ \A j \in 1 .. Len(s) : \E m \in 1 .. i - 1 : s[j] = entries[m] /\ entries[m].key # k
      /\ \A m \in 1 .. i - 1 : entries[m].key # k => \E j \in 1 .. Len(s) : s[j] = entries[m]
      /\ KeysAscend(s)
  BY LenProperties DEF LeftOf
<1>3. CASE entries[i].key = k
  BY <1>1, <1>2, <1>3 DEF LeftOf
<1>4. CASE entries[i].key # k
  <2>1. PICK t : t = Append(s, entries[i])
    OBVIOUS
  <2>2. /\ t \in Seq(S) /\ Len(t) = Len(s) + 1
        /\ \A j \in 1 .. Len(s) : t[j] = s[j]
        /\ t[Len(s) + 1] = entries[i]
    BY <1>1, <1>2, <2>1, AppendProperties
  <2>3. \A j \in 1 .. Len(t) : \E m \in 1 .. i : t[j] = entries[m] /\ entries[m].key # k
    <3> SUFFICES ASSUME NEW j \in 1 .. Len(s) + 1
                 PROVE  \E m \in 1 .. i : t[j] = entries[m] /\ entries[m].key # k
      BY <2>2
    <3>1. CASE j = Len(s) + 1
      BY <1>1, <1>4, <2>2, <3>1
    <3>2. CASE j # Len(s) + 1
      <4>1. j \in 1 .. Len(s) /\ t[j] = s[j]
        BY <1>2, <2>2, <3>2
      <4>2. PICK m \in 1 .. i - 1 : s[j] = entries[m] /\ entries[m].key # k
        BY <1>2, <4>1
      <4>3. m \in 1 .. i
        BY <1>1
      <4> QED
        BY <4>1, <4>2, <4>3
    <3> QED
      BY <3>1, <3>2
  <2>4. \A m \in 1 .. i : entries[m].key # k => \E j \in 1 .. Len(t) : t[j] = entries[m]
    <3> SUFFICES ASSUME NEW m \in 1 .. i, entries[m].key # k
                 PROVE  \E j \in 1 .. Len(s) + 1 : t[j] = entries[m]
      BY <2>2
    <3>1. CASE m = i
      <4>1. Len(s) + 1 \in 1 .. Len(s) + 1
        BY <1>2
      <4> QED
        BY <2>2, <3>1, <4>1
    <3>2. CASE m # i
      <4>1. PICK j \in 1 .. Len(s) : s[j] = entries[m]
        BY <1>1, <1>2, <3>2
      <4> QED
        BY <1>2, <2>2, <4>1
    <3> QED
      BY <3>1, <3>2
  <2>5. \A j \in 1 .. Len(s) : s[j].key < entries[i].key
    <3> SUFFICES ASSUME NEW j \in 1 .. Len(s) PROVE s[j].key < entries[i].key
      OBVIOUS
    <3>1. PICK m \in 1 .. i - 1 : s[j] = entries[m]
      BY <1>2
    <3> QED
      BY <1>1, <3>1 DEF KeysAscend
  <2>6. KeysAscend(t)
    <3> SUFFICES ASSUME NEW a \in 1 .. Len(t), NEW b \in 1 .. Len(t), a < b
                 PROVE  t[a].key < t[b].key
      BY DEF KeysAscend
    <3>1. a \in 1 .. Len(s) /\ t[a] = s[a]
      BY <1>2, <2>2
    <3>2. CASE b = Len(s) + 1
      BY <2>2, <2>5, <3>1, <3>2
    <3>3. CASE b # Len(s) + 1
      <4>1. b \in 1 .. Len(s) /\ t[b] = s[b]
        BY <1>2, <2>2, <3>3
      <4> QED
        BY <1>2, <3>1, <4>1 DEF KeysAscend
    <3> QED
      BY <3>2, <3>3
  <2> QED
    <3>1. Len(t) <= i
      BY <1>1, <1>2, <2>2
    <3>2. LeftOf(S, entries, k, i, t)
      BY <2>2, <2>3, <2>4, <2>6, <3>1 DEF LeftOf
    <3> QED
      BY <1>4, <2>1, <3>2
<1> QED
  BY <1>3, <1>4

\* What is left keeps its order and loses nothing but the key.
LEMMA WithoutFacts ==
    ASSUME NEW S, NEW entries \in Seq(S), KeysAscend(entries), \A x \in S : x.key \in Int,
           NEW k
    PROVE  /\ Without(entries, k) \in Seq(S)
           /\ Len(Without(entries, k)) <= Len(entries)
           /\ KeysAscend(Without(entries, k))
           /\ ToSet(Without(entries, k)) = {e \in ToSet(entries) : e.key # k}
<1>1. Len(entries) \in Nat /\ DOMAIN entries = 1 .. Len(entries)
  BY LenProperties
<1>2. PICK g : /\ Without(entries, k) = g[Len(entries)]
               /\ g[0] = <<>>
               /\ \A i \in 1 .. Len(entries) :
                    g[i] = IF entries[i].key = k THEN g[i - 1] ELSE Append(g[i - 1], entries[i])
  BY WithoutRecursion
<1> DEFINE T == {i \in Nat : i <= Len(entries) => LeftOf(S, entries, k, i, g[i])}
<1>3. ASSUME NEW i \in Nat, \A l \in Nat : l < i => l \in T
      PROVE  i \in T
  <2>1. CASE i = 0
    <3>1. LeftOf(S, entries, k, 0, <<>>)
      BY DEF LeftOf, KeysAscend
    <3> QED
      BY <1>2, <2>1, <3>1
  <2>2. CASE i # 0 /\ i <= Len(entries)
    <3>1. i - 1 \in T /\ i \in 1 .. Len(entries)
      BY <1>1, <1>3, <2>2
    <3>2. LeftOf(S, entries, k, i - 1, g[i - 1])
      BY <1>1, <3>1
    <3>3. g[i] = IF entries[i].key = k THEN g[i - 1] ELSE Append(g[i - 1], entries[i])
      BY <1>2, <3>1
    <3>4. LeftOf(S, entries, k, i, g[i])
      BY <3>1, <3>2, <3>3, LeftOfStep
    <3> QED
      BY <3>4
  <2> QED
    BY <2>1, <2>2
<1>4. T = Nat
  <2> HIDE DEF T
  <2> QED
    BY <1>3, AllNumbers DEF T
<1>5. LeftOf(S, entries, k, Len(entries), Without(entries, k))
  BY <1>1, <1>2, <1>4
<1>6. PICK s : s = Without(entries, k)
  OBVIOUS
<1>7. DOMAIN s = 1 .. Len(s)
  BY <1>5, <1>6, LenProperties DEF LeftOf
<1>8. ToSet(s) = {e \in ToSet(entries) : e.key # k}
  <2>1. \A e \in ToSet(s) : e \in ToSet(entries) /\ e.key # k
    <3> SUFFICES ASSUME NEW j \in 1 .. Len(s)
                 PROVE  s[j] \in ToSet(entries) /\ s[j].key # k
      BY <1>7 DEF ToSet
    <3>1. PICK m \in 1 .. Len(entries) : s[j] = entries[m] /\ entries[m].key # k
      BY <1>5, <1>6 DEF LeftOf
    <3> QED
      BY <1>1, <3>1 DEF ToSet
  <2>2. ASSUME NEW e \in ToSet(entries), e.key # k
        PROVE  e \in ToSet(s)
    <3>1. PICK m \in 1 .. Len(entries) : e = entries[m]
      BY <1>1 DEF ToSet
    <3>2. PICK j \in 1 .. Len(s) : s[j] = e
      BY <1>5, <1>6, <2>2, <3>1 DEF LeftOf
    <3> QED
      BY <1>7, <3>2 DEF ToSet
  <2> QED
    BY <2>1, <2>2
<1> QED
  BY <1>5, <1>6, <1>8 DEF LeftOf

-----------------------------------------------------------------------------
(* What the recursive functions compute.  A recursive function satisfies   *)
(* its equation when the pages it passes have ranks that decrease.         *)

Descends(D, T, B, rk, inner, nxt, head) ==
    /\ B \in Nat /\ rk \in [D -> 0 .. B] /\ inner \in SUBSET D /\ head \in [D -> Seq(T)]
    /\ \A p \in inner : nxt[p] \in D /\ rk[nxt[p]] < rk[p]

\* The function f satisfies the equation.
Unwinds(D, inner, nxt, head, f) ==
    \A p \in D : f[p] = IF p \in inner THEN head[p] \o f[nxt[p]] ELSE head[p]

\* A recursion along decreasing ranks has a solution.
LEMMA RankedRecursion ==
    ASSUME NEW D, NEW T, NEW B, NEW rk, NEW inner, NEW nxt, NEW head,
           Descends(D, T, B, rk, inner, nxt, head)
    PROVE  \E f \in [D -> Seq(T)] : Unwinds(D, inner, nxt, head, f)
<1> DEFINE Solves(g, n) ==
             \A p \in D : rk[p] < n =>
               g[p] = IF p \in inner THEN head[p] \o g[nxt[p]] ELSE head[p]
           S == {n \in Nat : \E g \in [D -> Seq(T)] : Solves(g, n)}
<1> USE DEF Descends, Unwinds
<1>1. ASSUME NEW n \in Nat, \A m \in Nat : m < n => m \in S
      PROVE  n \in S
  <2>1. CASE n = 0
    <3>1. Solves(head, 0)
      OBVIOUS
    <3> QED
      BY <2>1, <3>1
  <2>2. CASE n # 0
    <3>1. n - 1 \in S
      <4> HIDE DEF S
      <4> QED
        BY <1>1, <2>2
    <3>2. PICK g \in [D -> Seq(T)] : Solves(g, n - 1)
      BY <3>1
    <3> DEFINE Step(p) == IF p \in inner THEN head[p] \o g[nxt[p]] ELSE head[p]
               h == [p \in D |-> Step(p)]
    <3>3. \A p \in D : Step(p) \in Seq(T)
      <4>1. \A p \in inner : head[p] \in Seq(T) /\ g[nxt[p]] \in Seq(T)
        OBVIOUS
      <4>2. \A p \in inner : head[p] \o g[nxt[p]] \in Seq(T)
        BY <4>1, ConcatProperties
      <4> QED
        BY <4>2
    <3>4. h \in [D -> Seq(T)]
      <4> HIDE DEF Step
      <4> QED
        BY <3>3
    <3>5. \A p \in D : rk[p] < n - 1 => h[p] = g[p]
      BY <3>2
    <3>6. \A p \in inner : rk[p] < n => h[nxt[p]] = g[nxt[p]]
      <4> HIDE DEF h
      <4> QED
        BY <3>5
    <3>7. Solves(h, n)
      BY <3>6
    <3> HIDE DEF h, Solves
    <3> QED
      BY <3>4, <3>7
  <2> QED
    BY <2>1, <2>2
<1>2. S = Nat
  <2> HIDE DEF S
  <2> QED
    BY <1>1, AllNumbers DEF S
<1>3. PICK g \in [D -> Seq(T)] : Solves(g, B + 1)
  <2> HIDE DEF Solves
  <2> QED
    BY <1>2
<1>4. \A p \in D : rk[p] < B + 1
  OBVIOUS
<1> QED
  BY <1>3, <1>4

\* Every solution of it is a sequence at every page.
LEMMA RankedTyped ==
    ASSUME NEW D, NEW T, NEW B, NEW rk, NEW inner, NEW nxt, NEW head,
           Descends(D, T, B, rk, inner, nxt, head), NEW f,
           Unwinds(D, inner, nxt, head, f)
    PROVE  \A p \in D : f[p] \in Seq(T)
<1> DEFINE S == {n \in Nat : \A p \in D : rk[p] = n => f[p] \in Seq(T)}
<1> USE DEF Descends, Unwinds
<1>1. ASSUME NEW n \in Nat, \A m \in Nat : m < n => m \in S
      PROVE  n \in S
  <2> SUFFICES ASSUME NEW p \in D, rk[p] = n PROVE f[p] \in Seq(T)
    OBVIOUS
  <2>1. CASE p \in inner
    <3>1. nxt[p] \in D /\ rk[nxt[p]] \in Nat /\ rk[nxt[p]] < n
      BY <2>1
    <3>2. f[nxt[p]] \in Seq(T)
      BY <1>1, <3>1
    <3>3. head[p] \o f[nxt[p]] \in Seq(T)
      BY <3>2, ConcatProperties
    <3> QED
      BY <2>1, <3>3
  <2>2. CASE p \notin inner
    BY <2>2
  <2> QED
    BY <2>1, <2>2
<1>2. S = Nat
  <2> HIDE DEF S
  <2> QED
    BY <1>1, AllNumbers DEF S
<1> QED
  BY <1>2

\* An internal node whose keys ascend and which has one child more than keys.
InnerOK(K, P, node) ==
    /\ node = Internal(node.keys, node.children)
    /\ node.keys \in Seq(K) /\ Len(node.keys) \in 1 .. MAX_INTERNAL_KEYS
    /\ Ascending(node.keys)
    /\ node.children \in Seq(P) /\ Len(node.children) = Len(node.keys) + 1

\* A node whose child slots can be followed.
Points(node) ==
    /\ node.keys \in Seq(Int) /\ node.children \in Seq(PageId)
    /\ Len(node.children) = Len(node.keys) + 1

\* Every page the child pointers lead to is nearer to the leaves.
Grounded(file) ==
    \E B \in Nat : \E rk \in [PageId -> 0 .. B] :
      \A p \in PageId : file[p].type = "internal" =>
        /\ Points(file[p])
        /\ \A i \in 1 .. Len(file[p].children) : rk[file[p].children[i]] < rk[p]

\* A descent from a page goes on from one of its children.
LEMMA FindPathStep ==
    ASSUME NEW file, Grounded(file), NEW k \in Int, NEW p \in PageId
    PROVE  /\ FindPath(file, p, k) \in Seq(PageId)
           /\ FindPath(file, p, k) =
                IF file[p].type = "internal"
                THEN <<p>> \o FindPath(file, file[p].children[ChildIndex(file[p].keys, k)], k)
                ELSE <<p>>
<1> DEFINE Down(q) == file[q].children[ChildIndex(file[q].keys, k)]
           inner == {q \in PageId : file[q].type = "internal"}
           nxt == [q \in PageId |-> Down(q)]
           head == [q \in PageId |-> <<q>>]
<1>0. PICK B \in Nat : \E rk \in [PageId -> 0 .. B] :
        \A q \in PageId : file[q].type = "internal" =>
          /\ Points(file[q])
          /\ \A i \in 1 .. Len(file[q].children) : rk[file[q].children[i]] < rk[q]
  BY DEF Grounded
<1>1. PICK rk \in [PageId -> 0 .. B] :
        \A q \in PageId : file[q].type = "internal" =>
          /\ Points(file[q])
          /\ \A i \in 1 .. Len(file[q].children) : rk[file[q].children[i]] < rk[q]
  BY <1>0
<1>2. \A q \in inner : nxt[q] = Down(q) /\ Down(q) \in PageId /\ rk[Down(q)] < rk[q]
  <2> SUFFICES ASSUME NEW q \in inner
               PROVE  Down(q) \in PageId /\ rk[Down(q)] < rk[q]
    OBVIOUS
  <2>1. /\ file[q].keys \in Seq(Int)
        /\ file[q].children \in Seq(PageId)
        /\ Len(file[q].children) = Len(file[q].keys) + 1
        /\ \A i \in 1 .. Len(file[q].children) : rk[file[q].children[i]] < rk[q]
    BY <1>1 DEF Points
  <2>2. ChildIndex(file[q].keys, k) \in 1 .. Len(file[q].children)
    BY <2>1, ChildIndexRange
  <2> QED
    BY <2>1, <2>2, ElementOfSeq
<1>3. \A q \in inner : nxt[q] \in PageId /\ rk[nxt[q]] < rk[q]
  <2> HIDE DEF nxt, inner, Down
  <2> QED
    BY <1>2
<1>4. inner \in SUBSET PageId /\ head \in [PageId -> Seq(PageId)]
  OBVIOUS
<1>5. Descends(PageId, PageId, B, rk, inner, nxt, head)
  <2> HIDE DEF inner, nxt, head
  <2> QED
    BY <1>3, <1>4 DEF Descends
<1>8. PICK f \in [PageId -> Seq(PageId)] : Unwinds(PageId, inner, nxt, head, f)
  <2> HIDE DEF inner, nxt, head
  <2> QED
    BY <1>5, RankedRecursion
<1>6. f = [q \in PageId |->
             IF file[q].type = "internal"
             THEN <<q>> \o f[file[q].children[ChildIndex(file[q].keys, k)]] ELSE <<q>>]
  <2>1. \A q \in PageId : f[q] = IF file[q].type = "internal" THEN <<q>> \o f[Down(q)] ELSE <<q>>
    BY <1>8 DEF Unwinds
  <2> QED
    BY <2>1
<1>7. PICK g : /\ g = [q \in PageId |->
                       IF file[q].type = "internal"
                       THEN <<q>> \o g[file[q].children[ChildIndex(file[q].keys, k)]] ELSE <<q>>]
             /\ \A q : FindPath(file, q, k) = g[q]
  BY <1>6 DEF FindPath, Descent
<1>9. \A q \in PageId :
        g[q] = IF file[q].type = "internal" THEN <<q>> \o g[Down(q)] ELSE <<q>>
  BY <1>7
<1>10. Unwinds(PageId, inner, nxt, head, g)
  BY <1>9 DEF Unwinds
<1>11. \A q \in PageId : g[q] \in Seq(PageId)
  <2> HIDE DEF inner, nxt, head
  <2> QED
    BY <1>5, <1>10, RankedTyped
<1> QED
  BY <1>7, <1>9, <1>11

\* So does the leftmost one.
LEMMA LeftmostPathStep ==
    ASSUME NEW file, Grounded(file), NEW p \in PageId
    PROVE  /\ LeftmostPath(file, p) \in Seq(PageId)
           /\ LeftmostPath(file, p) =
                IF file[p].type = "internal"
                THEN <<p>> \o LeftmostPath(file, file[p].children[1]) ELSE <<p>>
<1> DEFINE Down(q) == file[q].children[1]
           inner == {q \in PageId : file[q].type = "internal"}
           nxt == [q \in PageId |-> Down(q)]
           head == [q \in PageId |-> <<q>>]
<1>1. PICK B \in Nat : \E rk \in [PageId -> 0 .. B] :
        \A q \in PageId : file[q].type = "internal" =>
          /\ Points(file[q])
          /\ \A i \in 1 .. Len(file[q].children) : rk[file[q].children[i]] < rk[q]
  BY DEF Grounded
<1>2. PICK rk \in [PageId -> 0 .. B] :
        \A q \in PageId : file[q].type = "internal" =>
          /\ Points(file[q])
          /\ \A i \in 1 .. Len(file[q].children) : rk[file[q].children[i]] < rk[q]
  BY <1>1
<1>3. \A q \in inner : nxt[q] \in PageId /\ rk[nxt[q]] < rk[q]
  <2> SUFFICES ASSUME NEW q \in inner
               PROVE  Down(q) \in PageId /\ rk[Down(q)] < rk[q]
    OBVIOUS
  <2>1. /\ file[q].children \in Seq(PageId)
        /\ 1 \in 1 .. Len(file[q].children)
        /\ \A i \in 1 .. Len(file[q].children) : rk[file[q].children[i]] < rk[q]
    <3>1. Points(file[q])
      BY <1>2
    <3>2. Len(file[q].keys) \in Nat
      BY <3>1, LenProperties DEF Points
    <3> QED
      BY <1>2, <3>1, <3>2 DEF Points
  <2> QED
    BY <2>1, ElementOfSeq
<1>4. Descends(PageId, PageId, B, rk, inner, nxt, head)
  <2>1. inner \in SUBSET PageId /\ head \in [PageId -> Seq(PageId)]
    OBVIOUS
  <2> HIDE DEF inner, nxt, head
  <2> QED
    BY <1>3, <2>1 DEF Descends
<1>5. PICK f \in [PageId -> Seq(PageId)] : Unwinds(PageId, inner, nxt, head, f)
  <2> HIDE DEF inner, nxt, head
  <2> QED
    BY <1>4, RankedRecursion
<1>6. f = [q \in PageId |->
             IF file[q].type = "internal" THEN <<q>> \o f[file[q].children[1]] ELSE <<q>>]
  <2>1. \A q \in PageId : f[q] = IF file[q].type = "internal" THEN <<q>> \o f[Down(q)] ELSE <<q>>
    BY <1>5 DEF Unwinds
  <2> QED
    BY <2>1
<1>7. PICK g : /\ g = [q \in PageId |->
                         IF file[q].type = "internal"
                         THEN <<q>> \o g[file[q].children[1]] ELSE <<q>>]
               /\ \A q : LeftmostPath(file, q) = g[q]
  BY <1>6 DEF LeftmostPath, Descent
<1>8. \A q \in PageId :
        g[q] = IF file[q].type = "internal" THEN <<q>> \o g[Down(q)] ELSE <<q>>
  BY <1>7
<1>9. Unwinds(PageId, inner, nxt, head, g)
  BY <1>8 DEF Unwinds
<1>10. \A q \in PageId : g[q] \in Seq(PageId)
  <2> HIDE DEF inner, nxt, head
  <2> QED
    BY <1>4, <1>9, RankedTyped
<1> QED
  BY <1>7, <1>8, <1>10

\* Every page the next pointers lead to is nearer to the last leaf.
Linked(file) ==
    \E B \in Nat : \E rk \in [PageId -> 0 .. B] :
      \A p \in PageId : NextOf(file[p]) # 0 =>
        NextOf(file[p]) \in PageId /\ rk[NextOf(file[p])] < rk[p]

\* The chain from a leaf goes on from the next one.
LEMMA ChainFromStep ==
    ASSUME NEW file, Linked(file), NEW p \in PageId
    PROVE  /\ ChainFrom(file, p) \in Seq(PageId)
           /\ ChainFrom(file, p) =
                IF NextOf(file[p]) = 0 THEN <<p>> ELSE <<p>> \o ChainFrom(file, NextOf(file[p]))
<1> DEFINE inner == {q \in PageId : NextOf(file[q]) # 0}
           nxt == [q \in PageId |-> NextOf(file[q])]
           head == [q \in PageId |-> <<q>>]
<1>1. PICK B \in Nat : \E rk \in [PageId -> 0 .. B] :
        \A q \in PageId : NextOf(file[q]) # 0 =>
          NextOf(file[q]) \in PageId /\ rk[NextOf(file[q])] < rk[q]
  BY DEF Linked
<1>2. PICK rk \in [PageId -> 0 .. B] :
        \A q \in PageId : NextOf(file[q]) # 0 =>
          NextOf(file[q]) \in PageId /\ rk[NextOf(file[q])] < rk[q]
  BY <1>1
<1>3. Descends(PageId, PageId, B, rk, inner, nxt, head)
  <2>1. inner \in SUBSET PageId /\ head \in [PageId -> Seq(PageId)]
    OBVIOUS
  <2>2. \A q \in inner : nxt[q] \in PageId /\ rk[nxt[q]] < rk[q]
    BY <1>2
  <2> HIDE DEF inner, nxt, head
  <2> QED
    BY <2>1, <2>2 DEF Descends
<1>4. PICK f \in [PageId -> Seq(PageId)] : Unwinds(PageId, inner, nxt, head, f)
  <2> HIDE DEF inner, nxt, head
  <2> QED
    BY <1>3, RankedRecursion
<1>5. f = [q \in PageId |->
             IF NextOf(file[q]) = 0 THEN <<q>> ELSE <<q>> \o f[NextOf(file[q])]]
  <2>1. \A q \in PageId : f[q] = IF NextOf(file[q]) = 0 THEN <<q>> ELSE <<q>> \o f[NextOf(file[q])]
    BY <1>4 DEF Unwinds
  <2> QED
    BY <2>1
<1>6. PICK g : /\ g = [q \in PageId |->
                         IF NextOf(file[q]) = 0 THEN <<q>> ELSE <<q>> \o g[NextOf(file[q])]]
               /\ \A q : ChainFrom(file, q) = g[q]
  BY <1>5 DEF ChainFrom
<1>7. \A q \in PageId :
        g[q] = IF NextOf(file[q]) = 0 THEN <<q>> ELSE <<q>> \o g[NextOf(file[q])]
  BY <1>6
<1>8. Unwinds(PageId, inner, nxt, head, g)
  BY <1>7 DEF Unwinds
<1>9. \A q \in PageId : g[q] \in Seq(PageId)
  <2> HIDE DEF inner, nxt, head
  <2> QED
    BY <1>3, <1>8, RankedTyped
<1> QED
  BY <1>6, <1>7, <1>9

\* So do the entries a scan passes.
LEMMA EntriesFromStep ==
    ASSUME NEW E, NEW file, Linked(file), \A q \in PageId : EntriesOf(file[q]) \in Seq(E),
           NEW p \in PageId
    PROVE  /\ EntriesFrom(file, p) \in Seq(E)
           /\ EntriesFrom(file, p) =
                IF NextOf(file[p]) = 0 THEN EntriesOf(file[p])
                ELSE EntriesOf(file[p]) \o EntriesFrom(file, NextOf(file[p]))
<1> DEFINE inner == {q \in PageId : NextOf(file[q]) # 0}
           nxt == [q \in PageId |-> NextOf(file[q])]
           head == [q \in PageId |-> EntriesOf(file[q])]
<1>1. PICK B \in Nat : \E rk \in [PageId -> 0 .. B] :
        \A q \in PageId : NextOf(file[q]) # 0 =>
          NextOf(file[q]) \in PageId /\ rk[NextOf(file[q])] < rk[q]
  BY DEF Linked
<1>2. PICK rk \in [PageId -> 0 .. B] :
        \A q \in PageId : NextOf(file[q]) # 0 =>
          NextOf(file[q]) \in PageId /\ rk[NextOf(file[q])] < rk[q]
  BY <1>1
<1>3. Descends(PageId, E, B, rk, inner, nxt, head)
  <2>1. inner \in SUBSET PageId /\ head \in [PageId -> Seq(E)]
    OBVIOUS
  <2>2. \A q \in inner : nxt[q] \in PageId /\ rk[nxt[q]] < rk[q]
    BY <1>2
  <2> HIDE DEF inner, nxt, head
  <2> QED
    BY <2>1, <2>2 DEF Descends
<1>4. PICK f \in [PageId -> Seq(E)] : Unwinds(PageId, inner, nxt, head, f)
  <2> HIDE DEF inner, nxt, head
  <2> QED
    BY <1>3, RankedRecursion
<1>5. f = [q \in PageId |->
             IF NextOf(file[q]) = 0 THEN EntriesOf(file[q])
             ELSE EntriesOf(file[q]) \o f[NextOf(file[q])]]
  <2>1. \A q \in PageId :
          f[q] = IF NextOf(file[q]) = 0 THEN EntriesOf(file[q])
                 ELSE EntriesOf(file[q]) \o f[NextOf(file[q])]
    BY <1>4 DEF Unwinds
  <2> QED
    BY <2>1
<1>6. PICK g : /\ g = [q \in PageId |->
                         IF NextOf(file[q]) = 0 THEN EntriesOf(file[q])
                         ELSE EntriesOf(file[q]) \o g[NextOf(file[q])]]
               /\ \A q : EntriesFrom(file, q) = g[q]
  BY <1>5 DEF EntriesFrom
<1>7. \A q \in PageId :
        g[q] = IF NextOf(file[q]) = 0 THEN EntriesOf(file[q])
               ELSE EntriesOf(file[q]) \o g[NextOf(file[q])]
  BY <1>6
<1>8. Unwinds(PageId, inner, nxt, head, g)
  BY <1>7 DEF Unwinds
<1>9. \A q \in PageId : g[q] \in Seq(E)
  <2> HIDE DEF inner, nxt, head
  <2> QED
    BY <1>3, <1>8, RankedTyped
<1> QED
  BY <1>6, <1>7, <1>9

\* The pages below a page are its children and those below them.
LEMMA TreePagesStep ==
    ASSUME NEW file, Grounded(file), NEW p \in PageId
    PROVE  TreePages(file, p) = {p} \cup UNION {TreePages(file, c) : c \in Children(file[p])}
<1> DEFINE Step(g, q) == {q} \cup UNION {g[c] : c \in Children(file[q])}
<1>1. PICK B \in Nat : \E rk \in [PageId -> 0 .. B] :
        \A q \in PageId : file[q].type = "internal" =>
          /\ Points(file[q])
          /\ \A i \in 1 .. Len(file[q].children) : rk[file[q].children[i]] < rk[q]
  BY DEF Grounded
<1>2. PICK rk \in [PageId -> 0 .. B] :
        \A q \in PageId : file[q].type = "internal" =>
          /\ Points(file[q])
          /\ \A i \in 1 .. Len(file[q].children) : rk[file[q].children[i]] < rk[q]
  BY <1>1
<1>3. \A q \in PageId : \A c \in Children(file[q]) : c \in PageId /\ rk[c] < rk[q]
  <2> SUFFICES ASSUME NEW q \in PageId, NEW c \in Children(file[q])
               PROVE  c \in PageId /\ rk[c] < rk[q]
    OBVIOUS
  <2>1. file[q].type = "internal" /\ c \in ToSet(file[q].children)
    BY DEF Children
  <2>2. /\ file[q].children \in Seq(PageId)
        /\ \A i \in 1 .. Len(file[q].children) : rk[file[q].children[i]] < rk[q]
    BY <1>2, <2>1 DEF Points
  <2>3. PICK i \in 1 .. Len(file[q].children) : c = file[q].children[i]
    BY <2>1, <2>2, LenProperties DEF ToSet
  <2> QED
    BY <2>2, <2>3, ElementOfSeq
<1> DEFINE Solves(g, n) == \A q \in PageId : rk[q] < n => g[q] = Step(g, q)
           S == {n \in Nat : \E g : Solves(g, n)}
<1>4. ASSUME NEW n \in Nat, \A m \in Nat : m < n => m \in S
      PROVE  n \in S
  <2>1. CASE n = 0
    <3>1. Solves(rk, 0)
      OBVIOUS
    <3> HIDE DEF Solves
    <3> QED
      BY <2>1, <3>1
  <2>2. CASE n # 0
    <3>1. n - 1 \in S
      <4> HIDE DEF S
      <4> QED
        BY <1>4, <2>2
    <3>2. PICK g : Solves(g, n - 1)
      <4> HIDE DEF Solves
      <4> QED
        BY <3>1
    <3> DEFINE h == [q \in PageId |-> Step(g, q)]
    <3>3. \A q \in PageId : rk[q] < n - 1 => h[q] = g[q]
      <4> HIDE DEF Step
      <4> QED
        BY <3>2
    <3>4. \A q \in PageId : h[q] = Step(g, q)
      <4> HIDE DEF Step
      <4> QED
        OBVIOUS
    <3> HIDE DEF h
    <3>5. ASSUME NEW q \in PageId, rk[q] < n
          PROVE  h[q] = Step(h, q)
      <4>1. \A c \in Children(file[q]) : h[c] = g[c]
        BY <1>3, <3>3, <3>5
      <4>2. Step(h, q) = Step(g, q)
        BY <4>1
      <4> HIDE DEF Step
      <4> QED
        BY <3>4, <4>2
    <3>6. Solves(h, n)
      <4> HIDE DEF Step
      <4> QED
        BY <3>5
    <3> HIDE DEF Solves
    <3> QED
      BY <3>6
  <2> QED
    BY <2>1, <2>2
<1>5. S = Nat
  <2> HIDE DEF S
  <2> QED
    BY <1>4, AllNumbers DEF S
<1>6. PICK g : Solves(g, B + 1)
  <2> HIDE DEF Solves
  <2> QED
    BY <1>5
<1> DEFINE f == [q \in PageId |-> g[q]]
<1>7. f = [q \in PageId |-> {q} \cup UNION {f[c] : c \in Children(file[q])}]
  <2>1. \A q \in PageId : rk[q] < B + 1
    OBVIOUS
  <2>2. \A q \in PageId : g[q] = Step(g, q)
    <3> HIDE DEF Step
    <3> QED
      BY <1>6, <2>1
  <2>3. \A q \in PageId : Step(f, q) = Step(g, q)
    <3>1. \A q \in PageId : \A c \in Children(file[q]) : f[c] = g[c]
      BY <1>3
    <3> HIDE DEF f
    <3> QED
      BY <3>1
  <2>4. \A q \in PageId : f[q] = g[q]
    OBVIOUS
  <2>5. \A q \in PageId : g[q] = Step(f, q)
    <3> HIDE DEF Step, f
    <3> QED
      BY <2>2, <2>3
  <2>6. f = [q \in PageId |-> Step(f, q)]
    <3> HIDE DEF Step
    <3> QED
      BY <2>5
  <2> HIDE DEF f
  <2> QED
    BY <2>6
<1> HIDE DEF f
<1>8. PICK r : /\ r = [q \in PageId |-> {q} \cup UNION {r[c] : c \in Children(file[q])}]
               /\ \A q : TreePages(file, q) = r[q]
  BY <1>7 DEF TreePages
<1>9. r[p] = {p} \cup UNION {r[c] : c \in Children(file[p])}
  BY <1>8
<1>10. {r[c] : c \in Children(file[p])} = {TreePages(file, c) : c \in Children(file[p])}
  <2>1. \A q : TreePages(file, q) = r[q]
    BY <1>8
  <2> QED
    BY <2>1
<1> QED
  BY <1>8, <1>9, <1>10

\* A part of a sequence.
LEMMA SubSeqFacts ==
    ASSUME NEW S, NEW s \in Seq(S), NEW m \in 1 .. Len(s) + 1, NEW n \in 0 .. Len(s), m <= n + 1,
           NEW T, \A i \in m .. n : s[i] \in T
    PROVE  /\ SubSeq(s, m, n) \in Seq(T)
           /\ Len(SubSeq(s, m, n)) = n - m + 1
           /\ \A i \in 1 .. n - m + 1 : SubSeq(s, m, n)[i] = s[m + i - 1]
  BY SubSeqProperties, LenProperties

\* Two halves have all the elements between them.
LEMMA HalvesFacts ==
    ASSUME NEW S, NEW s \in Seq(S), NEW m \in 1 .. Len(s) - 1
    PROVE  ToSet(SubSeq(s, 1, m)) \cup ToSet(SubSeq(s, m + 1, Len(s))) = ToSet(s)
<1>1. Len(s) \in Nat /\ \A i \in 1 .. Len(s) : s[i] \in S
  BY LenProperties, ElementOfSeq
<1>2. /\ SubSeq(s, 1, m) \in Seq(S) /\ Len(SubSeq(s, 1, m)) = m
      /\ \A i \in 1 .. m : SubSeq(s, 1, m)[i] = s[i]
  BY <1>1, SubSeqFacts
<1>3. /\ SubSeq(s, m + 1, Len(s)) \in Seq(S) /\ Len(SubSeq(s, m + 1, Len(s))) = Len(s) - m
      /\ \A i \in 1 .. Len(s) - m : SubSeq(s, m + 1, Len(s))[i] = s[m + i]
  <2>1. m + 1 \in 1 .. Len(s) + 1 /\ Len(s) \in 0 .. Len(s) /\ m + 1 <= Len(s) + 1
    BY <1>1
  <2>2. Len(s) - (m + 1) + 1 = Len(s) - m /\ \A i \in 1 .. Len(s) - m : (m + 1) + i - 1 = m + i
    BY <1>1
  <2> QED
    BY <1>1, <2>1, <2>2, SubSeqFacts
<1> DEFINE a == SubSeq(s, 1, m)
           b == SubSeq(s, m + 1, Len(s))
<1> HIDE DEF a, b
<1>4. DOMAIN a = 1 .. m /\ DOMAIN b = 1 .. Len(s) - m /\ DOMAIN s = 1 .. Len(s)
  BY <1>2, <1>3, LenProperties DEF a, b
<1>5. \A i \in 1 .. m : i \in 1 .. Len(s) /\ a[i] = s[i]
  BY <1>1, <1>2 DEF a
<1>6. \A i \in 1 .. Len(s) - m : m + i \in 1 .. Len(s) /\ b[i] = s[m + i]
  BY <1>1, <1>3 DEF b
<1>7. \A i \in 1 .. Len(s) : i \notin 1 .. m => i - m \in 1 .. Len(s) - m /\ b[i - m] = s[i]
  <2> SUFFICES ASSUME NEW i \in 1 .. Len(s), i \notin 1 .. m
               PROVE  i - m \in 1 .. Len(s) - m /\ b[i - m] = s[i]
    OBVIOUS
  <2>1. i - m \in 1 .. Len(s) - m /\ m + (i - m) = i
    BY <1>1
  <2> QED
    BY <1>6, <2>1
<1>8. ToSet(a) \cup ToSet(b) \subseteq ToSet(s)
  BY <1>4, <1>5, <1>6 DEF ToSet
<1>9. ToSet(s) \subseteq ToSet(a) \cup ToSet(b)
  <2> SUFFICES ASSUME NEW i \in 1 .. Len(s) PROVE s[i] \in ToSet(a) \cup ToSet(b)
    BY <1>4 DEF ToSet
  <2>1. CASE i \in 1 .. m
    BY <1>4, <1>5, <2>1 DEF ToSet
  <2>2. CASE i \notin 1 .. m
    BY <1>4, <1>7, <2>2 DEF ToSet
  <2> QED
    BY <2>1, <2>2
<1> QED
  BY <1>8, <1>9 DEF a, b

-----------------------------------------------------------------------------
(* Stores.                                                                 *)

\* A header whose free list is empty, as every header here is: no operation of a
\* tree, of the catalog or of a table frees a page.
GoodHeader(h) ==
    h \in [type : {"header"}, catalog_root : Nat, next_table_id : Nat,
           free_list_head : {0}, num_pages : 1 .. MaxPages]

GoodStore(s) ==
    /\ s = [file |-> s.file, hdr |-> s.hdr, writes |-> s.writes]
    /\ DOMAIN s.file = PageId
    /\ GoodHeader(s.hdr)
    /\ s.hdr = s.file[HEADER_PAGE_ID]

\* One page is written.
LEMMA WritePageFacts ==
    ASSUME NEW file, DOMAIN file = PageId, NEW p, NEW c
    PROVE  /\ DOMAIN WritePage(file, p, c) = PageId
           /\ \A q \in PageId : WritePage(file, p, c)[q] = IF q = p THEN c ELSE file[q]
  BY DEF WritePage

\* A write changes the file of a store and not its header.
LEMMA PutFacts ==
    ASSUME NEW s, s = [file |-> s.file, hdr |-> s.hdr, writes |-> s.writes], NEW p, NEW c
    PROVE  /\ Put(s, p, c).file = WritePage(s.file, p, c)
           /\ Put(s, p, c).hdr = s.hdr
           /\ Put(s, p, c) = [file |-> Put(s, p, c).file, hdr |-> Put(s, p, c).hdr,
                              writes |-> Put(s, p, c).writes]
<1>1. PICK w : w = Append(s.writes, <<p, c>>)
  OBVIOUS
<1>2. PICK f : f = WritePage(s.file, p, c)
  OBVIOUS
<1>3. Put(s, p, c) = [s EXCEPT !.file = f, !.writes = w]
  BY <1>1, <1>2 DEF Put
<1>4. Put(s, p, c) \in [file : {f}, hdr : {s.hdr}, writes : {w}]
  BY <1>3
<1>5. Put(s, p, c) = [file |-> f, hdr |-> s.hdr, writes |-> w]
  BY <1>4
<1> QED
  BY <1>2, <1>5

\* A write to a page other than the header's keeps the store good.
LEMMA PutPageFacts ==
    ASSUME NEW s, GoodStore(s), NEW p \in PageId \ {0}, NEW c
    PROVE  /\ GoodStore(Put(s, p, c))
           /\ Put(s, p, c).hdr = s.hdr
           /\ \A q \in PageId : Put(s, p, c).file[q] = IF q = p THEN c ELSE s.file[q]
<1>1. 0 \in PageId
  BY MaxPagesAssumption DEF PageId
<1>2. DOMAIN WritePage(s.file, p, c) = PageId
      /\ \A q \in PageId : WritePage(s.file, p, c)[q] = IF q = p THEN c ELSE s.file[q]
  BY WritePageFacts DEF GoodStore
<1>3. PICK t : t = Put(s, p, c)
  OBVIOUS
<1>4. t.file = WritePage(s.file, p, c) /\ t.hdr = s.hdr
      /\ t = [file |-> t.file, hdr |-> t.hdr, writes |-> t.writes]
  BY <1>3, PutFacts DEF GoodStore
<1> QED
  BY <1>1, <1>2, <1>3, <1>4 DEF GoodStore, HEADER_PAGE_ID

\* With no free page, an allocation takes the page after the last one.
LEMMA AllocFacts ==
    ASSUME NEW s, GoodStore(s), s.hdr.num_pages < MaxPages
    PROVE  /\ GoodStore(Alloc(s))
           /\ AllocPage(s.hdr) = s.hdr.num_pages
           /\ s.hdr.num_pages \in PageId \ {0}
           /\ Alloc(s).hdr = [s.hdr EXCEPT !.num_pages = @ + 1]
           /\ Alloc(s).hdr.num_pages = s.hdr.num_pages + 1
           /\ \A q \in PageId \ {0, s.hdr.num_pages} : Alloc(s).file[q] = s.file[q]
<1> DEFINE h == AllocHeader(s.hdr, s.file)
           n == s.hdr.num_pages
           s1 == [s EXCEPT !.hdr = h]
           s2 == Put(s1, n, Blank)
           s3 == Put(s2, 0, h)
<1>1. MaxPages \in Nat /\ n \in 1 .. MaxPages - 1 /\ s.hdr.free_list_head = 0
  BY MaxPagesAssumption DEF GoodStore, GoodHeader
<1>2. n \in PageId \ {0} /\ 0 \in PageId /\ n # 0
  BY <1>1 DEF PageId
<1>3. AllocPage(s.hdr) = n
  BY <1>1 DEF AllocPage
<1>4. h = [s.hdr EXCEPT !.num_pages = @ + 1] /\ GoodHeader(h) /\ h.num_pages = n + 1
  BY <1>1 DEF AllocHeader, GoodStore, GoodHeader
<1>5. Alloc(s) = s3
  BY <1>3 DEF Alloc, HEADER_PAGE_ID
<1>6. s1 = [file |-> s1.file, hdr |-> s1.hdr, writes |-> s1.writes] /\ s1.file = s.file /\ s1.hdr = h
  BY DEF GoodStore
<1> HIDE DEF h, n, s1
<1>7. /\ s2.file = WritePage(s.file, n, Blank) /\ s2.hdr = h
      /\ s2 = [file |-> s2.file, hdr |-> s2.hdr, writes |-> s2.writes]
  BY <1>6, PutFacts
<1> HIDE DEF s2
<1>8. /\ s3.file = WritePage(s2.file, 0, h) /\ s3.hdr = h
      /\ s3 = [file |-> s3.file, hdr |-> s3.hdr, writes |-> s3.writes]
  BY <1>7, PutFacts
<1> HIDE DEF s3
<1>9. DOMAIN s2.file = PageId /\ \A q \in PageId : s2.file[q] = IF q = n THEN Blank ELSE s.file[q]
  BY <1>7, WritePageFacts DEF GoodStore
<1>10. DOMAIN s3.file = PageId /\ \A q \in PageId : s3.file[q] = IF q = 0 THEN h ELSE s2.file[q]
  BY <1>8, <1>9, WritePageFacts
<1>11. GoodStore(s3)
  BY <1>2, <1>4, <1>8, <1>10 DEF GoodStore, HEADER_PAGE_ID
<1>12. \A q \in PageId \ {0, n} : s3.file[q] = s.file[q]
  BY <1>9, <1>10
<1> QED
  BY <1>2, <1>3, <1>4, <1>5, <1>8, <1>11, <1>12 DEF n

\* A split: a page is taken, then the old and the new one are written.
SplitStore(s, p, c, d, t) ==
    /\ GoodStore(t) /\ t.hdr.num_pages = s.hdr.num_pages + 1
    /\ \A q \in PageId \ {0} :
         t.file[q] = IF q = s.hdr.num_pages THEN d ELSE IF q = p THEN c ELSE s.file[q]

\* What the three writes of a split come to.
LEMMA SplitStoreFacts ==
    ASSUME NEW s, GoodStore(s), s.hdr.num_pages < MaxPages,
           NEW p \in PageId \ {0}, p # s.hdr.num_pages, NEW c, NEW d
    PROVE  SplitStore(s, p, c, d, Put(Put(Alloc(s), p, c), s.hdr.num_pages, d))
<1> DEFINE n == s.hdr.num_pages
           a == Alloc(s)
           b == Put(a, p, c)
           t == Put(b, n, d)
<1>1. /\ GoodStore(a) /\ n \in PageId \ {0}
      /\ a.hdr = [s.hdr EXCEPT !.num_pages = @ + 1] /\ a.hdr.num_pages = n + 1
      /\ \A q \in PageId \ {0, n} : a.file[q] = s.file[q]
  BY AllocFacts
<1> HIDE DEF n, a
<1>2. /\ GoodStore(b) /\ b.hdr = a.hdr
      /\ \A q \in PageId : b.file[q] = IF q = p THEN c ELSE a.file[q]
  BY <1>1, PutPageFacts
<1> HIDE DEF b
<1>3. /\ GoodStore(t) /\ t.hdr = b.hdr
      /\ \A q \in PageId : t.file[q] = IF q = n THEN d ELSE b.file[q]
  BY <1>1, <1>2, PutPageFacts
<1> HIDE DEF t
<1>4. \A q \in PageId \ {0} : t.file[q] = IF q = n THEN d ELSE IF q = p THEN c ELSE s.file[q]
  BY <1>1, <1>2, <1>3
<1> QED
  BY <1>1, <1>2, <1>3, <1>4 DEF t, b, a, n, SplitStore

-----------------------------------------------------------------------------
(* The shape of a tree.  Beside the pages it speaks of what they stand for: *)
(* own, the pages of the tree; rng, the keys whose descent passes a page;   *)
(* lvl, the distance of a page from the leaves; chain, the leaves from left *)
(* to right.  K is the set of keys and V that of values.                    *)

LeafOK(r, V, node) ==
    /\ node = Leaf(node.entries, node.next)
    /\ node.entries \in Seq([key : r, value : V])
    /\ Len(node.entries) <= MAX_LEAF_SLOTS
    /\ KeysAscend(node.entries)

\* A leaf is read as one.
LEMMA LeafFacts ==
    ASSUME NEW r, NEW V, NEW node, LeafOK(r, V, node)
    PROVE  node.type = "leaf" /\ EntriesOf(node) = node.entries /\ NextOf(node) = node.next
<1>1. \A e, n : Leaf(e, n).type = "leaf"
  BY DEF Leaf
<1>2. node.type = "leaf"
  <2>1. node = Leaf(node.entries, node.next)
    BY DEF LeafOK
  <2> QED
    BY <1>1, <2>1
<1> QED
  BY <1>2 DEF EntriesOf, NextOf

\* An internal node has no entries and no successor.
LEMMA InnerFacts ==
    ASSUME NEW K, NEW P, NEW node, InnerOK(K, P, node)
    PROVE  node.type = "internal" /\ ToSet(EntriesOf(node)) = {} /\ NextOf(node) = 0
<1>1. \A e, n : Internal(e, n).type = "internal"
  BY DEF Internal
<1>2. node.type = "internal"
  <2>1. node = Internal(node.keys, node.children)
    BY DEF InnerOK
  <2> QED
    BY <1>1, <2>1
<1> QED
  BY <1>2 DEF EntriesOf, NextOf, ToSet

Below(r, keys, i) == {x \in r : InSlot(keys, i, x)}

\* The children of a node with keys r at level n: each is one level down and has
\* the keys of its slot.  (seen is rng, or what rng will be when a split that is
\* under way is over.)
Slotted(own, seen, lvl, r, n, keys, children) ==
    /\ Len(children) = Len(keys) + 1
    /\ \A i \in 1 .. Len(children) :
         /\ children[i] \in own
         /\ lvl[children[i]] = n - 1
         /\ seen[children[i]] = Below(r, keys, i)

PageOK(K, V, own, rng, seen, lvl, p, node) ==
    /\ rng[p] # {}
    /\ \/ lvl[p] = 0 /\ LeafOK(rng[p], V, node)
       \/ /\ lvl[p] > 0
          /\ InnerOK(K, own, node)
          /\ Slotted(own, seen, lvl, rng[p], lvl[p], node.keys, node.children)

\* No two pages of a level share a key.
Apart(own, rng, lvl) ==
    \A p, q \in own : p # q /\ lvl[p] = lvl[q] => rng[p] \cap rng[q] = {}

\* Every page but those at the top is a child.
Parented(file, own, tops, lvl) ==
    \A c \in own \ tops : \E p \in own :
      lvl[p] > 0 /\ \E i \in 1 .. Len(file[p].children) : file[p].children[i] = c

Chained(file, own, rng, lvl, chain) ==
    /\ chain \in Seq(own) /\ Len(chain) >= 1
    /\ \A i \in 1 .. Len(chain) :
         /\ lvl[chain[i]] = 0
         /\ file[chain[i]].next = IF i = Len(chain) THEN 0 ELSE chain[i + 1]
    /\ \A p \in own : lvl[p] = 0 => \E i \in 1 .. Len(chain) : chain[i] = p
    /\ \A i, j \in 1 .. Len(chain) : i < j =>
         \A x \in rng[chain[i]], y \in rng[chain[j]] : x < y

Typed(K, own, root, rng, seen, lvl) ==
    /\ own \subseteq PageId \ {0} /\ root \in own
    /\ rng \in [PageId -> SUBSET K] /\ seen \in [PageId -> SUBSET K] /\ seen[root] = K
    /\ lvl \in [PageId -> Nat] /\ \A p \in PageId : lvl[p] <= lvl[root]

Forest(K, V, file, own, root, tops, rng, seen, lvl, chain) ==
    /\ K \subseteq Int
    /\ Typed(K, own, root, rng, seen, lvl)
    /\ \A p \in own : PageOK(K, V, own, rng, seen, lvl, p, file[p])
    /\ Apart(own, rng, lvl)
    /\ Parented(file, own, tops, lvl)
    /\ Chained(file, own, rng, lvl, chain)

Tree(K, V, file, own, root, rng, lvl, chain) ==
    Forest(K, V, file, own, root, {root}, rng, rng, lvl, chain)

\* A page on level 0 is a leaf, one above it an internal node.
LEMMA PageFacts ==
    ASSUME NEW K, NEW V, NEW own, NEW rng, NEW seen, NEW lvl, NEW p, NEW node,
           PageOK(K, V, own, rng, seen, lvl, p, node), lvl[p] \in Nat
    PROVE  /\ lvl[p] = 0 =>
                /\ LeafOK(rng[p], V, node)
                /\ node.type = "leaf" /\ EntriesOf(node) = node.entries /\ NextOf(node) = node.next
           /\ lvl[p] # 0 =>
                /\ InnerOK(K, own, node)
                /\ Slotted(own, seen, lvl, rng[p], lvl[p], node.keys, node.children)
                /\ node.type = "internal" /\ ToSet(EntriesOf(node)) = {} /\ NextOf(node) = 0
<1>1. CASE lvl[p] = 0
  <2>1. LeafOK(rng[p], V, node)
    BY <1>1 DEF PageOK
  <2> QED
    BY <1>1, <2>1, LeafFacts
<1>2. CASE lvl[p] # 0
  <2>1. InnerOK(K, own, node) /\ Slotted(own, seen, lvl, rng[p], lvl[p], node.keys, node.children)
    BY <1>2 DEF PageOK
  <2> QED
    BY <1>2, <2>1, InnerFacts
<1> QED
  BY <1>1, <1>2

\* What the leaves of the tree hold.
Held(file, own) == UNION {ToSet(EntriesOf(file[p])) : p \in own}

HeldIn(file, own, r) == {e \in Held(file, own) : e.key \in r}

\* What a leaf with keys r makes of it when it gets these entries.
HeldWith(file, own, r, entries) ==
    {e \in Held(file, own) : e.key \notin r} \cup ToSet(entries)

-----------------------------------------------------------------------------
(* The leaves change.                                                      *)

\* A leaf is written back with other entries.
LEMMA LeafRewritten ==
    ASSUME NEW K, NEW V, NEW file, NEW own, NEW root, NEW rng, NEW lvl, NEW chain,
           Tree(K, V, file, own, root, rng, lvl, chain),
           NEW l \in own, lvl[l] = 0, NEW node, LeafOK(rng[l], V, node),
           node.next = file[l].next,
           NEW after, \A q \in own : after[q] = IF q = l THEN node ELSE file[q]
    PROVE  Tree(K, V, after, own, root, rng, lvl, chain)
<1> USE DEF Tree, Forest
<1>1. \A p \in own : PageOK(K, V, own, rng, rng, lvl, p, after[p])
  BY DEF PageOK
<1>2. Parented(after, own, {root}, lvl)
  BY DEF Parented
<1>3. Chained(after, own, rng, lvl, chain)
  <2>1. \A i \in 1 .. Len(chain) : chain[i] \in own
    BY ElementOfSeq DEF Chained
  <2> QED
    BY <2>1 DEF Chained
<1> QED
  BY <1>1, <1>2, <1>3

\* A leaf has all that is held under its keys, and no other page has any of it.
LEMMA HeldFacts ==
    ASSUME NEW K, NEW V, NEW file, NEW own, NEW root, NEW rng, NEW lvl, NEW chain,
           Tree(K, V, file, own, root, rng, lvl, chain)
    PROVE  /\ Held(file, own) \subseteq [key : K, value : V]
           /\ \A l \in own : lvl[l] = 0 =>
                ToSet(EntriesOf(file[l])) = {e \in Held(file, own) : e.key \in rng[l]}
           /\ \A p, l \in own : p # l /\ lvl[l] = 0 =>
                \A e \in ToSet(EntriesOf(file[p])) : e.key \notin rng[l]
<1>1. /\ \A p \in own : PageOK(K, V, own, rng, rng, lvl, p, file[p]) /\ lvl[p] \in Nat
      /\ \A p \in own : rng[p] \subseteq K
      /\ Apart(own, rng, lvl)
  BY DEF Tree, Forest, Typed
<1>2. ASSUME NEW p \in own, NEW e \in ToSet(EntriesOf(file[p]))
      PROVE  lvl[p] = 0 /\ e \in [key : rng[p], value : V]
  <2>1. CASE lvl[p] = 0
    <3>1. EntriesOf(file[p]) \in Seq([key : rng[p], value : V])
      <4>1. LeafOK(rng[p], V, file[p]) /\ EntriesOf(file[p]) = file[p].entries
        BY <1>1, <2>1, PageFacts
      <4> QED
        BY <4>1 DEF LeafOK
    <3>2. PICK i \in 1 .. Len(EntriesOf(file[p])) : e = EntriesOf(file[p])[i]
      BY <3>1, LenProperties DEF ToSet
    <3> QED
      BY <2>1, <3>1, <3>2, ElementOfSeq
  <2>2. CASE lvl[p] # 0
    BY <1>1, <1>2, <2>2, PageFacts
  <2> QED
    BY <2>1, <2>2
<1>3. Held(file, own) \subseteq [key : K, value : V]
  BY <1>1, <1>2 DEF Held
<1>4. ASSUME NEW p \in own, NEW l \in own, p # l, lvl[l] = 0, NEW e \in ToSet(EntriesOf(file[p]))
      PROVE  e.key \notin rng[l]
  BY <1>1, <1>2, <1>4 DEF Apart
<1>5. ASSUME NEW l \in own, lvl[l] = 0
      PROVE  ToSet(EntriesOf(file[l])) = {e \in Held(file, own) : e.key \in rng[l]}
  BY <1>2, <1>4, <1>5 DEF Held
<1> QED
  BY <1>3, <1>4, <1>5

\* Rewriting a leaf changes what is held under its keys and nothing else.
LEMMA HeldRewritten ==
    ASSUME NEW K, NEW V, NEW file, NEW own, NEW root, NEW rng, NEW lvl, NEW chain,
           Tree(K, V, file, own, root, rng, lvl, chain),
           NEW l \in own, lvl[l] = 0, NEW node, LeafOK(rng[l], V, node),
           NEW after, \A q \in own : after[q] = IF q = l THEN node ELSE file[q]
    PROVE  Held(after, own) =
             {e \in Held(file, own) : e.key \notin rng[l]} \cup ToSet(node.entries)
<1>1. ToSet(EntriesOf(file[l])) = {e \in Held(file, own) : e.key \in rng[l]}
  BY HeldFacts
<1>2. \A p \in own : p # l => \A e \in ToSet(EntriesOf(file[p])) : e.key \notin rng[l]
  BY HeldFacts
<1>3. EntriesOf(node) = node.entries
  BY LeafFacts
<1> QED
  BY <1>1, <1>2, <1>3 DEF Held

-----------------------------------------------------------------------------
(* A split that its parent does not know of yet: the keys of p are to be   *)
(* divided at sep between p and the page q, which is no page's child.      *)

Seen(rng, p, q) == [rng EXCEPT ![p] = rng[p] \cup rng[q]]

Pending(K, V, file, own, root, p, sep, q, rng, lvl, chain) ==
    /\ Forest(K, V, file, own, root, {root, q}, rng, Seen(rng, p, q), lvl, chain)
    /\ p \in own /\ q \in own /\ p # q /\ q # root /\ lvl[q] = lvl[p]
    /\ sep \in K
    /\ \A x \in rng[p] : x < sep
    /\ \A x \in rng[q] : sep <= x

SameLevels(own, lvl, lvl2) == \A p \in own : lvl2[p] = lvl[p]

\* The new leaf follows the old one in the chain.
SplitsLeaf(file, own, rng, lvl, l, r, after, rng2, lvl2) ==
    /\ l \in own /\ lvl[l] = 0 /\ rng[l] # {} /\ \A q \in own : rng[q] \subseteq Int
    /\ r \notin own
    /\ after[l].next = r /\ after[r].next = file[l].next
    /\ \A q \in own \ {l} : after[q].next = file[q].next
    /\ lvl2[r] = 0 /\ \A q \in own : lvl2[q] = lvl[q]
    /\ \A q \in own \ {l} : rng2[q] = rng[q]
    /\ rng2[l] \subseteq rng[l] /\ rng2[r] \subseteq rng[l]
    /\ \A x \in rng2[l], y \in rng2[r] : x < y

\* The chain after a leaf split: the new leaf comes after the old one.
LEMMA ChainSplit ==
    ASSUME NEW file, NEW own, NEW rng, NEW lvl, NEW chain, Chained(file, own, rng, lvl, chain),
           NEW l, NEW r, NEW after, NEW rng2, NEW lvl2,
           SplitsLeaf(file, own, rng, lvl, l, r, after, rng2, lvl2)
    PROVE  \E chain2 : Chained(after, own \cup {r}, rng2, lvl2, chain2)
<1> USE DEF SplitsLeaf
<1> DEFINE own2 == own \cup {r}
           n == Len(chain)
<1>1. /\ chain \in Seq(own) /\ n \in Nat /\ n >= 1
      /\ \A i \in 1 .. n : chain[i] \in own
  BY LenProperties, ElementOfSeq DEF Chained
<1>2. /\ \A i \in 1 .. n : lvl[chain[i]] = 0
      /\ \A i \in 1 .. n : file[chain[i]].next = IF i = n THEN 0 ELSE chain[i + 1]
      /\ \A p \in own : lvl[p] = 0 => \E i \in 1 .. n : chain[i] = p
  BY DEF Chained
<1>3. \A i, j \in 1 .. n : i < j => \A x \in rng[chain[i]], y \in rng[chain[j]] : x < y
  BY DEF Chained
<1>4. PICK i0 \in 1 .. n : chain[i0] = l
  BY <1>2
<1> DEFINE c == InsertAt(chain, i0 + 1, r)
<1>5. /\ c \in Seq(own2) /\ Len(c) = n + 1
      /\ \A j \in 1 .. i0 : c[j] = chain[j]
      /\ c[i0 + 1] = r
      /\ \A j \in i0 + 1 .. n : c[j + 1] = chain[j]
  <2>1. PICK j0 \in 1 .. n + 1 : j0 = i0 + 1
    BY <1>1, <1>4
  <2>2. c \in Seq(own2) /\ InsertedAt(chain, j0, r, c)
    <3> HIDE DEF SplitsLeaf, n
    <3>1. j0 \in 1 .. Len(chain) + 1 /\ chain \in Seq(own2) /\ r \in own2
      BY <1>1, <2>1, SeqMonotonic DEF n
    <3> HIDE DEF own2
    <3> QED
      BY <2>1, <3>1, InsertAtFacts
  <2>3. j0 - 1 = i0
    BY <1>1, <1>4, <2>1
  <2> QED
    BY <2>1, <2>2, <2>3 DEF InsertedAt
<1> HIDE DEF c, n
<1>6. \A j \in i0 + 2 .. n + 1 : c[j] = chain[j - 1] /\ j - 1 \in 1 .. n /\ j - 1 \in i0 + 1 .. n
  <2> SUFFICES ASSUME NEW j \in i0 + 2 .. n + 1
               PROVE  c[j] = chain[j - 1] /\ j - 1 \in 1 .. n /\ j - 1 \in i0 + 1 .. n
    OBVIOUS
  <2>1. j - 1 \in i0 + 1 .. n /\ (j - 1) + 1 = j /\ j - 1 \in 1 .. n
    BY <1>1, <1>4
  <2> QED
    BY <1>5, <2>1
<1>7. \A j \in 1 .. n : chain[j] = l => j = i0
  <2> SUFFICES ASSUME NEW j \in 1 .. n, chain[j] = l, j # i0 PROVE FALSE
    OBVIOUS
  <2>1. i0 < j \/ j < i0
    BY <1>1, <1>4
  <2>2. \A x, y \in rng[l] : x < y
    BY <1>3, <1>4, <2>1
  <2>3. PICK x \in rng[l] : x \in Int
    OBVIOUS
  <2> QED
    BY <2>2, <2>3
<1>8. ASSUME NEW j \in 1 .. n + 1
      PROVE  /\ lvl2[c[j]] = 0
             /\ after[c[j]].next = IF j = n + 1 THEN 0 ELSE c[j + 1]
  <2>1. CASE j < i0
    <3>1. j \in 1 .. i0 /\ j + 1 \in 1 .. i0 /\ j \in 1 .. n /\ j # n /\ j # n + 1
      BY <1>1, <1>4, <2>1
    <3>2. c[j] = chain[j] /\ c[j + 1] = chain[j + 1]
      BY <1>5, <3>1
    <3>3. chain[j] \in own \ {l}
      BY <1>1, <1>7, <2>1, <3>1
    <3> QED
      BY <1>2, <3>1, <3>2, <3>3
  <2>2. CASE j = i0
    <3>1. j \in 1 .. i0 /\ j # n + 1
      BY <1>1, <1>4, <2>2
    <3>2. c[j] = l /\ c[j + 1] = r
      BY <1>4, <1>5, <2>2, <3>1
    <3> QED
      BY <3>1, <3>2
  <2>3. CASE j = i0 + 1
    <3>1. c[j] = r /\ after[c[j]].next = IF i0 = n THEN 0 ELSE chain[i0 + 1]
      BY <1>2, <1>4, <1>5, <2>3
    <3>2. CASE i0 = n
      BY <2>3, <3>1, <3>2
    <3>3. CASE i0 # n
      <4>1. i0 + 1 \in i0 + 1 .. n /\ j # n + 1
        BY <1>1, <1>4, <2>3, <3>3
      <4>2. c[j + 1] = chain[i0 + 1]
        BY <1>5, <2>3, <4>1
      <4> QED
        BY <3>1, <3>3, <4>1, <4>2
    <3> QED
      BY <3>2, <3>3
  <2>4. CASE j > i0 + 1
    <3>1. j \in i0 + 2 .. n + 1
      BY <1>1, <1>4, <2>4
    <3>2. c[j] = chain[j - 1] /\ j - 1 \in 1 .. n /\ j - 1 # i0 /\ (j - 1) + 1 = j
      BY <1>6, <2>4, <3>1
    <3>3. chain[j - 1] \in own \ {l}
      BY <1>1, <1>7, <3>2
    <3>4. after[c[j]].next = IF j - 1 = n THEN 0 ELSE chain[j]
      BY <1>2, <3>2, <3>3
    <3>5. CASE j = n + 1
      BY <1>1, <1>2, <3>2, <3>3, <3>4, <3>5
    <3>6. CASE j # n + 1
      <4>1. j \in i0 + 1 .. n /\ j - 1 # n
        BY <1>1, <1>4, <2>4, <3>6
      <4>2. c[j + 1] = chain[j]
        BY <1>5, <4>1
      <4> QED
        BY <1>2, <3>2, <3>3, <3>4, <3>6, <4>1, <4>2
    <3> QED
      BY <3>5, <3>6
  <2> QED
    BY <1>1, <1>4, <2>1, <2>2, <2>3, <2>4
<1>9. ASSUME NEW p \in own2, lvl2[p] = 0
      PROVE  \E j \in 1 .. n + 1 : c[j] = p
  <2>1. CASE p = r
    <3>1. i0 + 1 \in 1 .. n + 1
      BY <1>1, <1>4
    <3> QED
      BY <1>5, <2>1, <3>1
  <2>2. CASE p # r
    <3>1. PICK j \in 1 .. n : chain[j] = p
      BY <1>2, <1>9, <2>2
    <3>2. CASE j <= i0
      <4>1. j \in 1 .. i0 /\ j \in 1 .. n + 1
        BY <1>1, <1>4, <3>2
      <4> QED
        BY <1>5, <3>1, <4>1
    <3>3. CASE j > i0
      <4>1. j \in i0 + 1 .. n /\ j + 1 \in 1 .. n + 1
        BY <1>1, <1>4, <3>3
      <4> QED
        BY <1>5, <3>1, <4>1
    <3> QED
      BY <1>1, <1>4, <3>2, <3>3
  <2> QED
    BY <2>1, <2>2
<1>10. ASSUME NEW i \in 1 .. n + 1, NEW j \in 1 .. n + 1, i < j,
              NEW x \in rng2[c[i]], NEW y \in rng2[c[j]]
       PROVE  x < y
  <2> DEFINE Back(a) == IF a <= i0 THEN a ELSE a - 1
  <2>1. ASSUME NEW a \in 1 .. n + 1
        PROVE  Back(a) \in 1 .. n /\ rng2[c[a]] \subseteq rng[chain[Back(a)]]
    <3>1. CASE a <= i0
      <4>1. a \in 1 .. i0 /\ a \in 1 .. n /\ Back(a) = a
        BY <1>1, <1>4, <3>1
      <4>2. c[a] = chain[a] /\ chain[a] \in own
        BY <1>1, <1>5, <4>1
      <4> HIDE DEF Back
      <4> QED
        BY <4>1, <4>2
    <3>2. CASE a = i0 + 1
      <4>1. Back(a) = i0
        BY <1>4, <3>2
      <4> HIDE DEF Back
      <4> QED
        BY <1>4, <1>5, <3>2, <4>1
    <3>3. CASE a > i0 + 1
      <4>1. a \in i0 + 2 .. n + 1 /\ Back(a) = a - 1
        BY <1>1, <1>4, <3>3
      <4>2. c[a] = chain[a - 1] /\ a - 1 \in 1 .. n /\ a - 1 # i0
        BY <1>6, <3>3, <4>1
      <4>3. chain[a - 1] \in own \ {l}
        BY <1>1, <1>7, <4>2
      <4> HIDE DEF Back
      <4> QED
        BY <4>1, <4>2, <4>3
    <3> QED
      BY <1>1, <1>4, <3>1, <3>2, <3>3
  <2>2. CASE Back(i) < Back(j)
    <3>1. /\ x \in rng[chain[Back(i)]] /\ y \in rng[chain[Back(j)]]
          /\ Back(i) \in 1 .. n /\ Back(j) \in 1 .. n
      BY <2>1
    <3> HIDE DEF Back
    <3> QED
      BY <1>3, <2>2, <3>1
  <2>3. CASE ~(Back(i) < Back(j))
    <3>1. i = i0 /\ j = i0 + 1
      BY <1>1, <1>4, <1>10, <2>3
    <3>2. c[i] = l /\ c[j] = r
      BY <1>4, <1>5, <3>1
    <3> QED
      BY <3>2
  <2> QED
    BY <2>2, <2>3
<1>11. Chained(after, own2, rng2, lvl2, c)
  BY <1>1, <1>5, <1>8, <1>9, <1>10 DEF Chained
<1> QED
  BY <1>11

\* The leaf l of a tree is rewritten with the first half of these entries, one
\* more than it can hold, and the page r, which follows it, with the second.
HalvesLeaf(K, V, file, own, root, rng, lvl, chain, l, r, all, mid, sep, after) ==
    /\ Tree(K, V, file, own, root, rng, lvl, chain)
    /\ l \in own /\ lvl[l] = 0
    /\ all \in Seq([key : rng[l], value : V]) /\ KeysAscend(all)
    /\ Len(all) = MAX_LEAF_SLOTS + 1
    /\ r \in PageId \ {0} /\ r \notin own
    /\ mid = Len(all) \div 2 /\ sep = all[mid + 1].key
    /\ \A q \in own \cup {r} : after[q] =
         IF q = r THEN Leaf(SubSeq(all, mid + 1, Len(all)), file[l].next)
         ELSE IF q = l THEN Leaf(SubSeq(all, 1, mid), r) ELSE file[q]

\* A leaf split leaves a split pending and holds the same entries.
LEMMA LeafSplit ==
    ASSUME NEW K, NEW V, NEW file, NEW own, NEW root, NEW rng, NEW lvl, NEW chain,
           NEW l, NEW r, NEW all, NEW mid, NEW sep, NEW after,
           HalvesLeaf(K, V, file, own, root, rng, lvl, chain, l, r, all, mid, sep, after)
    PROVE  /\ \E rng2, lvl2, chain2 :
                /\ Pending(K, V, after, own \cup {r}, root, l, sep, r, rng2, lvl2, chain2)
                /\ SameLevels(own, lvl, lvl2)
           /\ Held(after, own \cup {r}) = HeldWith(file, own, rng[l], all)
<1> USE DEF HalvesLeaf
<1> DEFINE own2 == own \cup {r}
           rng2 == [rng EXCEPT ![l] = {x \in rng[l] : x < sep}, ![r] = {x \in rng[l] : sep <= x}]
           lvl2 == [lvl EXCEPT ![r] = 0]
           seen2 == Seen(rng2, l, r)
           left == SubSeq(all, 1, mid)
           right == SubSeq(all, mid + 1, Len(all))
<1>1. /\ K \subseteq Int /\ Typed(K, own, root, rng, rng, lvl) /\ Apart(own, rng, lvl)
      /\ \A p \in own : PageOK(K, V, own, rng, rng, lvl, p, file[p])
      /\ Parented(file, own, {root}, lvl) /\ Chained(file, own, rng, lvl, chain)
  BY DEF Tree, Forest
<1>2. /\ own \subseteq PageId \ {0} /\ root \in own /\ rng \in [PageId -> SUBSET K]
      /\ rng[root] = K /\ lvl \in [PageId -> Nat] /\ \A p \in PageId : lvl[p] <= lvl[root]
  BY <1>1 DEF Typed
<1>3. /\ Len(all) \in Nat /\ mid \in 1 .. Len(all) - 1 /\ mid + 1 \in 1 .. Len(all)
      /\ mid <= MAX_LEAF_SLOTS /\ Len(all) - mid <= MAX_LEAF_SLOTS
  BY FanoutAssumption
<1>4. /\ \A i \in 1 .. Len(all) : all[i] \in [key : rng[l], value : V]
      /\ sep \in rng[l] /\ sep \in K /\ rng[l] \subseteq K
  <2>1. \A i \in 1 .. Len(all) : all[i] \in [key : rng[l], value : V]
    BY ElementOfSeq
  <2>2. rng[l] \subseteq K
    BY <1>2
  <2> QED
    BY <1>3, <2>1, <2>2
<1>5. /\ left \in Seq([key : {x \in rng[l] : x < sep}, value : V]) /\ Len(left) = mid
      /\ \A i \in 1 .. mid : left[i] = all[i]
  <2>1. \A i \in 1 .. mid : all[i] \in [key : {x \in rng[l] : x < sep}, value : V]
    BY <1>3, <1>4 DEF KeysAscend
  <2> QED
    BY <1>3, <2>1, SubSeqFacts
<1>6. /\ right \in Seq([key : {x \in rng[l] : sep <= x}, value : V])
      /\ Len(right) = Len(all) - mid
      /\ \A i \in 1 .. Len(all) - mid : right[i] = all[mid + i]
  <2>0. /\ all \in Seq([key : rng[l], value : V]) /\ KeysAscend(all)
        /\ sep = all[mid + 1].key
    OBVIOUS
  <2> HIDE DEF HalvesLeaf
  <2>1. ASSUME NEW i \in mid + 1 .. Len(all)
        PROVE  all[i] \in [key : {x \in rng[l] : sep <= x}, value : V]
    <3>1. i \in 1 .. Len(all) /\ (i = mid + 1 \/ mid + 1 < i)
      BY <1>3
    <3>2. sep <= all[i].key
      <4>1. sep = all[mid + 1].key /\ mid + 1 \in 1 .. Len(all)
        BY <1>3, <2>0
      <4>2. mid + 1 < i => all[mid + 1].key < all[i].key
        BY <2>0, <3>1, <4>1 DEF KeysAscend
      <4>3. sep \in Int /\ all[i].key \in Int
        BY <1>1, <1>4, <3>1
      <4> QED
        BY <3>1, <4>1, <4>2, <4>3
    <3> QED
      BY <1>4, <3>1, <3>2
  <2>2. mid + 1 \in Int /\ Len(all) \in Int /\ mid + 1 <= Len(all)
    BY <1>3
  <2>3. /\ right \in Seq([key : {x \in rng[l] : sep <= x}, value : V])
        /\ Len(right) = Len(all) - (mid + 1) + 1
        /\ \A i \in 1 .. Len(all) - (mid + 1) + 1 : right[i] = all[(mid + 1) + i - 1]
    <3>1. mid + 1 \in 1 .. Len(all) + 1 /\ Len(all) \in 0 .. Len(all) /\ mid + 1 <= Len(all) + 1
      BY <1>3
    <3> QED
      BY <2>0, <2>1, <3>1, SubSeqFacts
  <2>4. Len(all) - (mid + 1) + 1 = Len(all) - mid
    BY <1>3
  <2>5. \A i \in 1 .. Len(all) - mid : (mid + 1) + i - 1 = mid + i
    BY <1>3
  <2> HIDE DEF right
  <2>6. Len(right) = Len(all) - mid
    BY <2>3, <2>4
  <2>7. ASSUME NEW i \in 1 .. Len(all) - mid PROVE right[i] = all[mid + i]
    <3>1. right[i] = all[(mid + 1) + i - 1]
      BY <2>3, <2>4
    <3>2. (mid + 1) + i - 1 = mid + i
      BY <2>5
    <3> QED
      BY <3>1, <3>2
  <2> QED
    BY <2>3, <2>6, <2>7
<1> HIDE DEF left, right
<1>7. /\ rng2 \in [PageId -> SUBSET K]
      /\ rng2[l] = {x \in rng[l] : x < sep} /\ rng2[r] = {x \in rng[l] : sep <= x}
      /\ \A p \in own \ {l} : rng2[p] = rng[p]
  BY <1>2, <1>4
<1>8. /\ lvl2 \in [PageId -> Nat] /\ lvl2[r] = 0 /\ \A p \in own : lvl2[p] = lvl[p]
      /\ \A p \in PageId : lvl2[p] <= lvl2[root]
  BY <1>2
<1> HIDE DEF rng2, lvl2
<1>9. /\ seen2 \in [PageId -> SUBSET K] /\ rng2[l] \cup rng2[r] = rng[l]
      /\ \A p \in own : seen2[p] = rng[p]
  <2>1. rng2[l] \cup rng2[r] = rng[l]
    <3> HIDE DEF HalvesLeaf
    <3>1. rng[l] \subseteq Int /\ sep \in Int
      BY <1>1, <1>4
    <3> QED
      BY <1>7, <3>1
  <2> QED
    BY <1>2, <1>7, <2>1 DEF Seen
<1> HIDE DEF seen2
<1>10. Typed(K, own2, root, rng2, seen2, lvl2)
  BY <1>2, <1>7, <1>8, <1>9 DEF Typed
<1>11. LeafOK(rng2[l], V, after[l]) /\ rng2[l] # {} /\ after[l].entries = left
  <2>1. after[l] = Leaf(left, r)
    BY DEF left
  <2>2. KeysAscend(left)
    BY <1>3, <1>5 DEF KeysAscend
  <2>3. all[1].key \in rng2[l]
    BY <1>3, <1>4, <1>7 DEF KeysAscend
  <2> QED
    BY <1>3, <1>5, <1>7, <2>1, <2>2, <2>3 DEF LeafOK, Leaf
<1>12. LeafOK(rng2[r], V, after[r]) /\ rng2[r] # {} /\ after[r].entries = right
  <2>1. after[r] = Leaf(right, file[l].next)
    BY DEF right
  <2>2. KeysAscend(right)
    <3> SUFFICES ASSUME NEW i \in 1 .. Len(all) - mid, NEW j \in 1 .. Len(all) - mid, i < j
                 PROVE  right[i].key < right[j].key
      BY <1>6 DEF KeysAscend
    <3>1. mid + i \in 1 .. Len(all) /\ mid + j \in 1 .. Len(all) /\ mid + i < mid + j
      <4> HIDE DEF HalvesLeaf
      <4> QED
        BY <1>3
    <3> QED
      BY <1>6, <3>1 DEF KeysAscend
  <2>3. sep \in rng2[r]
    BY <1>1, <1>4, <1>7
  <2>4. after[r].entries = right /\ after[r] = Leaf(after[r].entries, after[r].next)
    BY <2>1 DEF Leaf
  <2>5. right \in Seq([key : rng2[r], value : V]) /\ Len(right) <= MAX_LEAF_SLOTS
    BY <1>3, <1>6, <1>7
  <2> QED
    BY <2>2, <2>3, <2>4, <2>5 DEF LeafOK
<1>13. ASSUME NEW p \in own2
       PROVE  PageOK(K, V, own2, rng2, seen2, lvl2, p, after[p])
  <2>1. CASE p \in {l, r}
    BY <1>8, <1>11, <1>12, <2>1 DEF PageOK
  <2>2. CASE p \notin {l, r}
    <3>1. p \in own /\ after[p] = file[p] /\ rng2[p] = rng[p] /\ lvl2[p] = lvl[p]
      BY <1>7, <1>8, <2>2
    <3>2. PageOK(K, V, own, rng, rng, lvl, p, file[p])
      BY <1>1, <3>1
    <3>3. CASE lvl[p] = 0
      BY <1>2, <3>1, <3>2, <3>3 DEF PageOK
    <3>4. CASE lvl[p] # 0
      <4>1. InnerOK(K, own, file[p]) /\ Slotted(own, rng, lvl, rng[p], lvl[p], file[p].keys, file[p].children)
        BY <3>2, <3>4 DEF PageOK
      <4>2. InnerOK(K, own2, file[p])
        BY <4>1, SeqMonotonic DEF InnerOK
      <4>3. Slotted(own2, seen2, lvl2, rng2[p], lvl2[p], file[p].keys, file[p].children)
        BY <1>8, <1>9, <3>1, <4>1 DEF Slotted
      <4> QED
        BY <3>1, <3>2, <3>4, <4>2, <4>3 DEF PageOK
    <3> QED
      BY <3>3, <3>4
  <2> QED
    BY <2>1, <2>2
<1>14. Apart(own2, rng2, lvl2)
  <2>1. \A p \in own : rng2[p] \subseteq rng[p]
    BY <1>7
  <2>2. rng2[r] \subseteq rng[l] /\ rng2[l] \cap rng2[r] = {}
    BY <1>1, <1>4, <1>7
  <2> QED
    BY <1>1, <1>8, <2>1, <2>2 DEF Apart
<1>15. Parented(after, own2, {root, r}, lvl2)
  <2> SUFFICES ASSUME NEW c \in own \ {root}
               PROVE  \E p \in own : /\ lvl2[p] > 0
                                     /\ \E i \in 1 .. Len(after[p].children) : after[p].children[i] = c
    BY DEF Parented
  <2>1. PICK p \in own :
          lvl[p] > 0 /\ \E i \in 1 .. Len(file[p].children) : file[p].children[i] = c
    BY <1>1 DEF Parented
  <2>2. after[p] = file[p] /\ lvl2[p] = lvl[p]
    BY <1>8, <2>1
  <2> QED
    BY <2>1, <2>2

<1>16. PICK chain2 : Chained(after, own2, rng2, lvl2, chain2)
  <2>1. \A q \in own : rng[q] \subseteq Int
    BY <1>1, <1>2
  <2>2. rng[l] # {}
    BY <1>4
  <2>3. after[l].next = r /\ after[r].next = file[l].next
    BY DEF Leaf
  <2>4. \A q \in own \ {l} : after[q].next = file[q].next
    OBVIOUS
  <2>5. /\ rng2[l] \subseteq rng[l] /\ rng2[r] \subseteq rng[l]
        /\ \A x \in rng2[l], y \in rng2[r] : x < y
    <3> HIDE DEF HalvesLeaf, rng2
    <3>1. sep \in Int /\ rng[l] \subseteq Int
      BY <1>1, <1>4
    <3> QED
      BY <1>7, <3>1
  <2>6. SplitsLeaf(file, own, rng, lvl, l, r, after, rng2, lvl2)
    BY <1>7, <1>8, <2>1, <2>2, <2>3, <2>4, <2>5 DEF SplitsLeaf
  <2>7. \E chain2 : Chained(after, own \cup {r}, rng2, lvl2, chain2)
    BY <1>1, <2>6, ChainSplit
  <2> QED
    BY <2>7
<1>26. Forest(K, V, after, own2, root, {root, r}, rng2, seen2, lvl2, chain2)
  BY <1>1, <1>10, <1>13, <1>14, <1>15, <1>16 DEF Forest
<1>27. Pending(K, V, after, own2, root, l, sep, r, rng2, lvl2, chain2)
  BY <1>2, <1>4, <1>7, <1>8, <1>26 DEF Pending, seen2
<1>28. Held(after, own2) = {e \in Held(file, own) : e.key \notin rng[l]} \cup ToSet(all)
  <2>1. EntriesOf(after[l]) = left /\ EntriesOf(after[r]) = right
    BY <1>11, <1>12, LeafFacts
  <2>2. ToSet(left) \cup ToSet(right) = ToSet(all)
    BY <1>3, HalvesFacts DEF left, right
  <2>3. \A p \in own \ {l} : after[p] = file[p]
    OBVIOUS
  <2>4. ToSet(EntriesOf(file[l])) = {e \in Held(file, own) : e.key \in rng[l]}
    BY HeldFacts
  <2>5. \A p \in own : p # l => \A e \in ToSet(EntriesOf(file[p])) : e.key \notin rng[l]
    BY HeldFacts
  <2> HIDE DEF left, right
  <2> QED
    BY <2>1, <2>2, <2>3, <2>4, <2>5 DEF Held
<1>29. /\ Pending(K, V, after, own \cup {r}, root, l, sep, r, rng2, lvl2, chain2)
       /\ SameLevels(own, lvl, lvl2)
       /\ Held(after, own \cup {r}) = HeldWith(file, own, rng[l], all)
  BY <1>7, <1>8, <1>9, <1>27, <1>28 DEF SameLevels, HeldWith
<1> QED
  BY <1>29

-----------------------------------------------------------------------------
(* The keys and children of an internal node change.                       *)

Divided(r, keys, idx, a, b, keys2) ==
    /\ Ascending(keys2)
    /\ \A j \in 1 .. idx - 1 : Below(r, keys2, j) = Below(r, keys, j)
    /\ Below(r, keys2, idx) = a
    /\ Below(r, keys2, idx + 1) = b
    /\ \A j \in idx + 1 .. Len(keys) + 1 : Below(r, keys2, j + 1) = Below(r, keys, j)

\* A separator put into a slot divides it and leaves the others as they were.
LEMMA SlotDivided ==
    ASSUME NEW r \in SUBSET Int, NEW keys \in Seq(Int), Ascending(keys),
           NEW idx \in 1 .. Len(keys) + 1, NEW sep \in Int,
           NEW a, NEW b, a # {}, b # {}, a \cup b = Below(r, keys, idx),
           \A x \in a : x < sep, \A x \in b : sep <= x,
           NEW keys2 \in Seq(Int), InsertedAt(keys, idx, sep, keys2)
    PROVE  Divided(r, keys, idx, a, b, keys2)
<1> DEFINE n == Len(keys)
<1>1. /\ n \in Nat /\ idx \in 1 .. n + 1 /\ \A j \in 1 .. n : keys[j] \in Int
      /\ Len(keys2) = n + 1
      /\ \A j \in 1 .. idx - 1 : keys2[j] = keys[j]
      /\ keys2[idx] = sep
      /\ \A j \in idx .. n : keys2[j + 1] = keys[j]
  BY LenProperties, ElementOfSeq DEF InsertedAt
<1>2. /\ a \subseteq r /\ b \subseteq r
      /\ \A x \in a \cup b : (idx = 1 \/ keys[idx - 1] <= x) /\ (idx = n + 1 \/ x < keys[idx])
      /\ \A x \in r : (idx = 1 \/ keys[idx - 1] <= x) /\ (idx = n + 1 \/ x < keys[idx])
           => x \in a \cup b
  BY DEF Below, InSlot
<1> HIDE DEF n
<1>3. idx = 1 \/ keys[idx - 1] < sep
  <2>1. PICK x \in a : TRUE
    OBVIOUS
  <2>2. x \in Int /\ x < sep /\ (idx = 1 \/ keys[idx - 1] <= x)
    BY <1>2, <2>1
  <2>3. idx # 1 => keys[idx - 1] \in Int
    BY <1>1
  <2> QED
    BY <2>2, <2>3
<1>4. idx = n + 1 \/ sep < keys[idx]
  <2>1. PICK x \in b : TRUE
    OBVIOUS
  <2>2. x \in Int /\ sep <= x /\ (idx = n + 1 \/ x < keys[idx])
    BY <1>2, <2>1
  <2>3. idx # n + 1 => keys[idx] \in Int
    BY <1>1 DEF n
  <2> QED
    BY <2>2, <2>3
<1>5. \A j \in idx + 1 .. n + 1 : keys2[j] = keys[j - 1] /\ j - 1 \in 1 .. n
  <2> SUFFICES ASSUME NEW j \in idx + 1 .. n + 1 PROVE keys2[j] = keys[j - 1] /\ j - 1 \in 1 .. n
    OBVIOUS
  <2>1. j - 1 \in idx .. n /\ (j - 1) + 1 = j /\ j - 1 \in 1 .. n
    BY <1>1 DEF n
  <2> QED
    BY <1>1, <2>1
<1>6. \A j \in 1 .. n : \A l \in 1 .. n : j < l => keys[j] < keys[l]
  BY DEF Ascending, n
<1>7. Ascending(keys2)
  <2> SUFFICES ASSUME NEW i \in 1 .. n + 1, NEW j \in 1 .. n + 1, i < j
               PROVE  keys2[i] < keys2[j]
    BY <1>1 DEF Ascending
  <2>1. CASE j < idx
    <3>1. i \in 1 .. idx - 1 /\ j \in 1 .. idx - 1 /\ i \in 1 .. n /\ j \in 1 .. n
      BY <1>1, <2>1
    <3>2. keys2[i] = keys[i] /\ keys2[j] = keys[j]
      BY <1>1, <3>1
    <3> QED
      BY <1>6, <3>1, <3>2
  <2>2. CASE j = idx
    <3>1. i \in 1 .. idx - 1 /\ i \in 1 .. n /\ idx - 1 \in 1 .. n /\ i <= idx - 1
      BY <1>1, <2>2
    <3>2. keys[i] <= keys[idx - 1]
      <4>1. CASE i = idx - 1
        BY <1>1, <3>1, <4>1
      <4>2. CASE i # idx - 1
        <5>1. i < idx - 1
          BY <1>1, <3>1, <4>2
        <5>2. keys[i] < keys[idx - 1]
          BY <1>6, <3>1, <5>1
        <5>3. keys[i] \in Int /\ keys[idx - 1] \in Int
          BY <1>1, <3>1
        <5> QED
          BY <5>2, <5>3
      <4> QED
        BY <4>1, <4>2
    <3> QED
      BY <1>1, <1>3, <2>2, <3>1, <3>2
  <2>3. CASE j > idx
    <3>1. j \in idx + 1 .. n + 1 /\ keys2[j] = keys[j - 1] /\ j - 1 \in 1 .. n
      BY <1>1, <1>5, <2>3
    <3>2. CASE i < idx
      <4>1. i \in 1 .. idx - 1 /\ i \in 1 .. n /\ i < j - 1
        BY <1>1, <2>3, <3>1, <3>2
      <4> QED
        BY <1>1, <1>6, <3>1, <4>1
    <3>3. CASE i = idx
      <4>1. idx \in 1 .. n /\ idx <= j - 1 /\ idx # n + 1
        <5>1. n \in Nat /\ idx \in 1 .. n + 1 /\ j \in 1 .. n + 1 /\ j > idx
          BY <1>1, <2>3
        <5> QED
          BY <5>1
      <4>2. keys[idx] <= keys[j - 1]
        <5>1. CASE idx = j - 1
          BY <1>1, <4>1, <5>1
        <5>2. CASE idx # j - 1
          <6>1. idx < j - 1
            BY <1>1, <3>1, <4>1, <5>2
          <6>2. keys[idx] < keys[j - 1]
            BY <1>6, <3>1, <4>1, <6>1
          <6>3. keys[idx] \in Int /\ keys[j - 1] \in Int
            BY <1>1, <3>1, <4>1
          <6> QED
            BY <6>2, <6>3
        <5> QED
          BY <5>1, <5>2
      <4>3. keys2[i] = sep /\ keys2[j] = keys[j - 1] /\ sep < keys[idx]
        BY <1>1, <1>4, <3>1, <3>3, <4>1
      <4>4. keys[idx] \in Int /\ keys[j - 1] \in Int
        BY <1>1, <3>1, <4>1
      <4> QED
        BY <4>2, <4>3, <4>4
    <3>4. CASE i > idx
      <4>1. i \in idx + 1 .. n + 1 /\ keys2[i] = keys[i - 1] /\ i - 1 \in 1 .. n /\ i - 1 < j - 1
        <5>1. i \in idx + 1 .. n + 1 /\ i - 1 < j - 1
          BY <1>1, <3>4
        <5> QED
          BY <1>5, <5>1
      <4> QED
        BY <1>6, <3>1, <4>1
    <3> QED
      BY <1>1, <3>2, <3>3, <3>4
  <2> QED
    BY <1>1, <2>1, <2>2, <2>3
<1>8. ASSUME NEW j \in 1 .. idx - 1
      PROVE  Below(r, keys2, j) = Below(r, keys, j)
  <2>1. j # n + 1 /\ j # (n + 1) + 1 /\ (j # 1 => j - 1 \in 1 .. idx - 1)
    BY <1>1
  <2>2. keys2[j] = keys[j] /\ (j # 1 => keys2[j - 1] = keys[j - 1])
    BY <1>1, <2>1
  <2> QED
    BY <1>1, <2>1, <2>2 DEF Below, InSlot, n
<1>9. Below(r, keys2, idx) = a
  <2>1. idx # (n + 1) + 1
    BY <1>1
  <2>2. Below(r, keys2, idx) = {x \in r : (idx = 1 \/ keys[idx - 1] <= x) /\ x < sep}
    <3>1. idx # 1 => keys2[idx - 1] = keys[idx - 1]
      BY <1>1
    <3> QED
      BY <1>1, <2>1, <3>1 DEF Below, InSlot
  <2>3. a \subseteq {x \in r : (idx = 1 \/ keys[idx - 1] <= x) /\ x < sep}
    BY <1>2
  <2>4. ASSUME NEW x \in r, idx = 1 \/ keys[idx - 1] <= x, x < sep
        PROVE  x \in a
    <3>1. idx = n + 1 \/ x < keys[idx]
      <4>1. idx # n + 1 => keys[idx] \in Int
        BY <1>1
      <4> QED
        BY <1>4, <2>4, <4>1
    <3>2. x \in a \cup b
      BY <1>2, <2>4, <3>1
    <3>3. x \notin b
      BY <2>4
    <3> QED
      BY <3>2, <3>3
  <2> QED
    BY <2>2, <2>3, <2>4
<1>10. Below(r, keys2, idx + 1) = b
  <2>1. idx + 1 # 1 /\ (idx + 1) - 1 = idx /\ (idx + 1 = (n + 1) + 1 <=> idx = n + 1)
    BY <1>1
  <2>2. Below(r, keys2, idx + 1) = {x \in r : sep <= x /\ (idx = n + 1 \/ x < keys[idx])}
    <3>1. idx # n + 1 => keys2[idx + 1] = keys[idx]
      BY <1>1
    <3> QED
      BY <1>1, <2>1, <3>1 DEF Below, InSlot
  <2>3. b \subseteq {x \in r : sep <= x /\ (idx = n + 1 \/ x < keys[idx])}
    BY <1>2
  <2>4. ASSUME NEW x \in r, sep <= x, idx = n + 1 \/ x < keys[idx]
        PROVE  x \in b
    <3>1. idx = 1 \/ keys[idx - 1] <= x
      <4>1. idx # 1 => keys[idx - 1] \in Int
        BY <1>1
      <4> QED
        BY <1>3, <2>4, <4>1
    <3>2. x \in a \cup b
      BY <1>2, <2>4, <3>1
    <3>3. x \notin a
      BY <2>4
    <3> QED
      BY <3>2, <3>3
  <2> QED
    BY <2>2, <2>3, <2>4
<1>11. ASSUME NEW j \in idx + 1 .. n + 1
       PROVE  Below(r, keys2, j + 1) = Below(r, keys, j)
  <2>1. /\ j # 1 /\ j + 1 # 1 /\ (j + 1) - 1 = j /\ keys2[j] = keys[j - 1]
        /\ (j + 1 = (n + 1) + 1 <=> j = n + 1)
        /\ (j # n + 1 => keys2[j + 1] = keys[j])
    <3>1. j # n + 1 => j \in idx .. n
      BY <1>1
    <3>2. j # n + 1 => keys2[j + 1] = keys[j]
      BY <1>1, <3>1
    <3>3. keys2[j] = keys[j - 1]
      BY <1>5
    <3>4. n \in Nat /\ idx \in 1 .. n + 1 /\ j \in idx + 1 .. n + 1
      BY <1>1
    <3>5. j # 1 /\ j + 1 # 1 /\ (j + 1) - 1 = j /\ (j + 1 = (n + 1) + 1 <=> j = n + 1)
      BY <3>4
    <3> QED
      BY <3>2, <3>3, <3>5
  <2> QED
    BY <1>1, <2>1 DEF Below, InSlot, n
<1> QED
  BY <1>7, <1>8, <1>9, <1>10, <1>11 DEF n, Divided

Halved(r, keys, m, left, right, a, b) ==
    /\ Ascending(left) /\ Len(left) = m
    /\ Ascending(right) /\ Len(right) = Len(keys) - m - 1
    /\ \A j \in 1 .. m + 1 : Below(a, left, j) = Below(r, keys, j)
    /\ \A j \in 1 .. Len(keys) - m : Below(b, right, j) = Below(r, keys, m + 1 + j)

\* The keys without the one at m + 1 fall into two halves, and so do the slots.
LEMMA SlotsHalved ==
    ASSUME NEW r \in SUBSET Int, NEW keys \in Seq(Int), Ascending(keys),
           NEW m \in 1 .. Len(keys) - 1,
           NEW left, left = SubSeq(keys, 1, m),
           NEW right, right = SubSeq(keys, m + 2, Len(keys)),
           NEW a, a = {x \in r : x < keys[m + 1]},
           NEW b, b = {x \in r : keys[m + 1] <= x}
    PROVE  Halved(r, keys, m, left, right, a, b)
<1> DEFINE n == Len(keys)
<1>1. /\ n \in Nat /\ m \in 1 .. n - 1 /\ m + 1 \in 1 .. n
      /\ \A j \in 1 .. n : keys[j] \in Int
      /\ \A i \in 1 .. n : \A j \in 1 .. n : i < j => keys[i] < keys[j]
  BY LenProperties, ElementOfSeq DEF Ascending
<1>2. left \in Seq(Int) /\ Len(left) = m /\ \A j \in 1 .. m : left[j] = keys[j]
  <2>1. m \in 0 .. Len(keys) /\ 1 \in 1 .. Len(keys) + 1 /\ 1 <= m + 1
    BY <1>1
  <2>2. \A i \in 1 .. m : keys[i] \in Int
    BY <1>1
  <2>3. /\ SubSeq(keys, 1, m) \in Seq(Int)
        /\ Len(SubSeq(keys, 1, m)) = m - 1 + 1
        /\ \A i \in 1 .. m - 1 + 1 : SubSeq(keys, 1, m)[i] = keys[1 + i - 1]
    BY <2>1, <2>2, SubSeqFacts
  <2>4. m - 1 + 1 = m /\ \A i \in 1 .. m : 1 + i - 1 = i
    BY <1>1
  <2> QED
    BY <2>3, <2>4
<1>3. /\ right \in Seq(Int) /\ Len(right) = n - m - 1
      /\ \A j \in 1 .. n - m - 1 : right[j] = keys[m + 1 + j] /\ m + 1 + j \in 1 .. n
  <2>1. m + 2 \in 1 .. Len(keys) + 1 /\ Len(keys) \in 0 .. Len(keys) /\ m + 2 <= Len(keys) + 1
    BY <1>1
  <2>2. \A i \in m + 2 .. Len(keys) : keys[i] \in Int
    BY <1>1
  <2>3. /\ right \in Seq(Int)
        /\ Len(right) = Len(keys) - (m + 2) + 1
        /\ \A i \in 1 .. Len(keys) - (m + 2) + 1 : right[i] = keys[m + 2 + i - 1]
    BY <2>1, <2>2, SubSeqFacts
  <2>4. Len(keys) - (m + 2) + 1 = n - m - 1
    BY <1>1
  <2>5. \A i \in 1 .. n - m - 1 : m + 2 + i - 1 = m + 1 + i /\ m + 1 + i \in 1 .. n
    BY <1>1
  <2> HIDE DEF n
  <2> QED
    BY <2>3, <2>4, <2>5
<1> HIDE DEF n
<1>4. Ascending(left)
  <2>1. \A i \in 1 .. m : i \in 1 .. n
    BY <1>1
  <2> QED
    BY <1>1, <1>2, <2>1 DEF Ascending
<1>5. Ascending(right)
  <2> SUFFICES ASSUME NEW i \in 1 .. n - m - 1, NEW j \in 1 .. n - m - 1, i < j
               PROVE  right[i] < right[j]
    BY <1>3 DEF Ascending
  <2>1. m + 1 + i < m + 1 + j
    BY <1>1
  <2> QED
    BY <1>1, <1>3, <2>1
<1>6. ASSUME NEW j \in 1 .. m + 1
      PROVE  Below(a, left, j) = Below(r, keys, j)
  <2>1. j # n + 1 /\ j \in 1 .. n /\ (j # 1 => j - 1 \in 1 .. m)
    BY <1>1
  <2>2. j # 1 => left[j - 1] = keys[j - 1]
    BY <1>2, <2>1
  <2>3. CASE j = m + 1
    BY <1>2, <2>1, <2>2, <2>3 DEF Below, InSlot, n
  <2>4. CASE j # m + 1
    <3>1. j \in 1 .. m /\ j < m + 1
      BY <1>1, <2>4
    <3>2. left[j] = keys[j] /\ keys[j] < keys[m + 1]
      BY <1>1, <1>2, <2>1, <3>1
    <3>3. \A x \in r : x < keys[j] => x < keys[m + 1]
      BY <1>1, <2>1, <3>2
    <3> QED
      BY <1>2, <2>1, <2>2, <2>4, <3>2, <3>3 DEF Below, InSlot, n
  <2> QED
    BY <2>3, <2>4
<1>7. ASSUME NEW j \in 1 .. n - m
      PROVE  Below(b, right, j) = Below(r, keys, m + 1 + j)
  <2>1. /\ m + 1 + j # 1 /\ m + 1 + j - 1 = m + j /\ m + j \in 1 .. n
        /\ (m + 1 + j = n + 1 <=> j = n - m) /\ (j = (n - m - 1) + 1 <=> j = n - m)
        /\ (j # n - m => j \in 1 .. n - m - 1)
        /\ (j # 1 => j - 1 \in 1 .. n - m - 1 /\ m + 1 + (j - 1) = m + j)
    BY <1>1
  <2>2. j # n - m => right[j] = keys[m + 1 + j]
    BY <1>3, <2>1
  <2>3. j # 1 => right[j - 1] = keys[m + j]
    BY <1>3, <2>1
  <2>4. Below(r, keys, m + 1 + j) =
          {x \in r : keys[m + j] <= x /\ (j = n - m \/ x < keys[m + 1 + j])}
    BY <2>1 DEF Below, InSlot, n
  <2>5. Below(b, right, j) =
          {x \in b : (j = 1 \/ keys[m + j] <= x) /\ (j = n - m \/ x < keys[m + 1 + j])}
    BY <1>3, <2>1, <2>2, <2>3 DEF Below, InSlot
  <2>6. CASE j = 1
    <3>1. m + j = m + 1
      BY <1>1, <2>6
    <3> QED
      BY <2>4, <2>5, <2>6, <3>1
  <2>7. CASE j # 1
    <3>1. m + 1 < m + j
      BY <1>1, <2>7
    <3>2. keys[m + 1] < keys[m + j]
      BY <1>1, <2>1, <3>1
    <3>3. \A x \in r : keys[m + j] <= x => keys[m + 1] <= x
      BY <1>1, <2>1, <3>2
    <3> QED
      BY <2>4, <2>5, <2>7, <3>3
  <2> QED
    BY <2>6, <2>7
<1> QED
  BY <1>2, <1>3, <1>4, <1>5, <1>6, <1>7 DEF n, Halved

-----------------------------------------------------------------------------
(* A split below p reaches p.                                              *)

\* A tree but for the page p: its keys and children are to be these, and they
\* may be one too many.
Absorbs(K, V, file, own, root, p, keys, children, rng, lvl, chain) ==
    /\ K \subseteq Int
    /\ Typed(K, own, root, rng, rng, lvl)
    /\ p \in own /\ lvl[p] > 0 /\ rng[p] # {}
    /\ keys \in Seq(K) /\ Ascending(keys) /\ children \in Seq(own)
    /\ Slotted(own, rng, lvl, rng[p], lvl[p], keys, children)
    /\ \A u \in own \ {p} : PageOK(K, V, own, rng, rng, lvl, u, file[u])
    /\ Apart(own, rng, lvl)
    /\ \A c \in own \ {root} :
         \/ \E i \in 1 .. Len(children) : children[i] = c
         \/ \E u \in own \ {p} :
              lvl[u] > 0 /\ \E i \in 1 .. Len(file[u].children) : file[u].children[i] = c
    /\ Chained(file, own, rng, lvl, chain)

\* A child is on the level below, so neither it nor its keys are elsewhere.
LEMMA OneParent ==
    ASSUME NEW K, NEW V, NEW file, NEW own, NEW root, NEW tops, NEW rng, NEW seen, NEW lvl, NEW chain,
           Forest(K, V, file, own, root, tops, rng, seen, lvl, chain),
           \A c \in own : rng[c] \subseteq seen[c],
           NEW p \in own, lvl[p] > 0, NEW i \in 1 .. Len(file[p].children),
           NEW u \in own, lvl[u] > 0, NEW j \in 1 .. Len(file[u].children),
           file[p].children[i] = file[u].children[j]
    PROVE  p = u /\ i = j
<1> DEFINE c == file[p].children[i]
<1>1. /\ K \subseteq Int /\ rng \in [PageId -> SUBSET K] /\ lvl \in [PageId -> Nat]
      /\ own \subseteq PageId /\ Apart(own, rng, lvl)
      /\ \A q \in own : PageOK(K, V, own, rng, seen, lvl, q, file[q])
  BY DEF Forest, Typed
<1>2. \A q \in own : lvl[q] > 0 =>
        /\ InnerOK(K, own, file[q])
        /\ Slotted(own, seen, lvl, rng[q], lvl[q], file[q].keys, file[q].children)
  BY <1>1, PageFacts
<1>3. /\ c \in own /\ lvl[c] = lvl[p] - 1 /\ seen[c] = Below(rng[p], file[p].keys, i)
      /\ lvl[c] = lvl[u] - 1 /\ seen[c] = Below(rng[u], file[u].keys, j)
  BY <1>2 DEF Slotted
<1>4. PICK x \in rng[c] : x \in Int
  <2>1. rng[c] # {} /\ rng[c] \subseteq Int
    BY <1>1, <1>3 DEF PageOK
  <2> QED
    BY <2>1
<1>5. /\ x \in rng[p] /\ InSlot(file[p].keys, i, x)
      /\ x \in rng[u] /\ InSlot(file[u].keys, j, x)
  BY <1>3, <1>4 DEF Below
<1>6. lvl[p] = lvl[u]
  <2>1. lvl[p] \in Nat /\ lvl[u] \in Nat
    BY <1>1
  <2> QED
    BY <1>3, <2>1
<1>7. p = u
  BY <1>1, <1>5, <1>6 DEF Apart
<1>8. file[p].keys \in Seq(Int) /\ Ascending(file[p].keys)
      /\ Len(file[p].children) = Len(file[p].keys) + 1
  <2>1. file[p].keys \in Seq(K) /\ Ascending(file[p].keys)
        /\ Len(file[p].children) = Len(file[p].keys) + 1
    BY <1>2 DEF InnerOK
  <2> QED
    BY <1>1, <2>1, SeqMonotonic
<1>9. i = ChildIndex(file[p].keys, x) /\ j = ChildIndex(file[p].keys, x)
  <2>1. i \in 1 .. Len(file[p].keys) + 1 /\ j \in 1 .. Len(file[p].keys) + 1
    BY <1>7, <1>8
  <2> QED
    BY <1>4, <1>5, <1>7, <1>8, <2>1, ChildIndexFacts
<1> QED
  BY <1>7, <1>9

\* The parent takes the separator and the new page beside the split child.
LEMMA SplitAbsorbed ==
    ASSUME NEW K, NEW V, NEW file, NEW own, NEW root, NEW rng, NEW lvl, NEW chain,
           NEW q, NEW sep, NEW new,
           Pending(K, V, file, own, root, q, sep, new, rng, lvl, chain),
           NEW p \in own, lvl[p] > 0,
           NEW idx \in 1 .. Len(file[p].children), file[p].children[idx] = q,
           NEW keys, keys = InsertAt(file[p].keys, idx, sep),
           NEW children, children = InsertAt(file[p].children, idx + 1, new)
    PROVE  /\ Absorbs(K, V, file, own, root, p, keys, children, rng, lvl, chain)
           /\ Len(keys) = Len(file[p].keys) + 1
           /\ Len(file[p].keys) <= MAX_INTERNAL_KEYS
<1> DEFINE seen == Seen(rng, q, new)
           keys0 == file[p].keys
           children0 == file[p].children
           n == Len(keys0)
<1>1. /\ Forest(K, V, file, own, root, {root, new}, rng, seen, lvl, chain)
      /\ q \in own /\ new \in own /\ q # new /\ new # root /\ lvl[new] = lvl[q]
      /\ sep \in K /\ (\A x \in rng[q] : x < sep) /\ (\A x \in rng[new] : sep <= x)
  BY DEF Pending
<1>2. /\ K \subseteq Int /\ Typed(K, own, root, rng, seen, lvl) /\ Apart(own, rng, lvl)
      /\ \A u \in own : PageOK(K, V, own, rng, seen, lvl, u, file[u])
      /\ Parented(file, own, {root, new}, lvl) /\ Chained(file, own, rng, lvl, chain)
  BY <1>1 DEF Forest
<1>3. /\ own \subseteq PageId \ {0} /\ root \in own /\ rng \in [PageId -> SUBSET K]
      /\ seen[root] = K /\ lvl \in [PageId -> Nat] /\ \A u \in PageId : lvl[u] <= lvl[root]
  BY <1>2 DEF Typed
<1>4. seen[q] = rng[q] \cup rng[new] /\ \A u \in own : u # q => seen[u] = rng[u]
  BY <1>1, <1>3 DEF Seen
<1> HIDE DEF seen
<1>5. /\ keys0 \in Seq(K) /\ keys0 \in Seq(Int) /\ n \in 1 .. MAX_INTERNAL_KEYS /\ n \in Nat
      /\ Ascending(keys0) /\ children0 \in Seq(own) /\ Len(children0) = n + 1
      /\ Slotted(own, seen, lvl, rng[p], lvl[p], keys0, children0)
  <2>1. /\ InnerOK(K, own, file[p])
        /\ Slotted(own, seen, lvl, rng[p], lvl[p], keys0, children0)
    BY <1>2, <1>3, PageFacts
  <2>2. /\ keys0 \in Seq(K) /\ n \in 1 .. MAX_INTERNAL_KEYS
        /\ Ascending(keys0) /\ children0 \in Seq(own) /\ Len(children0) = n + 1
    BY <2>1 DEF InnerOK
  <2> QED
    BY <1>2, <2>1, <2>2, SeqMonotonic, LenProperties
<1>6. \A j \in 1 .. n + 1 :
        /\ children0[j] \in own /\ lvl[children0[j]] = lvl[p] - 1
        /\ seen[children0[j]] = Below(rng[p], keys0, j)
  BY <1>5 DEF Slotted
<1> HIDE DEF keys0, children0
<1>7. idx \in 1 .. n + 1 /\ children0[idx] = q /\ lvl[q] = lvl[p] - 1
      /\ rng[q] \cup rng[new] = Below(rng[p], keys0, idx)
  <2>1. idx \in 1 .. n + 1 /\ children0[idx] = q
    BY <1>5 DEF children0
  <2> QED
    BY <1>4, <1>6, <2>1
<1>8. rng[q] # {} /\ rng[new] # {} /\ rng[p] # {} /\ rng[p] \in SUBSET Int /\ sep \in Int
  BY <1>1, <1>2, <1>3 DEF PageOK
<1>9. /\ keys \in Seq(K) /\ keys \in Seq(Int) /\ InsertedAt(keys0, idx, sep, keys)
      /\ Len(keys) = n + 1
  <2>1. idx \in 1 .. Len(keys0) + 1 /\ keys = InsertAt(keys0, idx, sep)
    BY <1>7 DEF keys0
  <2>2. keys \in Seq(K) /\ InsertedAt(keys0, idx, sep, keys)
    BY <1>1, <1>5, <2>1, InsertAtFacts
  <2>3. keys \in Seq(Int)
    BY <1>2, <2>2, SeqMonotonic
  <2> QED
    BY <2>2, <2>3 DEF InsertedAt
<1>10. children \in Seq(own) /\ Len(children) = n + 2
       /\ (\A j \in 1 .. idx : children[j] = children0[j])
       /\ children[idx + 1] = new
       /\ \A j \in idx + 1 .. n + 1 : children[j + 1] = children0[j]
  <2>1. PICK at \in 1 .. Len(children0) + 1 : at = idx + 1
    BY <1>5, <1>7
  <2>2. children = InsertAt(children0, at, new)
    BY <2>1 DEF children0
  <2>3. children \in Seq(own) /\ InsertedAt(children0, at, new, children)
    BY <1>1, <1>5, <2>2, InsertAtFacts
  <2>4. at - 1 = idx /\ Len(children0) = n + 1 /\ Len(children0) + 1 = n + 2
    BY <1>5, <1>7, <2>1
  <2> QED
    BY <2>1, <2>3, <2>4 DEF InsertedAt
<1>11. /\ Ascending(keys)
       /\ \A j \in 1 .. idx - 1 : Below(rng[p], keys, j) = Below(rng[p], keys0, j)
       /\ Below(rng[p], keys, idx) = rng[q]
       /\ Below(rng[p], keys, idx + 1) = rng[new]
       /\ \A j \in idx + 1 .. n + 1 : Below(rng[p], keys, j + 1) = Below(rng[p], keys0, j)
  <2>1. Divided(rng[p], keys0, idx, rng[q], rng[new], keys)
    BY <1>1, <1>5, <1>7, <1>8, <1>9, SlotDivided
  <2> QED
    BY <2>1 DEF Divided
<1> HIDE DEF n
<1>12. \A u \in own : lvl[u] > 0 =>
         \A j \in 1 .. Len(file[u].children) : file[u].children[j] = q => u = p /\ j = idx
  <2> SUFFICES ASSUME NEW u \in own, lvl[u] > 0, NEW j \in 1 .. Len(file[u].children),
                      file[u].children[j] = q
               PROVE  u = p /\ j = idx
    OBVIOUS
  <2>1. \A c \in own : rng[c] \subseteq seen[c]
    BY <1>4
  <2> QED
    BY <1>1, <2>1, OneParent
<1>13. \A j \in 1 .. n + 1 : j # idx => children0[j] # q
  <2>1. \A j \in 1 .. n + 1 : j \in 1 .. Len(file[p].children)
    BY <1>5 DEF children0
  <2> QED
    BY <1>12, <2>1 DEF children0
<1>14. \A j \in 1 .. n + 1 : j # idx => rng[children0[j]] = Below(rng[p], keys0, j)
  BY <1>4, <1>6, <1>13
<1>15. ASSUME NEW j \in 1 .. n + 2
       PROVE  /\ children[j] \in own /\ lvl[children[j]] = lvl[p] - 1
              /\ rng[children[j]] = Below(rng[p], keys, j)
  <2>1. CASE j < idx
    <3>1. j \in 1 .. idx - 1 /\ j \in 1 .. idx /\ j \in 1 .. n + 1 /\ j # idx
      BY <1>5, <1>7, <2>1
    <3> QED
      BY <1>6, <1>10, <1>11, <1>14, <3>1
  <2>2. CASE j = idx
    <3>1. children[j] = q
      BY <1>7, <1>10, <2>2
    <3> QED
      BY <1>1, <1>7, <1>11, <2>2, <3>1
  <2>3. CASE j = idx + 1
    BY <1>1, <1>7, <1>10, <1>11, <2>3
  <2>4. CASE j > idx + 1
    <3>1. PICK l \in idx + 1 .. n + 1 : j = l + 1
      <4>1. j - 1 \in idx + 1 .. n + 1 /\ j = (j - 1) + 1
        BY <1>5, <1>7, <2>4
      <4> QED
        BY <4>1
    <3>2. l \in 1 .. n + 1 /\ l # idx
      BY <1>5, <1>7
    <3> QED
      BY <1>6, <1>10, <1>11, <1>14, <3>1, <3>2
  <2> QED
    BY <1>5, <1>7, <2>1, <2>2, <2>3, <2>4
<1>16. Slotted(own, rng, lvl, rng[p], lvl[p], keys, children)
  <2>1. Len(children) = Len(keys) + 1 /\ Len(children) = n + 2
    BY <1>5, <1>9, <1>10
  <2> QED
    BY <1>15, <2>1 DEF Slotted
<1>17. ASSUME NEW u \in own \ {p}
       PROVE  PageOK(K, V, own, rng, rng, lvl, u, file[u])
  <2>1. PageOK(K, V, own, rng, seen, lvl, u, file[u])
    BY <1>2
  <2>2. CASE lvl[u] = 0
    BY <2>1, <2>2 DEF PageOK
  <2>3. CASE lvl[u] # 0
    <3>1. lvl[u] > 0
      BY <1>3, <2>3
    <3>2. InnerOK(K, own, file[u])
          /\ Slotted(own, seen, lvl, rng[u], lvl[u], file[u].keys, file[u].children)
      BY <2>1, <2>3 DEF PageOK
    <3>3. \A j \in 1 .. Len(file[u].children) : seen[file[u].children[j]] = rng[file[u].children[j]]
      BY <1>4, <1>12, <3>1, <3>2 DEF Slotted
    <3>4. Slotted(own, rng, lvl, rng[u], lvl[u], file[u].keys, file[u].children)
      BY <3>2, <3>3 DEF Slotted
    <3> QED
      BY <2>1, <3>1, <3>2, <3>4 DEF PageOK
  <2> QED
    BY <2>2, <2>3
<1>18. ASSUME NEW c \in own \ {root}
       PROVE  \/ \E i \in 1 .. Len(children) : children[i] = c
              \/ \E u \in own \ {p} :
                   lvl[u] > 0 /\ \E i \in 1 .. Len(file[u].children) : file[u].children[i] = c
  <2>1. CASE c = new
    <3>1. idx + 1 \in 1 .. Len(children)
      BY <1>5, <1>7, <1>10
    <3> QED
      BY <1>10, <2>1, <3>1
  <2>2. CASE c # new
    <3>1. PICK u \in own :
            lvl[u] > 0 /\ \E i \in 1 .. Len(file[u].children) : file[u].children[i] = c
      BY <1>2, <2>2 DEF Parented
    <3>2. CASE u # p
      BY <3>1, <3>2
    <3>3. CASE u = p
      <4>1. PICK i \in 1 .. n + 1 : children0[i] = c
        BY <1>5, <3>1, <3>3 DEF children0
      <4>2. CASE i <= idx
        <5>1. i \in 1 .. idx /\ i \in 1 .. Len(children)
          BY <1>5, <1>7, <1>10, <4>2
        <5> QED
          BY <1>10, <4>1, <5>1
      <4>3. CASE i > idx
        <5>1. i \in idx + 1 .. n + 1 /\ i + 1 \in 1 .. Len(children)
          BY <1>5, <1>7, <1>10, <4>3
        <5> QED
          BY <1>10, <4>1, <5>1
      <4> QED
        BY <1>5, <1>7, <4>2, <4>3
    <3> QED
      BY <3>2, <3>3
  <2> QED
    BY <2>1, <2>2
<1>19. Typed(K, own, root, rng, rng, lvl)
  <2>1. q # root
    <3>1. lvl[p] <= lvl[root] /\ lvl[p] \in Nat /\ lvl[root] \in Nat
      BY <1>3
    <3> QED
      BY <1>7, <3>1
  <2>2. rng[root] = K
    BY <1>3, <1>4, <2>1
  <2> QED
    BY <1>3, <2>2 DEF Typed
<1>20. Absorbs(K, V, file, own, root, p, keys, children, rng, lvl, chain)
  BY <1>2, <1>8, <1>9, <1>10, <1>11, <1>16, <1>17, <1>18, <1>19 DEF Absorbs
<1> QED
  BY <1>5, <1>9, <1>20 DEF n, keys0

\* The parent has room.
LEMMA SplitEnds ==
    ASSUME NEW K, NEW V, NEW file, NEW own, NEW root, NEW p, NEW keys, NEW children,
           NEW rng, NEW lvl, NEW chain,
           Absorbs(K, V, file, own, root, p, keys, children, rng, lvl, chain),
           Len(keys) \in 1 .. MAX_INTERNAL_KEYS,
           NEW after,
           \A q \in own : after[q] = IF q = p THEN Internal(keys, children) ELSE file[q]
    PROVE  /\ Tree(K, V, after, own, root, rng, lvl, chain)
           /\ ToSet(EntriesOf(file[p])) = {} => Held(after, own) = Held(file, own)
<1> USE DEF Absorbs
<1>1. /\ after[p] = Internal(keys, children) /\ after[p].keys = keys
      /\ after[p].children = children /\ after[p].type = "internal"
  BY DEF Internal
<1>2. \A q \in own \ {p} : after[q] = file[q]
  OBVIOUS
<1>3. InnerOK(K, own, after[p])
  BY <1>1 DEF InnerOK, Slotted
<1>4. ASSUME NEW u \in own
      PROVE  PageOK(K, V, own, rng, rng, lvl, u, after[u])
  <2>1. CASE u = p
    BY <1>1, <1>3, <2>1 DEF PageOK
  <2>2. CASE u # p
    BY <1>2, <2>2
  <2> QED
    BY <2>1, <2>2
<1>5. Parented(after, own, {root}, lvl)
  <2> SUFFICES ASSUME NEW c \in own \ {root}
               PROVE  \E u \in own : /\ lvl[u] > 0
                                     /\ \E i \in 1 .. Len(after[u].children) : after[u].children[i] = c
    BY DEF Parented
  <2>1. CASE \E i \in 1 .. Len(children) : children[i] = c
    BY <1>1, <2>1
  <2>2. CASE \E u \in own \ {p} :
               lvl[u] > 0 /\ \E i \in 1 .. Len(file[u].children) : file[u].children[i] = c
    BY <1>2, <2>2
  <2> QED
    BY <2>1, <2>2
<1>6. Chained(after, own, rng, lvl, chain)
  <2>1. \A i \in 1 .. Len(chain) : chain[i] \in own /\ lvl[chain[i]] = 0
    BY ElementOfSeq DEF Chained
  <2>2. \A i \in 1 .. Len(chain) : after[chain[i]] = file[chain[i]]
    BY <1>2, <2>1
  <2> QED
    BY <2>2 DEF Chained
<1>7. Tree(K, V, after, own, root, rng, lvl, chain)
  BY <1>4, <1>5, <1>6 DEF Tree, Forest
<1>8. ToSet(EntriesOf(after[p])) = {}
  BY <1>1 DEF EntriesOf, ToSet
<1>9. ASSUME ToSet(EntriesOf(file[p])) = {} PROVE Held(after, own) = Held(file, own)
  <2>1. \A q \in own : ToSet(EntriesOf(after[q])) = ToSet(EntriesOf(file[q]))
    BY <1>2, <1>8, <1>9
  <2> QED
    BY <2>1 DEF Held
<1> QED
  BY <1>7, <1>9

\* The node p is rewritten with one half of its keys and children and the page r
\* is written with the other; the key between them goes up.
HalvesInner(file, own, p, r, keys, children, mid, sep, after) ==
    /\ mid \in 1 .. MAX_INTERNAL_KEYS /\ Len(keys) - mid - 1 \in 1 .. MAX_INTERNAL_KEYS
    /\ sep = keys[mid + 1]
    /\ after[r] = Internal(SubSeq(keys, mid + 2, Len(keys)),
                           SubSeq(children, mid + 2, Len(children)))
    /\ after[p] = Internal(SubSeq(keys, 1, mid), SubSeq(children, 1, mid + 1))
    /\ \A q \in own \ {p} : after[q] = file[q]

\* The parent is full and is halved in its turn.
LEMMA SplitGoesOn ==
    ASSUME NEW K, NEW V, NEW file, NEW own, NEW root, NEW p, NEW keys, NEW children,
           NEW rng, NEW lvl, NEW chain,
           Absorbs(K, V, file, own, root, p, keys, children, rng, lvl, chain),
           ToSet(EntriesOf(file[p])) = {},
           NEW r \in PageId \ {0}, r \notin own,
           NEW mid, NEW sep, NEW after,
           HalvesInner(file, own, p, r, keys, children, mid, sep, after)
    PROVE  /\ \E rng2, lvl2 :
                /\ Pending(K, V, after, own \cup {r}, root, p, sep, r, rng2, lvl2, chain)
                /\ SameLevels(own, lvl, lvl2)
           /\ Held(after, own \cup {r}) = Held(file, own)
<1> DEFINE own2 == own \cup {r}
           rng2 == [rng EXCEPT ![p] = {x \in rng[p] : x < sep}, ![r] = {x \in rng[p] : sep <= x}]
           lvl2 == [lvl EXCEPT ![r] = lvl[p]]
           seen2 == Seen(rng2, p, r)
           left == SubSeq(keys, 1, mid)
           right == SubSeq(keys, mid + 2, Len(keys))
           leftC == SubSeq(children, 1, mid + 1)
           rightC == SubSeq(children, mid + 2, Len(children))
           n == Len(keys)
<1>1. /\ K \subseteq Int /\ Typed(K, own, root, rng, rng, lvl) /\ Apart(own, rng, lvl)
      /\ p \in own /\ lvl[p] > 0 /\ rng[p] # {}
      /\ keys \in Seq(K) /\ Ascending(keys) /\ children \in Seq(own)
      /\ Slotted(own, rng, lvl, rng[p], lvl[p], keys, children)
      /\ \A u \in own \ {p} : PageOK(K, V, own, rng, rng, lvl, u, file[u])
      /\ Chained(file, own, rng, lvl, chain)
  BY DEF Absorbs
<1>2. \A c \in own \ {root} :
        \/ \E i \in 1 .. Len(children) : children[i] = c
        \/ \E u \in own \ {p} :
             lvl[u] > 0 /\ \E i \in 1 .. Len(file[u].children) : file[u].children[i] = c
  BY DEF Absorbs
<1>3. /\ own \subseteq PageId \ {0} /\ root \in own /\ rng \in [PageId -> SUBSET K]
      /\ rng[root] = K /\ lvl \in [PageId -> Nat] /\ \A u \in PageId : lvl[u] <= lvl[root]
  BY <1>1 DEF Typed
<1>4. /\ n \in Nat /\ mid \in 1 .. n - 1 /\ mid + 1 \in 1 .. n /\ mid \in Nat
      /\ mid \in 1 .. MAX_INTERNAL_KEYS /\ n - mid - 1 \in 1 .. MAX_INTERNAL_KEYS
      /\ keys \in Seq(Int)
      /\ \A i \in 1 .. n : keys[i] \in K
  <2>1. n \in Nat /\ keys \in Seq(Int) /\ \A i \in 1 .. n : keys[i] \in K
    BY <1>1, ElementOfSeq, LenProperties, SeqMonotonic
  <2>2. mid \in 1 .. MAX_INTERNAL_KEYS /\ n - mid - 1 \in 1 .. MAX_INTERNAL_KEYS
    BY DEF HalvesInner
  <2> HIDE DEF n
  <2> QED
    BY <2>1, <2>2, FanoutAssumption
<1>5. /\ sep \in K /\ sep \in Int /\ rng[p] \in SUBSET Int /\ rng[p] \in SUBSET K
      /\ p \in PageId /\ r \in PageId /\ p # r /\ sep = keys[mid + 1]
  BY <1>1, <1>3, <1>4 DEF HalvesInner
<1>6. /\ Len(children) = n + 1
      /\ \A i \in 1 .. n + 1 :
           /\ children[i] \in own /\ lvl[children[i]] = lvl[p] - 1
           /\ rng[children[i]] = Below(rng[p], keys, i)
  BY <1>1 DEF Slotted
<1>7. /\ rng2 \in [PageId -> SUBSET K]
      /\ rng2[p] = {x \in rng[p] : x < sep} /\ rng2[r] = {x \in rng[p] : sep <= x}
      /\ \A q \in own \ {p} : rng2[q] = rng[q]
  BY <1>3, <1>5
<1>8. /\ lvl2 \in [PageId -> Nat] /\ lvl2[r] = lvl[p] /\ \A q \in own : lvl2[q] = lvl[q]
      /\ \A q \in PageId : lvl2[q] <= lvl2[root]
  BY <1>3, <1>5
<1> HIDE DEF rng2, lvl2
<1>9. /\ seen2 \in [PageId -> SUBSET K] /\ rng2[p] \cup rng2[r] = rng[p]
      /\ \A q \in own : seen2[q] = rng[q]
  <2>1. rng2[p] \cup rng2[r] = rng[p]
    BY <1>5, <1>7
  <2> QED
    BY <1>3, <1>5, <1>7, <2>1 DEF Seen
<1> HIDE DEF seen2
<1>10. /\ Ascending(left) /\ Len(left) = mid
       /\ Ascending(right) /\ Len(right) = n - mid - 1
       /\ \A j \in 1 .. mid + 1 : Below(rng2[p], left, j) = Below(rng[p], keys, j)
       /\ \A j \in 1 .. n - mid : Below(rng2[r], right, j) = Below(rng[p], keys, mid + 1 + j)
  <2>1. Halved(rng[p], keys, mid, left, right, rng2[p], rng2[r])
    BY <1>1, <1>4, <1>5, <1>7, SlotsHalved
  <2> QED
    BY <2>1 DEF Halved
<1>11. left \in Seq(K) /\ right \in Seq(K)
  <2>1. /\ mid \in 0 .. Len(keys) /\ 1 \in 1 .. Len(keys) + 1 /\ 1 <= mid + 1
        /\ mid + 2 \in 1 .. Len(keys) + 1 /\ Len(keys) \in 0 .. Len(keys)
        /\ mid + 2 <= Len(keys) + 1
    BY <1>4
  <2>2. (\A i \in 1 .. mid : keys[i] \in K) /\ \A i \in mid + 2 .. Len(keys) : keys[i] \in K
    BY <1>4
  <2>3. left \in Seq(K)
    BY <1>1, <2>1, <2>2, SubSeqFacts
  <2>4. right \in Seq(K)
    BY <1>1, <2>1, <2>2, SubSeqFacts
  <2> QED
    BY <2>3, <2>4
<1>12. /\ leftC \in Seq(own2) /\ Len(leftC) = mid + 1
       /\ \A i \in 1 .. mid + 1 : leftC[i] = children[i]
  <2>1. mid + 1 \in 0 .. Len(children) /\ 1 \in 1 .. Len(children) + 1 /\ 1 <= (mid + 1) + 1
    BY <1>4, <1>6
  <2>2. \A i \in 1 .. mid + 1 : children[i] \in own2
    BY <1>4, <1>6
  <2>3. /\ leftC \in Seq(own2) /\ Len(leftC) = (mid + 1) - 1 + 1
        /\ \A i \in 1 .. (mid + 1) - 1 + 1 : leftC[i] = children[1 + i - 1]
    BY <1>1, <2>1, <2>2, SubSeqFacts
  <2>4. (mid + 1) - 1 + 1 = mid + 1 /\ \A i \in 1 .. mid + 1 : 1 + i - 1 = i
    BY <1>4
  <2> HIDE DEF leftC
  <2> QED
    BY <2>3, <2>4
<1>13. /\ rightC \in Seq(own2) /\ Len(rightC) = n - mid
       /\ \A i \in 1 .. n - mid : rightC[i] = children[mid + 1 + i]
  <2>1. /\ mid + 2 \in 1 .. Len(children) + 1 /\ Len(children) \in 0 .. Len(children)
        /\ mid + 2 <= Len(children) + 1
    BY <1>4, <1>6
  <2>2. \A i \in mid + 2 .. Len(children) : children[i] \in own2
    BY <1>4, <1>6
  <2>3. /\ rightC \in Seq(own2) /\ Len(rightC) = Len(children) - (mid + 2) + 1
        /\ \A i \in 1 .. Len(children) - (mid + 2) + 1 : rightC[i] = children[mid + 2 + i - 1]
    BY <1>1, <2>1, <2>2, SubSeqFacts
  <2>4. Len(children) - (mid + 2) + 1 = n - mid
        /\ \A i \in 1 .. n - mid : mid + 2 + i - 1 = mid + 1 + i
    BY <1>4, <1>6
  <2> HIDE DEF rightC
  <2> QED
    BY <2>3, <2>4
<1>14. /\ after[p] = Internal(left, leftC) /\ after[r] = Internal(right, rightC)
       /\ \A q \in own \ {p} : after[q] = file[q]
  BY DEF HalvesInner
<1> HIDE DEF left, right, leftC, rightC, n
<1>15. ASSUME NEW i \in 1 .. n + 1
       PROVE  /\ children[i] \in own \ {p} /\ rng2[children[i]] # {}
              /\ seen2[children[i]] = Below(rng[p], keys, i)
              /\ lvl2[children[i]] = lvl[p] - 1
  <2>1. children[i] # p
    BY <1>3, <1>5, <1>6
  <2>2. rng[children[i]] # {}
    BY <1>1, <1>6, <2>1 DEF PageOK
  <2> QED
    BY <1>6, <1>7, <1>8, <1>9, <2>1, <2>2
<1>16. /\ rng2[p] # {} /\ InnerOK(K, own2, after[p])
       /\ Slotted(own2, seen2, lvl2, rng2[p], lvl2[p], after[p].keys, after[p].children)
  <2>1. after[p].keys = left /\ after[p].children = leftC
    BY <1>14 DEF Internal
  <2>2. rng2[p] # {}
    <3>1. 1 \in 1 .. n + 1 /\ 1 \in 1 .. mid + 1
      BY <1>4
    <3>2. rng[children[1]] # {} /\ rng[children[1]] = Below(rng2[p], left, 1)
      BY <1>6, <1>7, <1>10, <1>15, <3>1
    <3> QED
      BY <3>2 DEF Below
  <2>3. InnerOK(K, own2, after[p])
    BY <1>4, <1>10, <1>11, <1>12, <1>14, <2>1 DEF InnerOK
  <2>4. \A i \in 1 .. mid + 1 : i \in 1 .. n + 1
    BY <1>4
  <2>5. Slotted(own2, seen2, lvl2, rng2[p], lvl2[p], left, leftC)
    BY <1>1, <1>8, <1>10, <1>12, <1>15, <2>4 DEF Slotted
  <2> QED
    BY <2>1, <2>2, <2>3, <2>5
<1>17. /\ rng2[r] # {} /\ InnerOK(K, own2, after[r])
       /\ Slotted(own2, seen2, lvl2, rng2[r], lvl2[r], after[r].keys, after[r].children)
  <2>1. after[r].keys = right /\ after[r].children = rightC
    BY <1>14 DEF Internal
  <2>2. \A i \in 1 .. n - mid : mid + 1 + i \in 1 .. n + 1
    BY <1>4
  <2>3. rng2[r] # {}
    <3>1. 1 \in 1 .. n - mid
      BY <1>4
    <3>2. mid + 1 + 1 \in 1 .. n + 1
      BY <2>2, <3>1
    <3>3. rng2[children[mid + 1 + 1]] # {}
      BY <1>15, <3>2
    <3>4. rng2[children[mid + 1 + 1]] = Below(rng2[r], right, 1)
      <4>1. Below(rng2[r], right, 1) = Below(rng[p], keys, mid + 1 + 1)
        BY <1>10, <3>1
      <4> QED
        BY <1>6, <1>7, <1>15, <3>2, <4>1
    <3> QED
      BY <3>3, <3>4 DEF Below
  <2>4. InnerOK(K, own2, after[r])
    <3>1. Len(rightC) = Len(right) + 1
      BY <1>4, <1>10, <1>13
    <3> QED
      BY <1>4, <1>10, <1>11, <1>13, <1>14, <2>1, <3>1 DEF InnerOK
  <2>5. Slotted(own2, seen2, lvl2, rng2[r], lvl2[r], right, rightC)
    <3>1. Len(rightC) = Len(right) + 1 /\ Len(rightC) = n - mid
      BY <1>4, <1>10, <1>13
    <3>2. ASSUME NEW i \in 1 .. n - mid
          PROVE  /\ rightC[i] \in own2 /\ lvl2[rightC[i]] = lvl2[r] - 1
                 /\ seen2[rightC[i]] = Below(rng2[r], right, i)
      <4>1. mid + 1 + i \in 1 .. n + 1 /\ rightC[i] = children[mid + 1 + i]
        BY <1>13, <2>2
      <4>2. Below(rng2[r], right, i) = Below(rng[p], keys, mid + 1 + i)
        BY <1>10
      <4> QED
        BY <1>8, <1>15, <4>1, <4>2
    <3> QED
      BY <3>1, <3>2 DEF Slotted
  <2> QED
    BY <2>1, <2>3, <2>4, <2>5
<1>18. ASSUME NEW u \in own2
       PROVE  PageOK(K, V, own2, rng2, seen2, lvl2, u, after[u])
  <2>1. CASE u = p
    BY <1>1, <1>8, <1>16, <2>1 DEF PageOK
  <2>2. CASE u = r
    BY <1>1, <1>8, <1>17, <2>2 DEF PageOK
  <2>3. CASE u \notin {p, r}
    <3>1. u \in own \ {p} /\ after[u] = file[u] /\ rng2[u] = rng[u] /\ lvl2[u] = lvl[u]
      BY <1>7, <1>8, <1>14, <2>3
    <3>2. PageOK(K, V, own, rng, rng, lvl, u, file[u])
      BY <1>1, <3>1
    <3>3. CASE lvl[u] = 0
      BY <3>1, <3>2, <3>3 DEF PageOK
    <3>4. CASE lvl[u] # 0
      <4>1. InnerOK(K, own, file[u])
            /\ Slotted(own, rng, lvl, rng[u], lvl[u], file[u].keys, file[u].children)
        BY <3>2, <3>4 DEF PageOK
      <4>2. InnerOK(K, own2, file[u])
        BY <4>1, SeqMonotonic DEF InnerOK
      <4>3. Slotted(own2, seen2, lvl2, rng2[u], lvl2[u], file[u].keys, file[u].children)
        BY <1>8, <1>9, <3>1, <4>1 DEF Slotted
      <4> QED
        BY <3>1, <3>2, <3>4, <4>2, <4>3 DEF PageOK
    <3> QED
      BY <3>3, <3>4
  <2> QED
    BY <2>1, <2>2, <2>3
<1>19. Apart(own2, rng2, lvl2)
  <2>1. \A q \in own : rng2[q] \subseteq rng[q]
    BY <1>7
  <2>2. rng2[r] \subseteq rng[p]
    BY <1>7
  <2>3. ASSUME NEW u \in own, lvl2[u] = lvl2[r]
        PROVE  rng2[u] \cap rng2[r] = {}
    <3>1. CASE u = p
      BY <1>5, <1>7, <3>1
    <3>2. CASE u # p
      <4>1. lvl[u] = lvl[p]
        BY <1>1, <1>8, <2>3
      <4>2. rng[u] \cap rng[p] = {}
        BY <1>1, <3>2, <4>1 DEF Apart
      <4> QED
        BY <2>1, <2>2, <4>2
    <3> QED
      BY <3>1, <3>2
  <2>4. ASSUME NEW u \in own, NEW v \in own, u # v, lvl2[u] = lvl2[v]
        PROVE  rng2[u] \cap rng2[v] = {}
    <3>1. rng[u] \cap rng[v] = {}
      BY <1>1, <1>8, <2>4 DEF Apart
    <3> QED
      BY <2>1, <3>1
  <2> QED
    BY <2>3, <2>4 DEF Apart
<1>20. Parented(after, own2, {root, r}, lvl2)
  <2> SUFFICES ASSUME NEW c \in own \ {root}
               PROVE  \E u \in own2 : /\ lvl2[u] > 0
                                      /\ \E i \in 1 .. Len(after[u].children) : after[u].children[i] = c
    BY DEF Parented
  <2>1. CASE \E i \in 1 .. Len(children) : children[i] = c
    <3>1. PICK i \in 1 .. n + 1 : children[i] = c
      BY <1>6, <2>1
    <3>2. CASE i <= mid + 1
      <4>0. i \in 1 .. mid + 1
        BY <1>4, <3>2
      <4>1. i \in 1 .. mid + 1 /\ after[p].children = leftC /\ Len(leftC) = mid + 1 /\ leftC[i] = c
        BY <1>12, <1>14, <3>1, <4>0 DEF Internal
      <4> QED
        BY <1>1, <1>8, <4>1
    <3>3. CASE i > mid + 1
      <4>1. i - (mid + 1) \in 1 .. n - mid /\ mid + 1 + (i - (mid + 1)) = i
        BY <1>4, <3>3
      <4>2. after[r].children = rightC /\ Len(rightC) = n - mid
        BY <1>13, <1>14 DEF Internal
      <4>3. rightC[i - (mid + 1)] = c
        BY <1>13, <3>1, <4>1
      <4> QED
        BY <1>1, <1>8, <4>1, <4>2, <4>3
    <3> QED
      BY <1>4, <3>2, <3>3
  <2>2. CASE \E u \in own \ {p} :
               lvl[u] > 0 /\ \E i \in 1 .. Len(file[u].children) : file[u].children[i] = c
    BY <1>8, <1>14, <2>2
  <2> QED
    BY <1>2, <2>1, <2>2
<1>21. Chained(after, own2, rng2, lvl2, chain)
  <2>1. chain \in Seq(own2)
    BY <1>1, SeqMonotonic DEF Chained
  <2>2. \A i \in 1 .. Len(chain) : chain[i] \in own \ {p}
    BY <1>1, ElementOfSeq DEF Chained
  <2>3. \A i \in 1 .. Len(chain) :
          /\ after[chain[i]] = file[chain[i]] /\ rng2[chain[i]] = rng[chain[i]]
          /\ lvl2[chain[i]] = lvl[chain[i]]
    BY <1>7, <1>8, <1>14, <2>2
  <2>4. \A u \in own2 : lvl2[u] = 0 => u \in own /\ lvl[u] = 0
    BY <1>1, <1>8
  <2> QED
    BY <1>1, <2>1, <2>3, <2>4 DEF Chained
<1>22. Typed(K, own2, root, rng2, seen2, lvl2)
  BY <1>3, <1>7, <1>8, <1>9 DEF Typed
<1>23. Forest(K, V, after, own2, root, {root, r}, rng2, seen2, lvl2, chain)
  BY <1>1, <1>18, <1>19, <1>20, <1>21, <1>22 DEF Forest
<1>24. Pending(K, V, after, own2, root, p, sep, r, rng2, lvl2, chain)
  <2>1. Forest(K, V, after, own2, root, {root, r}, rng2, Seen(rng2, p, r), lvl2, chain)
    BY <1>23 DEF seen2
  <2>2. /\ p \in own2 /\ r \in own2 /\ p # r /\ r # root /\ lvl2[r] = lvl2[p]
        /\ sep \in K /\ (\A x \in rng2[p] : x < sep) /\ (\A x \in rng2[r] : sep <= x)
    BY <1>1, <1>3, <1>5, <1>7, <1>8
  <2> QED
    BY <2>1, <2>2 DEF Pending
<1>25. Held(after, own2) = Held(file, own)
  <2>1. ToSet(EntriesOf(after[p])) = {} /\ ToSet(EntriesOf(after[r])) = {}
    BY <1>16, <1>17, InnerFacts
  <2> QED
    BY <1>14, <2>1 DEF Held
<1>26. /\ Pending(K, V, after, own \cup {r}, root, p, sep, r, rng2, lvl2, chain)
       /\ SameLevels(own, lvl, lvl2)
       /\ Held(after, own \cup {r}) = Held(file, own)
  BY <1>8, <1>24, <1>25 DEF SameLevels
<1> QED
  BY <1>26

\* The root was split: a new root goes above both halves.
GetsRoot(K, V, file, own, root, sep, q, rng, lvl, chain, top, after) ==
    /\ Pending(K, V, file, own, root, root, sep, q, rng, lvl, chain)
    /\ top \in PageId \ {0} /\ top \notin own
    /\ after[top] = Internal(<<sep>>, <<root, q>>)
    /\ \A u \in own : after[u] = file[u]

\* With a new root the tree is whole again.
LEMMA RootGrows ==
    ASSUME NEW K, NEW V, NEW file, NEW own, NEW root, NEW sep, NEW q, NEW rng, NEW lvl, NEW chain,
           NEW top, NEW after,
           GetsRoot(K, V, file, own, root, sep, q, rng, lvl, chain, top, after)
    PROVE  /\ \E rng2, lvl2 : Tree(K, V, after, own \cup {top}, top, rng2, lvl2, chain)
           /\ Held(after, own \cup {top}) = Held(file, own)
<1> USE DEF GetsRoot
<1> DEFINE own2 == own \cup {top}
           rng2 == [rng EXCEPT ![top] = K]
           lvl2 == [lvl EXCEPT ![top] = lvl[root] + 1]
           seen == Seen(rng, root, q)
           keys == <<sep>>
           children == <<root, q>>
<1>1. /\ Forest(K, V, file, own, root, {root, q}, rng, seen, lvl, chain)
      /\ root \in own /\ q \in own /\ root # q /\ lvl[q] = lvl[root]
      /\ sep \in K /\ (\A x \in rng[root] : x < sep) /\ (\A x \in rng[q] : sep <= x)
  BY DEF Pending
<1>2. /\ K \subseteq Int /\ Typed(K, own, root, rng, seen, lvl) /\ Apart(own, rng, lvl)
      /\ \A u \in own : PageOK(K, V, own, rng, seen, lvl, u, file[u])
      /\ Parented(file, own, {root, q}, lvl) /\ Chained(file, own, rng, lvl, chain)
  BY <1>1 DEF Forest
<1>3. /\ own \subseteq PageId \ {0} /\ root \in own /\ rng \in [PageId -> SUBSET K]
      /\ seen[root] = K /\ lvl \in [PageId -> Nat] /\ \A u \in PageId : lvl[u] <= lvl[root]
  BY <1>2 DEF Typed
<1>4. rng[root] \cup rng[q] = K /\ \A u \in own : u # root => seen[u] = rng[u]
  BY <1>1, <1>3 DEF Seen
<1> HIDE DEF seen
<1>5. /\ rng2 \in [PageId -> SUBSET K] /\ rng2[top] = K /\ \A u \in own : rng2[u] = rng[u]
  BY <1>3
<1>6. /\ lvl2 \in [PageId -> Nat] /\ lvl2[top] = lvl[root] + 1
      /\ \A u \in own : lvl2[u] = lvl[u]
      /\ \A u \in PageId : lvl2[u] <= lvl2[top]
  <2>1. lvl[root] \in Nat /\ \A u \in PageId : lvl[u] \in Nat
    BY <1>3
  <2> QED
    BY <1>3, <2>1
<1> HIDE DEF rng2, lvl2
<1>7. /\ rng[root] # {} /\ rng[q] # {} /\ K # {} /\ rng[root] \subseteq Int /\ rng[q] \subseteq Int
      /\ sep \in Int
  BY <1>1, <1>2, <1>3 DEF PageOK
<1>8. /\ keys \in Seq(K) /\ Len(keys) = 1 /\ keys[1] = sep /\ children \in Seq(own2)
      /\ Len(children) = 2 /\ children[1] = root /\ children[2] = q
  BY <1>1
<1>9. /\ after[top] = Internal(keys, children) /\ after[top].keys = keys
      /\ after[top].children = children /\ after[top].type = "internal"
  BY DEF Internal
<1> HIDE DEF keys, children
<1>10. InnerOK(K, own2, after[top])
  <2>1. Len(keys) \in 1 .. MAX_INTERNAL_KEYS
    BY <1>8, FanoutAssumption
  <2>2. Ascending(keys)
    BY <1>8 DEF Ascending
  <2> QED
    <3>1. after[top] = Internal(after[top].keys, after[top].children)
      BY <1>9
    <3>2. Len(children) = Len(keys) + 1
      BY <1>8
    <3> QED
      BY <1>8, <1>9, <2>1, <2>2, <3>1, <3>2 DEF InnerOK
<1>11. Below(K, keys, 1) = rng[root] /\ Below(K, keys, 2) = rng[q]
  <2>1. Below(K, keys, 1) = {x \in K : x < sep}
    BY <1>8 DEF Below, InSlot
  <2>2. Below(K, keys, 2) = {x \in K : sep <= x}
    BY <1>8 DEF Below, InSlot
  <2>3. {x \in K : x < sep} = rng[root]
    BY <1>1, <1>2, <1>4, <1>7
  <2>4. {x \in K : sep <= x} = rng[q]
    BY <1>1, <1>2, <1>4, <1>7
  <2> QED
    BY <2>1, <2>2, <2>3, <2>4
<1>12. Slotted(own2, rng2, lvl2, rng2[top], lvl2[top], after[top].keys, after[top].children)
  <2>1. lvl[root] \in Nat /\ lvl2[top] - 1 = lvl[root]
    BY <1>3, <1>6
  <2>2. \A i \in 1 .. 2 :
          /\ children[i] \in own2 /\ lvl2[children[i]] = lvl2[top] - 1
          /\ rng2[children[i]] = Below(K, keys, i)
    BY <1>1, <1>5, <1>6, <1>8, <1>11, <2>1
  <2>3. Slotted(own2, rng2, lvl2, K, lvl2[top], keys, children)
    BY <1>8, <2>2 DEF Slotted
  <2> QED
    BY <1>5, <1>9, <2>3
<1>13. ASSUME NEW u \in own2
       PROVE  PageOK(K, V, own2, rng2, rng2, lvl2, u, after[u])
  <2>1. CASE u = top
    <3>1. lvl2[top] > 0
      BY <1>3, <1>6
    <3> QED
      BY <1>5, <1>7, <1>10, <1>12, <2>1, <3>1 DEF PageOK
  <2>2. CASE u # top
    <3>1. u \in own /\ after[u] = file[u] /\ rng2[u] = rng[u] /\ lvl2[u] = lvl[u]
      BY <1>5, <1>6, <2>2
    <3>2. PageOK(K, V, own, rng, seen, lvl, u, file[u])
      BY <1>2, <3>1
    <3>3. CASE lvl[u] = 0
      BY <3>1, <3>2, <3>3 DEF PageOK
    <3>4. CASE lvl[u] # 0
      <4>1. InnerOK(K, own, file[u])
            /\ Slotted(own, seen, lvl, rng[u], lvl[u], file[u].keys, file[u].children)
        BY <3>2, <3>4 DEF PageOK
      <4>2. InnerOK(K, own2, file[u])
        BY <4>1, SeqMonotonic DEF InnerOK
      <4>3. ASSUME NEW i \in 1 .. Len(file[u].children)
            PROVE  file[u].children[i] \in own /\ file[u].children[i] # root
        <5>1. file[u].children[i] \in own /\ lvl[file[u].children[i]] = lvl[u] - 1
          BY <4>1 DEF Slotted
        <5>2. lvl[u] \in Nat /\ lvl[u] <= lvl[root] /\ lvl[root] \in Nat
          BY <1>3, <3>1
        <5> QED
          BY <5>1, <5>2
      <4>4. ASSUME NEW i \in 1 .. Len(file[u].children)
            PROVE  /\ file[u].children[i] \in own2 /\ lvl2[file[u].children[i]] = lvl[u] - 1
                   /\ rng2[file[u].children[i]] = Below(rng[u], file[u].keys, i)
        BY <1>4, <1>5, <1>6, <4>1, <4>3 DEF Slotted
      <4>5. Slotted(own2, rng2, lvl2, rng2[u], lvl2[u], file[u].keys, file[u].children)
        BY <3>1, <4>1, <4>4 DEF Slotted
      <4> QED
        BY <3>1, <3>2, <3>4, <4>2, <4>5 DEF PageOK
    <3> QED
      BY <3>3, <3>4
  <2> QED
    BY <2>1, <2>2
<1>14. Apart(own2, rng2, lvl2)
  <2>1. \A u \in own : lvl2[u] # lvl2[top]
    <3>1. \A u \in own : lvl[u] \in Nat /\ lvl[u] <= lvl[root] /\ lvl[root] \in Nat
      BY <1>3
    <3> QED
      BY <1>6, <3>1
  <2>2. ASSUME NEW u \in own, NEW v \in own, u # v, lvl2[u] = lvl2[v]
        PROVE  rng2[u] \cap rng2[v] = {}
    BY <1>2, <1>5, <1>6, <2>2 DEF Apart
  <2> QED
    BY <2>1, <2>2 DEF Apart
<1>15. Parented(after, own2, {top}, lvl2)
  <2> SUFFICES ASSUME NEW c \in own
               PROVE  \E u \in own2 : /\ lvl2[u] > 0
                                      /\ \E i \in 1 .. Len(after[u].children) : after[u].children[i] = c
    BY DEF Parented
  <2>1. CASE c \in {root, q}
    <3>1. lvl2[top] > 0 /\ 1 \in 1 .. Len(children) /\ 2 \in 1 .. Len(children)
      BY <1>3, <1>6, <1>8
    <3> QED
      BY <1>8, <1>9, <2>1, <3>1
  <2>2. CASE c \notin {root, q}
    <3>1. PICK u \in own :
            lvl[u] > 0 /\ \E i \in 1 .. Len(file[u].children) : file[u].children[i] = c
      BY <1>2, <2>2 DEF Parented
    <3>2. after[u] = file[u] /\ lvl2[u] = lvl[u]
      BY <1>6
    <3> QED
      BY <3>1, <3>2
  <2> QED
    BY <2>1, <2>2
<1>16. Chained(after, own2, rng2, lvl2, chain)
  <2>1. chain \in Seq(own2)
    BY <1>2, SeqMonotonic DEF Chained
  <2>2. \A i \in 1 .. Len(chain) : chain[i] \in own
    BY <1>2, ElementOfSeq DEF Chained
  <2>3. \A i \in 1 .. Len(chain) :
          /\ after[chain[i]] = file[chain[i]] /\ rng2[chain[i]] = rng[chain[i]]
          /\ lvl2[chain[i]] = lvl[chain[i]]
    BY <1>5, <1>6, <2>2
  <2>4. \A u \in own2 : lvl2[u] = 0 => u \in own /\ lvl[u] = 0
    BY <1>3, <1>6
  <2> QED
    BY <1>2, <2>1, <2>3, <2>4 DEF Chained
<1>17. Typed(K, own2, top, rng2, rng2, lvl2)
  BY <1>3, <1>5, <1>6 DEF Typed
<1>18. Tree(K, V, after, own2, top, rng2, lvl2, chain)
  BY <1>2, <1>13, <1>14, <1>15, <1>16, <1>17 DEF Tree, Forest
<1>19. Held(after, own2) = Held(file, own)
  <2>1. ToSet(EntriesOf(after[top])) = {}
    BY <1>9 DEF EntriesOf, ToSet
  <2> QED
    BY <2>1 DEF Held
<1> QED
  BY <1>18, <1>19

-----------------------------------------------------------------------------
(* A tree in a file.                                                       *)

\* The pages of a tree: those it began with, and what was allocated from page
\* base.from on.
Own(base, h) == base.pages \cup (base.from .. h.num_pages - 1)

Based(base, h) ==
    base.from \in 1 .. h.num_pages /\ base.pages \subseteq 1 .. base.from - 1

\* All leaves can be read, those of other trees too.
Readable(file) == \E E : \A q \in PageId : EntriesOf(file[q]) \in Seq(E)

\* The tree has its pages to itself, and what is on the others does not keep a
\* recursion over pages from ending.
Stands(base, K, V, s, root, rng, lvl, chain) ==
    /\ GoodStore(s)
    /\ Based(base, s.hdr)
    /\ Grounded(s.file) /\ Linked(s.file) /\ Readable(s.file)
    /\ Tree(K, V, s.file, Own(base, s.hdr), root, rng, lvl, chain)

\* The store t differs from s in pages of the tree only, some of them new.
Spares(base, s, t) ==
    /\ s.hdr.num_pages <= t.hdr.num_pages
    /\ \A q \in PageId \ {0} : q \notin Own(base, t.hdr) => t.file[q] = s.file[q]

\* The pages of a tree are pages the header counts.
LEMMA OwnFacts ==
    ASSUME NEW base, NEW h, Based(base, h), h.num_pages \in 1 .. MaxPages
    PROVE  /\ Own(base, h) \subseteq PageId \ {0}
           /\ Own(base, h) \subseteq 1 .. h.num_pages - 1
<1>1. MaxPages \in Nat
  BY MaxPagesAssumption
<1>2. Own(base, h) \subseteq 1 .. h.num_pages - 1
  BY <1>1 DEF Own, Based
<1>3. 1 .. h.num_pages - 1 \subseteq PageId \ {0}
  BY <1>1 DEF PageId
<1> QED
  BY <1>2, <1>3

\* What every proof about a tree uses of its pages.
LEMMA StandsPages ==
    ASSUME NEW base, NEW K, NEW V, NEW s, NEW root, NEW rng, NEW lvl, NEW chain,
           Stands(base, K, V, s, root, rng, lvl, chain)
    PROVE  /\ s.hdr.num_pages \in 1 .. MaxPages /\ MaxPages \in Nat
           /\ Own(base, s.hdr) \subseteq PageId \ {0}
           /\ Own(base, s.hdr) \subseteq 1 .. s.hdr.num_pages - 1
           /\ Grounded(s.file) /\ Linked(s.file)
           /\ \A p \in Own(base, s.hdr) : PageOK(K, V, Own(base, s.hdr), rng, rng, lvl, p, s.file[p])
           /\ K \subseteq Int /\ rng \in [PageId -> SUBSET K] /\ rng[root] = K
           /\ lvl \in [PageId -> Nat] /\ (\A p \in PageId : lvl[p] <= lvl[root])
           /\ root \in Own(base, s.hdr)
<1>1. s.hdr.num_pages \in 1 .. MaxPages /\ MaxPages \in Nat /\ Based(base, s.hdr)
  BY MaxPagesAssumption DEF Stands, GoodStore, GoodHeader
<1>2. /\ Own(base, s.hdr) \subseteq PageId \ {0}
      /\ Own(base, s.hdr) \subseteq 1 .. s.hdr.num_pages - 1
  BY <1>1, OwnFacts
<1> QED
  BY <1>1, <1>2 DEF Stands, Tree, Forest, Typed

-----------------------------------------------------------------------------
(* Descents.                                                               *)

\* A path from p down to a leaf, one level at each step.
DownFrom(own, lvl, p, path) ==
    /\ path \in Seq(own) /\ Len(path) = lvl[p] + 1
    /\ path[1] = p
    /\ \A i \in 1 .. Len(path) : path[i] \in own /\ lvl[path[i]] = Len(path) - i

\* The path keeps to the pages whose keys k is among.
Follows(file, k, rng, path) ==
    /\ \A i \in 1 .. Len(path) : k \in rng[path[i]]
    /\ \A i \in 1 .. Len(path) - 1 :
         LET at == ChildIndex(file[path[i]].keys, k)
         IN  at \in 1 .. Len(file[path[i]].children) /\ file[path[i]].children[at] = path[i + 1]

\* The sequence path is rest with one element before it.
OneMore(rest, path) ==
    /\ Len(path) = Len(rest) + 1
    /\ \A i \in 1 .. Len(rest) : path[i + 1] = rest[i]
    /\ \A i \in 2 .. Len(path) : i - 1 \in 1 .. Len(rest) /\ path[i] = rest[i - 1]

\* A path down from a child is one down from its parent.
LEMMA DownStep ==
    ASSUME NEW own, NEW lvl, NEW p \in own, lvl[p] \in Nat, NEW c, NEW rest,
           DownFrom(own, lvl, c, rest), lvl[c] = lvl[p] - 1,
           NEW path, path = <<p>> \o rest
    PROVE  DownFrom(own, lvl, p, path) /\ OneMore(rest, path)
<1> USE DEF DownFrom
<1>1. rest \in Seq(own) /\ Len(rest) = lvl[p] /\ Len(rest) \in Nat
  BY LenProperties
<1>2. <<p>> \in Seq(own) /\ Len(<<p>>) = 1 /\ <<p>>[1] = p
  OBVIOUS
<1>3. /\ path \in Seq(own) /\ Len(path) = Len(rest) + 1 /\ path[1] = p
      /\ \A i \in 2 .. Len(rest) + 1 : path[i] = rest[i - 1]
  <2>1. /\ path \in Seq(own) /\ Len(path) = 1 + Len(rest)
        /\ \A i \in 1 .. 1 + Len(rest) : path[i] = IF i <= 1 THEN <<p>>[i] ELSE rest[i - 1]
    BY <1>1, <1>2, ConcatProperties
  <2>2. 1 \in 1 .. 1 + Len(rest) /\ \A i \in 2 .. Len(rest) + 1 : i \in 1 .. 1 + Len(rest) /\ ~(i <= 1)
    BY <1>1
  <2> QED
    BY <1>1, <1>2, <2>1, <2>2
<1>4. \A i \in 2 .. Len(path) : i - 1 \in 1 .. Len(rest) /\ path[i] = rest[i - 1]
  <2> SUFFICES ASSUME NEW i \in 2 .. Len(rest) + 1
               PROVE  i - 1 \in 1 .. Len(rest) /\ path[i] = rest[i - 1]
    BY <1>3
  <2>1. i - 1 \in 1 .. Len(rest)
    BY <1>1
  <2> QED
    BY <1>3, <2>1
<1>5. \A i \in 1 .. Len(rest) : path[i + 1] = rest[i]
  <2> SUFFICES ASSUME NEW i \in 1 .. Len(rest) PROVE path[i + 1] = rest[i]
    OBVIOUS
  <2>1. i + 1 \in 2 .. Len(rest) + 1 /\ (i + 1) - 1 = i
    BY <1>1
  <2> QED
    BY <1>3, <2>1
<1>6. ASSUME NEW i \in 1 .. Len(path)
      PROVE  path[i] \in own /\ lvl[path[i]] = Len(path) - i
  <2>1. CASE i = 1
    BY <1>1, <1>3, <2>1
  <2>2. CASE i # 1
    <3>1. i \in 2 .. Len(path) /\ i - 1 \in 1 .. Len(rest) /\ path[i] = rest[i - 1]
      BY <1>1, <1>3, <1>4, <2>2
    <3>2. lvl[rest[i - 1]] = Len(rest) - (i - 1) /\ rest[i - 1] \in own
      BY <3>1
    <3> QED
      BY <1>1, <1>3, <3>1, <3>2
  <2> QED
    BY <2>1, <2>2
<1> QED
  BY <1>1, <1>3, <1>4, <1>5, <1>6 DEF OneMore

\* A descent for a key passes the pages that have it, down to a leaf.
LEMMA FindPathFacts ==
    ASSUME NEW base, NEW K, NEW V, NEW s, NEW root, NEW rng, NEW lvl, NEW chain,
           Stands(base, K, V, s, root, rng, lvl, chain),
           NEW k \in K, NEW p \in Own(base, s.hdr), k \in rng[p]
    PROVE  /\ DownFrom(Own(base, s.hdr), lvl, p, FindPath(s.file, p, k))
           /\ Follows(s.file, k, rng, FindPath(s.file, p, k))
<1> DEFINE own == Own(base, s.hdr)
           file == s.file
           Good(q) == /\ DownFrom(own, lvl, q, FindPath(file, q, k))
                      /\ Follows(file, k, rng, FindPath(file, q, k))
           T == {n \in Nat : \A q \in own : lvl[q] = n /\ k \in rng[q] => Good(q)}
<1>1. /\ own \subseteq PageId \ {0} /\ K \subseteq Int /\ Grounded(file)
      /\ \A q \in own : PageOK(K, V, own, rng, rng, lvl, q, file[q])
      /\ lvl \in [PageId -> Nat] /\ k \in Int
  BY StandsPages
<1> HIDE DEF own, file
<1>2. ASSUME NEW n \in Nat, \A m \in Nat : m < n => m \in T
      PROVE  n \in T
  <2> SUFFICES ASSUME NEW q \in own, lvl[q] = n, k \in rng[q]
               PROVE  Good(q)
    OBVIOUS
  <2>1. /\ q \in PageId /\ lvl[q] \in Nat
        /\ FindPath(file, q, k) =
             IF file[q].type = "internal"
             THEN <<q>> \o FindPath(file, file[q].children[ChildIndex(file[q].keys, k)], k)
             ELSE <<q>>
    BY <1>1, FindPathStep
  <2>2. CASE n = 0
    <3>1. file[q].type = "leaf"
      BY <1>1, <2>1, <2>2, PageFacts
    <3>2. FindPath(file, q, k) = <<q>>
      BY <2>1, <3>1
    <3>3. DownFrom(own, lvl, q, <<q>>)
      BY <2>2 DEF DownFrom
    <3>4. Follows(file, k, rng, <<q>>)
      BY DEF Follows
    <3> QED
      BY <3>2, <3>3, <3>4
  <2>3. CASE n # 0
    <3> DEFINE at == ChildIndex(file[q].keys, k)
               c == file[q].children[at]
               rest == FindPath(file, c, k)
               path == FindPath(file, q, k)
    <3>1. /\ InnerOK(K, own, file[q]) /\ file[q].type = "internal"
          /\ Slotted(own, rng, lvl, rng[q], n, file[q].keys, file[q].children)
      BY <1>1, <2>1, <2>3, PageFacts
    <3>2. /\ file[q].keys \in Seq(Int) /\ Ascending(file[q].keys)
          /\ Len(file[q].children) = Len(file[q].keys) + 1
      <4>1. file[q].keys \in Seq(K) /\ Ascending(file[q].keys)
            /\ Len(file[q].children) = Len(file[q].keys) + 1
        BY <3>1 DEF InnerOK
      <4> QED
        BY <1>1, <4>1, SeqMonotonic
    <3>3. at \in 1 .. Len(file[q].children) /\ InSlot(file[q].keys, at, k)
      BY <1>1, <3>2, ChildIndexFacts
    <3> HIDE DEF at
    <3>4. c \in own /\ lvl[c] = n - 1 /\ k \in rng[c]
      BY <3>1, <3>3 DEF Slotted, Below
    <3>5. path = <<q>> \o rest
      BY <2>1, <3>1 DEF at
    <3> HIDE DEF c
    <3>6. n - 1 \in T
      <4> HIDE DEF T
      <4> QED
        BY <1>2, <2>3
    <3>7. DownFrom(own, lvl, c, rest) /\ Follows(file, k, rng, rest)
      BY <3>4, <3>6
    <3>8. file[q].children[at] = c
      BY DEF c
    <3> HIDE DEF rest, path
    <3>9. /\ DownFrom(own, lvl, q, path) /\ Len(path) = Len(rest) + 1 /\ Len(rest) \in Nat
          /\ rest[1] = c /\ Len(rest) >= 1 /\ path[1] = q
          /\ \A i \in 1 .. Len(rest) : path[i + 1] = rest[i]
          /\ \A i \in 2 .. Len(path) : i - 1 \in 1 .. Len(rest) /\ path[i] = rest[i - 1]
      <4>1. DownFrom(own, lvl, q, path) /\ OneMore(rest, path)
        BY <2>1, <3>4, <3>5, <3>7, DownStep
      <4>2. rest \in Seq(own) /\ Len(rest) = lvl[c] + 1 /\ rest[1] = c /\ lvl[c] \in Nat
        BY <1>1, <3>4, <3>7 DEF DownFrom
      <4>3. path[1] = q
        BY <4>1 DEF DownFrom
      <4> QED
        BY <4>1, <4>2, <4>3, LenProperties DEF OneMore
    <3>10. ASSUME NEW i \in 1 .. Len(path)
           PROVE  k \in rng[path[i]]
      <4>1. CASE i = 1
        BY <3>9, <4>1
      <4>2. CASE i # 1
        <5>1. i \in 2 .. Len(path)
          BY <3>9, <4>2
        <5> QED
          BY <3>7, <3>9, <5>1 DEF Follows
      <4> QED
        BY <4>1, <4>2
    <3>11. ASSUME NEW i \in 1 .. Len(path) - 1
           PROVE  LET j == ChildIndex(file[path[i]].keys, k)
                  IN  j \in 1 .. Len(file[path[i]].children) /\ file[path[i]].children[j] = path[i + 1]
      <4>1. CASE i = 1
        <5>1. path[1] = q /\ path[1 + 1] = c
          BY <3>9
        <5> QED
          BY <3>3, <3>8, <4>1, <5>1 DEF at
      <4>2. CASE i # 1
        <5>1. i \in 2 .. Len(path) /\ i - 1 \in 1 .. Len(rest) - 1 /\ i \in 1 .. Len(rest) /\ (i - 1) + 1 = i
          BY <3>9, <4>2
        <5>2. path[i] = rest[i - 1] /\ path[i + 1] = rest[i]
          BY <3>9, <5>1
        <5>3. LET j == ChildIndex(file[rest[i - 1]].keys, k)
              IN  /\ j \in 1 .. Len(file[rest[i - 1]].children)
                  /\ file[rest[i - 1]].children[j] = rest[(i - 1) + 1]
          BY <3>7, <5>1 DEF Follows
        <5> QED
          BY <5>1, <5>2, <5>3
      <4> QED
        BY <4>1, <4>2
    <3>12. Follows(file, k, rng, path)
      BY <3>10, <3>11 DEF Follows
    <3> QED
      BY <3>9, <3>12 DEF path
  <2> QED
    BY <2>2, <2>3
<1>3. T = Nat
  <2> HIDE DEF T
  <2> QED
    BY <1>2, AllNumbers DEF T
<1>4. lvl[p] \in T
  <2> HIDE DEF T
  <2> QED
    BY <1>1, <1>3 DEF own
<1>5. Good(p)
  <2> HIDE DEF Good
  <2> QED
    BY <1>4 DEF own
<1> QED
  BY <1>5 DEF own, file

\* The leftmost leaf has the least keys.
LEMMA LeftmostFacts ==
    ASSUME NEW base, NEW K, NEW V, NEW s, NEW root, NEW rng, NEW lvl, NEW chain,
           Stands(base, K, V, s, root, rng, lvl, chain)
    PROVE  /\ DownFrom(Own(base, s.hdr), lvl, root, LeftmostPath(s.file, root))
           /\ LeftmostLeaf(s.file, root) = chain[1]
<1> DEFINE own == Own(base, s.hdr)
           file == s.file
           Good(q) == LET path == LeftmostPath(file, q)
                          l == path[Len(path)]
                      IN  /\ DownFrom(own, lvl, q, path) /\ rng[l] \subseteq rng[q]
                          /\ \A x \in rng[q], y \in rng[l] : x <= y => x \in rng[l]
           T == {n \in Nat : \A q \in own : lvl[q] = n => Good(q)}
<1>1. /\ own \subseteq PageId \ {0} /\ K \subseteq Int /\ Grounded(file)
      /\ \A q \in own : PageOK(K, V, own, rng, rng, lvl, q, file[q])
      /\ lvl \in [PageId -> Nat] /\ rng \in [PageId -> SUBSET K] /\ rng[root] = K
      /\ root \in own
  BY StandsPages
<1> HIDE DEF own, file
<1>2. ASSUME NEW n \in Nat, \A m \in Nat : m < n => m \in T
      PROVE  n \in T
  <2> SUFFICES ASSUME NEW q \in own, lvl[q] = n
               PROVE  Good(q)
    OBVIOUS
  <2>1. /\ q \in PageId /\ lvl[q] \in Nat
        /\ LeftmostPath(file, q) =
             IF file[q].type = "internal"
             THEN <<q>> \o LeftmostPath(file, file[q].children[1]) ELSE <<q>>
    BY <1>1, LeftmostPathStep
  <2>2. CASE n = 0
    <3>1. file[q].type = "leaf"
      BY <1>1, <2>1, <2>2, PageFacts
    <3>2. LeftmostPath(file, q) = <<q>>
      BY <2>1, <3>1
    <3>3. DownFrom(own, lvl, q, <<q>>)
      BY <2>2 DEF DownFrom
    <3>4. <<q>>[Len(<<q>>)] = q
      OBVIOUS
    <3> QED
      BY <3>2, <3>3, <3>4
  <2>3. CASE n # 0
    <3> DEFINE c == file[q].children[1]
               rest == LeftmostPath(file, c)
               path == LeftmostPath(file, q)
    <3>1. /\ InnerOK(K, own, file[q]) /\ file[q].type = "internal"
          /\ Slotted(own, rng, lvl, rng[q], n, file[q].keys, file[q].children)
      BY <1>1, <2>1, <2>3, PageFacts
    <3>2. /\ file[q].keys \in Seq(K) /\ Len(file[q].keys) \in 1 .. MAX_INTERNAL_KEYS
          /\ 1 \in 1 .. Len(file[q].children) /\ file[q].keys[1] \in Int
      <4>1. /\ file[q].keys \in Seq(K) /\ Len(file[q].keys) \in 1 .. MAX_INTERNAL_KEYS
            /\ Len(file[q].children) = Len(file[q].keys) + 1
        BY <3>1 DEF InnerOK
      <4>2. 1 \in 1 .. Len(file[q].keys)
        BY <4>1
      <4> QED
        <5>1. file[q].keys[1] \in K
          BY <4>1, <4>2, ElementOfSeq
        <5>2. 1 \in 1 .. Len(file[q].children)
          BY <4>1
        <5> QED
          BY <1>1, <4>1, <5>1, <5>2
    <3>3. c \in own /\ lvl[c] = n - 1 /\ rng[c] = {x \in rng[q] : x < file[q].keys[1]}
      <4>1. c \in own /\ lvl[c] = n - 1 /\ rng[c] = Below(rng[q], file[q].keys, 1)
        BY <3>1, <3>2 DEF Slotted
      <4>2. 1 # Len(file[q].keys) + 1
        BY <3>2
      <4> QED
        BY <4>1, <4>2 DEF Below, InSlot
    <3>4. path = <<q>> \o rest
      BY <2>1, <3>1
    <3> HIDE DEF c
    <3>5. n - 1 \in T
      <4> HIDE DEF T
      <4> QED
        BY <1>2, <2>3
    <3> DEFINE l == rest[Len(rest)]
    <3>6. /\ DownFrom(own, lvl, c, rest) /\ rng[l] \subseteq rng[c]
          /\ \A x \in rng[c], y \in rng[l] : x <= y => x \in rng[l]
      BY <3>3, <3>5
    <3> HIDE DEF rest, path
    <3>7. DownFrom(own, lvl, q, path) /\ OneMore(rest, path)
      BY <2>1, <3>3, <3>4, <3>6, DownStep
    <3>8. Len(rest) \in 1 .. Len(rest)
      <4>1. rest \in Seq(own) /\ Len(rest) = lvl[c] + 1 /\ lvl[c] \in Nat
        BY <1>1, <3>3, <3>6 DEF DownFrom
      <4> QED
        BY <4>1, LenProperties
    <3>9. path[Len(path)] = l
      BY <3>7, <3>8 DEF OneMore
    <3>10. rng[q] \subseteq Int
      BY <1>1
    <3>11. ASSUME NEW x \in rng[q], NEW y \in rng[l], x <= y
           PROVE  x \in rng[l]
      <4>1. y \in Int /\ x \in Int /\ y < file[q].keys[1]
        BY <3>3, <3>6, <3>10
      <4>2. x < file[q].keys[1]
        BY <3>2, <3>11, <4>1
      <4> QED
        BY <3>3, <3>6, <3>11, <4>2
    <3>12. rng[l] \subseteq rng[q]
      BY <3>3, <3>6
    <3> QED
      BY <3>7, <3>9, <3>11, <3>12 DEF path
  <2> QED
    BY <2>2, <2>3
<1>3. T = Nat
  <2> HIDE DEF T
  <2> QED
    BY <1>2, AllNumbers DEF T
<1>4. lvl[root] \in T
  <2> HIDE DEF T
  <2> QED
    BY <1>1, <1>3
<1>5. Good(root)
  <2> HIDE DEF Good
  <2> QED
    BY <1>1, <1>4
<1> DEFINE path == LeftmostPath(file, root)
           l == path[Len(path)]
<1>6. /\ DownFrom(own, lvl, root, path) /\ rng[l] \subseteq K
      /\ \A x \in K, y \in rng[l] : x <= y => x \in rng[l]
  BY <1>1, <1>5
<1> HIDE DEF path
<1>7. l \in own /\ lvl[l] = 0
  <2>1. path \in Seq(own) /\ Len(path) = lvl[root] + 1 /\ lvl[root] \in Nat
    BY <1>1, <1>6 DEF DownFrom
  <2>2. Len(path) \in 1 .. Len(path)
    BY <2>1
  <2> QED
    <3>1. lvl[path[Len(path)]] = Len(path) - Len(path) /\ path[Len(path)] \in own
      BY <1>6, <2>2 DEF DownFrom
    <3>2. Len(path) - Len(path) = 0
      BY <2>1
    <3> QED
      BY <3>1, <3>2
<1>8. Chained(file, own, rng, lvl, chain) /\ Apart(own, rng, lvl)
  BY DEF Stands, Tree, Forest, own, file
<1>9. PICK i \in 1 .. Len(chain) : chain[i] = l
  BY <1>7, <1>8 DEF Chained
<1>10. i = 1
  <2> SUFFICES ASSUME i # 1 PROVE FALSE
    OBVIOUS
  <2>1. 1 \in 1 .. Len(chain) /\ 1 < i /\ chain[1] \in own /\ lvl[chain[1]] = 0
    <3>1. chain \in Seq(own) /\ Len(chain) >= 1 /\ Len(chain) \in Nat
      BY <1>8, LenProperties DEF Chained
    <3>2. 1 \in 1 .. Len(chain)
      BY <3>1
    <3> QED
      BY <1>8, <3>1, <3>2, ElementOfSeq DEF Chained
  <2>2. PICK x \in rng[chain[1]] : x \in K
    BY <1>1, <2>1 DEF PageOK
  <2>3. PICK y \in rng[l] : y \in K
    BY <1>1, <1>7 DEF PageOK
  <2>4. x < y
    BY <1>8, <1>9, <2>1 DEF Chained
  <2>5. x \in rng[l]
    <3>1. x \in Int /\ y \in Int /\ x <= y
      BY <1>1, <2>2, <2>3, <2>4
    <3> QED
      BY <1>6, <2>2, <3>1
  <2>6. x < x
    BY <1>8, <1>9, <2>1, <2>5 DEF Chained
  <2> QED
    BY <1>1, <2>2, <2>6
<1> QED
  BY <1>6, <1>9, <1>10 DEF own, file, path, LeftmostLeaf, Last

-----------------------------------------------------------------------------
(* Scans.                                                                  *)

\* An element before a sequence.
LEMMA OneMoreFacts ==
    ASSUME NEW S, NEW p \in S, NEW rest \in Seq(S)
    PROVE  <<p>> \o rest \in Seq(S) /\ (<<p>> \o rest)[1] = p /\ OneMore(rest, <<p>> \o rest)
<1> DEFINE path == <<p>> \o rest
<1>1. Len(rest) \in Nat
  BY LenProperties
<1>2. <<p>> \in Seq(S) /\ Len(<<p>>) = 1 /\ <<p>>[1] = p
  OBVIOUS
<1>3. /\ path \in Seq(S) /\ Len(path) = 1 + Len(rest)
      /\ \A i \in 1 .. 1 + Len(rest) : path[i] = IF i <= 1 THEN <<p>>[i] ELSE rest[i - 1]
  BY <1>2, ConcatProperties
<1> HIDE DEF path
<1>4. path[1] = p /\ Len(path) = Len(rest) + 1
  BY <1>1, <1>2, <1>3
<1>5. \A i \in 2 .. Len(path) : i - 1 \in 1 .. Len(rest) /\ path[i] = rest[i - 1]
  <2> SUFFICES ASSUME NEW i \in 2 .. Len(rest) + 1
               PROVE  i - 1 \in 1 .. Len(rest) /\ path[i] = rest[i - 1]
    BY <1>4
  <2>1. i - 1 \in 1 .. Len(rest) /\ i \in 1 .. 1 + Len(rest) /\ ~(i <= 1)
    BY <1>1
  <2> QED
    BY <1>3, <2>1
<1>6. \A i \in 1 .. Len(rest) : path[i + 1] = rest[i]
  <2> SUFFICES ASSUME NEW i \in 1 .. Len(rest) PROVE path[i + 1] = rest[i]
    OBVIOUS
  <2>1. i + 1 \in 2 .. Len(path) /\ (i + 1) - 1 = i
    BY <1>1, <1>4
  <2> QED
    BY <1>5, <2>1
<1> QED
  BY <1>3, <1>4, <1>5, <1>6 DEF OneMore, path

\* Ascending entries behind lower ones.
LEMMA ConcatAscends ==
    ASSUME NEW S, \A e \in S : e.key \in Int, NEW a \in Seq(S), NEW b \in Seq(S),
           KeysAscend(a), KeysAscend(b), \A x \in ToSet(a), y \in ToSet(b) : x.key < y.key
    PROVE  /\ a \o b \in Seq(S) /\ KeysAscend(a \o b)
           /\ ToSet(a \o b) = ToSet(a) \cup ToSet(b)
<1> DEFINE m == Len(a)
           n == Len(b)
           c == a \o b
<1>1. /\ m \in Nat /\ n \in Nat /\ DOMAIN a = 1 .. m /\ DOMAIN b = 1 .. n
  BY LenProperties
<1>2. /\ c \in Seq(S) /\ Len(c) = m + n
      /\ \A i \in 1 .. m + n : c[i] = IF i <= m THEN a[i] ELSE b[i - m]
  BY ConcatProperties
<1>3. DOMAIN c = 1 .. m + n
  BY <1>2, LenProperties
<1> HIDE DEF c, m, n
<1>4. ASSUME NEW i \in 1 .. m + n
      PROVE  \/ i \in 1 .. m /\ c[i] = a[i]
             \/ i - m \in 1 .. n /\ c[i] = b[i - m] /\ i > m
  BY <1>1, <1>2
<1>5. ASSUME NEW i \in 1 .. m + n, NEW j \in 1 .. m + n, i < j
      PROVE  c[i].key < c[j].key
  <2>1. CASE i \in 1 .. m /\ j \in 1 .. m
    <3>1. c[i] = a[i] /\ c[j] = a[j]
      BY <1>1, <1>2, <2>1
    <3> QED
      BY <1>5, <2>1, <3>1 DEF KeysAscend, m
  <2>2. CASE i \in 1 .. m /\ j \notin 1 .. m
    <3>1. c[i] = a[i] /\ j - m \in 1 .. n /\ c[j] = b[j - m]
      BY <1>1, <1>4, <2>2
    <3>2. a[i] \in ToSet(a) /\ b[j - m] \in ToSet(b)
      BY <1>1, <2>2, <3>1 DEF ToSet
    <3> QED
      BY <3>1, <3>2
  <2>3. CASE i \notin 1 .. m
    <3>1. i - m \in 1 .. n /\ c[i] = b[i - m] /\ j - m \in 1 .. n /\ c[j] = b[j - m]
      BY <1>1, <1>4, <1>5, <2>3
    <3>2. i - m < j - m
      BY <1>1, <1>5
    <3> QED
      BY <3>1, <3>2 DEF KeysAscend, n
  <2> QED
    BY <2>1, <2>2, <2>3
<1>6. ToSet(c) \subseteq ToSet(a) \cup ToSet(b)
  <2> SUFFICES ASSUME NEW i \in 1 .. m + n PROVE c[i] \in ToSet(a) \cup ToSet(b)
    BY <1>3 DEF ToSet
  <2> QED
    BY <1>1, <1>4 DEF ToSet
<1>7. ToSet(a) \subseteq ToSet(c)
  <2> SUFFICES ASSUME NEW i \in 1 .. m PROVE a[i] \in ToSet(c)
    BY <1>1 DEF ToSet
  <2>1. i \in 1 .. m + n /\ c[i] = a[i]
    BY <1>1, <1>2
  <2> QED
    BY <1>3, <2>1 DEF ToSet
<1>8. ToSet(b) \subseteq ToSet(c)
  <2> SUFFICES ASSUME NEW i \in 1 .. n PROVE b[i] \in ToSet(c)
    BY <1>1 DEF ToSet
  <2>1. m + i \in 1 .. m + n /\ ~(m + i <= m) /\ (m + i) - m = i
    BY <1>1
  <2>2. c[m + i] = b[i]
    BY <1>2, <2>1
  <2> QED
    BY <1>3, <2>1, <2>2 DEF ToSet
<1>9. KeysAscend(c)
  BY <1>2, <1>5 DEF KeysAscend
<1> QED
  BY <1>2, <1>6, <1>7, <1>8, <1>9 DEF c

\* The chain is what following the next pointers gives.
LEMMA ChainFacts ==
    ASSUME NEW base, NEW K, NEW V, NEW s, NEW root, NEW rng, NEW lvl, NEW chain,
           Stands(base, K, V, s, root, rng, lvl, chain)
    PROVE  LeafChain(s.file, root) = chain
<1> DEFINE own == Own(base, s.hdr)
           file == s.file
           n == Len(chain)
           Good(i) == LET c == ChainFrom(file, chain[i])
                      IN  /\ c \in Seq(PageId) /\ Len(c) = n - i + 1
                          /\ \A j \in 1 .. n - i + 1 : c[j] = chain[i + j - 1]
           T == {m \in Nat : m < n => Good(n - m)}
<1>1. /\ own \subseteq PageId \ {0} /\ Linked(file)
      /\ \A p \in own : PageOK(K, V, own, rng, rng, lvl, p, file[p]) /\ lvl[p] \in Nat
  BY StandsPages
<1>2. /\ chain \in Seq(own) /\ n \in Nat /\ n >= 1
      /\ \A i \in 1 .. n : chain[i] \in own /\ lvl[chain[i]] = 0
      /\ \A i \in 1 .. n : file[chain[i]].next = IF i = n THEN 0 ELSE chain[i + 1]
  <2>1. Chained(file, own, rng, lvl, chain)
    BY DEF Stands, Tree, Forest
  <2> QED
    BY <2>1, LenProperties, ElementOfSeq DEF Chained
<1> HIDE DEF own, file, n
<1>3. ASSUME NEW i \in 1 .. n
      PROVE  /\ chain[i] \in PageId \ {0}
             /\ NextOf(file[chain[i]]) = IF i = n THEN 0 ELSE chain[i + 1]
             /\ ChainFrom(file, chain[i]) \in Seq(PageId)
             /\ ChainFrom(file, chain[i]) =
                  IF i = n THEN <<chain[i]>> ELSE <<chain[i]>> \o ChainFrom(file, chain[i + 1])
  <2>1. chain[i] \in own /\ lvl[chain[i]] = 0 /\ chain[i] \in PageId \ {0}
    BY <1>1, <1>2
  <2>2. NextOf(file[chain[i]]) = IF i = n THEN 0 ELSE chain[i + 1]
    <3>1. NextOf(file[chain[i]]) = file[chain[i]].next
      BY <1>1, <2>1, PageFacts
    <3> QED
      BY <1>2, <3>1
  <2>3. /\ ChainFrom(file, chain[i]) \in Seq(PageId)
        /\ ChainFrom(file, chain[i]) =
             IF NextOf(file[chain[i]]) = 0 THEN <<chain[i]>>
             ELSE <<chain[i]>> \o ChainFrom(file, NextOf(file[chain[i]]))
    BY <1>1, <2>1, ChainFromStep
  <2>4. CASE i = n
    BY <2>1, <2>2, <2>3, <2>4
  <2>5. CASE i # n
    <3>1. i + 1 \in 1 .. n
      BY <1>2, <2>5
    <3>2. chain[i + 1] # 0
      BY <1>1, <1>2, <3>1
    <3> QED
      BY <2>1, <2>2, <2>3, <2>5, <3>2
  <2> QED
    BY <2>4, <2>5
<1>4. ASSUME NEW m \in Nat, \A l \in Nat : l < m => l \in T
      PROVE  m \in T
  <2> SUFFICES ASSUME m < n PROVE Good(n - m)
    OBVIOUS
  <2>1. PICK i \in 1 .. n : i = n - m
    <3>1. n - m \in 1 .. n
      BY <1>2
    <3> QED
      BY <3>1
  <2> DEFINE c == ChainFrom(file, chain[i])
  <2>2. CASE i = n
    <3>1. c = <<chain[i]>> /\ c \in Seq(PageId)
      BY <1>3, <2>2
    <3>2. Len(c) = n - i + 1 /\ \A j \in 1 .. n - i + 1 : c[j] = chain[i + j - 1]
      <4> HIDE DEF c
      <4>1. Len(c) = 1 /\ c[1] = chain[i] /\ n - i + 1 = 1 /\ i + 1 - 1 = i
        BY <1>2, <2>2, <3>1
      <4> QED
        BY <4>1
    <3> QED
      BY <2>1, <3>1, <3>2
  <2>3. CASE i # n
    <3> DEFINE rest == ChainFrom(file, chain[i + 1])
    <3>1. m - 1 \in Nat /\ m - 1 < n /\ m - 1 < m /\ n - (m - 1) = i + 1 /\ i + 1 \in 1 .. n
      BY <1>2, <2>1, <2>3
    <3>2. m - 1 \in T
      <4> HIDE DEF T
      <4> QED
        BY <1>4, <3>1
    <3>3. /\ rest \in Seq(PageId) /\ Len(rest) = n - (i + 1) + 1
          /\ \A j \in 1 .. n - (i + 1) + 1 : rest[j] = chain[(i + 1) + j - 1]
      BY <3>1, <3>2
    <3>4. c = <<chain[i]>> \o rest /\ chain[i] \in PageId /\ c \in Seq(PageId)
      BY <1>3, <2>3
    <3> HIDE DEF rest, c
    <3>5. c[1] = chain[i] /\ OneMore(rest, c)
      BY <3>3, <3>4, OneMoreFacts
    <3>6. Len(rest) = n - i /\ Len(c) = n - i + 1
      BY <1>2, <3>3, <3>5 DEF OneMore
    <3>7. ASSUME NEW j \in 1 .. n - i + 1
          PROVE  c[j] = chain[i + j - 1]
      <4>1. CASE j = 1
        <5>1. i + j - 1 = i
          BY <1>2, <4>1
        <5> QED
          BY <3>5, <4>1, <5>1
      <4>2. CASE j # 1
        <5>1. j \in 2 .. Len(c) /\ j - 1 \in 1 .. n - (i + 1) + 1 /\ (i + 1) + (j - 1) - 1 = i + j - 1
          BY <1>2, <3>6, <4>2
        <5>2. c[j] = rest[j - 1]
          BY <3>5, <5>1 DEF OneMore
        <5>3. rest[j - 1] = chain[(i + 1) + (j - 1) - 1]
          BY <3>3, <5>1
        <5> QED
          BY <5>1, <5>2, <5>3
      <4> QED
        BY <4>1, <4>2
    <3> QED
      BY <2>1, <3>4, <3>6, <3>7 DEF c
  <2> QED
    BY <2>2, <2>3
<1>5. T = Nat
  <2> HIDE DEF T
  <2> QED
    BY <1>4, AllNumbers DEF T
<1>6. Good(1)
  <2>1. n - 1 \in T /\ n - 1 < n /\ n - (n - 1) = 1
    <3> HIDE DEF T
    <3> QED
      BY <1>2, <1>5
  <2> HIDE DEF Good
  <2> QED
    BY <2>1
<1> DEFINE c == ChainFrom(file, chain[1])
<1>7. c \in Seq(PageId) /\ Len(c) = n /\ \A j \in 1 .. n : c[j] = chain[j]
  <2>1. c \in Seq(PageId) /\ Len(c) = n - 1 + 1 /\ \A j \in 1 .. n - 1 + 1 : c[j] = chain[1 + j - 1]
    BY <1>6
  <2>2. n - 1 + 1 = n /\ \A j \in 1 .. n : 1 + j - 1 = j
    BY <1>2
  <2> HIDE DEF c
  <2> QED
    BY <2>1, <2>2
<1>8. chain \in Seq(PageId)
  <2>1. own \subseteq PageId
    BY <1>1
  <2> QED
    BY <1>2, <2>1, SeqMonotonic
<1>9. c = chain
  <2> HIDE DEF c
  <2> QED
    BY <1>7, <1>8, SeqEqual DEF n
<1>10. LeftmostLeaf(file, root) = chain[1]
  BY LeftmostFacts DEF file
<1> QED
  BY <1>9, <1>10 DEF LeafChain, file

\* The pages of a tree can be read.
LEMMA PagesTyped ==
    ASSUME NEW K, NEW V, NEW file, NEW own, NEW rng, NEW lvl,
           own \subseteq PageId \ {0}, rng \in [PageId -> SUBSET K], lvl \in [PageId -> Nat],
           \A p \in own : PageOK(K, V, own, rng, rng, lvl, p, file[p])
    PROVE  \A q \in own : EntriesOf(file[q]) \in Seq([key : K, value : V])
<1> SUFFICES ASSUME NEW q \in own
             PROVE  EntriesOf(file[q]) \in Seq([key : K, value : V])
  OBVIOUS
<1>1. lvl[q] \in Nat /\ PageOK(K, V, own, rng, rng, lvl, q, file[q])
  OBVIOUS
<1>3. CASE lvl[q] = 0
  <2>1. LeafOK(rng[q], V, file[q]) /\ EntriesOf(file[q]) = file[q].entries
    BY <1>1, <1>3, PageFacts
  <2>2. [key : rng[q], value : V] \subseteq [key : K, value : V]
    BY <1>1
  <2>3. file[q].entries \in Seq([key : rng[q], value : V])
    BY <2>1 DEF LeafOK
  <2> DEFINE A == [key : rng[q], value : V]
             B == [key : K, value : V]
  <2>4. A \subseteq B /\ file[q].entries \in Seq(A)
    BY <2>2, <2>3
  <2> HIDE DEF A, B
  <2>5. file[q].entries \in Seq(B)
    BY <2>4, SeqMonotonic
  <2> QED
    BY <2>1, <2>5 DEF B
<1>4. CASE lvl[q] # 0
  <2>1. file[q].type = "internal"
    BY <1>1, <1>4, PageFacts
  <2> QED
    BY <2>1 DEF EntriesOf
<1> QED
  BY <1>1, <1>3, <1>4

\* Every page of a tree, read as a leaf, has entries of keys and values.
LEMMA EntriesTyped ==
    ASSUME NEW base, NEW K, NEW V, NEW s, NEW root, NEW rng, NEW lvl, NEW chain,
           Stands(base, K, V, s, root, rng, lvl, chain)
    PROVE  \A q \in Own(base, s.hdr) : EntriesOf(s.file[q]) \in Seq([key : K, value : V])
<1>1. /\ Own(base, s.hdr) \subseteq PageId \ {0}
      /\ rng \in [PageId -> SUBSET K] /\ lvl \in [PageId -> Nat]
      /\ \A p \in Own(base, s.hdr) : PageOK(K, V, Own(base, s.hdr), rng, rng, lvl, p, s.file[p])
  BY StandsPages
<1> QED
  BY <1>1, PagesTyped

\* A scan passes every entry of every leaf, and its keys ascend.
LEMMA ScanFacts ==
    ASSUME NEW base, NEW K, NEW V, NEW s, NEW root, NEW rng, NEW lvl, NEW chain,
           Stands(base, K, V, s, root, rng, lvl, chain)
    PROVE  /\ ScanEntries(s.file, root) \in Seq([key : K, value : V])
           /\ KeysAscend(ScanEntries(s.file, root))
           /\ ToSet(ScanEntries(s.file, root)) = Held(s.file, Own(base, s.hdr))
<1> DEFINE own == Own(base, s.hdr)
           file == s.file
           n == Len(chain)
           R == [key : K, value : V]
           E(i) == EntriesFrom(file, chain[i])
           Good(i) == /\ E(i) \in Seq(R) /\ KeysAscend(E(i))
                      /\ \A x \in ToSet(E(i)) :
                           \E j \in i .. n : x \in ToSet(EntriesOf(file[chain[j]]))
                      /\ \A j \in i .. n : ToSet(EntriesOf(file[chain[j]])) \subseteq ToSet(E(i))
           T == {m \in Nat : m < n => Good(n - m)}
<1>1. /\ own \subseteq PageId \ {0} /\ Linked(file) /\ K \subseteq Int
      /\ \A p \in own : PageOK(K, V, own, rng, rng, lvl, p, file[p]) /\ lvl[p] \in Nat
      /\ \A q \in own : EntriesOf(file[q]) \in Seq(R)
      /\ Readable(file)
  <2>1. /\ own \subseteq PageId \ {0} /\ Linked(file) /\ K \subseteq Int
        /\ \A p \in own : PageOK(K, V, own, rng, rng, lvl, p, file[p])
        /\ lvl \in [PageId -> Nat]
    BY StandsPages
  <2>2. \A q \in own : EntriesOf(file[q]) \in Seq(R)
    BY EntriesTyped
  <2>3. Readable(file)
    BY DEF Stands
  <2> HIDE DEF own, file, R
  <2> QED
    BY <2>1, <2>2, <2>3
<1>2. /\ n \in Nat /\ n >= 1
      /\ \A i \in 1 .. n : chain[i] \in own /\ lvl[chain[i]] = 0
      /\ \A i \in 1 .. n : file[chain[i]].next = IF i = n THEN 0 ELSE chain[i + 1]
      /\ \A p \in own : lvl[p] = 0 => \E i \in 1 .. n : chain[i] = p
      /\ \A i, j \in 1 .. n : i < j =>
           \A x \in rng[chain[i]], y \in rng[chain[j]] : x < y
  <2>1. Chained(file, own, rng, lvl, chain)
    BY DEF Stands, Tree, Forest
  <2> QED
    BY <2>1, LenProperties, ElementOfSeq DEF Chained
<1> HIDE DEF own, file, n, R
<1>3. ASSUME NEW i \in 1 .. n
      PROVE  /\ E(i) = IF i = n THEN EntriesOf(file[chain[i]])
                       ELSE EntriesOf(file[chain[i]]) \o E(i + 1)
             /\ EntriesOf(file[chain[i]]) \in Seq(R)
             /\ KeysAscend(EntriesOf(file[chain[i]]))
             /\ \A x \in ToSet(EntriesOf(file[chain[i]])) : x.key \in rng[chain[i]]
  <2>1. chain[i] \in own /\ lvl[chain[i]] = 0 /\ chain[i] \in PageId \ {0}
    BY <1>1, <1>2
  <2>2. /\ LeafOK(rng[chain[i]], V, file[chain[i]])
        /\ EntriesOf(file[chain[i]]) = file[chain[i]].entries
        /\ NextOf(file[chain[i]]) = file[chain[i]].next
    BY <1>1, <2>1, PageFacts
  <2>3. NextOf(file[chain[i]]) = IF i = n THEN 0 ELSE chain[i + 1]
    BY <1>2, <2>2
  <2>4. /\ E(i) = IF NextOf(file[chain[i]]) = 0 THEN EntriesOf(file[chain[i]])
                  ELSE EntriesOf(file[chain[i]]) \o EntriesFrom(file, NextOf(file[chain[i]]))
    <3>1. PICK A : \A q \in PageId : EntriesOf(file[q]) \in Seq(A)
      BY <1>1 DEF Readable
    <3> QED
      BY <1>1, <2>1, <3>1, EntriesFromStep
  <2>5. i # n => chain[i + 1] # 0
    <3>1. i # n => i + 1 \in 1 .. n
      BY <1>2
    <3> QED
      BY <1>1, <1>2, <3>1
  <2>6. KeysAscend(EntriesOf(file[chain[i]])) /\ file[chain[i]].entries \in Seq([key : rng[chain[i]], value : V])
    BY <2>2 DEF LeafOK
  <2>7. \A x \in ToSet(EntriesOf(file[chain[i]])) : x.key \in rng[chain[i]]
    <3> SUFFICES ASSUME NEW x \in ToSet(file[chain[i]].entries)
                 PROVE  x.key \in rng[chain[i]]
      BY <2>2
    <3>1. PICK j \in 1 .. Len(file[chain[i]].entries) : x = file[chain[i]].entries[j]
      BY <2>6, LenProperties DEF ToSet
    <3>2. x \in [key : rng[chain[i]], value : V]
      BY <2>6, <3>1, ElementOfSeq
    <3> QED
      BY <3>2
  <2> QED
    BY <1>1, <2>1, <2>3, <2>4, <2>5, <2>6, <2>7
<1>4. ASSUME NEW m \in Nat, \A l \in Nat : l < m => l \in T
      PROVE  m \in T
  <2> SUFFICES ASSUME m < n PROVE Good(n - m)
    OBVIOUS
  <2>1. PICK i \in 1 .. n : i = n - m
    <3>1. n - m \in 1 .. n
      BY <1>2
    <3> QED
      BY <3>1
  <2> DEFINE c == E(i)
             first == EntriesOf(file[chain[i]])
  <2>2. CASE i = n
    <3>1. c = first /\ c \in Seq(R) /\ KeysAscend(c)
      BY <1>3, <2>2
    <3>2. i .. n = {i}
      BY <1>2, <2>2
    <3> HIDE DEF c
    <3>3. /\ \A x \in ToSet(c) : \E j \in i .. n : x \in ToSet(EntriesOf(file[chain[j]]))
          /\ \A j \in i .. n : ToSet(EntriesOf(file[chain[j]])) \subseteq ToSet(c)
      BY <3>1, <3>2
    <3> QED
      BY <2>1, <3>1, <3>3 DEF c
  <2>3. CASE i # n
    <3> DEFINE rest == E(i + 1)
    <3>1. /\ m - 1 \in Nat /\ m - 1 < n /\ m - 1 < m /\ n - (m - 1) = i + 1 /\ i + 1 \in 1 .. n
          /\ i .. n = {i} \cup (i + 1 .. n)
      BY <1>2, <2>1, <2>3
    <3>2. m - 1 \in T
      <4> HIDE DEF T
      <4> QED
        BY <1>4, <3>1
    <3>3. /\ rest \in Seq(R) /\ KeysAscend(rest)
          /\ \A x \in ToSet(rest) :
               \E j \in i + 1 .. n : x \in ToSet(EntriesOf(file[chain[j]]))
          /\ \A j \in i + 1 .. n : ToSet(EntriesOf(file[chain[j]])) \subseteq ToSet(rest)
      BY <3>1, <3>2
    <3>4. /\ c = first \o rest /\ c \in Seq(R) /\ first \in Seq(R) /\ KeysAscend(first)
          /\ \A x \in ToSet(first) : x.key \in rng[chain[i]]
      <4>1. /\ c = first \o rest /\ first \in Seq(R) /\ KeysAscend(first)
            /\ \A x \in ToSet(first) : x.key \in rng[chain[i]]
        BY <1>3, <2>3
      <4> HIDE DEF c, first, rest
      <4>2. first \o rest \in Seq(R)
        BY <3>3, <4>1, ConcatProperties
      <4> QED
        BY <4>1, <4>2
    <3> HIDE DEF rest, c
    <3>5. \A x \in ToSet(first), y \in ToSet(rest) : x.key < y.key
      <4> SUFFICES ASSUME NEW x \in ToSet(first), NEW y \in ToSet(rest)
                   PROVE  x.key < y.key
        OBVIOUS
      <4>1. PICK j \in i + 1 .. n : y \in ToSet(EntriesOf(file[chain[j]]))
        BY <3>3
      <4>2. j \in 1 .. n /\ i < j
        BY <1>2, <3>1
      <4>3. y.key \in rng[chain[j]]
        BY <1>3, <4>1, <4>2
      <4> QED
        BY <1>2, <3>4, <4>2, <4>3
    <3>6. \A e \in R : e.key \in Int
      BY <1>1 DEF R
    <3>7. KeysAscend(c) /\ ToSet(c) = ToSet(first) \cup ToSet(rest)
      <4> HIDE DEF first
      <4> QED
        BY <3>3, <3>4, <3>5, <3>6, ConcatAscends
    <3>8. /\ \A x \in ToSet(c) : \E j \in i .. n : x \in ToSet(EntriesOf(file[chain[j]]))
          /\ \A j \in i .. n : ToSet(EntriesOf(file[chain[j]])) \subseteq ToSet(c)
      BY <3>1, <3>3, <3>7
    <3> QED
      BY <2>1, <3>4, <3>7, <3>8 DEF c
  <2> QED
    BY <2>2, <2>3
<1>5. T = Nat
  <2> HIDE DEF T
  <2> QED
    BY <1>4, AllNumbers DEF T
<1>6. Good(1)
  <2>1. n - 1 \in T /\ n - 1 < n /\ n - (n - 1) = 1
    <3> HIDE DEF T
    <3> QED
      BY <1>2, <1>5
  <2> HIDE DEF Good
  <2> QED
    BY <2>1
<1>7. ToSet(E(1)) = Held(file, own)
  <2>1. ToSet(E(1)) \subseteq Held(file, own)
    BY <1>2, <1>6 DEF Held
  <2>2. ASSUME NEW p \in own PROVE ToSet(EntriesOf(file[p])) \subseteq ToSet(E(1))
    <3>1. lvl[p] # 0 => ToSet(EntriesOf(file[p])) = {}
      BY <1>1, PageFacts
    <3> QED
      BY <1>2, <1>6, <3>1
  <2> QED
    BY <2>1, <2>2 DEF Held
<1>8. ScanEntries(file, root) = E(1)
  BY LeftmostFacts DEF ScanEntries, file
<1> QED
  BY <1>6, <1>7, <1>8 DEF own, file, R

\* A descent for a key ends at the leaf whose keys it is among.
LEMMA FindLeafFacts ==
    ASSUME NEW base, NEW K, NEW V, NEW s, NEW root, NEW rng, NEW lvl, NEW chain,
           Stands(base, K, V, s, root, rng, lvl, chain), NEW k \in K
    PROVE  /\ DownFrom(Own(base, s.hdr), lvl, root, FindPath(s.file, root, k))
           /\ Follows(s.file, k, rng, FindPath(s.file, root, k))
           /\ Len(FindPath(s.file, root, k)) \in Nat \ {0}
           /\ FindLeaf(s.file, root, k) =
                FindPath(s.file, root, k)[Len(FindPath(s.file, root, k))]
           /\ FindLeaf(s.file, root, k) \in Own(base, s.hdr)
           /\ lvl[FindLeaf(s.file, root, k)] = 0
           /\ k \in rng[FindLeaf(s.file, root, k)]
<1> DEFINE path == FindPath(s.file, root, k)
           n == Len(path)
           own == Own(base, s.hdr)
<1>1. root \in own /\ k \in rng[root] /\ lvl[root] \in Nat
  <2>1. root \in own /\ rng[root] = K /\ lvl \in [PageId -> Nat] /\ own \subseteq PageId
    BY StandsPages
  <2> QED
    BY <2>1
<1>2. DownFrom(own, lvl, root, path) /\ Follows(s.file, k, rng, path)
  BY <1>1, FindPathFacts
<1>3. FindLeaf(s.file, root, k) = path[n]
  BY DEF FindLeaf, Last
<1> HIDE DEF path
<1>4. n = lvl[root] + 1
  BY <1>2 DEF DownFrom
<1>5. n \in Nat \ {0} /\ n \in 1 .. n /\ n - n = 0
  BY <1>1, <1>4
<1> HIDE DEF n
<1>6. path[n] \in own /\ lvl[path[n]] = n - n
  BY <1>2, <1>5 DEF DownFrom, n
<1>7. k \in rng[path[n]]
  BY <1>2, <1>5 DEF Follows, n
<1> QED
  BY <1>2, <1>3, <1>5, <1>6, <1>7 DEF path, own, n

\* The leaf a key belongs to holds what the tree holds of its keys.
LEMMA LeafEntries ==
    ASSUME NEW base, NEW K, NEW V, NEW s, NEW root, NEW rng, NEW lvl, NEW chain,
           Stands(base, K, V, s, root, rng, lvl, chain),
           NEW l \in Own(base, s.hdr), lvl[l] = 0
    PROVE  /\ l \in PageId \ {0}
           /\ LeafOK(rng[l], V, s.file[l])
           /\ EntriesOf(s.file[l]) = s.file[l].entries
           /\ EntriesOf(s.file[l]) \in Seq([key : rng[l], value : V])
           /\ KeysAscend(EntriesOf(s.file[l]))
<1>1. /\ Own(base, s.hdr) \subseteq PageId \ {0} /\ K \subseteq Int
      /\ rng \in [PageId -> SUBSET K]
      /\ PageOK(K, V, Own(base, s.hdr), rng, rng, lvl, l, s.file[l])
  BY StandsPages
<1>2. LeafOK(rng[l], V, s.file[l]) /\ EntriesOf(s.file[l]) = s.file[l].entries
  BY <1>1, PageFacts
<1>3. s.file[l].entries \in Seq([key : rng[l], value : V]) /\ KeysAscend(s.file[l].entries)
  BY <1>2 DEF LeafOK
<1>5. l \in PageId \ {0}
  BY <1>1
<1> QED
  BY <1>2, <1>3, <1>5

\* The keys of a page are integers.
LEMMA LeafKeys ==
    ASSUME NEW base, NEW K, NEW V, NEW s, NEW root, NEW rng, NEW lvl, NEW chain,
           Stands(base, K, V, s, root, rng, lvl, chain), NEW l \in Own(base, s.hdr)
    PROVE  rng[l] \subseteq Int
<1>1. /\ Own(base, s.hdr) \subseteq PageId \ {0} /\ K \subseteq Int
      /\ rng \in [PageId -> SUBSET K]
  BY StandsPages
<1> QED
  BY <1>1

\* A leaf has what the tree holds under its keys.
LEMMA LeafHolds ==
    ASSUME NEW base, NEW K, NEW V, NEW s, NEW root, NEW rng, NEW lvl, NEW chain,
           Stands(base, K, V, s, root, rng, lvl, chain),
           NEW l \in Own(base, s.hdr), lvl[l] = 0
    PROVE  ToSet(EntriesOf(s.file[l])) = HeldIn(s.file, Own(base, s.hdr), rng[l])
<1>1. Tree(K, V, s.file, Own(base, s.hdr), root, rng, lvl, chain)
  BY DEF Stands
<1> QED
  BY <1>1, HeldFacts DEF HeldIn

\* A find and a scan answer from the same entries.
LEMMA FoundFacts ==
    ASSUME NEW base, NEW K, NEW V, NEW s, NEW root, NEW rng, NEW lvl, NEW chain,
           Stands(base, K, V, s, root, rng, lvl, chain), NEW k \in K
    PROVE  /\ Found(s.file, root, k) = FirstOf(ScanEntries(s.file, root), k)
           /\ \A e \in Held(s.file, Own(base, s.hdr)) : e.key = k => Found(s.file, root, k) = <<e>>
           /\ (\A e \in Held(s.file, Own(base, s.hdr)) : e.key # k) => Found(s.file, root, k) = <<>>
<1> DEFINE l == FindLeaf(s.file, root, k)
           entries == EntriesOf(s.file[l])
           seen == ScanEntries(s.file, root)
           held == Held(s.file, Own(base, s.hdr))
           A == [key : rng[l], value : V]
           B == [key : K, value : V]
<1>1. l \in Own(base, s.hdr) /\ lvl[l] = 0 /\ k \in rng[l]
  BY FindLeafFacts
<1>2. /\ entries \in Seq(A) /\ KeysAscend(entries) /\ \A e \in A : e.key \in Int
      /\ ToSet(entries) = {e \in held : e.key \in rng[l]}
  <2>1. /\ entries \in Seq(A) /\ KeysAscend(entries)
    <3> HIDE DEF l
    <3> QED
      BY <1>1, LeafEntries
  <2>2. ToSet(entries) = HeldIn(s.file, Own(base, s.hdr), rng[l])
    <3> HIDE DEF l
    <3> QED
      BY <1>1, LeafHolds
  <2>3. rng[l] \subseteq Int
    <3> HIDE DEF l
    <3> QED
      BY <1>1, LeafKeys
  <2> QED
    BY <2>1, <2>2, <2>3 DEF HeldIn
<1>3. seen \in Seq(B) /\ KeysAscend(seen) /\ ToSet(seen) = held
  BY ScanFacts
<1>4. \A e \in B : e.key \in Int
  <2>1. K \subseteq Int
    BY StandsPages
  <2> QED
    BY <2>1
<1>5. Found(s.file, root, k) = FirstOf(entries, k)
  <2>1. FindLeaf(s.file, root, k) \in PageId
    <3>1. FindLeaf(s.file, root, k) \in Own(base, s.hdr) /\ Own(base, s.hdr) \subseteq PageId \ {0}
      BY FindLeafFacts, StandsPages
    <3> QED
      BY <3>1
  <2> QED
    BY <2>1 DEF Found
<1> HIDE DEF entries, seen, held, A, B, l
<1>6. /\ \A e \in ToSet(entries) : e.key = k => FirstOf(entries, k) = <<e>>
      /\ (\A e \in ToSet(entries) : e.key # k) => FirstOf(entries, k) = <<>>
  BY <1>2, FirstOfFacts
<1>7. /\ \A e \in ToSet(seen) : e.key = k => FirstOf(seen, k) = <<e>>
      /\ (\A e \in ToSet(seen) : e.key # k) => FirstOf(seen, k) = <<>>
  BY <1>3, <1>4, FirstOfFacts
<1>8. /\ \A e \in held : e.key = k => FirstOf(entries, k) = <<e>>
      /\ (\A e \in held : e.key # k) => FirstOf(entries, k) = <<>>
  BY <1>1, <1>2, <1>6
<1>9. FirstOf(entries, k) = FirstOf(seen, k)
  <2>1. CASE \E e \in held : e.key = k
    BY <1>3, <1>7, <1>8, <2>1
  <2>2. CASE \A e \in held : e.key # k
    BY <1>3, <1>7, <1>8, <2>2
  <2> QED
    BY <2>1, <2>2
<1> QED
  BY <1>5, <1>8, <1>9 DEF seen, held

-----------------------------------------------------------------------------
(* Every page is in the tree, once.                                        *)

\* The chain passes no leaf twice.
LEMMA ChainOnce ==
    ASSUME NEW base, NEW K, NEW V, NEW s, NEW root, NEW rng, NEW lvl, NEW chain,
           Stands(base, K, V, s, root, rng, lvl, chain)
    PROVE  /\ chain \in Seq(Own(base, s.hdr)) /\ Len(chain) \in Nat
           /\ \A i \in 1 .. Len(chain) : lvl[chain[i]] = 0
           /\ \A p \in Own(base, s.hdr) : lvl[p] = 0 => \E i \in 1 .. Len(chain) : chain[i] = p
           /\ \A i, j \in 1 .. Len(chain) : chain[i] = chain[j] => i = j
<1>1. Chained(s.file, Own(base, s.hdr), rng, lvl, chain)
  BY DEF Stands, Tree, Forest
<1>2. /\ Own(base, s.hdr) \subseteq PageId \ {0} /\ K \subseteq Int /\ rng \in [PageId -> SUBSET K]
      /\ \A p \in Own(base, s.hdr) : PageOK(K, V, Own(base, s.hdr), rng, rng, lvl, p, s.file[p])
  BY StandsPages
<1>3. chain \in Seq(Own(base, s.hdr)) /\ Len(chain) \in Nat
  BY <1>1, LenProperties DEF Chained
<1>4. ASSUME NEW i \in 1 .. Len(chain), NEW j \in 1 .. Len(chain), chain[i] = chain[j], i < j
      PROVE  FALSE
  <2>1. chain[i] \in Own(base, s.hdr)
    BY <1>3, ElementOfSeq
  <2>2. rng[chain[i]] # {} /\ rng[chain[i]] \subseteq Int
    BY <1>2, <2>1 DEF PageOK
  <2>3. PICK x \in rng[chain[i]] : x \in Int
    BY <2>2
  <2>4. x < x
    BY <1>1, <1>4, <2>3 DEF Chained
  <2> QED
    BY <2>3, <2>4
<1>5. \A i, j \in 1 .. Len(chain) : chain[i] = chain[j] => i = j
  BY <1>3, <1>4
<1> QED
  BY <1>1, <1>3, <1>5 DEF Chained

\* The pages reachable from the root are all the pages there are.
LEMMA TreePagesFacts ==
    ASSUME NEW base, NEW K, NEW V, NEW s, NEW root, NEW rng, NEW lvl, NEW chain,
           Stands(base, K, V, s, root, rng, lvl, chain)
    PROVE  TreePages(s.file, root) = Own(base, s.hdr)
<1> DEFINE own == Own(base, s.hdr)
           file == s.file
<1>1. /\ own \subseteq PageId \ {0} /\ Grounded(file) /\ root \in own
      /\ \A p \in own : PageOK(K, V, own, rng, rng, lvl, p, file[p])
      /\ lvl \in [PageId -> Nat] /\ (\A p \in PageId : lvl[p] <= lvl[root])
      /\ Parented(file, own, {root}, lvl)
  <2>1. Parented(file, own, {root}, lvl)
    BY DEF Stands, Tree, Forest
  <2> HIDE DEF Parented
  <2> QED
    BY <2>1, StandsPages
<1> HIDE DEF own, file
<1>2. ASSUME NEW p \in own, lvl[p] # 0
      PROVE  /\ file[p].type = "internal" /\ file[p].children \in Seq(own)
             /\ Len(file[p].children) \in Nat
             /\ \A i \in 1 .. Len(file[p].children) :
                  file[p].children[i] \in own /\ lvl[file[p].children[i]] = lvl[p] - 1
  <2>1. /\ InnerOK(K, own, file[p]) /\ file[p].type = "internal"
        /\ Slotted(own, rng, lvl, rng[p], lvl[p], file[p].keys, file[p].children)
    BY <1>1, <1>2, PageFacts
  <2>2. file[p].children \in Seq(own)
    BY <2>1 DEF InnerOK
  <2>3. Len(file[p].children) \in Nat
    BY <2>2, LenProperties
  <2> QED
    BY <2>1, <2>2, <2>3 DEF Slotted
<1>3. ASSUME NEW p \in own, lvl[p] # 0
      PROVE  Children(file[p]) = {file[p].children[i] : i \in 1 .. Len(file[p].children)}
  <2>1. file[p].type = "internal" /\ DOMAIN file[p].children = 1 .. Len(file[p].children)
    BY <1>2, <1>3, LenProperties
  <2> QED
    BY <2>1 DEF Children, ToSet
<1>4. ASSUME NEW p \in own, lvl[p] = 0 PROVE Children(file[p]) = {}
  <2>1. file[p].type = "leaf"
    BY <1>1, <1>4, PageFacts
  <2> QED
    BY <2>1 DEF Children
<1>12. ASSUME NEW p \in own, NEW d \in Children(file[p])
       PROVE  lvl[p] # 0 /\ lvl[p] \in Nat /\ d \in own /\ lvl[d] = lvl[p] - 1
  <2>1. lvl[p] # 0 /\ lvl[p] \in Nat
    BY <1>1, <1>4, <1>12
  <2>2. PICK i \in 1 .. Len(file[p].children) : d = file[p].children[i]
    BY <1>3, <1>12, <2>1
  <2>3. d \in own /\ lvl[d] = lvl[p] - 1
    BY <1>2, <2>1, <2>2
  <2> QED
    BY <2>1, <2>3
<1>5. \A p \in PageId : TreePages(file, p) = {p} \cup UNION {TreePages(file, c) : c \in Children(file[p])}
  BY <1>1, TreePagesStep
\* Nothing else is reached.
<1> DEFINE T == {n \in Nat : \A p \in own : lvl[p] = n => TreePages(file, p) \subseteq own}
<1>6. T = Nat
  <2>1. ASSUME NEW n \in Nat, \A m \in Nat : m < n => m \in T
        PROVE  n \in T
    <3> SUFFICES ASSUME NEW p \in own, lvl[p] = n PROVE TreePages(file, p) \subseteq own
      OBVIOUS
    <3>1. CASE n = 0
      BY <1>1, <1>4, <1>5, <3>1
    <3>2. CASE n # 0
      <4>1. \A c \in Children(file[p]) : c \in own /\ lvl[c] = n - 1
        BY <1>12
      <4>2. n - 1 \in T
        <5> HIDE DEF T
        <5> QED
          BY <2>1, <3>2
      <4>3. \A c \in Children(file[p]) : TreePages(file, c) \subseteq own
        BY <4>1, <4>2
      <4> QED
        BY <1>1, <1>5, <4>3
    <3> QED
      BY <3>1, <3>2
  <2> HIDE DEF T
  <2> QED
    BY <2>1, AllNumbers DEF T
<1>7. TreePages(file, root) \subseteq own
  <2>1. lvl[root] \in T
    <3> HIDE DEF T
    <3> QED
      BY <1>1, <1>6
  <2> QED
    BY <1>1, <2>1
\* What is above a page that is reached reaches it too.
<1> DEFINE U == {n \in Nat : \A p \in own : lvl[p] = n => \A c \in own : c \in TreePages(file, p) =>
                   \A d \in Children(file[c]) : d \in TreePages(file, p)}
<1>8. U = Nat
  <2>1. ASSUME NEW n \in Nat, \A m \in Nat : m < n => m \in U
        PROVE  n \in U
    <3> SUFFICES ASSUME NEW p \in own, lvl[p] = n, NEW c \in own, c \in TreePages(file, p),
                        NEW d \in Children(file[c])
                 PROVE  d \in TreePages(file, p)
      OBVIOUS
    <3>0. lvl[c] # 0 /\ d \in own
      BY <1>12
    <3>1. CASE c = p
      <4>1. d \in TreePages(file, d)
        BY <1>1, <1>5, <3>0
      <4> QED
        BY <1>1, <1>5, <3>1, <4>1
    <3>2. CASE c # p
      <4>1. PICK q \in Children(file[p]) : c \in TreePages(file, q)
        BY <1>1, <1>5, <3>2
      <4>2. lvl[p] # 0 /\ q \in own /\ lvl[q] = n - 1 /\ n - 1 \in Nat /\ n - 1 < n
        <5>1. lvl[p] # 0
          BY <1>4, <4>1
        <5>2. q \in own /\ lvl[q] = n - 1
          BY <1>12, <4>1
        <5> QED
          BY <5>1, <5>2
      <4>3. n - 1 \in U
        <5> HIDE DEF U
        <5> QED
          BY <2>1, <4>2
      <4>4. d \in TreePages(file, q)
        BY <4>1, <4>2, <4>3
      <4> QED
        BY <1>1, <1>5, <4>1, <4>4
    <3> QED
      BY <3>1, <3>2
  <2> HIDE DEF U
  <2> QED
    BY <2>1, AllNumbers DEF U
<1>9. \A c \in own : c \in TreePages(file, root) =>
        \A d \in Children(file[c]) : d \in TreePages(file, root)
  <2>1. lvl[root] \in U
    <3> HIDE DEF U
    <3> QED
      BY <1>1, <1>8
  <2> QED
    BY <1>1, <2>1
\* From the top level down, every page is reached.
<1> DEFINE W == {n \in Nat : \A p \in own : lvl[root] - lvl[p] = n => p \in TreePages(file, root)}
<1>10. W = Nat
  <2>1. ASSUME NEW n \in Nat, \A m \in Nat : m < n => m \in W
        PROVE  n \in W
    <3> SUFFICES ASSUME NEW p \in own, lvl[root] - lvl[p] = n PROVE p \in TreePages(file, root)
      OBVIOUS
    <3>1. CASE p = root
      BY <1>1, <1>5, <3>1
    <3>2. CASE p # root
      <4>1. PICK q \in own : lvl[q] > 0 /\ \E i \in 1 .. Len(file[q].children) : file[q].children[i] = p
        BY <1>1, <3>2 DEF Parented
      <4>2. p \in Children(file[q]) /\ lvl[p] = lvl[q] - 1 /\ lvl[q] \in Nat /\ lvl[root] \in Nat
            /\ lvl[q] <= lvl[root]
        <5>1. p \in Children(file[q])
          <6>1. lvl[q] # 0
            BY <1>1, <4>1
          <6>2. Children(file[q]) = {file[q].children[i] : i \in 1 .. Len(file[q].children)}
            BY <1>3, <6>1
          <6> QED
            BY <4>1, <6>2
        <5>2. lvl[q] \in Nat /\ lvl[root] \in Nat /\ lvl[q] <= lvl[root]
          BY <1>1
        <5>3. lvl[p] = lvl[q] - 1
          BY <1>12, <5>1
        <5> QED
          BY <5>1, <5>2, <5>3
      <4>3. lvl[root] - lvl[q] = n - 1 /\ n - 1 \in Nat /\ n - 1 < n
        BY <4>2
      <4>4. n - 1 \in W
        <5> HIDE DEF W
        <5> QED
          BY <2>1, <4>3
      <4>5. q \in TreePages(file, root)
        BY <4>3, <4>4
      <4> QED
        BY <1>9, <4>2, <4>5
    <3> QED
      BY <3>1, <3>2
  <2> HIDE DEF W
  <2> QED
    BY <2>1, AllNumbers DEF W
<1>11. own \subseteq TreePages(file, root)
  <2> SUFFICES ASSUME NEW p \in own PROVE p \in TreePages(file, root)
    OBVIOUS
  <2>1. lvl[root] - lvl[p] \in Nat
    <3>1. lvl[root] \in Nat /\ lvl[p] \in Nat /\ lvl[p] <= lvl[root]
      BY <1>1
    <3> QED
      BY <3>1
  <2>2. lvl[root] - lvl[p] \in W
    <3> HIDE DEF W
    <3> QED
      BY <1>10, <2>1
  <2> QED
    BY <2>2
<1> QED
  BY <1>7, <1>11 DEF own, file

-----------------------------------------------------------------------------
(* An insertion.                                                           *)

\* What insert_recursive leaves when it returns from page p: the entry e is in
\* the tree, nothing above p has changed, and if p was split then p and the page
\* that is reported share the keys that p had.
Grows(base, K, V, s, root, lvl, e, p, r) ==
    /\ GoodStore(r.store)
    /\ r.split \in BOOLEAN
    /\ r.store.hdr.num_pages \in s.hdr.num_pages .. s.hdr.num_pages + lvl[p] + 1
    /\ Spares(base, s, r.store)
    /\ \A q \in Own(base, s.hdr) : lvl[q] > lvl[p] => r.store.file[q] = s.file[q]
    /\ Held(r.store.file, Own(base, r.store.hdr)) = Held(s.file, Own(base, s.hdr)) \cup {e}
    /\ \E rng2, lvl2, chain2 :
         /\ SameLevels(Own(base, s.hdr), lvl, lvl2)
         /\ ~r.split => Tree(K, V, r.store.file, Own(base, r.store.hdr), root, rng2, lvl2, chain2)
         /\ r.split => Pending(K, V, r.store.file, Own(base, r.store.hdr), root, p, r.sep, r.page,
                               rng2, lvl2, chain2)

\* An allocation gives the tree one more page.
LEMMA OwnGrows ==
    ASSUME NEW base, NEW h, NEW g, Based(base, h), h.num_pages \in 1 .. MaxPages,
           g.num_pages = h.num_pages + 1
    PROVE  Own(base, g) = Own(base, h) \cup {h.num_pages} /\ h.num_pages \notin Own(base, h)
<1>1. MaxPages \in Nat
  BY MaxPagesAssumption
<1>2. base.from .. g.num_pages - 1 = (base.from .. h.num_pages - 1) \cup {h.num_pages}
  BY <1>1 DEF Based
<1> QED
  BY <1>1, <1>2 DEF Own, Based

\* The leaf takes the entry, or is halved.
LEMMA LeafGrows ==
    ASSUME NEW base, NEW K, NEW V, NEW s, NEW root, NEW rng, NEW lvl, NEW chain,
           Stands(base, K, V, s, root, rng, lvl, chain),
           s.hdr.num_pages + 1 <= MaxPages,
           NEW l \in Own(base, s.hdr), lvl[l] = 0, NEW ent \in [key : rng[l], value : V],
           \A x \in Held(s.file, Own(base, s.hdr)) : x.key # ent.key
    PROVE  Grows(base, K, V, s, root, lvl, ent, l, InsertIntoLeaf(s, l, ent))
<1> DEFINE own == Own(base, s.hdr)
           R == [key : rng[l], value : V]
           node == s.file[l]
           entries == EntriesOf(node)
           all == InsertEntry(entries, ent)
           n == s.hdr.num_pages
           held == Held(s.file, own)
<1>1. /\ l \in PageId \ {0} /\ LeafOK(rng[l], V, node) /\ entries = node.entries
      /\ entries \in Seq(R) /\ KeysAscend(entries)
      /\ rng[l] \subseteq Int /\ \A x \in R : x.key \in Int
      /\ ToSet(entries) = {e \in held : e.key \in rng[l]}
  <2>1. /\ l \in PageId \ {0} /\ LeafOK(rng[l], V, node) /\ entries = node.entries
        /\ entries \in Seq(R) /\ KeysAscend(entries)
    <3>1. l \in PageId \ {0} /\ LeafOK(rng[l], V, s.file[l])
      BY LeafEntries
    <3>2. EntriesOf(s.file[l]) = s.file[l].entries
      BY <3>1, LeafFacts
    <3>3. EntriesOf(s.file[l]) \in Seq([key : rng[l], value : V])
      BY LeafEntries
    <3>4. KeysAscend(EntriesOf(s.file[l]))
      BY LeafEntries
    <3> QED
      BY <3>1, <3>2, <3>3, <3>4
  <2>2. rng[l] \subseteq Int
    BY LeafKeys
  <2>3. ToSet(EntriesOf(s.file[l])) = HeldIn(s.file, Own(base, s.hdr), rng[l])
    BY LeafHolds
  <2> QED
    BY <2>1, <2>2, <2>3 DEF HeldIn
<1>2. /\ n \in 1 .. MaxPages /\ MaxPages \in Nat /\ own \subseteq PageId \ {0}
      /\ GoodStore(s) /\ Based(base, s.hdr)
      /\ Tree(K, V, s.file, own, root, rng, lvl, chain)
  BY StandsPages DEF Stands
<1>3. n < MaxPages /\ l # n
  <2>1. l \in 1 .. n - 1
    BY StandsPages
  <2> HIDE DEF n
  <2> QED
    BY <1>2, <2>1 DEF n
<1> HIDE DEF own, R, entries, n, held
<1>4. \A i \in 1 .. Len(entries) : entries[i].key # ent.key
  <2> SUFFICES ASSUME NEW i \in 1 .. Len(entries) PROVE entries[i].key # ent.key
    OBVIOUS
  <2>1. entries[i] \in ToSet(entries)
    BY <1>1, LenProperties DEF ToSet
  <2> QED
    BY <1>1, <2>1 DEF held, own
<1>5. /\ all \in Seq(R) /\ Len(all) = Len(entries) + 1 /\ KeysAscend(all)
      /\ ToSet(all) = ToSet(entries) \cup {ent}
  <2>1. ent \in R
    BY DEF R
  <2>2. entries \in Seq(R) /\ KeysAscend(entries) /\ \A x \in R : x.key \in Int
    BY <1>1
  <2>3. \A i \in 1 .. Len(entries) : entries[i].key # ent.key
    BY <1>4
  <2>4. /\ InsertEntry(entries, ent) \in Seq(R)
        /\ Len(InsertEntry(entries, ent)) = Len(entries) + 1
    BY <2>1, <2>2, <2>3, InsertEntryFacts
  <2>5. /\ KeysAscend(InsertEntry(entries, ent))
        /\ ToSet(InsertEntry(entries, ent)) = ToSet(entries) \cup {ent}
    BY <2>1, <2>2, <2>3, InsertEntryFacts
  <2> QED
    BY <2>4, <2>5
<1>6. Len(entries) \in Nat /\ Len(entries) <= MAX_LEAF_SLOTS /\ MAX_LEAF_SLOTS \in Nat
  BY <1>1, LenProperties, FanoutAssumption DEF LeafOK
<1>7. {e \in held : e.key \notin rng[l]} \cup ToSet(all) = held \cup {ent}
  BY <1>1, <1>5
<1>8. InsertIntoLeaf(s, l, ent) =
        IF Len(all) <= MAX_LEAF_SLOTS THEN NoSplit(Put(s, l, Leaf(all, node.next)))
        ELSE HalveLeaf(s, l, all, node.next)
  BY <1>1 DEF InsertIntoLeaf
<1> HIDE DEF all
<1>9. \A x \in own : lvl[x] \in Nat
  BY StandsPages DEF own
<1>10. CASE Len(all) <= MAX_LEAF_SLOTS
  <2> DEFINE new == Leaf(all, node.next)
             t == Put(s, l, new)
  <2>1. GoodStore(t) /\ t.hdr = s.hdr /\ \A q \in PageId : t.file[q] = IF q = l THEN new ELSE s.file[q]
    BY <1>1, <1>2, PutPageFacts
  <2>2. LeafOK(rng[l], V, new) /\ new.next = node.next /\ new.entries = all
    BY <1>5, <1>10 DEF LeafOK, Leaf, R
  <2> HIDE DEF new, t
  <2>3. \A q \in own : t.file[q] = IF q = l THEN new ELSE s.file[q]
    BY <1>2, <2>1
  <2>4. l \in own
    BY DEF own
  <2>5. Tree(K, V, t.file, own, root, rng, lvl, chain)
    BY <1>2, <2>2, <2>3, <2>4, LeafRewritten
  <2>6. Held(t.file, own) = held \cup {ent}
    <3>1. Held(t.file, own) = {e \in Held(s.file, own) : e.key \notin rng[l]} \cup ToSet(new.entries)
      BY <1>2, <2>2, <2>3, <2>4, HeldRewritten
    <3> QED
      BY <1>7, <2>2, <3>1 DEF held
  <2> DEFINE r == NoSplit(t)
  <2>7. r.store = t /\ r.split = FALSE
    BY DEF NoSplit
  <2>8. r = InsertIntoLeaf(s, l, ent)
    BY <1>8, <1>10 DEF t, new
  <2> HIDE DEF r
  <2>9. /\ GoodStore(r.store) /\ r.split \in BOOLEAN
        /\ Held(r.store.file, Own(base, r.store.hdr)) = Held(s.file, Own(base, s.hdr)) \cup {ent}
    BY <2>1, <2>6, <2>7 DEF held, own
  <2>10. r.store.hdr.num_pages \in s.hdr.num_pages .. s.hdr.num_pages + lvl[l] + 1
    BY <1>2, <2>1, <2>7 DEF n
  <2>11. /\ Spares(base, s, r.store)
         /\ \A q \in Own(base, s.hdr) : lvl[q] > lvl[l] => r.store.file[q] = s.file[q]
    <3>1. \A q \in PageId \ {0} : q \notin Own(base, r.store.hdr) => r.store.file[q] = s.file[q]
      BY <2>1, <2>4, <2>7 DEF own
    <3>2. \A q \in own : lvl[q] > lvl[l] => q # l
      BY <1>9
    <3> QED
      BY <2>3, <2>7, <2>10, <3>1, <3>2 DEF own, Spares
  <2>12. \E rng2, lvl2, chain2 :
           /\ SameLevels(Own(base, s.hdr), lvl, lvl2)
           /\ ~r.split => Tree(K, V, r.store.file, Own(base, r.store.hdr), root, rng2, lvl2, chain2)
           /\ r.split => Pending(K, V, r.store.file, Own(base, r.store.hdr), root, l, r.sep, r.page,
                                 rng2, lvl2, chain2)
    <3>1. /\ SameLevels(Own(base, s.hdr), lvl, lvl)
          /\ ~r.split => Tree(K, V, r.store.file, Own(base, r.store.hdr), root, rng, lvl, chain)
          /\ r.split => Pending(K, V, r.store.file, Own(base, r.store.hdr), root, l, r.sep, r.page,
                                rng, lvl, chain)
      BY <2>1, <2>5, <2>7 DEF own, SameLevels
    <3> QED
      BY <3>1
  <2> QED
    BY <2>8, <2>9, <2>10, <2>11, <2>12 DEF Grows
<1>11. CASE ~(Len(all) <= MAX_LEAF_SLOTS)
  <2> DEFINE mid == Len(all) \div 2
             rest == SubSeq(all, mid + 1, Len(all))
             c == Leaf(SubSeq(all, 1, mid), n)
             d == Leaf(rest, node.next)
             t == Put(Put(Alloc(s), l, c), n, d)
             r == HalveLeaf(s, l, all, node.next)
             sep == all[mid + 1].key
  <2>1. Len(all) = MAX_LEAF_SLOTS + 1 /\ mid \in 1 .. Len(all) - 1 /\ Len(all) \in Nat
    <3>1. Len(all) = MAX_LEAF_SLOTS + 1 /\ MAX_LEAF_SLOTS >= 2
      BY <1>5, <1>6, <1>11, FanoutAssumption
    <3> QED
      BY <1>6, <3>1
  <2>2. AllocPage(s.hdr) = n /\ n \in PageId \ {0}
    BY <1>2, <1>3, AllocFacts DEF n
  <2>3. rest[1] = all[mid + 1]
    <3> HIDE DEF mid
    <3>1. mid + 1 \in 1 .. Len(all) + 1 /\ Len(all) \in 0 .. Len(all) /\ mid + 1 <= Len(all) + 1
          /\ 1 \in 1 .. Len(all) - (mid + 1) + 1 /\ (mid + 1) + 1 - 1 = mid + 1
          /\ \A i \in mid + 1 .. Len(all) : i \in 1 .. Len(all)
      BY <2>1
    <3>2. \A i \in mid + 1 .. Len(all) : all[i] \in R
      BY <1>5, <3>1, ElementOfSeq
    <3>3. \A i \in 1 .. Len(all) - (mid + 1) + 1 : rest[i] = all[(mid + 1) + i - 1]
      BY <1>5, <3>1, <3>2, SubSeqFacts
    <3> QED
      BY <3>1, <3>3
  <2>4. /\ GoodStore(t) /\ t.hdr.num_pages = n + 1
        /\ \A q \in PageId \ {0} : t.file[q] = IF q = n THEN d ELSE IF q = l THEN c ELSE s.file[q]
    <3> HIDE DEF c, d
    <3>1. s.hdr.num_pages < MaxPages /\ l # s.hdr.num_pages /\ l \in PageId \ {0}
      BY <1>1, <1>3 DEF n
    <3>2. SplitStore(s, l, c, d, t)
      BY <1>2, <3>1, SplitStoreFacts DEF n
    <3> HIDE DEF t
    <3> QED
      BY <3>2 DEF SplitStore, n
  <2>5. r.store = t /\ r.split = TRUE /\ r.sep = sep /\ r.page = n
    BY <2>2, <2>3 DEF HalveLeaf, Split
  <2>6. r = InsertIntoLeaf(s, l, ent)
    BY <1>8, <1>11
  <2>7. Own(base, t.hdr) = own \cup {n} /\ n \notin own
    BY <1>2, <2>4, OwnGrows DEF own, n
  <2>8. \A q \in own \cup {n} : t.file[q] =
           IF q = n THEN Leaf(SubSeq(all, mid + 1, Len(all)), node.next)
           ELSE IF q = l THEN Leaf(SubSeq(all, 1, mid), n) ELSE s.file[q]
    <3>1. own \cup {n} \subseteq PageId \ {0}
      BY <1>2, <2>2
    <3> QED
      BY <2>4, <3>1
  <2> HIDE DEF r, t, c, d
  <2>9. PICK rng2, lvl2, chain2 :
          /\ Pending(K, V, t.file, own \cup {n}, root, l, sep, n, rng2, lvl2, chain2)
          /\ SameLevels(own, lvl, lvl2)
          /\ Held(t.file, own \cup {n}) = HeldWith(s.file, own, rng[l], all)
    <3>1. /\ l \in own /\ all \in Seq([key : rng[l], value : V]) /\ KeysAscend(all)
          /\ Len(all) = MAX_LEAF_SLOTS + 1 /\ n \notin own /\ n \in PageId \ {0}
          /\ Tree(K, V, s.file, own, root, rng, lvl, chain)
      BY <1>2, <1>5, <2>1, <2>2, <2>7 DEF own, R
    <3> DEFINE m == mid
               z == sep
    <3>2. HalvesLeaf(K, V, s.file, own, root, rng, lvl, chain, l, n, all, m, z, t.file)
      BY <2>8, <3>1 DEF HalvesLeaf
    <3> HIDE DEF m, z
    <3>4. \E rng2, lvl2, chain2 :
              /\ Pending(K, V, t.file, own \cup {n}, root, l, z, n, rng2, lvl2, chain2)
              /\ SameLevels(own, lvl, lvl2)
      BY <3>2, LeafSplit
    <3>5. Held(t.file, own \cup {n}) = HeldWith(s.file, own, rng[l], all)
      BY <3>2, LeafSplit
    <3> QED
      BY <3>4, <3>5 DEF z, m
  <2> HIDE DEF mid, sep
  <2>10. /\ GoodStore(r.store) /\ r.split \in BOOLEAN
         /\ Held(r.store.file, Own(base, r.store.hdr)) = Held(s.file, Own(base, s.hdr)) \cup {ent}
    BY <1>7, <2>4, <2>5, <2>7, <2>9 DEF held, own, HeldWith
  <2>11. r.store.hdr.num_pages \in s.hdr.num_pages .. s.hdr.num_pages + lvl[l] + 1
    BY <1>2, <2>4, <2>5 DEF n
  <2>12. /\ Spares(base, s, r.store)
         /\ \A q \in Own(base, s.hdr) : lvl[q] > lvl[l] => r.store.file[q] = s.file[q]
    <3>1. ASSUME NEW q \in PageId \ {0}, q \notin Own(base, t.hdr) PROVE t.file[q] = s.file[q]
      <4>1. q # n /\ q # l
        BY <2>7, <3>1 DEF own
      <4> QED
        BY <2>4, <4>1
    <3>2. ASSUME NEW q \in own, lvl[q] > lvl[l] PROVE t.file[q] = s.file[q]
      <4>1. q # l /\ q # n /\ q \in PageId \ {0}
        BY <1>2, <1>9, <2>7, <3>2
      <4> QED
        BY <2>4, <4>1
    <3> QED
      BY <2>5, <2>11, <3>1, <3>2 DEF own, Spares
  <2>13. /\ SameLevels(Own(base, s.hdr), lvl, lvl2)
         /\ ~r.split => Tree(K, V, r.store.file, Own(base, r.store.hdr), root, rng2, lvl2, chain2)
         /\ r.split => Pending(K, V, r.store.file, Own(base, r.store.hdr), root, l, r.sep, r.page,
                               rng2, lvl2, chain2)
    BY <2>5, <2>7, <2>9 DEF own
  <2>14. Grows(base, K, V, s, root, lvl, ent, l, r)
    BY <2>10, <2>11, <2>12, <2>13 DEF Grows
  <2> QED
    BY <2>6, <2>14
<1> QED
  BY <1>10, <1>11

\* An internal node hears of the split of its child, or of none.
LEMMA InnerGrows ==
    ASSUME NEW base, NEW K, NEW V, NEW s, NEW root, NEW rng, NEW lvl, NEW chain,
           Stands(base, K, V, s, root, rng, lvl, chain),
           NEW p \in Own(base, s.hdr), lvl[p] # 0,
           s.hdr.num_pages + lvl[p] + 1 <= MaxPages,
           NEW k, NEW ent, NEW c, NEW r, Grows(base, K, V, s, root, lvl, ent, c, r),
           c = s.file[p].children[ChildIndex(s.file[p].keys, k)],
           ChildIndex(s.file[p].keys, k) \in 1 .. Len(s.file[p].children)
    PROVE  Grows(base, K, V, s, root, lvl, ent, p, InsertIntoInternal(p, k, r))
<1> DEFINE own == Own(base, s.hdr)
           own2 == Own(base, r.store.hdr)
           node == s.file[p]
           idx == ChildIndex(node.keys, k)
           keys == InsertAt(node.keys, idx, r.sep)
           children == InsertAt(node.children, idx + 1, r.page)
           file2 == r.store.file
           n == r.store.hdr.num_pages
           res == InsertIntoInternal(p, k, r)
<1>1. /\ own \subseteq PageId \ {0} /\ PageOK(K, V, own, rng, rng, lvl, p, node)
      /\ (\A q \in own : lvl[q] \in Nat) /\ s.hdr.num_pages \in 1 .. MaxPages /\ MaxPages \in Nat
  BY StandsPages
<1>2. /\ InnerOK(K, own, node) /\ Slotted(own, rng, lvl, rng[p], lvl[p], node.keys, node.children)
      /\ lvl[p] \in Nat
  BY <1>1, PageFacts
<1>3. c \in own /\ lvl[c] = lvl[p] - 1
  BY <1>2 DEF Slotted
<1>4. /\ GoodStore(r.store) /\ r.split \in BOOLEAN
      /\ n \in s.hdr.num_pages .. s.hdr.num_pages + lvl[c] + 1
      /\ (\A q \in PageId \ {0} : q \notin own2 => file2[q] = s.file[q])
      /\ (\A q \in own : lvl[q] > lvl[c] => file2[q] = s.file[q])
      /\ Held(file2, own2) = Held(s.file, own) \cup {ent}
  BY DEF Grows, Spares
<1>5. PICK rng2, lvl2, chain2 :
        /\ SameLevels(own, lvl, lvl2)
        /\ ~r.split => Tree(K, V, file2, own2, root, rng2, lvl2, chain2)
        /\ r.split => Pending(K, V, file2, own2, root, c, r.sep, r.page, rng2, lvl2, chain2)
  BY DEF Grows
<1>6. file2[p] = node
  <2>1. lvl[p] > lvl[c]
    BY <1>2, <1>3
  <2> QED
    BY <1>4, <2>1
<1>7. res = IF ~r.split THEN r
            ELSE IF Len(keys) <= MAX_INTERNAL_KEYS
            THEN NoSplit(Put(r.store, p, Internal(keys, children)))
            ELSE HalveInternal(r.store, p, keys, children)
  BY <1>6 DEF InsertIntoInternal
<1>8. n \in s.hdr.num_pages .. s.hdr.num_pages + lvl[p] /\ n < MaxPages /\ n \in 1 .. MaxPages
  <2>1. /\ s.hdr.num_pages \in 1 .. MaxPages /\ lvl[p] \in Nat /\ MaxPages \in Nat
        /\ s.hdr.num_pages + lvl[p] + 1 <= MaxPages /\ lvl[c] = lvl[p] - 1
        /\ n \in s.hdr.num_pages .. s.hdr.num_pages + lvl[c] + 1
    BY <1>1, <1>2, <1>3, <1>4
  <2> HIDE DEF n
  <2> QED
    BY <2>1
<1>9. own \subseteq own2 /\ own2 \subseteq PageId \ {0} /\ p \in own2 /\ Based(base, r.store.hdr)
  <2>1. /\ s.hdr.num_pages \in 1 .. MaxPages /\ n \in 1 .. MaxPages
        /\ s.hdr.num_pages <= n /\ MaxPages \in Nat
    BY <1>1, <1>8
  <2>2. Based(base, s.hdr)
    BY DEF Stands
  <2>3. Based(base, r.store.hdr)
    BY <2>1, <2>2 DEF Based
  <2>4. own \subseteq own2
    BY <2>1, <2>2 DEF Own, Based
  <2>5. own2 \subseteq PageId \ {0}
    BY <2>1, <2>3, OwnFacts
  <2> QED
    BY <2>3, <2>4, <2>5
<1>10. \A q \in own : lvl[q] > lvl[p] => q # p /\ file2[q] = s.file[q]
  <2> SUFFICES ASSUME NEW q \in own, lvl[q] > lvl[p] PROVE q # p /\ file2[q] = s.file[q]
    OBVIOUS
  <2>1. lvl[q] \in Nat /\ lvl[p] \in Nat /\ lvl[c] = lvl[p] - 1
    BY <1>1, <1>2, <1>3
  <2>2. q # p /\ lvl[q] > lvl[c]
    BY <2>1
  <2> QED
    BY <1>4, <2>2
<1>11. p \in PageId \ {0} /\ p < n
  <2>1. p \in 1 .. s.hdr.num_pages - 1 /\ p \in PageId \ {0}
    BY <1>1, StandsPages
  <2>2. s.hdr.num_pages \in Int /\ n \in Int /\ s.hdr.num_pages <= n
    BY <1>1, <1>8
  <2> HIDE DEF n
  <2> QED
    BY <2>1, <2>2
<1> HIDE DEF own, own2, node, idx, keys, children, file2, n, res
<1>12. CASE ~r.split
  <2>1. res = r
    BY <1>7, <1>12
  <2>2. r.store.hdr.num_pages \in s.hdr.num_pages .. s.hdr.num_pages + lvl[p] + 1
    BY <1>1, <1>2, <1>8 DEF n
  <2>3. \A q \in Own(base, s.hdr) : lvl[q] > lvl[p] => r.store.file[q] = s.file[q]
    BY <1>10 DEF own, file2
  <2>4. \E rng3, lvl3, chain3 :
         /\ SameLevels(Own(base, s.hdr), lvl, lvl3)
         /\ ~r.split => Tree(K, V, r.store.file, Own(base, r.store.hdr), root, rng3, lvl3, chain3)
         /\ r.split => Pending(K, V, r.store.file, Own(base, r.store.hdr), root, p, r.sep, r.page,
                               rng3, lvl3, chain3)
    <3>1. /\ SameLevels(Own(base, s.hdr), lvl, lvl2)
          /\ ~r.split => Tree(K, V, r.store.file, Own(base, r.store.hdr), root, rng2, lvl2, chain2)
          /\ r.split => Pending(K, V, r.store.file, Own(base, r.store.hdr), root, p, r.sep, r.page,
                                rng2, lvl2, chain2)
      BY <1>5, <1>12 DEF own, own2, file2
    <3> QED
      BY <3>1
  <2>5. Grows(base, K, V, s, root, lvl, ent, p, r)
    BY <1>4, <2>2, <2>3, <2>4 DEF Grows, Spares, own, own2, file2, n
  <2> QED
    BY <2>1, <2>5 DEF res
<1>13. CASE r.split
  <2>1. Pending(K, V, file2, own2, root, c, r.sep, r.page, rng2, lvl2, chain2)
    BY <1>5, <1>13
  <2>2. lvl2[p] = lvl[p] /\ lvl2[p] > 0 /\ lvl2[p] \in Nat
    BY <1>2, <1>5 DEF SameLevels, own
  <2>3. ToSet(EntriesOf(file2[p])) = {}
    BY <1>2, <1>6, InnerFacts
  <2>4. /\ Absorbs(K, V, file2, own2, root, p, keys, children, rng2, lvl2, chain2)
        /\ Len(keys) = Len(node.keys) + 1
    <3>1. /\ idx \in 1 .. Len(file2[p].children) /\ file2[p].children[idx] = c
          /\ keys = InsertAt(file2[p].keys, idx, r.sep)
          /\ children = InsertAt(file2[p].children, idx + 1, r.page)
      BY <1>6 DEF idx, node, keys, children
    <3>2. /\ Absorbs(K, V, file2, own2, root, p, keys, children, rng2, lvl2, chain2)
          /\ Len(keys) = Len(file2[p].keys) + 1
      BY <1>9, <2>1, <2>2, <3>1, SplitAbsorbed
    <3> QED
      BY <1>6, <3>2
  <2>5. Len(node.keys) \in 1 .. MAX_INTERNAL_KEYS
    BY <1>2 DEF InnerOK
  <2>6. CASE Len(keys) <= MAX_INTERNAL_KEYS
    <3> DEFINE new == Internal(keys, children)
               t == Put(r.store, p, new)
    <3>1. /\ GoodStore(t) /\ t.hdr = r.store.hdr
          /\ \A q \in PageId : t.file[q] = IF q = p THEN new ELSE file2[q]
      <4>1. GoodStore(r.store) /\ p \in PageId \ {0}
        BY <1>4, <1>11
      <4> HIDE DEF new
      <4>2. GoodStore(t) /\ t.hdr = r.store.hdr
        BY <4>1, PutPageFacts
      <4>3. \A q \in PageId : t.file[q] = IF q = p THEN new ELSE r.store.file[q]
        BY <4>1, PutPageFacts
      <4> QED
        BY <4>2, <4>3 DEF file2
    <3>2. res = NoSplit(t)
      BY <1>7, <1>13, <2>6
    <3>3. res.store = t /\ res.split = FALSE
      <4> HIDE DEF t
      <4> QED
        BY <3>2 DEF NoSplit
    <3> HIDE DEF t
    <3>4. \A q \in own2 : t.file[q] = IF q = p THEN Internal(keys, children) ELSE file2[q]
      BY <1>9, <3>1
    <3> HIDE DEF new
    <3>5. Len(keys) \in 1 .. MAX_INTERNAL_KEYS
      BY <2>4, <2>5, <2>6, FanoutAssumption
    <3>6. Tree(K, V, t.file, own2, root, rng2, lvl2, chain2)
      BY <2>4, <3>4, <3>5, SplitEnds
    <3>7. Held(t.file, own2) = Held(file2, own2)
      BY <2>3, <2>4, <3>4, <3>5, SplitEnds
    <3>8. res.store.hdr.num_pages \in s.hdr.num_pages .. s.hdr.num_pages + lvl[p] + 1
      BY <1>1, <1>2, <1>8, <3>1, <3>3 DEF n
    <3>9. Held(res.store.file, Own(base, res.store.hdr)) = Held(s.file, Own(base, s.hdr)) \cup {ent}
      BY <1>4, <3>1, <3>3, <3>7 DEF own, own2
    <3>10. Spares(base, s, res.store)
      <4> SUFFICES ASSUME NEW q \in PageId \ {0}, q \notin own2 PROVE t.file[q] = s.file[q]
        BY <3>1, <3>3, <3>8 DEF own2, Spares
      <4>1. q # p
        BY <1>9
      <4> QED
        BY <1>4, <3>1, <4>1
    <3>11. \A q \in Own(base, s.hdr) : lvl[q] > lvl[p] => res.store.file[q] = s.file[q]
      BY <1>9, <1>10, <3>1, <3>3 DEF own
    <3>12. /\ SameLevels(Own(base, s.hdr), lvl, lvl2)
           /\ ~res.split => Tree(K, V, res.store.file, Own(base, res.store.hdr), root, rng2, lvl2, chain2)
           /\ res.split => Pending(K, V, res.store.file, Own(base, res.store.hdr), root, p, res.sep, res.page,
                                   rng2, lvl2, chain2)
      BY <1>5, <3>1, <3>3, <3>6 DEF own, own2
    <3> QED
      BY <3>1, <3>3, <3>8, <3>9, <3>10, <3>11, <3>12 DEF Grows, res
  <2>7. CASE ~(Len(keys) <= MAX_INTERNAL_KEYS)
    <3> DEFINE mid == Len(keys) \div 2
               a == Internal(SubSeq(keys, 1, mid), SubSeq(children, 1, mid + 1))
               b == Internal(SubSeq(keys, mid + 2, Len(keys)),
                             SubSeq(children, mid + 2, Len(children)))
               t == Put(Put(Alloc(r.store), p, a), n, b)
               sep == keys[mid + 1]
    <3>1. /\ mid \in 1 .. MAX_INTERNAL_KEYS
          /\ Len(keys) - mid - 1 \in 1 .. MAX_INTERNAL_KEYS
      <4>1. Len(keys) = MAX_INTERNAL_KEYS + 1 /\ MAX_INTERNAL_KEYS \in Nat /\ MAX_INTERNAL_KEYS >= 2
        BY <2>4, <2>5, <2>7, FanoutAssumption
      <4>2. PICK m \in Nat : m = MAX_INTERNAL_KEYS /\ m >= 2 /\ Len(keys) = m + 1
        BY <4>1
      <4> HIDE DEF keys
      <4>3. mid = (m + 1) \div 2
        BY <4>2
      <4>4. Len(keys) - mid - 1 = m - mid
        BY <4>2, <4>3
      <4> HIDE DEF mid
      <4>5. mid \in 1 .. m /\ m - mid \in 1 .. m
        BY <4>2, <4>3
      <4> QED
        BY <4>2, <4>4, <4>5
    <3>2. AllocPage(r.store.hdr) = n /\ n \in PageId \ {0}
      BY <1>4, <1>8, AllocFacts DEF n
    <3>3. SplitStore(r.store, p, a, b, t)
      <4> HIDE DEF a, b
      <4>1. n < MaxPages /\ p # n
        BY <1>8, <1>11
      <4> QED
        BY <1>4, <1>11, <4>1, SplitStoreFacts DEF n
    <3>4. res = Split(t, sep, n)
      BY <1>7, <1>13, <2>7, <3>2 DEF HalveInternal
    <3>5. res.store = t /\ res.split = TRUE /\ res.sep = sep /\ res.page = n
      <4> HIDE DEF t, sep
      <4> QED
        BY <3>4 DEF Split
    <3> HIDE DEF t
    <3>6. /\ GoodStore(t) /\ t.hdr.num_pages = n + 1
          /\ \A q \in PageId \ {0} :
               t.file[q] = IF q = n THEN b ELSE IF q = p THEN a ELSE file2[q]
      <4> HIDE DEF a, b
      <4> QED
        BY <3>3 DEF SplitStore, n, file2
    <3>7. Own(base, t.hdr) = own2 \cup {n} /\ n \notin own2
      <4>1. r.store.hdr.num_pages \in 1 .. MaxPages /\ t.hdr.num_pages = r.store.hdr.num_pages + 1
        BY <1>8, <3>6 DEF n
      <4> QED
        BY <1>9, <4>1, OwnGrows DEF own2, n
    <3>8. HalvesInner(file2, own2, p, n, keys, children, mid, sep, t.file)
      <4>1. t.file[n] = b /\ t.file[p] = a /\ \A q \in own2 \ {p} : t.file[q] = file2[q]
        <5> HIDE DEF a, b
        <5>1. p # n /\ p \in PageId \ {0} /\ n \in PageId \ {0}
              /\ \A q \in own2 \ {p} : q # n /\ q # p /\ q \in PageId \ {0}
          BY <1>9, <1>11, <3>2, <3>7
        <5> QED
          BY <3>6, <5>1
      <4> HIDE DEF mid
      <4> QED
        BY <3>1, <4>1 DEF HalvesInner
    <3> HIDE DEF a, b, mid, sep
    <3>9. PICK rng3, lvl3 :
            /\ Pending(K, V, t.file, own2 \cup {n}, root, p, sep, n, rng3, lvl3, chain2)
            /\ SameLevels(own2, lvl2, lvl3)
      BY <2>3, <2>4, <3>2, <3>7, <3>8, SplitGoesOn
    <3>10. Held(t.file, own2 \cup {n}) = Held(file2, own2)
      BY <2>3, <2>4, <3>2, <3>7, <3>8, SplitGoesOn
    <3>11. res.store.hdr.num_pages \in s.hdr.num_pages .. s.hdr.num_pages + lvl[p] + 1
      BY <1>1, <1>2, <1>8, <3>5, <3>6
    <3>12. Held(res.store.file, Own(base, res.store.hdr)) = Held(s.file, Own(base, s.hdr)) \cup {ent}
      BY <1>4, <3>5, <3>7, <3>10 DEF own
    <3>13. Spares(base, s, res.store)
      <4> SUFFICES ASSUME NEW q \in PageId \ {0}, q \notin own2 \cup {n}
                   PROVE  t.file[q] = s.file[q]
        BY <3>5, <3>7, <3>11 DEF Spares
      <4>1. q # n /\ q # p /\ q \notin own2
        BY <1>9
      <4> QED
        BY <1>4, <3>6, <4>1
    <3>14. \A q \in Own(base, s.hdr) : lvl[q] > lvl[p] => res.store.file[q] = s.file[q]
      <4> SUFFICES ASSUME NEW q \in own, lvl[q] > lvl[p] PROVE t.file[q] = s.file[q]
        BY <3>5 DEF own
      <4>1. q # n /\ q # p /\ q \in PageId \ {0} /\ file2[q] = s.file[q]
        BY <1>9, <1>10, <3>7
      <4> QED
        BY <3>6, <4>1
    <3>15. SameLevels(own, lvl, lvl3)
      BY <1>5, <1>9, <3>9 DEF SameLevels
    <3>16. /\ SameLevels(Own(base, s.hdr), lvl, lvl3)
           /\ ~res.split => Tree(K, V, res.store.file, Own(base, res.store.hdr), root, rng3, lvl3, chain2)
           /\ res.split => Pending(K, V, res.store.file, Own(base, res.store.hdr), root, p, res.sep, res.page,
                                   rng3, lvl3, chain2)
      BY <3>5, <3>7, <3>9, <3>15 DEF own
    <3> QED
      BY <3>5, <3>6, <3>11, <3>12, <3>13, <3>14, <3>16 DEF Grows, res
  <2> QED
    BY <2>6, <2>7
<1> QED
  BY <1>4, <1>12, <1>13

\* The recursion of InsertRecursive has a solution.
LEMMA InsertRecursion ==
    ASSUME NEW s, NEW root, NEW e, NEW path, path = FindPath(s.file, root, e.key),
           Len(path) \in Nat \ {0}
    PROVE  \E g : /\ InsertRecursive(s, root, e) = g[1]
                  /\ g[Len(path)] = InsertIntoLeaf(s, path[Len(path)], e)
                  /\ \A i \in 1 .. Len(path) - 1 :
                       g[i] = InsertIntoInternal(path[i], e.key, g[i + 1])
<1> DEFINE n == Len(path)
           Body(g, i) == IF i = n THEN InsertIntoLeaf(s, path[i], e)
                         ELSE InsertIntoInternal(path[i], e.key, g[i + 1])
           T == {m \in Nat : m < n => \E g : g = [i \in n - m .. n |-> Body(g, i)]}
<1>1. ASSUME NEW m \in Nat, \A l \in Nat : l < m => l \in T
      PROVE  m \in T
  <2> SUFFICES ASSUME m < n PROVE \E g : g = [i \in n - m .. n |-> Body(g, i)]
    OBVIOUS
  <2>1. CASE m = 0
    <3> DEFINE g == [i \in n .. n |-> InsertIntoLeaf(s, path[i], e)]
    <3>1. n - m = n /\ \A i \in n .. n : i = n
      BY <2>1
    <3>2. g = [i \in n .. n |-> Body(g, i)]
      <4>1. \A i \in n .. n : Body(g, i) = InsertIntoLeaf(s, path[i], e)
        BY <3>1
      <4> HIDE DEF Body, n
      <4> QED
        BY <4>1
    <3> HIDE DEF g, Body, n
    <3> QED
      BY <3>1, <3>2
  <2>2. CASE m # 0
    <3>1. m - 1 \in T /\ m - 1 < n
      <4> HIDE DEF T
      <4> QED
        BY <1>1, <2>2
    <3>2. PICK g : g = [i \in n - (m - 1) .. n |-> Body(g, i)]
      BY <3>1
    <3> DEFINE a == n - m
               h == [i \in a .. n |-> IF i = a THEN Body(g, i) ELSE g[i]]
    <3>3. /\ n - (m - 1) = a + 1 /\ a \in Nat /\ a < n
          /\ \A i \in a .. n : i = a \/ i \in a + 1 .. n
          /\ \A i \in a .. n : i # n => i + 1 \in a + 1 .. n
          /\ \A i \in a + 1 .. n : i \in a .. n /\ i # a
      BY <2>2
    <3> HIDE DEF a, n
    <3>4. \A i \in a + 1 .. n : h[i] = g[i]
      BY <3>3
    <3>5. \A i \in a .. n : Body(h, i) = Body(g, i)
      <4> HIDE DEF h
      <4> QED
        BY <3>3, <3>4
    <3>6. \A i \in a + 1 .. n : g[i] = Body(g, i)
      <4> HIDE DEF Body
      <4> QED
        BY <3>2, <3>3
    <3>7. h = [i \in a .. n |-> Body(h, i)]
      <4>1. \A i \in a .. n : (IF i = a THEN Body(g, i) ELSE g[i]) = Body(g, i)
        <5> HIDE DEF Body
        <5> QED
          BY <3>3, <3>6
      <4>2. \A i \in a .. n : (IF i = a THEN Body(g, i) ELSE g[i]) = Body(h, i)
        <5> HIDE DEF Body, h
        <5> QED
          BY <3>5, <4>1
      <4>3. h = [i \in a .. n |-> IF i = a THEN Body(g, i) ELSE g[i]]
        OBVIOUS
      <4> HIDE DEF Body, h
      <4> QED
        BY <4>2, <4>3
    <3> HIDE DEF h
    <3> QED
      BY <3>7 DEF a
  <2> QED
    BY <2>1, <2>2
<1>2. T = Nat
  <2> HIDE DEF T
  <2> QED
    BY <1>1, AllNumbers DEF T
<1>3. \E g : g = [i \in 1 .. n |-> Body(g, i)]
  <2>1. n - 1 \in Nat /\ n - 1 < n /\ n - (n - 1) = 1
    OBVIOUS
  <2>2. n - 1 \in T
    <3> HIDE DEF T, n
    <3> QED
      BY <1>2, <2>1
  <2>3. \E g : g = [i \in n - (n - 1) .. n |-> Body(g, i)]
    <3> HIDE DEF Body, n
    <3> QED
      BY <2>1, <2>2
  <2> HIDE DEF Body, n
  <2> QED
    BY <2>1, <2>3
<1>4. PICK g : g = [i \in 1 .. n |-> Body(g, i)] /\ InsertRecursive(s, root, e) = g[1]
  <2>1. InsertRecursive(s, root, e) = (CHOOSE g : g = [i \in 1 .. n |-> Body(g, i)])[1]
    BY DEF InsertRecursive
  <2> HIDE DEF Body, n
  <2> QED
    BY <1>3, <2>1
<1>5. \A i \in 1 .. n : g[i] = Body(g, i)
  <2> HIDE DEF Body
  <2> QED
    BY <1>4
<1>6. g[n] = InsertIntoLeaf(s, path[n], e)
  <2>1. n \in 1 .. n
    OBVIOUS
  <2> HIDE DEF n
  <2> QED
    BY <1>5, <2>1
<1>7. \A i \in 1 .. n - 1 : g[i] = InsertIntoInternal(path[i], e.key, g[i + 1])
  <2>1. \A i \in 1 .. n - 1 : i \in 1 .. n /\ i # n
    OBVIOUS
  <2> HIDE DEF n
  <2> QED
    BY <1>5, <2>1
<1> QED
  BY <1>4, <1>6, <1>7

\* What insert_recursive returns from the root.
LEMMA InsertGrows ==
    ASSUME NEW base, NEW K, NEW V, NEW s, NEW root, NEW rng, NEW lvl, NEW chain,
           Stands(base, K, V, s, root, rng, lvl, chain),
           NEW e \in [key : K, value : V],
           s.hdr.num_pages + lvl[root] + 2 <= MaxPages,
           \A x \in Held(s.file, Own(base, s.hdr)) : x.key # e.key
    PROVE  Grows(base, K, V, s, root, lvl, e, root, InsertRecursive(s, root, e))
<1> DEFINE path == FindPath(s.file, root, e.key)
           n == Len(path)
           own == Own(base, s.hdr)
<1>1. /\ DownFrom(own, lvl, root, path) /\ Follows(s.file, e.key, rng, path)
      /\ n \in Nat \ {0}
  <2>1. e.key \in K
    OBVIOUS
  <2> QED
    BY <2>1, FindLeafFacts
<1>2. /\ n = lvl[root] + 1 /\ path[1] = root
      /\ \A i \in 1 .. n : path[i] \in own /\ lvl[path[i]] = n - i
  BY <1>1 DEF DownFrom
<1>3. PICK g : /\ InsertRecursive(s, root, e) = g[1]
               /\ g[n] = InsertIntoLeaf(s, path[n], e)
               /\ \A i \in 1 .. n - 1 : g[i] = InsertIntoInternal(path[i], e.key, g[i + 1])
  BY <1>1, InsertRecursion
<1>4. s.hdr.num_pages \in Nat /\ MaxPages \in Nat /\ lvl[root] \in Nat
  <2>1. s.hdr.num_pages \in 1 .. MaxPages /\ MaxPages \in Nat
    BY StandsPages
  <2>2. lvl[root] = n - 1
    BY <1>1, <1>2
  <2> HIDE DEF n
  <2> QED
    BY <1>1, <2>1, <2>2
<1> HIDE DEF path, n, own
<1> DEFINE T == {m \in Nat : m < n => Grows(base, K, V, s, root, lvl, e, path[n - m], g[n - m])}
<1>5. ASSUME NEW m \in Nat, \A l \in Nat : l < m => l \in T
      PROVE  m \in T
  <2> SUFFICES ASSUME m < n PROVE Grows(base, K, V, s, root, lvl, e, path[n - m], g[n - m])
    OBVIOUS
  <2>1. PICK i \in 1 .. n : i = n - m
    <3>1. n - m \in 1 .. n
      BY <1>1
    <3> QED
      BY <3>1
  <2>2. path[i] \in Own(base, s.hdr) /\ lvl[path[i]] = m
    BY <1>1, <1>2, <2>1 DEF own
  <2>3. CASE i = n
    <3> DEFINE l == path[n]
    <3>1. m = 0
      BY <1>1, <2>1, <2>3
    <3>2. l \in Own(base, s.hdr) /\ lvl[l] = 0 /\ e.key \in rng[l]
      <4>1. e.key \in rng[path[n]]
        BY <2>3, <1>1 DEF Follows, n
      <4> QED
        BY <2>2, <2>3, <3>1, <4>1
    <3>3. e \in [key : rng[l], value : V]
      <4>1. e = [key |-> e.key, value |-> e.value] /\ e.value \in V
        OBVIOUS
      <4> HIDE DEF l
      <4> QED
        BY <3>2, <4>1
    <3>4. s.hdr.num_pages + 1 <= MaxPages
      BY <1>4
    <3> HIDE DEF l
    <3>5. Grows(base, K, V, s, root, lvl, e, l, InsertIntoLeaf(s, l, e))
      BY <3>2, <3>3, <3>4, LeafGrows
    <3> QED
      BY <1>3, <2>1, <2>3, <3>5 DEF l
  <2>4. CASE i # n
    <3>1. /\ i \in 1 .. n - 1 /\ m - 1 \in Nat /\ m - 1 < m /\ m - 1 < n /\ n - (m - 1) = i + 1
          /\ m # 0 /\ m <= lvl[root]
      BY <1>1, <1>2, <1>4, <2>1, <2>4
    <3>2. m - 1 \in T
      <4> HIDE DEF T
      <4> QED
        BY <1>5, <3>1
    <3>3. Grows(base, K, V, s, root, lvl, e, path[i + 1], g[i + 1])
      BY <3>1, <3>2
    <3> DEFINE p == path[i]
               at == ChildIndex(s.file[p].keys, e.key)
    <3>4. /\ at \in 1 .. Len(s.file[p].children)
          /\ path[i + 1] = s.file[p].children[at]
      BY <1>1, <3>1 DEF Follows, n
    <3>5. s.hdr.num_pages + lvl[p] + 1 <= MaxPages
      BY <1>4, <2>2, <3>1
    <3>6. p \in Own(base, s.hdr) /\ lvl[p] # 0
      BY <2>2, <3>1
    <3> HIDE DEF p
    <3>7. Grows(base, K, V, s, root, lvl, e, p, InsertIntoInternal(p, e.key, g[i + 1]))
      BY <3>3, <3>4, <3>5, <3>6, InnerGrows
    <3> QED
      BY <1>3, <2>1, <3>1, <3>7 DEF p
  <2> QED
    BY <2>3, <2>4
<1>6. T = Nat
  <2> HIDE DEF T
  <2> QED
    BY <1>5, AllNumbers DEF T
<1>7. n - 1 \in Nat /\ n - 1 < n /\ n - (n - 1) = 1
  BY <1>1
<1>8. n - 1 \in T
  <2> HIDE DEF T
  <2> QED
    BY <1>6, <1>7
<1>9. Grows(base, K, V, s, root, lvl, e, path[1], g[1])
  BY <1>7, <1>8
<1> QED
  BY <1>2, <1>3, <1>9

-----------------------------------------------------------------------------
(* The operations.                                                         *)

\* The store holds a tree with these entries.
Holds(base, K, V, s, root, held) ==
    /\ GoodStore(s) /\ Based(base, s.hdr)
    /\ \E rng, lvl, chain : Tree(K, V, s.file, Own(base, s.hdr), root, rng, lvl, chain)
    /\ Held(s.file, Own(base, s.hdr)) = held

\* An insert of a new key adds its entry, whatever splits and wherever they end.
LEMMA InsertFacts ==
    ASSUME NEW base, NEW K, NEW V, NEW s, NEW root, NEW rng, NEW lvl, NEW chain,
           Stands(base, K, V, s, root, rng, lvl, chain),
           NEW k \in K, NEW v \in V,
           s.hdr.num_pages + Len(FindPath(s.file, root, k)) + 1 <= MaxPages,
           \A x \in Held(s.file, Own(base, s.hdr)) : x.key # k
    PROVE  /\ Insert(s, root, k, v).ok = TRUE
           /\ Holds(base, K, V, Insert(s, root, k, v).store, Insert(s, root, k, v).root,
                    Held(s.file, Own(base, s.hdr)) \cup {Entry(k, v)})
           /\ Spares(base, s, Insert(s, root, k, v).store)
<1> DEFINE e == Entry(k, v)
           r == InsertRecursive(s, root, e)
           n == r.store.hdr.num_pages
           own2 == Own(base, r.store.hdr)
           res == Insert(s, root, k, v)
           held2 == Held(s.file, Own(base, s.hdr)) \cup {e}
<1>1. e \in [key : K, value : V] /\ e.key = k
  BY DEF Entry
<1>2. /\ s.hdr.num_pages \in 1 .. MaxPages /\ MaxPages \in Nat /\ lvl[root] \in Nat
  <2>1. lvl \in [PageId -> Nat] /\ root \in Own(base, s.hdr) /\ Own(base, s.hdr) \subseteq PageId \ {0}
    BY StandsPages
  <2>2. lvl[root] \in Nat
    BY <2>1
  <2> QED
    BY <2>2, StandsPages
<1>3. s.hdr.num_pages + lvl[root] + 2 <= MaxPages
  <2>1. DownFrom(Own(base, s.hdr), lvl, root, FindPath(s.file, root, k))
    BY FindLeafFacts
  <2>2. Len(FindPath(s.file, root, k)) = lvl[root] + 1
    BY <2>1 DEF DownFrom
  <2> QED
    BY <1>2, <2>2
<1>4. Grows(base, K, V, s, root, lvl, e, root, r)
  <2> HIDE DEF e
  <2>1. \A x \in Held(s.file, Own(base, s.hdr)) : x.key # e.key
    BY <1>1
  <2> QED
    BY <1>1, <1>3, <2>1, InsertGrows
<1>5. Found(s.file, root, k) = <<>>
  BY FoundFacts
<1>6. res = GrowRoot(root, r)
  BY <1>5 DEF Insert
<1>7. /\ GoodStore(r.store) /\ r.split \in BOOLEAN
      /\ n \in s.hdr.num_pages .. s.hdr.num_pages + lvl[root] + 1
      /\ Spares(base, s, r.store)
      /\ Held(r.store.file, own2) = held2
  BY <1>4 DEF Grows
<1>8. PICK rng2, lvl2, chain2 :
         /\ ~r.split => Tree(K, V, r.store.file, own2, root, rng2, lvl2, chain2)
         /\ r.split => Pending(K, V, r.store.file, own2, root, root, r.sep, r.page,
                               rng2, lvl2, chain2)
  BY <1>4 DEF Grows
<1> HIDE DEF r, res, e
<1>9. n \in 1 .. MaxPages /\ n < MaxPages
  <2>1. /\ s.hdr.num_pages \in 1 .. MaxPages /\ lvl[root] \in Nat /\ MaxPages \in Nat
        /\ s.hdr.num_pages + lvl[root] + 2 <= MaxPages
        /\ n \in s.hdr.num_pages .. s.hdr.num_pages + lvl[root] + 1
    BY <1>2, <1>3, <1>7
  <2> HIDE DEF n
  <2> QED
    BY <2>1
<1>12. Based(base, r.store.hdr)
  <2>1. Based(base, s.hdr) /\ n >= s.hdr.num_pages
    BY <1>2, <1>7 DEF Stands
  <2> QED
    BY <1>2, <1>9, <2>1 DEF Based
<1>10. CASE ~r.split
  <2>1. res = [ok |-> TRUE, root |-> root, store |-> r.store]
    BY <1>6, <1>10 DEF GrowRoot
  <2>2. res.ok = TRUE /\ res.root = root /\ res.store = r.store
    BY <2>1
  <2>3. Tree(K, V, res.store.file, own2, res.root, rng2, lvl2, chain2)
    BY <1>8, <1>10, <2>2
  <2>4. Holds(base, K, V, res.store, res.root, held2) /\ Spares(base, s, res.store)
    BY <1>7, <1>12, <2>2, <2>3 DEF Holds
  <2> QED
    BY <2>2, <2>4 DEF res, e
<1>11. CASE r.split
  <2> DEFINE a == Alloc(r.store)
             new == Internal(<<r.sep>>, <<root, r.page>>)
             t == Put(a, n, new)
  <2>1. /\ GoodStore(a) /\ AllocPage(r.store.hdr) = n /\ n \in PageId \ {0}
        /\ a.hdr.num_pages = n + 1
        /\ \A q \in PageId \ {0, n} : a.file[q] = r.store.file[q]
    BY <1>7, <1>9, AllocFacts
  <2> HIDE DEF a, new
  <2>2. /\ GoodStore(t) /\ t.hdr = a.hdr
        /\ \A q \in PageId : t.file[q] = IF q = n THEN new ELSE a.file[q]
    BY <2>1, PutPageFacts
  <2>3. res = [ok |-> TRUE, root |-> n, store |-> t]
    BY <1>6, <1>11, <2>1 DEF GrowRoot, a, new
  <2> HIDE DEF t
  <2>4. res.ok = TRUE /\ res.root = n /\ res.store = t
    BY <2>3
  <2>5. Own(base, t.hdr) = own2 \cup {n} /\ n \notin own2
    <3>1. r.store.hdr.num_pages \in 1 .. MaxPages /\ t.hdr.num_pages = r.store.hdr.num_pages + 1
      BY <1>9, <2>1, <2>2
    <3> QED
      BY <1>12, <3>1, OwnGrows
  <2>6. own2 \subseteq PageId \ {0}
    BY <1>9, <1>12, OwnFacts
  <2>7. t.file[n] = Internal(<<r.sep>>, <<root, r.page>>)
        /\ \A u \in own2 : t.file[u] = r.store.file[u]
    BY <2>1, <2>2, <2>5, <2>6 DEF new
  <2>8. Pending(K, V, r.store.file, own2, root, root, r.sep, r.page, rng2, lvl2, chain2)
    BY <1>8, <1>11
  <2> HIDE DEF own2
  <2>9. /\ \E rng3, lvl3 : Tree(K, V, t.file, own2 \cup {n}, n, rng3, lvl3, chain2)
        /\ Held(t.file, own2 \cup {n}) = Held(r.store.file, own2)
    <3> DEFINE top == n
               f2 == r.store.file
    <3>1. /\ t.file[top] = Internal(<<r.sep>>, <<root, r.page>>)
          /\ \A u \in own2 : t.file[u] = f2[u]
          /\ Pending(K, V, f2, own2, root, root, r.sep, r.page, rng2, lvl2, chain2)
          /\ top \in PageId \ {0} /\ top \notin own2
      BY <2>1, <2>5, <2>7, <2>8
    <3> HIDE DEF top, f2
    <3>4. GetsRoot(K, V, f2, own2, root, r.sep, r.page, rng2, lvl2, chain2, top, t.file)
      BY <3>1 DEF GetsRoot
    <3>2. \E rng3, lvl3 : Tree(K, V, t.file, own2 \cup {top}, top, rng3, lvl3, chain2)
      BY <3>4, RootGrows
    <3>3. Held(t.file, own2 \cup {top}) = Held(f2, own2)
      BY <3>4, RootGrows
    <3> QED
      BY <3>2, <3>3 DEF top, f2
  <2>10. PICK rng3, lvl3 : Tree(K, V, t.file, own2 \cup {n}, n, rng3, lvl3, chain2)
    BY <2>9
  <2>11. Spares(base, s, t)
    <3>3. s.hdr.num_pages <= t.hdr.num_pages
      BY <1>2, <1>7, <2>1, <2>2
    <3> SUFFICES ASSUME NEW q \in PageId \ {0}, q \notin own2 \cup {n}
                 PROVE  t.file[q] = s.file[q]
      BY <2>5, <3>3 DEF Spares
    <3>1. q # n /\ q \notin own2
      OBVIOUS
    <3>2. r.store.file[q] = s.file[q]
      BY <1>7, <3>1 DEF Spares, own2
    <3> QED
      BY <2>1, <2>2, <3>1, <3>2
  <2>12. Based(base, t.hdr) /\ Tree(K, V, t.file, Own(base, t.hdr), n, rng3, lvl3, chain2)
    <3>1. t.hdr.num_pages = n + 1
      BY <2>1, <2>2
    <3>2. Based(base, t.hdr)
      BY <1>2, <1>9, <1>12, <3>1 DEF Based
    <3> QED
      BY <2>5, <2>10, <3>2
  <2>13. Held(t.file, Own(base, t.hdr)) = held2
    BY <1>7, <2>5, <2>9
  <2>14. Holds(base, K, V, t, n, held2)
    BY <2>2, <2>12, <2>13 DEF Holds
  <2> QED
    BY <2>4, <2>11, <2>14 DEF res, e
<1> QED
  BY <1>7, <1>10, <1>11

\* A leaf of the tree is written back with other entries for its keys.
LEMMA LeafPut ==
    ASSUME NEW base, NEW K, NEW V, NEW s, NEW root, NEW rng, NEW lvl, NEW chain,
           Stands(base, K, V, s, root, rng, lvl, chain),
           NEW l \in Own(base, s.hdr), lvl[l] = 0, NEW node, LeafOK(rng[l], V, node),
           node.next = s.file[l].next
    PROVE  /\ Holds(base, K, V, Put(s, l, node), root,
                    HeldWith(s.file, Own(base, s.hdr), rng[l], node.entries))
           /\ Spares(base, s, Put(s, l, node))
<1> DEFINE own == Own(base, s.hdr)
           t == Put(s, l, node)
           n == s.hdr.num_pages
<1>1. GoodStore(s) /\ Based(base, s.hdr)
  BY DEF Stands
<1>2. Tree(K, V, s.file, own, root, rng, lvl, chain)
  BY DEF Stands
<1>3. own \subseteq PageId \ {0} /\ l \in own /\ n \in Nat
  <2>1. own \subseteq PageId \ {0} /\ n \in 1 .. MaxPages
    BY StandsPages
  <2> QED
    BY <2>1
<1>4. /\ GoodStore(t) /\ t.hdr = s.hdr
      /\ \A q \in PageId : t.file[q] = IF q = l THEN node ELSE s.file[q]
  <2>1. l \in PageId \ {0}
    BY <1>3
  <2> QED
    BY <1>1, <2>1, PutPageFacts
<1> HIDE DEF t
<1>5. \A q \in own : t.file[q] = IF q = l THEN node ELSE s.file[q]
  BY <1>3, <1>4
<1>6. Spares(base, s, t)
  BY <1>3, <1>4 DEF Spares
<1> DEFINE after == t.file
           before == s.file
<1>7. Tree(K, V, before, own, root, rng, lvl, chain) /\ node.next = before[l].next
      /\ \A q \in own : after[q] = IF q = l THEN node ELSE before[q]
  BY <1>2, <1>5
<1> HIDE DEF own, after, before
<1>8. Tree(K, V, after, own, root, rng, lvl, chain)
  BY <1>3, <1>7, LeafRewritten
<1>9. Held(after, own) = {e \in Held(before, own) : e.key \notin rng[l]} \cup ToSet(node.entries)
  BY <1>3, <1>7, HeldRewritten
<1>10. Based(base, t.hdr) /\ Tree(K, V, t.file, Own(base, t.hdr), root, rng, lvl, chain)
  BY <1>1, <1>4, <1>8 DEF own, after
<1>11. Held(t.file, Own(base, t.hdr)) = HeldWith(s.file, Own(base, s.hdr), rng[l], node.entries)
  BY <1>4, <1>9 DEF HeldWith, own, after, before
<1> QED
  BY <1>4, <1>6, <1>10, <1>11 DEF Holds, t

\* The value of one entry is replaced.
Revalued(S, entries, at, v, t) ==
    /\ t \in Seq(S) /\ Len(t) = Len(entries) /\ KeysAscend(t)
    /\ ToSet(t) = {x \in ToSet(entries) : x.key # entries[at].key}
                    \cup {Entry(entries[at].key, v)}

\* Replacing the value of one entry.
LEMMA RevaluedFacts ==
    ASSUME NEW r \in SUBSET Int, NEW V, NEW entries \in Seq([key : r, value : V]),
           KeysAscend(entries), NEW at \in 1 .. Len(entries), NEW v \in V
    PROVE  Revalued([key : r, value : V], entries, at, v, [entries EXCEPT ![at].value = v])
<1> DEFINE S == [key : r, value : V]
           n == Len(entries)
           t == [entries EXCEPT ![at].value = v]
           new == Entry(entries[at].key, v)
<1>1. /\ n \in Nat /\ DOMAIN entries = 1 .. n /\ entries \in [1 .. n -> S]
      /\ \A i \in 1 .. n : entries[i] \in S
  BY LenProperties, ElementOfSeq
<1>2. entries[at].key \in r /\ new \in S /\ new.key = entries[at].key
  BY <1>1 DEF Entry
<1>3. [entries[at] EXCEPT !.value = v] = new
  BY <1>1 DEF Entry
<1>4. t = [entries EXCEPT ![at] = new]
  BY <1>3
<1> HIDE DEF t, new
<1>5. t \in [1 .. n -> S] /\ \A i \in 1 .. n : t[i] = IF i = at THEN new ELSE entries[i]
  <2> HIDE DEF S, n
  <2> QED
    BY <1>1, <1>2, <1>4 DEF n
<1>6. t \in Seq(S) /\ Len(t) = n
  <2> HIDE DEF S, n
  <2> QED
    BY <1>1, <1>5
<1>7. \A i \in 1 .. n : t[i].key = entries[i].key
  BY <1>2, <1>5
<1>8. KeysAscend(t)
  BY <1>6, <1>7 DEF KeysAscend
<1>9. \A i \in 1 .. n : i # at => entries[i].key # entries[at].key
  <2> SUFFICES ASSUME NEW i \in 1 .. n, i # at PROVE entries[i].key # entries[at].key
    OBVIOUS
  <2>1. entries[i].key \in Int /\ entries[at].key \in Int /\ (i < at \/ at < i)
    <3>1. entries[i].key \in r /\ entries[at].key \in r
      BY <1>1
    <3>2. i < at \/ at < i
      OBVIOUS
    <3>3. \A x \in r : x \in Int
      OBVIOUS
    <3> HIDE DEF n, S
    <3> QED
      BY <3>1, <3>2, <3>3
  <2>2. i < at => entries[i].key < entries[at].key
    BY DEF KeysAscend
  <2>3. at < i => entries[at].key < entries[i].key
    BY DEF KeysAscend
  <2> QED
    BY <2>1, <2>2, <2>3
<1>10. ToSet(t) = {x \in ToSet(entries) : x.key # entries[at].key} \cup {new}
  <2>1. DOMAIN t = 1 .. n
    BY <1>5
  <2>2. ToSet(t) = {t[i] : i \in 1 .. n} /\ ToSet(entries) = {entries[i] : i \in 1 .. n}
    BY <1>1, <2>1 DEF ToSet
  <2> HIDE DEF S
  <2>3. at \in 1 .. n
    OBVIOUS
  <2> HIDE DEF n
  <2>4. ASSUME NEW i \in 1 .. n
        PROVE  t[i] \in {x \in ToSet(entries) : x.key # entries[at].key} \cup {new}
    BY <1>5, <1>9, <2>2
  <2>5. ASSUME NEW i \in 1 .. n, entries[i].key # entries[at].key
        PROVE  entries[i] \in ToSet(t)
    BY <1>5, <2>2, <2>5
  <2>6. new \in ToSet(t)
    BY <1>5, <2>2, <2>3
  <2> QED
    BY <2>2, <2>4, <2>5, <2>6
<1> QED
  BY <1>6, <1>8, <1>10 DEF Revalued, t, new

\* When the key is not there, nothing is left out.
LEMMA WithoutAbsent ==
    ASSUME NEW S, NEW entries \in Seq(S), NEW k, \A i \in 1 .. Len(entries) : entries[i].key # k
    PROVE  Without(entries, k) = entries
<1> DEFINE n == Len(entries)
<1>1. n \in Nat /\ \A i \in 1 .. n : entries[i] \in S
  BY LenProperties, ElementOfSeq
<1>2. PICK g : /\ Without(entries, k) = g[n] /\ g[0] = <<>>
               /\ \A i \in 1 .. n :
                    g[i] = IF entries[i].key = k THEN g[i - 1] ELSE Append(g[i - 1], entries[i])
  BY WithoutRecursion
<1> HIDE DEF n
<1> DEFINE Good(i) == g[i] \in Seq(S) /\ Len(g[i]) = i /\ \A j \in 1 .. i : g[i][j] = entries[j]
           T == {m \in Nat : m <= n => Good(m)}
<1>3. ASSUME NEW m \in Nat, \A l \in Nat : l < m => l \in T
      PROVE  m \in T
  <2> SUFFICES ASSUME m <= n PROVE Good(m)
    OBVIOUS
  <2>1. CASE m = 0
    <3>1. <<>> \in Seq(S) /\ Len(<<>>) = 0 /\ \A j \in 1 .. 0 : <<>>[j] = entries[j]
      BY EmptySeq
    <3> QED
      BY <1>2, <2>1, <3>1
  <2>2. CASE m # 0
    <3>1. PICK a \in Nat : a = m - 1
      BY <2>2
    <3>2. a \in T /\ a < m /\ a <= n /\ m \in 1 .. n
      <4> HIDE DEF T
      <4> QED
        BY <1>1, <1>3, <2>2, <3>1
    <3>3. Good(a)
      BY <3>2
    <3>4. g[m] = Append(g[a], entries[m]) /\ entries[m] \in S
      BY <1>1, <1>2, <3>1, <3>2 DEF n
    <3>5. /\ g[m] \in Seq(S) /\ Len(g[m]) = a + 1
          /\ \A j \in 1 .. a : g[m][j] = g[a][j]
          /\ g[m][a + 1] = entries[m]
      BY <3>3, <3>4, AppendProperties
    <3>6. a + 1 = m /\ \A j \in 1 .. m : j \in 1 .. a \/ j = m
      BY <3>1
    <3> QED
      BY <3>3, <3>5, <3>6
  <2> QED
    BY <2>1, <2>2
<1>4. T = Nat
  <2> HIDE DEF T
  <2> QED
    BY <1>3, AllNumbers DEF T
<1>5. Good(n)
  <2>1. n \in T
    <3> HIDE DEF T
    <3> QED
      BY <1>1, <1>4
  <2> QED
    BY <1>1, <2>1
<1>6. g[n] = entries
  BY <1>5, SeqEqual DEF n
<1> QED
  BY <1>2, <1>6 DEF n

HasKey(held, k) == \E x \in held : x.key = k

\* The entries without the key k.
Others(held, k) == {x \in held : x.key # k}

\* What an operation that rewrites one leaf answers, and what it leaves.
Done(base, K, V, s, root, u, held) ==
    /\ u.ok = TRUE /\ u.store.hdr = s.hdr
    /\ Holds(base, K, V, u.store, root, held)
    /\ Spares(base, s, u.store)

Refused(s, u) == u.ok = FALSE /\ u.store = s

\* An update replaces the entry of its key, or finds none and writes nothing.
LEMMA UpdateFacts ==
    ASSUME NEW base, NEW K, NEW V, NEW s, NEW root, NEW rng, NEW lvl, NEW chain,
           Stands(base, K, V, s, root, rng, lvl, chain),
           NEW k \in K, NEW v \in V,
           NEW held, held = Held(s.file, Own(base, s.hdr))
    PROVE  /\ HasKey(held, k) =>
                Done(base, K, V, s, root, Update(s, root, k, v), Others(held, k) \cup {Entry(k, v)})
           /\ ~HasKey(held, k) => Refused(s, Update(s, root, k, v))
<1> DEFINE l == FindLeaf(s.file, root, k)
           node == s.file[l]
           entries == EntriesOf(node)
           at == PositionOf(entries, k)
           r == rng[l]
           S == [key : r, value : V]
           u == Update(s, root, k, v)
<1>1. l \in Own(base, s.hdr) /\ lvl[l] = 0 /\ k \in r
  BY FindLeafFacts
<1>2. u = IF at = 0 THEN [ok |-> FALSE, store |-> s]
          ELSE [ok |-> TRUE, store |-> Put(s, l, [node EXCEPT !.entries[at].value = v])]
  BY DEF Update
<1> HIDE DEF l, u
<1>3. /\ LeafOK(r, V, node) /\ entries = node.entries
      /\ entries \in Seq(S) /\ KeysAscend(entries)
  <2>1. LeafOK(r, V, node)
    BY <1>1, LeafEntries
  <2>2. entries = node.entries
    BY <2>1, LeafFacts
  <2>3. entries \in Seq(S) /\ KeysAscend(entries)
    BY <1>1, LeafEntries
  <2> QED
    BY <2>1, <2>2, <2>3
<1>4. ToSet(entries) = {x \in held : x.key \in r}
  <2>1. ToSet(entries) = HeldIn(s.file, Own(base, s.hdr), r)
    BY <1>1, LeafHolds
  <2> QED
    BY <2>1 DEF HeldIn
<1>5. r \in SUBSET Int
  <2>1. rng[l] \subseteq Int
    BY <1>1, LeafKeys
  <2> QED
    BY <2>1
<1>6. /\ at \in 0 .. Len(entries)
      /\ at # 0 => entries[at].key = k
      /\ at = 0 => \A i \in 1 .. Len(entries) : entries[i].key # k
  <2> HIDE DEF entries, S
  <2> QED
    BY <1>3, PositionFacts
<1>7. Len(entries) \in Nat /\ DOMAIN entries = 1 .. Len(entries)
  <2> HIDE DEF entries, S
  <2> QED
    BY <1>3, LenProperties
<1> HIDE DEF at, entries, S
<1>8. CASE at = 0
  <2>1. u.ok = FALSE /\ u.store = s
    BY <1>2, <1>8
  <2>2. \A x \in held : x.key # k
    <3>1. \A x \in ToSet(entries) : x.key # k
      BY <1>6, <1>7, <1>8 DEF ToSet
    <3> QED
      BY <1>1, <1>4, <3>1
  <2> QED
    BY <2>1, <2>2 DEF u, HasKey, Refused
<1>9. CASE at # 0
  <2> DEFINE t == [entries EXCEPT ![at].value = v]
             new == [node EXCEPT !.entries[at].value = v]
  <2>1. at \in 1 .. Len(entries) /\ entries[at].key = k
    BY <1>6, <1>7, <1>9
  <2>2. Revalued(S, entries, at, v, t)
    BY <1>3, <1>5, <2>1, RevaluedFacts DEF S
  <2>3. new = Leaf(t, node.next)
    <3>1. node = Leaf(node.entries, node.next)
      BY <1>3 DEF LeafOK
    <3>2. new = [node EXCEPT !.entries = t]
      BY <1>3
    <3> HIDE DEF t, new, node
    <3> QED
      BY <3>1, <3>2 DEF Leaf
  <2> HIDE DEF t
  <2>4. u.ok = TRUE /\ u.store = Put(s, l, new)
    BY <1>2, <1>9
  <2>5. new.next = node.next /\ new.entries = t
    <3> HIDE DEF new
    <3> QED
      BY <2>3 DEF Leaf
  <2>6. LeafOK(r, V, new)
    <3>1. Len(entries) <= MAX_LEAF_SLOTS
      BY <1>3 DEF LeafOK
    <3> HIDE DEF new
    <3> QED
      BY <2>2, <2>3, <2>5, <3>1 DEF LeafOK, Revalued, S
  <2> HIDE DEF new
  <2>7. Holds(base, K, V, u.store, root, HeldWith(s.file, Own(base, s.hdr), r, t))
    BY <1>1, <2>4, <2>5, <2>6, LeafPut
  <2>8. HeldWith(s.file, Own(base, s.hdr), r, t) = {x \in held : x.key # k} \cup {Entry(k, v)}
    <3>1. ToSet(t) = {x \in ToSet(entries) : x.key # k} \cup {Entry(k, v)}
      BY <2>1, <2>2 DEF Revalued
    <3>2. HeldWith(s.file, Own(base, s.hdr), r, t) = {x \in held : x.key \notin r} \cup ToSet(t)
      BY DEF HeldWith
    <3> QED
      BY <1>1, <1>4, <3>1, <3>2
  <2>9. u.store.hdr = s.hdr
    <3>1. GoodStore(s) /\ l \in PageId \ {0}
      BY <1>1, LeafEntries DEF Stands
    <3> QED
      BY <2>4, <3>1, PutPageFacts
  <2>10. \E x \in held : x.key = k
    <3>1. entries[at] \in ToSet(entries)
      BY <1>7, <2>1 DEF ToSet
    <3> QED
      BY <1>4, <2>1, <3>1
  <2>11. Spares(base, s, u.store)
    BY <1>1, <2>4, <2>5, <2>6, LeafPut
  <2> QED
    BY <2>4, <2>7, <2>8, <2>9, <2>10, <2>11 DEF u, HasKey, Done, Others
<1> QED
  BY <1>8, <1>9

\* A remove takes out the entry of its key, or finds none and writes nothing.
LEMMA RemoveFacts ==
    ASSUME NEW base, NEW K, NEW V, NEW s, NEW root, NEW rng, NEW lvl, NEW chain,
           Stands(base, K, V, s, root, rng, lvl, chain),
           NEW k \in K,
           NEW held, held = Held(s.file, Own(base, s.hdr))
    PROVE  /\ HasKey(held, k) =>
                Done(base, K, V, s, root, RemoveKey(s, root, k), Others(held, k))
           /\ ~HasKey(held, k) => Refused(s, RemoveKey(s, root, k))
<1> DEFINE l == FindLeaf(s.file, root, k)
           node == s.file[l]
           entries == EntriesOf(node)
           kept == Without(entries, k)
           r == rng[l]
           S == [key : r, value : V]
           u == RemoveKey(s, root, k)
<1>1. l \in Own(base, s.hdr) /\ lvl[l] = 0 /\ k \in r
  BY FindLeafFacts
<1>2. u = IF kept = entries THEN [ok |-> FALSE, store |-> s]
          ELSE [ok |-> TRUE, store |-> Put(s, l, Leaf(kept, node.next))]
  BY DEF RemoveKey
<1> HIDE DEF l, u, kept
<1>3. /\ LeafOK(r, V, node) /\ entries = node.entries
      /\ entries \in Seq(S) /\ KeysAscend(entries)
  <2>1. LeafOK(r, V, node)
    BY <1>1, LeafEntries
  <2>2. entries = node.entries
    BY <2>1, LeafFacts
  <2>3. entries \in Seq(S) /\ KeysAscend(entries)
    BY <1>1, LeafEntries
  <2> QED
    BY <2>1, <2>2, <2>3
<1>4. ToSet(entries) = {x \in held : x.key \in r}
  <2>1. ToSet(entries) = HeldIn(s.file, Own(base, s.hdr), r)
    BY <1>1, LeafHolds
  <2> QED
    BY <2>1 DEF HeldIn
<1>5. rng[l] \subseteq Int
  BY <1>1, LeafKeys
<1>6. /\ kept \in Seq(S) /\ Len(kept) <= Len(entries) /\ KeysAscend(kept)
      /\ ToSet(kept) = {e \in ToSet(entries) : e.key # k}
  <2>1. \A x \in S : x.key \in Int
    BY <1>5
  <2> HIDE DEF entries, S
  <2> QED
    BY <1>3, <2>1, WithoutFacts DEF kept
<1>7. Len(entries) \in Nat /\ Len(kept) \in Nat /\ DOMAIN entries = 1 .. Len(entries)
  <2> HIDE DEF entries, S, kept
  <2> QED
    BY <1>3, <1>6, LenProperties
<1>8. CASE \A x \in held : x.key # k
  <2>1. \A i \in 1 .. Len(entries) : entries[i].key # k
    BY <1>4, <1>7, <1>8 DEF ToSet
  <2>2. kept = entries
    <3> HIDE DEF entries, S
    <3> QED
      BY <1>3, <2>1, WithoutAbsent DEF kept
  <2>3. u.ok = FALSE /\ u.store = s
    BY <1>2, <2>2
  <2> QED
    BY <1>8, <2>3 DEF u, HasKey, Refused
<1>9. CASE \E x \in held : x.key = k
  <2> DEFINE new == Leaf(kept, node.next)
  <2>1. kept # entries
    BY <1>1, <1>4, <1>6, <1>9
  <2>2. u.ok = TRUE /\ u.store = Put(s, l, new)
    BY <1>2, <2>1
  <2> HIDE DEF kept
  <2>3. new.next = node.next /\ new.entries = kept /\ new = Leaf(new.entries, new.next)
    BY DEF Leaf
  <2>4. LeafOK(r, V, new)
    <3>1. Len(entries) <= MAX_LEAF_SLOTS /\ MAX_LEAF_SLOTS \in Nat
      BY <1>3, FanoutAssumption DEF LeafOK
    <3>2. Len(kept) <= MAX_LEAF_SLOTS
      <4> HIDE DEF entries
      <4> QED
        BY <1>6, <1>7, <3>1
    <3> HIDE DEF new
    <3> QED
      BY <1>6, <2>3, <3>2 DEF LeafOK
  <2> HIDE DEF new
  <2>5. Holds(base, K, V, u.store, root, HeldWith(s.file, Own(base, s.hdr), r, kept))
    BY <1>1, <2>2, <2>3, <2>4, LeafPut
  <2>6. HeldWith(s.file, Own(base, s.hdr), r, kept) = {x \in held : x.key # k}
    <3>1. HeldWith(s.file, Own(base, s.hdr), r, kept) = {x \in held : x.key \notin r} \cup ToSet(kept)
      BY DEF HeldWith
    <3> HIDE DEF entries, r
    <3> QED
      BY <1>1, <1>4, <1>6, <3>1
  <2>7. u.store.hdr = s.hdr
    <3>1. GoodStore(s) /\ l \in PageId \ {0}
      BY <1>1, LeafEntries DEF Stands
    <3> QED
      BY <2>2, <3>1, PutPageFacts
  <2>8. Spares(base, s, u.store)
    BY <1>1, <2>2, <2>3, <2>4, LeafPut
  <2> QED
    BY <1>9, <2>2, <2>5, <2>6, <2>7, <2>8 DEF u, HasKey, Done, Others
<1> QED
  BY <1>8, <1>9
=============================================================================
