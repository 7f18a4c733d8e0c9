---------------------------- MODULE FormatProofs ----------------------------
(***************************************************************************)
(* Values and bytes: what row.h and catalog.h make of them.  First the     *)
(* order of the values of one column, for every set of integers, doubles   *)
(* and texts and every monotone cast: each value has a key among the       *)
(* integers, and compare_values compares the keys.  Then the bytes.  A     *)
(* buffer holds the pieces it was put together from, each where the ones   *)
(* before it end; a reader that starts where a piece was written finds it  *)
(* and ends where it ends; so all columns of a row, and all columns of a   *)
(* definition, are read as they were written.  The path of a request is    *)
(* cut into the segments it was put together from, and matched.  And a     *)
(* text that is spelled from tokens is read as these tokens.               *)
(***************************************************************************)
EXTENDS Forms, Values, SequenceTheorems, FiniteSetTheorems, WellFoundedInduction, TLAPS

-----------------------------------------------------------------------------
(* The order of values.                                                    *)

\* What compare_values compares on a column of type t.
Key(t, v) == IF t = "TEXT" THEN v.s ELSE AsDouble(v)

LEMMA FieldsAreInts ==
    /\ \A i \in Ints : i \in Int /\ ToDouble[i] \in Int
    /\ \A d \in Doubles : d \in Int
    /\ \A s \in Texts : s \in Int
<1>1. Ints \subseteq Int /\ Doubles \subseteq Int /\ ToDouble \in [Ints -> Doubles]
  BY NumberAssumption
<1>2. Texts \subseteq Int
  BY TextAssumption
<1> QED
  BY <1>1, <1>2

LEMMA TypeOfValue ==
    ASSUME NEW t \in Types, NEW v \in ColumnValues(t)
    PROVE  v.type = t /\ v.i \in Ints /\ v.d \in Doubles /\ v.s \in Texts
BY NumberAssumption, TextAssumption
   DEF Types, ColumnValues, NullOf, MakeInt, MakeReal, MakeText

LEMMA KeyIsInt ==
    ASSUME NEW t \in Types, NEW v \in ColumnValues(t)
    PROVE  Key(t, v) \in Int
<1>1. v.type = t /\ v.i \in Ints /\ v.d \in Doubles /\ v.s \in Texts
  BY TypeOfValue
<1>2. v.s \in Int /\ v.d \in Int /\ ToDouble[v.i] \in Int
  BY <1>1, FieldsAreInts
<1> QED
  BY <1>2 DEF Key, AsDouble

LEMMA ComparesKeys ==
    ASSUME NEW t \in Types, NEW a \in ColumnValues(t), NEW b \in ColumnValues(t)
    PROVE  CompareValues(a, b) = Sign(Key(t, a), Key(t, b))
BY TypeOfValue DEF CompareValues, Key, Types

\* ORDER BY on a column of any type, its NULLs included, hands std::sort a
\* strict weak order, however many integers the cast to double makes equal.
THEOREM OrderIsStrictWeak == \A t \in Types : StrictWeakOn(ColumnValues(t))
<1> SUFFICES ASSUME NEW t \in Types,
                    NEW a \in ColumnValues(t), NEW b \in ColumnValues(t),
                    NEW c \in ColumnValues(t)
             PROVE  /\ CompareValues(a, b) = -CompareValues(b, a)
                    /\ CompareValues(a, b) < 0 /\ CompareValues(b, c) < 0
                         => CompareValues(a, c) < 0
                    /\ CompareValues(a, b) = 0 /\ CompareValues(b, c) = 0
                         => CompareValues(a, c) = 0
  BY DEF StrictWeakOn
<1>1. /\ Key(t, a) \in Int /\ Key(t, b) \in Int /\ Key(t, c) \in Int
  BY KeyIsInt
<1>2. /\ CompareValues(a, b) = Sign(Key(t, a), Key(t, b))
      /\ CompareValues(b, a) = Sign(Key(t, b), Key(t, a))
      /\ CompareValues(b, c) = Sign(Key(t, b), Key(t, c))
      /\ CompareValues(a, c) = Sign(Key(t, a), Key(t, c))
  BY ComparesKeys
<1> QED
  BY <1>1, <1>2 DEF Sign

\* Integers in range are told apart by the cast.
LEMMA CastKeepsApart ==
    ASSUME NEW i \in Ints, NEW j \in Ints, InRange(i), InRange(j)
    PROVE  ToDouble[i] = ToDouble[j] <=> i = j
<1>1. ToDouble[i] = Unit * i /\ ToDouble[j] = Unit * j
  BY NumberAssumption
<1>2. i \in Int /\ j \in Int /\ Unit \in Int /\ Unit > 0
  BY NumberAssumption
<1>3. ASSUME i < j PROVE Unit * i < Unit * j
  BY <1>2, <1>3
<1>4. ASSUME j < i PROVE Unit * j < Unit * i
  BY <1>2, <1>4
<1> QED
  BY <1>1, <1>2, <1>3, <1>4

\* On one column WHERE x = k picks the rows that x <= k and x >= k both pick,
\* for every k that is not an integer beyond 2^53.
THEOREM EqualityAgrees == \A t \in Types : EqualityIsOrderOn(ColumnValues(t))
<1> SUFFICES ASSUME NEW t \in Types,
                    NEW a \in ColumnValues(t), NEW b \in ColumnValues(t),
                    ~a.is_null, ~b.is_null, InRange(a.i), InRange(b.i)
             PROVE  ValuesEqual(a, b) <=> CompareValues(a, b) = 0
  BY DEF EqualityIsOrderOn
<1>1. /\ Key(t, a) \in Int /\ Key(t, b) \in Int
      /\ CompareValues(a, b) = Sign(Key(t, a), Key(t, b))
  BY KeyIsInt, ComparesKeys
<1>2. CompareValues(a, b) = 0 <=> Key(t, a) = Key(t, b)
  BY <1>1 DEF Sign
<1>3. a.type = t /\ b.type = t /\ a.i \in Ints /\ b.i \in Ints
  BY TypeOfValue
<1>4. CASE t = "INT"
  BY <1>2, <1>3, <1>4, CastKeepsApart DEF ValuesEqual, Key, AsDouble
<1>5. CASE t # "INT"
  BY <1>2, <1>3, <1>5 DEF ValuesEqual, Key, AsDouble, Types
<1> QED
  BY <1>4, <1>5

-----------------------------------------------------------------------------
(* Numbers.                                                                *)

LEMMA LeastNumber ==
    ASSUME NEW T \in SUBSET Nat, T # {}
    PROVE  \E n \in T : \A m \in T : n <= m
<1> DEFINE R == {ss \in Nat \X Nat : ss[1] < ss[2]}
<1>1. IsWellFoundedOn(R, Nat)
  BY NatLessThanWellFounded DEF OpToRel
<1>2. PICK x \in T : \A y \in T : ~ (<<y, x>> \in R)
  <2> HIDE DEF R
  <2> QED
    BY <1>1, WFMin
<1>3. \A y \in T : ~ (y < x)
  BY <1>2
<1> QED
  BY <1>3

\* What holds of 1, and of n + 1 when of n, holds up to N.
LEMMA StepByStep ==
    ASSUME NEW N \in Nat, NEW T, N >= 1 => 1 \in T,
           \A n \in 1 .. N - 1 : n \in T => n + 1 \in T
    PROVE  1 .. N \subseteq T
<1> SUFFICES ASSUME (1 .. N) \ T # {} PROVE FALSE
  OBVIOUS
<1> DEFINE U == (1 .. N) \ T
<1>1. U \in SUBSET Nat /\ U # {}
  OBVIOUS
<1>2. PICK n \in U : \A m \in U : n <= m
  <2> HIDE DEF U
  <2> QED
    BY <1>1, LeastNumber
<1>3. n \in 1 .. N /\ n # 1
  BY <1>2
<1>4. n - 1 \in 1 .. N - 1 /\ n - 1 \notin U /\ n - 1 + 1 = n
  BY <1>2, <1>3
<1> QED
  BY <1>2, <1>3, <1>4

-----------------------------------------------------------------------------
(* A piece s of a buffer, behind off elements of it.                       *)

\* Numbers, and the bytes of a bitmap.
Cells == Nat \cup SUBSET Nat

Holds(buf, off, s) ==
    /\ off + Len(s) <= Len(buf)
    /\ \A j \in 1 .. Len(s) : buf[off + j] = s[j]

LEMMA HoldsLast ==
    ASSUME NEW T, NEW a \in Seq(T), NEW b \in Seq(T)
    PROVE  Holds(a \o b, Len(a), b)
BY ConcatProperties, LenProperties DEF Holds

LEMMA HoldsMore ==
    ASSUME NEW T, NEW a \in Seq(T), NEW b \in Seq(T), NEW s \in Seq(T), NEW off \in Nat,
           Holds(a, off, s)
    PROVE  Holds(a \o b, off, s)
BY ConcatProperties, LenProperties DEF Holds

\* A piece of a piece.
LEMMA HoldsPiece ==
    ASSUME NEW T, NEW s \in Seq(T), NEW t \in Seq(T), NEW buf, Len(buf) \in Nat,
           NEW off \in Nat, NEW at \in Nat, Holds(buf, off, s), Holds(s, at, t)
    PROVE  Holds(buf, off + at, t)
<1>1. /\ Len(s) \in Nat /\ Len(t) \in Nat
      /\ at + Len(t) <= Len(s) /\ off + Len(s) <= Len(buf)
  BY LenProperties DEF Holds
<1>2. ASSUME NEW j \in 1 .. Len(t)
      PROVE  buf[off + at + j] = t[j]
  <2>1. at + j \in 1 .. Len(s) /\ off + at + j = off + (at + j)
    BY <1>1
  <2>2. buf[off + (at + j)] = s[at + j]
    BY <2>1 DEF Holds
  <2>3. s[at + j] = t[j]
    BY DEF Holds
  <2> QED
    BY <2>1, <2>2, <2>3
<1> QED
  BY <1>1, <1>2 DEF Holds

LEMMA HoldsBoth ==
    ASSUME NEW T, NEW a \in Seq(T), NEW b \in Seq(T), NEW buf, Len(buf) \in Nat,
           NEW off \in Nat, Holds(buf, off, a \o b)
    PROVE  Holds(buf, off, a) /\ Holds(buf, off + Len(a), b)
<1>1. Holds(a \o b, 0, a) /\ Holds(a \o b, Len(a), b) /\ Len(a) \in Nat
  BY ConcatProperties, LenProperties DEF Holds
<1>2. a \o b \in Seq(T)
  BY ConcatProperties
<1>3. Holds(buf, off + 0, a) /\ Holds(buf, off + Len(a), b)
  BY <1>1, <1>2, HoldsPiece
<1> QED
  BY <1>3

LEMMA HoldsRead ==
    ASSUME NEW T, NEW s \in Seq(T), NEW buf, NEW off \in Nat, Holds(buf, off, s)
    PROVE  SubSeq(buf, off + 1, off + Len(s)) = s
<1>1. Len(s) \in Nat
  BY LenProperties
<1>2. \A i \in off + 1 .. off + Len(s) : buf[i] \in T
  <2> SUFFICES ASSUME NEW i \in off + 1 .. off + Len(s) PROVE buf[i] \in T
    OBVIOUS
  <2>1. i - off \in 1 .. Len(s) /\ off + (i - off) = i
    BY <1>1
  <2>2. buf[i] = s[i - off]
    BY <2>1 DEF Holds
  <2> QED
    BY <2>1, <2>2, ElementOfSeq
<1> DEFINE r == SubSeq(buf, off + 1, off + Len(s))
<1>3. /\ r \in Seq(T)
      /\ Len(r) = IF off + 1 <= off + Len(s) THEN off + Len(s) - (off + 1) + 1 ELSE 0
      /\ \A i \in 1 .. off + Len(s) - (off + 1) + 1 : r[i] = buf[off + 1 + i - 1]
  BY <1>1, <1>2, SubSeqProperties
<1>4. Len(r) = Len(s)
  BY <1>1, <1>3
<1>5. \A i \in 1 .. Len(s) : r[i] = s[i]
  BY <1>1, <1>3 DEF Holds
<1> QED
  <2> HIDE DEF r
  <2>1. r = s
    BY <1>3, <1>4, <1>5, SeqEqual
  <2> QED
    BY <2>1 DEF r

-----------------------------------------------------------------------------
(* A string.                                                               *)

LengthAssumption == LenLimit \in Nat \ {0}

LEMMA CutFacts ==
    ASSUME LengthAssumption, NEW s \in Seq(Nat)
    PROVE  /\ StoredLen(s) \in Nat /\ StoredLen(s) <= Len(s)
           /\ Cut(s) \in Seq(Nat) /\ Len(Cut(s)) = StoredLen(s)
           /\ WriteString(s) \in Seq(Nat) /\ Len(WriteString(s)) = 1 + StoredLen(s)
           /\ WriteString(s)[1] = StoredLen(s)
<1>1. Len(s) \in Nat
  BY LenProperties
<1>2. StoredLen(s) \in Nat /\ StoredLen(s) <= Len(s)
  BY <1>1 DEF LengthAssumption, StoredLen
<1>3. \A i \in 1 .. StoredLen(s) : s[i] \in Nat
  BY <1>1, <1>2, ElementOfSeq
<1>4. Cut(s) \in Seq(Nat) /\ Len(Cut(s)) = StoredLen(s)
  BY <1>2, <1>3, SubSeqProperties DEF Cut
<1>5. <<StoredLen(s)>> \in Seq(Nat) /\ Len(<<StoredLen(s)>>) = 1
  BY <1>2
<1>6. WriteString(s) \in Seq(Nat) /\ Len(WriteString(s)) = 1 + StoredLen(s)
  BY <1>4, <1>5, ConcatProperties DEF WriteString
<1>7. WriteString(s)[1] = StoredLen(s)
  BY <1>2, <1>4, <1>5, ConcatProperties DEF WriteString
<1> QED
  BY <1>2, <1>4, <1>6, <1>7

\* A text shorter than the limit is stored as it is; one that was cut once is.
LEMMA CutNone ==
    ASSUME LengthAssumption, NEW s \in Seq(Nat), Len(s) < LenLimit
    PROVE  Cut(s) = s
<1>1. StoredLen(s) = Len(s)
  BY LenProperties DEF LengthAssumption, StoredLen
<1> QED
  BY <1>1, SubSeqFull DEF Cut

LEMMA CutOnce ==
    ASSUME LengthAssumption, NEW s \in Seq(Nat)
    PROVE  Cut(Cut(s)) = Cut(s)
<1>1. Len(Cut(s)) < LenLimit /\ Cut(s) \in Seq(Nat)
  <2>1. Len(s) \in Nat
    BY LenProperties
  <2>2. StoredLen(s) < LenLimit
    BY <2>1 DEF LengthAssumption, StoredLen
  <2> QED
    BY <2>2, CutFacts
<1> QED
  BY <1>1, CutNone

\* Where a string was written one is read, and where it ends the next thing begins.
LEMMA StringReads ==
    ASSUME LengthAssumption, NEW s \in Seq(Nat), NEW buf, Len(buf) \in Nat, NEW off \in Nat,
           Holds(buf, off, WriteString(s))
    PROVE  /\ ReadString(buf, off) = Cut(s)
           /\ AfterString(buf, off) = off + Len(WriteString(s))
<1>1. /\ StoredLen(s) \in Nat /\ Cut(s) \in Seq(Nat) /\ Len(Cut(s)) = StoredLen(s)
      /\ Len(WriteString(s)) = 1 + StoredLen(s) /\ WriteString(s)[1] = StoredLen(s)
  BY CutFacts
<1>2. buf[off + 1] = StoredLen(s)
  BY <1>1 DEF Holds
<1>3. AfterString(buf, off) = off + Len(WriteString(s))
  BY <1>1, <1>2 DEF AfterString
<1>4. <<StoredLen(s)>> \in Seq(Nat) /\ Len(<<StoredLen(s)>>) = 1
  BY <1>1
<1>5. Holds(buf, off + Len(<<StoredLen(s)>>), Cut(s))
  BY <1>1, <1>4, HoldsBoth DEF WriteString
<1>6. Holds(buf, off + 1, Cut(s))
  BY <1>4, <1>5
<1>7. SubSeq(buf, off + 1 + 1, off + 1 + Len(Cut(s))) = Cut(s)
  <2>1. PICK o : o = off + 1
    OBVIOUS
  <2>2. o \in Nat /\ Holds(buf, o, Cut(s))
    BY <1>6, <2>1
  <2>3. SubSeq(buf, o + 1, o + Len(Cut(s))) = Cut(s)
    BY <1>1, <2>2, HoldsRead
  <2> QED
    BY <2>1, <2>3
<1>8. off + 1 + 1 = off + 2
  OBVIOUS
<1> QED
  BY <1>1, <1>2, <1>3, <1>7, <1>8 DEF ReadString

-----------------------------------------------------------------------------
(* The concatenation of a sequence of pieces.                              *)

LEMMA FlattenIs ==
    ASSUME NEW T, NEW ss \in Seq(Seq(T)), ss # <<>>
    PROVE  \E f \in [1 .. Len(ss) -> Seq(T)] :
             /\ FlattenSeq(ss) = f[Len(ss)]
             /\ \A i \in 1 .. Len(ss) : f[i] = IF i = 1 THEN ss[1] ELSE f[i - 1] \o ss[i]
<1> DEFINE N == Len(ss)
           Next1(g, i) == IF i = 1 THEN ss[1] ELSE g[i - 1] \o ss[i]
           S == {n \in 1 .. N : \E g \in [1 .. N -> Seq(T)] :
                                  \A i \in 1 .. n : g[i] = Next1(g, i)}
<1>1. N \in Nat /\ N >= 1 /\ \A i \in 1 .. N : ss[i] \in Seq(T)
  BY EmptySeq, ElementOfSeq
<1>2. 1 \in S
  <2>1. PICK g : g = [i \in 1 .. N |-> ss[i]]
    OBVIOUS
  <2>2. g \in [1 .. N -> Seq(T)] /\ \A i \in 1 .. 1 : g[i] = Next1(g, i)
    BY <1>1, <2>1
  <2> QED
    BY <1>1, <2>2
<1>3. ASSUME NEW n \in 1 .. N - 1, n \in S
      PROVE  n + 1 \in S
  <2>1. PICK g \in [1 .. N -> Seq(T)] : \A i \in 1 .. n : g[i] = Next1(g, i)
    BY <1>3
  <2>2. PICK x : x = g[n] \o ss[n + 1]
    OBVIOUS
  <2>3. n \in 1 .. N /\ n + 1 \in 1 .. N /\ n + 1 # 1 /\ n + 1 - 1 = n
    BY <1>1
  <2>4. x \in Seq(T)
    BY <1>1, <2>1, <2>2, <2>3, ConcatProperties
  <2>5. PICK h : h = [g EXCEPT ![n + 1] = x]
    OBVIOUS
  <2>6. h \in [1 .. N -> Seq(T)] /\ h[n + 1] = x /\ \A i \in 1 .. n : h[i] = g[i]
    BY <2>3, <2>4, <2>5
  <2>7. ASSUME NEW i \in 1 .. n + 1
        PROVE  h[i] = Next1(h, i)
    <3>1. CASE i = n + 1
      <4>1. i # 1 /\ i - 1 = n /\ h[n] = g[n]
        BY <2>3, <2>6, <3>1
      <4>2. h[i] = h[n] \o ss[i]
        BY <2>2, <2>6, <3>1, <4>1
      <4> QED
        BY <4>1, <4>2
    <3>2. CASE i # n + 1
      <4>1. i \in 1 .. n /\ (i # 1 => i - 1 \in 1 .. n)
        BY <1>1, <3>2
      <4> QED
        BY <2>1, <2>6, <4>1
    <3> QED
      BY <3>1, <3>2
  <2> QED
    BY <2>3, <2>6, <2>7
<1>4. 1 .. N \subseteq S
  <2> HIDE DEF S, N
  <2> QED
    BY <1>1, <1>2, <1>3, StepByStep
<1>5. PICK f \in [1 .. N -> Seq(T)] : \A i \in 1 .. N : f[i] = Next1(f, i)
  <2>1. N \in S
    <3>1. N \in 1 .. N
      BY <1>1
    <3> QED
      BY <1>4, <3>1
  <2> QED
    BY <2>1
<1>6. f = [i \in 1 .. Len(ss) |-> IF i = 1 THEN ss[i] ELSE f[i - 1] \o ss[i]]
  <2>1. f = [i \in 1 .. N |-> f[i]]
    BY <1>5
  <2>2. \A i \in 1 .. N : f[i] = IF i = 1 THEN ss[i] ELSE f[i - 1] \o ss[i]
    BY <1>5
  <2> QED
    BY <2>1, <2>2
<1>7. PICK g : /\ g = [i \in 1 .. Len(ss) |-> IF i = 1 THEN ss[i] ELSE g[i - 1] \o ss[i]]
               /\ FlattenSeq(ss) = g[Len(ss)]
  <2> DEFINE Eq(g) == g = [i \in 1 .. Len(ss) |-> IF i = 1 THEN ss[i] ELSE g[i - 1] \o ss[i]]
  <2>1. Eq(CHOOSE g : Eq(g))
    BY <1>6
  <2>2. Len(ss) # 0
    BY <1>1
  <2>3. FlattenSeq(ss) = (CHOOSE g : Eq(g))[Len(ss)]
    BY <2>2 DEF FlattenSeq
  <2> QED
    BY <2>1, <2>3
<1>8. \A i \in 1 .. N : g[i] = Next1(g, i)
  BY <1>7
<1> DEFINE U == {i \in 1 .. N : g[i] \in Seq(T)}
<1>9. 1 .. N \subseteq U
  <2>1. 1 \in U
    BY <1>1, <1>8
  <2>2. ASSUME NEW n \in 1 .. N - 1, n \in U
        PROVE  n + 1 \in U
    <3>1. n \in 1 .. N /\ n + 1 \in 1 .. N /\ n + 1 # 1 /\ n + 1 - 1 = n
      BY <1>1
    <3>2. g[n + 1] = Next1(g, n + 1)
      BY <1>8, <3>1
    <3>3. g[n + 1] = g[n] \o ss[n + 1]
      <4>1. PICK m : m = n + 1
        OBVIOUS
      <4>2. g[m] = g[m - 1] \o ss[m]
        BY <1>8, <3>1, <4>1
      <4>3. m - 1 = n
        BY <4>1
      <4>4. g[m] = g[n] \o ss[n + 1]
        BY <4>1, <4>2, <4>3
      <4> QED
        BY <4>1, <4>4
    <3>4. g[n] \in Seq(T) /\ ss[n + 1] \in Seq(T)
      BY <1>1, <2>2, <3>1
    <3>5. g[n] \o ss[n + 1] \in Seq(T)
      BY <3>4, ConcatProperties
    <3> QED
      BY <3>1, <3>3, <3>5
  <2> HIDE DEF U, N
  <2> QED
    BY <1>1, <2>1, <2>2, StepByStep
<1>10. g \in [1 .. Len(ss) -> Seq(T)]
  BY <1>7, <1>9
<1> QED
  BY <1>7, <1>8, <1>10

\* Each piece is where the ones before it end.
LEMMA FlattenHolds ==
    ASSUME NEW T, NEW ss \in Seq(Seq(T))
    PROVE  /\ FlattenSeq(ss) \in Seq(T)
           /\ \E at \in [1 .. Len(ss) -> Nat] :
                /\ \A i \in 1 .. Len(ss) :
                     /\ at[i] = IF i = 1 THEN 0 ELSE at[i - 1] + Len(ss[i - 1])
                     /\ Holds(FlattenSeq(ss), at[i], ss[i])
                /\ Len(FlattenSeq(ss)) =
                     IF ss = <<>> THEN 0 ELSE at[Len(ss)] + Len(ss[Len(ss)])
<1>1. CASE ss = <<>>
  <2>1. Len(ss) = 0 /\ FlattenSeq(ss) = ss
    BY <1>1 DEF FlattenSeq
  <2>2. PICK at : at = [i \in 1 .. Len(ss) |-> 0]
    OBVIOUS
  <2>3. ss \in Seq(T)
    BY <1>1, EmptySeq
  <2>4. 1 .. Len(ss) = {}
    BY <2>1
  <2>5. at \in [1 .. Len(ss) -> Nat]
    BY <2>2
  <2>6. Len(FlattenSeq(ss)) = 0 /\ FlattenSeq(ss) \in Seq(T)
    BY <2>1, <2>3
  <2> QED
    BY <1>1, <2>4, <2>5, <2>6
<1>2. CASE ss # <<>>
  <2>1. Len(ss) \in Nat /\ Len(ss) >= 1 /\ \A i \in 1 .. Len(ss) : ss[i] \in Seq(T)
    BY <1>2, EmptySeq, ElementOfSeq
  <2>2. PICK f \in [1 .. Len(ss) -> Seq(T)] :
          /\ FlattenSeq(ss) = f[Len(ss)]
          /\ \A i \in 1 .. Len(ss) : f[i] = IF i = 1 THEN ss[1] ELSE f[i - 1] \o ss[i]
    BY <1>2, FlattenIs
  <2>3. \A i \in 1 .. Len(ss) : Len(f[i]) \in Nat
    BY LenProperties
  <2>4. PICK at : at = [i \in 1 .. Len(ss) |-> IF i = 1 THEN 0 ELSE Len(f[i - 1])]
    OBVIOUS
  <2>5. at \in [1 .. Len(ss) -> Nat]
    BY <2>1, <2>3, <2>4
  <2>6. ASSUME NEW i \in 1 .. Len(ss)
        PROVE  at[i] = IF i = 1 THEN 0 ELSE at[i - 1] + Len(ss[i - 1])
    <3>1. CASE i = 1
      BY <2>4, <3>1
    <3>2. CASE i = 2
      <4>1. 1 \in 1 .. Len(ss) /\ i - 1 = 1 /\ f[1] = ss[1]
        <5>1. \A k \in 1 .. Len(ss) : k = 1 => f[k] = ss[1]
          BY <2>2
        <5> QED
          BY <2>1, <3>2, <5>1
      <4>2. at[i] = Len(ss[1]) /\ at[1] = 0 /\ Len(ss[1]) \in Nat
        BY <2>1, <2>4, <3>2, <4>1, LenProperties
      <4> QED
        BY <3>2, <4>1, <4>2
    <3>3. CASE i > 2
      <4>1. i - 1 \in 1 .. Len(ss) /\ i - 1 - 1 \in 1 .. Len(ss) /\ i - 1 # 1
        BY <2>1, <3>3
      <4>2. f[i - 1] = f[i - 1 - 1] \o ss[i - 1]
        BY <2>2, <4>1
      <4>3. Len(f[i - 1]) = Len(f[i - 1 - 1]) + Len(ss[i - 1])
        BY <2>1, <2>2, <4>1, <4>2, ConcatProperties
      <4> QED
        BY <2>4, <3>3, <4>1, <4>3
    <3> QED
      BY <3>1, <3>2, <3>3
  <2>7. ASSUME NEW i \in 1 .. Len(ss)
        PROVE  Holds(f[i], at[i], ss[i])
    <3>1. CASE i = 1
      <4>1. f[i] = ss[i] /\ at[i] = 0
        BY <2>2, <2>4, <3>1
      <4> QED
        BY <2>1, <4>1, LenProperties DEF Holds
    <3>2. CASE i # 1
      <4>1. i - 1 \in 1 .. Len(ss)
        BY <2>1, <3>2
      <4>2. f[i] = f[i - 1] \o ss[i]
        BY <2>2, <3>2
      <4>3. at[i] = Len(f[i - 1])
        BY <2>4, <3>2
      <4> QED
        BY <2>1, <2>2, <4>1, <4>2, <4>3, HoldsLast
    <3> QED
      BY <3>1, <3>2
  <2>8. ASSUME NEW i \in 1 .. Len(ss)
        PROVE  Holds(f[Len(ss)], at[i], ss[i])
    <3> DEFINE S == {n \in Nat : n < i \/ n > Len(ss) \/ Holds(f[n], at[i], ss[i])}
    <3>1. Len(ss) >= 1 => 1 \in S
      BY <2>1, <2>7
    <3>2. ASSUME NEW n \in 1 .. Len(ss) - 1, n \in S
          PROVE  n + 1 \in S
      <4>1. n + 1 \in 1 .. Len(ss) /\ n \in 1 .. Len(ss) /\ n + 1 # 1 /\ n + 1 - 1 = n
        BY <2>1
      <4>2. CASE n + 1 <= i
        BY <2>7, <4>1, <4>2
      <4>3. CASE ~(n + 1 <= i)
        <5>1. Holds(f[n], at[i], ss[i])
          BY <2>1, <3>2, <4>1, <4>3
        <5>2. f[n + 1] = f[n] \o ss[n + 1]
          <6>1. PICK m : m = n + 1
            OBVIOUS
          <6>2. f[m] = f[m - 1] \o ss[m]
            BY <2>2, <4>1, <6>1
          <6> QED
            BY <4>1, <6>1, <6>2
        <5>3. /\ f[n] \in Seq(T) /\ ss[n + 1] \in Seq(T) /\ ss[i] \in Seq(T) /\ at[i] \in Nat
          BY <2>1, <2>2, <2>5, <4>1
        <5>4. Holds(f[n + 1], at[i], ss[i])
          BY <5>1, <5>2, <5>3, HoldsMore
        <5> QED
          BY <4>1, <5>4
      <4> QED
        BY <4>2, <4>3
    <3>3. 1 .. Len(ss) \subseteq S
      <4> HIDE DEF S
      <4> QED
        BY <2>1, <3>1, <3>2, StepByStep
    <3>4. Len(ss) \in S
      BY <2>1, <3>3
    <3> QED
      BY <2>1, <3>4
  <2>9. FlattenSeq(ss) \in Seq(T)
    BY <2>1, <2>2
  <2>10. Len(FlattenSeq(ss)) = at[Len(ss)] + Len(ss[Len(ss)])
    <3>1. PICK n \in 1 .. Len(ss) : n = Len(ss)
      BY <2>1
    <3>2. CASE n = 1
      <4>1. f[n] = ss[n] /\ at[n] = 0 /\ Len(ss[n]) \in Nat
        BY <2>1, <2>2, <2>4, <3>2, LenProperties
      <4> QED
        BY <2>2, <3>1, <4>1
    <3>3. CASE n # 1
      <4>1. n - 1 \in 1 .. Len(ss) /\ f[n] = f[n - 1] \o ss[n] /\ at[n] = Len(f[n - 1])
        <5>1. n - 1 \in 1 .. Len(ss)
          BY <2>1, <3>3
        <5>2. f[n] = f[n - 1] \o ss[n]
          BY <2>2, <3>3
        <5>3. at[n] = Len(f[n - 1])
          BY <2>4, <3>3
        <5> QED
          BY <5>1, <5>2, <5>3
      <4>2. Len(f[n]) = Len(f[n - 1]) + Len(ss[n])
        BY <2>1, <2>2, <4>1, ConcatProperties
      <4> QED
        BY <2>2, <3>1, <4>1, <4>2
    <3> QED
      BY <3>2, <3>3
  <2> QED
    BY <1>2, <2>2, <2>5, <2>6, <2>8, <2>9, <2>10
<1> QED
  BY <1>1, <1>2

-----------------------------------------------------------------------------
(* Quotients.                                                              *)

LEMMA QuotientIs ==
    ASSUME NEW a \in Nat, NEW b \in Nat \ {0}, NEW q \in Nat, NEW r \in 0 .. b - 1, a = b * q + r
    PROVE  a \div b = q /\ a % b = r
<1>1. a \div b = q
  BY SMTT(30)
<1>2. a % b = r
  BY SMTT(30)
<1> QED
  BY <1>1, <1>2

LEMMA Quotient ==
    ASSUME NEW a \in Nat, NEW b \in Nat \ {0}
    PROVE  \E q \in Nat, r \in 0 .. b - 1 : a = b * q + r /\ a \div b = q /\ a % b = r
<1>1. PICK q \in Nat, r \in 0 .. b - 1 : a = b * q + r /\ q = a \div b
  BY SMTT(30)
<1> QED
  BY <1>1, QuotientIs

\* The bytes it takes to have a bit for each of c things.
LEMMA EnoughBytes ==
    ASSUME NEW a \in Nat, NEW b \in Nat \ {0}, NEW c \in Nat, a + 1 <= c
    PROVE  (a \div b) + 1 <= (c + b - 1) \div b
<1>1. PICK q \in Nat : q = a \div b /\ b * q <= a
  BY Quotient
<1>2. PICK r \in Nat : r = (c + b - 1) \div b /\ c + b - 1 < b * r + b
  <2>1. c + b - 1 \in Nat
    OBVIOUS
  <2> QED
    BY <2>1, Quotient
<1>3. b * q < b * r + 1
  BY <1>1, <1>2
<1>4. CASE r <= q /\ r # q
  <2>1. r + 1 <= q /\ b * (r + 1) <= b * q
    BY <1>4
  <2> QED
    BY <1>1, <1>2, <2>1
<1>5. CASE r = q
  BY <1>1, <1>2, <1>5
<1>6. CASE q < r
  BY <1>1, <1>2, <1>6
<1> QED
  BY <1>4, <1>5, <1>6

-----------------------------------------------------------------------------
(* A row as bytes.                                                         *)

\* What a column keeps of a value: a text that is too long loses its end.
Kept(i, x) == IF ColTypes[i] = "TEXT" /\ x # Null THEN Cut(x) ELSE x

Storable(v) ==
    /\ v = [i \in Columns |-> v[i]]
    /\ \A i \in Columns :
         v[i] = Null \/ (IF ColTypes[i] = "TEXT" THEN v[i] \in Seq(Nat) ELSE v[i] \in Numbers)

LEMMA FieldFacts ==
    ASSUME RowAssumption, NEW v, Storable(v), NEW i \in Columns
    PROVE  /\ Field(i, v[i]) \in Seq(Nat)
           /\ v[i] = Null => Field(i, v[i]) = <<>> /\ Len(Field(i, v[i])) = 0
           /\ v[i] # Null /\ ColTypes[i] = "TEXT" =>
                v[i] \in Seq(Nat) /\ Field(i, v[i]) = WriteString(v[i])
           /\ v[i] # Null /\ ColTypes[i] # "TEXT" =>
                Field(i, v[i]) = v[i] /\ Len(v[i]) = NumberSize
<1>1. CASE v[i] = Null
  BY <1>1 DEF Field
<1>2. CASE v[i] # Null /\ ColTypes[i] = "TEXT"
  BY <1>2, CutFacts DEF Field, Storable, RowAssumption, LengthAssumption
<1>3. CASE v[i] # Null /\ ColTypes[i] # "TEXT"
  BY <1>3 DEF Field, Storable, RowAssumption
<1> QED
  BY <1>1, <1>2, <1>3

LEMMA ColumnsFacts ==
    ASSUME RowAssumption
    PROVE  /\ Len(ColTypes) \in Nat /\ BitmapBytes \in Nat
           /\ \A i \in Columns : /\ i - 1 \in Nat
                                 /\ (i - 1) \div BitsPerByte + 1 \in 1 .. BitmapBytes
<1>1. Len(ColTypes) \in Nat
  BY LenProperties DEF RowAssumption
<1>2. PICK n \in Nat : n = Len(ColTypes)
  BY <1>1
<1>3. PICK b \in Nat \ {0} : b = BitsPerByte
  BY DEF RowAssumption
<1>4. (n + b - 1) \div b \in Nat
  <2>1. n + b - 1 \in Nat
    OBVIOUS
  <2> QED
    BY <2>1, Quotient
<1>5. ASSUME NEW i \in Columns
      PROVE  i - 1 \in Nat /\ (i - 1) \div b + 1 \in 1 .. (n + b - 1) \div b
  <2>1. PICK a \in Nat : a = i - 1 /\ a + 1 <= n
    BY <1>2 DEF Columns
  <2>2. a \div b \in Nat /\ (a \div b) + 1 <= (n + b - 1) \div b
    BY <2>1, EnoughBytes, Quotient
  <2> QED
    BY <1>4, <2>1, <2>2
<1> QED
  BY <1>1, <1>2, <1>3, <1>4, <1>5 DEF BitmapBytes

\* Each column has a bit of its own.
LEMMA BitmapReads ==
    ASSUME RowAssumption, NEW v
    PROVE  /\ Bitmap(v) \in Seq(Cells) /\ Len(Bitmap(v)) = BitmapBytes
           /\ \A i \in Columns :
                (i - 1) % BitsPerByte \in Bitmap(v)[(i - 1) \div BitsPerByte + 1] <=> v[i] = Null
<1> DEFINE Bits(b) == {(i - 1) % BitsPerByte : i \in {j \in Columns : /\ (j - 1) \div BitsPerByte = b - 1
                                                                     /\ v[j] = Null}}
<1>1. BitmapBytes \in Nat /\ BitsPerByte \in Nat \ {0} /\ \A i \in Columns : i - 1 \in Nat
  BY ColumnsFacts DEF RowAssumption
<1>2. \A i \in Columns : (i - 1) % BitsPerByte \in Nat
  BY <1>1, Quotient
<1>3. \A b \in 1 .. BitmapBytes : Bits(b) \in Cells
  BY <1>2 DEF Cells
<1>4. Bitmap(v) = [b \in 1 .. BitmapBytes |-> Bits(b)]
  BY DEF Bitmap
<1>5. Bitmap(v) \in Seq(Cells) /\ Len(Bitmap(v)) = BitmapBytes
  <2> HIDE DEF Bits
  <2> QED
    BY <1>1, <1>3, <1>4
<1>6. ASSUME NEW i \in Columns
      PROVE  (i - 1) % BitsPerByte \in Bitmap(v)[(i - 1) \div BitsPerByte + 1] <=> v[i] = Null
  <2>1. PICK b : b = (i - 1) \div BitsPerByte + 1
    OBVIOUS
  <2>2. b \in 1 .. BitmapBytes /\ (i - 1) \div BitsPerByte = b - 1
    <3>1. PICK k \in Nat : k = (i - 1) \div BitsPerByte
      BY <1>1, Quotient
    <3>2. k + 1 \in 1 .. BitmapBytes
      BY <3>1, ColumnsFacts
    <3>3. b = k + 1
      BY <2>1, <3>1
    <3> QED
      BY <3>1, <3>2, <3>3
  <2>3. Bitmap(v)[b] = Bits(b)
    BY <1>4, <2>2
  <2>4. ASSUME v[i] = Null
        PROVE  (i - 1) % BitsPerByte \in Bits(b)
    BY <2>2, <2>4
  <2>5. ASSUME (i - 1) % BitsPerByte \in Bits(b)
        PROVE  v[i] = Null
    <3>1. PICK j \in Columns : /\ (j - 1) \div BitsPerByte = b - 1 /\ v[j] = Null
                               /\ (j - 1) % BitsPerByte = (i - 1) % BitsPerByte
      BY <2>5
    <3>2. PICK q1 \in Nat, r1 \in 0 .. BitsPerByte - 1 :
            /\ j - 1 = BitsPerByte * q1 + r1
            /\ (j - 1) \div BitsPerByte = q1 /\ (j - 1) % BitsPerByte = r1
      BY <1>1, Quotient
    <3>5. PICK q2 \in Nat, r2 \in 0 .. BitsPerByte - 1 :
            /\ i - 1 = BitsPerByte * q2 + r2
            /\ (i - 1) \div BitsPerByte = q2 /\ (i - 1) % BitsPerByte = r2
      BY <1>1, Quotient
    <3>6. q1 = q2 /\ r1 = r2
      BY <2>2, <3>1, <3>2, <3>5, Zenon
    <3>3. j - 1 = i - 1
      BY <3>2, <3>5, <3>6, Zenon
    <3>4. j = i
      BY <3>3 DEF Columns
    <3> QED
      BY <3>1, <3>4
  <2> QED
    <3> HIDE DEF Bits
    <3> QED
      BY <2>1, <2>3, <2>4, <2>5
<1> QED
  BY <1>5, <1>6

\* Where the columns of a row begin in its bytes.
Begins(v, at) ==
    /\ at \in [Columns -> Nat]
    /\ \A i \in Columns :
         /\ at[i] = IF i = 1 THEN BitmapBytes ELSE at[i - 1] + Len(Field(i - 1, v[i - 1]))
         /\ Holds(Encode(v), at[i], Field(i, v[i]))

LEMMA EncodeHolds ==
    ASSUME RowAssumption, NEW v, Storable(v)
    PROVE  /\ Encode(v) \in Seq(Cells)
           /\ Holds(Encode(v), 0, Bitmap(v))
           /\ \E at : Begins(v, at)
<1>1. PICK ss : ss = [i \in Columns |-> Field(i, v[i])]
  OBVIOUS
<1>2. Len(ColTypes) \in Nat /\ BitmapBytes \in Nat
  BY ColumnsFacts
<1>3. \A i \in Columns : Field(i, v[i]) \in Seq(Cells)
  <2>1. Nat \subseteq Cells
    BY DEF Cells
  <2> QED
    BY <2>1, FieldFacts, SeqMonotonic
<1>4. ss \in Seq(Seq(Cells)) /\ Len(ss) = Len(ColTypes)
  BY <1>1, <1>2, <1>3 DEF Columns
<1>5. PICK fs : fs = FlattenSeq(ss)
  OBVIOUS
<1>6. PICK p : /\ fs \in Seq(Cells) /\ p \in [1 .. Len(ss) -> Nat]
               /\ \A i \in 1 .. Len(ss) :
                    /\ p[i] = IF i = 1 THEN 0 ELSE p[i - 1] + Len(ss[i - 1])
                    /\ Holds(fs, p[i], ss[i])
  BY <1>4, <1>5, FlattenHolds
<1>7. Bitmap(v) \in Seq(Cells) /\ Len(Bitmap(v)) = BitmapBytes
  BY BitmapReads
<1>8. Encode(v) = Bitmap(v) \o fs
  BY <1>1, <1>5 DEF Encode
<1>9. Encode(v) \in Seq(Cells)
  BY <1>6, <1>7, <1>8, ConcatProperties
<1>10. Holds(Encode(v), BitmapBytes, fs)
  BY <1>6, <1>7, <1>8, HoldsLast
<1>11. Holds(Encode(v), 0, Bitmap(v))
  <2>1. Holds(Bitmap(v), 0, Bitmap(v))
    BY <1>2, <1>7 DEF Holds
  <2> QED
    BY <1>6, <1>7, <1>8, <2>1, HoldsMore
<1>12. PICK at : at = [i \in Columns |-> BitmapBytes + p[i]]
  OBVIOUS
<1>13. Columns = 1 .. Len(ss)
  BY <1>4 DEF Columns
<1>14. at \in [Columns -> Nat]
  BY <1>2, <1>6, <1>12, <1>13
<1>15. ASSUME NEW i \in Columns
       PROVE  /\ at[i] = IF i = 1 THEN BitmapBytes ELSE at[i - 1] + Len(Field(i - 1, v[i - 1]))
              /\ Holds(Encode(v), at[i], Field(i, v[i]))
  <2>1. at[i] = BitmapBytes + p[i] /\ ss[i] = Field(i, v[i]) /\ p[i] \in Nat
    BY <1>1, <1>6, <1>12, <1>13
  <2>2. Holds(Encode(v), BitmapBytes + p[i], ss[i])
    <3>1. Holds(fs, p[i], ss[i]) /\ ss[i] \in Seq(Cells)
      BY <1>3, <1>6, <1>13, <2>1
    <3>2. Len(Encode(v)) \in Nat
      BY <1>9, LenProperties
    <3> QED
      BY <1>2, <1>6, <1>10, <2>1, <3>1, <3>2, HoldsPiece
  <2>3. CASE i = 1
    <3>1. p[i] = 0
      BY <1>6, <1>13, <2>3
    <3> QED
      BY <1>2, <2>1, <2>2, <2>3, <3>1
  <2>4. CASE i # 1
    <3>1. i - 1 \in Columns
      BY <1>2, <2>4 DEF Columns
    <3>2. p[i] = p[i - 1] + Len(ss[i - 1])
      BY <1>6, <1>13, <2>4
    <3>3. at[i - 1] = BitmapBytes + p[i - 1] /\ ss[i - 1] = Field(i - 1, v[i - 1]) /\ p[i - 1] \in Nat
      BY <1>1, <1>6, <1>12, <1>13, <3>1
    <3>4. Len(ss[i - 1]) \in Nat
      BY <1>3, <3>1, <3>3, LenProperties
    <3>5. at[i] = at[i - 1] + Len(Field(i - 1, v[i - 1]))
      BY <1>2, <2>1, <3>2, <3>3, <3>4
    <3> QED
      BY <2>1, <2>2, <2>4, <3>5
  <2> QED
    BY <2>3, <2>4
<1> QED
  BY <1>9, <1>11, <1>14, <1>15 DEF Begins

\* The bit of column i in the bytes of a row.
NullBit(buf, i) == (i - 1) % BitsPerByte \in buf[(i - 1) \div BitsPerByte + 1]

\* Where column i ends, if it begins at o.
After(buf, i, o) ==
    CASE NullBit(buf, i) -> o
      [] ~NullBit(buf, i) /\ ColTypes[i] = "TEXT" -> AfterString(buf, o)
      [] OTHER -> o + NumberSize

\* What is read of column i, if it begins at o.
Read(buf, i, o) ==
    CASE NullBit(buf, i) -> Null
      [] ~NullBit(buf, i) /\ ColTypes[i] = "TEXT" -> ReadString(buf, o)
      [] OTHER -> SubSeq(buf, o + 1, o + NumberSize)

LEMMA NullBits ==
    ASSUME RowAssumption, NEW v, Storable(v), NEW i \in Columns
    PROVE  NullBit(Encode(v), i) <=> v[i] = Null
<1>1. PICK k \in 1 .. BitmapBytes : k = (i - 1) \div BitsPerByte + 1
  BY ColumnsFacts
<1>2. Encode(v)[k] = Bitmap(v)[k]
  <2>1. Holds(Encode(v), 0, Bitmap(v)) /\ Len(Bitmap(v)) = BitmapBytes /\ BitmapBytes \in Nat
    BY EncodeHolds, BitmapReads, ColumnsFacts
  <2>2. Encode(v)[0 + k] = Bitmap(v)[k]
    BY <2>1 DEF Holds
  <2>3. 0 + k = k
    OBVIOUS
  <2> QED
    BY <2>2, <2>3
<1>3. (i - 1) % BitsPerByte \in Bitmap(v)[k] <=> v[i] = Null
  BY <1>1, BitmapReads
<1> QED
  BY <1>1, <1>2, <1>3 DEF NullBit

\* A column that begins where it was written is read as it was, and ends where it did.
LEMMA ColumnReads ==
    ASSUME RowAssumption, NEW v, Storable(v), NEW at, Begins(v, at), NEW i \in Columns
    PROVE  /\ After(Encode(v), i, at[i]) = at[i] + Len(Field(i, v[i]))
           /\ Read(Encode(v), i, at[i]) = Kept(i, v[i])
<1>1. at[i] \in Nat /\ Holds(Encode(v), at[i], Field(i, v[i])) /\ Len(Encode(v)) \in Nat
  <2>1. Encode(v) \in Seq(Cells)
    BY EncodeHolds
  <2> QED
    BY <2>1, LenProperties DEF Begins
<1>2. CASE v[i] = Null
  <2>1. NullBit(Encode(v), i) /\ Len(Field(i, v[i])) = 0
    BY <1>2, NullBits, FieldFacts
  <2> QED
    BY <1>1, <1>2, <2>1 DEF After, Read, Kept
<1>3. CASE v[i] # Null /\ ColTypes[i] = "TEXT"
  <2>1. ~NullBit(Encode(v), i) /\ v[i] \in Seq(Nat) /\ Field(i, v[i]) = WriteString(v[i])
    BY <1>3, NullBits, FieldFacts
  <2>2. /\ ReadString(Encode(v), at[i]) = Cut(v[i])
        /\ AfterString(Encode(v), at[i]) = at[i] + Len(WriteString(v[i]))
    BY <1>1, <2>1, StringReads DEF RowAssumption, LengthAssumption
  <2> QED
    BY <1>3, <2>1, <2>2 DEF After, Read, Kept
<1>4. CASE v[i] # Null /\ ColTypes[i] # "TEXT"
  <2>1. ~NullBit(Encode(v), i) /\ Field(i, v[i]) = v[i] /\ Len(v[i]) = NumberSize
    BY <1>4, NullBits, FieldFacts
  <2>2. v[i] \in Seq(Nat)
    BY <2>1, FieldFacts
  <2>3. SubSeq(Encode(v), at[i] + 1, at[i] + Len(v[i])) = v[i]
    BY <1>1, <2>1, <2>2, HoldsRead
  <2> QED
    BY <1>4, <2>1, <2>3 DEF After, Read, Kept
<1> QED
  BY <1>2, <1>3, <1>4

\* The function that Decode defines by itself is the one that says where columns begin.
LEMMA DecodeFrom ==
    ASSUME RowAssumption, NEW v, Storable(v), NEW at, Begins(v, at)
    PROVE  Decode(Encode(v)) = [i \in Columns |-> Read(Encode(v), i, at[i])]
<1> DEFINE Eq(g) == g = [i \in Columns |-> IF i = 1 THEN BitmapBytes
                                           ELSE After(Encode(v), i - 1, g[i - 1])]
<1>1. Len(ColTypes) \in Nat /\ BitmapBytes \in Nat /\ Columns = 1 .. Len(ColTypes)
  BY ColumnsFacts DEF Columns
<1>2. Eq(at)
  <2>1. at = [i \in Columns |-> at[i]]
    BY DEF Begins
  <2>2. ASSUME NEW i \in Columns
        PROVE  at[i] = IF i = 1 THEN BitmapBytes ELSE After(Encode(v), i - 1, at[i - 1])
    <3>1. CASE i = 1
      BY <3>1 DEF Begins
    <3>2. CASE i # 1
      <4>1. i - 1 \in Columns
        BY <1>1, <3>2
      <4>2. After(Encode(v), i - 1, at[i - 1]) = at[i - 1] + Len(Field(i - 1, v[i - 1]))
        BY <4>1, ColumnReads
      <4> QED
        BY <3>2, <4>2 DEF Begins
    <3> QED
      BY <3>1, <3>2
  <2> QED
    BY <2>1, <2>2
<1>3. Eq(CHOOSE g : Eq(g))
  BY <1>2
<1>4. ASSUME NEW g, Eq(g)
      PROVE  g = at
  <2> DEFINE U == {i \in Columns : g[i] = at[i]}
  <2>1. Len(ColTypes) >= 1 => 1 \in U
    BY <1>1, <1>2, <1>4
  <2>2. ASSUME NEW n \in 1 .. Len(ColTypes) - 1, n \in U
        PROVE  n + 1 \in U
    <3>1. PICK m : m = n + 1
      OBVIOUS
    <3>2. m \in Columns /\ m # 1 /\ m - 1 = n
      BY <1>1, <3>1
    <3>3. g[m] = After(Encode(v), m - 1, g[m - 1]) /\ at[m] = After(Encode(v), m - 1, at[m - 1])
      BY <1>2, <1>4, <3>2
    <3>4. g[n] = at[n]
      BY <2>2
    <3> QED
      BY <3>1, <3>2, <3>3, <3>4
  <2>3. Columns \subseteq U
    <3> HIDE DEF U
    <3> QED
      BY <1>1, <2>1, <2>2, StepByStep
  <2>4. g = [i \in Columns |-> g[i]] /\ at = [i \in Columns |-> at[i]]
    BY <1>2, <1>4
  <2> QED
    BY <2>3, <2>4
<1>5. (CHOOSE g : Eq(g)) = at
  <2> HIDE DEF Eq
  <2> QED
    BY <1>3, <1>4
<1>6. Decode(Encode(v)) = [i \in Columns |-> Read(Encode(v), i, (CHOOSE g : Eq(g))[i])]
  BY DEF Decode, Read, After, NullBit
<1> QED
  BY <1>5, <1>6

LEMMA DecodeEncode ==
    ASSUME RowAssumption, NEW v, Storable(v)
    PROVE  Decode(Encode(v)) = [i \in Columns |-> Kept(i, v[i])]
<1>1. PICK at : Begins(v, at)
  BY EncodeHolds
<1>2. Decode(Encode(v)) = [i \in Columns |-> Read(Encode(v), i, at[i])]
  BY <1>1, DecodeFrom
<1>3. \A i \in Columns : Read(Encode(v), i, at[i]) = Kept(i, v[i])
  BY <1>1, ColumnReads
<1> QED
  BY <1>2, <1>3

-----------------------------------------------------------------------------
(* The rows of a table.                                                    *)

LEMMA KeptFacts ==
    ASSUME RowAssumption, NEW v, Storable(v), NEW i \in Columns
    PROVE  /\ Kept(i, Kept(i, v[i])) = Kept(i, v[i])
           /\ Kept(i, v[i]) = Null
              \/ (IF ColTypes[i] = "TEXT" THEN Kept(i, v[i]) \in Seq(Nat)
                  ELSE Kept(i, v[i]) \in Numbers)
<1>1. CASE v[i] = Null
  BY <1>1 DEF Kept
<1>2. CASE v[i] # Null /\ ColTypes[i] = "TEXT"
  <2>1. v[i] \in Seq(Nat)
    BY <1>2 DEF Storable
  <2>2. Cut(v[i]) \in Seq(Nat) /\ Cut(Cut(v[i])) = Cut(v[i])
    BY <2>1, CutFacts, CutOnce DEF RowAssumption, LengthAssumption
  <2> QED
    BY <1>2, <2>2 DEF Kept
<1>3. CASE v[i] # Null /\ ColTypes[i] # "TEXT"
  BY <1>3 DEF Kept, Storable
<1> QED
  BY <1>1, <1>2, <1>3

LEMMA RowIsStorable ==
    ASSUME RowAssumption, NEW v \in Row
    PROVE  Storable(v)
BY DEF RowAssumption, Row, ColumnVals, Storable

\* A stored row is the encoding of values that the columns keep as they keep those given.
StoredFor(buf, g) ==
    \E v : Storable(v) /\ buf = Encode(v) /\ \A i \in Columns : Kept(i, v[i]) = Kept(i, g[i])

RowsInv ==
    /\ tree \in Seq(Seq(Cells)) /\ given \in Seq(Row) /\ Len(given) = Len(tree)
    /\ \A r \in 1 .. Len(tree) : StoredFor(tree[r], given[r])

LEMMA RowsInit ==
    ASSUME Init
    PROVE  RowsInv
<1>1. tree = <<>> /\ given = <<>>
  BY DEF Init
<1>2. tree \in Seq(Seq(Cells)) /\ given \in Seq(Row) /\ Len(tree) = 0 /\ Len(given) = 0
  BY <1>1, EmptySeq
<1> QED
  BY <1>2 DEF RowsInv

LEMMA RowsInsert ==
    ASSUME RowAssumption, RowsInv, NEW v \in Row, InsertRow(v)
    PROVE  RowsInv'
<1>1. tree' = Append(tree, Encode(v)) /\ given' = Append(given, v)
  BY DEF InsertRow
<1>2. Storable(v) /\ Encode(v) \in Seq(Cells)
  BY RowIsStorable, EncodeHolds
<1>3. /\ tree' \in Seq(Seq(Cells)) /\ Len(tree') = Len(tree) + 1 /\ Len(tree) \in Nat
      /\ \A r \in 1 .. Len(tree) : tree'[r] = tree[r]
      /\ tree'[Len(tree) + 1] = Encode(v)
  BY <1>1, <1>2, AppendProperties, LenProperties DEF RowsInv
<1>4. /\ given' \in Seq(Row) /\ Len(given') = Len(tree) + 1
      /\ \A r \in 1 .. Len(tree) : given'[r] = given[r]
      /\ given'[Len(tree) + 1] = v
  BY <1>1, AppendProperties, LenProperties DEF RowsInv
<1>5. ASSUME NEW r \in 1 .. Len(tree')
      PROVE  StoredFor(tree'[r], given'[r])
  <2>1. CASE r = Len(tree) + 1
    BY <1>2, <1>3, <1>4, <2>1 DEF StoredFor
  <2>2. CASE r # Len(tree) + 1
    <3>1. r \in 1 .. Len(tree)
      BY <1>3, <2>2
    <3> QED
      BY <1>3, <1>4, <3>1 DEF RowsInv
  <2> QED
    BY <2>1, <2>2
<1> QED
  BY <1>3, <1>4, <1>5 DEF RowsInv

\* What is written after one column was assigned.
LEMMA Reassigned ==
    ASSUME RowAssumption, NEW g \in Row, NEW buf, StoredFor(buf, g),
           NEW i \in Columns, NEW x \in ColumnVals(i)
    PROVE  LET w == [Decode(buf) EXCEPT ![i] = x]
           IN  /\ Storable(w) /\ [g EXCEPT ![i] = x] \in Row
               /\ StoredFor(Encode(w), [g EXCEPT ![i] = x])
<1>1. PICK v : Storable(v) /\ buf = Encode(v) /\ \A j \in Columns : Kept(j, v[j]) = Kept(j, g[j])
  BY DEF StoredFor
<1>2. PICK d : d = [j \in Columns |-> Kept(j, v[j])]
  OBVIOUS
<1>3. Decode(buf) = d
  BY <1>1, <1>2, DecodeEncode
<1>4. PICK w : w = [d EXCEPT ![i] = x]
  OBVIOUS
<1>5. PICK h : h = [g EXCEPT ![i] = x]
  OBVIOUS
<1>6. /\ w = [j \in Columns |-> w[j]] /\ w[i] = x
      /\ \A j \in Columns : j # i => w[j] = Kept(j, v[j])
  BY <1>2, <1>4
<1>7. Storable(w)
  <2>1. x = Null \/ (IF ColTypes[i] = "TEXT" THEN x \in Seq(Nat) ELSE x \in Numbers)
    BY DEF ColumnVals, RowAssumption
  <2>2. \A j \in Columns : w[j] = Null \/ (IF ColTypes[j] = "TEXT" THEN w[j] \in Seq(Nat)
                                           ELSE w[j] \in Numbers)
    BY <1>1, <1>6, <2>1, KeptFacts
  <2> QED
    BY <1>6, <2>2 DEF Storable
<1>8. h \in Row /\ h[i] = x /\ \A j \in Columns : j # i => h[j] = g[j]
  <2>1. g \in [Columns -> {Null} \cup Numbers \cup Strings] /\ x \in {Null} \cup Numbers \cup Strings
    BY DEF Row, ColumnVals
  <2>2. h \in [Columns -> {Null} \cup Numbers \cup Strings]
    BY <1>5, <2>1
  <2>3. h[i] = x /\ \A j \in Columns : j # i => h[j] = g[j]
    BY <1>5, <2>1
  <2> QED
    BY <2>2, <2>3 DEF Row
<1>9. \A j \in Columns : Kept(j, w[j]) = Kept(j, h[j])
  BY <1>1, <1>6, <1>8, KeptFacts
<1>10. StoredFor(Encode(w), h)
  BY <1>7, <1>9 DEF StoredFor
<1> QED
  BY <1>3, <1>4, <1>5, <1>7, <1>8, <1>10

LEMMA RowsUpdate ==
    ASSUME RowAssumption, RowsInv, NEW k \in DOMAIN tree, NEW i \in Columns,
           NEW x \in ColumnVals(i), UpdateRow(k, i, x)
    PROVE  RowsInv'
<1>1. PICK w : w = [Decode(tree[k]) EXCEPT ![i] = x]
  OBVIOUS
<1>2. tree' = [tree EXCEPT ![k] = Encode(w)] /\ given' = [given EXCEPT ![k][i] = x]
  BY <1>1 DEF UpdateRow
<1>3. /\ Len(tree) \in Nat /\ DOMAIN tree = 1 .. Len(tree) /\ DOMAIN given = 1 .. Len(tree)
      /\ k \in 1 .. Len(tree) /\ given[k] \in Row
  BY LenProperties, ElementOfSeq DEF RowsInv
<1>4. PICK h : h = [given[k] EXCEPT ![i] = x]
  OBVIOUS
<1>5. Storable(w) /\ h \in Row /\ StoredFor(Encode(w), h)
  BY <1>1, <1>3, <1>4, Reassigned DEF RowsInv
<1>6. given' = [given EXCEPT ![k] = h]
  BY <1>2, <1>4
<1>7. Encode(w) \in Seq(Cells)
  BY <1>5, EncodeHolds
<1>8. /\ tree' \in Seq(Seq(Cells)) /\ Len(tree') = Len(tree) /\ tree'[k] = Encode(w)
      /\ \A r \in 1 .. Len(tree) : r # k => tree'[r] = tree[r]
  BY <1>2, <1>3, <1>7, ExceptSeq DEF RowsInv
<1>9. /\ given' \in Seq(Row) /\ Len(given') = Len(tree) /\ given'[k] = h
      /\ \A r \in 1 .. Len(tree) : r # k => given'[r] = given[r]
  BY <1>3, <1>5, <1>6, ExceptSeq DEF RowsInv
<1>10. \A r \in 1 .. Len(tree') : StoredFor(tree'[r], given'[r])
  BY <1>5, <1>8, <1>9 DEF RowsInv
<1> QED
  BY <1>8, <1>9, <1>10 DEF RowsInv

LEMMA RowsRead ==
    ASSUME RowAssumption, RowsInv
    PROVE  ReadsAsWritten
<1> SUFFICES ASSUME NEW r \in DOMAIN tree, NEW i \in Columns
             PROVE  Decode(tree[r])[i] = Kept(i, given[r][i])
  BY DEF ReadsAsWritten, Kept
<1>1. r \in 1 .. Len(tree)
  BY LenProperties DEF RowsInv
<1>2. PICK v : /\ Storable(v) /\ tree[r] = Encode(v)
               /\ \A j \in Columns : Kept(j, v[j]) = Kept(j, given[r][j])
  BY <1>1 DEF RowsInv, StoredFor
<1> QED
  BY <1>2, DecodeEncode

\* Every column reads back as it was written: whatever the types of the columns, the
\* NULLs beside it and the lengths of the texts, and however often a row was read and
\* written again (encode_row and decode_row in row.h, under insert and update_row).
THEOREM RowsReadAsWritten ==
    ASSUME RowAssumption
    PROVE  Spec => []ReadsAsWritten
<1>1. Init => RowsInv
  BY RowsInit
<1>2. RowsInv /\ [Next]_vars => RowsInv'
  <2> SUFFICES ASSUME RowsInv, [Next]_vars PROVE RowsInv'
    OBVIOUS
  <2>1. CASE \E v \in Row : InsertRow(v)
    BY <2>1, RowsInsert
  <2>2. CASE \E r \in DOMAIN tree, i \in Columns : \E x \in ColumnVals(i) : UpdateRow(r, i, x)
    BY <2>2, RowsUpdate
  <2>3. CASE UNCHANGED vars
    BY <2>3 DEF vars, RowsInv
  <2> QED
    BY <2>1, <2>2, <2>3 DEF Next
<1>3. RowsInv => ReadsAsWritten
  BY RowsRead
<1> QED
  BY <1>1, <1>2, <1>3, PTL DEF Spec

-----------------------------------------------------------------------------
(* A definition as bytes.                                                  *)

\* The catalog knows the same bytes.
LEMMA SameBytes ==
    /\ \A s : Catalog!WriteString(s) = WriteString(s)
    /\ \A buf, off : /\ Catalog!ReadString(buf, off) = ReadString(buf, off)
                     /\ Catalog!AfterString(buf, off) = AfterString(buf, off)
BY DEF Catalog!WriteString, Catalog!ReadString, Catalog!AfterString, Catalog!StoredLen, Catalog!Cut,
       WriteString, ReadString, AfterString, StoredLen, Cut

ShortNames == \A n \in Names : Len(n) < LenLimit

LEMMA NameFacts ==
    ASSUME Catalog!CatalogAssumption, ShortNames, NEW n \in Names
    PROVE  n \in Seq(Nat) /\ Cut(n) = n /\ WriteString(n) \in Seq(Nat)
BY CutFacts, CutNone DEF Catalog!CatalogAssumption, ShortNames, LengthAssumption

LEMMA EncodedColumn ==
    ASSUME Catalog!CatalogAssumption, ShortNames, NEW c \in Catalog!Column
    PROVE  /\ Catalog!EncodeColumn(c) =
                ((WriteString(c.name) \o <<c.type, c.flags>>) \o WriteString(c.fk_table))
                  \o WriteString(c.fk_column)
           /\ Catalog!EncodeColumn(c) \in Seq(Cells)
<1>1. /\ WriteString(c.name) \in Seq(Nat) /\ WriteString(c.fk_table) \in Seq(Nat)
      /\ WriteString(c.fk_column) \in Seq(Nat)
  BY NameFacts DEF Catalog!Column
<1>2. /\ WriteString(c.name) \in Seq(Cells) /\ WriteString(c.fk_table) \in Seq(Cells)
      /\ WriteString(c.fk_column) \in Seq(Cells)
  <2>1. Nat \subseteq Cells
    BY DEF Cells
  <2> QED
    BY <1>1, <2>1, SeqMonotonic
<1>3. <<c.type, c.flags>> \in Seq(Cells)
  <2>1. c.type \in Cells /\ c.flags \in Cells
    BY DEF Catalog!Column, Cells
  <2> QED
    BY <2>1
<1>4. Catalog!EncodeColumn(c) =
        ((WriteString(c.name) \o <<c.type, c.flags>>) \o WriteString(c.fk_table))
          \o WriteString(c.fk_column)
  BY SameBytes DEF Catalog!EncodeColumn
<1> QED
  BY <1>2, <1>3, <1>4, ConcatProperties

\* Where a column was written it is read, and where it ends the next one begins.
LEMMA ColumnAtReads ==
    ASSUME Catalog!CatalogAssumption, ShortNames, NEW c \in Catalog!Column, NEW buf, Len(buf) \in Nat,
           NEW off \in Nat, Holds(buf, off, Catalog!EncodeColumn(c))
    PROVE  /\ Catalog!ColumnAt(buf, off).def = c
           /\ Catalog!ColumnAt(buf, off).next = off + Len(Catalog!EncodeColumn(c))
<1> DEFINE n == WriteString(c.name)
           tf == <<c.type, c.flags>>
           ft == WriteString(c.fk_table)
           fc == WriteString(c.fk_column)
<1>1. n \in Seq(Cells) /\ ft \in Seq(Cells) /\ fc \in Seq(Cells) /\ tf \in Seq(Cells) /\ Len(tf) = 2
  <2>1. Nat \subseteq Cells /\ c.type \in Cells /\ c.flags \in Cells
    BY DEF Catalog!Column, Cells
  <2>2. n \in Seq(Nat) /\ ft \in Seq(Nat) /\ fc \in Seq(Nat)
    BY NameFacts DEF Catalog!Column
  <2>3. tf \in Seq(Cells) /\ Len(tf) = 2
    BY <2>1
  <2> QED
    BY <2>1, <2>2, <2>3, SeqMonotonic
<1>2. Len(n) \in Nat /\ Len(ft) \in Nat /\ Len(fc) \in Nat
  <2> HIDE DEF n, ft, fc
  <2> QED
    BY <1>1, LenProperties
<1>3. /\ n \o tf \in Seq(Cells) /\ Len(n \o tf) = Len(n) + 2
      /\ (n \o tf) \o ft \in Seq(Cells) /\ Len((n \o tf) \o ft) = Len(n) + 2 + Len(ft)
      /\ Len(((n \o tf) \o ft) \o fc) = Len(n) + 2 + Len(ft) + Len(fc)
  <2> HIDE DEF n, tf, ft, fc
  <2>6. n \in Seq(Cells) /\ tf \in Seq(Cells)
    BY <1>1
  <2>7. n \o tf \in Seq(Cells) /\ Len(n \o tf) = Len(n) + Len(tf)
    BY <2>6, ConcatProperties
  <2>1. n \o tf \in Seq(Cells) /\ Len(n \o tf) = Len(n) + 2
    BY <1>1, <2>7
  <2>2. PICK a \in Seq(Cells) : a = n \o tf
    BY <2>1
  <2>3. a \o ft \in Seq(Cells) /\ Len(a \o ft) = Len(a) + Len(ft)
    BY <1>1, ConcatProperties
  <2>4. PICK b \in Seq(Cells) : b = a \o ft
    BY <2>3
  <2>5. Len(b \o fc) = Len(b) + Len(fc)
    BY <1>1, ConcatProperties
  <2> QED
    BY <2>1, <2>2, <2>3, <2>4, <2>5
<1>4. Catalog!EncodeColumn(c) = ((n \o tf) \o ft) \o fc
  BY EncodedColumn
<1>5. Holds(buf, off, (n \o tf) \o ft) /\ Holds(buf, off + (Len(n) + 2 + Len(ft)), fc)
  <2> HIDE DEF n, tf, ft, fc
  <2>1. Holds(buf, off, ((n \o tf) \o ft) \o fc)
    BY <1>4
  <2>2. Holds(buf, off, (n \o tf) \o ft) /\ Holds(buf, off + Len((n \o tf) \o ft), fc)
    BY <1>1, <1>3, <2>1, HoldsBoth
  <2> QED
    BY <1>3, <2>2
<1>6. Holds(buf, off, n \o tf) /\ Holds(buf, off + (Len(n) + 2), ft)
  <2> HIDE DEF n, tf, ft, fc
  <2>1. Holds(buf, off, n \o tf) /\ Holds(buf, off + Len(n \o tf), ft)
    BY <1>1, <1>3, <1>5, HoldsBoth
  <2> QED
    BY <1>3, <2>1
<1>7. Holds(buf, off, n) /\ Holds(buf, off + Len(n), tf)
  <2> HIDE DEF n, tf, ft, fc
  <2> QED
    BY <1>1, <1>6, HoldsBoth
<1>8. c.name \in Seq(Nat) /\ c.fk_table \in Seq(Nat) /\ c.fk_column \in Seq(Nat)
  BY NameFacts DEF Catalog!Column
<1>9. PICK o1 \in Nat : o1 = off + Len(n)
  BY <1>2
<1>10. PICK o2 \in Nat : o2 = o1 + 2 /\ o2 = off + (Len(n) + 2)
  BY <1>2, <1>9
<1>11. PICK o3 \in Nat : o3 = o2 + Len(ft) /\ o3 = off + (Len(n) + 2 + Len(ft))
  BY <1>2, <1>10
<1>12. ReadString(buf, off) = c.name /\ AfterString(buf, off) = o1
  BY <1>7, <1>8, <1>9, StringReads, NameFacts DEF Catalog!Column, Catalog!CatalogAssumption, LengthAssumption
<1>13. buf[o1 + 1] = c.type /\ buf[o1 + 2] = c.flags
  <2>1. Holds(buf, o1, tf)
    BY <1>7, <1>9
  <2>2. 1 \in 1 .. Len(tf) /\ 2 \in 1 .. Len(tf) /\ tf[1] = c.type /\ tf[2] = c.flags
    BY <1>1
  <2> HIDE DEF tf
  <2>3. buf[o1 + 1] = tf[1] /\ buf[o1 + 2] = tf[2]
    BY <2>1, <2>2 DEF Holds
  <2> QED
    BY <2>2, <2>3
<1>14. ReadString(buf, o2) = c.fk_table /\ AfterString(buf, o2) = o3
  <2>1. Holds(buf, o2, ft)
    BY <1>6, <1>10
  <2> QED
    BY <2>1, <1>8, <1>11, StringReads, NameFacts DEF Catalog!Column, Catalog!CatalogAssumption, LengthAssumption
<1>15. ReadString(buf, o3) = c.fk_column /\ AfterString(buf, o3) = o3 + Len(fc)
  <2>1. Holds(buf, o3, fc)
    BY <1>5, <1>11
  <2> QED
    BY <2>1, <1>8, StringReads, NameFacts DEF Catalog!Column, Catalog!CatalogAssumption, LengthAssumption
<1>16. Catalog!ColumnAt(buf, off) =
         [def |-> [name |-> ReadString(buf, off), type |-> buf[o1 + 1], flags |-> buf[o1 + 2],
                   fk_table |-> ReadString(buf, o2), fk_column |-> ReadString(buf, o3)],
          next |-> AfterString(buf, o3)]
  BY <1>10, <1>12, <1>14, SameBytes, Zenon DEF Catalog!ColumnAt
<1>17. c = [name |-> c.name, type |-> c.type, flags |-> c.flags,
            fk_table |-> c.fk_table, fk_column |-> c.fk_column]
  BY DEF Catalog!Column
<1>18. Catalog!ColumnAt(buf, off).def = c
  BY <1>12, <1>13, <1>14, <1>15, <1>16, <1>17
<1>19. Catalog!ColumnAt(buf, off).next = off + Len(Catalog!EncodeColumn(c))
  <2>1. Catalog!ColumnAt(buf, off).next = o3 + Len(fc)
    BY <1>15, <1>16
  <2>2. off + Len(Catalog!EncodeColumn(c)) = o3 + Len(fc)
    <3> HIDE DEF n, tf, ft, fc
    <3>1. Len(Catalog!EncodeColumn(c)) = Len(n) + 2 + Len(ft) + Len(fc)
      BY <1>3, <1>4
    <3> QED
      BY <1>2, <1>11, <3>1
  <2> QED
    BY <2>1, <2>2
<1> QED
  BY <1>18, <1>19

LEMMA SameFlatten == \A ss : Catalog!FlattenSeq(ss) = FlattenSeq(ss)
BY DEF Catalog!FlattenSeq, FlattenSeq

\* A definition with columns of a list, and its parts as bytes.
Def ==
    [table_id : Nat, root_page : Nat, next_rowid : Nat, name : Names, columns : ColumnLists]

DefHead(d) == <<d.table_id, d.root_page, d.next_rowid>>
Pieces(d) == [k \in 1 .. Len(d.columns) |-> Catalog!EncodeColumn(d.columns[k])]

LEMMA DefFacts ==
    ASSUME Catalog!CatalogAssumption, ShortNames, NEW d \in Def
    PROVE  /\ d.name \in Names /\ d.columns \in Seq(Catalog!Column) /\ Len(d.columns) \in Nat
           /\ Len(d.columns) < LenLimit /\ Len(d.columns) % LenLimit = Len(d.columns)
           /\ Pieces(d) \in Seq(Seq(Cells)) /\ Len(Pieces(d)) = Len(d.columns)
           /\ \A k \in 1 .. Len(d.columns) :
                d.columns[k] \in Catalog!Column /\ Pieces(d)[k] = Catalog!EncodeColumn(d.columns[k])
<1>1. d.name \in Names /\ d.columns \in Seq(Catalog!Column) /\ Len(d.columns) < LenLimit
  BY DEF Def, Catalog!CatalogAssumption
<1>2. Len(d.columns) \in Nat /\ \A k \in 1 .. Len(d.columns) : d.columns[k] \in Catalog!Column
  BY <1>1, LenProperties, ElementOfSeq
<1>3. Len(d.columns) % LenLimit = Len(d.columns)
  <2>1. LenLimit \in Nat \ {0}
    BY DEF Catalog!CatalogAssumption
  <2>2. PICK b \in Nat \ {0} : b = LenLimit
    BY <2>1
  <2>3. PICK a \in Nat : a = Len(d.columns) /\ a = b * 0 + a /\ a \in 0 .. b - 1
    BY <1>1, <1>2, <2>2
  <2>4. a % b = a
    BY <2>3, QuotientIs
  <2> QED
    BY <2>2, <2>3, <2>4
<1>4. \A k \in 1 .. Len(d.columns) : /\ Pieces(d)[k] = Catalog!EncodeColumn(d.columns[k])
                                     /\ Catalog!EncodeColumn(d.columns[k]) \in Seq(Cells)
  BY <1>2, EncodedColumn DEF Pieces
<1>5. Pieces(d) \in Seq(Seq(Cells)) /\ Len(Pieces(d)) = Len(d.columns)
  <2>1. PICK ps : ps = Pieces(d)
    OBVIOUS
  <2>2. ps = [k \in 1 .. Len(d.columns) |-> ps[k]] /\ \A k \in 1 .. Len(d.columns) : ps[k] \in Seq(Cells)
    BY <1>4, <2>1 DEF Pieces
  <2> QED
    BY <1>2, <2>1, <2>2
<1> QED
  BY <1>1, <1>2, <1>3, <1>4, <1>5

\* Where the columns of a definition begin.
ColsAt(d) == 3 + Len(WriteString(d.name))

ColumnsBegin(d, at) ==
    /\ at \in [1 .. Len(d.columns) -> Nat]
    /\ \A k \in 1 .. Len(d.columns) :
         /\ at[k] = IF k = 1 THEN ColsAt(d) + 1
                    ELSE at[k - 1] + Len(Catalog!EncodeColumn(d.columns[k - 1]))
         /\ Holds(Catalog!EncodeDef(d), at[k], Catalog!EncodeColumn(d.columns[k]))

LEMMA EncodedDef ==
    ASSUME Catalog!CatalogAssumption, ShortNames, NEW d \in Def
    PROVE  /\ Catalog!EncodeDef(d) \in Seq(Cells)
           /\ Holds(Catalog!EncodeDef(d), 0, DefHead(d))
           /\ Holds(Catalog!EncodeDef(d), 3, WriteString(d.name))
           /\ Holds(Catalog!EncodeDef(d), ColsAt(d), <<Len(d.columns)>>)
           /\ \E at : ColumnsBegin(d, at)
<1>1. PICK buf : buf = Catalog!EncodeDef(d)
  OBVIOUS
<1>2. PICK hd \in Seq(Cells) : hd = DefHead(d) /\ Len(hd) = 3
  <2>1. d.table_id \in Cells /\ d.root_page \in Cells /\ d.next_rowid \in Cells
    BY DEF Def, Cells
  <2>2. /\ <<d.table_id, d.root_page, d.next_rowid>> \in Seq(Cells)
        /\ Len(<<d.table_id, d.root_page, d.next_rowid>>) = 3
    BY <2>1
  <2> QED
    BY <2>2 DEF DefHead
<1>3. PICK nm \in Seq(Cells) : nm = WriteString(d.name)
  <2>1. Nat \subseteq Cells /\ WriteString(d.name) \in Seq(Nat)
    BY NameFacts, DefFacts DEF Cells
  <2> QED
    BY <2>1, SeqMonotonic
<1>4. PICK ln \in Seq(Cells) : ln = <<Len(d.columns)>> /\ Len(ln) = 1
  <2>1. Len(d.columns) \in Cells
    BY DefFacts DEF Cells
  <2>2. <<Len(d.columns)>> \in Seq(Cells) /\ Len(<<Len(d.columns)>>) = 1
    BY <2>1
  <2> QED
    BY <2>2
<1>5. PICK fs : fs = FlattenSeq(Pieces(d))
  OBVIOUS
<1>6. PICK p : /\ fs \in Seq(Cells) /\ p \in [1 .. Len(d.columns) -> Nat]
               /\ \A i \in 1 .. Len(d.columns) :
                    /\ p[i] = IF i = 1 THEN 0 ELSE p[i - 1] + Len(Pieces(d)[i - 1])
                    /\ Holds(fs, p[i], Pieces(d)[i])
  <2>1. Pieces(d) \in Seq(Seq(Cells)) /\ Len(Pieces(d)) = Len(d.columns)
    BY DefFacts
  <2> QED
    BY <1>5, <2>1, FlattenHolds
<1>7. buf = ((hd \o nm) \o ln) \o fs
  <2>1. DOMAIN d.columns = 1 .. Len(d.columns) /\ Len(d.columns) % LenLimit = Len(d.columns)
    BY DefFacts, LenProperties
  <2>2. buf = ((DefHead(d) \o WriteString(d.name)) \o <<Len(d.columns)>>) \o FlattenSeq(Pieces(d))
    BY <1>1, <2>1, SameBytes, SameFlatten DEF Catalog!EncodeDef, DefHead, Pieces
  <2> QED
    BY <1>2, <1>3, <1>4, <1>5, <2>2
<1>8. PICK a \in Seq(Cells) : a = hd \o nm /\ Len(a) = 3 + Len(nm)
  <2>1. hd \o nm \in Seq(Cells) /\ Len(hd \o nm) = Len(hd) + Len(nm)
    BY ConcatProperties
  <2> QED
    BY <1>2, <2>1
<1>9. PICK b \in Seq(Cells) : b = a \o ln /\ Len(b) = 3 + Len(nm) + 1
  <2>1. a \o ln \in Seq(Cells) /\ Len(a \o ln) = Len(a) + Len(ln)
    BY ConcatProperties
  <2> QED
    BY <1>4, <1>8, <2>1
<1>10. buf = b \o fs /\ buf \in Seq(Cells) /\ Len(buf) \in Nat /\ Len(nm) \in Nat
  <2>1. buf = b \o fs
    BY <1>7, <1>8, <1>9
  <2>2. b \o fs \in Seq(Cells)
    BY <1>6, ConcatProperties
  <2> QED
    BY <2>1, <2>2, LenProperties
<1>11. Holds(buf, 0, hd)
  <2>1. Holds(hd, 0, hd)
    BY <1>2 DEF Holds
  <2>2. Holds(a, 0, hd)
    BY <1>8, <2>1, HoldsMore
  <2>3. Holds(b, 0, hd)
    BY <1>9, <2>2, HoldsMore
  <2> QED
    BY <1>6, <1>10, <2>3, HoldsMore
<1>12. Holds(buf, 3, nm)
  <2>1. Holds(a, 3, nm)
    BY <1>2, <1>8, HoldsLast
  <2>2. Holds(b, 3, nm)
    BY <1>9, <2>1, HoldsMore
  <2> QED
    BY <1>6, <1>10, <2>2, HoldsMore
<1>13. Holds(buf, 3 + Len(nm), ln)
  <2>1. Holds(b, 3 + Len(nm), ln)
    BY <1>8, <1>9, HoldsLast
  <2>2. 3 + Len(nm) \in Nat
    BY <1>10
  <2> QED
    BY <1>6, <1>10, <2>1, <2>2, HoldsMore
<1>14. Holds(buf, 3 + Len(nm) + 1, fs)
  BY <1>6, <1>9, <1>10, HoldsLast
<1>15. PICK c \in Nat : c = ColsAt(d) + 1 /\ c = 3 + Len(nm) + 1
  BY <1>3, <1>10 DEF ColsAt
<1>16. PICK at : at = [i \in 1 .. Len(d.columns) |-> c + p[i]]
  OBVIOUS
<1>17. at \in [1 .. Len(d.columns) -> Nat]
  BY <1>6, <1>16
<1>18. ASSUME NEW i \in 1 .. Len(d.columns)
       PROVE  /\ at[i] = IF i = 1 THEN c
                         ELSE at[i - 1] + Len(Catalog!EncodeColumn(d.columns[i - 1]))
              /\ Holds(buf, at[i], Catalog!EncodeColumn(d.columns[i]))
  <2>1. at[i] = c + p[i] /\ p[i] \in Nat /\ Holds(fs, p[i], Pieces(d)[i])
    BY <1>6, <1>16
  <2>2. Pieces(d)[i] = Catalog!EncodeColumn(d.columns[i]) /\ Pieces(d)[i] \in Seq(Cells)
    BY DefFacts, EncodedColumn
  <2>3. Holds(buf, at[i], Catalog!EncodeColumn(d.columns[i]))
    <3>1. Holds(buf, c, fs)
      BY <1>14, <1>15
    <3>2. Holds(buf, c + p[i], Pieces(d)[i])
      BY <1>6, <1>10, <2>1, <2>2, <3>1, HoldsPiece
    <3> QED
      BY <2>1, <2>2, <3>2
  <2>4. CASE i = 1
    <3>1. p[i] = 0
      BY <1>6, <2>4
    <3> QED
      BY <2>1, <2>3, <2>4, <3>1
  <2>5. CASE i # 1
    <3>1. i - 1 \in 1 .. Len(d.columns)
      BY <2>5, DefFacts
    <3>2. at[i - 1] = c + p[i - 1] /\ p[i - 1] \in Nat
      BY <1>6, <1>16, <3>1
    <3>3. p[i] = p[i - 1] + Len(Pieces(d)[i - 1])
      BY <1>6, <2>5
    <3>4. /\ Pieces(d)[i - 1] = Catalog!EncodeColumn(d.columns[i - 1])
          /\ Len(Pieces(d)[i - 1]) \in Nat
      <4>1. /\ Pieces(d)[i - 1] = Catalog!EncodeColumn(d.columns[i - 1])
            /\ Pieces(d)[i - 1] \in Seq(Cells)
        BY <3>1, DefFacts, EncodedColumn
      <4> QED
        BY <4>1, LenProperties
    <3>5. at[i] = at[i - 1] + Len(Catalog!EncodeColumn(d.columns[i - 1]))
      BY <2>1, <3>2, <3>3, <3>4
    <3> QED
      BY <2>3, <2>5, <3>5
  <2> QED
    BY <2>4, <2>5
<1>19. ColumnsBegin(d, at)
  BY <1>1, <1>15, <1>17, <1>18 DEF ColumnsBegin
<1>20. Holds(buf, ColsAt(d), <<Len(d.columns)>>)
  BY <1>3, <1>4, <1>13 DEF ColsAt
<1> QED
  BY <1>1, <1>2, <1>3, <1>10, <1>11, <1>12, <1>19, <1>20

\* The function that DecodeDef defines by itself reads each column where it begins.
LEMMA DefFrom ==
    ASSUME Catalog!CatalogAssumption, ShortNames, NEW d \in Def, NEW at, ColumnsBegin(d, at),
           NEW buf, buf = Catalog!EncodeDef(d), NEW c \in Nat, c = ColsAt(d) + 1
    PROVE  \A g : g = [k \in 1 .. Len(d.columns) |->
                         Catalog!ColumnAt(buf, IF k = 1 THEN c ELSE g[k - 1].next)]
             <=> g = [k \in 1 .. Len(d.columns) |-> Catalog!ColumnAt(buf, at[k])]
<1> DEFINE N == Len(d.columns)
           Size(k) == Len(Catalog!EncodeColumn(d.columns[k]))
           From(g, k) == Catalog!ColumnAt(buf, IF k = 1 THEN c ELSE g[k - 1].next)
<1>1. N \in Nat /\ Len(buf) \in Nat
  BY DefFacts, EncodedDef, LenProperties
<1>2. ASSUME NEW k \in 1 .. N
      PROVE  /\ Catalog!ColumnAt(buf, at[k]).next = at[k] + Size(k)
             /\ at[k] = IF k = 1 THEN c ELSE at[k - 1] + Size(k - 1)
  <2>1. d.columns[k] \in Catalog!Column
    BY DefFacts
  <2>2. at[k] \in Nat /\ Holds(buf, at[k], Catalog!EncodeColumn(d.columns[k]))
    BY DEF ColumnsBegin
  <2>3. Catalog!ColumnAt(buf, at[k]).next = at[k] + Size(k)
    BY <1>1, <2>1, <2>2, ColumnAtReads
  <2>4. at[k] = IF k = 1 THEN c ELSE at[k - 1] + Size(k - 1)
    BY DEF ColumnsBegin
  <2> QED
    BY <2>3, <2>4
<1>3. ASSUME NEW g, g = [k \in 1 .. N |-> From(g, k)]
      PROVE  g = [k \in 1 .. N |-> Catalog!ColumnAt(buf, at[k])]
  <2> DEFINE U == {k \in 1 .. N : g[k] = Catalog!ColumnAt(buf, at[k])}
  <2>1. ASSUME NEW k \in 1 .. N
        PROVE  g[k] = From(g, k)
    BY <1>3
  <2>2. N >= 1 => 1 \in U
    <3>1. ASSUME N >= 1
          PROVE  1 \in U
      <4>1. 1 \in 1 .. N
        BY <1>1, <3>1
      <4>2. at[1] = c
        BY <1>2, <4>1
      <4>3. PICK k \in 1 .. N : k = 1
        BY <4>1
      <4>4. g[k] = Catalog!ColumnAt(buf, c)
        BY <2>1, <4>3
      <4> QED
        BY <4>1, <4>2, <4>3, <4>4
    <3> QED
      BY <3>1
  <2>3. ASSUME NEW n \in 1 .. N - 1, n \in U
        PROVE  n + 1 \in U
    <3>1. PICK m : m = n + 1
      OBVIOUS
    <3>2. m \in 1 .. N /\ m # 1 /\ m - 1 = n /\ n \in 1 .. N
      BY <1>1, <3>1
    <3>3. g[m] = Catalog!ColumnAt(buf, g[n].next)
      BY <2>1, <3>2
    <3>4. g[n].next = at[n] + Size(n)
      BY <1>2, <2>3, <3>2
    <3>5. at[m] = at[n] + Size(n)
      BY <1>2, <3>2
    <3> QED
      BY <3>1, <3>2, <3>3, <3>4, <3>5
  <2>4. 1 .. N \subseteq U
    <3> HIDE DEF U, N
    <3> QED
      BY <1>1, <2>2, <2>3, StepByStep
  <2>5. g = [k \in 1 .. N |-> g[k]]
    BY <1>3
  <2>6. \A k \in 1 .. N : g[k] = Catalog!ColumnAt(buf, at[k])
    BY <2>4
  <2> QED
    BY <2>5, <2>6
<1>4. ASSUME NEW g, g = [k \in 1 .. N |-> Catalog!ColumnAt(buf, at[k])]
      PROVE  g = [k \in 1 .. N |-> From(g, k)]
  <2>1. ASSUME NEW k \in 1 .. N
        PROVE  Catalog!ColumnAt(buf, at[k]) = From(g, k)
    <3>1. CASE k = 1
      BY <1>2, <3>1
    <3>2. CASE k # 1
      <4>1. k - 1 \in 1 .. N
        BY <1>1, <3>2
      <4>2. PICK j \in 1 .. N : j = k - 1
        BY <4>1
      <4>3. g[j] = Catalog!ColumnAt(buf, at[j])
        BY <1>4
      <4>4. g[j].next = at[j] + Size(j)
        BY <1>2, <4>3
      <4>5. at[k] = at[j] + Size(j)
        BY <1>2, <3>2, <4>2
      <4> QED
        BY <3>2, <4>2, <4>4, <4>5
    <3> QED
      BY <3>1, <3>2
  <2> QED
    BY <1>4, <2>1
<1> QED
  BY <1>3, <1>4

\* The columns read from c on.
ColumnsFrom(buf, c, n) ==
    LET at[k \in 1 .. n] == Catalog!ColumnAt(buf, IF k = 1 THEN c ELSE at[k - 1].next)
    IN  [k \in 1 .. n |-> at[k].def]

LEMMA DecodedDef ==
    ASSUME NEW buf, NEW cols, cols = Catalog!AfterString(buf, 3)
    PROVE  Catalog!DecodeDef(buf) =
             [table_id |-> buf[1], root_page |-> buf[2], next_rowid |-> buf[3],
              name |-> Catalog!ReadString(buf, 3),
              columns |-> ColumnsFrom(buf, cols + 1, buf[cols + 1])]
BY DEF Catalog!DecodeDef, ColumnsFrom

LEMMA DecodeEncodeDef ==
    ASSUME Catalog!CatalogAssumption, ShortNames, NEW d \in Def
    PROVE  Catalog!DecodeDef(Catalog!EncodeDef(d)) = d
<1>1. PICK buf : buf = Catalog!EncodeDef(d)
  OBVIOUS
<1>2. PICK at : ColumnsBegin(d, at)
  BY EncodedDef
<1>3. Len(buf) \in Nat
  BY <1>1, EncodedDef, LenProperties
<1>4. d.name \in Seq(Nat) /\ Cut(d.name) = d.name /\ Len(WriteString(d.name)) \in Nat
  BY NameFacts, DefFacts, LenProperties
<1>5. buf[1] = d.table_id /\ buf[2] = d.root_page /\ buf[3] = d.next_rowid
  <2> DEFINE h == <<d.table_id, d.root_page, d.next_rowid>>
  <2>1. PICK hd : /\ hd = DefHead(d) /\ Len(hd) = 3
                  /\ hd[1] = d.table_id /\ hd[2] = d.root_page /\ hd[3] = d.next_rowid
    <3>1. h[1] = d.table_id /\ h[2] = d.root_page /\ h[3] = d.next_rowid
      OBVIOUS
    <3>2. Len(h) = 3
      BY DEF Def
    <3> QED
      BY <3>1, <3>2, Zenon DEF DefHead
  <2>2. \A j \in 1 .. 3 : buf[0 + j] = hd[j]
    BY <1>1, <2>1, EncodedDef DEF Holds
  <2>3. buf[0 + 1] = hd[1] /\ buf[0 + 2] = hd[2] /\ buf[0 + 3] = hd[3]
    BY <2>2
  <2> QED
    BY <2>1, <2>3
<1>6. ReadString(buf, 3) = d.name /\ AfterString(buf, 3) = ColsAt(d)
  <2>1. Holds(buf, 3, WriteString(d.name)) /\ 3 \in Nat
    BY <1>1, EncodedDef
  <2> QED
    BY <1>3, <1>4, <2>1, StringReads DEF ColsAt, Catalog!CatalogAssumption, LengthAssumption
<1>7. PICK c \in Nat : c = ColsAt(d) + 1
  BY <1>4 DEF ColsAt
<1>8. buf[ColsAt(d) + 1] = Len(d.columns)
  <2>1. PICK ln : ln = <<Len(d.columns)>> /\ Len(ln) = 1 /\ ln[1] = Len(d.columns)
    <3>1. Len(<<Len(d.columns)>>) = 1 /\ <<Len(d.columns)>>[1] = Len(d.columns)
      BY DefFacts
    <3> QED
      BY <3>1, Zenon
  <2>2. \A j \in 1 .. 1 : buf[ColsAt(d) + j] = ln[j]
    BY <1>1, <2>1, EncodedDef DEF Holds
  <2> QED
    BY <2>1, <2>2
<1> DEFINE Eq(g) == g = [k \in 1 .. Len(d.columns) |->
                           Catalog!ColumnAt(buf, IF k = 1 THEN c ELSE g[k - 1].next)]
<1>9. (CHOOSE g : Eq(g)) = [k \in 1 .. Len(d.columns) |-> Catalog!ColumnAt(buf, at[k])]
  <2>1. PICK h : h = [k \in 1 .. Len(d.columns) |-> Catalog!ColumnAt(buf, at[k])]
    OBVIOUS
  <2>2. \A g : Eq(g) <=> g = h
    BY <1>1, <1>2, <1>7, <2>1, DefFrom
  <2> HIDE DEF Eq
  <2>3. (CHOOSE g : Eq(g)) = h
    BY <2>2
  <2> QED
    BY <2>1, <2>3
<1>10. Catalog!DecodeDef(buf) =
         [table_id |-> buf[1], root_page |-> buf[2], next_rowid |-> buf[3],
          name |-> ReadString(buf, 3),
          columns |-> [k \in 1 .. Len(d.columns) |-> (CHOOSE g : Eq(g))[k].def]]
  <2>1. ColsAt(d) = Catalog!AfterString(buf, 3) /\ Catalog!ReadString(buf, 3) = ReadString(buf, 3)
    BY <1>6, SameBytes
  <2>2. Catalog!DecodeDef(buf) =
          [table_id |-> buf[1], root_page |-> buf[2], next_rowid |-> buf[3],
           name |-> ReadString(buf, 3),
           columns |-> ColumnsFrom(buf, c, Len(d.columns))]
    BY <1>7, <1>8, <2>1, DecodedDef
  <2>3. ColumnsFrom(buf, c, Len(d.columns)) =
          [k \in 1 .. Len(d.columns) |-> (CHOOSE g : Eq(g))[k].def]
    BY DEF ColumnsFrom
  <2> HIDE DEF Eq
  <2> QED
    BY <2>2, <2>3
<1>11. [k \in 1 .. Len(d.columns) |-> (CHOOSE g : Eq(g))[k].def] = d.columns
  <2>1. ASSUME NEW k \in 1 .. Len(d.columns)
        PROVE  Catalog!ColumnAt(buf, at[k]).def = d.columns[k]
    <3>1. d.columns[k] \in Catalog!Column
      BY DefFacts
    <3>2. at[k] \in Nat /\ Holds(buf, at[k], Catalog!EncodeColumn(d.columns[k]))
      BY <1>1, <1>2 DEF ColumnsBegin
    <3> QED
      BY <1>3, <3>1, <3>2, ColumnAtReads
  <2>2. d.columns = [k \in 1 .. Len(d.columns) |-> d.columns[k]]
    BY DefFacts
  <2>3. \A k \in 1 .. Len(d.columns) : (CHOOSE g : Eq(g))[k].def = d.columns[k]
    <3> HIDE DEF Eq
    <3> QED
      BY <1>9, <2>1
  <2> HIDE DEF Eq
  <2> QED
    BY <2>2, <2>3
<1>12. d = [table_id |-> d.table_id, root_page |-> d.root_page, next_rowid |-> d.next_rowid,
            name |-> d.name, columns |-> d.columns]
  BY DEF Def
<1> QED
  <2> HIDE DEF Eq
  <2> QED
    BY <1>1, <1>5, <1>6, <1>10, <1>11, <1>12

-----------------------------------------------------------------------------
(* The definitions of the catalog.                                         *)

\* The file holds the definitions in memory, each under an id of its own.
CatalogInv ==
    /\ next_id \in Nat \ {0}
    /\ by_name = [n \in DOMAIN by_name |-> by_name[n]]
    /\ \A n \in DOMAIN by_name :
         /\ by_name[n] \in Def /\ by_name[n].name = n /\ by_name[n].table_id < next_id
         /\ definitions[by_name[n].table_id] = Catalog!EncodeDef(by_name[n])
    /\ \A n, m \in DOMAIN by_name : by_name[n].table_id = by_name[m].table_id => n = m
    /\ DOMAIN definitions = {by_name[n].table_id : n \in DOMAIN by_name}

LEMMA LoadedIs ==
    ASSUME Catalog!CatalogAssumption, ShortNames, CatalogInv
    PROVE  Catalog!Loaded = by_name
<1> DEFINE ds == {Catalog!DecodeDef(definitions[i]) : i \in DOMAIN definitions}
           Named(n) == CHOOSE d \in ds : /\ d.name = n
                                         /\ \A e \in ds : e.name = n => e.table_id <= d.table_id
<1>1. ASSUME NEW n \in DOMAIN by_name
      PROVE  Catalog!DecodeDef(definitions[by_name[n].table_id]) = by_name[n]
  BY DecodeEncodeDef DEF CatalogInv
<1>2. ds = {by_name[n] : n \in DOMAIN by_name}
  <2>1. \A d \in ds : \E n \in DOMAIN by_name : d = by_name[n]
    BY <1>1 DEF CatalogInv
  <2>2. \A n \in DOMAIN by_name : by_name[n] \in ds
    BY <1>1 DEF CatalogInv
  <2> HIDE DEF ds
  <2> QED
    BY <2>1, <2>2
<1>3. {d.name : d \in ds} = DOMAIN by_name
  <2> HIDE DEF ds
  <2> QED
    BY <1>2 DEF CatalogInv
<1>4. ASSUME NEW n \in DOMAIN by_name
      PROVE  Named(n) = by_name[n]
  <2>1. \A d \in ds : d.name = n => d = by_name[n]
    <3> HIDE DEF ds
    <3> QED
      BY <1>2 DEF CatalogInv
  <2>2. /\ by_name[n] \in ds /\ by_name[n].name = n
        /\ \A e \in ds : e.name = n => e.table_id <= by_name[n].table_id
    <3>1. by_name[n].table_id \in Nat
      BY DEF CatalogInv, Def
    <3> HIDE DEF ds
    <3> QED
      BY <1>2, <2>1, <3>1 DEF CatalogInv
  <2> HIDE DEF ds
  <2> QED
    BY <2>1, <2>2
<1>5. Catalog!Loaded = [n \in {d.name : d \in ds} |-> Named(n)]
  BY DEF Catalog!Loaded
<1> QED
  <2> HIDE DEF ds, Named
  <2>1. Catalog!Loaded = [n \in DOMAIN by_name |-> Named(n)]
    BY <1>3, <1>5
  <2> QED
    BY <1>4, <2>1 DEF CatalogInv

LEMMA CatalogCreates ==
    ASSUME Catalog!CatalogAssumption, ShortNames, CatalogInv,
           NEW n \in Names, NEW cols \in ColumnLists, NEW root \in Roots,
           Catalog!CreateTable(n, cols, root)
    PROVE  CatalogInv'
<1>1. PICK def : def = Catalog!NewDef(n, cols, root)
  OBVIOUS
<1>2. def \in Def /\ def.name = n /\ def.table_id = next_id
  BY <1>1 DEF Catalog!NewDef, Def, CatalogInv, Catalog!CatalogAssumption
<1>3. n \notin DOMAIN by_name /\ next_id' = next_id + 1
  BY DEF Catalog!CreateTable
<1>4. CASE Catalog!Fits(Catalog!EncodeDef(def))
  <2>1. /\ by_name' = [y \in DOMAIN by_name \cup {n} |-> IF y = n THEN def ELSE by_name[y]]
        /\ definitions' = [y \in DOMAIN definitions \cup {next_id} |->
                             IF y = next_id THEN Catalog!EncodeDef(def) ELSE definitions[y]]
    BY <1>1, <1>4 DEF Catalog!CreateTable, Catalog!With
  <2>2. /\ DOMAIN by_name' = DOMAIN by_name \cup {n} /\ by_name'[n] = def
        /\ \A m \in DOMAIN by_name : by_name'[m] = by_name[m]
    BY <1>3, <2>1
  <2>3. /\ DOMAIN definitions' = DOMAIN definitions \cup {next_id}
        /\ definitions'[next_id] = Catalog!EncodeDef(def)
        /\ \A i \in DOMAIN definitions : i # next_id => definitions'[i] = definitions[i]
    BY <2>1
  <2>4. \A m \in DOMAIN by_name : /\ by_name[m].table_id \in Nat
                                  /\ by_name[m].table_id # next_id
                                  /\ by_name[m].table_id < next_id + 1
                                  /\ by_name[m].table_id \in DOMAIN definitions
    BY DEF CatalogInv, Def
  <2>5. next_id' \in Nat \ {0} /\ by_name' = [m \in DOMAIN by_name' |-> by_name'[m]]
    BY <1>3, <2>1 DEF CatalogInv
  <2>6. ASSUME NEW m \in DOMAIN by_name'
        PROVE  /\ by_name'[m] \in Def /\ by_name'[m].name = m /\ by_name'[m].table_id < next_id'
               /\ definitions'[by_name'[m].table_id] = Catalog!EncodeDef(by_name'[m])
    <3>1. CASE m = n
      BY <1>2, <1>3, <2>2, <2>3, <3>1 DEF CatalogInv
    <3>2. CASE m # n
      BY <1>3, <2>2, <2>3, <2>4, <3>2 DEF CatalogInv
    <3> QED
      BY <3>1, <3>2
  <2>7. \A m, k \in DOMAIN by_name' : by_name'[m].table_id = by_name'[k].table_id => m = k
    BY <1>2, <2>2, <2>4 DEF CatalogInv
  <2>8. DOMAIN definitions' = {by_name'[m].table_id : m \in DOMAIN by_name'}
    <3>1. \A i \in DOMAIN definitions' : \E m \in DOMAIN by_name' : i = by_name'[m].table_id
      BY <1>2, <2>2, <2>3 DEF CatalogInv
    <3>2. \A m \in DOMAIN by_name' : by_name'[m].table_id \in DOMAIN definitions'
      BY <1>2, <2>2, <2>3, <2>4
    <3> QED
      BY <3>1, <3>2
  <2> QED
    BY <2>5, <2>6, <2>7, <2>8 DEF CatalogInv
<1>5. CASE ~Catalog!Fits(Catalog!EncodeDef(def))
  <2>1. by_name' = by_name /\ definitions' = definitions
    BY <1>1, <1>5 DEF Catalog!CreateTable
  <2>2. \A m \in DOMAIN by_name : by_name[m].table_id < next_id + 1
    BY DEF CatalogInv, Def
  <2> QED
    BY <1>3, <2>1, <2>2 DEF CatalogInv
<1> QED
  BY <1>4, <1>5

LEMMA CatalogDrops ==
    ASSUME CatalogInv, NEW n \in DOMAIN by_name, Catalog!DropTable(n)
    PROVE  CatalogInv'
<1>1. /\ by_name' = [y \in DOMAIN by_name \ {n} |-> by_name[y]] /\ next_id' = next_id
      /\ definitions' = [y \in DOMAIN definitions \ {by_name[n].table_id} |-> definitions[y]]
  BY DEF Catalog!DropTable, Catalog!Without
<1>2. DOMAIN by_name' = DOMAIN by_name \ {n} /\ \A m \in DOMAIN by_name' : by_name'[m] = by_name[m]
  BY <1>1
<1>3. /\ DOMAIN definitions' = DOMAIN definitions \ {by_name[n].table_id}
      /\ \A i \in DOMAIN definitions' : definitions'[i] = definitions[i]
  BY <1>1
<1>4. DOMAIN definitions' = {by_name'[m].table_id : m \in DOMAIN by_name'}
  <2>1. \A i \in DOMAIN definitions' : \E m \in DOMAIN by_name' : i = by_name'[m].table_id
    BY <1>2, <1>3 DEF CatalogInv
  <2>2. \A m \in DOMAIN by_name' : by_name'[m].table_id \in DOMAIN definitions'
    BY <1>2, <1>3 DEF CatalogInv
  <2> QED
    BY <2>1, <2>2
<1>5. \A m \in DOMAIN by_name' :
        /\ by_name'[m] \in Def /\ by_name'[m].name = m /\ by_name'[m].table_id < next_id'
        /\ definitions'[by_name'[m].table_id] = Catalog!EncodeDef(by_name'[m])
  BY <1>1, <1>2, <1>3, <1>4 DEF CatalogInv
<1>6. by_name' = [m \in DOMAIN by_name' |-> by_name'[m]] /\ next_id' \in Nat \ {0}
  BY <1>1 DEF CatalogInv
<1>7. \A m, k \in DOMAIN by_name' : by_name'[m].table_id = by_name'[k].table_id => m = k
  BY <1>2 DEF CatalogInv
<1> QED
  BY <1>4, <1>5, <1>6, <1>7 DEF CatalogInv

LEMMA CatalogSaves ==
    ASSUME Catalog!CatalogAssumption, CatalogInv,
           NEW n \in DOMAIN by_name, NEW root \in Roots, Catalog!Save(n, root)
    PROVE  CatalogInv'
<1>1. PICK def : def = [by_name[n] EXCEPT !.root_page = root, !.next_rowid = @ + 1]
  OBVIOUS
<1>2. def \in Def /\ def.name = n /\ def.table_id = by_name[n].table_id
  <2>1. by_name[n] \in Def /\ by_name[n].name = n
    BY DEF CatalogInv
  <2>2. root \in Nat /\ by_name[n].next_rowid + 1 \in Nat
    BY <2>1 DEF Catalog!CatalogAssumption, Def
  <2> QED
    BY <1>1, <2>1, <2>2 DEF Def
<1>3. /\ by_name' = [y \in DOMAIN by_name \cup {n} |-> IF y = n THEN def ELSE by_name[y]]
      /\ definitions' = [definitions EXCEPT ![by_name[n].table_id] = Catalog!EncodeDef(def)]
      /\ next_id' = next_id
  BY <1>1, <1>2 DEF Catalog!Save, Catalog!With
<1>4. /\ DOMAIN by_name' = DOMAIN by_name /\ by_name'[n] = def
      /\ \A m \in DOMAIN by_name : m # n => by_name'[m] = by_name[m]
  BY <1>3
<1>5. by_name[n].table_id \in DOMAIN definitions
  BY DEF CatalogInv
<1>6. /\ DOMAIN definitions' = DOMAIN definitions
      /\ definitions'[by_name[n].table_id] = Catalog!EncodeDef(def)
      /\ \A i \in DOMAIN definitions : i # by_name[n].table_id => definitions'[i] = definitions[i]
  BY <1>3, <1>5
<1>7. \A m \in DOMAIN by_name : by_name'[m].table_id = by_name[m].table_id
  BY <1>2, <1>4
<1>8. ASSUME NEW m \in DOMAIN by_name'
      PROVE  /\ by_name'[m] \in Def /\ by_name'[m].name = m /\ by_name'[m].table_id < next_id'
             /\ definitions'[by_name'[m].table_id] = Catalog!EncodeDef(by_name'[m])
  <2>1. CASE m = n
    BY <1>2, <1>3, <1>4, <1>6, <2>1 DEF CatalogInv
  <2>2. CASE m # n
    BY <1>3, <1>4, <1>6, <2>2 DEF CatalogInv
  <2> QED
    BY <2>1, <2>2
<1>9. \A m, k \in DOMAIN by_name' : by_name'[m].table_id = by_name'[k].table_id => m = k
  BY <1>4, <1>7 DEF CatalogInv
<1>10. DOMAIN definitions' = {by_name'[m].table_id : m \in DOMAIN by_name'}
  BY <1>4, <1>6, <1>7 DEF CatalogInv
<1>11. by_name' = [m \in DOMAIN by_name' |-> by_name'[m]] /\ next_id' \in Nat \ {0}
  BY <1>3, <1>4 DEF CatalogInv
<1> QED
  BY <1>8, <1>9, <1>10, <1>11 DEF CatalogInv

\* What the next start will load is what is served now, for any definitions and any
\* operations on them (encode_table_def and decode_table_def in catalog.h).
THEOREM CatalogReloads ==
    ASSUME Catalog!CatalogAssumption
    PROVE  Catalog!Spec => []ReloadIsServed
<1>1. CASE ShortNames
  <2>1. Catalog!Init => CatalogInv
    <3> SUFFICES ASSUME Catalog!Init PROVE CatalogInv
      OBVIOUS
    <3>1. /\ definitions = [i \in {} |-> <<>>] /\ by_name = [n \in {} |-> <<>>] /\ next_id = 1
      BY DEF Catalog!Init
    <3>2. DOMAIN definitions = {} /\ DOMAIN by_name = {}
      BY <3>1
    <3> QED
      BY <3>1, <3>2 DEF CatalogInv
  <2>2. CatalogInv /\ [Catalog!Next]_(Catalog!vars) => CatalogInv'
    <3> SUFFICES ASSUME CatalogInv, [Catalog!Next]_(Catalog!vars) PROVE CatalogInv'
      OBVIOUS
    <3>1. CASE \E n \in Names, cols \in ColumnLists, root \in Roots :
                 Catalog!CreateTable(n, cols, root)
      BY <1>1, <3>1, CatalogCreates
    <3>2. CASE \/ \E n \in DOMAIN by_name : Catalog!DropTable(n)
               \/ \E n \in DOMAIN by_name, root \in Roots : Catalog!Save(n, root)
      BY <1>1, <3>2, CatalogDrops, CatalogSaves
    <3>3. CASE Catalog!Reopen
      <4>1. by_name' = Catalog!Loaded /\ definitions' = definitions /\ next_id' = next_id
        BY <3>3 DEF Catalog!Reopen
      <4>2. by_name' = by_name
        BY <1>1, <4>1, LoadedIs
      <4> QED
        BY <4>1, <4>2 DEF CatalogInv
    <3>4. CASE UNCHANGED Catalog!vars
      BY <3>4 DEF Catalog!vars, CatalogInv
    <3> QED
      BY <3>1, <3>2, <3>3, <3>4 DEF Catalog!Next
  <2>3. CatalogInv => ReloadIsServed
    BY <1>1, LoadedIs DEF ReloadIsServed, Catalog!ReloadIsServed
  <2> QED
    BY <2>1, <2>2, <2>3, PTL DEF Catalog!Spec
<1>2. CASE ~ShortNames
  <2>1. ReloadIsServed
    BY <1>2 DEF ReloadIsServed, Catalog!ReloadIsServed, ShortNames
  <2> QED
    BY <2>1, PTL
<1> QED
  BY <1>1, <1>2

-----------------------------------------------------------------------------
(* Short sequences.                                                        *)

LEMMA AppendToOne ==
    ASSUME NEW x, NEW y
    PROVE  Append(<<x>>, y) = <<x, y>>
<1>1. PICK S : S = {x, y}
  OBVIOUS
<1>2. <<x>> \in Seq(S) /\ Len(<<x>>) = 1 /\ <<x, y>> \in Seq(S) /\ Len(<<x, y>>) = 2
  BY <1>1
<1>3. /\ Append(<<x>>, y) \in Seq(S) /\ Len(Append(<<x>>, y)) = 2
      /\ Append(<<x>>, y)[1] = <<x>>[1] /\ Append(<<x>>, y)[2] = y
  BY <1>1, <1>2, AppendProperties
<1>4. \A i \in 1 .. 2 : Append(<<x>>, y)[i] = <<x, y>>[i]
  BY <1>3
<1> QED
  BY <1>2, <1>3, <1>4, SeqEqual

LEMMA OneIsSome == \A x : \E c : c = <<x>> /\ c # <<>>
<1> TAKE x
<1>1. <<x>> # <<>>
  OBVIOUS
<1> QED
  BY <1>1, Zenon

LEMMA AppendToTwo ==
    ASSUME NEW x, NEW y, NEW z
    PROVE  Append(<<x, y>>, z) = <<x, y, z>>
<1>1. PICK S : S = {x, y, z}
  OBVIOUS
<1>2. <<x, y>> \in Seq(S) /\ Len(<<x, y>>) = 2 /\ <<x, y, z>> \in Seq(S) /\ Len(<<x, y, z>>) = 3
  BY <1>1
<1>3. /\ Append(<<x, y>>, z) \in Seq(S) /\ Len(Append(<<x, y>>, z)) = 3
      /\ \A i \in 1 .. 2 : Append(<<x, y>>, z)[i] = <<x, y>>[i]
      /\ Append(<<x, y>>, z)[3] = z
  BY <1>1, <1>2, AppendProperties
<1>4. \A i \in 1 .. 3 : Append(<<x, y>>, z)[i] = <<x, y, z>>[i]
  BY <1>3
<1> QED
  BY <1>2, <1>3, <1>4, SeqEqual

LEMMA AppendToThree ==
    ASSUME NEW x, NEW y, NEW z, NEW u
    PROVE  Append(<<x, y, z>>, u) = <<x, y, z, u>>
<1>1. PICK S : S = {x, y, z, u}
  OBVIOUS
<1>2. /\ <<x, y, z>> \in Seq(S) /\ Len(<<x, y, z>>) = 3
      /\ <<x, y, z, u>> \in Seq(S) /\ Len(<<x, y, z, u>>) = 4
  BY <1>1
<1>3. /\ Append(<<x, y, z>>, u) \in Seq(S) /\ Len(Append(<<x, y, z>>, u)) = 4
      /\ \A i \in 1 .. 3 : Append(<<x, y, z>>, u)[i] = <<x, y, z>>[i]
      /\ Append(<<x, y, z>>, u)[4] = u
  BY <1>1, <1>2, AppendProperties
<1>4. \A i \in 1 .. 4 : Append(<<x, y, z>>, u)[i] = <<x, y, z, u>>[i]
  BY <1>3
<1> QED
  BY <1>2, <1>3, <1>4, SeqEqual

LEMMA AppendToFour ==
    ASSUME NEW x, NEW y, NEW z, NEW u, NEW v
    PROVE  Append(<<x, y, z, u>>, v) = <<x, y, z, u, v>>
<1>1. PICK S : S = {x, y, z, u, v}
  OBVIOUS
<1>2. /\ <<x, y, z, u>> \in Seq(S) /\ Len(<<x, y, z, u>>) = 4
      /\ <<x, y, z, u, v>> \in Seq(S) /\ Len(<<x, y, z, u, v>>) = 5
  BY <1>1
<1>3. /\ Append(<<x, y, z, u>>, v) \in Seq(S) /\ Len(Append(<<x, y, z, u>>, v)) = 5
      /\ \A i \in 1 .. 4 : Append(<<x, y, z, u>>, v)[i] = <<x, y, z, u>>[i]
      /\ Append(<<x, y, z, u>>, v)[5] = v
  BY <1>1, <1>2, AppendProperties
<1>4. \A i \in 1 .. 5 : Append(<<x, y, z, u>>, v)[i] = <<x, y, z, u, v>>[i]
  BY <1>3
<1> QED
  BY <1>2, <1>3, <1>4, SeqEqual

-----------------------------------------------------------------------------
(* An address and its segments.                                            *)

\* What split_path makes of one character more, if at[i - 1] is what it has before it.
Split(path, at, i) ==
    CASE i = 0 -> [out |-> <<>>, cur |-> <<>>]
      [] i > 0 /\ path[i] = Slash -> [out |-> Paths!Found(at[i - 1]), cur |-> <<>>]
      [] OTHER -> [out |-> at[i - 1].out, cur |-> Append(at[i - 1].cur, path[i])]

Splits(path, at) == at = [i \in 0 .. Len(path) |-> Split(path, at, i)]

LEMMA SplitIs ==
    ASSUME NEW path, Len(path) \in Nat
    PROVE  \E at : Splits(path, at) /\ Paths!SplitPath(path) = Paths!Found(at[Len(path)])
<1> DEFINE N == Len(path)
           T == {n \in 1 .. N + 1 : \E g : /\ g = [i \in 0 .. N |-> g[i]]
                                           /\ \A i \in 0 .. n - 1 : g[i] = Split(path, g, i)}
<1>1. 1 \in T
  <2>1. PICK g : g = [i \in 0 .. N |-> [out |-> <<>>, cur |-> <<>>]]
    OBVIOUS
  <2>2. g = [i \in 0 .. N |-> g[i]] /\ \A i \in 0 .. 1 - 1 : g[i] = Split(path, g, i)
    <3>1. \A i \in 0 .. 1 - 1 : i = 0
      OBVIOUS
    <3> QED
      BY <2>1, <3>1 DEF Split
  <2> QED
    BY <2>2
<1>2. ASSUME NEW n \in 1 .. N + 1 - 1, n \in T
      PROVE  n + 1 \in T
  <2>1. PICK g : g = [i \in 0 .. N |-> g[i]] /\ \A i \in 0 .. n - 1 : g[i] = Split(path, g, i)
    BY <1>2
  <2>2. PICK h : h = [i \in 0 .. N |-> IF i = n THEN Split(path, g, n) ELSE g[i]]
    OBVIOUS
  <2>3. h[n] = Split(path, g, n) /\ \A i \in 0 .. n - 1 : h[i] = g[i]
    BY <2>2
  <2>4. ASSUME NEW i \in 0 .. n + 1 - 1
        PROVE  h[i] = Split(path, h, i)
    <3>1. CASE i = 0
      <4>1. h[i] = g[i] /\ g[i] = Split(path, g, i)
        BY <2>1, <2>3, <3>1
      <4> QED
        BY <3>1, <4>1 DEF Split
    <3>2. CASE i # 0
      <4>1. i - 1 \in 0 .. n - 1 /\ h[i - 1] = g[i - 1]
        BY <2>3, <3>2
      <4>2. h[i] = Split(path, g, i)
        <5>1. CASE i = n
          BY <2>3, <5>1
        <5>2. CASE i # n
          <6>1. i \in 0 .. n - 1
            BY <5>2
          <6> QED
            BY <2>1, <2>3, <6>1
        <5> QED
          BY <5>1, <5>2
      <4> QED
        BY <3>2, <4>1, <4>2 DEF Split
    <3> QED
      BY <3>1, <3>2
  <2>5. h = [i \in 0 .. N |-> h[i]]
    BY <2>2
  <2>6. n + 1 \in 1 .. N + 1
    OBVIOUS
  <2> QED
    BY <2>4, <2>5, <2>6
<1>3. N + 1 \in T
  <2>1. PICK M \in Nat : M = N + 1 /\ M \in 1 .. M
    OBVIOUS
  <2>2. 1 \in T /\ \A n \in 1 .. M - 1 : n \in T => n + 1 \in T
    BY <1>1, <1>2, <2>1
  <2>3. 1 .. M \subseteq T
    <3> HIDE DEF T, N
    <3> QED
      BY <2>2, StepByStep
  <2> QED
    BY <2>1, <2>3
<1>4. PICK g : g = [i \in 0 .. N |-> g[i]] /\ \A i \in 0 .. N + 1 - 1 : g[i] = Split(path, g, i)
  BY <1>3
<1>5. Splits(path, g)
  <2>1. \A i \in 0 .. N : g[i] = Split(path, g, i)
    BY <1>4
  <2> QED
    BY <1>4, <2>1 DEF Splits
<1>6. PICK f : f = CHOOSE g_1 : Splits(path, g_1)
  OBVIOUS
<1>7. Splits(path, f)
  BY <1>5, <1>6
<1>8. Paths!SplitPath(path) = Paths!Found((CHOOSE f_1 : Splits(path, f_1))[Len(path)])
  BY DEF Paths!SplitPath, Splits, Split
<1> QED
  BY <1>6, <1>7, <1>8

\* A slash ends the piece before it.
LEMMA SlashRead ==
    ASSUME NEW path, Len(path) \in Nat, NEW at, Splits(path, at), NEW off \in Nat,
           off + 1 <= Len(path), path[off + 1] = Slash
    PROVE  at[off + 1] = [out |-> Paths!Found(at[off]), cur |-> <<>>]
<1>1. PICK i \in 1 .. Len(path) : i = off + 1 /\ i - 1 = off
  OBVIOUS
<1>2. at[i] = Split(path, at, i)
  <2>1. i \in 0 .. Len(path)
    OBVIOUS
  <2> QED
    BY <2>1 DEF Splits
<1> QED
  BY <1>1, <1>2 DEF Split

\* A piece without a slash is the current one when all of it was read.
LEMMA PieceRead ==
    ASSUME NEW path, Len(path) \in Nat, NEW at, Splits(path, at), NEW off \in Nat,
           NEW S, NEW w \in Seq(S), w # <<>>, \A j \in 1 .. Len(w) : w[j] # Slash,
           Holds(path, off, w), NEW out, at[off] = [out |-> out, cur |-> <<>>]
    PROVE  at[off + Len(w)] = [out |-> out, cur |-> w]
<1>1. Len(w) \in Nat /\ Len(w) >= 1 /\ \A j \in 1 .. Len(w) : w[j] \in S
  BY EmptySeq, ElementOfSeq
<1> DEFINE U == {n \in 1 .. Len(w) : at[off + n] = [out |-> out, cur |-> SubSeq(w, 1, n)]}
<1>2. ASSUME NEW n \in 1 .. Len(w)
      PROVE  at[off + n] = [out |-> at[off + n - 1].out, cur |-> Append(at[off + n - 1].cur, w[n])]
  <2>1. PICK i \in 1 .. Len(path) : i = off + n
    BY <1>1 DEF Holds
  <2>2. at[i] = Split(path, at, i)
    <3>1. i \in 0 .. Len(path)
      OBVIOUS
    <3> QED
      BY <3>1 DEF Splits
  <2>3. path[i] = w[n] /\ w[n] # Slash
    BY <2>1 DEF Holds
  <2>4. at[i] = [out |-> at[i - 1].out, cur |-> Append(at[i - 1].cur, w[n])]
    BY <2>2, <2>3 DEF Split
  <2> QED
    BY <2>1, <2>4
<1>3. 1 \in U
  <2>1. off + 1 - 1 = off /\ 1 \in 1 .. Len(w)
    BY <1>1
  <2>2. at[off + 1] = [out |-> out, cur |-> Append(<<>>, w[1])]
    <3>1. at[off + 1] = [out |-> at[off + 1 - 1].out, cur |-> Append(at[off + 1 - 1].cur, w[1])]
      BY <1>2, <2>1
    <3>2. at[off + 1 - 1] = [out |-> out, cur |-> <<>>]
      BY <2>1
    <3> QED
      BY <3>1, <3>2
  <2>3. Append(<<>>, w[1]) = SubSeq(w, 1, 1)
    BY <1>1
  <2> QED
    BY <2>1, <2>2, <2>3
<1>4. ASSUME NEW n \in 1 .. Len(w) - 1, n \in U
      PROVE  n + 1 \in U
  <2>1. n + 1 \in 1 .. Len(w) /\ off + (n + 1) - 1 = off + n
    BY <1>1
  <2>2. at[off + (n + 1)] = [out |-> out, cur |-> Append(SubSeq(w, 1, n), w[n + 1])]
    <3>1. PICK m \in 1 .. Len(w) : m = n + 1
      BY <2>1
    <3>2. at[off + m] = [out |-> at[off + m - 1].out, cur |-> Append(at[off + m - 1].cur, w[m])]
      BY <1>2
    <3>3. at[off + m - 1] = [out |-> out, cur |-> SubSeq(w, 1, n)]
      BY <1>4, <2>1, <3>1
    <3> QED
      BY <3>1, <3>2, <3>3
  <2>3. Append(SubSeq(w, 1, n), w[n + 1]) = SubSeq(w, 1, n + 1)
    <3>1. /\ SubSeq(w, 1, n) \in Seq(S) /\ Len(SubSeq(w, 1, n)) = n
          /\ \A i \in 1 .. n : SubSeq(w, 1, n)[i] = w[i]
      <4>1. \A i \in 1 .. n : w[i] \in S
        BY <1>1
      <4> QED
        BY <4>1, SubSeqProperties
    <3>2. /\ SubSeq(w, 1, n + 1) \in Seq(S) /\ Len(SubSeq(w, 1, n + 1)) = n + 1
          /\ \A i \in 1 .. n + 1 : SubSeq(w, 1, n + 1)[i] = w[i]
      <4>1. \A i \in 1 .. n + 1 : w[i] \in S
        BY <1>1
      <4> QED
        BY <4>1, SubSeqProperties
    <3>3. PICK x \in S : x = w[n + 1]
      BY <1>1
    <3>4. PICK s \in Seq(S) : s = SubSeq(w, 1, n)
      BY <3>1
    <3>5. /\ Append(s, x) \in Seq(S) /\ Len(Append(s, x)) = n + 1
          /\ \A i \in 1 .. n : Append(s, x)[i] = w[i]
          /\ Append(s, x)[n + 1] = x
      BY <3>1, <3>4, AppendProperties
    <3>6. \A i \in 1 .. n + 1 : Append(s, x)[i] = SubSeq(w, 1, n + 1)[i]
      BY <3>2, <3>3, <3>5
    <3>7. Append(s, x) = SubSeq(w, 1, n + 1)
      BY <3>2, <3>5, <3>6, SeqEqual
    <3> QED
      BY <3>3, <3>4, <3>7
  <2> QED
    BY <2>1, <2>2, <2>3
<1>5. Len(w) \in U
  <2>1. 1 .. Len(w) \subseteq U
    <3> HIDE DEF U
    <3> QED
      BY <1>1, <1>3, <1>4, StepByStep
  <2>2. Len(w) \in 1 .. Len(w)
    BY <1>1
  <2> QED
    BY <2>1, <2>2
<1>6. SubSeq(w, 1, Len(w)) = w
  BY SubSeqFull
<1> QED
  BY <1>5, <1>6

\* The tokens of an address, and its parts: what leads to a table, and what follows.
NameTokens == UNION {Range(name) : name \in PathNames}
Token == NameTokens \cup Ids \cup {Slash, Api, Tables, Rows}

Lead == <<Slash, Api, Slash, Tables, Slash>>

Rest(r) ==
    CASE r.op = "drop" -> <<>>
      [] r.op \in {"list", "add"} -> <<Slash, Rows>>
      [] r.op \in {"edit", "del"} -> <<Slash, Rows, Slash, r.id>>

LEMMA AddressIs ==
    ASSUME Paths!RouteAssumption, NEW r \in Paths!Requests, Paths!Plain(r.name)
    PROVE  /\ r.name \in Seq(Token) /\ r.name # <<>>
           /\ \A j \in 1 .. Len(r.name) : r.name[j] # Slash
           /\ Lead \in Seq(Token) /\ Rest(r) \in Seq(Token)
           /\ Paths!Decode(Paths!Path(r)) = (Lead \o r.name) \o Rest(r)
<1>12. \A x : x \in Token <=> \/ x \in NameTokens \/ x \in Ids
                              \/ x \in {Slash, Api, Tables, Rows}
  BY DEF Token
<1>1. /\ r.op \in {"list", "add", "drop", "edit", "del"} /\ r.name \in PathNames
      /\ r.op \in {"edit", "del"} => r.id \in Ids
  BY DEF Paths!Requests
<1>2. PICK name : name = r.name
  OBVIOUS
<1>3. /\ name \in Seq(Token) /\ name # <<>> /\ Len(name) \in Nat /\ DOMAIN name = 1 .. Len(name)
      /\ \A j \in 1 .. Len(name) : name[j] # Slash
  <2>1. name \in Seq(Range(name))
    BY <1>1, <1>2 DEF Paths!RouteAssumption, Paths!Range, Range
  <2>2. Range(name) \subseteq Token
    <3>1. Range(name) \subseteq NameTokens
      BY <1>1, <1>2 DEF NameTokens
    <3> QED
      BY <1>12, <3>1
  <2>3. name \in Seq(Token)
    BY <2>1, <2>2, SeqMonotonic
  <2> QED
    BY <1>2, <2>3, LenProperties DEF Paths!Plain
<1>4. EscapedSlash \notin Token
  <2>1. \A m \in PathNames : EscapedSlash \notin Range(m)
    BY DEF Paths!RouteAssumption, Paths!Range, Range
  <2>2. EscapedSlash \notin Ids /\ EscapedSlash \notin {Slash, Api, Tables, Rows}
    BY DEF Paths!RouteAssumption
  <2>3. EscapedSlash \notin NameTokens
    <3>1. SUFFICES ASSUME EscapedSlash \in UNION {Range(m) : m \in PathNames} PROVE FALSE
      BY DEF NameTokens
    <3>2. PICK R \in {Range(m) : m \in PathNames} : EscapedSlash \in R
      BY <3>1
    <3>3. PICK m \in PathNames : R = Range(m)
      BY <3>2
    <3> QED
      BY <2>1, <3>2, <3>3
  <2> QED
    BY <1>12, <2>2, <2>3
<1>5. /\ Lead \in Seq(Token) /\ <<Slash, Rows>> \in Seq(Token)
      /\ r.op \in {"edit", "del"} => <<Slash, Rows, Slash, r.id>> \in Seq(Token)
  <2>1. /\ Slash \in Token /\ Api \in Token /\ Tables \in Token /\ Rows \in Token
        /\ r.op \in {"edit", "del"} => r.id \in Token
    <3>1. {Slash, Api, Tables, Rows} \subseteq Token /\ Ids \subseteq Token
      BY <1>12
    <3> QED
      BY <1>1, <3>1
  <2> QED
    BY <2>1 DEF Lead
<1>6. Rest(r) \in Seq(Token)
  BY <1>1, <1>5, EmptySeq DEF Rest
<1>7. Paths!Encode(name) = name
  <2>1. Paths!Encode(name) = [i \in 1 .. Len(name) |-> name[i]]
    BY <1>3 DEF Paths!Encode
  <2> QED
    BY <1>3, <2>1
<1>8. PICK t \in Seq(Token) : t = Lead \o name
  BY <1>3, <1>5, ConcatProperties
<1>9. Paths!Path(r) = t \o Rest(r)
  <2>1. Lead \o Paths!Encode(r.name) = t
    BY <1>2, <1>7, <1>8
  <2>2. CASE r.op = "drop"
    <3>1. Paths!Path(r) = t
      BY <2>1, <2>2 DEF Paths!Path, Lead
    <3>2. t \o <<>> = t
      BY ConcatEmptySeq
    <3> QED
      BY <2>2, <3>1, <3>2 DEF Rest
  <2>3. CASE r.op \in {"list", "add"}
    BY <2>1, <2>3 DEF Paths!Path, Rest, Lead
  <2>4. CASE r.op \in {"edit", "del"}
    BY <2>1, <2>4 DEF Paths!Path, Rest, Lead
  <2> QED
    BY <1>1, <2>2, <2>3, <2>4
<1>10. PICK p \in Seq(Token) : p = t \o Rest(r)
  BY <1>6, ConcatProperties
<1>11. Paths!Decode(p) = p
  <2>1. Len(p) \in Nat /\ DOMAIN p = 1 .. Len(p) /\ \A i \in 1 .. Len(p) : p[i] # EscapedSlash
    BY <1>4, LenProperties, ElementOfSeq
  <2>2. Paths!Decode(p) = [i \in 1 .. Len(p) |-> p[i]]
    BY <2>1 DEF Paths!Decode
  <2> QED
    BY <2>1, <2>2
<1> QED
  BY <1>2, <1>3, <1>5, <1>6, <1>8, <1>9, <1>10, <1>11

\* What split_path has behind the name of the table.
LEMMA LeadRead ==
    ASSUME Paths!RouteAssumption, NEW name \in Seq(Token), name # <<>>,
           \A j \in 1 .. Len(name) : name[j] # Slash,
           NEW path, Len(path) \in Nat, NEW at, Splits(path, at),
           Holds(path, 0, Lead), Holds(path, 5, name)
    PROVE  at[5 + Len(name)] = [out |-> <<<<Api>>, <<Tables>>>>, cur |-> name]
<1>1. /\ path[1] = Slash /\ path[2] = Api /\ path[3] = Slash /\ path[4] = Tables
      /\ path[5] = Slash /\ 5 <= Len(path)
  <2>1. Len(Lead) = 5 /\ Lead[1] = Slash /\ Lead[2] = Api /\ Lead[3] = Slash /\ Lead[4] = Tables
        /\ Lead[5] = Slash
    BY DEF Lead, Token
  <2>2. \A j \in 1 .. 5 : path[0 + j] = Lead[j]
    BY <2>1 DEF Holds
  <2>3. \A j \in 1 .. 5 : path[j] = Lead[j]
    BY <2>2
  <2> QED
    BY <2>1, <2>3 DEF Holds
<1>2. Api # Slash /\ Tables # Slash
  BY DEF Paths!RouteAssumption
<1>3. \A i \in 0 .. Len(path) : at[i] = Split(path, at, i)
  BY DEF Splits
<1>4. at[0] = [out |-> <<>>, cur |-> <<>>]
  <2>1. at[0] = Split(path, at, 0)
    BY <1>1, <1>3
  <2> QED
    BY <2>1 DEF Split
<1>5. at[1] = [out |-> <<>>, cur |-> <<>>]
  <2>1. at[0 + 1] = [out |-> Paths!Found(at[0]), cur |-> <<>>]
    BY <1>1, SlashRead
  <2> QED
    BY <1>4, <2>1 DEF Paths!Found
<1>6. at[2] = [out |-> <<>>, cur |-> <<Api>>]
  <2>1. 2 \in 0 .. Len(path) /\ 2 - 1 = 1
    BY <1>1
  <2>2. at[2] = [out |-> at[1].out, cur |-> Append(at[1].cur, path[2])]
    <3>1. at[2] = Split(path, at, 2)
      BY <1>3, <2>1
    <3>2. path[2] # Slash /\ ~(2 = 0)
      BY <1>1, <1>2
    <3> QED
      BY <2>1, <3>1, <3>2 DEF Split
  <2>3. Append(<<>>, Api) = <<Api>>
    OBVIOUS
  <2> QED
    BY <1>1, <1>5, <2>2, <2>3
<1>7. at[3] = [out |-> <<<<Api>>>>, cur |-> <<>>]
  <2>1. at[2 + 1] = [out |-> Paths!Found(at[2]), cur |-> <<>>]
    BY <1>1, SlashRead
  <2>2. <<Api>> # <<>> /\ Append(<<>>, <<Api>>) = <<<<Api>>>>
    OBVIOUS
  <2> QED
    BY <1>6, <2>1, <2>2 DEF Paths!Found
<1>8. at[4] = [out |-> <<<<Api>>>>, cur |-> <<Tables>>]
  <2>1. 4 \in 0 .. Len(path) /\ 4 - 1 = 3
    BY <1>1
  <2>2. at[4] = [out |-> at[3].out, cur |-> Append(at[3].cur, path[4])]
    <3>1. at[4] = Split(path, at, 4)
      BY <1>3, <2>1
    <3>2. path[4] # Slash /\ ~(4 = 0)
      BY <1>1, <1>2
    <3> QED
      BY <2>1, <3>1, <3>2 DEF Split
  <2>3. Append(<<>>, Tables) = <<Tables>>
    OBVIOUS
  <2> QED
    BY <1>1, <1>7, <2>2, <2>3
<1>9. at[5] = [out |-> <<<<Api>>, <<Tables>>>>, cur |-> <<>>]
  <2>1. at[4 + 1] = [out |-> Paths!Found(at[4]), cur |-> <<>>]
    BY <1>1, SlashRead
  <2>2. <<Tables>> # <<>>
    OBVIOUS
  <2>3. Append(<<<<Api>>>>, <<Tables>>) = <<<<Api>>, <<Tables>>>>
    BY AppendToOne
  <2>4. PICK o, c : o = <<<<Api>>>> /\ c = <<Tables>>
    OBVIOUS
  <2>5. at[4] = [out |-> o, cur |-> c] /\ c # <<>> /\ Append(o, c) = <<<<Api>>, <<Tables>>>>
    BY <1>8, <2>2, <2>3, <2>4
  <2>6. Paths!Found(at[4]) = Append(o, c)
    BY <2>5 DEF Paths!Found
  <2>7. 4 + 1 = 5
    OBVIOUS
  <2> QED
    BY <2>1, <2>5, <2>6, <2>7
<1> QED
  <2>1. PICK out : out = <<<<Api>>, <<Tables>>>>
    OBVIOUS
  <2>2. at[5] = [out |-> out, cur |-> <<>>] /\ 5 \in Nat
    BY <1>9, <2>1
  <2>3. at[5 + Len(name)] = [out |-> out, cur |-> name]
    BY <2>2, PieceRead
  <2> QED
    BY <2>1, <2>3

\* A slash and one token that is none, behind a piece.
LEMMA TokenRead ==
    ASSUME NEW path, Len(path) \in Nat, NEW at, Splits(path, at), NEW off \in Nat,
           off + 2 <= Len(path), path[off + 1] = Slash, path[off + 2] # Slash,
           at[off].cur # <<>>
    PROVE  at[off + 2] = [out |-> Append(at[off].out, at[off].cur), cur |-> <<path[off + 2]>>]
<1> DEFINE o == Append(at[off].out, at[off].cur)
<1>1. at[off + 1] = [out |-> o, cur |-> <<>>]
  <2>1. at[off + 1] = [out |-> Paths!Found(at[off]), cur |-> <<>>]
    BY SlashRead
  <2>2. Paths!Found(at[off]) = o
    BY DEF Paths!Found
  <2> QED
    BY <2>1, <2>2
<1>2. PICK i \in 0 .. Len(path) : i = off + 2 /\ i - 1 = off + 1 /\ ~(i = 0)
  OBVIOUS
<1>3. at[i] = Split(path, at, i)
  BY DEF Splits
<1>4. at[i] = [out |-> at[i - 1].out, cur |-> Append(at[i - 1].cur, path[i])]
  BY <1>2, <1>3 DEF Split
<1>5. Append(<<>>, path[i]) = <<path[i]>>
  OBVIOUS
<1> HIDE DEF o
<1>6. at[i - 1].out = o /\ at[i - 1].cur = <<>>
  BY <1>1, <1>2
<1>7. at[i] = [out |-> o, cur |-> <<path[i]>>]
  BY <1>4, <1>5, <1>6
<1> USE DEF o
<1> QED
  BY <1>2, <1>7

\* The segments of an address.
Segments(r) ==
    CASE r.op = "drop" -> <<<<Api>>, <<Tables>>, r.name>>
      [] r.op \in {"list", "add"} -> <<<<Api>>, <<Tables>>, r.name, <<Rows>>>>
      [] r.op \in {"edit", "del"} -> <<<<Api>>, <<Tables>>, r.name, <<Rows>>, <<r.id>>>>

LEMMA SegmentsAre ==
    ASSUME Paths!RouteAssumption, NEW r \in Paths!Requests, Paths!Plain(r.name)
    PROVE  Paths!SplitPath(Paths!Decode(Paths!Path(r))) = Segments(r)
<1>1. PICK name \in Seq(Token) : /\ name = r.name /\ name # <<>> /\ Len(name) \in Nat
                                 /\ \A j \in 1 .. Len(name) : name[j] # Slash
  BY AddressIs, LenProperties
<1>2. PICK tail \in Seq(Token) : tail = Rest(r)
  BY AddressIs
<1>3. Lead \in Seq(Token) /\ Len(Lead) = 5
  <2>1. Len(Lead) = 5
    BY DEF Lead, Token
  <2> QED
    BY <2>1, AddressIs
<1>4. PICK t \in Seq(Token) : t = Lead \o name /\ Len(t) = 5 + Len(name)
  <2>1. Lead \o name \in Seq(Token) /\ Len(Lead \o name) = Len(Lead) + Len(name)
    BY <1>3, ConcatProperties
  <2> QED
    BY <1>3, <2>1
<1>5. PICK path \in Seq(Token) : /\ path = t \o tail /\ path = Paths!Decode(Paths!Path(r))
                                 /\ Len(path) = 5 + Len(name) + Len(tail)
  <2>1. t \o tail \in Seq(Token) /\ Len(t \o tail) = Len(t) + Len(tail)
    BY ConcatProperties
  <2>2. t \o tail = Paths!Decode(Paths!Path(r))
    BY <1>1, <1>2, <1>4, AddressIs
  <2> QED
    BY <1>4, <2>1, <2>2
<1>6. Len(tail) \in Nat /\ Len(path) \in Nat
  BY LenProperties
<1>7. Holds(path, 0, Lead) /\ Holds(path, 5, name)
  <2>1. Holds(Lead, 0, Lead) /\ Holds(t, 5, name)
    <3>1. Holds(Lead, 0, Lead)
      BY <1>3 DEF Holds
    <3> QED
      BY <1>3, <1>4, <3>1, HoldsLast
  <2>2. Holds(t, 0, Lead)
    BY <1>3, <1>4, <2>1, HoldsMore
  <2> QED
    BY <1>3, <1>5, <2>1, <2>2, HoldsMore
<1>8. Holds(path, 5 + Len(name), tail)
  BY <1>4, <1>5, HoldsLast
<1>9. PICK at : Splits(path, at) /\ Paths!SplitPath(path) = Paths!Found(at[Len(path)])
  BY <1>6, SplitIs
<1>10. PICK o : o = <<<<Api>>, <<Tables>>>> /\ Append(o, name) = <<<<Api>>, <<Tables>>, name>>
  BY AppendToTwo
<1>11. PICK m \in Nat : m = 5 + Len(name)
  BY <1>1
<1>12. at[m] = [out |-> o, cur |-> name]
  BY <1>1, <1>6, <1>7, <1>9, <1>10, <1>11, LeadRead
<1>13. \A j \in 1 .. Len(tail) : path[m + j] = tail[j]
  BY <1>8, <1>11 DEF Holds
<1>14. CASE r.op = "drop"
  <2>1. Len(tail) = 0
    BY <1>2, <1>14, EmptySeq DEF Rest
  <2>2. Paths!SplitPath(path) = Append(o, name)
    BY <1>1, <1>5, <1>9, <1>11, <1>12, <2>1 DEF Paths!Found
  <2> QED
    BY <1>1, <1>5, <1>10, <1>14, <2>2 DEF Segments
<1>15. ASSUME r.op # "drop"
       PROVE  /\ Len(tail) >= 2 /\ path[m + 1] = Slash /\ path[m + 2] = Rows
              /\ at[m + 2] = [out |-> Append(o, name), cur |-> <<Rows>>]
  <2>1. Len(tail) >= 2 /\ tail[1] = Slash /\ tail[2] = Rows
    <3>1. r.op \in {"list", "add", "edit", "del"}
      BY <1>15 DEF Paths!Requests
    <3>2. CASE r.op \in {"list", "add"}
      <4>1. tail = <<Slash, Rows>>
        BY <1>2, <3>2 DEF Rest
      <4> QED
        BY <4>1
    <3>3. CASE r.op \in {"edit", "del"}
      <4>1. tail = <<Slash, Rows, Slash, r.id>>
        BY <1>2, <3>3 DEF Rest
      <4> QED
        BY <4>1
    <3> QED
      BY <3>1, <3>2, <3>3
  <2>2. path[m + 1] = Slash /\ path[m + 2] = Rows /\ Rows # Slash
    <3>1. 1 \in 1 .. Len(tail) /\ 2 \in 1 .. Len(tail)
      BY <1>6, <2>1
    <3>2. Rows # Slash
      BY DEF Paths!RouteAssumption
    <3> QED
      BY <1>13, <2>1, <3>1, <3>2
  <2>3. m + 2 <= Len(path)
    BY <1>5, <1>6, <1>11, <2>1
  <2>5. at[m].out = o /\ at[m].cur = name
    BY <1>12
  <2>4. at[m + 2] = [out |-> Append(o, name), cur |-> <<path[m + 2]>>]
    <3>1. path[m + 2] # Slash /\ at[m].cur # <<>>
      BY <1>1, <2>2, <2>5
    <3>2. at[m + 2] = [out |-> Append(at[m].out, at[m].cur), cur |-> <<path[m + 2]>>]
      BY <1>6, <1>9, <2>2, <2>3, <3>1, TokenRead
    <3> QED
      BY <2>5, <3>2
  <2> QED
    BY <2>1, <2>2, <2>4
<1>16. CASE r.op \in {"list", "add"}
  <2>1. Len(tail) = 2
    <3>1. tail = <<Slash, Rows>>
      BY <1>2, <1>16 DEF Rest
    <3> QED
      BY <3>1
  <2>2. at[Len(path)] = [out |-> Append(o, name), cur |-> <<Rows>>]
    <3>1. Len(path) = m + 2
      BY <1>5, <1>11, <2>1
    <3> QED
      BY <1>15, <1>16, <3>1
  <2>3. PICK c : c = <<Rows>> /\ c # <<>>
    BY OneIsSome
  <2>4. Paths!SplitPath(path) = Append(Append(o, name), c)
    BY <1>9, <2>2, <2>3 DEF Paths!Found
  <2>5. Append(Append(o, name), c) = <<<<Api>>, <<Tables>>, name, <<Rows>>>>
    BY <1>10, <2>3, AppendToThree
  <2> QED
    BY <1>1, <1>5, <1>16, <2>4, <2>5 DEF Segments
<1>17. CASE r.op \in {"edit", "del"}
  <2>1. tail = <<Slash, Rows, Slash, r.id>>
    BY <1>2, <1>17 DEF Rest
  <2>2. Len(tail) = 4 /\ tail[3] = Slash /\ tail[4] = r.id
    BY <2>1
  <2>3. path[m + 3] = Slash /\ path[m + 4] = r.id
    BY <1>13, <2>2
  <2>4. r.id # Slash
    <3>1. r.id \in Ids
      BY <1>17 DEF Paths!Requests
    <3> QED
      BY <3>1 DEF Paths!RouteAssumption
  <2>5. PICK c : c = <<Rows>> /\ c # <<>>
    BY OneIsSome
  <2>6. PICK k \in Nat : k = m + 2 /\ k + 1 = m + 3 /\ k + 2 = m + 4
    OBVIOUS
  <2>7. at[k] = [out |-> Append(o, name), cur |-> c]
    BY <1>15, <1>17, <2>5, <2>6
  <2>8. k + 2 = Len(path)
    BY <1>5, <1>11, <2>2, <2>6
  <2>13. at[k].out = Append(o, name) /\ at[k].cur = c
    BY <2>7
  <2>9. at[k + 2] = [out |-> Append(Append(o, name), c), cur |-> <<path[k + 2]>>]
    <3>1. path[k + 1] = Slash /\ path[k + 2] # Slash /\ k + 2 <= Len(path)
      BY <1>6, <2>3, <2>4, <2>6, <2>8
    <3>2. at[k].cur # <<>>
      BY <2>5, <2>13
    <3>3. at[k + 2] = [out |-> Append(at[k].out, at[k].cur), cur |-> <<path[k + 2]>>]
      BY <1>6, <1>9, <3>1, <3>2, TokenRead
    <3> QED
      BY <2>13, <3>3
  <2>10. PICK e : e = <<r.id>> /\ e # <<>>
    BY OneIsSome
  <2>11. Paths!SplitPath(path) = Append(Append(Append(o, name), c), e)
    <3>1. PICK q : q = Append(Append(o, name), c)
      OBVIOUS
    <3>2. at[Len(path)] = [out |-> q, cur |-> e]
      BY <2>3, <2>6, <2>8, <2>9, <2>10, <3>1
    <3>3. Paths!Found(at[Len(path)]) = Append(q, e)
      BY <2>10, <3>2 DEF Paths!Found
    <3> QED
      BY <1>9, <3>1, <3>3
  <2>12. Append(Append(Append(o, name), c), e) = <<<<Api>>, <<Tables>>, name, <<Rows>>, <<r.id>>>>
    <3>1. Append(Append(o, name), c) = <<<<Api>>, <<Tables>>, name, <<Rows>>>>
      BY <1>10, <2>5, AppendToThree
    <3> QED
      BY <2>10, <3>1, AppendToFour
  <2> QED
    BY <1>1, <1>5, <1>17, <2>11, <2>12 DEF Segments
<1>18. r.op \in {"list", "add", "drop", "edit", "del"}
  BY DEF Paths!Requests
<1> QED
  BY <1>14, <1>16, <1>17, <1>18

-----------------------------------------------------------------------------
(* The routes.                                                             *)

\* The routes that main registers, one by one.
LEMMA RoutesAre ==
    /\ DOMAIN Paths!RouteList = 1 .. 11
    /\ \A i \in {1, 2, 3, 4, 5, 11} :
         \E segment : Paths!RouteList[i].pattern = <<<<Api>>, <<segment>>>>
    /\ Paths!RouteList[6] = [method |-> "DELETE", pattern |-> Paths!Table, op |-> "drop"]
    /\ Paths!RouteList[7] = [method |-> "GET", pattern |-> Paths!TableRows, op |-> "list"]
    /\ Paths!RouteList[8] = [method |-> "POST", pattern |-> Paths!TableRows, op |-> "add"]
    /\ Paths!RouteList[9] = [method |-> "PATCH", pattern |-> Paths!OneRow, op |-> "edit"]
    /\ Paths!RouteList[10] = [method |-> "DELETE", pattern |-> Paths!OneRow, op |-> "del"]
BY DEF Paths!RouteList

LEMMA PatternsAre ==
    /\ Paths!Table = <<<<Api>>, <<Tables>>, <<Param>>>>
    /\ Paths!TableRows = <<<<Api>>, <<Tables>>, <<Param>>, <<Rows>>>>
    /\ Paths!OneRow = <<<<Api>>, <<Tables>>, <<Param>>, <<Rows>>, <<Param>>>>
<1>1. Paths!Table = <<<<Api>>, <<Tables>>, <<Param>>>>
  BY DEF Paths!Table
<1>2. PICK a, t, p, w : a = <<Api>> /\ t = <<Tables>> /\ p = <<Param>> /\ w = <<Rows>>
  OBVIOUS
<1>3. Paths!TableRows = <<a, t, p, w>>
  BY <1>1, <1>2, AppendToThree DEF Paths!TableRows
<1>4. Paths!OneRow = <<a, t, p, w, p>>
  BY <1>2, <1>3, AppendToFour DEF Paths!OneRow
<1> QED
  BY <1>1, <1>2, <1>3, <1>4

\* A pattern with some segments, and where its parameters are.
LEMMA SegmentsApart ==
    ASSUME Paths!RouteAssumption
    PROVE  <<Param>> # <<Api>> /\ <<Param>> # <<Tables>> /\ <<Param>> # <<Rows>>
BY DEF Paths!RouteAssumption

LEMMA MatchesAre ==
    ASSUME Paths!RouteAssumption, NEW r \in Paths!Requests
    PROVE  /\ Paths!Match(Paths!Table, Segments(r)) <=> r.op = "drop"
           /\ Paths!Match(Paths!TableRows, Segments(r)) <=> r.op \in {"list", "add"}
           /\ Paths!Match(Paths!OneRow, Segments(r)) <=> r.op \in {"edit", "del"}
           /\ \A segment : ~Paths!Match(<<<<Api>>, <<segment>>>>, Segments(r))
<1>1. PICK a, t, p, w, name, id : /\ a = <<Api>> /\ t = <<Tables>> /\ p = <<Param>>
                                  /\ w = <<Rows>> /\ name = r.name /\ id = <<r.id>>
  OBVIOUS
<1>2. r.op \in {"list", "add", "drop", "edit", "del"}
  BY DEF Paths!Requests
<1>3. /\ r.op = "drop" => Segments(r) = <<a, t, name>>
      /\ r.op \in {"list", "add"} => Segments(r) = <<a, t, name, w>>
      /\ r.op \in {"edit", "del"} => Segments(r) = <<a, t, name, w, id>>
  BY <1>1 DEF Segments
<1>4. /\ Paths!Table = <<a, t, p>> /\ Paths!TableRows = <<a, t, p, w>>
      /\ Paths!OneRow = <<a, t, p, w, p>>
  BY <1>1, PatternsAre
<1>5. /\ \A x : Len(<<a, <<x>>>>) = 2
      /\ Len(<<a, t, name>>) = 3 /\ Len(<<a, t, p>>) = 3
      /\ Len(<<a, t, name, w>>) = 4 /\ Len(<<a, t, p, w>>) = 4
      /\ Len(<<a, t, name, w, id>>) = 5 /\ Len(<<a, t, p, w, p>>) = 5
  OBVIOUS
<1>6. /\ Paths!Match(<<a, t, p>>, <<a, t, name>>)
      /\ Paths!Match(<<a, t, p, w>>, <<a, t, name, w>>)
      /\ Paths!Match(<<a, t, p, w, p>>, <<a, t, name, w, id>>)
  BY <1>1, <1>5 DEF Paths!Match
<1>8. CASE r.op = "drop"
  <2>1. Segments(r) = <<a, t, name>>
    BY <1>3, <1>8
  <2>2. /\ \A x : ~Paths!Match(<<a, <<x>>>>, <<a, t, name>>)
        /\ ~Paths!Match(<<a, t, p, w>>, <<a, t, name>>)
        /\ ~Paths!Match(<<a, t, p, w, p>>, <<a, t, name>>)
    BY <1>5 DEF Paths!Match
  <2> QED
    BY <1>1, <1>4, <1>6, <1>8, <2>1, <2>2
<1>9. CASE r.op \in {"list", "add"}
  <2>1. Segments(r) = <<a, t, name, w>>
    BY <1>3, <1>9
  <2>2. /\ \A x : ~Paths!Match(<<a, <<x>>>>, <<a, t, name, w>>)
        /\ ~Paths!Match(<<a, t, p>>, <<a, t, name, w>>)
        /\ ~Paths!Match(<<a, t, p, w, p>>, <<a, t, name, w>>)
    BY <1>5 DEF Paths!Match
  <2> QED
    BY <1>1, <1>4, <1>6, <1>9, <2>1, <2>2
<1>10. CASE r.op \in {"edit", "del"}
  <2>1. Segments(r) = <<a, t, name, w, id>>
    BY <1>3, <1>10
  <2>2. /\ \A x : ~Paths!Match(<<a, <<x>>>>, <<a, t, name, w, id>>)
        /\ ~Paths!Match(<<a, t, p>>, <<a, t, name, w, id>>)
        /\ ~Paths!Match(<<a, t, p, w>>, <<a, t, name, w, id>>)
    BY <1>5 DEF Paths!Match
  <2> QED
    BY <1>1, <1>4, <1>6, <1>10, <2>1, <2>2
<1> QED
  BY <1>2, <1>8, <1>9, <1>10

LEMMA DispatchIsMeant ==
    ASSUME Paths!RouteAssumption, NEW r \in Paths!Requests, Paths!Plain(r.name)
    PROVE  Paths!Dispatch(r) = Paths!Meant(r)
<1>1. r.op \in {"list", "add", "drop", "edit", "del"}
  BY DEF Paths!Requests
<1>2. PICK segs : segs = Segments(r) /\ segs = Paths!SplitPath(Paths!Decode(Paths!Path(r)))
  BY SegmentsAre
<1>3. PICK k \in 1 .. 11 : /\ r.op = "drop" => k = 6
                           /\ r.op = "list" => k = 7
                           /\ r.op = "add" => k = 8
                           /\ r.op = "edit" => k = 9
                           /\ r.op = "del" => k = 10
  BY <1>1
<1>4. Paths!Matching(r) = {k}
  <2>1. \A i \in 1 .. 11 : (/\ Paths!RouteList[i].method = Paths!Method(r)
                            /\ Paths!Match(Paths!RouteList[i].pattern, segs)) <=> i = k
    <3>1. /\ r.op = "drop" => Paths!Method(r) = "DELETE"
          /\ r.op = "list" => Paths!Method(r) = "GET"
          /\ r.op = "add" => Paths!Method(r) = "POST"
          /\ r.op = "edit" => Paths!Method(r) = "PATCH"
          /\ r.op = "del" => Paths!Method(r) = "DELETE"
      BY DEF Paths!Method
    <3> SUFFICES ASSUME NEW i \in 1 .. 11
                 PROVE  (/\ Paths!RouteList[i].method = Paths!Method(r)
                         /\ Paths!Match(Paths!RouteList[i].pattern, segs)) <=> i = k
      OBVIOUS
    <3>2. CASE i \in {1, 2, 3, 4, 5, 11}
      <4>1. \E segment : Paths!RouteList[i].pattern = <<<<Api>>, <<segment>>>>
        BY <3>2, RoutesAre
      <4>2. ~Paths!Match(Paths!RouteList[i].pattern, segs)
        BY <1>2, <4>1, MatchesAre
      <4> QED
        BY <1>1, <1>3, <3>2, <4>2
    <3>3. CASE i = 6
      <4>1. Paths!RouteList[i].pattern = Paths!Table /\ Paths!RouteList[i].method = "DELETE"
        BY <3>3, RoutesAre
      <4>2. Paths!Match(Paths!RouteList[i].pattern, segs) <=> r.op = "drop"
        BY <1>2, <4>1, MatchesAre
      <4> QED
        BY <1>1, <1>3, <3>1, <3>3, <4>1, <4>2
    <3>4. CASE i = 7
      <4>1. Paths!RouteList[i].pattern = Paths!TableRows /\ Paths!RouteList[i].method = "GET"
        BY <3>4, RoutesAre
      <4>2. Paths!Match(Paths!RouteList[i].pattern, segs) <=> r.op \in {"list", "add"}
        BY <1>2, <4>1, MatchesAre
      <4> QED
        BY <1>1, <1>3, <3>1, <3>4, <4>1, <4>2
    <3>5. CASE i = 8
      <4>1. Paths!RouteList[i].pattern = Paths!TableRows /\ Paths!RouteList[i].method = "POST"
        BY <3>5, RoutesAre
      <4>2. Paths!Match(Paths!RouteList[i].pattern, segs) <=> r.op \in {"list", "add"}
        BY <1>2, <4>1, MatchesAre
      <4> QED
        BY <1>1, <1>3, <3>1, <3>5, <4>1, <4>2
    <3>6. CASE i = 9
      <4>1. Paths!RouteList[i].pattern = Paths!OneRow /\ Paths!RouteList[i].method = "PATCH"
        BY <3>6, RoutesAre
      <4>2. Paths!Match(Paths!RouteList[i].pattern, segs) <=> r.op \in {"edit", "del"}
        BY <1>2, <4>1, MatchesAre
      <4> QED
        BY <1>1, <1>3, <3>1, <3>6, <4>1, <4>2
    <3>7. CASE i = 10
      <4>1. Paths!RouteList[i].pattern = Paths!OneRow /\ Paths!RouteList[i].method = "DELETE"
        BY <3>7, RoutesAre
      <4>2. Paths!Match(Paths!RouteList[i].pattern, segs) <=> r.op \in {"edit", "del"}
        BY <1>2, <4>1, MatchesAre
      <4> QED
        BY <1>1, <1>3, <3>1, <3>7, <4>1, <4>2
    <3> QED
      BY <3>2, <3>3, <3>4, <3>5, <3>6, <3>7
  <2>2. Paths!Matching(r) = {i \in 1 .. 11 : /\ Paths!RouteList[i].method = Paths!Method(r)
                                             /\ Paths!Match(Paths!RouteList[i].pattern, segs)}
    BY <1>2, RoutesAre DEF Paths!Matching
  <2> QED
    BY <2>1, <2>2
<1>5. Paths!Min({k}) = k
  BY DEF Paths!Min
<1>6. Paths!Dispatch(r) = [op |-> Paths!RouteList[k].op,
                           params |-> Paths!ParamsOf(Paths!RouteList[k].pattern, segs)]
  BY <1>2, <1>4, <1>5 DEF Paths!Dispatch
<1>7. Paths!RouteList[k].op = r.op
  BY <1>1, <1>3, RoutesAre
<1>8. PICK a, t, p, w, name, id : /\ a = <<Api>> /\ t = <<Tables>> /\ p = <<Param>>
                                  /\ w = <<Rows>> /\ name = r.name /\ id = <<r.id>>
  OBVIOUS
<1>9. p # a /\ p # t /\ p # w
  BY <1>8, SegmentsApart
<1>10. CASE r.op = "drop"
  <2>1. Paths!RouteList[k].pattern = <<a, t, p>> /\ segs = <<a, t, name>>
    BY <1>2, <1>3, <1>8, <1>10, RoutesAre, PatternsAre DEF Segments
  <2>2. Paths!ParamsOf(<<a, t, p>>, <<a, t, name>>) = [i \in {3} |-> name]
    <3>1. {i \in DOMAIN <<a, t, p>> : <<a, t, p>>[i] = <<Param>>} = {3}
      BY <1>8, <1>9
    <3> QED
      BY <3>1 DEF Paths!ParamsOf
  <2> QED
    BY <1>6, <1>7, <1>8, <1>10, <2>1, <2>2 DEF Paths!Meant
<1>11. CASE r.op \in {"list", "add"}
  <2>1. Paths!RouteList[k].pattern = <<a, t, p, w>> /\ segs = <<a, t, name, w>>
    BY <1>2, <1>3, <1>8, <1>11, RoutesAre, PatternsAre DEF Segments
  <2>2. Paths!ParamsOf(<<a, t, p, w>>, <<a, t, name, w>>) = [i \in {3} |-> name]
    <3>1. {i \in DOMAIN <<a, t, p, w>> : <<a, t, p, w>>[i] = <<Param>>} = {3}
      BY <1>8, <1>9
    <3> QED
      BY <3>1 DEF Paths!ParamsOf
  <2> QED
    BY <1>6, <1>7, <1>8, <1>11, <2>1, <2>2 DEF Paths!Meant
<1>12. CASE r.op \in {"edit", "del"}
  <2>1. Paths!RouteList[k].pattern = <<a, t, p, w, p>> /\ segs = <<a, t, name, w, id>>
    BY <1>2, <1>3, <1>8, <1>12, RoutesAre, PatternsAre DEF Segments
  <2>2. Paths!ParamsOf(<<a, t, p, w, p>>, <<a, t, name, w, id>>) =
          [i \in {3, 5} |-> IF i = 3 THEN name ELSE id]
    <3>1. {i \in DOMAIN <<a, t, p, w, p>> : <<a, t, p, w, p>>[i] = <<Param>>} = {3, 5}
      BY <1>8, <1>9
    <3> QED
      BY <3>1 DEF Paths!ParamsOf
  <2> QED
    BY <1>6, <1>7, <1>8, <1>12, <2>1, <2>2 DEF Paths!Meant
<1> QED
  BY <1>1, <1>10, <1>11, <1>12

\* Every button of the web app reaches the handler it is meant for, with its table and
\* its row, whatever the tables are called, "rows" and "tables" included, if the name is
\* not empty and has no slash (http.h: url_decode, split_path, match and dispatch).
THEOREM RequestsArrive ==
    ASSUME Paths!RouteAssumption
    PROVE  Paths!Spec => []RequestsReachTheirHandler
<1> DEFINE RInv == \/ request = Paths!NoRequest
                   \/ request \in Paths!Requests /\ outcome = Paths!Dispatch(request)
<1>1. Paths!Init => RInv
  BY DEF Paths!Init
<1>2. RInv /\ [Paths!Next]_(Paths!vars) => RInv'
  BY DEF Paths!Next, Paths!Serve, Paths!Close, Paths!vars
<1>3. RInv => RequestsReachTheirHandler
  <2> SUFFICES ASSUME RInv, Paths!Plain(request.name) PROVE outcome = Paths!Meant(request)
    BY DEF RequestsReachTheirHandler, Paths!RequestsReachTheirHandler
  <2>1. request # Paths!NoRequest
    <3>1. Paths!NoRequest.name = <<>>
      BY DEF Paths!NoRequest
    <3> QED
      BY <3>1 DEF Paths!Plain
  <2> QED
    BY <2>1, DispatchIsMeant
<1> QED
  BY <1>1, <1>2, <1>3, PTL DEF Paths!Spec

-----------------------------------------------------------------------------
(* The tokens of a text.                                                   *)

\* A function that at i looks ahead to d[i], and what it makes of what it finds there.
LooksAhead(lo, top, V, base, d, G) ==
    /\ lo \in Nat /\ top \in Nat /\ lo <= top /\ base \in V
    /\ \A i \in lo .. top - 1 : d[i] \in i + 1 .. top /\ \A v \in V : G[i][v] \in V

Solves(lo, top, base, d, G, f) ==
    f[top] = base /\ \A i \in lo .. top - 1 : f[i] = G[i][f[d[i]]]

LEMMA LookAhead ==
    ASSUME NEW lo, NEW top, NEW V, NEW base, NEW d, NEW G, LooksAhead(lo, top, V, base, d, G)
    PROVE  \E f \in [lo .. top -> V] : Solves(lo, top, base, d, G, f)
<1> USE DEF LooksAhead, Solves
<1> DEFINE N == top - lo + 1
           Fits1(g, k) == /\ g[top] = base
                          /\ \A i \in lo .. top - 1 : i > top - k => g[i] = G[i][g[d[i]]]
           S == {k \in 1 .. N : \E g \in [lo .. top -> V] : Fits1(g, k)}
<1>1. N \in Nat /\ N >= 1
  OBVIOUS
<1>2. 1 \in S
  <2>1. PICK g : g = [i \in lo .. top |-> base]
    OBVIOUS
  <2>2. g \in [lo .. top -> V] /\ Fits1(g, 1)
    BY <2>1
  <2> QED
    BY <1>1, <2>2
<1>3. ASSUME NEW k \in 1 .. N - 1, k \in S
      PROVE  k + 1 \in S
  <2>1. PICK g \in [lo .. top -> V] : Fits1(g, k)
    BY <1>3
  <2>2. PICK n \in lo .. top - 1 : n = top - k
    OBVIOUS
  <2>3. d[n] \in n + 1 .. top
    OBVIOUS
  <2>4. PICK x \in V : x = G[n][g[d[n]]]
    BY <2>3
  <2>5. PICK h : h = [g EXCEPT ![n] = x]
    OBVIOUS
  <2>6. h \in [lo .. top -> V] /\ \A i \in lo .. top : i # n => h[i] = g[i]
    BY <2>5
  <2>7. h[n] = x
    BY <2>5
  <2>8. h[top] = base
    BY <2>1, <2>6
  <2>9. ASSUME NEW i \in lo .. top - 1, i > top - (k + 1)
        PROVE  h[i] = G[i][h[d[i]]]
    <3>1. d[i] \in i + 1 .. top /\ i >= n
      BY <2>2, <2>9
    <3>2. h[d[i]] = g[d[i]]
      BY <2>6, <3>1
    <3>3. CASE i = n
      BY <2>4, <2>7, <3>2, <3>3
    <3>4. CASE i # n
      <4>1. i > top - k
        BY <2>2, <3>1, <3>4
      <4>2. h[i] = g[i] /\ g[i] = G[i][g[d[i]]]
        BY <2>1, <2>6, <3>4, <4>1
      <4> QED
        BY <3>2, <4>2
    <3> QED
      BY <3>3, <3>4
  <2>10. Fits1(h, k + 1)
    BY <2>8, <2>9
  <2>11. k + 1 \in 1 .. N
    BY <1>1
  <2> HIDE DEF Fits1, N
  <2> QED
    BY <2>6, <2>10, <2>11
<1>4. N \in S
  <2>1. 1 .. N \subseteq S
    <3> HIDE DEF S, N
    <3> QED
      BY <1>1, <1>2, <1>3, StepByStep
  <2>2. N \in 1 .. N
    BY <1>1
  <2> QED
    BY <2>1, <2>2
<1>5. PICK f \in [lo .. top -> V] : Fits1(f, N)
  BY <1>4
<1>6. \A i \in lo .. top - 1 : i > top - N
  OBVIOUS
<1> QED
  BY <1>5, <1>6

\* What is true at the end, and at i when at all places after it, is true everywhere.
LEMMA BackToFront ==
    ASSUME NEW lo \in Nat, NEW top \in Nat, NEW T,
           \A i \in lo .. top : (\A j \in i + 1 .. top : j \in T) => i \in T
    PROVE  lo .. top \subseteq T
<1> DEFINE U == {k \in Nat : top - k \in (lo .. top) \ T}
<1> SUFFICES ASSUME NEW x \in (lo .. top) \ T PROVE FALSE
  OBVIOUS
<1>1. U \in SUBSET Nat /\ top - x \in U
  <2>1. top - x \in Nat /\ top - (top - x) = x
    OBVIOUS
  <2> QED
    BY <2>1
<1>2. PICK k \in U : \A m \in U : k <= m
  <2> HIDE DEF U
  <2> QED
    BY <1>1, LeastNumber
<1>3. PICK i : i = top - k /\ i \in (lo .. top) \ T
  BY <1>2
<1>4. PICK j \in i + 1 .. top : j \notin T
  BY <1>3
<1>5. top - j \in Nat /\ top - (top - j) = j /\ top - j < k
  BY <1>2, <1>3, <1>4
<1>6. top - j \in U
  BY <1>3, <1>4, <1>5
<1> QED
  BY <1>2, <1>5, <1>6

\* Where a run of characters ends.
EndsAt(text, i, class, e) ==
    /\ e \in i .. Len(text) + 1
    /\ \A j \in i .. e - 1 : text[j] \in class
    /\ e = Len(text) + 1 \/ text[e] \notin class

LEMMA EndFacts ==
    ASSUME NEW text, Len(text) \in Nat, NEW i \in 1 .. Len(text) + 1, NEW class
    PROVE  EndsAt(text, i, class, Text!EndOf(text, i, class))
<1> DEFINE E == {j \in i .. Len(text) + 1 : j = Len(text) + 1 \/ text[j] \notin class}
<1>1. E \in SUBSET Nat /\ Len(text) + 1 \in E
  OBVIOUS
<1>2. PICK e \in E : \A m \in E : e <= m
  <2> HIDE DEF E
  <2> QED
    BY <1>1, LeastNumber
<1>3. PICK e2 : e2 = Text!EndOf(text, i, class)
  OBVIOUS
<1>4. e2 \in E /\ \A m \in E : e2 <= m
  BY <1>2, <1>3 DEF Text!EndOf, Text!Min
<1> QED
  BY <1>3, <1>4 DEF EndsAt

LEMMA EndIs ==
    ASSUME NEW text, Len(text) \in Nat, NEW i \in 1 .. Len(text) + 1, NEW class, NEW e,
           EndsAt(text, i, class, e)
    PROVE  Text!EndOf(text, i, class) = e
<1>1. PICK e2 : e2 = Text!EndOf(text, i, class) /\ EndsAt(text, i, class, e2)
  BY EndFacts
<1>2. e2 \in Nat /\ e \in Nat
  BY <1>1 DEF EndsAt
<1>3. ~(e < e2)
  BY <1>1, <1>2 DEF EndsAt
<1>4. ~(e2 < e)
  BY <1>1, <1>2 DEF EndsAt
<1> QED
  BY <1>1, <1>2, <1>3, <1>4

\* The characters that a text can have, and those that a token is spelled with.
SignMarks == {"*", ",", "(", ")", ".", ";", "=", "<", ">"}
Marks == Text!Chars \cup SignMarks \cup {"!", "'", "\\"}

\* Quoted by its equation.
QuotedStep(text, g, j) ==
    IF j = Len(text) + 1 THEN [val |-> <<>>, end |-> 0]
    ELSE IF text[j] = "'" THEN [val |-> <<>>, end |-> j]
    ELSE LET k == IF text[j] = "\\" /\ j + 1 <= Len(text) THEN j + 1 ELSE j
         IN  [g[k + 1] EXCEPT !.val = <<text[k]>> \o @]

Quotes(text, i, g) == g = [j \in i .. Len(text) + 1 |-> QuotedStep(text, g, j)]

LEMMA QuotedIs ==
    ASSUME NEW text \in Seq(Marks), NEW i \in 1 .. Len(text) + 1
    PROVE  \E g : /\ Quotes(text, i, g) /\ Text!Quoted(text, i) = g[i]
                  /\ \A j \in i .. Len(text) + 1 :
                       /\ g[j] \in [val : Seq(Marks), end : 0 .. Len(text)]
                       /\ g[j].end # 0 => g[j].end >= j
<1>1. Len(text) \in Nat /\ \A j \in 1 .. Len(text) : text[j] \in Marks
  BY ElementOfSeq, LenProperties
<1> DEFINE V == [val : Seq(Marks), end : 0 .. Len(text)]
           top == Len(text) + 1
           K(j) == IF text[j] = "\\" /\ j + 1 <= Len(text) THEN j + 1 ELSE j
           More(j, v) == [v EXCEPT !.val = <<text[K(j)]>> \o @]
           G == [j \in i .. top - 1 |->
                   [v \in V |-> IF text[j] = "'" THEN [val |-> <<>>, end |-> j] ELSE More(j, v)]]
           d == [j \in i .. top - 1 |-> K(j) + 1]
           base == [val |-> <<>>, end |-> 0]
<1>2. i \in Nat /\ top \in Nat /\ i <= top /\ top - 1 = Len(text)
  BY <1>1
<1>3. base \in V
  <2>1. <<>> \in Seq(Marks) /\ 0 \in 0 .. Len(text)
    BY <1>1, EmptySeq
  <2> QED
    BY <2>1
<1>4. ASSUME NEW j \in i .. top - 1
      PROVE  /\ K(j) \in j .. j + 1 /\ K(j) \in 1 .. Len(text) /\ text[K(j)] \in Marks
             /\ d[j] \in j + 1 .. top /\ d[j] = K(j) + 1
  <2>1. K(j) \in j .. j + 1 /\ K(j) \in 1 .. Len(text)
    BY <1>1, <1>2
  <2> QED
    BY <1>1, <1>2, <2>1
<1>5. ASSUME NEW j \in i .. top - 1, NEW v \in V
      PROVE  /\ More(j, v) \in V /\ More(j, v).end = v.end
             /\ G[j][v] = IF text[j] = "'" THEN [val |-> <<>>, end |-> j] ELSE More(j, v)
             /\ G[j][v] \in V
  <2>1. PICK c \in Marks : c = text[K(j)]
    BY <1>4
  <2>2. <<c>> \o v.val \in Seq(Marks)
    BY ConcatProperties
  <2>3. More(j, v) = [v EXCEPT !.val = <<c>> \o @]
    BY <2>1
  <2>4. More(j, v) \in V /\ More(j, v).end = v.end
    BY <2>2, <2>3
  <2>5. G[j][v] = IF text[j] = "'" THEN [val |-> <<>>, end |-> j] ELSE More(j, v)
    <3> HIDE DEF V, More
    <3> QED
      OBVIOUS
  <2>6. [val |-> <<>>, end |-> j] \in V
    <3>1. <<>> \in Seq(Marks) /\ j \in 0 .. Len(text)
      BY <1>1, <1>2, EmptySeq
    <3> QED
      BY <3>1
  <2> QED
    BY <2>4, <2>5, <2>6
<1>6. PICK f \in [i .. top -> V] : Solves(i, top, base, d, G, f)
  <2>1. LooksAhead(i, top, V, base, d, G)
    BY <1>2, <1>3, <1>4, <1>5 DEF LooksAhead
  <2> HIDE DEF V, G, d, top, base, K, More
  <2> QED
    BY <2>1, LookAhead
<1>7. \A j \in i .. top : f[j] = QuotedStep(text, f, j)
  <2> SUFFICES ASSUME NEW j \in i .. top PROVE f[j] = QuotedStep(text, f, j)
    OBVIOUS
  <2>1. CASE j = top
    BY <1>6, <2>1 DEF QuotedStep, Solves
  <2>2. CASE j # top
    <3>1. j \in i .. top - 1
      BY <1>2, <2>2
    <3>2. f[d[j]] \in V /\ f[j] = G[j][f[d[j]]]
      <4>1. d[j] \in i .. top
        BY <1>2, <1>4, <3>1
      <4> HIDE DEF G, d, V, top
      <4> QED
        BY <1>6, <3>1, <4>1 DEF Solves
    <3>3. f[j] = IF text[j] = "'" THEN [val |-> <<>>, end |-> j] ELSE More(j, f[d[j]])
      BY <1>5, <3>1, <3>2
    <3>4. d[j] = K(j) + 1
      BY <1>4, <3>1
    <3>5. More(j, f[d[j]]) = [f[K(j) + 1] EXCEPT !.val = <<text[K(j)]>> \o @]
      BY <3>4
    <3>6. QuotedStep(text, f, j) =
            IF text[j] = "'" THEN [val |-> <<>>, end |-> j]
            ELSE [f[K(j) + 1] EXCEPT !.val = <<text[K(j)]>> \o @]
      BY <2>2 DEF QuotedStep
    <3> QED
      BY <3>3, <3>5, <3>6
  <2> QED
    BY <2>1, <2>2
<1>8. Quotes(text, i, f)
  <2>1. f = [j \in i .. top |-> f[j]]
    BY <1>6
  <2> QED
    BY <1>7, <2>1 DEF Quotes
<1>9. PICK g : g = CHOOSE h : Quotes(text, i, h)
  OBVIOUS
<1>10. Quotes(text, i, g)
  BY <1>8, <1>9
<1>11. Text!Quoted(text, i) = g[i]
  <2>1. Text!Quoted(text, i) = (CHOOSE h : Quotes(text, i, h))[i]
    BY DEF Text!Quoted, Quotes, QuotedStep
  <2> QED
    BY <1>9, <2>1
<1> DEFINE T == {j \in i .. top : g[j] \in V /\ (g[j].end # 0 => g[j].end >= j)}
<1>12. ASSUME NEW j \in i .. top, \A m \in j + 1 .. top : m \in T
       PROVE  j \in T
  <2>1. g[j] = QuotedStep(text, g, j)
    BY <1>10 DEF Quotes
  <2>2. CASE j = top
    <3>1. g[j] = base
      BY <2>1, <2>2 DEF QuotedStep
    <3>2. g[j].end = 0
      BY <3>1
    <3> HIDE DEF V, base
    <3> QED
      BY <1>3, <3>1, <3>2
  <2>3. CASE j # top /\ text[j] = "'"
    <3>1. g[j] = [val |-> <<>>, end |-> j]
      BY <2>1, <2>3 DEF QuotedStep
    <3>2. <<>> \in Seq(Marks) /\ j \in 0 .. Len(text)
      BY <1>1, <1>2, <2>3, EmptySeq
    <3>3. g[j] \in V /\ g[j].end = j
      BY <3>1, <3>2
    <3> HIDE DEF V
    <3> QED
      BY <1>2, <3>3
  <2>4. CASE j # top /\ text[j] # "'"
    <3>1. j \in i .. top - 1
      BY <1>2, <2>4
    <3>2. PICK k \in 1 .. Len(text) : k = K(j) /\ k \in j .. j + 1 /\ k + 1 \in j + 1 .. top
      BY <1>4, <3>1
    <3>3. PICK v \in V : v = g[k + 1] /\ (v.end # 0 => v.end >= k + 1)
      BY <1>12, <3>2
    <3>4. g[j] = [g[K(j) + 1] EXCEPT !.val = <<text[K(j)]>> \o @]
      BY <2>1, <2>4 DEF QuotedStep
    <3>5. g[j] = More(j, v)
      BY <3>2, <3>3, <3>4
    <3>6. g[j] \in V /\ g[j].end = v.end
      <4>1. More(j, v) \in V /\ More(j, v).end = v.end
        BY <1>5, <3>1
      <4> HIDE DEF V, More
      <4> QED
        BY <3>5, <4>1
    <3>7. v.end # 0 => v.end >= j
      BY <1>1, <1>2, <3>2, <3>3
    <3> QED
      BY <3>6, <3>7
  <2> QED
    BY <2>2, <2>3, <2>4
<1>13. i .. top \subseteq T
  <2> HIDE DEF T, top
  <2> QED
    BY <1>2, <1>12, BackToFront
<1> QED
  BY <1>10, <1>11, <1>13

\* The signs of two characters.
SignPairs == {<<"!", "=">>, <<"<", "=">>, <<">", "=">>, <<"<", ">">>}

\* What the classes are apart from.
LEMMA MarksApart ==
    ASSUME Text!CharAssumption
    PROVE  /\ DOMAIN Text!Signs = SignMarks /\ DOMAIN Text!LongSigns = SignPairs
           /\ \A c \in SignMarks \cup {"!", "'", "\\", "_"} :
                c \notin Letters /\ c \notin DigitChars /\ c \notin SpaceChars
           /\ \A c \in Letters : c \notin DigitChars /\ c \notin SpaceChars
           /\ \A c \in DigitChars : c \notin SpaceChars
<1>1. DOMAIN Text!Signs = SignMarks /\ DOMAIN Text!LongSigns = SignPairs
  BY DEF Text!Signs, Text!LongSigns, SignMarks, SignPairs
<1> QED
  BY <1>1 DEF Text!CharAssumption

ErrorAt(text) == [token |-> Text!Fail[1], next |-> Len(text) + 1]

PairAt(text, i) == SubSeq(text, i, Text!Min({i + 1, Len(text)}))

\* The character and the one after it, if there is one.
LEMMA PairIs ==
    ASSUME NEW T, NEW text \in Seq(T), NEW i \in 1 .. Len(text)
    PROVE  PairAt(text, i) = IF i < Len(text) THEN <<text[i], text[i + 1]>> ELSE <<text[i]>>
<1>1. Len(text) \in Nat /\ \A j \in 1 .. Len(text) : text[j] \in T
  BY ElementOfSeq, LenProperties
<1>2. CASE i < Len(text)
  <2>1. PICK m : m = Text!Min({i + 1, Len(text)})
    OBVIOUS
  <2>2. m = i + 1
    <3>1. i + 1 \in {i + 1, Len(text)} /\ \A y \in {i + 1, Len(text)} : i + 1 <= y
      BY <1>1, <1>2
    <3>2. \A x \in {i + 1, Len(text)} : (\A y \in {i + 1, Len(text)} : x <= y) => x = i + 1
      BY <1>1, <1>2
    <3> QED
      BY <2>1, <3>1, <3>2 DEF Text!Min
  <2>3. PICK s : s = SubSeq(text, i, i + 1)
    OBVIOUS
  <2>4. s \in Seq(T) /\ Len(s) = 2 /\ s[1] = text[i] /\ s[2] = text[i + 1]
    <3>1. \A j \in i .. i + 1 : text[j] \in T
      BY <1>1, <1>2
    <3>2. /\ s \in Seq(T)
          /\ Len(s) = IF i <= i + 1 THEN i + 1 - i + 1 ELSE 0
          /\ \A j \in 1 .. i + 1 - i + 1 : s[j] = text[i + j - 1]
      BY <2>3, <3>1, SubSeqProperties
    <3>3. Len(s) = 2
      BY <3>2
    <3>4. s[1] = text[i + 1 - 1] /\ s[2] = text[i + 2 - 1]
      BY <3>2
    <3>5. i + 1 - 1 = i /\ i + 2 - 1 = i + 1
      OBVIOUS
    <3> QED
      BY <3>2, <3>3, <3>4, <3>5
  <2>5. s = <<text[i], text[i + 1]>>
    <3>1. PICK a, b : a = text[i] /\ b = text[i + 1]
      OBVIOUS
    <3>2. <<a, b>> \in Seq({a, b}) /\ Len(<<a, b>>) = 2
      OBVIOUS
    <3>3. \A j \in 1 .. 2 : s[j] = <<a, b>>[j]
      BY <2>4, <3>1
    <3>4. a \in T /\ b \in T
      BY <1>1, <1>2, <3>1
    <3>5. <<a, b>> \in Seq(T)
      BY <3>4
    <3>6. s = <<a, b>>
      BY <2>4, <3>2, <3>3, <3>5, SeqEqual
    <3> QED
      BY <3>1, <3>6
  <2> QED
    BY <1>2, <2>1, <2>2, <2>3, <2>5 DEF PairAt
<1>3. CASE i = Len(text)
  <2>1. PICK m : m = Text!Min({i + 1, Len(text)})
    OBVIOUS
  <2>2. m = i
    <3>1. i \in {i + 1, Len(text)} /\ \A y \in {i + 1, Len(text)} : i <= y
      BY <1>1, <1>3
    <3>2. \A x \in {i + 1, Len(text)} : (\A y \in {i + 1, Len(text)} : x <= y) => x = i
      BY <1>1, <1>3
    <3> QED
      BY <2>1, <3>1, <3>2 DEF Text!Min
  <2>3. PICK s : s = SubSeq(text, i, i)
    OBVIOUS
  <2>4. s \in Seq(T) /\ Len(s) = 1 /\ s[1] = text[i]
    <3>1. \A j \in i .. i : text[j] \in T
      BY <1>1, <1>3
    <3>2. /\ s \in Seq(T)
          /\ Len(s) = IF i <= i THEN i - i + 1 ELSE 0
          /\ \A j \in 1 .. i - i + 1 : s[j] = text[i + j - 1]
      BY <2>3, <3>1, SubSeqProperties
    <3>3. s[1] = text[i + 1 - 1]
      BY <3>2
    <3> QED
      BY <3>2, <3>3
  <2>5. s = <<text[i]>>
    <3>1. PICK a : a = text[i]
      OBVIOUS
    <3>2. a \in T
      BY <1>1, <1>3, <3>1
    <3>3. <<a>> \in Seq(T) /\ Len(<<a>>) = 1 /\ <<a>>[1] = a
      BY <3>2
    <3>4. \A j \in 1 .. 1 : s[j] = <<a>>[j]
      BY <2>4, <3>1, <3>3
    <3>5. s = <<a>>
      BY <2>4, <3>3, <3>4, SeqEqual
    <3> QED
      BY <3>1, <3>5
  <2>6. PairAt(text, i) = <<text[i]>>
    BY <2>1, <2>2, <2>3, <2>5 DEF PairAt
  <2>7. ~(i < Len(text))
    BY <1>1, <1>3
  <2> QED
    BY <2>6, <2>7
<1> QED
  BY <1>1, <1>2, <1>3

LEMMA PairBegins ==
    ASSUME NEW T, NEW text \in Seq(T), NEW i \in 1 .. Len(text), PairAt(text, i) \in SignPairs
    PROVE  i < Len(text) /\ text[i] \in {"!", "<", ">"}
<1>1. PICK a, b : a = text[i] /\ b = text[i + 1]
  OBVIOUS
<1>2. CASE i < Len(text)
  <2>1. <<a, b>> \in SignPairs
    BY <1>1, <1>2, PairIs
  <2>2. a \in {"!", "<", ">"}
    BY <2>1 DEF SignPairs
  <2> QED
    BY <1>1, <1>2, <2>2
<1>3. CASE ~(i < Len(text))
  <2>1. <<a>> \in SignPairs
    BY <1>1, <1>3, PairIs
  <2> QED
    BY <2>1 DEF SignPairs
<1> QED
  BY <1>2, <1>3

\* What TokenAt does, by the character.
LEMMA TokenAtQuote ==
    ASSUME Text!CharAssumption, NEW T, NEW text \in Seq(T), NEW i \in 1 .. Len(text), text[i] = "'"
    PROVE  Text!TokenAt(text, i) =
             IF Text!Quoted(text, i + 1).end = 0 THEN ErrorAt(text)
             ELSE [token |-> Text!Token("STRING", Text!Quoted(text, i + 1).val),
                   next |-> Text!Quoted(text, i + 1).end + 1]
<1>1. /\ text[i] \notin DigitChars /\ text[i] \notin Letters \cup {"_"}
      /\ text[i] \notin DOMAIN Text!Signs
  BY MarksApart DEF SignMarks
<1>2. PairAt(text, i) \notin DOMAIN Text!LongSigns
  BY PairBegins, MarksApart
<1> QED
  BY <1>1, <1>2 DEF Text!TokenAt, ErrorAt, PairAt

LEMMA TokenAtDigit ==
    ASSUME Text!CharAssumption, NEW T, NEW text \in Seq(T), NEW i \in 1 .. Len(text),
           text[i] \in DigitChars
    PROVE  Text!TokenAt(text, i) =
             [token |-> Text!NumberToken(
                          SubSeq(text, i, Text!EndOf(text, i, DigitChars \cup {"."}) - 1)),
              next |-> Text!EndOf(text, i, DigitChars \cup {"."})]
<1>1. /\ text[i] # "'" /\ text[i] \notin Letters \cup {"_"} /\ text[i] \notin DOMAIN Text!Signs
      /\ text[i] \notin {"!", "<", ">"}
  BY MarksApart DEF SignMarks
<1>2. PairAt(text, i) \notin DOMAIN Text!LongSigns
  BY <1>1, PairBegins, MarksApart
<1> QED
  BY <1>1, <1>2 DEF Text!TokenAt, PairAt

LEMMA TokenAtLetter ==
    ASSUME Text!CharAssumption, NEW T, NEW text \in Seq(T), NEW i \in 1 .. Len(text),
           text[i] \in Letters \cup {"_"}
    PROVE  Text!TokenAt(text, i) =
             [token |-> Text!WordToken(SubSeq(text, i, Text!EndOf(text, i, Text!WordChars) - 1)),
              next |-> Text!EndOf(text, i, Text!WordChars)]
<1>1. /\ text[i] # "'" /\ text[i] \notin DigitChars /\ text[i] \notin DOMAIN Text!Signs
      /\ text[i] \notin {"!", "<", ">"}
  BY MarksApart DEF SignMarks
<1>2. PairAt(text, i) \notin DOMAIN Text!LongSigns
  BY <1>1, PairBegins, MarksApart
<1> QED
  BY <1>1, <1>2 DEF Text!TokenAt, PairAt

PlainMark(c) == c # "'" /\ c \notin DigitChars /\ c \notin Letters \cup {"_"}

LEMMA TokenAtPair ==
    ASSUME NEW text, NEW i, PlainMark(text[i]), PairAt(text, i) \in DOMAIN Text!LongSigns
    PROVE  Text!TokenAt(text, i) =
             [token |-> Text!Token(Text!LongSigns[PairAt(text, i)], PairAt(text, i)),
              next |-> i + 2]
BY DEF Text!TokenAt, PlainMark, PairAt

LEMMA TokenAtSign ==
    ASSUME NEW text, NEW i, PlainMark(text[i]), PairAt(text, i) \notin DOMAIN Text!LongSigns,
           text[i] \in DOMAIN Text!Signs
    PROVE  Text!TokenAt(text, i) =
             [token |-> Text!Token(Text!Signs[text[i]], <<text[i]>>), next |-> i + 1]
BY DEF Text!TokenAt, PlainMark, PairAt

LEMMA TokenAtOther ==
    ASSUME NEW text, NEW i, PlainMark(text[i]), PairAt(text, i) \notin DOMAIN Text!LongSigns,
           text[i] \notin DOMAIN Text!Signs
    PROVE  Text!TokenAt(text, i) = ErrorAt(text)
BY DEF Text!TokenAt, PlainMark, PairAt, ErrorAt

\* The tokens that a text can have, each with what it is written with.
IsLiteral(t) == \E val \in Seq(Marks) : t = Text!Token("STRING", val)

OfClass(w, first, class) ==
    w \in Seq(Marks) /\ w # <<>> /\ w[1] \in first /\ \A j \in 1 .. Len(w) : w[j] \in class

IsNumber(t) ==
    /\ OfClass(t.text, DigitChars, DigitChars \cup {"."}) /\ t = Text!NumberToken(t.text)
    /\ t.type # "STRING" /\ t.type # "ERROR"

IsWord(t) ==
    /\ OfClass(t.text, Letters \cup {"_"}, Text!WordChars) /\ t = Text!WordToken(t.text)
    /\ t.type # "STRING"

IsPair(t) == \E p \in SignPairs : t = Text!Token(Text!LongSigns[p], p)
IsSign(t) == \E c \in SignMarks : t = Text!Token(Text!Signs[c], <<c>>)

Spellable(t) == IsLiteral(t) \/ IsNumber(t) \/ IsWord(t) \/ IsPair(t) \/ IsSign(t)

LEMMA SpellableIsNoError ==
    ASSUME NEW t, Spellable(t)
    PROVE  t # Text!Fail[1]
<1>1. Text!Fail[1].type = "ERROR" /\ Text!Fail[1].text = <<>>
  BY DEF Text!Fail, Text!Token
<1>2. CASE IsLiteral(t)
  BY <1>1, <1>2 DEF IsLiteral, Text!Token
<1>3. CASE IsNumber(t)
  BY <1>1, <1>3 DEF IsNumber
<1>4. CASE IsWord(t)
  <2>1. t.text # <<>>
    BY <1>4 DEF IsWord, OfClass
  <2> QED
    BY <1>1, <2>1
<1>5. CASE IsPair(t)
  <2>1. PICK p \in SignPairs : t = Text!Token(Text!LongSigns[p], p)
    BY <1>5 DEF IsPair
  <2>2. t.text = p
    BY <2>1 DEF Text!Token
  <2>3. p # <<>>
    BY DEF SignPairs
  <2> QED
    BY <1>1, <2>2, <2>3
<1>6. CASE IsSign(t)
  <2>1. PICK c \in SignMarks : t = Text!Token(Text!Signs[c], <<c>>)
    BY <1>6 DEF IsSign
  <2>2. t.text = <<c>>
    BY <2>1 DEF Text!Token
  <2>3. <<c>> # <<>>
    OBVIOUS
  <2> QED
    BY <1>1, <2>2, <2>3
<1> QED
  BY <1>2, <1>3, <1>4, <1>5, <1>6 DEF Spellable

\* The points of a number.
Points(w) == {k \in DOMAIN w : w[k] = "."}

LEMMA SameCardinality == \A S : Text!Cardinality(S) = Cardinality(S)
BY DEF Text!Cardinality, Cardinality

LEMMA NumberCases ==
    ASSUME NEW w
    PROVE  /\ Points(w) = {} /\ w \notin TooLarge =>
                Text!NumberToken(w) = Text!Token("INT_NUMBER", w)
           /\ Points(w) = {} /\ w \in TooLarge => Text!NumberToken(w) = Text!Fail[1]
           /\ Cardinality(Points(w)) = 1 => Text!NumberToken(w) = Text!Token("REAL_NUMBER", w)
           /\ Points(w) # {} /\ Cardinality(Points(w)) # 1 =>
                Text!NumberToken(w) =
                  Text!Token("REAL_NUMBER",
                    SubSeq(w, 1, Text!Min(Points(w) \ {Text!Min(Points(w))}) - 1))
<1>1. Points(w) = {} => Cardinality(Points(w)) # 1
  BY FS_EmptySet
<1> QED
  BY <1>1, SameCardinality DEF Text!NumberToken, Points

\* A number cut off before its second point has one.
LEMMA CutNumber ==
    ASSUME NEW w \in Seq(Marks), Points(w) # {}, Cardinality(Points(w)) # 1, w[1] # "."
    PROVE  LET n == Text!Min(Points(w) \ {Text!Min(Points(w))}) - 1
           IN  /\ n \in 1 .. Len(w)
               /\ Cardinality(Points(SubSeq(w, 1, n))) = 1
<1>1. Len(w) \in Nat /\ DOMAIN w = 1 .. Len(w) /\ \A j \in 1 .. Len(w) : w[j] \in Marks
  BY ElementOfSeq, LenProperties
<1>2. Points(w) \in SUBSET Nat /\ Points(w) \subseteq 1 .. Len(w)
  BY <1>1 DEF Points
<1>3. PICK a : a = Text!Min(Points(w))
  OBVIOUS
<1>4. a \in Points(w) /\ \A y \in Points(w) : a <= y
  <2>1. \E x \in Points(w) : \A y \in Points(w) : x <= y
    BY <1>2, LeastNumber
  <2> QED
    BY <1>3, <2>1 DEF Text!Min
<1>5. Points(w) \ {a} # {}
  <2>1. ASSUME Points(w) \ {a} = {} PROVE FALSE
    <3>1. Points(w) = {a}
      BY <1>4, <2>1
    <3>2. Cardinality({a}) = 1
      BY FS_Singleton
    <3> QED
      BY <3>1, <3>2
  <2> QED
    BY <2>1
<1>6. PICK b : b = Text!Min(Points(w) \ {a})
  OBVIOUS
<1>7. b \in Points(w) \ {a} /\ \A y \in Points(w) \ {a} : b <= y
  <2>1. Points(w) \ {a} \in SUBSET Nat
    BY <1>2
  <2>2. \E x \in Points(w) \ {a} : \A y \in Points(w) \ {a} : x <= y
    BY <1>5, <2>1, LeastNumber
  <2> QED
    BY <1>6, <2>2 DEF Text!Min
<1>8. a < b /\ a \in 1 .. Len(w) /\ b \in 1 .. Len(w) /\ b - 1 \in 1 .. Len(w)
  BY <1>1, <1>2, <1>4, <1>7
<1>9. PICK v : v = SubSeq(w, 1, b - 1)
  OBVIOUS
<1>10. Len(v) = b - 1 /\ DOMAIN v = 1 .. b - 1 /\ \A j \in 1 .. b - 1 : v[j] = w[j]
  <2>1. \A j \in 1 .. b - 1 : w[j] \in Marks
    BY <1>1, <1>8
  <2>2. /\ v \in Seq(Marks)
        /\ Len(v) = IF 1 <= b - 1 THEN b - 1 - 1 + 1 ELSE 0
        /\ \A j \in 1 .. b - 1 - 1 + 1 : v[j] = w[1 + j - 1]
    BY <1>8, <1>9, <2>1, SubSeqProperties
  <2>3. \A j \in 1 .. b - 1 : 1 + j - 1 = j /\ j \in 1 .. b - 1 - 1 + 1
    BY <1>8
  <2>4. Len(v) = b - 1
    BY <1>8, <2>2
  <2>5. \A j \in 1 .. b - 1 : v[j] = w[j]
    BY <2>2, <2>3
  <2> QED
    BY <2>2, <2>4, <2>5, LenProperties
<1>11. Points(v) = {a}
  <2>1. a \in Points(v)
    BY <1>4, <1>8, <1>10 DEF Points
  <2>2. ASSUME NEW k \in Points(v) PROVE k = a
    <3>1. k \in 1 .. b - 1 /\ k \in Points(w)
      BY <1>1, <1>8, <1>10 DEF Points
    <3> QED
      BY <1>7, <1>8, <3>1
  <2> QED
    BY <2>1, <2>2
<1>12. Cardinality(Points(v)) = 1
  BY <1>11, FS_Singleton
<1> QED
  BY <1>3, <1>6, <1>8, <1>9, <1>12

LEMMA NumberIs ==
    ASSUME Text!CharAssumption, NEW w, OfClass(w, DigitChars, DigitChars \cup {"."})
    PROVE  Text!NumberToken(w) = Text!Fail[1] \/ IsNumber(Text!NumberToken(w))
<1>1. w \in Seq(Marks) /\ Len(w) \in Nat /\ w # <<>> /\ w[1] \in DigitChars /\ w[1] # "."
  BY MarksApart, LenProperties DEF OfClass, SignMarks
<1> DEFINE t == Text!NumberToken(w)
<1>2. CASE Points(w) = {} /\ w \notin TooLarge
  <2>1. t = Text!Token("INT_NUMBER", w)
    BY <1>1, <1>2, NumberCases
  <2>2. t.text = w /\ t.type = "INT_NUMBER"
    BY <2>1 DEF Text!Token
  <2> QED
    BY <2>2 DEF IsNumber
<1>3. CASE Points(w) = {} /\ w \in TooLarge
  BY <1>1, <1>3, NumberCases
<1>4. CASE Cardinality(Points(w)) = 1
  <2>1. t = Text!Token("REAL_NUMBER", w)
    BY <1>1, <1>4, NumberCases
  <2>2. t.text = w /\ t.type = "REAL_NUMBER"
    BY <2>1 DEF Text!Token
  <2> QED
    BY <2>2 DEF IsNumber
<1>5. CASE Points(w) # {} /\ Cardinality(Points(w)) # 1
  <2>1. PICK n : n = Text!Min(Points(w) \ {Text!Min(Points(w))}) - 1
    OBVIOUS
  <2>2. PICK v : v = SubSeq(w, 1, n)
    OBVIOUS
  <2>3. n \in 1 .. Len(w) /\ Cardinality(Points(v)) = 1
    BY <1>1, <1>5, <2>1, <2>2, CutNumber
  <2>4. OfClass(v, DigitChars, DigitChars \cup {"."})
    <3>1. \A j \in 1 .. n : w[j] \in Marks /\ w[j] \in DigitChars \cup {"."}
      BY <1>1, <2>3, ElementOfSeq DEF OfClass
    <3>2. /\ v \in Seq(Marks)
          /\ Len(v) = IF 1 <= n THEN n - 1 + 1 ELSE 0
          /\ \A j \in 1 .. n - 1 + 1 : v[j] = w[1 + j - 1]
      BY <2>2, <2>3, <3>1, SubSeqProperties
    <3>3. Len(v) = n
      BY <2>3, <3>2
    <3>4. \A j \in 1 .. n : v[j] = w[j]
      <4>1. \A j \in 1 .. n : 1 + j - 1 = j /\ j \in 1 .. n - 1 + 1
        BY <2>3
      <4> QED
        BY <3>2, <4>1
    <3>5. v # <<>>
      BY <2>3, <3>3, EmptySeq
    <3> QED
      BY <1>1, <2>3, <3>1, <3>2, <3>3, <3>4, <3>5 DEF OfClass
  <2>5. v \in Seq(Marks)
    BY <2>4 DEF OfClass
  <2>6. Text!NumberToken(w) = Text!Token("REAL_NUMBER", v)
    BY <1>1, <1>5, <2>1, <2>2, NumberCases
  <2>7. Text!NumberToken(v) = Text!Token("REAL_NUMBER", v)
    BY <2>3, <2>5, NumberCases
  <2>8. Text!NumberToken(w).text = v /\ Text!NumberToken(w).type = "REAL_NUMBER"
    BY <2>6 DEF Text!Token
  <2> QED
    BY <2>4, <2>6, <2>7, <2>8 DEF IsNumber
<1> QED
  BY <1>2, <1>3, <1>4, <1>5

LEMMA WordIs ==
    ASSUME Text!CharAssumption, NEW w, OfClass(w, Letters \cup {"_"}, Text!WordChars)
    PROVE  IsWord(Text!WordToken(w))
<1>1. PICK up : up = [k \in DOMAIN w |-> Upper[w[k]]]
  OBVIOUS
<1>2. Text!WordToken(w) =
        IF up \in DOMAIN Keywords THEN Text!Token(Keywords[up], w) ELSE Text!Token("IDENT", w)
  BY <1>1 DEF Text!WordToken
<1>3. PICK kind : Text!WordToken(w) = Text!Token(kind, w) /\ kind # "STRING"
  <2>1. CASE up \in DOMAIN Keywords
    BY <1>2, <2>1 DEF Text!CharAssumption
  <2>2. CASE up \notin DOMAIN Keywords
    <3>1. Text!WordToken(w) = Text!Token("IDENT", w) /\ "IDENT" # "STRING"
      BY <1>2, <2>2
    <3> QED
      BY <3>1
  <2> QED
    BY <2>1, <2>2
<1>4. PICK t : t = Text!WordToken(w)
  OBVIOUS
<1>5. t = [type |-> kind, text |-> w]
  BY <1>3, <1>4 DEF Text!Token
<1>6. t.text = w /\ t.type = kind
  BY <1>5
<1> QED
  BY <1>3, <1>4, <1>6 DEF IsWord

\* A run of characters, from its first one on.
LEMMA RunIs ==
    ASSUME NEW text \in Seq(Marks), NEW i \in 1 .. Len(text), NEW first, NEW class,
           text[i] \in first, text[i] \in class
    PROVE  LET e == Text!EndOf(text, i, class)
           IN  e \in i + 1 .. Len(text) + 1 /\ OfClass(SubSeq(text, i, e - 1), first, class)
<1>1. Len(text) \in Nat /\ \A j \in 1 .. Len(text) : text[j] \in Marks
  BY ElementOfSeq, LenProperties
<1>2. PICK e : e = Text!EndOf(text, i, class) /\ EndsAt(text, i, class, e)
  BY <1>1, EndFacts
<1>3. e \in i + 1 .. Len(text) + 1 /\ \A j \in i .. e - 1 : text[j] \in class
  BY <1>1, <1>2 DEF EndsAt
<1>4. PICK w : w = SubSeq(text, i, e - 1)
  OBVIOUS
<1>5. \A j \in i .. e - 1 : text[j] \in Marks
  BY <1>1, <1>3
<1>6. /\ w \in Seq(Marks)
      /\ Len(w) = IF i <= e - 1 THEN e - 1 - i + 1 ELSE 0
      /\ \A j \in 1 .. e - 1 - i + 1 : w[j] = text[i + j - 1]
  BY <1>3, <1>4, <1>5, SubSeqProperties
<1>7. Len(w) = e - i /\ \A j \in 1 .. e - i : w[j] = text[i + j - 1]
  <2>1. Len(w) = e - i
    BY <1>3, <1>6
  <2>2. \A j \in 1 .. e - i : j \in 1 .. e - 1 - i + 1
    BY <1>3
  <2> QED
    BY <1>6, <2>1, <2>2
<1>8. w[1] \in first
  <2>1. w[1] = text[i + 1 - 1] /\ i + 1 - 1 = i
    BY <1>3, <1>7
  <2> QED
    BY <2>1
<1>9. \A j \in 1 .. Len(w) : w[j] \in class
  <2> SUFFICES ASSUME NEW j \in 1 .. Len(w) PROVE w[j] \in class
    OBVIOUS
  <2>1. i + j - 1 \in i .. e - 1 /\ w[j] = text[i + j - 1]
    BY <1>3, <1>7
  <2> QED
    BY <1>3, <2>1
<1>10. w # <<>>
  <2>1. Len(w) # 0
    BY <1>3, <1>7
  <2> QED
    BY <2>1, EmptySeq
<1>11. OfClass(w, first, class)
  BY <1>6, <1>8, <1>9, <1>10 DEF OfClass
<1> QED
  BY <1>2, <1>3, <1>4, <1>11

\* Reading goes on, and what is read is spellable.
LEMMA TokenFacts ==
    ASSUME Text!CharAssumption, NEW text \in Seq(Marks), NEW i \in 1 .. Len(text)
    PROVE  /\ Text!TokenAt(text, i).next \in i + 1 .. Len(text) + 1
           /\ \/ Text!TokenAt(text, i).token = Text!Fail[1]
              \/ Spellable(Text!TokenAt(text, i).token)
<1>1. Len(text) \in Nat /\ \A j \in 1 .. Len(text) : text[j] \in Marks
  BY ElementOfSeq, LenProperties
<1>2. PICK r : r = Text!TokenAt(text, i)
  OBVIOUS
<1> SUFFICES /\ r.next \in i + 1 .. Len(text) + 1
             /\ r.token = Text!Fail[1] \/ Spellable(r.token)
  BY <1>2
<1>3. CASE r = ErrorAt(text)
  <2>1. r.next = Len(text) + 1 /\ r.token = Text!Fail[1]
    BY <1>3 DEF ErrorAt
  <2> QED
    BY <1>1, <2>1
<1>4. CASE text[i] = "'"
  <2>1. PICK q : q = Text!Quoted(text, i + 1)
    OBVIOUS
  <2>2. q.val \in Seq(Marks) /\ q.end \in 0 .. Len(text) /\ (q.end # 0 => q.end >= i + 1)
    <3>1. i + 1 \in 1 .. Len(text) + 1
      BY <1>1
    <3>2. PICK g : /\ Text!Quoted(text, i + 1) = g[i + 1]
                   /\ \A j \in i + 1 .. Len(text) + 1 :
                        /\ g[j] \in [val : Seq(Marks), end : 0 .. Len(text)]
                        /\ g[j].end # 0 => g[j].end >= j
      BY <3>1, QuotedIs
    <3>3. i + 1 \in i + 1 .. Len(text) + 1
      BY <1>1
    <3> QED
      BY <2>1, <3>2, <3>3
  <2>3. r = IF q.end = 0 THEN ErrorAt(text)
            ELSE [token |-> Text!Token("STRING", q.val), next |-> q.end + 1]
    BY <1>2, <1>4, <2>1, TokenAtQuote
  <2>4. CASE q.end # 0
    <3>1. r.token = Text!Token("STRING", q.val) /\ r.next = q.end + 1
      BY <2>3, <2>4
    <3>2. q.end + 1 \in i + 1 .. Len(text) + 1
      BY <1>1, <2>2, <2>4
    <3> QED
      BY <2>2, <3>1, <3>2 DEF Spellable, IsLiteral
  <2>5. CASE q.end = 0
    BY <1>3, <2>3, <2>5
  <2> QED
    BY <2>4, <2>5
<1>5. CASE text[i] \in DigitChars
  <2>1. PICK e : e = Text!EndOf(text, i, DigitChars \cup {"."})
    OBVIOUS
  <2>2. PICK w : w = SubSeq(text, i, e - 1)
    OBVIOUS
  <2>3. e \in i + 1 .. Len(text) + 1 /\ OfClass(w, DigitChars, DigitChars \cup {"."})
    BY <1>5, <2>1, <2>2, RunIs
  <2>4. r = [token |-> Text!NumberToken(w), next |-> e]
    BY <1>2, <1>5, <2>1, <2>2, TokenAtDigit
  <2>5. r.token = Text!NumberToken(w) /\ r.next = e
    BY <2>4
  <2> QED
    BY <2>3, <2>5, NumberIs DEF Spellable
<1>6. CASE text[i] \in Letters \cup {"_"}
  <2>1. PICK e : e = Text!EndOf(text, i, Text!WordChars)
    OBVIOUS
  <2>2. PICK w : w = SubSeq(text, i, e - 1)
    OBVIOUS
  <2>3. e \in i + 1 .. Len(text) + 1 /\ OfClass(w, Letters \cup {"_"}, Text!WordChars)
    <3>1. text[i] \in Text!WordChars
      BY <1>6 DEF Text!WordChars
    <3> QED
      BY <1>6, <2>1, <2>2, <3>1, RunIs
  <2>4. r = [token |-> Text!WordToken(w), next |-> e]
    BY <1>2, <1>6, <2>1, <2>2, TokenAtLetter
  <2>5. r.token = Text!WordToken(w) /\ r.next = e
    BY <2>4
  <2> QED
    BY <2>3, <2>5, WordIs DEF Spellable
<1>7. CASE PlainMark(text[i])
  <2>1. PICK p : p = PairAt(text, i)
    OBVIOUS
  <2>2. DOMAIN Text!Signs = SignMarks /\ DOMAIN Text!LongSigns = SignPairs
    BY MarksApart
  <2>3. CASE p \in SignPairs
    <3>1. i < Len(text)
      BY <2>1, <2>3, PairBegins
    <3>2. r = [token |-> Text!Token(Text!LongSigns[p], p), next |-> i + 2]
      BY <1>2, <1>7, <2>1, <2>2, <2>3, TokenAtPair
    <3>3. r.token = Text!Token(Text!LongSigns[p], p) /\ r.next = i + 2
      BY <3>2
    <3>4. i + 2 \in i + 1 .. Len(text) + 1
      BY <1>1, <3>1
    <3> QED
      BY <2>3, <3>3, <3>4 DEF Spellable, IsPair
  <2>4. CASE p \notin SignPairs /\ text[i] \in SignMarks
    <3>1. PICK c \in SignMarks : c = text[i]
      BY <2>4
    <3>2. r = [token |-> Text!Token(Text!Signs[c], <<c>>), next |-> i + 1]
      BY <1>2, <1>7, <2>1, <2>2, <2>4, <3>1, TokenAtSign
    <3>3. r.token = Text!Token(Text!Signs[c], <<c>>) /\ r.next = i + 1
      BY <3>2
    <3>4. i + 1 \in i + 1 .. Len(text) + 1
      BY <1>1
    <3> QED
      BY <3>3, <3>4 DEF Spellable, IsSign
  <2>5. CASE p \notin SignPairs /\ text[i] \notin SignMarks
    BY <1>2, <1>3, <1>7, <2>1, <2>2, <2>5, TokenAtOther
  <2> QED
    BY <2>3, <2>4, <2>5
<1> QED
  BY <1>4, <1>5, <1>6, <1>7 DEF PlainMark

\* Tokens by its equation.
LexStep(text, g, i) ==
    IF i = Len(text) + 1 THEN <<>>
    ELSE IF text[i] \in SpaceChars THEN g[i + 1]
    ELSE IF Text!Fail[1] \in {Text!TokenAt(text, i).token}
                               \cup Text!Range(g[Text!TokenAt(text, i).next])
         THEN Text!Fail
         ELSE <<Text!TokenAt(text, i).token>> \o g[Text!TokenAt(text, i).next]

Lexes(text, g) == g = [i \in 1 .. Len(text) + 1 |-> LexStep(text, g, i)]

\* What the tokens of a text are among.
TokensOf(text) == {Text!TokenAt(text, i).token : i \in 1 .. Len(text)} \cup {Text!Fail[1]}

LEMMA TokensIs ==
    ASSUME Text!CharAssumption, NEW text \in Seq(Marks)
    PROVE  \E g : Lexes(text, g) /\ Text!Tokens(text) = g[1]
<1>1. Len(text) \in Nat
  BY LenProperties
<1> DEFINE Tok == TokensOf(text)
           V == Seq(Tok)
           top == Len(text) + 1
           At(i) == Text!TokenAt(text, i)
           More(i, v) == IF Text!Fail[1] \in {At(i).token} \cup Text!Range(v) THEN Text!Fail
                         ELSE <<At(i).token>> \o v
           G == [i \in 1 .. top - 1 |->
                   [v \in V |-> IF text[i] \in SpaceChars THEN v ELSE More(i, v)]]
           d == [i \in 1 .. top - 1 |-> IF text[i] \in SpaceChars THEN i + 1 ELSE At(i).next]
<1>2. top \in Nat /\ 1 <= top /\ top - 1 = Len(text) /\ <<>> \in V
  BY <1>1, EmptySeq
<1>3. ASSUME NEW i \in 1 .. top - 1
      PROVE  /\ d[i] \in i + 1 .. top
             /\ d[i] = IF text[i] \in SpaceChars THEN i + 1 ELSE At(i).next
             /\ At(i).token \in Tok
  <2>1. At(i).next \in i + 1 .. top
    BY <1>1, TokenFacts
  <2>2. i + 1 \in i + 1 .. top
    BY <1>1
  <2>3. d[i] = IF text[i] \in SpaceChars THEN i + 1 ELSE At(i).next
    OBVIOUS
  <2>4. At(i).token \in Tok
    BY <1>2 DEF TokensOf
  <2> HIDE DEF d, At, top
  <2> QED
    BY <2>1, <2>2, <2>3, <2>4
<1>4. ASSUME NEW i \in 1 .. top - 1, NEW v \in V
      PROVE  /\ G[i][v] = IF text[i] \in SpaceChars THEN v ELSE More(i, v)
             /\ G[i][v] \in V
  <2>1. G[i][v] = IF text[i] \in SpaceChars THEN v ELSE More(i, v)
    <3> HIDE DEF V, More
    <3> QED
      OBVIOUS
  <2>2. PICK t \in Tok : t = At(i).token
    BY <1>3
  <2>3. <<t>> \o v \in V
    BY ConcatProperties
  <2>4. Text!Fail \in V
    <3>1. Text!Fail = <<Text!Fail[1]>>
      BY DEF Text!Fail
    <3>2. PICK e : e = Text!Fail[1]
      OBVIOUS
    <3>3. e \in Tok
      BY <3>2 DEF TokensOf
    <3>4. <<e>> \in Seq(Tok)
      BY <3>3
    <3> QED
      BY <3>1, <3>2, <3>4
  <2>5. More(i, v) \in V
    BY <2>2, <2>3, <2>4
  <2> HIDE DEF V, More, G
  <2> QED
    BY <2>1, <2>5
<1>5. PICK f \in [1 .. top -> V] : Solves(1, top, <<>>, d, G, f)
  <2>1. LooksAhead(1, top, V, <<>>, d, G)
    <3>1. /\ \A i \in 1 .. top - 1 : d[i] \in i + 1 .. top
          /\ \A i \in 1 .. top - 1 : \A v \in V : G[i][v] \in V
      BY <1>3, <1>4
    <3> HIDE DEF V, G, d, top
    <3> QED
      BY <1>2, <3>1 DEF LooksAhead
  <2> HIDE DEF V, G, d, top, At, More
  <2> QED
    BY <2>1, LookAhead
<1>6. \A i \in 1 .. top : f[i] = LexStep(text, f, i)
  <2> SUFFICES ASSUME NEW i \in 1 .. top PROVE f[i] = LexStep(text, f, i)
    OBVIOUS
  <2>1. CASE i = top
    BY <1>5, <2>1 DEF LexStep, Solves
  <2>2. CASE i # top
    <3>1. i \in 1 .. top - 1
      BY <1>2, <2>2
    <3>2. f[d[i]] \in V /\ f[i] = G[i][f[d[i]]]
      <4>1. d[i] \in 1 .. top
        BY <1>2, <1>3, <3>1
      <4> HIDE DEF G, d, V, top
      <4> QED
        BY <1>5, <3>1, <4>1 DEF Solves
    <3>3. PICK v \in V : v = f[d[i]]
      BY <3>2
    <3>4. f[i] = IF text[i] \in SpaceChars THEN v ELSE More(i, v)
      <4> HIDE DEF G, V, More, top
      <4> QED
        BY <1>4, <3>1, <3>2, <3>3
    <3>5. v = f[IF text[i] \in SpaceChars THEN i + 1 ELSE At(i).next]
      BY <1>3, <3>1, <3>3
    <3>6. LexStep(text, f, i) =
            IF text[i] \in SpaceChars THEN f[i + 1] ELSE More(i, f[At(i).next])
      BY <2>2 DEF LexStep
    <3> HIDE DEF More, At
    <3> QED
      BY <3>4, <3>5, <3>6
  <2> QED
    BY <2>1, <2>2
<1>7. Lexes(text, f)
  <2>1. f = [i \in 1 .. top |-> f[i]]
    BY <1>5
  <2> QED
    BY <1>6, <2>1 DEF Lexes
<1>8. PICK g : g = CHOOSE h : Lexes(text, h)
  OBVIOUS
<1>9. Lexes(text, g)
  BY <1>7, <1>8
<1>10. Text!Tokens(text) = (CHOOSE h : Lexes(text, h))[1]
  BY DEF Text!Tokens, Lexes, LexStep
<1> QED
  BY <1>8, <1>9, <1>10

\* Tokens that can be spelled.
AllSpellable(ts) == \A k \in 1 .. Len(ts) : Spellable(ts[k])

LEMMA LexedIsSpellable ==
    ASSUME Text!CharAssumption, NEW text \in Seq(Marks), NEW g, Lexes(text, g)
    PROVE  \A i \in 1 .. Len(text) + 1 :
             g[i] = Text!Fail \/ (g[i] \in Seq(TokensOf(text)) /\ AllSpellable(g[i]))
<1>1. Len(text) \in Nat
  BY LenProperties
<1> DEFINE top == Len(text) + 1
           Tok == TokensOf(text)
           Ok1(ts) == ts \in Seq(Tok) /\ AllSpellable(ts)
           T == {i \in 1 .. top : g[i] = Text!Fail \/ Ok1(g[i])}
<1>2. 1 \in Nat /\ top \in Nat
  BY <1>1
<1>3. ASSUME NEW i \in 1 .. top, \A j \in i + 1 .. top : j \in T
      PROVE  i \in T
  <2>1. g[i] = LexStep(text, g, i)
    BY DEF Lexes
  <2>2. CASE i = top
    <3>1. g[i] = <<>>
      BY <2>1, <2>2 DEF LexStep
    <3>2. <<>> \in Seq(Tok) /\ Len(<<>>) = 0
      BY EmptySeq
    <3>3. \A k \in 1 .. 0 : Spellable(<<>>[k])
      OBVIOUS
    <3>4. AllSpellable(<<>>)
      BY <3>2, <3>3 DEF AllSpellable
    <3> HIDE DEF Tok
    <3> QED
      BY <3>1, <3>2, <3>4
  <2>3. CASE i # top /\ text[i] \in SpaceChars
    <3>1. g[i] = g[i + 1]
      BY <2>1, <2>3 DEF LexStep
    <3>2. i + 1 \in i + 1 .. top
      BY <1>1, <2>3
    <3>3. i + 1 \in T
      BY <1>3, <3>2
    <3> HIDE DEF Ok1
    <3> QED
      BY <3>1, <3>3
  <2>4. CASE i # top /\ text[i] \notin SpaceChars
    <3>1. i \in 1 .. Len(text)
      BY <1>1, <2>4
    <3>2. PICK n \in i + 1 .. top : n = Text!TokenAt(text, i).next
      BY <3>1, TokenFacts
    <3>3. PICK t \in Tok : t = Text!TokenAt(text, i).token /\ (t = Text!Fail[1] \/ Spellable(t))
      <4>1. Text!TokenAt(text, i).token \in Tok
        BY <3>1 DEF TokensOf
      <4> HIDE DEF Tok
      <4> QED
        BY <3>1, <4>1, TokenFacts
    <3>4. g[i] = IF Text!Fail[1] \in {t} \cup Text!Range(g[n]) THEN Text!Fail ELSE <<t>> \o g[n]
      BY <2>1, <2>4, <3>2, <3>3 DEF LexStep
    <3>5. CASE Text!Fail[1] \in {t} \cup Text!Range(g[n])
      BY <3>4, <3>5
    <3>6. CASE Text!Fail[1] \notin {t} \cup Text!Range(g[n])
      <4>1. g[n] # Text!Fail
        <5>1. Text!Fail[1] \in Text!Range(Text!Fail)
          <6>1. PICK e : e = Text!Fail[1] /\ Text!Fail = <<e>>
            BY DEF Text!Fail
          <6>2. 1 \in DOMAIN <<e>> /\ <<e>>[1] = e
            OBVIOUS
          <6> QED
            BY <6>1, <6>2 DEF Text!Range
        <5> QED
          BY <3>6, <5>1
      <4>2. n \in T
        BY <1>3, <3>2
      <4>3. PICK v : v = g[n] /\ v \in Seq(Tok) /\ AllSpellable(v)
        BY <4>1, <4>2
      <4>4. Spellable(t)
        BY <3>3, <3>6
      <4>5. PICK u : u = <<t>> \o v
        OBVIOUS
      <4>6. /\ u \in Seq(Tok) /\ Len(u) = 1 + Len(v) /\ Len(v) \in Nat
            /\ u[1] = t /\ \A k \in 1 .. Len(v) : u[1 + k] = v[k]
        <5>1. <<t>> \in Seq(Tok) /\ Len(<<t>>) = 1 /\ <<t>>[1] = t
          OBVIOUS
        <5>2. /\ u \in Seq(Tok) /\ Len(u) = Len(<<t>>) + Len(v)
              /\ \A k \in 1 .. Len(<<t>>) + Len(v) :
                   u[k] = IF k <= Len(<<t>>) THEN <<t>>[k] ELSE v[k - Len(<<t>>)]
          BY <4>3, <4>5, <5>1, ConcatProperties
        <5>3. Len(v) \in Nat
          BY <4>3, LenProperties
        <5>4. u[1] = t
          BY <5>1, <5>2, <5>3
        <5>5. ASSUME NEW k \in 1 .. Len(v) PROVE u[1 + k] = v[k]
          <6>1. PICK m : m = 1 + k
            OBVIOUS
          <6>2. m \in 1 .. 1 + Len(v) /\ ~(m <= 1) /\ m - 1 = k
            BY <5>3, <6>1
          <6>3. u[m] = IF m <= 1 THEN <<t>>[m] ELSE v[m - 1]
            BY <5>1, <5>2, <6>2
          <6> QED
            BY <6>1, <6>2, <6>3
        <5> QED
          BY <5>1, <5>2, <5>3, <5>4, <5>5
      <4>7. AllSpellable(u)
        <5> SUFFICES ASSUME NEW k \in 1 .. Len(u) PROVE Spellable(u[k])
          BY DEF AllSpellable
        <5>1. CASE k = 1
          BY <4>4, <4>6, <5>1
        <5>2. CASE k # 1
          <6>1. PICK m \in 1 .. Len(v) : 1 + m = k
            <7>1. k - 1 \in 1 .. Len(v) /\ 1 + (k - 1) = k
              BY <4>6, <5>2
            <7> QED
              BY <7>1
          <6>2. u[k] = v[m]
            BY <4>6, <6>1
          <6> QED
            BY <4>3, <6>2 DEF AllSpellable
        <5> QED
          BY <5>1, <5>2
      <4>8. g[i] = u
        BY <3>4, <3>6, <4>3, <4>5
      <4> HIDE DEF Tok
      <4> QED
        BY <4>6, <4>7, <4>8
    <3> QED
      BY <3>5, <3>6
  <2> QED
    BY <2>2, <2>3, <2>4
<1>4. 1 .. top \subseteq T
  <2> HIDE DEF T, top
  <2> QED
    BY <1>2, <1>3, BackToFront
<1> QED
  BY <1>4

\* The pieces ss of a buffer, one after another, to its end.
Laid(buf, ss, at) ==
    /\ at \in [1 .. Len(ss) + 1 -> Nat] /\ at[1] = 0 /\ at[Len(ss) + 1] = Len(buf)
    /\ \A k \in 1 .. Len(ss) : at[k + 1] = at[k] + Len(ss[k]) /\ Holds(buf, at[k], ss[k])

LEMMA FlattenLaid ==
    ASSUME NEW T, NEW ss \in Seq(Seq(T))
    PROVE  FlattenSeq(ss) \in Seq(T) /\ \E at : Laid(FlattenSeq(ss), ss, at)
<1>1. Len(ss) \in Nat /\ \A k \in 1 .. Len(ss) : Len(ss[k]) \in Nat
  BY ElementOfSeq, LenProperties
<1>2. PICK buf \in Seq(T) : buf = FlattenSeq(ss) /\ Len(buf) \in Nat
  BY FlattenHolds, LenProperties
<1>3. PICK n \in Nat : n = Len(ss) /\ (n = 0 <=> ss = <<>>)
  BY <1>1, EmptySeq
<1>4. PICK old \in [1 .. n -> Nat] :
        /\ \A i \in 1 .. n : /\ old[i] = IF i = 1 THEN 0 ELSE old[i - 1] + Len(ss[i - 1])
                             /\ Holds(buf, old[i], ss[i])
        /\ Len(buf) = IF ss = <<>> THEN 0 ELSE old[n] + Len(ss[n])
  BY <1>2, <1>3, FlattenHolds
<1>5. PICK at : at = [i \in 1 .. n + 1 |-> IF i <= n THEN old[i] ELSE Len(buf)]
  OBVIOUS
<1>6. at \in [1 .. n + 1 -> Nat] /\ at[n + 1] = Len(buf) /\ \A i \in 1 .. n : at[i] = old[i]
  <2>1. \A i \in 1 .. n + 1 : i <= n => i \in 1 .. n
    BY <1>3
  <2>2. \A i \in 1 .. n + 1 : (IF i <= n THEN old[i] ELSE Len(buf)) \in Nat
    BY <1>2, <2>1
  <2>3. n + 1 \in 1 .. n + 1 /\ ~(n + 1 <= n)
    BY <1>3
  <2>4. \A i \in 1 .. n : i \in 1 .. n + 1 /\ i <= n
    BY <1>3
  <2> QED
    BY <1>5, <2>2, <2>3, <2>4
<1>7. at[1] = 0
  <2>1. CASE n = 0
    BY <1>3, <1>4, <1>6, <2>1
  <2>2. CASE n # 0
    <3>1. 1 \in 1 .. n
      BY <1>3, <2>2
    <3> QED
      BY <1>4, <1>6, <3>1
  <2> QED
    BY <2>1, <2>2
<1>8. ASSUME NEW k \in 1 .. n
      PROVE  at[k + 1] = at[k] + Len(ss[k]) /\ Holds(buf, at[k], ss[k])
  <2>1. Holds(buf, at[k], ss[k])
    BY <1>4, <1>6
  <2>2. CASE k = n
    BY <1>3, <1>4, <1>6, <2>2
  <2>3. CASE k # n
    <3>1. PICK m \in 1 .. n : m = k + 1 /\ m # 1 /\ m - 1 = k
      <4>1. k + 1 \in 1 .. n /\ k + 1 # 1 /\ k + 1 - 1 = k
        BY <1>3, <2>3
      <4> QED
        BY <4>1
    <3>2. old[m] = old[m - 1] + Len(ss[m - 1])
      BY <1>4, <3>1
    <3>3. old[m] = old[k] + Len(ss[k])
      BY <3>1, <3>2
    <3>4. at[m] = old[m] /\ at[k] = old[k]
      BY <1>6
    <3> QED
      BY <2>1, <3>1, <3>3, <3>4
  <2> QED
    BY <2>1, <2>2, <2>3
<1>9. Laid(buf, ss, at)
  BY <1>3, <1>6, <1>7, <1>8 DEF Laid
<1> QED
  BY <1>2, <1>9

\* From k on: the element at k, and then from k + 1 on.
LEMMA FromOn ==
    ASSUME NEW T, NEW s \in Seq(T), NEW k \in 1 .. Len(s)
    PROVE  /\ <<s[k]>> \o SubSeq(s, k + 1, Len(s)) = SubSeq(s, k, Len(s))
           /\ SubSeq(s, k + 1, Len(s)) \in Seq(T)
           /\ \A x \in DOMAIN SubSeq(s, k + 1, Len(s)) :
                \E j \in 1 .. Len(s) : SubSeq(s, k + 1, Len(s))[x] = s[j]
<1>1. Len(s) \in Nat /\ \A j \in 1 .. Len(s) : s[j] \in T
  BY ElementOfSeq, LenProperties
<1>2. PICK n \in Nat : n = Len(s)
  BY <1>1
<1>3. PICK a : a = SubSeq(s, k + 1, n)
  OBVIOUS
<1>4. SubSeq(s, k, n) = <<s[k]>> \o a
  BY <1>1, <1>2, <1>3, SubSeqRecursiveFirst
<1>5. a \in Seq(T) /\ Len(a) = n - k /\ \A j \in 1 .. n - k : a[j] = s[k + j]
  <2>1. \A j \in k + 1 .. n : s[j] \in T
    BY <1>1, <1>2
  <2>2. /\ a \in Seq(T)
        /\ Len(a) = IF k + 1 <= n THEN n - (k + 1) + 1 ELSE 0
        /\ \A j \in 1 .. n - (k + 1) + 1 : a[j] = s[k + 1 + j - 1]
    BY <1>1, <1>2, <1>3, <2>1, SubSeqProperties
  <2>3. Len(a) = n - k
    BY <1>1, <1>2, <2>2
  <2>4. \A j \in 1 .. n - k : j \in 1 .. n - (k + 1) + 1 /\ k + 1 + j - 1 = k + j
    BY <1>1, <1>2
  <2> QED
    BY <2>2, <2>3, <2>4
<1>6. \A x \in DOMAIN a : \E j \in 1 .. n : a[x] = s[j]
  <2> SUFFICES ASSUME NEW x \in DOMAIN a PROVE \E j \in 1 .. n : a[x] = s[j]
    OBVIOUS
  <2>1. x \in 1 .. n - k
    BY <1>5, LenProperties
  <2>2. k + x \in 1 .. n
    BY <1>1, <1>2, <2>1
  <2> QED
    BY <1>5, <2>1, <2>2
<1> QED
  BY <1>2, <1>3, <1>4, <1>5, <1>6

LEMMA NoneOn ==
    ASSUME NEW T, NEW s \in Seq(T)
    PROVE  SubSeq(s, Len(s) + 1, Len(s)) = <<>>
<1>1. Len(s) \in Nat
  BY LenProperties
<1> QED
  BY <1>1, SubSeqEmpty

\* A character of a literal, as it is written again.
EscapedMark(c) == IF c \in {"'", "\\"} THEN <<"\\", c>> ELSE <<c>>
EscapedMarks(val) == [k \in 1 .. Len(val) |-> EscapedMark(val[k])]

LEMMA SameTextFlatten == \A ss : Text!FlattenSeq(ss) = FlattenSeq(ss)
BY DEF Text!FlattenSeq, FlattenSeq

LEMMA EscapedIs ==
    ASSUME NEW val \in Seq(Marks)
    PROVE  /\ EscapedMarks(val) \in Seq(Seq(Marks)) /\ Len(EscapedMarks(val)) = Len(val)
           /\ Text!Escaped(val) = FlattenSeq(EscapedMarks(val))
           /\ Text!Escaped(val) \in Seq(Marks)
           /\ \E at : Laid(Text!Escaped(val), EscapedMarks(val), at)
<1>1. Len(val) \in Nat /\ DOMAIN val = 1 .. Len(val) /\ \A k \in 1 .. Len(val) : val[k] \in Marks
  BY ElementOfSeq, LenProperties
<1>2. \A c \in Marks : EscapedMark(c) \in Seq(Marks)
  <2> TAKE c \in Marks
  <2>1. "\\" \in Marks
    BY DEF Marks
  <2>2. <<c>> \in Seq(Marks) /\ <<"\\", c>> \in Seq(Marks)
    BY <2>1
  <2> QED
    BY <2>2 DEF EscapedMark
<1>3. \A k \in 1 .. Len(val) : EscapedMark(val[k]) \in Seq(Marks)
  BY <1>1, <1>2
<1>4. EscapedMarks(val) \in Seq(Seq(Marks)) /\ Len(EscapedMarks(val)) = Len(val)
  <2>1. EscapedMarks(val) \in [1 .. Len(val) -> Seq(Marks)]
    BY <1>3 DEF EscapedMarks
  <2>2. DOMAIN EscapedMarks(val) = 1 .. Len(val)
    BY DEF EscapedMarks
  <2> QED
    BY <1>1, <2>1, <2>2, LenProperties, IsASeq
<1>5. Text!Escaped(val) = FlattenSeq(EscapedMarks(val))
  BY <1>1, SameTextFlatten DEF Text!Escaped, EscapedMarks, EscapedMark
<1> QED
  BY <1>4, <1>5, FlattenLaid

\* A literal is read as what it was written from.
LEMMA EscapedReads ==
    ASSUME NEW val \in Seq(Marks), NEW buf \in Seq(Marks), NEW off \in Nat,
           Holds(buf, off, Text!Escaped(val)),
           off + Len(Text!Escaped(val)) + 1 <= Len(buf),
           buf[off + Len(Text!Escaped(val)) + 1] = "'"
    PROVE  Text!Quoted(buf, off + 1) =
             [val |-> val, end |-> off + Len(Text!Escaped(val)) + 1]
<1>1. PICK n \in Nat : n = Len(val)
  BY LenProperties
<1>2. PICK N \in Nat : N = Len(buf)
  BY LenProperties
<1>3. PICK L : L = Len(Text!Escaped(val))
  OBVIOUS
<1>4. PICK ss : ss = EscapedMarks(val) /\ Len(ss) = n
  BY <1>1, EscapedIs
<1>5. PICK at : Laid(Text!Escaped(val), ss, at)
  BY <1>4, EscapedIs
<1>6. /\ at \in [1 .. n + 1 -> Nat] /\ at[1] = 0 /\ at[n + 1] = L
      /\ \A k \in 1 .. n : at[k + 1] = at[k] + Len(ss[k]) /\ Holds(Text!Escaped(val), at[k], ss[k])
  BY <1>3, <1>4, <1>5 DEF Laid
<1>7. L \in Nat /\ off + L + 1 <= N /\ off + 1 \in 1 .. N + 1 /\ buf[off + L + 1] = "'"
  <2>1. n + 1 \in 1 .. n + 1
    BY <1>1
  <2>2. L \in Nat
    BY <1>6, <2>1
  <2> QED
    BY <1>2, <1>3, <2>2
<1>8. PICK g : Quotes(buf, off + 1, g) /\ Text!Quoted(buf, off + 1) = g[off + 1]
  BY <1>2, <1>7, QuotedIs
<1>9. \A j \in off + 1 .. N + 1 : g[j] = QuotedStep(buf, g, j)
  BY <1>2, <1>8 DEF Quotes
<1> DEFINE Read1(k) == g[off + at[k] + 1] = [val |-> SubSeq(val, k, n), end |-> off + L + 1]
           T == {k \in 1 .. n + 1 : Read1(k)}
<1>10. ASSUME NEW k \in 1 .. n + 1, \A j \in k + 1 .. n + 1 : j \in T
       PROVE  k \in T
  <2>1. CASE k = n + 1
    <3>1. PICK p : p = off + at[k] + 1 /\ p = off + L + 1
      BY <1>6, <2>1
    <3>2. p \in off + 1 .. N + 1 /\ p # N + 1 /\ buf[p] = "'"
      BY <1>2, <1>7, <3>1
    <3>3. g[p] = [val |-> <<>>, end |-> p]
      BY <1>2, <1>9, <3>2 DEF QuotedStep
    <3>4. SubSeq(val, k, n) = <<>>
      BY <1>1, <2>1, NoneOn
    <3> QED
      BY <3>1, <3>3, <3>4
  <2>2. CASE k # n + 1
    <3>1. k \in 1 .. n /\ k + 1 \in k + 1 .. n + 1
      BY <1>1, <2>2
    <3>2. PICK c \in Marks : c = val[k]
      BY <1>1, <3>1, ElementOfSeq
    <3>3. PICK s : s = ss[k] /\ s = EscapedMark(c)
      BY <1>4, <3>1, <3>2, <1>1 DEF EscapedMarks
    <3>4. at[k] \in Nat /\ at[k + 1] = at[k] + Len(s)
      BY <1>6, <3>1, <3>3
    <3>5. s \in Seq(Marks) /\ Len(s) \in Nat
      <4>1. "\\" \in Marks
        BY DEF Marks
      <4>2. s \in Seq(Marks)
        BY <3>3, <4>1 DEF EscapedMark
      <4> QED
        BY <4>2, LenProperties
    <3>6. Holds(buf, off + at[k], s)
      <4>1. Holds(Text!Escaped(val), at[k], s)
        BY <1>6, <3>1, <3>3
      <4>2. Len(buf) \in Nat
        BY <1>2
      <4>3. Text!Escaped(val) \in Seq(Marks)
        BY EscapedIs
      <4> QED
        BY <3>4, <3>5, <4>1, <4>2, <4>3, HoldsPiece
    <3>7. Read1(k + 1)
      BY <1>10, <3>1
    <3>8. PICK v : v = SubSeq(val, k + 1, n)
      OBVIOUS
    <3>9. PICK p \in Nat : p = off + at[k] + 1
      BY <3>4
    <3>10. off + at[k + 1] + 1 = p + Len(s)
      BY <3>4, <3>5, <3>9
    <3>11. g[p + Len(s)] = [val |-> v, end |-> off + L + 1]
      BY <3>7, <3>8, <3>10
    <3>12. <<c>> \o v = SubSeq(val, k, n)
      BY <1>1, <3>1, <3>2, <3>8, FromOn
    <3>13. p + Len(s) <= N + 1 /\ \A j \in 1 .. Len(s) : buf[off + at[k] + j] = s[j]
      <4>1. PICK o \in Nat : o = off + at[k] /\ p = o + 1
        BY <3>4, <3>9
      <4>2. o + Len(s) <= N /\ \A j \in 1 .. Len(s) : buf[o + j] = s[j]
        BY <1>2, <3>6, <4>1 DEF Holds
      <4>3. PICK len \in Nat : len = Len(s)
        BY <3>5
      <4>4. o + len <= N
        BY <4>2, <4>3
      <4>5. p + len <= N + 1
        <5>1. p = o + 1
          BY <4>1
        <5> QED
          BY <4>4, <5>1
      <4>6. \A j \in 1 .. Len(s) : buf[off + at[k] + j] = s[j]
        BY <4>1, <4>2
      <4> QED
        BY <4>3, <4>5, <4>6
    <3>14. CASE c \in {"'", "\\"}
      <4>1. s = <<"\\", c>>
        BY <3>3, <3>14 DEF EscapedMark
      <4>2. Len(s) = 2 /\ s[1] = "\\" /\ s[2] = c
        BY <4>1
      <4>3. buf[p] = "\\" /\ buf[p + 1] = c
        <5>1. buf[off + at[k] + 1] = s[1] /\ buf[off + at[k] + 2] = s[2]
          BY <3>13, <4>2
        <5>2. off + at[k] + 2 = p + 1
          BY <3>4, <3>9
        <5> QED
          BY <3>9, <4>2, <5>1, <5>2
      <4>4. p \in off + 1 .. N + 1 /\ p # N + 1 /\ p + 1 <= N /\ p + 1 + 1 = p + Len(s)
        <5>1. p + 2 <= N + 1
          BY <3>13, <4>2
        <5>3. p >= off + 1
          <6>1. PICK a \in Nat : a = at[k]
            BY <3>4
          <6>2. p = off + a + 1
            BY <3>9, <6>1
          <6> QED
            BY <6>1, <6>2
        <5>2. p + 1 + 1 = p + Len(s)
          BY <4>2
        <5> QED
          BY <1>2, <5>1, <5>2, <5>3
      <4>5. g[p] = [g[p + 1 + 1] EXCEPT !.val = <<buf[p + 1]>> \o @]
        BY <1>2, <1>9, <4>3, <4>4 DEF QuotedStep
      <4>6. g[p] = [[val |-> v, end |-> off + L + 1] EXCEPT !.val = <<c>> \o @]
        BY <3>11, <4>3, <4>4, <4>5
      <4>7. g[p] = [val |-> <<c>> \o v, end |-> off + L + 1]
        BY <4>6
      <4> QED
        BY <3>9, <3>12, <4>7
    <3>15. CASE c \notin {"'", "\\"}
      <4>1. s = <<c>>
        BY <3>3, <3>15 DEF EscapedMark
      <4>2. Len(s) = 1 /\ s[1] = c
        BY <4>1
      <4>3. buf[p] = c
        <5>1. buf[off + at[k] + 1] = s[1]
          BY <3>13, <4>2
        <5> QED
          BY <3>9, <4>2, <5>1
      <4>4. p \in off + 1 .. N + 1 /\ p # N + 1 /\ p + 1 = p + Len(s)
        <5>1. p + 1 <= N + 1 /\ p + 1 = p + Len(s)
          BY <3>13, <4>2
        <5>2. p >= off + 1
          <6>1. PICK a \in Nat : a = at[k]
            BY <3>4
          <6>2. p = off + a + 1
            BY <3>9, <6>1
          <6> QED
            BY <6>1, <6>2
        <5> QED
          BY <1>2, <5>1, <5>2
      <4>5. g[p] = [g[p + 1] EXCEPT !.val = <<buf[p]>> \o @]
        BY <1>2, <1>9, <3>15, <4>3, <4>4 DEF QuotedStep
      <4>6. g[p] = [[val |-> v, end |-> off + L + 1] EXCEPT !.val = <<c>> \o @]
        BY <3>11, <4>3, <4>4, <4>5
      <4>7. g[p] = [val |-> <<c>> \o v, end |-> off + L + 1]
        BY <4>6
      <4> QED
        BY <3>9, <3>12, <4>7
    <3> QED
      BY <3>14, <3>15
  <2> QED
    BY <2>1, <2>2
<1>11. 1 \in T
  <2>1. 1 .. n + 1 \subseteq T
    <3>1. 1 \in Nat /\ n + 1 \in Nat
      BY <1>1
    <3> HIDE DEF T
    <3> QED
      BY <1>10, <3>1, BackToFront
  <2>2. 1 \in 1 .. n + 1
    BY <1>1
  <2> QED
    BY <2>1, <2>2
<1>12. SubSeq(val, 1, n) = val
  BY <1>1, SubSeqFull
<1>13. off + at[1] + 1 = off + 1
  BY <1>6
<1> QED
  BY <1>3, <1>8, <1>11, <1>12, <1>13

LEMMA SpaceFacts ==
    ASSUME Text!CharAssumption
    PROVE  Text!Space \in SpaceChars /\ Text!Space \in Marks
<1>1. SpaceChars # {}
  BY DEF Text!CharAssumption
<1>2. Text!Space \in SpaceChars
  BY <1>1 DEF Text!Space
<1>3. SpaceChars \subseteq Marks
  BY DEF Marks, Text!Chars
<1> QED
  BY <1>2, <1>3

\* A token as a text of its own: some characters, the first of them no space.
LEMMA SpelledIs ==
    ASSUME Text!CharAssumption, NEW t, Spellable(t)
    PROVE  /\ Text!Spelled(t) \in Seq(Marks) /\ Len(Text!Spelled(t)) >= 1
           /\ Text!Spelled(t)[1] \notin SpaceChars
<1>1. PICK w : w = Text!Spelled(t)
  OBVIOUS
<1> SUFFICES w \in Seq(Marks) /\ Len(w) >= 1 /\ w[1] \notin SpaceChars
  BY <1>1
<1>2. ASSUME t.type # "STRING", t.text \in Seq(Marks), t.text # <<>>, t.text[1] \notin SpaceChars
      PROVE  w \in Seq(Marks) /\ Len(w) >= 1 /\ w[1] \notin SpaceChars
  <2>1. w = t.text
    BY <1>1, <1>2 DEF Text!Spelled
  <2>2. Len(w) \in Nat /\ Len(w) # 0
    BY <1>2, <2>1, LenProperties, EmptySeq
  <2> QED
    BY <1>2, <2>1, <2>2
<1>3. CASE IsLiteral(t)
  <2>1. PICK val \in Seq(Marks) : t = Text!Token("STRING", val)
    BY <1>3 DEF IsLiteral
  <2>2. t.type = "STRING" /\ t.text = val
    BY <2>1 DEF Text!Token
  <2>3. PICK e \in Seq(Marks) : e = Text!Escaped(val)
    BY EscapedIs
  <2>4. w = <<"'">> \o e \o <<"'">>
    BY <1>1, <2>2, <2>3 DEF Text!Spelled
  <2>5. <<"'">> \in Seq(Marks) /\ Len(<<"'">>) = 1 /\ <<"'">>[1] = "'"
    <3>1. "'" \in Marks
      BY DEF Marks
    <3> QED
      BY <3>1
  <2>6. PICK a \in Seq(Marks) : a = <<"'">> \o e /\ Len(a) = 1 + Len(e) /\ a[1] = "'"
    <3>1. Len(e) \in Nat
      BY LenProperties
    <3>2. PICK q \in Seq(Marks) : q = <<"'">> /\ Len(q) = 1 /\ q[1] = "'"
      BY <2>5
    <3>3. PICK b : b = q \o e
      OBVIOUS
    <3>4. /\ b \in Seq(Marks) /\ Len(b) = Len(q) + Len(e)
          /\ \A i \in 1 .. Len(q) + Len(e) : b[i] = IF i <= Len(q) THEN q[i] ELSE e[i - Len(q)]
      BY <3>3, ConcatProperties
    <3>5. b[1] = "'"
      BY <3>1, <3>2, <3>4
    <3> QED
      BY <3>2, <3>3, <3>4, <3>5
  <2>7. w \in Seq(Marks) /\ Len(w) = Len(a) + 1 /\ w[1] = a[1]
    <3>1. Len(e) \in Nat
      BY LenProperties
    <3>2. w = a \o <<"'">>
      BY <2>4, <2>6
    <3>3. 1 \in 1 .. Len(a) + 1 /\ 1 <= Len(a)
      BY <2>6, <3>1
    <3>4. PICK q \in Seq(Marks) : q = <<"'">> /\ Len(q) = 1
      BY <2>5
    <3> QED
      BY <3>2, <3>3, <3>4, ConcatProperties
  <2>8. "'" \notin SpaceChars
    BY MarksApart
  <2>9. Len(e) \in Nat
    BY LenProperties
  <2> QED
    BY <2>6, <2>7, <2>8, <2>9
<1>4. CASE IsNumber(t)
  <2>1. /\ t.text \in Seq(Marks) /\ t.text # <<>> /\ t.text[1] \in DigitChars /\ t.type # "STRING"
    BY <1>4 DEF IsNumber, OfClass
  <2> QED
    BY <1>2, <2>1, MarksApart
<1>5. CASE IsWord(t)
  <2>1. /\ t.text \in Seq(Marks) /\ t.text # <<>> /\ t.text[1] \in Letters \cup {"_"}
        /\ t.type # "STRING"
    BY <1>5 DEF IsWord, OfClass
  <2>2. t.text[1] \notin SpaceChars
    BY <2>1, MarksApart
  <2> QED
    BY <1>2, <2>1, <2>2
<1>6. CASE IsPair(t)
  <2>1. PICK p \in SignPairs : t = Text!Token(Text!LongSigns[p], p)
    BY <1>6 DEF IsPair
  <2>2. t.text = p /\ t.type = Text!LongSigns[p]
    BY <2>1 DEF Text!Token
  <2>3. Text!LongSigns[p] # "STRING"
    BY DEF Text!LongSigns, SignPairs
  <2>4. p \in Seq(Marks) /\ p # <<>> /\ p[1] \in {"!", "<", ">"}
    <3>1. "!" \in Marks /\ "<" \in Marks /\ ">" \in Marks /\ "=" \in Marks
      BY DEF Marks, SignMarks
    <3>2. /\ <<"!", "=">> \in Seq(Marks) /\ <<"<", "=">> \in Seq(Marks)
          /\ <<">", "=">> \in Seq(Marks) /\ <<"<", ">">> \in Seq(Marks)
      BY <3>1
    <3>3. p \in Seq(Marks)
      BY <3>2 DEF SignPairs
    <3>4. p # <<>> /\ p[1] \in {"!", "<", ">"}
      BY DEF SignPairs
    <3> QED
      BY <3>3, <3>4
  <2>5. p[1] \notin SpaceChars
    BY <2>4, MarksApart DEF SignMarks
  <2> QED
    BY <1>2, <2>2, <2>3, <2>4, <2>5
<1>7. CASE IsSign(t)
  <2>1. PICK c \in SignMarks : t = Text!Token(Text!Signs[c], <<c>>)
    BY <1>7 DEF IsSign
  <2>2. t.text = <<c>> /\ t.type = Text!Signs[c]
    BY <2>1 DEF Text!Token
  <2>3. Text!Signs[c] # "STRING"
    BY DEF Text!Signs, SignMarks
  <2>4. <<c>> \in Seq(Marks) /\ <<c>> # <<>> /\ <<c>>[1] = c
    <3>1. c \in Marks
      BY DEF Marks
    <3> QED
      BY <3>1
  <2>5. c \notin SpaceChars
    BY MarksApart
  <2> QED
    BY <1>2, <2>2, <2>3, <2>4, <2>5
<1> QED
  BY <1>3, <1>4, <1>5, <1>6, <1>7 DEF Spellable

\* A piece of a text, and a mark after it.
LEMMA PieceThenMark ==
    ASSUME NEW buf \in Seq(Marks), NEW off \in Nat, NEW w \in Seq(Marks), NEW sp \in Marks,
           Len(w) >= 1, Holds(buf, off, w \o <<sp>>)
    PROVE  /\ Holds(buf, off, w) /\ off + Len(w) + 1 <= Len(buf) /\ buf[off + Len(w) + 1] = sp
           /\ buf[off + 1] = w[1] /\ SubSeq(buf, off + 1, off + Len(w)) = w
<1>1. PICK n \in Nat : n = Len(w) /\ n >= 1
  BY LenProperties
<1>2. PICK N \in Nat : N = Len(buf)
  BY LenProperties
<1>3. PICK u : u = w \o <<sp>> /\ Len(u) = n + 1
               /\ u[n + 1] = sp /\ \A j \in 1 .. n : u[j] = w[j]
  <2>1. <<sp>> \in Seq(Marks) /\ Len(<<sp>>) = 1 /\ <<sp>>[1] = sp
    OBVIOUS
  <2>2. PICK u : u = w \o <<sp>>
    OBVIOUS
  <2>3. /\ Len(u) = n + 1
        /\ \A i \in 1 .. n + 1 : u[i] = IF i <= n THEN w[i] ELSE <<sp>>[i - n]
    BY <1>1, <2>1, <2>2, ConcatProperties
  <2>4. u[n + 1] = sp
    <3>1. n + 1 \in 1 .. n + 1 /\ ~(n + 1 <= n) /\ n + 1 - n = 1
      BY <1>1
    <3>2. u[n + 1] = <<sp>>[n + 1 - n]
      BY <2>3, <3>1
    <3> QED
      BY <2>1, <3>1, <3>2
  <2>5. \A j \in 1 .. n : u[j] = w[j]
    BY <1>1, <2>3
  <2> QED
    BY <2>2, <2>3, <2>4, <2>5
<1>4. off + (n + 1) <= N /\ \A j \in 1 .. n + 1 : buf[off + j] = u[j]
  BY <1>2, <1>3 DEF Holds
<1>5. Holds(buf, off, w)
  <2>1. off + n <= N
    BY <1>1, <1>2, <1>4
  <2>2. \A j \in 1 .. n : buf[off + j] = w[j]
    BY <1>1, <1>3, <1>4
  <2> QED
    BY <1>1, <1>2, <2>1, <2>2 DEF Holds
<1>6. off + n + 1 <= N /\ buf[off + n + 1] = sp
  <2>1. n + 1 \in 1 .. n + 1 /\ off + (n + 1) = off + n + 1
    BY <1>1
  <2>2. buf[off + (n + 1)] = sp
    BY <1>3, <1>4, <2>1
  <2> QED
    BY <1>4, <2>1, <2>2
<1>7. buf[off + 1] = w[1]
  <2>1. 1 \in 1 .. n /\ 1 \in 1 .. n + 1
    BY <1>1
  <2> QED
    BY <1>3, <1>4, <2>1
<1>8. SubSeq(buf, off + 1, off + Len(w)) = w
  BY <1>5, HoldsRead
<1> QED
  BY <1>1, <1>2, <1>5, <1>6, <1>7, <1>8

\* A run of characters of a class ends before a mark that is not of it.
LEMMA RunReads ==
    ASSUME NEW buf \in Seq(Marks), NEW off \in Nat, NEW sp \in Marks, NEW first, NEW class,
           NEW w, OfClass(w, first, class), sp \notin class, Holds(buf, off, w \o <<sp>>)
    PROVE  /\ Len(w) >= 1 /\ off + 1 \in 1 .. Len(buf) /\ buf[off + 1] \in first
           /\ Text!EndOf(buf, off + 1, class) = off + 1 + Len(w)
           /\ SubSeq(buf, off + 1, Text!EndOf(buf, off + 1, class) - 1) = w
<1>1. w \in Seq(Marks) /\ w # <<>> /\ w[1] \in first /\ \A j \in 1 .. Len(w) : w[j] \in class
  BY DEF OfClass
<1>2. PICK n \in Nat : n = Len(w) /\ n >= 1
  <2>1. Len(w) \in Nat /\ Len(w) # 0
    BY <1>1, LenProperties, EmptySeq
  <2> QED
    BY <2>1
<1>3. PICK N \in Nat : N = Len(buf)
  BY LenProperties
<1>4. /\ Holds(buf, off, w) /\ off + n + 1 <= N /\ buf[off + n + 1] = sp
      /\ buf[off + 1] = w[1] /\ SubSeq(buf, off + 1, off + n) = w
  <2>1. w \in Seq(Marks) /\ Len(w) >= 1
    BY <1>1, <1>2
  <2>2. /\ Holds(buf, off, w) /\ off + Len(w) + 1 <= Len(buf) /\ buf[off + Len(w) + 1] = sp
        /\ buf[off + 1] = w[1] /\ SubSeq(buf, off + 1, off + Len(w)) = w
    BY <2>1, PieceThenMark
  <2> QED
    BY <1>2, <1>3, <2>2
<1>5. off + 1 \in 1 .. N /\ off + 1 \in 1 .. N + 1
  <2>1. off + n + 1 <= N
    BY <1>4
  <2> QED
    BY <1>2, <2>1
<1>6. PICK e \in Nat : e = off + 1 + n
  BY <1>2
<1>7. EndsAt(buf, off + 1, class, e)
  <2>1. e \in off + 1 .. N + 1
    BY <1>2, <1>3, <1>4, <1>6
  <2>2. ASSUME NEW j \in off + 1 .. e - 1 PROVE buf[j] \in class
    <3>1. PICK x \in 1 .. n : off + x = j
      <4>1. j - off \in 1 .. n /\ off + (j - off) = j
        BY <1>2, <1>6
      <4> QED
        BY <4>1
    <3>2. buf[off + x] = w[x]
      BY <1>2, <1>4, <3>1 DEF Holds
    <3> QED
      BY <1>1, <1>2, <3>1, <3>2
  <2>3. buf[e] \notin class
    <3>1. e = off + n + 1
      BY <1>2, <1>6
    <3> QED
      BY <1>4, <3>1
  <2> QED
    BY <1>3, <2>1, <2>2, <2>3 DEF EndsAt
<1>8. Text!EndOf(buf, off + 1, class) = e
  BY <1>3, <1>5, <1>7, EndIs
<1>9. e - 1 = off + n
  BY <1>2, <1>6
<1> QED
  BY <1>1, <1>2, <1>3, <1>4, <1>5, <1>6, <1>8, <1>9

\* A token is read from its text, with a space after it, as what it was.
ReadsAs(t, buf, off) ==
    /\ off + 1 \in 1 .. Len(buf) /\ buf[off + 1] \notin SpaceChars
    /\ Text!TokenAt(buf, off + 1) = [token |-> t, next |-> off + 1 + Len(Text!Spelled(t))]

LEMMA LiteralReads ==
    ASSUME Text!CharAssumption, NEW val \in Seq(Marks), NEW buf \in Seq(Marks), NEW off \in Nat,
           Holds(buf, off, Text!Spelled(Text!Token("STRING", val)))
    PROVE  ReadsAs(Text!Token("STRING", val), buf, off)
<1>1. PICK t : t = Text!Token("STRING", val) /\ t.type = "STRING" /\ t.text = val
  BY DEF Text!Token
<1>2. PICK e \in Seq(Marks) : e = Text!Escaped(val)
  BY EscapedIs
<1>3. PICK q \in Seq(Marks) : q = <<"'">> /\ Len(q) = 1 /\ q[1] = "'"
  <2>1. "'" \in Marks
    BY DEF Marks
  <2>2. <<"'">> \in Seq(Marks) /\ Len(<<"'">>) = 1 /\ <<"'">>[1] = "'"
    BY <2>1
  <2> QED
    BY <2>2
<1>4. PICK a \in Seq(Marks) : a = q \o e
  BY ConcatProperties
<1>5. PICK w \in Seq(Marks) : w = a \o q
  BY ConcatProperties
<1>6. Text!Spelled(t) = w
  BY <1>1, <1>2, <1>3, <1>4, <1>5 DEF Text!Spelled
<1>7. PICK n \in Nat : n = Len(e)
  BY LenProperties
<1>8. Len(a) = n + 1 /\ Len(w) = n + 2
  <2>1. Len(a) = Len(q) + Len(e)
    BY <1>4, ConcatProperties
  <2>2. Len(w) = Len(a) + Len(q)
    BY <1>5, ConcatProperties
  <2> QED
    BY <1>3, <1>7, <2>1, <2>2
<1>9. PICK N \in Nat : N = Len(buf)
  BY LenProperties
<1>10. Holds(buf, off, w)
  BY <1>1, <1>6
<1>11. off + (n + 2) <= N
  BY <1>8, <1>9, <1>10 DEF Holds
<1>12. Holds(buf, off + 1, e)
  <2>1. Holds(a, 1, e)
    BY <1>3, <1>4, HoldsLast
  <2>2. Holds(w, 1, e)
    BY <1>5, <2>1, HoldsMore
  <2> QED
    BY <1>9, <1>10, <2>2, HoldsPiece
<1>13. buf[off + 1] = "'"
  <2>1. Holds(q, 0, q)
    BY <1>3 DEF Holds
  <2>2. Holds(a, 0, q)
    BY <1>4, <2>1, HoldsMore
  <2>3. Holds(w, 0, q)
    BY <1>5, <2>2, HoldsMore
  <2>4. Holds(buf, off + 0, q)
    BY <1>9, <1>10, <2>3, HoldsPiece
  <2>5. off + 0 = off
    OBVIOUS
  <2>6. 1 \in 1 .. Len(q)
    BY <1>3
  <2> QED
    BY <1>3, <2>4, <2>5, <2>6 DEF Holds
<1>14. buf[off + 1 + n + 1] = "'"
  <2>1. Holds(w, n + 1, q)
    BY <1>5, <1>8, HoldsLast
  <2>2. Holds(buf, off + (n + 1), q)
    <3>1. PICK m \in Nat : m = n + 1
      OBVIOUS
    <3>2. Holds(w, m, q)
      BY <2>1, <3>1
    <3>3. Holds(buf, off + m, q)
      BY <1>9, <1>10, <3>2, HoldsPiece
    <3> QED
      BY <3>1, <3>3
  <2>3. 1 \in 1 .. Len(q)
    BY <1>3
  <2>4. buf[off + (n + 1) + 1] = q[1]
    BY <2>2, <2>3 DEF Holds
  <2>5. off + (n + 1) + 1 = off + 1 + n + 1
    OBVIOUS
  <2> QED
    BY <1>3, <2>4, <2>5
<1>15. Text!Quoted(buf, off + 1 + 1) = [val |-> val, end |-> off + 1 + n + 1]
  <2>1. PICK o \in Nat : o = off + 1
    OBVIOUS
  <2>2. o + n + 1 <= N
    BY <1>11, <2>1
  <2>3. Holds(buf, o, Text!Escaped(val))
    BY <1>2, <1>12, <2>1
  <2>4. o + Len(Text!Escaped(val)) + 1 <= Len(buf)
    BY <1>2, <1>7, <1>9, <2>2
  <2>5. buf[o + Len(Text!Escaped(val)) + 1] = "'"
    BY <1>2, <1>7, <1>14, <2>1
  <2>6. Text!Quoted(buf, o + 1) = [val |-> val, end |-> o + Len(Text!Escaped(val)) + 1]
    BY <2>3, <2>4, <2>5, EscapedReads
  <2> QED
    BY <1>2, <1>7, <2>1, <2>6
<1>16. off + 1 \in 1 .. N
  BY <1>11
<1>17. PICK r : r = Text!Quoted(buf, off + 1 + 1) /\ r.val = val /\ r.end = off + 1 + n + 1
                /\ r.end # 0 /\ r.end + 1 = off + 1 + (n + 2)
  BY <1>15
<1>18. Text!TokenAt(buf, off + 1) = [token |-> t, next |-> off + 1 + Len(w)]
  <2>1. Text!TokenAt(buf, off + 1) =
          IF Text!Quoted(buf, off + 1 + 1).end = 0 THEN ErrorAt(buf)
          ELSE [token |-> Text!Token("STRING", Text!Quoted(buf, off + 1 + 1).val),
                next |-> Text!Quoted(buf, off + 1 + 1).end + 1]
    BY <1>9, <1>13, <1>16, TokenAtQuote
  <2> QED
    BY <1>1, <1>8, <1>17, <2>1
<1>19. buf[off + 1] \notin SpaceChars
  BY <1>13, MarksApart
<1> QED
  BY <1>1, <1>6, <1>9, <1>16, <1>18, <1>19 DEF ReadsAs

LEMMA SpelledReads ==
    ASSUME Text!CharAssumption, NEW t, Spellable(t), NEW buf \in Seq(Marks), NEW off \in Nat,
           Holds(buf, off, Text!Spelled(t) \o <<Text!Space>>)
    PROVE  ReadsAs(t, buf, off)
<1>1. PICK w \in Seq(Marks) : w = Text!Spelled(t) /\ Len(w) >= 1 /\ w[1] \notin SpaceChars
  BY SpelledIs
<1>2. PICK sp \in Marks : sp = Text!Space /\ sp \in SpaceChars
  BY SpaceFacts
<1>3. PICK N \in Nat : N = Len(buf)
  BY LenProperties
<1>4. PICK n \in Nat : n = Len(w) /\ n >= 1
  BY <1>1, LenProperties
<1>5. Holds(buf, off, w \o <<sp>>)
  BY <1>1, <1>2
<1>6. /\ Holds(buf, off, w) /\ off + Len(w) + 1 <= Len(buf) /\ buf[off + Len(w) + 1] = sp
      /\ buf[off + 1] = w[1] /\ SubSeq(buf, off + 1, off + Len(w)) = w
  <2>1. Len(w) >= 1
    BY <1>1
  <2> QED
    BY <1>5, <2>1, PieceThenMark
<1>7. off + 1 \in 1 .. N /\ buf[off + 1] \notin SpaceChars
  <2>1. off + n + 1 <= N
    BY <1>3, <1>4, <1>6
  <2>2. off + 1 \in 1 .. N
    BY <1>4, <2>1
  <2>3. buf[off + 1] \notin SpaceChars
    BY <1>1, <1>6
  <2> QED
    BY <2>2, <2>3
<1>8. ASSUME Text!TokenAt(buf, off + 1) = [token |-> t, next |-> off + 1 + n]
      PROVE  ReadsAs(t, buf, off)
  BY <1>1, <1>3, <1>4, <1>7, <1>8 DEF ReadsAs
<1>9. CASE IsLiteral(t)
  <2>1. PICK val \in Seq(Marks) : t = Text!Token("STRING", val)
    BY <1>9 DEF IsLiteral
  <2>2. Holds(buf, off, Text!Spelled(Text!Token("STRING", val)))
    BY <1>1, <1>6, <2>1
  <2> QED
    BY <2>1, <2>2, LiteralReads
<1>10. CASE IsNumber(t)
  <2>1. OfClass(t.text, DigitChars, DigitChars \cup {"."}) /\ t = Text!NumberToken(t.text)
    BY <1>10 DEF IsNumber
  <2>2. w = t.text
    BY <1>1, <1>10 DEF IsNumber, Text!Spelled
  <2>3. sp \notin DigitChars \cup {"."}
    <3>1. "." \notin SpaceChars
      BY MarksApart DEF SignMarks
    <3> QED
      BY <1>2, <3>1, MarksApart
  <2>4. PICK class : class = DigitChars \cup {"."}
    OBVIOUS
  <2>5. /\ buf[off + 1] \in DigitChars
        /\ Text!EndOf(buf, off + 1, class) = off + 1 + Len(w)
        /\ SubSeq(buf, off + 1, Text!EndOf(buf, off + 1, class) - 1) = w
    <3>1. OfClass(w, DigitChars, class)
      BY <2>1, <2>2, <2>4
    <3>2. sp \notin class
      BY <2>3, <2>4
    <3> QED
      BY <1>5, <3>1, <3>2, RunReads
  <2>6. Text!TokenAt(buf, off + 1) =
          [token |-> Text!NumberToken(SubSeq(buf, off + 1, Text!EndOf(buf, off + 1, class) - 1)),
           next |-> Text!EndOf(buf, off + 1, class)]
    BY <1>3, <1>7, <2>4, <2>5, TokenAtDigit
  <2> QED
    BY <1>4, <1>8, <2>1, <2>2, <2>5, <2>6
<1>11. CASE IsWord(t)
  <2>1. OfClass(t.text, Letters \cup {"_"}, Text!WordChars) /\ t = Text!WordToken(t.text)
    BY <1>11 DEF IsWord
  <2>2. w = t.text
    BY <1>1, <1>11 DEF IsWord, Text!Spelled
  <2>3. sp \notin Text!WordChars
    <3>1. "_" \notin SpaceChars
      BY MarksApart
    <3> QED
      BY <1>2, <3>1, MarksApart DEF Text!WordChars
  <2>4. /\ buf[off + 1] \in Letters \cup {"_"}
        /\ Text!EndOf(buf, off + 1, Text!WordChars) = off + 1 + Len(w)
        /\ SubSeq(buf, off + 1, Text!EndOf(buf, off + 1, Text!WordChars) - 1) = w
    <3>1. OfClass(w, Letters \cup {"_"}, Text!WordChars)
      BY <2>1, <2>2
    <3>2. PICK first, class :
            /\ first = Letters \cup {"_"} /\ class = Text!WordChars
            /\ OfClass(w, first, class) /\ sp \notin class
      BY <2>3, <3>1
    <3>3. /\ buf[off + 1] \in first
          /\ Text!EndOf(buf, off + 1, class) = off + 1 + Len(w)
          /\ SubSeq(buf, off + 1, Text!EndOf(buf, off + 1, class) - 1) = w
      <4>1. OfClass(w, first, class) /\ sp \notin class
        BY <3>2
      <4> QED
        BY <1>5, <4>1, RunReads
    <3> QED
      BY <3>2, <3>3
  <2>5. Text!TokenAt(buf, off + 1) =
          [token |-> Text!WordToken(SubSeq(buf, off + 1, Text!EndOf(buf, off + 1, Text!WordChars) - 1)),
           next |-> Text!EndOf(buf, off + 1, Text!WordChars)]
    BY <1>3, <1>7, <2>4, TokenAtLetter
  <2> QED
    BY <1>4, <1>8, <2>1, <2>2, <2>4, <2>5
<1>12. DOMAIN Text!Signs = SignMarks /\ DOMAIN Text!LongSigns = SignPairs
  BY MarksApart
<1>13. PairAt(buf, off + 1) = <<buf[off + 1], buf[off + 1 + 1]>>
  <2>1. off + 1 < N
    BY <1>3, <1>4, <1>6
  <2> QED
    BY <1>3, <1>7, <2>1, PairIs
<1>14. CASE IsPair(t)
  <2>1. PICK p \in SignPairs : t = Text!Token(Text!LongSigns[p], p)
    BY <1>14 DEF IsPair
  <2>2. w = p
    <3>1. t.text = p /\ t.type = Text!LongSigns[p]
      BY <2>1 DEF Text!Token
    <3>2. Text!LongSigns[p] # "STRING"
      BY DEF Text!LongSigns, SignPairs
    <3> QED
      BY <1>1, <3>1, <3>2 DEF Text!Spelled
  <2>3. Len(p) = 2 /\ p = <<p[1], p[2]>> /\ p[1] \in {"!", "<", ">"}
    BY DEF SignPairs
  <2>4. PairAt(buf, off + 1) = p
    <3>1. 1 \in 1 .. Len(w) /\ 2 \in 1 .. Len(w)
      BY <2>2, <2>3
    <3>2. buf[off + 1] = p[1] /\ buf[off + 2] = p[2]
      BY <1>6, <2>2, <3>1 DEF Holds
    <3>3. off + 1 + 1 = off + 2
      OBVIOUS
    <3> QED
      BY <1>13, <2>3, <3>2, <3>3
  <2>5. PlainMark(buf[off + 1])
    <3>1. buf[off + 1] \in {"!", "<", ">"}
      BY <1>6, <2>2, <2>3
    <3>2. \A c \in {"!", "<", ">"} : PlainMark(c)
      BY MarksApart DEF PlainMark, SignMarks
    <3> QED
      BY <3>1, <3>2
  <2>6. Text!TokenAt(buf, off + 1) = [token |-> Text!Token(Text!LongSigns[p], p), next |-> off + 1 + 2]
    BY <1>12, <2>4, <2>5, TokenAtPair
  <2> QED
    BY <1>4, <1>8, <2>1, <2>2, <2>3, <2>6
<1>15. CASE IsSign(t)
  <2>1. PICK c \in SignMarks : t = Text!Token(Text!Signs[c], <<c>>)
    BY <1>15 DEF IsSign
  <2>2. w = <<c>>
    <3>1. t.text = <<c>> /\ t.type = Text!Signs[c]
      BY <2>1 DEF Text!Token
    <3>2. Text!Signs[c] # "STRING"
      BY DEF Text!Signs, SignMarks
    <3> QED
      BY <1>1, <3>1, <3>2 DEF Text!Spelled
  <2>3. Len(w) = 1 /\ w[1] = c /\ buf[off + 1] = c /\ buf[off + 1 + 1] = sp
    BY <1>6, <2>2
  <2>4. PairAt(buf, off + 1) \notin SignPairs
    <3>1. PairAt(buf, off + 1) = <<c, sp>>
      BY <1>13, <2>3
    <3>2. "=" \notin SpaceChars /\ ">" \notin SpaceChars
      BY MarksApart DEF SignMarks
    <3>3. sp # "=" /\ sp # ">"
      BY <1>2, <3>2
    <3>4. <<c, sp>>[2] = sp /\ \A p \in SignPairs : p[2] = "=" \/ p[2] = ">"
      BY DEF SignPairs
    <3> QED
      BY <3>1, <3>3, <3>4
  <2>5. PlainMark(buf[off + 1])
    <3>1. \A x \in SignMarks : x # "'" /\ x # "_"
      BY DEF SignMarks
    <3>2. PlainMark(c)
      BY <3>1, MarksApart DEF PlainMark
    <3> QED
      BY <2>3, <3>2
  <2>6. Text!TokenAt(buf, off + 1) = [token |-> Text!Token(Text!Signs[c], <<c>>), next |-> off + 1 + 1]
    BY <1>12, <2>3, <2>4, <2>5, TokenAtSign
  <2> QED
    BY <1>4, <1>8, <2>1, <2>3, <2>6
<1> QED
  BY <1>9, <1>10, <1>11, <1>14, <1>15 DEF Spellable

\* The tokens of a text, each as a text of its own.
TokenPieces(toks) == [k \in 1 .. Len(toks) |-> Text!Spelled(toks[k]) \o <<Text!Space>>]

LEMMA SpellIs ==
    ASSUME Text!CharAssumption, NEW T, NEW toks \in Seq(T), AllSpellable(toks)
    PROVE  /\ Len(TokenPieces(toks)) = Len(toks)
           /\ Text!Spell(toks) \in Seq(Marks)
           /\ \E at : Laid(Text!Spell(toks), TokenPieces(toks), at)
<1>1. Len(toks) \in Nat /\ DOMAIN toks = 1 .. Len(toks)
  BY LenProperties
<1>2. \A k \in 1 .. Len(toks) : Text!Spelled(toks[k]) \o <<Text!Space>> \in Seq(Marks)
  <2> SUFFICES ASSUME NEW k \in 1 .. Len(toks)
               PROVE  Text!Spelled(toks[k]) \o <<Text!Space>> \in Seq(Marks)
    OBVIOUS
  <2>1. PICK t : t = toks[k] /\ Spellable(t)
    BY DEF AllSpellable
  <2>2. PICK w \in Seq(Marks) : w = Text!Spelled(t)
    BY <2>1, SpelledIs
  <2>3. PICK sp \in Marks : sp = Text!Space
    BY SpaceFacts
  <2>4. <<sp>> \in Seq(Marks)
    OBVIOUS
  <2>5. w \o <<sp>> \in Seq(Marks)
    BY <2>4, ConcatProperties
  <2> QED
    BY <2>1, <2>2, <2>3, <2>5
<1>3. TokenPieces(toks) \in Seq(Seq(Marks)) /\ Len(TokenPieces(toks)) = Len(toks)
  <2>1. TokenPieces(toks) \in [1 .. Len(toks) -> Seq(Marks)]
    BY <1>2 DEF TokenPieces
  <2>2. DOMAIN TokenPieces(toks) = 1 .. Len(toks)
    BY DEF TokenPieces
  <2> QED
    BY <1>1, <2>1, <2>2, LenProperties, IsASeq
<1>4. Text!Spell(toks) = FlattenSeq(TokenPieces(toks))
  BY <1>1, SameTextFlatten DEF Text!Spell, TokenPieces
<1> QED
  BY <1>3, <1>4, FlattenLaid

\* A text that is spelled is read as the tokens it was spelled from.
LEMMA SpelledTokens ==
    ASSUME Text!CharAssumption, NEW T, NEW toks \in Seq(T), AllSpellable(toks)
    PROVE  Text!Tokens(Text!Spell(toks)) = toks
<1>1. PICK n \in Nat : n = Len(toks)
  BY LenProperties
<1>2. PICK buf \in Seq(Marks) : buf = Text!Spell(toks)
  BY SpellIs
<1>3. PICK L \in Nat : L = Len(buf)
  BY LenProperties
<1>4. PICK ss : ss = TokenPieces(toks) /\ Len(ss) = n
  BY <1>1, SpellIs
<1>5. PICK at : Laid(buf, ss, at)
  BY <1>2, <1>4, SpellIs
<1>6. /\ at \in [1 .. n + 1 -> Nat] /\ at[1] = 0 /\ at[n + 1] = L
      /\ \A k \in 1 .. n : at[k + 1] = at[k] + Len(ss[k]) /\ Holds(buf, at[k], ss[k])
  BY <1>3, <1>4, <1>5 DEF Laid
<1>7. PICK g : Lexes(buf, g) /\ Text!Tokens(buf) = g[1]
  BY TokensIs
<1>8. \A i \in 1 .. L + 1 : g[i] = LexStep(buf, g, i)
  BY <1>3, <1>7 DEF Lexes
<1>9. PICK sp \in Marks : sp = Text!Space /\ sp \in SpaceChars
  BY SpaceFacts
<1> DEFINE ReadOn(k) == g[at[k] + 1] = SubSeq(toks, k, n)
           Good == {k \in 1 .. n + 1 : ReadOn(k)}
<1>10. ASSUME NEW k \in 1 .. n + 1, \A j \in k + 1 .. n + 1 : j \in Good
       PROVE  k \in Good
  <2>1. CASE k = n + 1
    <3>1. L + 1 \in 1 .. L + 1 /\ at[k] + 1 = L + 1
      BY <1>3, <1>6, <2>1
    <3>2. g[L + 1] = <<>>
      BY <1>3, <1>8, <3>1 DEF LexStep
    <3>3. SubSeq(toks, k, n) = <<>>
      BY <1>1, <2>1, NoneOn
    <3> QED
      BY <3>1, <3>2, <3>3
  <2>2. CASE k # n + 1
    <3>1. k \in 1 .. n /\ k + 1 \in k + 1 .. n + 1
      BY <1>1, <2>2
    <3>2. PICK t : t = toks[k] /\ Spellable(t)
      BY <1>1, <3>1 DEF AllSpellable
    <3>3. PICK w \in Seq(Marks) : w = Text!Spelled(t) /\ Len(w) >= 1
      BY <3>2, SpelledIs
    <3>4. PICK m \in Nat : m = Len(w) /\ m >= 1
      BY <3>3, LenProperties
    <3>5. PICK piece : piece = ss[k] /\ piece = w \o <<sp>>
      BY <1>1, <1>4, <1>9, <3>1, <3>2, <3>3 DEF TokenPieces
    <3>6. Len(piece) = m + 1
      <4>1. <<sp>> \in Seq(Marks) /\ Len(<<sp>>) = 1
        OBVIOUS
      <4> QED
        BY <3>4, <3>5, <4>1, ConcatProperties
    <3>7. PICK a \in Nat : a = at[k]
      BY <1>6, <3>1
    <3>8. at[k + 1] = a + (m + 1) /\ Holds(buf, a, piece)
      BY <1>6, <3>1, <3>5, <3>6, <3>7
    <3>9. Holds(buf, a, w \o <<sp>>)
      BY <3>5, <3>8
    <3>10. ReadsAs(t, buf, a)
      <4>1. Holds(buf, a, Text!Spelled(t) \o <<Text!Space>>)
        BY <1>9, <3>3, <3>9
      <4> QED
        BY <3>2, <4>1, SpelledReads
    <3>11. PICK i \in 1 .. L : i = a + 1
      BY <1>3, <3>10 DEF ReadsAs
    <3>12. /\ buf[i] \notin SpaceChars /\ i # L + 1
           /\ Text!TokenAt(buf, i).token = t /\ Text!TokenAt(buf, i).next = i + m
      <4>1. Text!TokenAt(buf, i) = [token |-> t, next |-> i + m]
        BY <3>3, <3>4, <3>10, <3>11 DEF ReadsAs
      <4>2. buf[i] \notin SpaceChars
        BY <3>10, <3>11 DEF ReadsAs
      <4>3. i # L + 1
        BY <1>3
      <4> QED
        BY <4>1, <4>2, <4>3
    <3>13. a + m + 1 <= L /\ buf[a + m + 1] = sp
      <4>1. Len(w) >= 1
        BY <3>3
      <4>2. a + Len(w) + 1 <= Len(buf) /\ buf[a + Len(w) + 1] = sp
        <5>1. /\ Holds(buf, a, w) /\ a + Len(w) + 1 <= Len(buf) /\ buf[a + Len(w) + 1] = sp
              /\ buf[a + 1] = w[1] /\ SubSeq(buf, a + 1, a + Len(w)) = w
          BY <3>9, <4>1, PieceThenMark
        <5> QED
          BY <5>1
      <4> QED
        BY <1>3, <3>4, <4>2
    <3>14. PICK next \in 1 .. L : next = i + m /\ next = a + m + 1
      <4>1. i + m = a + m + 1 /\ i + m \in 1 .. L
        BY <1>3, <3>4, <3>11, <3>13
      <4> QED
        BY <4>1
    <3>15. g[next] = g[next + 1]
      <4>1. buf[next] \in SpaceChars /\ next \in 1 .. L + 1 /\ next # L + 1
        BY <1>3, <1>9, <3>13, <3>14
      <4> QED
        BY <1>3, <1>8, <4>1 DEF LexStep
    <3>16. PICK v : v = SubSeq(toks, k + 1, n)
      OBVIOUS
    <3>17. g[next + 1] = v
      <4>1. ReadOn(k + 1)
        BY <1>10, <3>1
      <4>2. next + 1 = at[k + 1] + 1
        <5>1. PICK b : b = at[k + 1] /\ b = a + (m + 1)
          BY <3>8
        <5>2. next = b
          BY <3>4, <3>14, <5>1
        <5> QED
          BY <5>1, <5>2
      <4> QED
        BY <3>16, <4>1, <4>2
    <3>18. Text!Fail[1] \notin {t} \cup Text!Range(v)
      <4>1. t # Text!Fail[1]
        BY <3>2, SpellableIsNoError
      <4>2. ASSUME NEW x \in DOMAIN v PROVE v[x] # Text!Fail[1]
        <5>1. PICK j \in 1 .. n : v[x] = toks[j]
          BY <1>1, <3>1, <3>16, FromOn
        <5>2. PICK u : u = toks[j] /\ Spellable(u)
          BY <1>1 DEF AllSpellable
        <5> QED
          BY <5>1, <5>2, SpellableIsNoError
      <4> QED
        BY <4>1, <4>2 DEF Text!Range
    <3>19. g[i] = <<t>> \o v
      <4>1. g[Text!TokenAt(buf, i).next] = v
        BY <3>12, <3>14, <3>15, <3>17
      <4>2. i \in 1 .. L + 1
        BY <1>3
      <4> QED
        BY <1>3, <1>8, <3>12, <3>18, <4>1, <4>2 DEF LexStep
    <3>20. <<t>> \o v = SubSeq(toks, k, n)
      BY <1>1, <3>1, <3>2, <3>16, FromOn
    <3> QED
      BY <3>7, <3>11, <3>19, <3>20
  <2> QED
    BY <2>1, <2>2
<1>11. 1 \in Good
  <2>1. 1 \in Nat /\ n + 1 \in Nat
    BY <1>1
  <2>2. 1 .. n + 1 \subseteq Good
    <3> HIDE DEF Good
    <3> QED
      BY <1>10, <2>1, BackToFront
  <2>3. 1 \in 1 .. n + 1
    BY <1>1
  <2> QED
    BY <2>2, <2>3
<1>12. SubSeq(toks, 1, n) = toks
  BY <1>1, SubSeqFull
<1>13. at[1] + 1 = 1
  BY <1>6
<1> QED
  BY <1>2, <1>7, <1>11, <1>12, <1>13

\* Every text and number a token can hold can be written again, and is read back
\* from that, quotes and backslashes of a literal among them (sql_lexer.h:44).
THEOREM TokensReadBack ==
    ASSUME Text!CharAssumption
    PROVE  Text!Spec => []ReadBack
<1> DEFINE TInv == typed \in Seq(Marks)
<1>1. Text!Init => TInv
  BY EmptySeq DEF Text!Init
<1>2. TInv /\ [Text!Next]_(Text!vars) => TInv'
  <2> SUFFICES ASSUME typed \in Seq(Marks), [Text!Next]_(Text!vars) PROVE typed' \in Seq(Marks)
    OBVIOUS
  <2>1. CASE Text!Next
    <3>1. PICK c \in Text!Chars : typed' = Append(typed, c)
      BY <2>1 DEF Text!Next
    <3>2. c \in Marks
      BY DEF Marks
    <3> QED
      BY <3>1, <3>2, AppendProperties
  <2>2. CASE UNCHANGED Text!vars
    BY <2>2 DEF Text!vars
  <2> QED
    BY <2>1, <2>2
<1>3. TInv => ReadBack
  <2> SUFFICES ASSUME typed \in Seq(Marks), Text!Tokens(typed) # Text!Fail
               PROVE  Text!Tokens(Text!Spell(Text!Tokens(typed))) = Text!Tokens(typed)
    BY DEF ReadBack, Text!ReadBack
  <2>1. PICK g : Lexes(typed, g) /\ Text!Tokens(typed) = g[1]
    BY TokensIs
  <2>2. 1 \in 1 .. Len(typed) + 1
    BY LenProperties
  <2>3. PICK toks \in Seq(TokensOf(typed)) : toks = Text!Tokens(typed) /\ AllSpellable(toks)
    BY <2>1, <2>2, LexedIsSpellable
  <2> QED
    BY <2>3, SpelledTokens
<1> QED
  BY <1>1, <1>2, <1>3, PTL DEF Text!Spec
=============================================================================
