---------------------------- MODULE FlvWriter_proofs ----------------------------
(***************************************************************************)
(* Proofs about the FLV files of srs-librtmp, for any files, descriptors,  *)
(* lengths of headers, tags and disk: what was written before the first    *)
(* short or failed write() is what a reader gets, and no descriptor is     *)
(* lost.                                                                   *)
(***************************************************************************)
EXTENDS FlvWriter, SequenceTheorems, FiniteSetTheorems, TLAPS

-------------------------------------------------------------------------------
LEMMA Least ==
  ASSUME NEW T, T \subseteq Nat, T # {}
  PROVE  \E x \in T : \A y \in T : x <= y
<1>1. IsWellFoundedOn(OpToRel(<, Nat), Nat)
  BY NatLessThanWellFounded
<1>2. PICK x \in T : \A y \in T : ~(<<y, x>> \in OpToRel(<, Nat))
  BY <1>1, WFMin
<1>3. ASSUME NEW y \in T PROVE x <= y
  <2>1. x \in Nat /\ y \in Nat
    OBVIOUS
  <2>2. ~(y < x)
    BY <1>2, <2>1 DEF OpToRel
  <2> QED  BY <2>1, <2>2
<1> QED  BY <1>3

-------------------------------------------------------------------------------
(* The decoder.  Positions come after one another, so TagsFrom is defined  *)
(* at each of them.                                                        *)
Pos == Nat \ {0}
Parts == {"flv", "head", "data", "size"}
Cell == [tag : Nat, part : Parts, says : Nat, at : Nat]
Tag == [tag : Nat, len : Nat]

IsTag(d, p) ==
  /\ HeadAt(d, p)
  /\ p + HeadLen + LenAt(d, p) <= Len(d)
  /\ DataAt(d, p + HeadLen, TagAt(d, p), LenAt(d, p))

After(d, p) == p + HeadLen + LenAt(d, p) + SizeLen

(* What the decoder gets at p when it gets f[q] at each later q.           *)
Step(d, f, p) ==
  IF IsTag(d, p) THEN <<[tag |-> TagAt(d, p), len |-> LenAt(d, p)]>> \o f[After(d, p)] ELSE <<>>

LEMMA Unfold ==
  ASSUME NEW d
  PROVE  TagsFrom(d) = CHOOSE f : f = [p \in Pos |-> Step(d, f, p)]
BY DEF TagsFrom, Step, IsTag, After, Pos

(* A tag begins within the file and ends after its first cell.             *)
LEMMA TagBounds ==
  ASSUME NEW d \in Seq(Cell), NEW p \in Pos, IsTag(d, p)
  PROVE  /\ p <= Len(d) /\ d[p] \in Cell
         /\ TagAt(d, p) \in Nat /\ LenAt(d, p) \in Nat
         /\ After(d, p) \in Pos /\ After(d, p) > p
<1>1. HeadLen \in Nat \ {0} /\ SizeLen \in Nat \ {0} /\ Len(d) \in Nat /\ p \in Nat \ {0}
  BY WriterAssumption DEF Pos
<1>2. p + HeadLen - 1 <= Len(d)
  BY DEF IsTag, HeadAt
<1>3. p <= Len(d)
  BY <1>1, <1>2
<1>4. d[p] \in Cell
  BY <1>1, <1>3, ElementOfSeq
<1>5. TagAt(d, p) \in Nat /\ LenAt(d, p) \in Nat
  BY <1>4 DEF TagAt, LenAt, Cell
<1>6. After(d, p) \in Pos /\ After(d, p) > p
  BY <1>1, <1>5 DEF After, Pos
<1> QED  BY <1>3, <1>4, <1>5, <1>6

(* Functions that are right for the last m positions exist for each m.     *)
RightFor(d, f, m) ==
  /\ f = [p \in Pos |-> f[p]]
  /\ \A p \in Pos : p + m > Len(d) => f[p] = Step(d, f, p)

LEMMA Extend ==
  ASSUME NEW d \in Seq(Cell), NEW m \in Nat, NEW f, RightFor(d, f, m)
  PROVE  \E g : RightFor(d, g, m + 1)
<1> DEFINE p0 == Len(d) - m
           g == [p \in Pos |-> IF p = p0 THEN Step(d, f, p) ELSE f[p]]
<1>1. Len(d) \in Nat
  OBVIOUS
<1>2. ASSUME NEW p \in Pos, p + (m + 1) > Len(d) PROVE g[p] = Step(d, g, p)
  <2>1. p \in Nat \ {0} /\ p >= p0
    BY <1>1, <1>2 DEF Pos
  <2>2. g[p] = Step(d, f, p)
    <3>1. CASE p = p0
      BY <3>1
    <3>2. CASE p # p0
      <4>1. p + m > Len(d)
        BY <1>1, <2>1, <3>2
      <4> QED  BY <3>2, <4>1 DEF RightFor
    <3> QED  BY <3>1, <3>2
  <2>3. IsTag(d, p) => g[After(d, p)] = f[After(d, p)]
    <3> SUFFICES ASSUME IsTag(d, p) PROVE g[After(d, p)] = f[After(d, p)]
      OBVIOUS
    <3>1. After(d, p) \in Pos /\ After(d, p) > p
      BY TagBounds
    <3>2. After(d, p) # p0
      BY <1>1, <2>1, <3>1 DEF Pos
    <3> QED  BY <3>1, <3>2
  <2>4. Step(d, g, p) = Step(d, f, p)
    <3> HIDE DEF g
    <3> QED  BY <2>3 DEF Step
  <2> QED  BY <2>2, <2>4
<1>3. g = [p \in Pos |-> g[p]]
  OBVIOUS
<1>4. RightFor(d, g, m + 1)
  <2> HIDE DEF g
  <2> QED  BY <1>2, <1>3 DEF RightFor
<1> QED  BY <1>4

LEMMA Start ==
  ASSUME NEW d \in Seq(Cell)
  PROVE  \E g : RightFor(d, g, 0)
<1> DEFINE g == [p \in Pos |-> <<>>]
<1>1. ASSUME NEW p \in Pos, p + 0 > Len(d) PROVE g[p] = Step(d, g, p)
  <2>1. p \in Nat /\ Len(d) \in Nat
    BY DEF Pos
  <2>2. ~IsTag(d, p)
    BY <1>1, <2>1, TagBounds
  <2> QED  BY <2>2 DEF Step
<1>2. g = [p \in Pos |-> g[p]]
  OBVIOUS
<1>3. RightFor(d, g, 0)
  <2> HIDE DEF g
  <2> QED  BY <1>1, <1>2 DEF RightFor
<1> QED  BY <1>3

LEMMA RightExists ==
  ASSUME NEW d \in Seq(Cell), NEW n \in Nat
  PROVE  \E g : RightFor(d, g, n)
<1> DEFINE T == {k \in Nat : ~\E g : RightFor(d, g, k)}
<1>1. T = {}
  <2> SUFFICES ASSUME T # {} PROVE FALSE
    OBVIOUS
  <2>1. PICK x \in T : \A y \in T : x <= y
    <3> HIDE DEF T
    <3>1. T \subseteq Nat
      BY DEF T
    <3> QED  BY <3>1, Least
  <2>2. CASE x = 0
    BY <2>2, Start
  <2>3. CASE x # 0
    <3>1. x - 1 \in Nat /\ x - 1 < x /\ x = (x - 1) + 1
      BY <2>3
    <3>2. \E g : RightFor(d, g, x - 1)
      BY <2>1, <3>1
    <3>3. PICK g : RightFor(d, g, x - 1)
      BY <3>2
    <3>4. \E h : RightFor(d, h, (x - 1) + 1)
      BY <3>1, <3>3, Extend
    <3> QED  BY <3>1, <3>4
  <2> QED  BY <2>2, <2>3
<1> QED  BY <1>1

(* The decoder's equation.                                                 *)
LEMMA Decode ==
  ASSUME NEW d \in Seq(Cell), NEW p \in Pos
  PROVE  TagsFrom(d)[p] = Step(d, TagsFrom(d), p)
<1>1. PICK g : RightFor(d, g, Len(d))
  BY RightExists
<1>2. \A k \in Pos : g[k] = Step(d, g, k)
  <2> TAKE k \in Pos
  <2>1. k + Len(d) > Len(d)
    BY DEF Pos
  <2> QED  BY <1>1, <2>1 DEF RightFor
<1>3. g = [k \in Pos |-> Step(d, g, k)]
  BY <1>1, <1>2 DEF RightFor
<1>4. TagsFrom(d) = [k \in Pos |-> Step(d, TagsFrom(d), k)]
  BY <1>3, Unfold
<1> QED  BY <1>4

LEMMA TagsFromType ==
  ASSUME NEW d \in Seq(Cell), NEW p \in Pos
  PROVE  TagsFrom(d)[p] \in Seq(Tag)
<1> DEFINE Bad(k) == k \in Pos /\ TagsFrom(d)[k] \notin Seq(Tag)
           T == {m \in Nat : \E k \in Pos : k + m >= Len(d) /\ Bad(k)}
<1>1. Len(d) \in Nat
  OBVIOUS
<1>2. T = {}
  <2> SUFFICES ASSUME T # {} PROVE FALSE
    OBVIOUS
  <2>1. PICK m \in T : \A y \in T : m <= y
    <3>1. T \subseteq Nat
      OBVIOUS
    <3> HIDE DEF T
    <3> QED  BY <3>1, Least
  <2>2. PICK k \in Pos : k + m >= Len(d) /\ Bad(k)
    BY <2>1
  <2>3. TagsFrom(d)[k] = Step(d, TagsFrom(d), k)
    BY <2>2, Decode
  <2>4. CASE ~IsTag(d, k)
    <3>1. TagsFrom(d)[k] = <<>>
      BY <2>3, <2>4 DEF Step
    <3> QED  BY <2>2, <3>1, EmptySeq
  <2>5. CASE IsTag(d, k)
    <3>1. /\ TagAt(d, k) \in Nat /\ LenAt(d, k) \in Nat
          /\ After(d, k) \in Pos /\ After(d, k) > k /\ k <= Len(d)
      BY <2>2, <2>5, TagBounds
    <3> DEFINE q == After(d, k)
    <3>2. TagsFrom(d)[k] = <<[tag |-> TagAt(d, k), len |-> LenAt(d, k)]>> \o TagsFrom(d)[q]
      BY <2>3, <2>5 DEF Step
    <3>3. <<[tag |-> TagAt(d, k), len |-> LenAt(d, k)]>> \in Seq(Tag)
      BY <3>1 DEF Tag
    <3>4. TagsFrom(d)[q] \notin Seq(Tag)
      BY <2>2, <3>2, <3>3, ConcatProperties
    <3>5. Bad(q)
      BY <3>1, <3>4
    <3>6. CASE m = 0
      <4>1. q + 0 >= Len(d) /\ k + 0 >= Len(d) /\ q > Len(d)
        BY <1>1, <2>2, <3>1, <3>6 DEF Pos
      <4>2. ~IsTag(d, q)
        <5>1. q \in Nat
          BY <3>1 DEF Pos
        <5> QED  BY <1>1, <3>1, <4>1, <5>1, TagBounds
      <4>3. TagsFrom(d)[q] = <<>>
        BY <3>1, <4>2, Decode DEF Step
      <4> QED  BY <3>4, <4>3, EmptySeq
    <3>7. CASE m # 0
      <4>1. m \in Nat /\ m - 1 \in Nat /\ m - 1 < m
        BY <2>1, <3>7
      <4>2. q + (m - 1) >= Len(d)
        <5>1. q \in Nat /\ k \in Nat
          BY <2>2, <3>1 DEF Pos
        <5> QED  BY <1>1, <2>2, <3>1, <4>1, <5>1
      <4>3. m - 1 \in T
        BY <3>1, <3>5, <4>1, <4>2
      <4>4. m <= m - 1
        BY <2>1, <4>3
      <4> QED  BY <4>1, <4>4
    <3> QED  BY <3>6, <3>7
  <2> QED  BY <2>4, <2>5
<1>3. p + Len(d) >= Len(d) /\ p \in Pos
  BY <1>1 DEF Pos
<1>4. Len(d) \notin T
  BY <1>2
<1>5. ~Bad(p)
  BY <1>1, <1>3, <1>4
<1> QED  BY <1>5

-------------------------------------------------------------------------------
(* What the calls write.                                                   *)
LEMMA Antisymmetric ==
  ASSUME NEW a \in Nat, NEW b \in Nat, a <= b, b <= a
  PROVE  a = b
OBVIOUS

LEMMA CellsType ==
  ASSUME NEW tag \in Nat, NEW part \in Parts, NEW says \in Nat, NEW n \in Nat
  PROVE  /\ Cells(tag, part, says, n) \in Seq(Cell)
         /\ Len(Cells(tag, part, says, n)) = n
         /\ \A k \in 1..n :
              Cells(tag, part, says, n)[k] = [tag |-> tag, part |-> part, says |-> says, at |-> k]
<1> DEFINE c == Cells(tag, part, says, n)
<1>1. c = [k \in 1..n |-> [tag |-> tag, part |-> part, says |-> says, at |-> k]]
  BY DEF Cells
<1>2. c \in [1..n -> Cell]
  BY <1>1 DEF Cell
<1>3. c \in Seq(Cell)
  BY <1>2, SeqDef
<1>4. Len(c) = n
  <2>1. DOMAIN c = 1..n
    BY <1>1
  <2>2. DOMAIN c = 1..Len(c) /\ Len(c) \in Nat
    BY <1>3, LenProperties
  <2>3. 1..n = 1..Len(c)
    BY <2>1, <2>2
  <2> HIDE DEF c
  <2>4. n <= Len(c) /\ Len(c) <= n
    <3>1. n # 0 => n \in 1..Len(c)
      <4>1. n # 0 => n \in 1..n
        OBVIOUS
      <4> QED  BY <2>3, <4>1
    <3>2. Len(c) # 0 => Len(c) \in 1..n
      <4>1. Len(c) # 0 => Len(c) \in 1..Len(c)
        BY <2>2
      <4> QED  BY <2>3, <4>1
    <3>3. n \in Nat /\ Len(c) \in Nat
      BY <2>2
    <3>4. n <= Len(c)
      BY <3>1, <3>3
    <3>5. Len(c) <= n
      BY <3>2, <3>3
    <3> QED  BY <3>4, <3>5
  <2> QED  BY <2>2, <2>4, Antisymmetric
<1> QED  BY <1>1, <1>3, <1>4

LEMMA Associative ==
  ASSUME NEW S, NEW a \in Seq(S), NEW b \in Seq(S), NEW c \in Seq(S),
         NEW ab, ab = a \o b, NEW bc, bc = b \o c
  PROVE  ab \o c = a \o bc
<1>1. (a \o b) \o c = a \o (b \o c)
  BY ConcatAssociative, SMTT(30)
<1> QED  BY <1>1

HeadOf(tag, len) == Cells(tag, "head", DataSize(len), HeadLen)
DataOf(tag, len) == Cells(tag, "data", 0, len)
SizeOf(tag) == Cells(tag, "size", 0, SizeLen)

(* Written d0, then a tag's header, then its data, then the rest.          *)
Begun(d0, tag, len) == d0 \o HeadOf(tag, len)
Filled(d0, tag, len) == Begun(d0, tag, len) \o DataOf(tag, len)
Ended(d0, tag, len) == Filled(d0, tag, len) \o SizeOf(tag)

LEMMA HeadType ==
  ASSUME NEW tag \in Nat, NEW len \in DataLens
  PROVE  HeadOf(tag, len) \in Seq(Cell) /\ Len(HeadOf(tag, len)) = HeadLen
<1>1. HeadLen \in Nat /\ len \in Nat /\ "head" \in Parts
  BY WriterAssumption DEF Parts
<1>2. /\ Cells(tag, "head", len, HeadLen) \in Seq(Cell)
      /\ Len(Cells(tag, "head", len, HeadLen)) = HeadLen
  BY <1>1, CellsType
<1> QED  BY <1>2 DEF HeadOf, DataSize

LEMMA DataType ==
  ASSUME NEW tag \in Nat, NEW len \in DataLens
  PROVE  DataOf(tag, len) \in Seq(Cell) /\ Len(DataOf(tag, len)) = len
<1>1. len \in Nat /\ 0 \in Nat /\ "data" \in Parts
  BY WriterAssumption DEF Parts
<1>2. Cells(tag, "data", 0, len) \in Seq(Cell) /\ Len(Cells(tag, "data", 0, len)) = len
  BY <1>1, CellsType
<1> QED  BY <1>2 DEF DataOf

LEMMA SizeType ==
  ASSUME NEW tag \in Nat
  PROVE  SizeOf(tag) \in Seq(Cell) /\ Len(SizeOf(tag)) = SizeLen
<1>1. SizeLen \in Nat /\ 0 \in Nat /\ "size" \in Parts
  BY WriterAssumption DEF Parts
<1>2. Cells(tag, "size", 0, SizeLen) \in Seq(Cell) /\ Len(Cells(tag, "size", 0, SizeLen)) = SizeLen
  BY <1>1, CellsType
<1> QED  BY <1>2 DEF SizeOf

LEMMA BegunType ==
  ASSUME NEW d0 \in Seq(Cell), NEW tag \in Nat, NEW len \in DataLens
  PROVE  /\ Begun(d0, tag, len) \in Seq(Cell)
         /\ Len(Begun(d0, tag, len)) = Len(d0) + HeadLen
BY HeadType, ConcatProperties DEF Begun

LEMMA FilledType ==
  ASSUME NEW d0 \in Seq(Cell), NEW tag \in Nat, NEW len \in DataLens
  PROVE  /\ Filled(d0, tag, len) \in Seq(Cell)
         /\ Len(Filled(d0, tag, len)) = Len(d0) + HeadLen + len
<1>1. /\ Begun(d0, tag, len) \in Seq(Cell)
      /\ Len(Begun(d0, tag, len)) = Len(d0) + HeadLen
  BY BegunType
<1>2. DataOf(tag, len) \in Seq(Cell) /\ Len(DataOf(tag, len)) = len
  BY DataType
<1> QED  BY <1>1, <1>2, ConcatProperties DEF Filled

LEMMA EndedType ==
  ASSUME NEW d0 \in Seq(Cell), NEW tag \in Nat, NEW len \in DataLens
  PROVE  /\ Ended(d0, tag, len) \in Seq(Cell)
         /\ Len(Ended(d0, tag, len)) = Len(d0) + HeadLen + len + SizeLen
<1>1. /\ Filled(d0, tag, len) \in Seq(Cell)
      /\ Len(Filled(d0, tag, len)) = Len(d0) + HeadLen + len
  BY FilledType
<1>2. SizeOf(tag) \in Seq(Cell) /\ Len(SizeOf(tag)) = SizeLen
  BY SizeType
<1> QED  BY <1>1, <1>2, ConcatProperties DEF Ended

-------------------------------------------------------------------------------
(* What the decoder reads of that.                                         *)
LEMMA ReadsHead ==
  ASSUME NEW d0 \in Seq(Cell), NEW tag \in Nat, NEW len \in DataLens, NEW x \in Seq(Cell)
  PROVE  LET D == Begun(d0, tag, len) \o x
             q == Len(d0) + 1
         IN  HeadAt(D, q) /\ TagAt(D, q) = tag /\ LenAt(D, q) = len
<1> DEFINE D == Begun(d0, tag, len) \o x
           q == Len(d0) + 1
           h == HeadOf(tag, len)
<1>1. HeadLen \in Nat \ {0} /\ len \in Nat /\ Len(d0) \in Nat /\ Len(x) \in Nat
  BY WriterAssumption
<1>2. /\ h \in Seq(Cell) /\ Len(h) = HeadLen
      /\ \A k \in 1..HeadLen : h[k] = [tag |-> tag, part |-> "head", says |-> len, at |-> k]
  <2>2. \A k \in 1..HeadLen :
          Cells(tag, "head", len, HeadLen)[k] = [tag |-> tag, part |-> "head", says |-> len, at |-> k]
    BY DEF Cells
  <2> QED  BY <2>2, HeadType DEF HeadOf, DataSize
<1>3. /\ Begun(d0, tag, len) \in Seq(Cell) /\ Len(Begun(d0, tag, len)) = Len(d0) + HeadLen
      /\ Begun(d0, tag, len) = d0 \o h
  BY BegunType DEF Begun
<1>4. D \in Seq(Cell) /\ Len(D) = Len(d0) + HeadLen + Len(x)
  BY <1>1, <1>3, ConcatProperties
<1>5. \A k \in 1..HeadLen : D[q + k - 1] = [tag |-> tag, part |-> "head", says |-> len, at |-> k]
  <2> TAKE k \in 1..HeadLen
  <2> DEFINE i == Len(d0) + k
  <2>1. /\ q + k - 1 = i /\ i \in 1..(Len(d0) + HeadLen) /\ i > Len(d0) /\ i - Len(d0) = k
        /\ i \in 1..(Len(d0) + HeadLen + Len(x))
    BY <1>1
  <2>2. D[i] = Begun(d0, tag, len)[i]
    BY <1>3, <2>1, ConcatProperties
  <2>3. Begun(d0, tag, len)[i] = h[i - Len(d0)]
    BY <1>1, <1>2, <1>3, <2>1, ConcatProperties
  <2> QED  BY <1>2, <2>1, <2>2, <2>3
<1>6. D[q] = [tag |-> tag, part |-> "head", says |-> len, at |-> 1]
  <2>1. 1 \in 1..HeadLen /\ q + 1 - 1 = q
    BY <1>1
  <2> HIDE DEF D, q
  <2> QED  BY <1>5, <2>1
<1>7. q + HeadLen - 1 <= Len(D)
  BY <1>1, <1>4
<1> QED
  <2> HIDE DEF D, q
  <2>1. TagAt(D, q) = tag /\ LenAt(D, q) = len
    BY <1>6 DEF TagAt, LenAt
  <2>2. ASSUME NEW k \in 1..HeadLen
        PROVE  D[q + k - 1].part = "head" /\ D[q + k - 1].at = k /\ D[q + k - 1].tag = tag
    <3>1. D[q + k - 1] = [tag |-> tag, part |-> "head", says |-> len, at |-> k]
      BY <1>5
    <3> QED  BY ONLY <3>1
  <2>3. HeadAt(D, q)
    BY <1>7, <2>1, <2>2 DEF HeadAt
  <2> QED  BY <2>1, <2>3 DEF D, q

LEMMA ReadsData ==
  ASSUME NEW d0 \in Seq(Cell), NEW tag \in Nat, NEW len \in DataLens, NEW x \in Seq(Cell)
  PROVE  DataAt(Filled(d0, tag, len) \o x, Len(d0) + 1 + HeadLen, tag, len)
<1> DEFINE D == Filled(d0, tag, len) \o x
           c == DataOf(tag, len)
           b == Begun(d0, tag, len)
           q == Len(d0) + 1 + HeadLen
<1>1. HeadLen \in Nat \ {0} /\ len \in Nat /\ Len(d0) \in Nat /\ Len(x) \in Nat
  BY WriterAssumption
<1>2. /\ c \in Seq(Cell) /\ Len(c) = len
      /\ \A k \in 1..len : c[k] = [tag |-> tag, part |-> "data", says |-> 0, at |-> k]
  <2>2. \A k \in 1..len :
          Cells(tag, "data", 0, len)[k] = [tag |-> tag, part |-> "data", says |-> 0, at |-> k]
    BY DEF Cells
  <2> QED  BY <2>2, DataType DEF DataOf
<1>3. b \in Seq(Cell) /\ Len(b) = Len(d0) + HeadLen
  BY BegunType
<1>4. /\ Filled(d0, tag, len) \in Seq(Cell) /\ Len(Filled(d0, tag, len)) = Len(d0) + HeadLen + len
      /\ Filled(d0, tag, len) = b \o c
  BY FilledType DEF Filled
<1>5. \A k \in 1..len : D[q + k - 1] = [tag |-> tag, part |-> "data", says |-> 0, at |-> k]
  <2> TAKE k \in 1..len
  <2> DEFINE i == Len(d0) + HeadLen + k
  <2>1. /\ q + k - 1 = i /\ i \in 1..(Len(d0) + HeadLen + len) /\ i > Len(d0) + HeadLen
        /\ i - (Len(d0) + HeadLen) = k
        /\ i \in 1..(Len(d0) + HeadLen + len + Len(x))
    BY <1>1
  <2>2. D[i] = Filled(d0, tag, len)[i]
    BY <1>4, <2>1, ConcatProperties
  <2>3. Filled(d0, tag, len)[i] = c[i - (Len(d0) + HeadLen)]
    BY <1>1, <1>2, <1>3, <1>4, <2>1, ConcatProperties
  <2> QED  BY <1>2, <2>1, <2>2, <2>3
<1> QED
  <2> HIDE DEF D, q
  <2>1. ASSUME NEW k \in 1..len
        PROVE  D[q + k - 1].part = "data" /\ D[q + k - 1].at = k /\ D[q + k - 1].tag = tag
    <3>1. D[q + k - 1] = [tag |-> tag, part |-> "data", says |-> 0, at |-> k]
      BY <1>5
    <3> QED  BY ONLY <3>1
  <2>2. DataAt(D, q, tag, len)
    BY <2>1 DEF DataAt
  <2> QED  BY <2>2 DEF D, q

(* d0 holds the tags W and ends where the next begins: what comes after it *)
(* cannot change what is read of it.                                       *)
Whole(d0, W) ==
  \A e \in Seq(Cell) : ReadTags(d0 \o e) = W \o TagsFrom(d0 \o e)[Len(d0) + 1]

LEMMA HeaderTypes ==
  /\ Len(HeaderIovs) = 2
  /\ HeaderIovs[1] \in Seq(Cell) /\ Len(HeaderIovs[1]) = HeadLen
  /\ HeaderIovs[2] \in Seq(Cell) /\ Len(HeaderIovs[2]) = SizeLen
<1>1. HeadLen \in Nat /\ SizeLen \in Nat /\ 0 \in Nat /\ "flv" \in Parts /\ "size" \in Parts
  BY WriterAssumption DEF Parts
<1>2. Cells(0, "flv", 0, HeadLen) \in Seq(Cell) /\ Len(Cells(0, "flv", 0, HeadLen)) = HeadLen
  BY <1>1, CellsType
<1>3. Cells(0, "size", 0, SizeLen) \in Seq(Cell) /\ Len(Cells(0, "size", 0, SizeLen)) = SizeLen
  BY <1>1, CellsType
<1> QED  BY <1>2, <1>3 DEF HeaderIovs

LEMMA WholeHeader == Whole(HeaderIovs[1] \o HeaderIovs[2], <<>>)
<1> DEFINE h == HeaderIovs[1]
           z == HeaderIovs[2]
           d0 == h \o z
<1>1. /\ HeadLen \in Nat \ {0} /\ SizeLen \in Nat \ {0}
      /\ h \in Seq(Cell) /\ Len(h) = HeadLen
      /\ z \in Seq(Cell) /\ Len(z) = SizeLen
  BY WriterAssumption, HeaderTypes
<1> HIDE DEF h, z
<1>2. d0 \in Seq(Cell) /\ Len(d0) = HeadLen + SizeLen
  BY <1>1, ConcatProperties
<1>3. ASSUME NEW e \in Seq(Cell)
      PROVE  ReadTags(d0 \o e) = <<>> \o TagsFrom(d0 \o e)[Len(d0) + 1]
  <2> DEFINE D == d0 \o e
             p == HeadLen + SizeLen + 1
  <2>1. D \in Seq(Cell) /\ Len(D) = HeadLen + SizeLen + Len(e) /\ Len(e) \in Nat
    BY <1>2, ConcatProperties
  <2>2. D = h \o (z \o e) /\ z \o e \in Seq(Cell)
    BY <1>1, ConcatAssociative, ConcatProperties
  <2>3. SubSeq(D, 1, HeadLen) = h
    <3>1. 1 \in 1..Len(h) /\ Len(h) \in 1..Len(h)
      BY <1>1
    <3>2. SubSeq(h \o (z \o e), 1, Len(h)) = SubSeq(h, 1, Len(h))
      BY <1>1, <2>2, <3>1, SubSeqOfConcat1
    <3>3. SubSeq(h, 1, Len(h)) = h
      BY <1>1, SubSeqFull
    <3> QED  BY <1>1, <2>2, <3>2, <3>3
  <2>4. HeadLen + SizeLen <= Len(D)
    BY <1>1, <2>1
  <2> HIDE DEF D
  <2>5. ReadTags(D) = TagsFrom(D)[p]
    BY <2>3, <2>4 DEF ReadTags, h
  <2>6. TagsFrom(D)[p] \in Seq(Tag)
    <3>1. p \in Pos
      BY <1>1 DEF Pos
    <3> QED  BY <2>1, <3>1, TagsFromType
  <2>7. <<>> \o TagsFrom(D)[p] = TagsFrom(D)[p]
    BY <2>6, ConcatEmptySeq
  <2>8. Len(d0) + 1 = p
    BY <1>2
  <2> QED  BY <2>5, <2>7, <2>8 DEF D
<1> QED  BY <1>3 DEF Whole, h, z

(* The rest of a file, from each part of a tag on.                        *)
LEMMA EndedThen ==
  ASSUME NEW d0 \in Seq(Cell), NEW tag \in Nat, NEW len \in DataLens, NEW e \in Seq(Cell)
  PROVE  LET y3 == SizeOf(tag) \o e
             y2 == DataOf(tag, len) \o y3
             y1 == HeadOf(tag, len) \o y2
         IN  /\ Ended(d0, tag, len) \o e = Filled(d0, tag, len) \o y3
             /\ Filled(d0, tag, len) \o y3 = Begun(d0, tag, len) \o y2
             /\ Begun(d0, tag, len) \o y2 = d0 \o y1
<1> DEFINE y3 == SizeOf(tag) \o e
           y2 == DataOf(tag, len) \o y3
           y1 == HeadOf(tag, len) \o y2
           d1 == Begun(d0, tag, len)
           d2 == Filled(d0, tag, len)
           d3 == Ended(d0, tag, len)
           h == HeadOf(tag, len)
           c == DataOf(tag, len)
           z == SizeOf(tag)
<1>1. /\ h \in Seq(Cell) /\ c \in Seq(Cell) /\ z \in Seq(Cell)
      /\ d1 \in Seq(Cell) /\ d2 \in Seq(Cell) /\ d0 \in Seq(Cell) /\ e \in Seq(Cell)
  BY HeadType, DataType, SizeType, BegunType, FilledType
<1>2. d1 = d0 \o h /\ d2 = d1 \o c /\ d3 = d2 \o z
  BY DEF Begun, Filled, Ended
<1>3. y3 = z \o e /\ y2 = c \o y3 /\ y1 = h \o y2
  OBVIOUS
<1>4. y3 \in Seq(Cell)
  BY <1>1, ConcatProperties
<1>5. y2 \in Seq(Cell)
  BY <1>1, <1>4, ConcatProperties
<1> HIDE DEF y1, y2, y3, d1, d2, d3, h, c, z
<1>6. (d2 \o z) \o e = d2 \o (z \o e)
  <2>1. d2 \in Seq(Cell) /\ z \in Seq(Cell) /\ e \in Seq(Cell)
    BY <1>1
  <2> QED  BY ONLY <2>1, ConcatAssociative, SMTT(60)
<1>7. (d1 \o c) \o y3 = d1 \o (c \o y3)
  <2>1. d1 \in Seq(Cell) /\ c \in Seq(Cell) /\ y3 \in Seq(Cell)
    BY <1>1, <1>4
  <2> QED  BY ONLY <2>1, ConcatAssociative, SMTT(60)
<1>8. (d0 \o h) \o y2 = d0 \o (h \o y2)
  <2>1. d0 \in Seq(Cell) /\ h \in Seq(Cell) /\ y2 \in Seq(Cell)
    BY <1>1, <1>5
  <2> QED  BY ONLY <2>1, ConcatAssociative, SMTT(60)
<1>9. d3 \o e = d2 \o y3 /\ d2 \o y3 = d1 \o y2 /\ d1 \o y2 = d0 \o y1
  BY ONLY <1>2, <1>3, <1>6, <1>7, <1>8
<1> QED  BY <1>9 DEF y1, y2, y3, d1, d2, d3, h, c, z

LEMMA WholeNext ==
  ASSUME NEW d0 \in Seq(Cell), NEW W \in Seq(Tag), Whole(d0, W),
         NEW tag \in Nat, NEW len \in DataLens
  PROVE  Whole(Ended(d0, tag, len), Append(W, [tag |-> tag, len |-> len]))
<1> DEFINE t == [tag |-> tag, len |-> len]
           d1 == Ended(d0, tag, len)
           q == Len(d0) + 1
           r == Len(d1) + 1
<1>1. HeadLen \in Nat \ {0} /\ SizeLen \in Nat \ {0} /\ len \in Nat \ {0} /\ Len(d0) \in Nat
  BY WriterAssumption
<1>2. /\ d1 \in Seq(Cell) /\ Len(d1) = Len(d0) + HeadLen + len + SizeLen
      /\ HeadOf(tag, len) \in Seq(Cell) /\ DataOf(tag, len) \in Seq(Cell)
      /\ SizeOf(tag) \in Seq(Cell)
      /\ Begun(d0, tag, len) \in Seq(Cell) /\ Filled(d0, tag, len) \in Seq(Cell)
  BY EndedType, HeadType, DataType, SizeType, BegunType, FilledType
<1>3. t \in Tag
  BY <1>1 DEF Tag
<1>4. ASSUME NEW e \in Seq(Cell)
      PROVE  ReadTags(d1 \o e) = Append(W, t) \o TagsFrom(d1 \o e)[r]
  <2> DEFINE D == d1 \o e
             y3 == SizeOf(tag) \o e
             y2 == DataOf(tag, len) \o y3
             y1 == HeadOf(tag, len) \o y2
  <2>1. D \in Seq(Cell) /\ Len(D) = Len(d1) + Len(e) /\ Len(e) \in Nat
    <3>1. d1 \in Seq(Cell)
      BY <1>2
    <3> HIDE DEF d1
    <3>2. d1 \o e \in Seq(Cell) /\ Len(d1 \o e) = Len(d1) + Len(e)
      BY <3>1, ConcatProperties
    <3>3. Len(e) \in Nat
      BY LenProperties
    <3> QED  BY <3>2, <3>3
  <2>2. y3 \in Seq(Cell)
    BY <1>2, ConcatProperties
  <2>3. y2 \in Seq(Cell)
    BY <1>2, <2>2, ConcatProperties
  <2>4. y1 \in Seq(Cell)
    BY <1>2, <2>3, ConcatProperties
  <2>A. /\ d1 \o e = Filled(d0, tag, len) \o y3
        /\ Filled(d0, tag, len) \o y3 = Begun(d0, tag, len) \o y2
        /\ Begun(d0, tag, len) \o y2 = d0 \o y1
    BY EndedThen
  <2>5. D = Filled(d0, tag, len) \o y3
    BY <2>A
  <2>6. Filled(d0, tag, len) \o y3 = Begun(d0, tag, len) \o y2
    BY <2>A
  <2>7. Begun(d0, tag, len) \o y2 = d0 \o y1
    BY <2>A
  <2> HIDE DEF D, y1, y2, y3, d1
  <2>8. HeadAt(D, q) /\ TagAt(D, q) = tag /\ LenAt(D, q) = len
    BY <2>3, <2>5, <2>6, ReadsHead
  <2>9. DataAt(D, q + HeadLen, tag, len)
    <3>1. DataAt(D, Len(d0) + 1 + HeadLen, tag, len)
      BY <2>2, <2>5, ReadsData
    <3> QED  BY <3>1
  <2>10. q + HeadLen + len <= Len(D)
    BY <1>1, <1>2, <2>1
  <2>11. IsTag(D, q)
    BY <2>8, <2>9, <2>10 DEF IsTag
  <2>12. q \in Pos /\ r \in Pos /\ After(D, q) = r
    <3>1. After(D, q) = q + HeadLen + len + SizeLen
      BY <2>8 DEF After
    <3>2. r = q + HeadLen + len + SizeLen /\ q \in Nat /\ q > 0
      BY <1>1, <1>2
    <3> QED  BY <1>1, <3>1, <3>2 DEF Pos
  <2>13. TagsFrom(D)[q] = <<t>> \o TagsFrom(D)[r]
    BY <2>1, <2>8, <2>11, <2>12, Decode DEF Step
  <2>14. ReadTags(D) = W \o TagsFrom(D)[q]
    BY <2>4, <2>5, <2>6, <2>7 DEF Whole
  <2>15. TagsFrom(D)[r] \in Seq(Tag)
    BY <2>1, <2>12, TagsFromType
  <2>16. W \o (<<t>> \o TagsFrom(D)[r]) = (W \o <<t>>) \o TagsFrom(D)[r]
    <3> DEFINE u == <<t>>
               v == TagsFrom(D)[r]
    <3>1. u \in Seq(Tag)
      BY <1>3
    <3>2. v \in Seq(Tag)
      BY <2>15
    <3> HIDE DEF u, v
    <3>3. (W \o u) \o v = W \o (u \o v)
      BY <3>1, <3>2, Associative
    <3> QED  BY <3>3 DEF u, v
  <2>17. W \o <<t>> = Append(W, t)
    BY <1>3, AppendIsConcat
  <2> QED  BY <2>13, <2>14, <2>16, <2>17 DEF D
<1> QED  BY <1>4 DEF Whole

LEMMA ReadTagsType ==
  ASSUME NEW d \in Seq(Cell)
  PROVE  ReadTags(d) \in Seq(Tag)
<1>1. HeadLen + SizeLen + 1 \in Pos
  BY WriterAssumption DEF Pos
<1>2. TagsFrom(d)[HeadLen + SizeLen + 1] \in Seq(Tag)
  BY <1>1, TagsFromType
<1>3. <<>> \in Seq(Tag)
  BY EmptySeq
<1> QED  BY <1>2, <1>3 DEF ReadTags

(* Nothing is read where a tag is not complete.                            *)
LEMMA WholeAlone ==
  ASSUME NEW d0 \in Seq(Cell), NEW W \in Seq(Tag), Whole(d0, W), NEW e \in Seq(Cell),
         ~IsTag(d0 \o e, Len(d0) + 1)
  PROVE  ReadTags(d0 \o e) = W
<1>1. d0 \o e \in Seq(Cell) /\ Len(d0) + 1 \in Pos
  BY ConcatProperties DEF Pos
<1>2. TagsFrom(d0 \o e)[Len(d0) + 1] = <<>>
  BY <1>1, Decode DEF Step
<1>3. W \o <<>> = W
  BY ConcatEmptySeq
<1> QED  BY <1>2, <1>3 DEF Whole

LEMMA WholeReads ==
  ASSUME NEW d0 \in Seq(Cell), NEW W \in Seq(Tag), Whole(d0, W)
  PROVE  ReadTags(d0) = W
<1>1. <<>> \in Seq(Cell) /\ d0 \o <<>> = d0
  BY EmptySeq, ConcatEmptySeq
<1>2. ~IsTag(d0, Len(d0) + 1)
  <2>1. Len(d0) + 1 \in Pos /\ Len(d0) \in Nat
    BY DEF Pos
  <2> QED  BY <2>1, TagBounds
<1> QED  BY <1>1, <1>2, WholeAlone

LEMMA BegunReads ==
  ASSUME NEW d0 \in Seq(Cell), NEW W \in Seq(Tag), Whole(d0, W), NEW tag \in Nat, NEW len \in DataLens
  PROVE  ReadTags(Begun(d0, tag, len)) = W
<1> DEFINE D == Begun(d0, tag, len)
           q == Len(d0) + 1
<1>1. D \in Seq(Cell) /\ Len(D) = Len(d0) + HeadLen
  BY BegunType
<1>2. <<>> \in Seq(Cell) /\ D \o <<>> = D
  BY <1>1, EmptySeq, ConcatEmptySeq
<1>3. LenAt(D, q) = len
  <2>1. LenAt(D \o <<>>, q) = len
    BY <1>2, ReadsHead
  <2> QED  BY <1>2, <2>1
<1>4. ~IsTag(D, q)
  <2>1. ~(q + HeadLen + len <= Len(D))
    BY <1>1, WriterAssumption
  <2> QED  BY <1>3, <2>1 DEF IsTag
<1>5. D = d0 \o HeadOf(tag, len) /\ HeadOf(tag, len) \in Seq(Cell)
  BY HeadType DEF Begun
<1> HIDE DEF D
<1>6. ReadTags(d0 \o HeadOf(tag, len)) = W
  BY <1>4, <1>5, WholeAlone
<1> QED  BY <1>5, <1>6 DEF D

LEMMA FilledReads ==
  ASSUME NEW d0 \in Seq(Cell), NEW W \in Seq(Tag), Whole(d0, W), NEW tag \in Nat, NEW len \in DataLens
  PROVE  ReadTags(Filled(d0, tag, len)) = W
<1> DEFINE D == Filled(d0, tag, len)
           q == Len(d0) + 1
           h == HeadOf(tag, len)
           c == DataOf(tag, len)
<1>1. D \in Seq(Cell) /\ Len(D) = Len(d0) + HeadLen + len
  BY FilledType
<1>2. /\ D = Begun(d0, tag, len) \o c
      /\ h \in Seq(Cell) /\ c \in Seq(Cell)
  BY HeadType, DataType DEF Filled
<1>3. LenAt(D, q) = len
  <2>1. LenAt(Begun(d0, tag, len) \o c, q) = len
    BY <1>2, ReadsHead
  <2> QED  BY <1>2, <2>1
<1>4. ~IsTag(D, q)
  <2>1. ~(q + HeadLen + len <= Len(D))
    BY <1>1, WriterAssumption
  <2> QED  BY <1>3, <2>1 DEF IsTag
<1>5. h \o c \in Seq(Cell) /\ D = d0 \o (h \o c)
  <2>1. h \o c \in Seq(Cell)
    BY <1>2, ConcatProperties
  <2>2. (d0 \o h) \o c = d0 \o (h \o c)
    <3> HIDE DEF h, c
    <3>1. d0 \in Seq(Cell) /\ h \in Seq(Cell) /\ c \in Seq(Cell)
      BY <1>2
    <3> QED  BY ONLY <3>1, ConcatAssociative, SMTT(60)
  <2> QED  BY <1>2, <2>1, <2>2 DEF Begun
<1> HIDE DEF D, h, c
<1>6. ReadTags(d0 \o (h \o c)) = W
  BY <1>4, <1>5, WholeAlone
<1> QED  BY <1>5, <1>6 DEF D

(* Whatever comes after it, W is read first.                               *)
LEMMA WholePrefix ==
  ASSUME NEW d0 \in Seq(Cell), NEW W \in Seq(Tag), Whole(d0, W), NEW e \in Seq(Cell)
  PROVE  IsPrefix(W, ReadTags(d0 \o e))
<1> DEFINE F == TagsFrom(d0 \o e)[Len(d0) + 1]
           R == ReadTags(d0 \o e)
<1>1. F \in Seq(Tag)
  <2>1. d0 \o e \in Seq(Cell) /\ Len(d0) + 1 \in Pos
    BY ConcatProperties DEF Pos
  <2> QED  BY <2>1, TagsFromType
<1>2. R = W \o F
  BY DEF Whole
<1> HIDE DEF F, R
<1>3. Len(W) \in Nat /\ Len(F) \in Nat /\ Len(R) = Len(W) + Len(F)
  BY <1>1, <1>2, ConcatProperties
<1>4. SubSeq(W, 1, Len(W)) = SubSeq(R, 1, Len(W))
  <2>1. CASE Len(W) = 0
    <3>1. 0 < 1 /\ 1 \in Int /\ 0 \in Int
      OBVIOUS
    <3>2. SubSeq(W, 1, 0) = <<>> /\ SubSeq(R, 1, 0) = <<>>
      BY <3>1, SubSeqEmpty
    <3> QED  BY <2>1, <3>2
  <2>2. CASE Len(W) # 0
    <3>1. 1 \in 1..Len(W) /\ Len(W) \in 1..Len(W)
      BY <1>3, <2>2
    <3> QED  BY <1>1, <1>2, <3>1, SubSeqOfConcat1
  <2> QED  BY <2>1, <2>2
<1>5. IsPrefix(W, R)
  BY <1>3, <1>4 DEF IsPrefix
<1> QED  BY <1>5 DEF R

LEMMA EmptyPrefix ==
  ASSUME NEW d \in Seq(Cell)
  PROVE  IsPrefix(<<>>, ReadTags(d))
<1>1. Len(ReadTags(d)) \in Nat
  BY ReadTagsType
<1>2. Len(<<>>) = 0 /\ SubSeq(<<>>, 1, 0) = <<>> /\ SubSeq(ReadTags(d), 1, 0) = <<>>
  <2>1. 0 < 1 /\ 1 \in Int /\ 0 \in Int
    OBVIOUS
  <2> QED  BY <2>1, SubSeqEmpty, EmptySeq
<1> QED  BY <1>1, <1>2 DEF IsPrefix

(* A file whose header is not complete.                                    *)
LEMMA ShortReads ==
  ReadTags(<<>>) = <<>> /\ ReadTags(HeaderIovs[1]) = <<>>
<1>1. ~(HeadLen + SizeLen <= Len(<<>>)) /\ ~(HeadLen + SizeLen <= Len(HeaderIovs[1]))
  BY WriterAssumption, HeaderTypes, EmptySeq
<1> QED  BY <1>1 DEF ReadTags

-------------------------------------------------------------------------------
(* The calls in progress: how much of their iovecs is left.                *)
HeaderJob1 == [tag |-> 0, len |-> 0, iovs |-> HeaderIovs]
HeaderJob2 == [tag |-> 0, len |-> 0, iovs |-> <<HeaderIovs[2]>>]
TagJob1(tag, len) == [tag |-> tag, len |-> len, iovs |-> <<HeadOf(tag, len), DataOf(tag, len), SizeOf(tag)>>]
TagJob2(tag, len) == [tag |-> tag, len |-> len, iovs |-> <<DataOf(tag, len), SizeOf(tag)>>]
TagJob3(tag, len) == [tag |-> tag, len |-> len, iovs |-> <<SizeOf(tag)>>]

JobOK(j) ==
  \/ j = NoJob \/ j = HeaderJob1 \/ j = HeaderJob2
  \/ \E tag \in Pos, len \in DataLens :
       j = TagJob1(tag, len) \/ j = TagJob2(tag, len) \/ j = TagJob3(tag, len)

(* The file of contents d, tags W and call j, when everything in it was    *)
(* written whole: its header is not complete, or it ends with a tag, or in *)
(* the middle of one.  A writer n is at work on what is not complete; it   *)
(* is only without one after the process died.                             *)
Doing(j, n, job1) == j = job1 \/ (j = NoJob /\ n = -1)

Short(d, W, j, n) ==
  /\ W = <<>>
  /\ \/ d = <<>> /\ Doing(j, n, HeaderJob1)
     \/ d = HeaderIovs[1] /\ Doing(j, n, HeaderJob2)

Ready(d, W, j) == Whole(d, W) /\ j = NoJob

InTag(d, W, j, n) ==
  \E d0 \in Seq(Cell), tag \in Pos, len \in DataLens :
    /\ Whole(d0, W)
    /\ \/ d = d0 /\ j = TagJob1(tag, len)
       \/ d = Begun(d0, tag, len) /\ Doing(j, n, TagJob2(tag, len))
       \/ d = Filled(d0, tag, len) /\ Doing(j, n, TagJob3(tag, len))

Good(d, W, j, n) == Short(d, W, j, n) \/ Ready(d, W, j) \/ InTag(d, W, j, n)

(* Also when it was not: W comes first.                                    *)
Kept(d, W) ==
  W = <<>> \/ \E d0 \in Seq(Cell), x \in Seq(Cell) : Whole(d0, W) /\ d = d0 \o x

LEMMA GoodReads ==
  ASSUME NEW d \in Seq(Cell), NEW W \in Seq(Tag), NEW j, NEW n, Good(d, W, j, n)
  PROVE  ReadTags(d) = W
<1>1. CASE Short(d, W, j, n)
  BY <1>1, ShortReads DEF Short
<1>2. CASE Ready(d, W, j)
  BY <1>2, WholeReads DEF Ready
<1>3. CASE InTag(d, W, j, n)
  <2>1. PICK d0 \in Seq(Cell), tag \in Pos, len \in DataLens :
          Whole(d0, W) /\ (d = d0 \/ d = Begun(d0, tag, len) \/ d = Filled(d0, tag, len))
    BY <1>3 DEF InTag
  <2>2. tag \in Nat
    BY DEF Pos
  <2> QED  BY <2>1, <2>2, WholeReads, BegunReads, FilledReads
<1> QED  BY <1>1, <1>2, <1>3 DEF Good

LEMMA KeptReads ==
  ASSUME NEW d \in Seq(Cell), NEW W \in Seq(Tag), Kept(d, W)
  PROVE  IsPrefix(W, ReadTags(d))
<1>1. CASE W = <<>>
  BY <1>1, EmptyPrefix
<1>2. CASE W # <<>>
  <2>1. PICK d0 \in Seq(Cell), x \in Seq(Cell) : Whole(d0, W) /\ d = d0 \o x
    BY <1>2 DEF Kept
  <2> QED  BY <2>1, WholePrefix
<1> QED  BY <1>1, <1>2

LEMMA KeptMore ==
  ASSUME NEW d \in Seq(Cell), NEW W, Kept(d, W), NEW y \in Seq(Cell)
  PROVE  Kept(d \o y, W)
<1>1. CASE W = <<>>
  BY <1>1 DEF Kept
<1>2. CASE W # <<>>
  <2>1. PICK d0 \in Seq(Cell), x \in Seq(Cell) : Whole(d0, W) /\ d = d0 \o x
    BY <1>2 DEF Kept
  <2>2. x \o y \in Seq(Cell)
    BY ConcatProperties
  <2>3. (d0 \o x) \o y = d0 \o (x \o y)
    <3>1. d0 \in Seq(Cell) /\ x \in Seq(Cell) /\ y \in Seq(Cell)
      OBVIOUS
    <3> QED  BY ONLY <3>1, ConcatAssociative, SMTT(60)
  <2> QED  BY <2>1, <2>2, <2>3 DEF Kept
<1> QED  BY <1>1, <1>2

LEMMA WholeKept ==
  ASSUME NEW d \in Seq(Cell), NEW W, Whole(d, W)
  PROVE  Kept(d, W)
<1>1. <<>> \in Seq(Cell) /\ d \o <<>> = d
  BY EmptySeq, ConcatEmptySeq
<1> QED  BY <1>1 DEF Kept

(* The calls are told apart by their tags and the number of iovecs.        *)
LEMMA Shapes ==
  /\ NoJob.tag = 0 /\ NoJob.iovs = <<>>
  /\ HeaderJob1.tag = 0 /\ Len(HeaderJob1.iovs) = 2
  /\ HeaderJob2.tag = 0 /\ Len(HeaderJob2.iovs) = 1
  /\ \A tag, len : /\ TagJob1(tag, len).tag = tag /\ TagJob1(tag, len).len = len
                   /\ Len(TagJob1(tag, len).iovs) = 3
                   /\ TagJob2(tag, len).tag = tag /\ TagJob2(tag, len).len = len
                   /\ Len(TagJob2(tag, len).iovs) = 2
                   /\ TagJob3(tag, len).tag = tag /\ TagJob3(tag, len).len = len
                   /\ Len(TagJob3(tag, len).iovs) = 1
BY HeaderTypes DEF NoJob, HeaderJob1, HeaderJob2, TagJob1, TagJob2, TagJob3

LEMMA Distinct ==
  /\ HeaderJob1 # HeaderJob2
  /\ \A tag, len, t, l :
       /\ TagJob1(tag, len) # TagJob2(t, l)
       /\ TagJob1(tag, len) # TagJob3(t, l)
       /\ TagJob2(tag, len) # TagJob3(t, l)
       /\ TagJob2(tag, len) = TagJob2(t, l) => tag = t /\ len = l
       /\ TagJob3(tag, len) = TagJob3(t, l) => tag = t /\ len = l
<1>1. HeaderJob1 # HeaderJob2
  <2>1. Len(HeaderJob1.iovs) = 2 /\ Len(HeaderJob2.iovs) = 1
    BY Shapes
  <2> QED  BY ONLY <2>1
<1>2. ASSUME NEW tag, NEW len, NEW t, NEW l
      PROVE  /\ TagJob1(tag, len) # TagJob2(t, l)
             /\ TagJob1(tag, len) # TagJob3(t, l)
             /\ TagJob2(tag, len) # TagJob3(t, l)
             /\ TagJob2(tag, len) = TagJob2(t, l) => tag = t /\ len = l
             /\ TagJob3(tag, len) = TagJob3(t, l) => tag = t /\ len = l
  <2>1. /\ Len(TagJob1(tag, len).iovs) = 3 /\ Len(TagJob2(tag, len).iovs) = 2
        /\ Len(TagJob2(t, l).iovs) = 2 /\ Len(TagJob3(t, l).iovs) = 1
        /\ TagJob2(tag, len).tag = tag /\ TagJob2(tag, len).len = len
        /\ TagJob2(t, l).tag = t /\ TagJob2(t, l).len = l
        /\ TagJob3(tag, len).tag = tag /\ TagJob3(tag, len).len = len
        /\ TagJob3(t, l).tag = t /\ TagJob3(t, l).len = l
    BY Shapes
  <2> QED  BY ONLY <2>1
<1> QED  BY <1>1, <1>2

(* What is left of a call.                                                 *)
Rest(j) == IF Tail(j.iovs) = <<>> THEN NoJob ELSE [j EXCEPT !.iovs = Tail(j.iovs)]

LEMMA Pieces ==
  /\ Head(HeaderJob1.iovs) = HeaderIovs[1] /\ Rest(HeaderJob1) = HeaderJob2
  /\ Tail(HeaderJob1.iovs) # <<>>
  /\ Head(HeaderJob2.iovs) = HeaderIovs[2] /\ Rest(HeaderJob2) = NoJob
  /\ \A tag, len :
       /\ Head(TagJob1(tag, len).iovs) = HeadOf(tag, len) /\ Rest(TagJob1(tag, len)) = TagJob2(tag, len)
       /\ Tail(TagJob1(tag, len).iovs) # <<>>
       /\ Head(TagJob2(tag, len).iovs) = DataOf(tag, len) /\ Rest(TagJob2(tag, len)) = TagJob3(tag, len)
       /\ Tail(TagJob2(tag, len).iovs) # <<>>
       /\ Head(TagJob3(tag, len).iovs) = SizeOf(tag) /\ Rest(TagJob3(tag, len)) = NoJob
       /\ Tail(TagJob3(tag, len).iovs) = <<>>
<1>2. /\ Head(HeaderJob1.iovs) = HeaderIovs[1] /\ Tail(HeaderJob1.iovs) # <<>>
      /\ Rest(HeaderJob1) = HeaderJob2
  <2> DEFINE a == HeaderIovs[1]
             b == HeaderIovs[2]
  <2>1. HeaderIovs = <<a, b>>
    BY DEF HeaderIovs
  <2>2. HeaderJob2 = [tag |-> 0, len |-> 0, iovs |-> <<b>>]
    BY DEF HeaderJob2
  <2>3. HeaderJob1 = [tag |-> 0, len |-> 0, iovs |-> <<a, b>>]
    BY <2>1 DEF HeaderJob1
  <2> HIDE DEF a, b
  <2>4. /\ Head(HeaderJob1.iovs) = a /\ Tail(HeaderJob1.iovs) # <<>>
        /\ Rest(HeaderJob1) = HeaderJob2
    BY <2>2, <2>3 DEF Rest
  <2> QED  BY <2>4 DEF a
<1>3. Head(HeaderJob2.iovs) = HeaderIovs[2] /\ Rest(HeaderJob2) = NoJob
  BY DEF HeaderJob2, Rest
<1>4. ASSUME NEW tag, NEW len
      PROVE  /\ Head(TagJob1(tag, len).iovs) = HeadOf(tag, len)
             /\ Rest(TagJob1(tag, len)) = TagJob2(tag, len)
             /\ Tail(TagJob1(tag, len).iovs) # <<>>
  BY DEF TagJob1, TagJob2, Rest
<1>5. ASSUME NEW tag, NEW len
      PROVE  /\ Head(TagJob2(tag, len).iovs) = DataOf(tag, len)
             /\ Rest(TagJob2(tag, len)) = TagJob3(tag, len)
             /\ Tail(TagJob2(tag, len).iovs) # <<>>
  BY DEF TagJob2, TagJob3, Rest
<1>6. ASSUME NEW tag, NEW len
      PROVE  /\ Head(TagJob3(tag, len).iovs) = SizeOf(tag)
             /\ Rest(TagJob3(tag, len)) = NoJob
             /\ Tail(TagJob3(tag, len).iovs) = <<>>
  BY DEF TagJob3, Rest
<1>7. \A tag, len :
        /\ Head(TagJob1(tag, len).iovs) = HeadOf(tag, len) /\ Rest(TagJob1(tag, len)) = TagJob2(tag, len)
        /\ Tail(TagJob1(tag, len).iovs) # <<>>
        /\ Head(TagJob2(tag, len).iovs) = DataOf(tag, len) /\ Rest(TagJob2(tag, len)) = TagJob3(tag, len)
        /\ Tail(TagJob2(tag, len).iovs) # <<>>
        /\ Head(TagJob3(tag, len).iovs) = SizeOf(tag) /\ Rest(TagJob3(tag, len)) = NoJob
        /\ Tail(TagJob3(tag, len).iovs) = <<>>
  <2> TAKE tag, len
  <2> QED  BY ONLY <1>4, <1>5, <1>6
<1> QED  BY ONLY <1>2, <1>3, <1>7

(* A part of an iovec, up to all of it.                                    *)
LEMMA PartOf ==
  ASSUME NEW iov \in Seq(Cell), NEW k \in Nat, k <= Len(iov)
  PROVE  /\ SubSeq(iov, 1, k) \in Seq(Cell) /\ Len(SubSeq(iov, 1, k)) = k
         /\ k = Len(iov) => SubSeq(iov, 1, k) = iov
<1>1. \A i \in 1..k : iov[i] \in Cell
  <2> TAKE i \in 1..k
  <2>1. i \in 1..Len(iov)
    OBVIOUS
  <2> QED  BY <2>1, ElementOfSeq
<1>2. 1 \in Int /\ k \in Int
  OBVIOUS
<1>3. /\ SubSeq(iov, 1, k) \in Seq(Cell)
      /\ Len(SubSeq(iov, 1, k)) = IF 1 <= k THEN k - 1 + 1 ELSE 0
  BY <1>1, <1>2, SubSeqProperties
<1>4. k = Len(iov) => SubSeq(iov, 1, k) = iov
  BY SubSeqFull
<1> QED  BY <1>3, <1>4

(* What one write() makes of a file, whichever call it is of: it writes k  *)
(* cells of the next iovec, and c2 says that all before and these are      *)
(* whole.                                                                  *)
Writing(d, W, n, j, k, c2, d2, W2) ==
  /\ d \in Seq(Cell) /\ W \in Seq(Tag)
  /\ JobOK(j) /\ j.iovs # <<>>
  /\ Kept(d, W)
  /\ k \in Nat /\ k <= Len(Head(j.iovs))
  /\ c2 \in BOOLEAN
  /\ c2 => Good(d, W, j, n) /\ k = Len(Head(j.iovs))
  /\ d2 = d \o SubSeq(Head(j.iovs), 1, k)
  /\ W2 = IF Tail(j.iovs) = <<>> /\ j.tag # 0 /\ c2
          THEN Append(W, [tag |-> j.tag, len |-> j.len]) ELSE W

Written(W2, j2, n, c2, d2) ==
  /\ JobOK(j2) /\ d2 \in Seq(Cell) /\ W2 \in Seq(Tag)
  /\ c2 => Good(d2, W2, j2, n)
  /\ Kept(d2, W2)

LEMMA WriteGood ==
  ASSUME NEW d, NEW W, NEW n, NEW j, NEW k, NEW c2, NEW d2, NEW W2,
         Writing(d, W, n, j, k, c2, d2, W2)
  PROVE  Written(W2, Rest(j), n, c2, d2)
<1> USE DEF Writing
<1> DEFINE iov == Head(j.iovs)
           more == SubSeq(iov, 1, k)
<1>1. Len(j.iovs) # 0
  BY Shapes DEF JobOK, NoJob
<1>A. j # NoJob
  BY Shapes
<1>2. CASE j = HeaderJob1
  <2>1. iov = HeaderIovs[1] /\ Rest(j) = HeaderJob2 /\ W2 = W
    BY <1>2, Pieces
  <2>2. iov \in Seq(Cell)
    BY <2>1, HeaderTypes
  <2>3. more \in Seq(Cell) /\ (k = Len(iov) => more = iov)
    BY <2>2, PartOf
  <2>4. d2 \in Seq(Cell) /\ Kept(d2, W2)
    BY <2>1, <2>3, ConcatProperties, KeptMore
  <2>5. ASSUME c2 PROVE Good(d2, W2, Rest(j), n)
    <3>1. Good(d, W, j, n) /\ more = iov
      BY <2>3, <2>5
    <3>2. ~Ready(d, W, j)
      BY <1>A DEF Ready
    <3>3. ~InTag(d, W, j, n)
      BY <1>2, <1>A, Shapes DEF InTag, Doing, Pos
    <3>4. j # HeaderJob2
      BY <1>2, Distinct
    <3>5. d = <<>> /\ W = <<>>
      BY <1>A, <3>1, <3>2, <3>3, <3>4 DEF Good, Short, Doing
    <3>6. d2 = HeaderIovs[1]
      BY <2>1, <2>2, <3>1, <3>5, ConcatEmptySeq
    <3> QED  BY <2>1, <3>5, <3>6 DEF Good, Short, Doing
  <2>6. JobOK(Rest(j))
    BY <2>1 DEF JobOK
  <2>7. W2 \in Seq(Tag)
    BY <2>1
  <2> QED  BY <2>4, <2>5, <2>6, <2>7 DEF Written
<1>3. CASE j = HeaderJob2
  <2>1. iov = HeaderIovs[2] /\ Rest(j) = NoJob /\ W2 = W
    BY <1>3, Pieces, Shapes
  <2>2. iov \in Seq(Cell)
    BY <2>1, HeaderTypes
  <2>3. more \in Seq(Cell) /\ (k = Len(iov) => more = iov)
    BY <2>2, PartOf
  <2>4. d2 \in Seq(Cell) /\ Kept(d2, W2)
    BY <2>1, <2>3, ConcatProperties, KeptMore
  <2>5. ASSUME c2 PROVE Good(d2, W2, Rest(j), n)
    <3>1. Good(d, W, j, n) /\ more = iov
      BY <2>3, <2>5
    <3>2. ~Ready(d, W, j)
      BY <1>A DEF Ready
    <3>3. ~InTag(d, W, j, n)
      BY <1>3, <1>A, Shapes DEF InTag, Doing, Pos
    <3>4. j # HeaderJob1
      BY <1>3, Distinct
    <3>5. d = HeaderIovs[1] /\ W = <<>>
      BY <1>A, <3>1, <3>2, <3>3, <3>4 DEF Good, Short, Doing
    <3>6. d2 = HeaderIovs[1] \o HeaderIovs[2]
      BY <2>1, <3>1, <3>5
    <3> QED  BY <2>1, <3>5, <3>6, WholeHeader DEF Good, Ready
  <2>6. JobOK(Rest(j))
    BY <2>1 DEF JobOK
  <2>7. W2 \in Seq(Tag)
    BY <2>1
  <2> QED  BY <2>4, <2>5, <2>6, <2>7 DEF Written
<1>4. ASSUME NEW tag \in Pos, NEW len \in DataLens, j = TagJob1(tag, len)
      PROVE  /\ JobOK(Rest(j)) /\ d2 \in Seq(Cell) /\ W2 \in Seq(Tag)
             /\ c2 => Good(d2, W2, Rest(j), n)
             /\ Kept(d2, W2)
  <2>0. tag \in Nat /\ tag # 0
    BY DEF Pos
  <2>1. iov = HeadOf(tag, len) /\ Rest(j) = TagJob2(tag, len) /\ W2 = W
    BY <1>4, Pieces
  <2>2. iov \in Seq(Cell)
    BY <2>0, <2>1, HeadType
  <2>3. more \in Seq(Cell) /\ (k = Len(iov) => more = iov)
    BY <2>2, PartOf
  <2>4. d2 \in Seq(Cell) /\ Kept(d2, W2)
    BY <2>1, <2>3, ConcatProperties, KeptMore
  <2>5. ASSUME c2 PROVE Good(d2, W2, Rest(j), n)
    <3>1. Good(d, W, j, n) /\ more = iov
      BY <2>3, <2>5
    <3>2. ~Ready(d, W, j) /\ ~Short(d, W, j, n)
      BY <1>4, <1>A, <2>0, Shapes DEF Ready, Short, Doing
    <3>3. PICK d0 \in Seq(Cell), t \in Pos, l \in DataLens :
            /\ Whole(d0, W)
            /\ \/ d = d0 /\ j = TagJob1(t, l)
               \/ d = Begun(d0, t, l) /\ j = TagJob2(t, l)
               \/ d = Filled(d0, t, l) /\ j = TagJob3(t, l)
      BY <1>A, <3>1, <3>2 DEF Good, InTag, Doing
    <3>4. d = d0
      BY <1>4, <3>3, Distinct
    <3>5. d2 = Begun(d0, tag, len)
      BY <2>1, <3>1, <3>4 DEF Begun
    <3> QED  BY <2>1, <3>3, <3>5 DEF Good, InTag, Doing
  <2>6. JobOK(Rest(j))
    BY <2>1 DEF JobOK
  <2>7. W2 \in Seq(Tag)
    BY <2>1
  <2> QED  BY <2>4, <2>5, <2>6, <2>7
<1>5. ASSUME NEW tag \in Pos, NEW len \in DataLens, j = TagJob2(tag, len)
      PROVE  /\ JobOK(Rest(j)) /\ d2 \in Seq(Cell) /\ W2 \in Seq(Tag)
             /\ c2 => Good(d2, W2, Rest(j), n)
             /\ Kept(d2, W2)
  <2>0. tag \in Nat /\ tag # 0
    BY DEF Pos
  <2>1. iov = DataOf(tag, len) /\ Rest(j) = TagJob3(tag, len) /\ W2 = W
    BY <1>5, Pieces
  <2>2. iov \in Seq(Cell)
    BY <2>0, <2>1, DataType
  <2>3. more \in Seq(Cell) /\ (k = Len(iov) => more = iov)
    BY <2>2, PartOf
  <2>4. d2 \in Seq(Cell) /\ Kept(d2, W2)
    BY <2>1, <2>3, ConcatProperties, KeptMore
  <2>5. ASSUME c2 PROVE Good(d2, W2, Rest(j), n)
    <3>1. Good(d, W, j, n) /\ more = iov
      BY <2>3, <2>5
    <3>2. ~Ready(d, W, j) /\ ~Short(d, W, j, n)
      BY <1>5, <1>A, <2>0, Shapes DEF Ready, Short, Doing
    <3>3. PICK d0 \in Seq(Cell), t \in Pos, l \in DataLens :
            /\ Whole(d0, W)
            /\ \/ d = d0 /\ j = TagJob1(t, l)
               \/ d = Begun(d0, t, l) /\ j = TagJob2(t, l)
               \/ d = Filled(d0, t, l) /\ j = TagJob3(t, l)
      BY <1>A, <3>1, <3>2 DEF Good, InTag, Doing
    <3>4. d = Begun(d0, t, l) /\ t = tag /\ l = len
      BY <1>5, <3>3, Distinct
    <3>5. d2 = Filled(d0, tag, len)
      BY <2>1, <3>1, <3>4 DEF Filled
    <3> QED  BY <2>1, <3>3, <3>5 DEF Good, InTag, Doing
  <2>6. JobOK(Rest(j))
    BY <2>1 DEF JobOK
  <2>7. W2 \in Seq(Tag)
    BY <2>1
  <2> QED  BY <2>4, <2>5, <2>6, <2>7
<1>6. ASSUME NEW tag \in Pos, NEW len \in DataLens, j = TagJob3(tag, len)
      PROVE  /\ JobOK(Rest(j)) /\ d2 \in Seq(Cell) /\ W2 \in Seq(Tag)
             /\ c2 => Good(d2, W2, Rest(j), n)
             /\ Kept(d2, W2)
  <2>0. tag \in Nat /\ tag # 0 /\ len \in Nat /\ [tag |-> tag, len |-> len] \in Tag
    BY WriterAssumption DEF Pos, Tag
  <2>1. /\ iov = SizeOf(tag) /\ Rest(j) = NoJob
        /\ W2 = IF c2 THEN Append(W, [tag |-> tag, len |-> len]) ELSE W
    BY <1>6, <2>0, Pieces, Shapes
  <2>2. iov \in Seq(Cell)
    BY <2>0, <2>1, SizeType
  <2>3. more \in Seq(Cell) /\ (k = Len(iov) => more = iov)
    BY <2>2, PartOf
  <2>4. d2 \in Seq(Cell) /\ Kept(d2, W)
    BY <2>3, ConcatProperties, KeptMore
  <2>5. ASSUME c2 PROVE Whole(d2, W2)
    <3>1. Good(d, W, j, n) /\ more = iov
      BY <2>3, <2>5
    <3>2. ~Ready(d, W, j) /\ ~Short(d, W, j, n)
      BY <1>6, <1>A, <2>0, Shapes DEF Ready, Short, Doing
    <3>3. PICK d0 \in Seq(Cell), t \in Pos, l \in DataLens :
            /\ Whole(d0, W)
            /\ \/ d = d0 /\ j = TagJob1(t, l)
               \/ d = Begun(d0, t, l) /\ j = TagJob2(t, l)
               \/ d = Filled(d0, t, l) /\ j = TagJob3(t, l)
      BY <1>A, <3>1, <3>2 DEF Good, InTag, Doing
    <3>4. d = Filled(d0, t, l) /\ t = tag /\ l = len
      BY <1>6, <3>3, Distinct
    <3>5. d2 = Ended(d0, tag, len)
      BY <2>1, <3>1, <3>4 DEF Ended
    <3> QED  BY <2>0, <2>1, <2>5, <3>3, <3>5, WholeNext
  <2>6. JobOK(Rest(j))
    BY <2>1 DEF JobOK
  <2>7. W2 \in Seq(Tag)
    BY <2>0, <2>1, AppendProperties
  <2>8. c2 => Good(d2, W2, Rest(j), n)
    BY <2>1, <2>5 DEF Good, Ready
  <2>9. Kept(d2, W2)
    BY <2>1, <2>4, <2>5, WholeKept
  <2> QED  BY <2>4, <2>6, <2>7, <2>8, <2>9
<1> QED  BY <1>A, <1>2, <1>3, <1>4, <1>5, <1>6 DEF JobOK, Written

-------------------------------------------------------------------------------
(* Descriptors.  NoDescriptorLost alone is not inductive: closing one of   *)
(* two writers with the same descriptor would lose the other's, and the    *)
(* process must not take the lowest free descriptor for one that is used.  *)
DescriptorInv ==
  /\ fd \in [Files -> {-1} \cup Pos]
  /\ opened \subseteq Nat /\ IsFiniteSet(opened)
  /\ own \subseteq opened
  /\ \A f \in Files : fd[f] # -1 => fd[f] \in opened /\ fd[f] \notin own
  /\ \A f, g \in Files : fd[f] # -1 /\ fd[f] = fd[g] => f = g
  /\ \A n \in opened : n \in own \/ \E f \in Files : fd[f] = n

(* There is always a lowest free descriptor.                               *)
LEMMA FreeFdFree ==
  ASSUME opened \subseteq Nat, IsFiniteSet(opened)
  PROVE  FreeFd \in Nat /\ FreeFd \notin opened
<1> DEFINE c == Cardinality(opened)
           T == (0..c) \ opened
<1>1. c \in Nat
  BY FS_CardinalityType
<1>2. T # {}
  <2> SUFFICES ASSUME T = {} PROVE FALSE
    OBVIOUS
  <2>1. 0..c \in SUBSET opened
    OBVIOUS
  <2>2. Cardinality(0..c) <= c
    BY <2>1, FS_Subset
  <2>3. Cardinality(0..c) = c + 1
    <3>1. 0 \in Int /\ c \in Int /\ ~(0 > c)
      BY <1>1
    <3> HIDE DEF c
    <3>2. Cardinality(0..c) = c - 0 + 1
      BY <3>1, FS_Interval
    <3> QED  BY <1>1, <3>2
  <2> HIDE DEF c
  <2> QED  BY <1>1, <2>2, <2>3
<1>3. T \subseteq Nat
  OBVIOUS
<1> HIDE DEF T
<1>4. PICK x \in T : \A y \in T : x <= y
  BY <1>2, <1>3, Least
<1>5. x \in 0..c /\ x \notin opened /\ \A m \in 0..(x - 1) : m \in opened
  <2>1. x \in 0..c /\ x \notin opened /\ x \in Nat
    BY <1>3, <1>4 DEF T
  <2>2. ASSUME NEW m \in 0..(x - 1) PROVE m \in opened
    <3>1. m \in 0..c /\ ~(x <= m)
      BY <1>1, <2>1
    <3> QED  BY <1>4, <3>1 DEF T
  <2> QED  BY <2>1, <2>2
<1>6. FreeFd \in 0..c /\ FreeFd \notin opened
  BY <1>5 DEF FreeFd
<1> QED  BY <1>1, <1>6

LEMMA DescriptorInit == Init => DescriptorInv
<1> SUFFICES ASSUME Init PROVE DescriptorInv
  OBVIOUS
<1>1. fd = [f \in Files |-> -1] /\ opened = Own /\ own = Own
  BY DEF Init
<1>2. Own \subseteq Nat /\ IsFiniteSet(Own)
  BY WriterAssumption
<1> QED  BY <1>1, <1>2 DEF DescriptorInv

LEMMA DescriptorNext == DescriptorInv /\ [Next]_vars => DescriptorInv'
<1> SUFFICES ASSUME DescriptorInv, [Next]_vars PROVE DescriptorInv'
  OBVIOUS
<1>0. /\ fd \in [Files -> {-1} \cup Pos]
      /\ opened \subseteq Nat /\ IsFiniteSet(opened)
      /\ own \subseteq opened
      /\ \A f \in Files : fd[f] # -1 => fd[f] \in opened /\ fd[f] \notin own
      /\ \A f, g \in Files : fd[f] # -1 /\ fd[f] = fd[g] => f = g
      /\ \A n \in opened : n \in own \/ \E f \in Files : fd[f] = n
  BY DEF DescriptorInv
<1>1. CASE UNCHANGED <<fd, opened, own>>
  BY <1>1 DEF DescriptorInv
<1>2. ASSUME NEW f \in Files, OpenWrite(f) PROVE DescriptorInv'
  <2>1. FreeFd \in Nat /\ FreeFd \notin opened /\ own' = own
    BY <1>0, <1>2, FreeFdFree DEF OpenWrite
  <2>2. CASE FreeFd > 0
    <3> DEFINE n == FreeFd
    <3>1. fd' = [fd EXCEPT ![f] = n] /\ opened' = opened \cup {n}
      BY <1>2, <2>2 DEF OpenWrite
    <3>2. n \in Pos /\ n \notin opened /\ fd[f] = -1
      BY <1>2, <2>1, <2>2 DEF Pos, OpenWrite
    <3> HIDE DEF n
    <3>3. /\ fd' \in [Files -> {-1} \cup Pos] /\ opened' \subseteq Nat /\ own' \subseteq opened'
          /\ fd'[f] = n /\ \A g \in Files : g # f => fd'[g] = fd[g]
      BY <1>0, <2>1, <3>1, <3>2 DEF Pos
    <3>4. IsFiniteSet(opened')
      BY <1>0, <3>1, FS_AddElement
    <3>5. \A g \in Files : fd'[g] # -1 => fd'[g] \in opened' /\ fd'[g] \notin own'
      BY <1>0, <2>1, <3>1, <3>2, <3>3
    <3>6. \A g, h \in Files : fd'[g] # -1 /\ fd'[g] = fd'[h] => g = h
      BY <1>0, <3>2, <3>3
    <3>7. ASSUME NEW m \in opened' PROVE m \in own' \/ \E g \in Files : fd'[g] = m
      <4>1. CASE m = n
        BY <3>3, <4>1
      <4>2. CASE m # n
        <5>1. m \in opened /\ m # -1
          BY <1>0, <3>1, <4>2
        <5> QED  BY <1>0, <2>1, <3>2, <3>3, <5>1
      <4> QED  BY <4>1, <4>2
    <3> QED  BY <3>3, <3>4, <3>5, <3>6, <3>7 DEF DescriptorInv
  <2>3. CASE ~(FreeFd > 0)
    <3>1. FreeFd = 0
      BY <2>1, <2>3
    <3>2. fd' = fd /\ opened' = AfterClose(0, opened \cup {0})
      BY <1>2, <2>3, <3>1 DEF OpenWrite
    <3>3. opened' = opened
      BY <2>1, <3>1, <3>2 DEF AfterClose, Closes
    <3> QED  BY <2>1, <3>2, <3>3 DEF DescriptorInv
  <2> QED  BY <2>2, <2>3
<1>3. ASSUME NEW f \in Files, Close(f) PROVE DescriptorInv'
  <2> DEFINE n == fd[f]
  <2>1. /\ n > 0 /\ own' = own /\ fd' = [fd EXCEPT ![f] = -1]
        /\ opened' = AfterClose(n, opened)
    BY <1>3 DEF Close
  <2>2. n \in Pos /\ n # -1
    BY <1>0, <2>1 DEF Pos
  <2> HIDE DEF n
  <2>3. opened' = opened \ {n}
    <3>1. n >= 0
      BY <2>2 DEF Pos
    <3> QED  BY <2>1, <3>1 DEF AfterClose, Closes
  <2>4. /\ fd' \in [Files -> {-1} \cup Pos] /\ opened' \subseteq Nat
        /\ fd'[f] = -1 /\ \A g \in Files : g # f => fd'[g] = fd[g]
    BY <1>0, <2>1, <2>3
  <2>5. IsFiniteSet(opened')
    BY <1>0, <2>3, FS_RemoveElement
  <2>6. n = fd[f] /\ n \notin own
    BY <1>0, <2>2 DEF n
  <2>7. own' \subseteq opened'
    BY <1>0, <2>1, <2>3, <2>6
  <2>8. \A g \in Files : fd'[g] # -1 => fd'[g] \in opened' /\ fd'[g] \notin own'
    BY <1>0, <2>1, <2>2, <2>3, <2>4, <2>6
  <2>9. \A g, h \in Files : fd'[g] # -1 /\ fd'[g] = fd'[h] => g = h
    BY <1>0, <2>4
  <2>10. ASSUME NEW m \in opened' PROVE m \in own' \/ \E g \in Files : fd'[g] = m
    <3>1. m \in opened /\ m # n
      BY <2>3
    <3> QED  BY <1>0, <2>1, <2>4, <2>6, <3>1
  <2> QED  BY <2>4, <2>5, <2>7, <2>8, <2>9, <2>10 DEF DescriptorInv
<1>4. CASE Crash
  <2>1. fd' = [f \in Files |-> -1] /\ opened' = Own /\ own' = Own
    BY <1>4 DEF Crash
  <2>2. Own \subseteq Nat /\ IsFiniteSet(Own)
    BY WriterAssumption
  <2> QED  BY <2>1, <2>2 DEF DescriptorInv
<1>5. CASE StandardInput
  <2>1. fd' = fd
    BY <1>5 DEF StandardInput
  <2>2. \A f \in Files : fd[f] # 0
    BY <1>0 DEF Pos
  <2>3. CASE 0 \in own /\ own' = own \ {0} /\ opened' = opened \ {0}
    <3>1. IsFiniteSet(opened')
      BY <1>0, <2>3, FS_RemoveElement
    <3>2. opened' \subseteq Nat /\ own' \subseteq opened'
      BY <1>0, <2>3
    <3>3. \A f \in Files : fd'[f] # -1 => fd'[f] \in opened' /\ fd'[f] \notin own'
      BY <1>0, <2>1, <2>2, <2>3
    <3>4. \A m \in opened' : m \in own' \/ \E g \in Files : fd'[g] = m
      BY <1>0, <2>1, <2>3
    <3> QED  BY <1>0, <2>1, <3>1, <3>2, <3>3, <3>4 DEF DescriptorInv
  <2>4. CASE 0 \notin opened /\ own' = own \cup {0} /\ opened' = opened \cup {0}
    <3>1. IsFiniteSet(opened')
      BY <1>0, <2>4, FS_AddElement
    <3>2. opened' \subseteq Nat /\ own' \subseteq opened'
      BY <1>0, <2>4
    <3>3. \A f \in Files : fd'[f] # -1 => fd'[f] \in opened' /\ fd'[f] \notin own'
      BY <1>0, <2>1, <2>2, <2>4
    <3>4. \A m \in opened' : m \in own' \/ \E g \in Files : fd'[g] = m
      BY <1>0, <2>1, <2>4
    <3> QED  BY <1>0, <2>1, <3>1, <3>2, <3>3, <3>4 DEF DescriptorInv
  <2> QED  BY <1>5, <2>3, <2>4 DEF StandardInput
<1>6. ASSUME NEW f \in Files, Write(f) \/ WriteFails(f) \/ \E len \in DataLens : WriteTag(f, len)
      PROVE  UNCHANGED <<fd, opened, own>>
  BY <1>6 DEF Write, WriteFails, WriteTag
<1>7. Others \/ UNCHANGED vars => UNCHANGED <<fd, opened, own>>
  BY DEF Others, vars
<1> QED  BY <1>1, <1>2, <1>3, <1>4, <1>5, <1>6, <1>7 DEF Next

LEMMA DescriptorsKept == DescriptorInv => NoDescriptorLost
<1> SUFFICES ASSUME DescriptorInv PROVE NoDescriptorLost
  OBVIOUS
<1>0. /\ fd \in [Files -> {-1} \cup Pos]
      /\ opened \subseteq Nat /\ own \subseteq opened
      /\ \A f \in Files : fd[f] # -1 => fd[f] \in opened
      /\ \A n \in opened : n \in own \/ \E f \in Files : fd[f] = n
  BY DEF DescriptorInv
<1> DEFINE U == {g \in Files : fd[g] >= 0}
<1>1. ASSUME NEW n \in opened PROVE n \in own \cup {fd[f] : f \in U}
  <2>1. CASE n \in own
    BY <2>1
  <2>2. CASE n \notin own
    <3>1. PICK f \in Files : fd[f] = n
      BY <1>0, <2>2
    <3>2. f \in U
      BY <1>0, <3>1
    <3> QED  BY <3>1, <3>2
  <2> QED  BY <2>1, <2>2
<1>2. ASSUME NEW f \in U PROVE fd[f] \in opened
  BY <1>0 DEF Pos
<1> HIDE DEF U
<1>3. opened = own \cup {fd[f] : f \in U}
  BY <1>0, <1>1, <1>2
<1> QED  BY <1>3 DEF NoDescriptorLost, U

(* Whatever is opened, closed, fails or dies, in any order, the process's  *)
(* descriptors are its own and those of the open files, each one once, and *)
(* there is always one for the next file.                                  *)
THEOREM Descriptors == Spec => []NoDescriptorLost
<1>1. Init => DescriptorInv
  BY DescriptorInit
<1>2. DescriptorInv /\ [Next]_vars => DescriptorInv'
  BY DescriptorNext
<1>3. DescriptorInv => NoDescriptorLost
  BY DescriptorsKept
<1> QED  BY <1>1, <1>2, <1>3, PTL DEF Spec

-------------------------------------------------------------------------------
(* Files.  What a reader gets of the file that is being written depends on *)
(* how far the call in progress came, so the inductive invariant says what *)
(* the file looks like at each point of it.                                *)
FileTypes ==
  /\ fd \in [Files -> {-1} \cup Pos]
  /\ job = [f \in Files |-> job[f]] /\ \A f \in Files : JobOK(job[f])
  /\ disk \in [Files -> Seq(Cell)]
  /\ room \in Nat
  /\ tags \in [Files -> Nat]
  /\ clean \in [Files -> BOOLEAN]
  /\ whole \in [Files -> Seq(Tag)]

FileOK(f) ==
  /\ clean[f] => Good(disk[f], whole[f], job[f], fd[f])
  /\ Kept(disk[f], whole[f])

FilesInv == FileTypes /\ \A f \in Files : FileOK(f)

LEMMA FilesInit == Init => FilesInv
<1> SUFFICES ASSUME Init PROVE FilesInv
  OBVIOUS
<1>1. /\ fd = [f \in Files |-> -1] /\ job = [f \in Files |-> NoJob]
      /\ disk = [f \in Files |-> <<>>] /\ room \in Nat /\ tags = [f \in Files |-> 0]
      /\ clean = [f \in Files |-> FALSE] /\ whole = [f \in Files |-> <<>>]
  BY WriterAssumption DEF Init
<1>2. <<>> \in Seq(Cell) /\ <<>> \in Seq(Tag)
  BY EmptySeq
<1>3. FileTypes
  BY <1>1, <1>2 DEF FileTypes, JobOK
<1>4. \A f \in Files : FileOK(f)
  BY <1>1 DEF FileOK, Kept
<1> QED  BY <1>3, <1>4 DEF FilesInv

(* A file that a step leaves alone.                                        *)
LEMMA OtherFile ==
  ASSUME NEW f \in Files, FileOK(f),
         disk'[f] = disk[f], whole'[f] = whole[f], clean'[f] = clean[f],
         job'[f] = job[f], fd'[f] = fd[f]
  PROVE  FileOK(f)'
BY DEF FileOK

LEMMA OpenFile ==
  ASSUME FilesInv, DescriptorInv, NEW f \in Files, OpenWrite(f)
  PROVE  FilesInv'
<1>0. FileTypes /\ \A g \in Files : FileOK(g)
  BY DEF FilesInv
<1>1. /\ disk' = [disk EXCEPT ![f] = <<>>] /\ room' = room + Len(disk[f])
      /\ tags' = [tags EXCEPT ![f] = 0] /\ whole' = [whole EXCEPT ![f] = <<>>]
      /\ clean' = [clean EXCEPT ![f] = TRUE]
      /\ fd[f] = -1 /\ job[f] = NoJob
  BY DEF OpenWrite, Idle
<1>2. FreeFd \in Nat
  BY FreeFdFree DEF DescriptorInv
<1>3. /\ disk'[f] = <<>> /\ whole'[f] = <<>>
      /\ \A g \in Files : g # f => /\ disk'[g] = disk[g] /\ whole'[g] = whole[g]
                                   /\ clean'[g] = clean[g]
  BY <1>0, <1>1 DEF FileTypes
<1>4. /\ fd' \in [Files -> {-1} \cup Pos]
      /\ job' = [g \in Files |-> job'[g]]
      /\ \A g \in Files : g # f => fd'[g] = fd[g] /\ job'[g] = job[g]
      /\ Doing(job'[f], fd'[f], HeaderJob1)
  <2>1. CASE FreeFd > 0
    <3>1. fd' = [fd EXCEPT ![f] = FreeFd] /\ job' = [job EXCEPT ![f].iovs = HeaderIovs]
      BY <2>1 DEF OpenWrite
    <3>2. FreeFd \in Pos
      BY <1>2, <2>1 DEF Pos
    <3>3. job'[f] = [NoJob EXCEPT !.iovs = HeaderIovs]
      BY <1>0, <1>1, <3>1 DEF FileTypes
    <3>4. job'[f] = HeaderJob1
      BY <3>3 DEF NoJob, HeaderJob1
    <3>5. fd' \in [Files -> {-1} \cup Pos] /\ \A g \in Files : g # f => fd'[g] = fd[g]
      BY <1>0, <3>1, <3>2 DEF FileTypes
    <3>6. DOMAIN job = Files
      BY <1>0 DEF FileTypes
    <3>7. job' = [g \in Files |-> job'[g]] /\ \A g \in Files : g # f => job'[g] = job[g]
      BY <3>1, <3>6
    <3> QED  BY <3>4, <3>5, <3>7 DEF Doing
  <2>2. CASE ~(FreeFd > 0)
    <3>1. fd' = fd /\ job' = job
      BY <2>2 DEF OpenWrite
    <3> QED  BY <1>0, <1>1, <3>1 DEF FileTypes, Doing
  <2> QED  BY <2>1, <2>2
<1>5. FileTypes'
  <2>1. <<>> \in Seq(Cell) /\ <<>> \in Seq(Tag) /\ Len(disk[f]) \in Nat
    BY <1>0, EmptySeq DEF FileTypes
  <2>2. room' \in Nat
    <3>1. room \in Nat
      BY <1>0 DEF FileTypes
    <3> QED  BY ONLY <1>1, <2>1, <3>1
  <2>3. \A g \in Files : JobOK(job'[g])
    BY <1>0, <1>4 DEF FileTypes, JobOK, Doing
  <2>4. disk' \in [Files -> Seq(Cell)] /\ whole' \in [Files -> Seq(Tag)]
    BY <1>0, <1>1, <2>1 DEF FileTypes
  <2>5. tags' \in [Files -> Nat] /\ clean' \in [Files -> BOOLEAN]
    BY <1>0, <1>1 DEF FileTypes
  <2> QED  BY <1>4, <2>2, <2>3, <2>4, <2>5 DEF FileTypes
<1>6. FileOK(f)'
  <2>1. Good(disk'[f], whole'[f], job'[f], fd'[f])
    BY <1>3, <1>4 DEF Good, Short
  <2>2. Kept(disk'[f], whole'[f])
    BY <1>3 DEF Kept
  <2> QED  BY <2>1, <2>2 DEF FileOK
<1>7. ASSUME NEW g \in Files, g # f PROVE FileOK(g)'
  BY <1>0, <1>3, <1>4, <1>7, OtherFile
<1> QED  BY <1>5, <1>6, <1>7 DEF FilesInv

LEMMA WriteTagFile ==
  ASSUME FilesInv, NEW f \in Files, NEW len \in DataLens, WriteTag(f, len)
  PROVE  FilesInv'
<1>0. FileTypes /\ \A g \in Files : FileOK(g)
  BY DEF FilesInv
<1> DEFINE t == tags[f] + 1
<1>1. /\ tags' = [tags EXCEPT ![f] = @ + 1]
      /\ job' = [job EXCEPT ![f] = [tag |-> tags'[f], len |-> len, iovs |-> TagIovs(tags'[f], len)]]
      /\ fd' = fd /\ disk' = disk /\ room' = room /\ clean' = clean /\ whole' = whole
      /\ fd[f] > 0 /\ job[f] = NoJob
  BY DEF WriteTag, Idle
<1>2. tags'[f] = t /\ t \in Pos /\ tags' \in [Files -> Nat]
  <2>1. tags \in [Files -> Nat]
    BY <1>0 DEF FileTypes
  <2>2. tags' = [tags EXCEPT ![f] = t]
    BY <1>1
  <2>3. t \in Nat /\ t \in Pos
    BY <2>1 DEF Pos
  <2> HIDE DEF t
  <2> QED  BY <2>1, <2>2, <2>3
<1> HIDE DEF t
<1>3. [tag |-> t, len |-> len, iovs |-> TagIovs(t, len)] = TagJob1(t, len)
  BY DEF TagJob1, TagIovs, HeadOf, DataOf, SizeOf, DataSize
<1>4. /\ job'[f] = TagJob1(t, len) /\ \A g \in Files : g # f => job'[g] = job[g]
      /\ job' = [g \in Files |-> job'[g]]
  <2>1. DOMAIN job = Files /\ job' = [job EXCEPT ![f] = TagJob1(t, len)]
    BY <1>0, <1>1, <1>2, <1>3 DEF FileTypes
  <2> QED  BY <2>1
<1>5. FileTypes'
  <2>1. \A g \in Files : JobOK(job'[g])
    BY <1>0, <1>2, <1>4 DEF FileTypes, JobOK
  <2> QED  BY <1>0, <1>1, <1>2, <1>4, <2>1 DEF FileTypes
<1>6. FileOK(f)'
  <2> SUFFICES ASSUME clean[f] PROVE Good(disk[f], whole[f], job'[f], fd[f])
    BY <1>0, <1>1 DEF FileOK
  <2>1. Good(disk[f], whole[f], NoJob, fd[f]) /\ fd[f] # -1
    BY <1>0, <1>1 DEF FileOK, FileTypes, Pos
  <2>2. \A tag, l : NoJob # TagJob1(tag, l) /\ NoJob # HeaderJob1 /\ NoJob # HeaderJob2
                    /\ NoJob # TagJob2(tag, l) /\ NoJob # TagJob3(tag, l)
    BY DEF NoJob, HeaderJob1, HeaderJob2, TagJob1, TagJob2, TagJob3, HeaderIovs
  <2>3. Whole(disk[f], whole[f])
    BY <2>1, <2>2 DEF Good, Short, Ready, InTag, Doing
  <2>4. disk[f] \in Seq(Cell)
    BY <1>0 DEF FileTypes
  <2>5. InTag(disk[f], whole[f], job'[f], fd[f])
    BY <1>2, <1>4, <2>3, <2>4 DEF InTag
  <2> QED  BY <2>5 DEF Good
<1>7. ASSUME NEW g \in Files, g # f PROVE FileOK(g)'
  BY <1>0, <1>1, <1>4, <1>7, OtherFile
<1> QED  BY <1>5, <1>6, <1>7 DEF FilesInv

LEMMA WriteFile ==
  ASSUME FilesInv, NEW f \in Files, Write(f)
  PROVE  FilesInv'
<1>0. FileTypes /\ \A g \in Files : FileOK(g)
  BY DEF FilesInv
<1> DEFINE j == job[f]
           iov == Head(j.iovs)
           n == IF Len(iov) <= room THEN Len(iov) ELSE room
           rest == Tail(j.iovs)
           this == [tag |-> j.tag, len |-> j.len]
           returns == rest = <<>> /\ j.tag # 0
<1>1. /\ j.iovs # <<>> /\ room > 0
      /\ disk' = [disk EXCEPT ![f] = @ \o SubSeq(iov, 1, n)]
      /\ room' = room - n
      /\ clean' = [clean EXCEPT ![f] = @ /\ n = Len(iov)]
      /\ job' = [job EXCEPT ![f] = IF rest = <<>> THEN NoJob ELSE [@ EXCEPT !.iovs = rest]]
      /\ whole' = [whole EXCEPT ![f] = IF returns /\ clean'[f] THEN Append(@, this) ELSE @]
      /\ fd' = fd /\ tags' = tags
  BY DEF Write
<1>2. JobOK(j) /\ FileOK(f) /\ room \in Nat
  BY <1>0 DEF FileTypes
<1>3. Len(iov) \in Nat
  <2>1. CASE j = NoJob
    BY <1>1, <2>1 DEF NoJob
  <2>2. CASE j = HeaderJob1
    BY <2>2, Pieces, HeaderTypes
  <2>3. CASE j = HeaderJob2
    BY <2>3, Pieces, HeaderTypes
  <2>4. ASSUME NEW tag \in Pos, NEW len \in DataLens,
               j = TagJob1(tag, len) \/ j = TagJob2(tag, len) \/ j = TagJob3(tag, len)
        PROVE  Len(iov) \in Nat
    <3>1. tag \in Nat /\ len \in Nat /\ HeadLen \in Nat /\ SizeLen \in Nat
      BY WriterAssumption DEF Pos
    <3>2. iov = HeadOf(tag, len) \/ iov = DataOf(tag, len) \/ iov = SizeOf(tag)
      BY <2>4, Pieces
    <3> QED  BY <3>1, <3>2, HeadType, DataType, SizeType
  <2> QED  BY <1>2, <2>1, <2>2, <2>3, <2>4 DEF JobOK
<1>4. n \in Nat /\ n <= Len(iov) /\ n <= room
  BY <1>2, <1>3
<1>5. room' \in Nat
  <2> HIDE DEF n
  <2> QED  BY <1>1, <1>2, <1>4
<1> HIDE DEF n
<1>6. disk'[f] = disk[f] \o SubSeq(iov, 1, n) /\ \A g \in Files : g # f => disk'[g] = disk[g]
  BY <1>0, <1>1 DEF FileTypes
<1>7. job'[f] = Rest(j) /\ \A g \in Files : g # f => job'[g] = job[g]
  BY <1>0, <1>1 DEF FileTypes, Rest
<1>8. /\ clean' \in [Files -> BOOLEAN]
      /\ clean'[f] => clean[f] /\ n = Len(iov)
      /\ \A g \in Files : g # f => clean'[g] = clean[g]
  <2>1. clean \in [Files -> BOOLEAN]
    BY <1>0 DEF FileTypes
  <2> HIDE DEF iov, j
  <2> QED  BY <1>1, <2>1, Zenon
<1>9. /\ whole'[f] = IF rest = <<>> /\ j.tag # 0 /\ clean'[f] THEN Append(whole[f], this) ELSE whole[f]
      /\ \A g \in Files : g # f => whole'[g] = whole[g]
  <2>1. whole \in [Files -> Seq(Tag)]
    BY <1>0 DEF FileTypes
  <2> HIDE DEF j, this
  <2> QED  BY <1>1, <2>1
<1>10. /\ JobOK(job'[f]) /\ disk'[f] \in Seq(Cell) /\ whole'[f] \in Seq(Tag)
       /\ clean'[f] => Good(disk'[f], whole'[f], job'[f], fd[f])
       /\ Kept(disk'[f], whole'[f])
  <2>1. disk[f] \in Seq(Cell) /\ whole[f] \in Seq(Tag) /\ clean[f] \in BOOLEAN /\ clean'[f] \in BOOLEAN
    BY <1>0, <1>8 DEF FileTypes
  <2>2. /\ clean[f] => Good(disk[f], whole[f], j, fd[f])
        /\ Kept(disk[f], whole[f])
    BY <1>2 DEF FileOK
  <2> HIDE DEF j
  <2> DEFINE d == disk[f]
             W == whole[f]
             c2 == clean'[f]
             d2 == disk'[f]
             W2 == whole'[f]
             m == fd[f]
  <2>3. d \in Seq(Cell) /\ W \in Seq(Tag) /\ JobOK(j) /\ j.iovs # <<>> /\ Kept(d, W)
    BY <1>1, <1>2, <2>1, <2>2
  <2>5. n \in Nat /\ n <= Len(Head(j.iovs))
    BY <1>4
  <2>6. c2 \in BOOLEAN
    BY <2>1
  <2>4. c2 => Good(d, W, j, m) /\ n = Len(Head(j.iovs))
    BY <1>8, <2>2
  <2>7. d2 = d \o SubSeq(Head(j.iovs), 1, n)
    BY <1>6
  <2>8. W2 = IF Tail(j.iovs) = <<>> /\ j.tag # 0 /\ c2
             THEN Append(W, [tag |-> j.tag, len |-> j.len]) ELSE W
    BY <1>9
  <2> HIDE DEF d, W, c2, d2, W2, m
  <2>9. Writing(d, W, m, j, n, c2, d2, W2)
    BY ONLY <2>3, <2>4, <2>5, <2>6, <2>7, <2>8 DEF Writing
  <2>10. Written(W2, Rest(j), m, c2, d2)
    BY <2>9, WriteGood
  <2> QED  BY <1>7, <2>10 DEF d2, W2, c2, m, Written
<1>11. FileTypes'
  <2>1. disk' \in [Files -> Seq(Cell)] /\ whole' \in [Files -> Seq(Tag)]
    <3>1. disk' = [disk EXCEPT ![f] = disk'[f]] /\ whole' = [whole EXCEPT ![f] = whole'[f]]
      BY <1>0, <1>1, <1>6, <1>9 DEF FileTypes
    <3> QED  BY <1>0, <1>10, <3>1 DEF FileTypes
  <2>2. job' = [g \in Files |-> job'[g]]
    BY <1>0, <1>1 DEF FileTypes
  <2>3. \A g \in Files : JobOK(job'[g])
    BY <1>0, <1>7, <1>10 DEF FileTypes
  <2>4. fd' \in [Files -> {-1} \cup Pos] /\ tags' \in [Files -> Nat]
    BY <1>0, <1>1 DEF FileTypes
  <2> QED  BY <1>5, <1>8, <2>1, <2>2, <2>3, <2>4 DEF FileTypes
<1>12. FileOK(f)'
  <2>1. fd'[f] = fd[f]
    BY <1>1
  <2> QED  BY <1>10, <2>1 DEF FileOK
<1>13. ASSUME NEW g \in Files, g # f PROVE FileOK(g)'
  BY <1>0, <1>1, <1>6, <1>7, <1>8, <1>9, <1>13, OtherFile
<1> QED  BY <1>11, <1>12, <1>13 DEF FilesInv

(* A call that fails with nothing of its tag written leaves a file that    *)
(* ends with a whole tag.                                                  *)
LEMMA FailFile ==
  ASSUME FilesInv, NEW f \in Files, WriteFails(f)
  PROVE  FilesInv'
<1>0. FileTypes /\ \A g \in Files : FileOK(g)
  BY DEF FilesInv
<1>1. /\ job' = [job EXCEPT ![f] = NoJob]
      /\ clean' = [clean EXCEPT ![f] = @ /\ Untouched(job[f])]
      /\ fd' = fd /\ disk' = disk /\ room' = room /\ tags' = tags /\ whole' = whole
  BY DEF WriteFails
<1>2. job'[f] = NoJob /\ \A g \in Files : g # f => job'[g] = job[g]
  BY <1>0, <1>1 DEF FileTypes
<1>3. /\ clean' \in [Files -> BOOLEAN]
      /\ clean'[f] => clean[f] /\ Untouched(job[f])
      /\ \A g \in Files : g # f => clean'[g] = clean[g]
  <2>1. clean \in [Files -> BOOLEAN]
    BY <1>0 DEF FileTypes
  <2>2. Untouched(job[f]) \in BOOLEAN
    BY DEF Untouched
  <2> QED  BY <1>1, <2>1, <2>2, Zenon
<1>4. FileTypes'
  <2>1. job' = [g \in Files |-> job'[g]]
    BY <1>0, <1>1 DEF FileTypes
  <2>2. \A g \in Files : JobOK(job'[g])
    BY <1>0, <1>2 DEF FileTypes, JobOK
  <2> QED  BY <1>0, <1>1, <1>3, <2>1, <2>2 DEF FileTypes
<1>5. FileOK(f)'
  <2>1. Kept(disk'[f], whole'[f])
    BY <1>0, <1>1 DEF FileOK
  <2>2. ASSUME clean'[f] PROVE Good(disk'[f], whole'[f], job'[f], fd'[f])
    <3>1. /\ Good(disk[f], whole[f], job[f], fd[f])
          /\ job[f].tag # 0 /\ Len(job[f].iovs) = 3
      BY <1>0, <1>3, <2>2 DEF FileOK, Untouched
    <3>2. Len(NoJob.iovs) = 0
      BY DEF NoJob
    <3>3. Whole(disk[f], whole[f])
      <4>1. ~Short(disk[f], whole[f], job[f], fd[f])
        BY <3>1, Shapes DEF Short, Doing
      <4>2. ~Ready(disk[f], whole[f], job[f])
        BY <3>1, Shapes DEF Ready
      <4>3. InTag(disk[f], whole[f], job[f], fd[f])
        BY <3>1, <4>1, <4>2 DEF Good
      <4>4. PICK d0 \in Seq(Cell), tag \in Pos, len \in DataLens :
              /\ Whole(d0, whole[f])
              /\ \/ disk[f] = d0 /\ job[f] = TagJob1(tag, len)
                 \/ disk[f] = Begun(d0, tag, len) /\ Doing(job[f], fd[f], TagJob2(tag, len))
                 \/ disk[f] = Filled(d0, tag, len) /\ Doing(job[f], fd[f], TagJob3(tag, len))
        BY <4>3 DEF InTag
      <4>5. Len(TagJob2(tag, len).iovs) = 2 /\ Len(TagJob3(tag, len).iovs) = 1
        BY Shapes
      <4>6. job[f] # NoJob /\ job[f] # TagJob2(tag, len) /\ job[f] # TagJob3(tag, len)
        <5>1. ASSUME NEW j, Len(j.iovs) # 3 PROVE job[f] # j
          BY <3>1, <5>1
        <5>2. Len(NoJob.iovs) # 3 /\ Len(TagJob2(tag, len).iovs) # 3 /\ Len(TagJob3(tag, len).iovs) # 3
          BY <3>2, <4>5
        <5> QED  BY <5>1, <5>2
      <4> QED  BY ONLY <4>4, <4>6 DEF Doing
    <3> QED  BY <1>1, <1>2, <3>3 DEF Good, Ready
  <2> QED  BY <2>1, <2>2 DEF FileOK
<1>6. ASSUME NEW g \in Files, g # f PROVE FileOK(g)'
  BY <1>0, <1>1, <1>2, <1>3, <1>6, OtherFile
<1> QED  BY <1>4, <1>5, <1>6 DEF FilesInv

LEMMA CloseFile ==
  ASSUME FilesInv, NEW f \in Files, Close(f)
  PROVE  FilesInv'
<1>0. FileTypes /\ \A g \in Files : FileOK(g)
  BY DEF FilesInv
<1>1. /\ fd' = [fd EXCEPT ![f] = -1] /\ fd[f] > 0 /\ job[f] = NoJob
      /\ job' = job /\ disk' = disk /\ room' = room /\ tags' = tags /\ clean' = clean /\ whole' = whole
  BY DEF Close, Idle
<1>2. fd'[f] = -1 /\ \A g \in Files : g # f => fd'[g] = fd[g]
  BY <1>0, <1>1 DEF FileTypes
<1>3. FileTypes'
  BY <1>0, <1>1 DEF FileTypes
<1>4. FileOK(f)'
  <2> SUFFICES ASSUME clean[f] PROVE Good(disk[f], whole[f], NoJob, -1)
    BY <1>0, <1>1, <1>2 DEF FileOK
  <2>1. Good(disk[f], whole[f], NoJob, fd[f])
    BY <1>0, <1>1 DEF FileOK
  <2> QED  BY <2>1 DEF Good, Short, Ready, InTag, Doing
<1>5. ASSUME NEW g \in Files, g # f PROVE FileOK(g)'
  BY <1>0, <1>1, <1>2, <1>5, OtherFile
<1> QED  BY <1>3, <1>4, <1>5 DEF FilesInv

(* The process may die at any point of a call.                             *)
LEMMA CrashFiles ==
  ASSUME FilesInv, Crash
  PROVE  FilesInv'
<1>0. FileTypes /\ \A g \in Files : FileOK(g)
  BY DEF FilesInv
<1>1. /\ fd' = [f \in Files |-> -1] /\ job' = [f \in Files |-> NoJob]
      /\ disk' = disk /\ room' = room /\ tags' = tags /\ clean' = clean /\ whole' = whole
  BY DEF Crash
<1>2. FileTypes'
  BY <1>0, <1>1 DEF FileTypes, JobOK
<1>3. ASSUME NEW f \in Files PROVE FileOK(f)'
  <2>1. fd'[f] = -1 /\ job'[f] = NoJob
    BY <1>1
  <2> SUFFICES ASSUME clean[f] PROVE Good(disk[f], whole[f], NoJob, -1)
    BY <1>0, <1>1, <2>1 DEF FileOK
  <2>2. Good(disk[f], whole[f], job[f], fd[f]) /\ disk[f] \in Seq(Cell)
    BY <1>0 DEF FileOK, FileTypes
  <2>3. CASE Short(disk[f], whole[f], job[f], fd[f])
    BY <2>3 DEF Good, Short, Doing
  <2>4. CASE Ready(disk[f], whole[f], job[f])
    BY <2>4 DEF Good, Ready
  <2>5. CASE InTag(disk[f], whole[f], job[f], fd[f])
    <3>1. PICK d0 \in Seq(Cell), tag \in Pos, len \in DataLens :
            /\ Whole(d0, whole[f])
            /\ disk[f] = d0 \/ disk[f] = Begun(d0, tag, len) \/ disk[f] = Filled(d0, tag, len)
      BY <2>5 DEF InTag
    <3>2. CASE disk[f] = d0
      BY <3>1, <3>2 DEF Good, Ready
    <3>3. CASE disk[f] # d0
      <4>1. InTag(disk[f], whole[f], NoJob, -1)
        BY <3>1, <3>3 DEF InTag, Doing
      <4> QED  BY <4>1 DEF Good
    <3> QED  BY <3>2, <3>3
  <2> QED  BY <2>2, <2>3, <2>4, <2>5 DEF Good
<1> QED  BY <1>2, <1>3 DEF FilesInv

LEMMA FilesNext == DescriptorInv /\ FilesInv /\ [Next]_vars => FilesInv'
<1> SUFFICES ASSUME DescriptorInv, FilesInv, [Next]_vars PROVE FilesInv'
  OBVIOUS
<1>0. FileTypes /\ \A g \in Files : FileOK(g)
  BY DEF FilesInv
<1>1. ASSUME UNCHANGED <<fd, job, disk, tags, clean, whole>>, room' \in Nat PROVE FilesInv'
  <2>1. FileTypes'
    BY <1>0, <1>1 DEF FileTypes
  <2>2. ASSUME NEW f \in Files PROVE FileOK(f)'
    BY <1>0, <1>1, OtherFile
  <2> QED  BY <2>1, <2>2 DEF FilesInv
<1>2. CASE Others
  <2>1. room' \in Nat
    BY <1>2, WriterAssumption DEF Others
  <2> QED  BY <1>1, <1>2, <2>1 DEF Others
<1>3. CASE StandardInput \/ UNCHANGED vars
  <2>1. room' \in Nat
    BY <1>0, <1>3 DEF StandardInput, vars, FileTypes
  <2> QED  BY <1>1, <1>3, <2>1 DEF StandardInput, vars
<1>4. CASE Crash
  BY <1>4, CrashFiles
<1>5. ASSUME NEW f \in Files,
             OpenWrite(f) \/ Write(f) \/ WriteFails(f) \/ Close(f) \/ \E len \in DataLens : WriteTag(f, len)
      PROVE  FilesInv'
  BY <1>5, OpenFile, WriteFile, FailFile, CloseFile, WriteTagFile
<1> QED  BY <1>2, <1>3, <1>4, <1>5 DEF Next

(* The tags that srs_flv_write_tag wrote before the first short or failed  *)
(* write() are read back first and in order, for any files, disk and       *)
(* lengths, whatever fails and dies; and nothing else as long as there was *)
(* no such write().                                                        *)
THEOREM TagsReadBack == Spec => []ReadsBack
<1> DEFINE Inv == DescriptorInv /\ FilesInv
<1>1. Init => Inv
  BY DescriptorInit, FilesInit
<1>2. Inv /\ [Next]_vars => Inv'
  BY DescriptorNext, FilesNext
<1>3. Inv => ReadsBack
  <2> SUFFICES ASSUME FilesInv, NEW f \in Files
               PROVE  /\ IsPrefix(whole[f], ReadTags(disk[f]))
                      /\ clean[f] => ReadTags(disk[f]) = whole[f]
    BY DEF ReadsBack
  <2>1. disk[f] \in Seq(Cell) /\ whole[f] \in Seq(Tag) /\ FileOK(f)
    BY DEF FilesInv, FileTypes
  <2> QED  BY <2>1, KeptReads, GoodReads DEF FileOK
<1> HIDE DEF Inv
<1> QED  BY <1>1, <1>2, <1>3, PTL DEF Spec

===============================================================================
