----------------------------- MODULE UmpProofs -----------------------------
(***************************************************************************)
(* Proofs about UmpCodec, for any messages: what a builder of midi2_msg.h  *)
(* writes, the typed dispatcher of midi2_dispatch.c calls the right        *)
(* callback for and hands back bit for bit, also when the words have been  *)
(* re-stamped with another group on their way.                             *)
(***************************************************************************)
EXTENDS ProcProofs

-----------------------------------------------------------------------------
(* What is read is what was written.  The bits of its word that a field    *)
(* fills, and two fields that share none.                                  *)
Span(f) == f.lo .. f.lo + f.width - 1
Apart(f, g) == f.word = g.word => f.lo + f.width <= g.lo \/ g.lo + g.width <= f.lo
PieceType(f) == f.from \in Nat /\ f.width \in Nat /\ f.lo \in Nat /\ f.word \in 0 .. 3
(* The bits of word 0 that hold the number of bytes, and those that hold   *)
(* bytes.                                                                  *)
Counted(L) == IF L.counts = "no" THEN {} ELSE 16 .. 19
TailBits(L) == IF L.room = 0 THEN {} ELSE 0 .. 31 - L.at
(* The fields, the header, the count and the bytes of a layout do not      *)
(* overlap.                                                                *)
Tidy(fields) == (\A f \in fields : PieceType(f)) /\ \A f, g \in fields : f = g \/ Apart(f, g)
Sound(L) ==
  /\ Tidy(L.fields)
  /\ \A f \in L.fields : \/ f.word # 0 /\ L.room = 0
                         \/ f.word = 0 /\ \A i \in Span(f) : i \notin L.mask \union L.const \union Counted(L) \union TailBits(L)
  /\ \A i \in L.mask \union L.const : i \notin Counted(L) \union TailBits(L)
  /\ L.room \in 0 .. 14 /\ L.at \in {0, 16, 24, 32}
  /\ L.room # 0 => L.at # 0 /\ L.at + 8 * L.room <= 128

(* Bit i of word w comes from byte j of the data.                          *)
FromByte(at, kept, j, w, i) == ByteWord(at, j) = w /\ i \in Int /\ i - ByteLo(at, j) \in kept[j]

(* The bits of a built message are those of its header, its count, its     *)
(* fields and its bytes.                                                   *)
LEMMA BuiltBits ==
  ASSUME NEW m, m.data \in Seq(Bytes8), Sound(Layouts[m.kind]), NEW w \in 0 .. 3, NEW i
  PROVE  LET L == Layouts[m.kind]
             kept == Fitting(L, m.data)
         IN  i \in Build(m)[w] <=>
               \/ w = 0 /\ i \in L.const
               \/ w = 0 /\ i \in CountBits(L, m.data)
               \/ \E f \in Written(m.kind, m.args) : Fills(f, m.args, w, i)
               \/ \E j \in 1 .. Len(kept) : FromByte(L.at, kept, j, w, i)
  <1> DEFINE L == Layouts[m.kind]
             kept == Fitting(L, m.data)
             num == CountBits(L, m.data)
             fields == Written(m.kind, m.args)
             P == Packed(fields, m.args, w)
             D == UNION {Put(kept[j], ByteLo(L.at, j)) :
                           j \in {k \in DOMAIN kept : ByteWord(L.at, k) = w}}
  <1>1. Build(m)[w] = (IF w = 0 THEN L.const \union num ELSE {}) \union P \union D
    BY DEF Build
  <1>2. i \in P <=> \E f \in fields : Fills(f, m.args, w, i)
    <2>1. fields \subseteq L.fields
      BY DEF Written
    <2>2. FieldType(fields)
      BY <2>1 DEF FieldType, Sound, Tidy, PieceType
    <2> HIDE DEF fields
    <2> QED
      BY <2>2, PackedBits
  <1>3. kept \in Seq(Bytes8) /\ L.at \in Nat
    <2>1. L.room \in 0 .. 14 /\ L.at \in Nat
      BY DEF Sound
    <2> HIDE DEF L
    <2> QED
      BY <2>1, KeptBytes
  <1>4. i \in D <=> \E j \in 1 .. Len(kept) : FromByte(L.at, kept, j, w, i)
    <2> DEFINE at == L.at
    <2>1. at \in Nat
      BY <1>3
    <2> HIDE DEF kept, at
    <2>2. DOMAIN kept = 1 .. Len(kept)
      BY <1>3
    <2>3. ASSUME NEW j \in 1 .. Len(kept)
          PROVE  i \in Put(kept[j], ByteLo(at, j)) <=> i \in Int /\ i - ByteLo(at, j) \in kept[j]
      <3>1. kept[j] \subseteq Int
        BY <1>3, <2>2, <2>3 DEF Bytes8
      <3>2. ByteLo(at, j) \in Int
        BY <2>1 DEF ByteLo
      <3> QED
        BY <3>1, <3>2, PutBits
    <2>4. i \in UNION {Put(kept[j], ByteLo(at, j)) : j \in {k \in DOMAIN kept : ByteWord(at, k) = w}}
            <=> \E j \in 1 .. Len(kept) : ByteWord(at, j) = w /\ i \in Put(kept[j], ByteLo(at, j))
      BY <2>2
    <2> QED
      BY <2>3, <2>4 DEF FromByte, at
  <1> HIDE DEF L, kept, num, fields, P, D
  <1>5. i \in Build(m)[w] <=>
               \/ w = 0 /\ i \in L.const
               \/ w = 0 /\ i \in num
               \/ \E f \in fields : Fills(f, m.args, w, i)
               \/ \E j \in 1 .. Len(kept) : FromByte(L.at, kept, j, w, i)
    BY <1>1, <1>2, <1>4
  <1> QED
    BY <1>5 DEF L, kept, num, fields

(* Where the bytes of a message lie: a byte of word 0 in the tail of it,   *)
(* and no two bytes together.                                              *)
LEMMA BytePlaces ==
  ASSUME NEW at \in {16, 24, 32}, NEW room \in 0 .. 14, at + 8 * room <= 128, NEW j \in 1 .. room
  PROVE  /\ ByteWord(at, j) \in 0 .. 3 /\ ByteLo(at, j) \in {0, 8, 16, 24}
         /\ 32 * ByteWord(at, j) + 24 - ByteLo(at, j) = at + 8 * (j - 1)
  <1> DEFINE p == at + 8 * (j - 1)
  <1>1. p \in {16, 24, 32, 40, 48, 56, 64, 72, 80, 88, 96, 104, 112, 120}
    <2> DEFINE q == at \div 8 + j - 1
    <2>1. at = 8 * (at \div 8) /\ at \div 8 \in {2, 3, 4}
      OBVIOUS
    <2>2. q \in 2 .. 15 /\ p = 8 * q
      BY <2>1
    <2> HIDE DEF q, p
    <2>3. q \in {2, 3, 4, 5, 6, 7, 8, 9, 10, 11, 12, 13, 14, 15}
      BY <2>2
    <2> QED
      BY <2>2, <2>3
  <1>2. ByteWord(at, j) = p \div 32 /\ ByteLo(at, j) = 24 - (p % 32)
    BY DEF ByteWord, ByteLo
  <1> HIDE DEF p
  <1>3. /\ p \in {16, 24} => p \div 32 = 0 /\ p % 32 = p
        /\ p \in {32, 40, 48, 56} => p \div 32 = 1 /\ p % 32 = p - 32
        /\ p \in {64, 72, 80, 88} => p \div 32 = 2 /\ p % 32 = p - 64
        /\ p \in {96, 104, 112, 120} => p \div 32 = 3 /\ p % 32 = p - 96
    OBVIOUS
  <1> DEFINE q == p \div 32
             r == p % 32
  <1>4. q \in 0 .. 3 /\ p = 32 * q + r /\ r \in {0, 8, 16, 24}
    <2> HIDE DEF q, r
    <2>1. /\ p \in {16, 24} => q = 0 /\ r = p
          /\ p \in {32, 40, 48, 56} => q = 1 /\ r = p - 32
          /\ p \in {64, 72, 80, 88} => q = 2 /\ r = p - 64
          /\ p \in {96, 104, 112, 120} => q = 3 /\ r = p - 96
      BY <1>3 DEF q, r
    <2> QED
      BY <1>1, <2>1
  <1>5. ByteWord(at, j) = q /\ ByteLo(at, j) = 24 - r
    BY <1>2
  <1> HIDE DEF q, r
  <1>6. /\ ByteWord(at, j) \in 0 .. 3 /\ ByteLo(at, j) \in {0, 8, 16, 24}
        /\ 32 * ByteWord(at, j) + 24 - ByteLo(at, j) = p
    BY <1>4, <1>5
  <1> QED
    BY <1>6 DEF p

(* A message keeps as many bytes as it has room for, each of eight bits.   *)
LEMMA KeptFit ==
  ASSUME NEW m, m.data \in Seq(Bytes8), Sound(Layouts[m.kind])
  PROVE  LET L == Layouts[m.kind]
             kept == Fitting(L, m.data)
         IN  kept \in Seq(Bytes8) /\ Len(kept) \in 0 .. L.room /\ L.room \in 0 .. 14
             /\ (\A j \in 1 .. Len(kept) : kept[j] \subseteq 0 .. 7)
             /\ (L.room # 0 => L.at \in {16, 24, 32} /\ L.at + 8 * L.room <= 128)
  <1> DEFINE L == Layouts[m.kind]
             kept == Fitting(L, m.data)
  <1>1. L.room \in 0 .. 14 /\ (L.room # 0 => L.at \in {16, 24, 32} /\ L.at + 8 * L.room <= 128)
    BY DEF Sound
  <1>2. kept \in Seq(Bytes8) /\ Len(kept) <= L.room
    <2> HIDE DEF L
    <2> QED
      BY <1>1, KeptBytes
  <1> HIDE DEF L, kept
  <1>3. Len(kept) \in 0 .. L.room
    <2>1. Len(kept) \in Nat
      BY <1>2
    <2> QED
      BY <1>1, <1>2, <2>1
  <1>4. \A j \in 1 .. Len(kept) : kept[j] \subseteq 0 .. 7
    BY <1>2 DEF Bytes8
  <1> QED
    BY <1>1, <1>2, <1>3, <1>4 DEF L, kept

(* The bits of the count, and of the bytes in word 0, stay where the       *)
(* layout has room for them.                                               *)
LEMMA CountPlace ==
  ASSUME NEW m, m.data \in Seq(Bytes8), Sound(Layouts[m.kind]), NEW i \in CountBits(Layouts[m.kind], m.data)
  PROVE  i \in Counted(Layouts[m.kind])
  <1> DEFINE L == Layouts[m.kind]
             kept == Fitting(L, m.data)
             n == Len(kept)
  <1>1. n \in 0 .. 14
    <2> DEFINE room == L.room
    <2>1. n \in 0 .. room /\ room \in 0 .. 14
      BY KeptFit
    <2> HIDE DEF n, room
    <2> QED
      BY <2>1
  <1>2. L.counts \in {"bytes", "bytes and stream_id"} /\ i \in Put(Bits(n), 16) \union Put(Bits(n + 1), 16)
    BY DEF CountBits
  <1> HIDE DEF n, L
  <1>3. ASSUME NEW k \in 0 .. 15, i \in Put(Bits(k), 16) PROVE i \in 16 .. 19
    <2> DEFINE x == Bits(k)
    <2>1. x \subseteq 0 .. 3
      BY LowBits
    <2>2. x \subseteq Int /\ 16 \in Int
      BY <2>1
    <2> HIDE DEF x
    <2>3. i \in Int /\ i - 16 \in x
      BY <1>3, <2>2, PutBits DEF x
    <2> QED
      BY <2>1, <2>3
  <1>4. n \in 0 .. 15 /\ n + 1 \in 0 .. 15
    BY <1>1
  <1>5. i \in 16 .. 19
    <2> DEFINE k == n + 1
    <2>1. k \in 0 .. 15
      BY <1>4
    <2>2. i \in Put(Bits(n), 16) \/ i \in Put(Bits(k), 16)
      BY <1>2
    <2> HIDE DEF k
    <2> QED
      BY <1>3, <1>4, <2>1, <2>2
  <1> QED
    BY <1>2, <1>5 DEF Counted, L

(* Where a byte of the data goes: only in a layout that has room for it,   *)
(* and never on a bit that the mask, a field or the count of bytes holds.  *)
LEMMA BytePlace ==
  ASSUME NEW m, m.data \in Seq(Bytes8), Sound(Layouts[m.kind]), NEW w \in 0 .. 3, NEW i,
         NEW j \in 1 .. Len(Fitting(Layouts[m.kind], m.data)),
         FromByte(Layouts[m.kind].at, Fitting(Layouts[m.kind], m.data), j, w, i)
  PROVE  /\ Layouts[m.kind].room # 0
         /\ w = 0 => i \in TailBits(Layouts[m.kind])
  <1> DEFINE L == Layouts[m.kind]
             kept == Fitting(L, m.data)
             at == L.at
             room == L.room
             lo == ByteLo(at, j)
  <1>1. /\ kept \in Seq(Bytes8) /\ Len(kept) \in 0 .. room /\ room \in 0 .. 14
        /\ \A k \in 1 .. Len(kept) : kept[k] \subseteq 0 .. 7
        /\ (room # 0 => at \in {16, 24, 32} /\ at + 8 * room <= 128)
    BY KeptFit
  <1>2. j \in 1 .. Len(kept) /\ ByteWord(at, j) = w /\ i \in Int /\ i - lo \in kept[j]
    BY DEF FromByte
  <1>3. i \in TailBits(L) <=> room # 0 /\ i \in 0 .. 31 - at
    BY DEF TailBits
  <1> HIDE DEF L, kept, at, room, lo
  <1>4. room # 0 /\ j \in 1 .. room
    <2> DEFINE n == Len(kept)
    <2>1. n \in 0 .. room /\ room \in 0 .. 14 /\ j \in 1 .. n
      BY <1>1, <1>2
    <2> HIDE DEF n
    <2> QED
      BY <2>1
  <1>5. lo \in {0, 8, 16, 24} /\ 32 * w + 24 - lo = at + 8 * (j - 1)
    BY <1>1, <1>2, <1>4, BytePlaces DEF lo
  <1>6. i - lo \in 0 .. 7
    BY <1>1, <1>2
  <1>7. w = 0 => i \in 0 .. 31 - at
    <2>1. at \in {16, 24, 32} /\ j \in Int /\ j >= 1
      BY <1>1, <1>4
    <2> QED
      BY <1>2, <1>5, <1>6, <2>1
  <1> QED
    BY <1>3, <1>4, <1>7 DEF L, room

(* The fields that are written are the layout's, all of them but for the   *)
(* bank of a program change that has none.                                 *)
LEMMA WrittenFields ==
  ASSUME NEW m, Sound(Layouts[m.kind])
  PROVE  /\ Written(m.kind, m.args) \subseteq Layouts[m.kind].fields
         /\ m.kind # "program" => Written(m.kind, m.args) = Layouts[m.kind].fields
  BY DEF Written

(* A bit that a field has is the field's alone: it is the argument's.      *)
LEMMA FieldRead ==
  ASSUME NEW m, m.data \in Seq(Bytes8), Sound(Layouts[m.kind]), NEW f \in Written(m.kind, m.args), NEW i \in Span(f)
  PROVE  i \in Build(m)[f.word] <=> f.from + (i - f.lo) \in m.args[f.arg]
  <1> DEFINE L == Layouts[m.kind]
             kept == Fitting(L, m.data)
             fields == Written(m.kind, m.args)
             w == f.word
  <1>1. fields \subseteq L.fields
    BY WrittenFields
  <1>2. /\ w \in 0 .. 3 /\ f \in L.fields
        /\ \/ w # 0 /\ L.room = 0
           \/ w = 0 /\ i \notin L.const /\ i \notin Counted(L) /\ i \notin TailBits(L)
    BY <1>1 DEF Sound, Tidy, PieceType
  <1>3. i \in Build(m)[w] <=>
               \/ w = 0 /\ i \in L.const
               \/ w = 0 /\ i \in CountBits(L, m.data)
               \/ \E g \in fields : Fills(g, m.args, w, i)
               \/ \E j \in 1 .. Len(kept) : FromByte(L.at, kept, j, w, i)
    BY <1>2, BuiltBits
  <1>4. ~ (w = 0 /\ i \in L.const) /\ ~ (w = 0 /\ i \in CountBits(L, m.data))
    <2>1. i \in CountBits(L, m.data) => i \in Counted(L)
      BY CountPlace
    <2> HIDE DEF L
    <2> QED
      BY <1>2, <2>1
  <1>5. ~ \E j \in 1 .. Len(kept) : FromByte(L.at, kept, j, w, i)
    <2> SUFFICES ASSUME NEW j \in 1 .. Len(kept), FromByte(L.at, kept, j, w, i) PROVE FALSE
      OBVIOUS
    <2>1. L.room # 0 /\ (w = 0 => i \in TailBits(L))
      BY <1>2, BytePlace
    <2> HIDE DEF L
    <2> QED
      BY <1>2, <2>1
  <1>6. ASSUME NEW g \in fields, Fills(g, m.args, w, i) PROVE g = f
    <2>1. g = f \/ Apart(f, g)
      BY <1>1, <1>2 DEF Sound, Tidy
    <2>2. g.word = w /\ i \in Span(g)
      BY <1>6 DEF Fills, Span
    <2>3. PieceType(f) /\ PieceType(g)
      BY <1>1, <1>2 DEF Sound, Tidy
    <2>4. CASE Apart(f, g)
      <3>1. /\ f.lo \in Nat /\ f.width \in Nat /\ g.lo \in Nat /\ g.width \in Nat
            /\ f.lo + f.width <= g.lo \/ g.lo + g.width <= f.lo
            /\ i \in f.lo .. f.lo + f.width - 1 /\ i \in g.lo .. g.lo + g.width - 1
        BY <2>2, <2>3, <2>4 DEF PieceType, Apart, Span
      <3> QED
        BY <3>1, SMTT(30)
    <2> QED
      BY <2>1, <2>4
  <1>7. Fills(f, m.args, w, i) <=> f.from + (i - f.lo) \in m.args[f.arg]
    BY DEF Fills, Span
  <1> HIDE DEF L, kept, fields, w
  <1>8. i \in Build(m)[w] <=> f.from + (i - f.lo) \in m.args[f.arg]
    BY <1>3, <1>4, <1>5, <1>6, <1>7 DEF fields
  <1> QED
    BY <1>8 DEF w

(* Bit i of word w is in none of the fields, nor of the count or bytes.    *)
Blank(L, fields, w, i) ==
  /\ \A f \in fields : f.word = w => i \notin Span(f)
  /\ \/ w # 0 /\ L.room = 0
     \/ w = 0 /\ i \notin Counted(L) /\ i \notin TailBits(L)

(* Any other bit is of the header.                                         *)
LEMMA BlankRead ==
  ASSUME NEW m, m.data \in Seq(Bytes8), Sound(Layouts[m.kind]), NEW w \in 0 .. 3, NEW i,
         Blank(Layouts[m.kind], Written(m.kind, m.args), w, i)
  PROVE  i \in Build(m)[w] <=> w = 0 /\ i \in Layouts[m.kind].const
  <1> DEFINE L == Layouts[m.kind]
             kept == Fitting(L, m.data)
             fields == Written(m.kind, m.args)
  <1>1. i \in Build(m)[w] <=>
               \/ w = 0 /\ i \in L.const
               \/ w = 0 /\ i \in CountBits(L, m.data)
               \/ \E g \in fields : Fills(g, m.args, w, i)
               \/ \E j \in 1 .. Len(kept) : FromByte(L.at, kept, j, w, i)
    BY BuiltBits
  <1>2. ~ (w = 0 /\ i \in CountBits(L, m.data))
    <2>1. i \in CountBits(L, m.data) => i \in Counted(L)
      BY CountPlace
    <2> HIDE DEF L
    <2> QED
      BY <2>1 DEF Blank, L
  <1>3. ~ \E j \in 1 .. Len(kept) : FromByte(L.at, kept, j, w, i)
    <2> SUFFICES ASSUME NEW j \in 1 .. Len(kept), FromByte(L.at, kept, j, w, i) PROVE FALSE
      OBVIOUS
    <2>1. L.room # 0 /\ (w = 0 => i \in TailBits(L))
      BY BytePlace
    <2> QED
      BY <2>1 DEF Blank
  <1>4. ~ \E g \in fields : Fills(g, m.args, w, i)
    BY DEF Blank, Fills, Span
  <1> HIDE DEF L, kept, fields
  <1>5. i \in Build(m)[w] <=> w = 0 /\ i \in L.const
    BY <1>1, <1>2, <1>3, <1>4
  <1> QED
    BY <1>5 DEF L

(* The bits that identify the message are the layout's.                    *)
LEMMA MaskRead ==
  ASSUME NEW m, m.data \in Seq(Bytes8), Sound(Layouts[m.kind])
  PROVE  Build(m)[0] \intersect Layouts[m.kind].mask = Layouts[m.kind].const \intersect Layouts[m.kind].mask
  <1> DEFINE L == Layouts[m.kind]
  <1> SUFFICES ASSUME NEW i \in L.mask PROVE i \in Build(m)[0] <=> i \in L.const
    OBVIOUS
  <1>1. \A f \in L.fields : f.word = 0 => i \notin Span(f)
    BY DEF Sound
  <1>2. i \notin Counted(L) /\ i \notin TailBits(L)
    BY DEF Sound
  <1>3. Written(m.kind, m.args) \subseteq L.fields
    BY WrittenFields
  <1>4. Blank(L, Written(m.kind, m.args), 0, i)
    <2> HIDE DEF L
    <2> QED
      BY <1>1, <1>2, <1>3 DEF Blank
  <1>5. i \in Build(m)[0] <=> 0 = 0 /\ i \in L.const
    BY <1>4, BlankRead
  <1> QED
    BY <1>5

(* The four bits of the count hold it.                                     *)
LEMMA CountRead ==
  ASSUME NEW m, m.data \in Seq(Bytes8), Sound(Layouts[m.kind]), Layouts[m.kind].counts # "no", NEW i \in 16 .. 19
  PROVE  i \in Build(m)[0] <=> i \in CountBits(Layouts[m.kind], m.data)
  <1> DEFINE L == Layouts[m.kind]
             kept == Fitting(L, m.data)
             fields == Written(m.kind, m.args)
  <1>1. i \in Build(m)[0] <=>
               \/ 0 = 0 /\ i \in L.const
               \/ 0 = 0 /\ i \in CountBits(L, m.data)
               \/ \E g \in fields : Fills(g, m.args, 0, i)
               \/ \E j \in 1 .. Len(kept) : FromByte(L.at, kept, j, 0, i)
    BY BuiltBits
  <1>2. i \in Counted(L)
    BY DEF Counted
  <1>3. i \notin L.const
    BY <1>2 DEF Sound
  <1>4. ~ \E g \in fields : Fills(g, m.args, 0, i)
    <2>1. fields \subseteq L.fields
      BY WrittenFields
    <2>2. \A g \in L.fields : g.word = 0 => i \notin Span(g)
      BY <1>2 DEF Sound
    <2> HIDE DEF fields, L
    <2> QED
      BY <2>1, <2>2 DEF Fills, Span
  <1>5. ~ \E j \in 1 .. Len(kept) : FromByte(L.at, kept, j, 0, i)
    <2> SUFFICES ASSUME NEW j \in 1 .. Len(kept), FromByte(L.at, kept, j, 0, i) PROVE FALSE
      OBVIOUS
    <2>0. 0 \in 0 .. 3 /\ L = Layouts[m.kind] /\ kept = Fitting(Layouts[m.kind], m.data)
      OBVIOUS
    <2>1. L.room # 0 /\ (0 = 0 => i \in TailBits(L))
      <3> HIDE DEF L, kept
      <3> QED
        BY <2>0, BytePlace
    <2>2. L.at \in {16, 24, 32}
      BY <2>1 DEF Sound
    <2>3. i \in 0 .. 31 - L.at
      BY <2>1 DEF TailBits
    <2> QED
      BY <2>2, <2>3
  <1> HIDE DEF L, kept, fields
  <1>6. i \in Build(m)[0] <=> i \in CountBits(L, m.data)
    BY <1>1, <1>3, <1>4, <1>5
  <1> QED
    BY <1>6 DEF L

(* Every byte that was kept is where it is looked for, and nothing where   *)
(* there is none.                                                          *)
LEMMA ByteRead ==
  ASSUME NEW m, m.data \in Seq(Bytes8), Sound(Layouts[m.kind]), NEW j \in 1 .. Layouts[m.kind].room
  PROVE  LET L == Layouts[m.kind]
             kept == Fitting(L, m.data)
         IN  Take(Build(m)[ByteWord(L.at, j)], ByteLo(L.at, j), 8) = IF j <= Len(kept) THEN kept[j] ELSE {}
  <1> DEFINE L == Layouts[m.kind]
             kept == Fitting(L, m.data)
             fields == Written(m.kind, m.args)
             at == L.at
             room == L.room
             w == ByteWord(at, j)
             lo == ByteLo(at, j)
             n == Len(kept)
  <1>1. /\ n \in 0 .. room /\ room \in 0 .. 14
        /\ (\A k \in 1 .. n : kept[k] \subseteq 0 .. 7)
        /\ (room # 0 => at \in {16, 24, 32} /\ at + 8 * room <= 128)
    BY KeptFit
  <1>2. room # 0 /\ j \in 1 .. room /\ at \in {16, 24, 32} /\ at + 8 * room <= 128
    <2>1. j \in 1 .. room
      OBVIOUS
    <2> HIDE DEF room, at
    <2> QED
      BY <1>1, <2>1
  <1>3. w \in 0 .. 3 /\ lo \in {0, 8, 16, 24} /\ 32 * w + 24 - lo = at + 8 * (j - 1)
    <2> HIDE DEF room, at
    <2> QED
      BY <1>1, <1>2, BytePlaces
  <1>4. ASSUME NEW i \in lo .. lo + 7
        PROVE  i \in Build(m)[w] <=> \E k \in 1 .. n : FromByte(at, kept, k, w, i)
    <2>1. i \in Build(m)[w] <=>
               \/ w = 0 /\ i \in L.const
               \/ w = 0 /\ i \in CountBits(L, m.data)
               \/ \E g \in fields : Fills(g, m.args, w, i)
               \/ \E k \in 1 .. n : FromByte(at, kept, k, w, i)
      BY <1>3, BuiltBits
    <2>2. w = 0 => i \in TailBits(L)
      <3>1. w = 0 => i \in 0 .. 31 - at
        <4> HIDE DEF w, lo, at, room
        <4>1. at \in Int /\ j \in Int /\ j >= 1 /\ i \in Int /\ lo <= i /\ i <= lo + 7 /\ lo >= 0
          BY <1>1, <1>2, <1>3, SMTT(30)
        <4> QED
          BY <1>3, <4>1
      <3> QED
        BY <1>2, <3>1 DEF TailBits
    <2>3. w = 0 => i \notin L.const
      BY <2>2 DEF Sound
    <2>4. w = 0 => i \notin CountBits(L, m.data)
      <3>1. i \in CountBits(L, m.data) => i \in Counted(L)
        BY CountPlace
      <3>2. w = 0 => i \in 0 .. 31 - at
        BY <1>2, <2>2 DEF TailBits
      <3>3. i \in 16 .. 19 => ~ (i \in 0 .. 31 - at)
        BY <1>2
      <3> QED
        BY <3>1, <3>2, <3>3 DEF Counted
    <2>5. ~ \E g \in fields : Fills(g, m.args, w, i)
      <3>1. fields \subseteq L.fields
        BY WrittenFields
      <3>2. \A g \in L.fields : g.word = 0 /\ \A k \in Span(g) : k \notin TailBits(L)
        BY <1>2 DEF Sound
      <3> HIDE DEF fields, L, w
      <3> QED
        BY <2>2, <3>1, <3>2 DEF Fills, Span
    <2> HIDE DEF L, kept, fields, at, w, lo, n
    <2> QED
      BY <2>1, <2>3, <2>4, <2>5
  <1>5. ASSUME NEW i \in lo .. lo + 7, NEW k \in 1 .. n, FromByte(at, kept, k, w, i)
        PROVE  k = j
    <2> DEFINE o == ByteLo(at, k)
    <2>1. ByteWord(at, k) = w /\ i - o \in kept[k]
      BY <1>5 DEF FromByte
    <2>2. i - o \in 0 .. 7 /\ k \in 1 .. room
      <3> HIDE DEF kept, room, n, o
      <3> QED
        BY <1>1, <2>1
    <2>3. o \in {0, 8, 16, 24} /\ 32 * w + 24 - o = at + 8 * (k - 1)
      <3> HIDE DEF kept, room, at, w
      <3> QED
        BY <1>1, <1>2, <2>1, <2>2, BytePlaces
    <2> HIDE DEF L, kept, fields, at, w, lo, n, o
    <2>4. o - lo < 8 /\ lo - o < 8 /\ o = lo
      BY <1>3, <2>2, <2>3
    <2> QED
      BY <1>2, <1>3, <2>2, <2>3, <2>4
  <1>6. ASSUME NEW b \in 0 .. 7 PROVE lo + b \in Build(m)[w] <=> j <= n /\ b \in kept[j]
    <2> HIDE DEF L, kept, fields, at, w, lo, n
    <2>1. lo + b \in lo .. lo + 7 /\ (lo + b) - lo = b /\ lo + b \in Int
      BY <1>3
    <2>2. j \in 1 .. n <=> j <= n
      BY <1>1, <1>2
    <2>3. ASSUME j \in 1 .. n PROVE FromByte(at, kept, j, w, lo + b) <=> b \in kept[j]
      BY <2>1 DEF FromByte, w, lo
    <2> QED
      BY <1>4, <1>5, <2>1, <2>2, <2>3
  <1>7. Take(Build(m)[w], lo, 8) = IF j <= n THEN kept[j] ELSE {}
    <2> HIDE DEF L, kept, fields, at, w, lo, n
    <2>1. j <= n => kept[j] \subseteq 0 .. 7
      BY <1>1, <1>2
    <2>2. Take(Build(m)[w], lo, 8) = {b \in 0 .. 7 : lo + b \in Build(m)[w]}
      BY DEF Take
    <2> QED
      BY <1>6, <2>1, <2>2
  <1> QED
    BY <1>7

(* An argument is read from its pieces, bit by bit.                        *)
LEMMA UnpackedBits ==
  ASSUME NEW fields, NEW words_, NEW a, \A f \in Pieces(fields, a) : PieceType(f)
  PROVE  \A x : x \in Unpacked(fields, words_, a) <=>
                  \E f \in Pieces(fields, a) : x \in f.from .. f.from + f.width - 1
                                               /\ f.lo + (x - f.from) \in words_[f.word]
  <1>1. ASSUME NEW f \in Pieces(fields, a), NEW x
        PROVE  x \in Put(Take(words_[f.word], f.lo, f.width), f.from)
                 <=> x \in f.from .. f.from + f.width - 1 /\ f.lo + (x - f.from) \in words_[f.word]
    <2>1. f.from \in Nat /\ f.width \in Nat /\ f.lo \in Nat
      BY DEF PieceType
    <2> DEFINE v == words_[f.word]
               from == f.from
               width == f.width
               lo == f.lo
    <2> HIDE DEF v, from, width, lo
    <2>2. x \in Put(Take(v, lo, width), from) <=> x \in from .. from + width - 1 /\ lo + (x - from) \in v
      BY <2>1, PutTakeBits DEF from, width, lo
    <2> QED
      BY <2>2 DEF v, from, width, lo
  <1>2. \A x : x \in Unpacked(fields, words_, a)
                 <=> \E f \in Pieces(fields, a) : x \in Put(Take(words_[f.word], f.lo, f.width), f.from)
    BY DEF Unpacked
  <1> QED
    BY <1>1, <1>2

(* The places an argument has in a message are those its callback reads.   *)
SamePieces(L, told, a) == Pieces(told, a) = Pieces(L.fields, a)

(* An argument that is read where it was written is read as it was given,  *)
(* as far as there is room for it.                                         *)
LEMMA ExactRead ==
  ASSUME NEW m, m.data \in Seq(Bytes8), Sound(Layouts[m.kind]), NEW told, NEW a,
         SamePieces(Layouts[m.kind], told, a), Pieces(told, a) \subseteq Written(m.kind, m.args)
  PROVE  Unpacked(told, Build(m), a) = m.args[a] \intersect RangeOf(Layouts[m.kind].fields, a)
  <1> DEFINE L == Layouts[m.kind]
             P == Pieces(told, a)
             v == m.args[a]
  <1>1. \A f \in P : f \in L.fields /\ f.arg = a
    BY DEF SamePieces, Pieces
  <1>2. \A f \in P : PieceType(f)
    BY <1>1 DEF Sound, Tidy
  <1>3. \A x : x \in Unpacked(told, Build(m), a) <=>
                  \E f \in P : x \in f.from .. f.from + f.width - 1
                               /\ f.lo + (x - f.from) \in Build(m)[f.word]
    BY <1>2, UnpackedBits
  <1>4. ASSUME NEW f \in P, NEW x \in f.from .. f.from + f.width - 1
        PROVE  f.lo + (x - f.from) \in Build(m)[f.word] <=> x \in v
    <2> DEFINE i == f.lo + (x - f.from)
    <2>1. f.from \in Nat /\ f.width \in Nat /\ f.lo \in Nat /\ x \in Int
      BY <1>2 DEF PieceType
    <2>2. i \in Span(f) /\ f.from + (i - f.lo) = x
      <3> DEFINE from == f.from
                 width == f.width
                 lo == f.lo
      <3>1. from \in Nat /\ width \in Nat /\ lo \in Nat /\ x \in from .. from + width - 1
        BY <2>1
      <3> HIDE DEF from, width, lo
      <3>2. lo + (x - from) \in lo .. lo + width - 1 /\ from + ((lo + (x - from)) - lo) = x
        BY <3>1
      <3> QED
        BY <3>2 DEF Span, from, width, lo
    <2>3. f \in Written(m.kind, m.args)
      OBVIOUS
    <2> HIDE DEF i, P
    <2>4. i \in Build(m)[f.word] <=> f.from + (i - f.lo) \in m.args[f.arg]
      BY <2>2, <2>3, FieldRead
    <2> QED
      BY <1>1, <2>2, <2>4 DEF i
  <1>5. RangeOf(L.fields, a) = UNION {f.from .. f.from + f.width - 1 : f \in P}
    BY DEF RangeOf, SamePieces
  <1> HIDE DEF P, v, L
  <1>6. \A x : x \in RangeOf(L.fields, a) <=> \E f \in P : x \in f.from .. f.from + f.width - 1
    BY <1>5
  <1>7. Unpacked(told, Build(m), a) = v \intersect RangeOf(L.fields, a)
    BY <1>3, <1>4, <1>6
  <1> QED
    BY <1>7 DEF v, L

(* An argument may be read from more bits than it was written to, when     *)
(* the others are zero.                                                    *)
LEMMA WideRead ==
  ASSUME NEW m, m.data \in Seq(Bytes8), Sound(Layouts[m.kind]), NEW told, NEW a, NEW f, NEW e,
         Pieces(told, a) = {e}, Pieces(Layouts[m.kind].fields, a) = {f}, f \in Written(m.kind, m.args),
         PieceType(e), e.from = f.from, e.word = f.word, e.lo = f.lo, f.width <= e.width,
         \A i \in f.lo + f.width .. e.lo + e.width - 1 :
            Blank(Layouts[m.kind], Written(m.kind, m.args), f.word, i) /\ i \notin Layouts[m.kind].const
  PROVE  Unpacked(told, Build(m), a) = m.args[a] \intersect RangeOf(Layouts[m.kind].fields, a)
  <1> DEFINE L == Layouts[m.kind]
             v == m.args[a]
  <1>1. f \in L.fields /\ f.arg = a
    BY DEF Pieces
  <1>2. /\ f.from \in Nat /\ f.width \in Nat /\ f.lo \in Nat /\ f.word \in 0 .. 3
        /\ e.width \in Nat
    BY <1>1 DEF Sound, Tidy, PieceType
  <1>3. \A x : x \in Unpacked(told, Build(m), a) <=>
                  x \in f.from .. f.from + e.width - 1 /\ f.lo + (x - f.from) \in Build(m)[f.word]
    <2>1. \A x : x \in Unpacked(told, Build(m), a) <=>
                  \E g \in Pieces(told, a) : x \in g.from .. g.from + g.width - 1
                                               /\ g.lo + (x - g.from) \in Build(m)[g.word]
      BY UnpackedBits
    <2> QED
      BY <2>1
  <1>4. ASSUME NEW x \in f.from .. f.from + f.width - 1
        PROVE  f.lo + (x - f.from) \in Build(m)[f.word] <=> x \in v
    <2> DEFINE i == f.lo + (x - f.from)
    <2>1. i \in Span(f) /\ f.from + (i - f.lo) = x
      BY <1>2, SMTT(30) DEF Span
    <2> HIDE DEF i
    <2>2. i \in Build(m)[f.word] <=> f.from + (i - f.lo) \in m.args[f.arg]
      BY <2>1, FieldRead
    <2> QED
      BY <1>1, <2>1, <2>2 DEF i
  <1>5. ASSUME NEW x \in f.from + f.width .. f.from + e.width - 1
        PROVE  f.lo + (x - f.from) \notin Build(m)[f.word]
    <2> DEFINE i == f.lo + (x - f.from)
    <2>1. i \in f.lo + f.width .. e.lo + e.width - 1
      BY <1>2, SMTT(30)
    <2> HIDE DEF i
    <2>2. Blank(L, Written(m.kind, m.args), f.word, i) /\ i \notin L.const
      BY <2>1
    <2>3. i \in Build(m)[f.word] <=> f.word = 0 /\ i \in L.const
      BY <1>2, <2>2, BlankRead
    <2> QED
      BY <2>2, <2>3 DEF i
  <1>6. \A x : x \in RangeOf(L.fields, a) <=> x \in f.from .. f.from + f.width - 1
    BY DEF RangeOf
  <1>7. \A x \in f.from .. f.from + e.width - 1 : x \in f.from .. f.from + f.width - 1
                                                    \/ x \in f.from + f.width .. f.from + e.width - 1
    BY <1>2
  <1>8. \A x \in f.from .. f.from + f.width - 1 : x \in f.from .. f.from + e.width - 1
    BY <1>2
  <1> HIDE DEF v, L
  <1>9. Unpacked(told, Build(m), a) = v \intersect RangeOf(L.fields, a)
    BY <1>3, <1>4, <1>5, <1>6, <1>7, <1>8
  <1> QED
    BY <1>9 DEF v, L

(* An argument that no field carries is what the header says, if that much. *)
LEMMA ConstRead ==
  ASSUME NEW m, m.data \in Seq(Bytes8), Sound(Layouts[m.kind]), NEW told, NEW a, NEW e,
         Pieces(told, a) = {e}, PieceType(e), e.from = 0,
         \A i \in Span(e) : Blank(Layouts[m.kind], Written(m.kind, m.args), e.word, i)
  PROVE  Unpacked(told, Build(m), a) =
           IF e.word = 0 THEN Take(Layouts[m.kind].const, e.lo, e.width) ELSE {}
  <1> DEFINE L == Layouts[m.kind]
  <1>1. /\ e.width \in Nat /\ e.lo \in Nat /\ e.word \in 0 .. 3
    BY DEF PieceType
  <1>2. \A x : x \in Unpacked(told, Build(m), a) <=>
                  x \in 0 .. e.width - 1 /\ e.lo + x \in Build(m)[e.word]
    <2>1. \A x : x \in Unpacked(told, Build(m), a) <=>
                  \E g \in Pieces(told, a) : x \in g.from .. g.from + g.width - 1
                                               /\ g.lo + (x - g.from) \in Build(m)[g.word]
      BY UnpackedBits
    <2>2. \A x \in 0 .. 0 + e.width - 1 : e.lo + (x - 0) = e.lo + x
      BY <1>1
    <2>3. 0 .. 0 + e.width - 1 = 0 .. e.width - 1
      BY <1>1
    <2> QED
      BY <2>1, <2>2, <2>3
  <1>3. ASSUME NEW x \in 0 .. e.width - 1
        PROVE  e.lo + x \in Build(m)[e.word] <=> e.word = 0 /\ e.lo + x \in L.const
    <2> DEFINE i == e.lo + x
    <2>1. i \in Span(e)
      BY <1>1 DEF Span
    <2> HIDE DEF i
    <2>2. i \in Build(m)[e.word] <=> e.word = 0 /\ i \in L.const
      BY <1>1, <2>1, BlankRead
    <2> QED
      BY <2>2 DEF i
  <1> HIDE DEF L
  <1>4. \A x : x \in Take(L.const, e.lo, e.width) <=> x \in 0 .. e.width - 1 /\ e.lo + x \in L.const
    BY TakeBits
  <1>5. Unpacked(told, Build(m), a) = IF e.word = 0 THEN Take(L.const, e.lo, e.width) ELSE {}
    <2>1. CASE e.word = 0
      BY <1>2, <1>3, <1>4, <2>1
    <2>2. CASE e.word # 0
      BY <1>2, <1>3, <2>2
    <2> QED
      BY <2>1, <2>2
  <1> QED
    BY <1>5 DEF L

(* The number that the ten lowest bits of a word make.                     *)
Weight(b, k, n) == IF k \in b THEN n ELSE 0
TenBits(b) ==
  Weight(b, 9, 512) + Weight(b, 8, 256) + Weight(b, 7, 128) + Weight(b, 6, 64) + Weight(b, 5, 32)
    + Weight(b, 4, 16) + Weight(b, 3, 8) + Weight(b, 2, 4) + Weight(b, 1, 2) + Weight(b, 0, 1)

(* The number that ten bits show is the sum of their weights.              *)
LEMMA TenRead ==
  ASSUME NEW b \in SUBSET (0 .. 9)
  PROVE  Num(b) = TenBits(b)
  <1>0. PICK f \in [0 .. 31 -> Nat] :
          /\ f = CHOOSE g : g = [k \in 0 .. 31 |->
                    IF k = 0 THEN 0 ELSE 2 * g[k - 1] + (IF 31 - k \in b THEN 1 ELSE 0)]
          /\ f[0] = 0
          /\ \A k \in 1 .. 31 : f[k] = 2 * f[k - 1] + (IF 31 - k \in b THEN 1 ELSE 0)
    BY BitsRead
  <1>1. /\ Num(b) = f[31] /\ f[0] = 0
        /\ \A k \in 1 .. 31 : f[k] = 2 * f[k - 1] + (IF 31 - k \in b THEN 1 ELSE 0)
    BY <1>0, Zenon DEF Num
  <1> DEFINE T == {n \in Nat : n <= 21 => f[n] = 0}
  <1>2. 0 \in T
    BY <1>1
  <1>3. ASSUME NEW n \in Nat, n \in T PROVE n + 1 \in T
    <2>1. n + 1 <= 21 => f[n + 1] = 2 * f[n] + (IF 31 - (n + 1) \in b THEN 1 ELSE 0)
      <3>1. n + 1 <= 21 => n + 1 \in 1 .. 31 /\ (n + 1) - 1 = n
        OBVIOUS
      <3> QED
        BY <1>1, <3>1
    <2>2. n + 1 <= 21 => ~ (31 - (n + 1) \in b)
      OBVIOUS
    <2> QED
      BY <1>3, <2>1, <2>2
  <1> HIDE DEF T
  <1>4. 21 \in T
    BY <1>2, <1>3, Induction
  <1>5. f[21] = 0
    BY <1>4 DEF T
  <1> DEFINE bit(i) == IF i \in b THEN 1 ELSE 0
  <1>6. /\ f[22] = 2 * f[21] + bit(9)
        /\ f[23] = 2 * f[22] + bit(8)
        /\ f[24] = 2 * f[23] + bit(7)
        /\ f[25] = 2 * f[24] + bit(6)
        /\ f[26] = 2 * f[25] + bit(5)
        /\ f[27] = 2 * f[26] + bit(4)
        /\ f[28] = 2 * f[27] + bit(3)
        /\ f[29] = 2 * f[28] + bit(2)
        /\ f[30] = 2 * f[29] + bit(1)
        /\ f[31] = 2 * f[30] + bit(0)
    <2>1. /\ f[22] = 2 * f[22 - 1] + (IF 31 - 22 \in b THEN 1 ELSE 0)
          /\ f[23] = 2 * f[23 - 1] + (IF 31 - 23 \in b THEN 1 ELSE 0)
          /\ f[24] = 2 * f[24 - 1] + (IF 31 - 24 \in b THEN 1 ELSE 0)
          /\ f[25] = 2 * f[25 - 1] + (IF 31 - 25 \in b THEN 1 ELSE 0)
          /\ f[26] = 2 * f[26 - 1] + (IF 31 - 26 \in b THEN 1 ELSE 0)
          /\ f[27] = 2 * f[27 - 1] + (IF 31 - 27 \in b THEN 1 ELSE 0)
          /\ f[28] = 2 * f[28 - 1] + (IF 31 - 28 \in b THEN 1 ELSE 0)
          /\ f[29] = 2 * f[29 - 1] + (IF 31 - 29 \in b THEN 1 ELSE 0)
          /\ f[30] = 2 * f[30 - 1] + (IF 31 - 30 \in b THEN 1 ELSE 0)
          /\ f[31] = 2 * f[31 - 1] + (IF 31 - 31 \in b THEN 1 ELSE 0)
      BY <1>1
    <2> QED
      BY <2>1
  <1>7. bit(0) \in Nat /\ bit(1) \in Nat /\ bit(2) \in Nat /\ bit(3) \in Nat /\ bit(4) \in Nat /\ bit(5) \in Nat /\ bit(6) \in Nat /\ bit(7) \in Nat /\ bit(8) \in Nat /\ bit(9) \in Nat
    OBVIOUS
  <1>8. \A k \in 0 .. 9 : \A n \in Nat : Weight(b, k, n) = n * bit(k)
    BY DEF Weight
  <1> HIDE DEF bit
  <1>9. f[31] = 512 * bit(9) + 256 * bit(8) + 128 * bit(7) + 64 * bit(6) + 32 * bit(5)
                + 16 * bit(4) + 8 * bit(3) + 4 * bit(2) + 2 * bit(1) + bit(0)
    <2>1. f[26] = 16 * bit(9) + 8 * bit(8) + 4 * bit(7) + 2 * bit(6) + bit(5)
      BY <1>5, <1>6, <1>7
    <2>2. f[31] = 32 * f[26] + 16 * bit(4) + 8 * bit(3) + 4 * bit(2) + 2 * bit(1) + bit(0)
      BY <1>6, <1>7, <2>1
    <2> QED
      BY <1>7, <2>1, <2>2
  <1>10. /\ Weight(b, 9, 512) = 512 * bit(9) /\ Weight(b, 8, 256) = 256 * bit(8)
         /\ Weight(b, 7, 128) = 128 * bit(7) /\ Weight(b, 6, 64) = 64 * bit(6)
         /\ Weight(b, 5, 32) = 32 * bit(5) /\ Weight(b, 4, 16) = 16 * bit(4)
         /\ Weight(b, 3, 8) = 8 * bit(3) /\ Weight(b, 2, 4) = 4 * bit(2)
         /\ Weight(b, 1, 2) = 2 * bit(1) /\ Weight(b, 0, 1) = 1 * bit(0)
    BY <1>8
  <1> QED
    BY <1>1, <1>7, <1>9, <1>10 DEF TenBits

(* Ten bits are known from the number that they make.                      *)
LEMMA TenBitsKnown ==
  ASSUME NEW b \in SUBSET (0 .. 9), NEW c \in SUBSET (0 .. 9), Num(b) = Num(c)
  PROVE  b = c
  <1>1. TenBits(b) = TenBits(c)
    BY TenRead
  <1>2. \A k \in 0 .. 9 : k \in b <=> k \in c
    <2>1. /\ 0 \in b <=> 0 \in c
          /\ 1 \in b <=> 1 \in c
          /\ 2 \in b <=> 2 \in c
          /\ 3 \in b <=> 3 \in c
          /\ 4 \in b <=> 4 \in c
          /\ 5 \in b <=> 5 \in c
          /\ 6 \in b <=> 6 \in c
          /\ 7 \in b <=> 7 \in c
          /\ 8 \in b <=> 8 \in c
          /\ 9 \in b <=> 9 \in c
      BY <1>1 DEF TenBits, Weight
    <2>2. \A k \in 0 .. 9 : k \in {0, 1, 2, 3, 4, 5, 6, 7, 8, 9}
      OBVIOUS
    <2> QED
      BY <2>1, <2>2
  <1> QED
    BY <1>2

(* A number is twice its half, and its lowest bit.                         *)
LEMMA Halves ==
  ASSUME NEW x \in Nat
  PROVE  x = 2 * (x \div 2) + (x % 2)
  <1>1. x % 2 = x - 2 * (x \div 2) /\ x \div 2 \in Int
    OBVIOUS
  <1> DEFINE q == x \div 2
             r == x % 2
  <1> HIDE DEF q, r
  <1>2. r = x - 2 * q /\ q \in Int
    BY <1>1 DEF q, r
  <1>3. x = 2 * q + r
    BY <1>2
  <1> QED
    BY <1>3 DEF q, r

TenBitNumbers == 0 .. 1023

(* A number of ten bits is made of its bits.                               *)
LEMMA TenBitsOf ==
  ASSUME NEW n \in TenBitNumbers
  PROVE  Bits(n) \in SUBSET (0 .. 9) /\ Num(Bits(n)) = n
  <1> DEFINE b == Bits(n)
  <1>0. n \in 0 .. 1023
    BY DEF TenBitNumbers
  <1> USE <1>0
  <1>1. b = {i \in 0 .. 15 : (n \div Powers[i + 1]) % 2 = 1}
    BY BitsByPowers
  <1>2. /\ 0 \in b <=> (n \div 1) % 2 = 1
        /\ 1 \in b <=> (n \div 2) % 2 = 1
        /\ 2 \in b <=> (n \div 4) % 2 = 1
        /\ 3 \in b <=> (n \div 8) % 2 = 1
        /\ 4 \in b <=> (n \div 16) % 2 = 1
        /\ 5 \in b <=> (n \div 32) % 2 = 1
        /\ 6 \in b <=> (n \div 64) % 2 = 1
        /\ 7 \in b <=> (n \div 128) % 2 = 1
        /\ 8 \in b <=> (n \div 256) % 2 = 1
        /\ 9 \in b <=> (n \div 512) % 2 = 1
    <2>1. 0 \in b <=> (n \div 1) % 2 = 1
      BY <1>1 DEF Powers
    <2>2. 1 \in b <=> (n \div 2) % 2 = 1
      BY <1>1 DEF Powers
    <2>3. 2 \in b <=> (n \div 4) % 2 = 1
      BY <1>1 DEF Powers
    <2>4. 3 \in b <=> (n \div 8) % 2 = 1
      BY <1>1 DEF Powers
    <2>5. 4 \in b <=> (n \div 16) % 2 = 1
      BY <1>1 DEF Powers
    <2>6. 5 \in b <=> (n \div 32) % 2 = 1
      BY <1>1 DEF Powers
    <2>7. 6 \in b <=> (n \div 64) % 2 = 1
      BY <1>1 DEF Powers
    <2>8. 7 \in b <=> (n \div 128) % 2 = 1
      BY <1>1 DEF Powers
    <2>9. 8 \in b <=> (n \div 256) % 2 = 1
      BY <1>1 DEF Powers
    <2>10. 9 \in b <=> (n \div 512) % 2 = 1
      BY <1>1 DEF Powers
    <2> QED
      BY <2>1, <2>2, <2>3, <2>4, <2>5, <2>6, <2>7, <2>8, <2>9, <2>10
  <1>3. b \subseteq 0 .. 9
    <2> SUFFICES ASSUME NEW i \in b, i \in 10 .. 15 PROVE FALSE
      BY <1>1
    <2>1. Powers[i + 1] \in Nat /\ Powers[i + 1] >= 1024
      BY DEF Powers
    <2> DEFINE d == Powers[i + 1]
    <2>2. (n \div d) % 2 = 1
      BY <1>1
    <2> HIDE DEF d, b
    <2>3. d \in Nat /\ d >= 1024
      BY <2>1 DEF d
    <2>4. n \div d = 0
      BY <2>3
    <2> QED
      BY <2>2, <2>4
  <1> HIDE DEF b
  <1> DEFINE bit(d) == (n \div d) % 2
  <1>4. /\ bit(1) \in {0, 1} /\ bit(2) \in {0, 1} /\ bit(4) \in {0, 1} /\ bit(8) \in {0, 1}
        /\ bit(16) \in {0, 1} /\ bit(32) \in {0, 1} /\ bit(64) \in {0, 1} /\ bit(128) \in {0, 1}
        /\ bit(256) \in {0, 1} /\ bit(512) \in {0, 1}
    OBVIOUS
  <1>5. n = 512 * bit(512) + 256 * bit(256) + 128 * bit(128) + 64 * bit(64) + 32 * bit(32)
            + 16 * bit(16) + 8 * bit(8) + 4 * bit(4) + 2 * bit(2) + bit(1)
    <2>0. \A x \in Nat : x = 2 * (x \div 2) + (x % 2)
      BY Halves
    <2>1. n = 2 * (n \div 2) + (n % 2)
      BY <2>0
    <2>2. n \div 2 = 2 * (n \div 4) + ((n \div 2) % 2)
      <3>1. n \div 2 \in Nat /\ (n \div 2) \div 2 = n \div 4
        OBVIOUS
      <3> QED
        BY <2>0, <3>1
    <2>3. n \div 4 = 2 * (n \div 8) + ((n \div 4) % 2)
      <3>1. n \div 4 \in Nat /\ (n \div 4) \div 2 = n \div 8
        OBVIOUS
      <3> QED
        BY <2>0, <3>1
    <2>4. n \div 8 = 2 * (n \div 16) + ((n \div 8) % 2)
      <3>1. n \div 8 \in Nat /\ (n \div 8) \div 2 = n \div 16
        OBVIOUS
      <3> QED
        BY <2>0, <3>1
    <2>5. n \div 16 = 2 * (n \div 32) + ((n \div 16) % 2)
      <3>1. n \div 16 \in Nat /\ (n \div 16) \div 2 = n \div 32
        OBVIOUS
      <3> QED
        BY <2>0, <3>1
    <2>6. n \div 32 = 2 * (n \div 64) + ((n \div 32) % 2)
      <3>1. n \div 32 \in Nat /\ (n \div 32) \div 2 = n \div 64
        OBVIOUS
      <3> QED
        BY <2>0, <3>1
    <2>7. n \div 64 = 2 * (n \div 128) + ((n \div 64) % 2)
      <3>1. n \div 64 \in Nat /\ (n \div 64) \div 2 = n \div 128
        OBVIOUS
      <3> QED
        BY <2>0, <3>1
    <2>8. n \div 128 = 2 * (n \div 256) + ((n \div 128) % 2)
      <3>1. n \div 128 \in Nat /\ (n \div 128) \div 2 = n \div 256
        OBVIOUS
      <3> QED
        BY <2>0, <3>1
    <2>9. n \div 256 = 2 * (n \div 512) + ((n \div 256) % 2)
      <3>1. n \div 256 \in Nat /\ (n \div 256) \div 2 = n \div 512
        OBVIOUS
      <3> QED
        BY <2>0, <3>1
    <2>10. n \div 512 = (n \div 512) % 2
      OBVIOUS
    <2>11. n \div 1 = n
      OBVIOUS
    <2>12. n = 16 * (n \div 16) + 8 * bit(8) + 4 * bit(4) + 2 * bit(2) + bit(1)
      BY <2>1, <2>2, <2>3, <2>4, <2>11
    <2>13. n \div 16 = 32 * bit(512) + 16 * bit(256) + 8 * bit(128) + 4 * bit(64) + 2 * bit(32) + bit(16)
      BY <2>5, <2>6, <2>7, <2>8, <2>9, <2>10
    <2> QED
      BY <1>4, <2>12, <2>13
  <1>6. /\ Weight(b, 0, 1) = bit(1) /\ Weight(b, 1, 2) = 2 * bit(2) /\ Weight(b, 2, 4) = 4 * bit(4)
        /\ Weight(b, 3, 8) = 8 * bit(8) /\ Weight(b, 4, 16) = 16 * bit(16)
        /\ Weight(b, 5, 32) = 32 * bit(32) /\ Weight(b, 6, 64) = 64 * bit(64)
        /\ Weight(b, 7, 128) = 128 * bit(128) /\ Weight(b, 8, 256) = 256 * bit(256)
        /\ Weight(b, 9, 512) = 512 * bit(512)
    <2> HIDE DEF bit
    <2>1. /\ 0 \in b <=> bit(1) = 1
          /\ 1 \in b <=> bit(2) = 1
          /\ 2 \in b <=> bit(4) = 1
          /\ 3 \in b <=> bit(8) = 1
          /\ 4 \in b <=> bit(16) = 1
          /\ 5 \in b <=> bit(32) = 1
          /\ 6 \in b <=> bit(64) = 1
          /\ 7 \in b <=> bit(128) = 1
          /\ 8 \in b <=> bit(256) = 1
          /\ 9 \in b <=> bit(512) = 1
      BY <1>2 DEF bit
    <2> QED
      BY <1>4, <2>1 DEF Weight
  <1>7. Num(b) = n
    <2> HIDE DEF bit
    <2>1. Num(b) = TenBits(b)
      BY <1>3, TenRead
    <2> QED
      BY <1>4, <1>5, <1>6, <2>1 DEF TenBits
  <1> QED
    BY <1>3, <1>7 DEF b

(* A number of k bits; bits lo .. lo + k - 1 of x show the number n.       *)
OfBits(n, k) == Bits(n) \subseteq 0 .. k - 1
Shows(x, lo, k, n) == \A i \in lo .. lo + k - 1 : i \in x <=> i - lo \in Bits(n)

(* A field of at most ten bits holds a number exactly when its bits are    *)
(* those of the number.                                                    *)
LEMMA HoldsNumber ==
  ASSUME NEW w, NEW lo \in Nat, NEW k \in 0 .. 10, NEW n \in TenBitNumbers, OfBits(n, k)
  PROVE  Num(Take(w, lo, k)) = n <=> Shows(w, lo, k, n)
  <1> DEFINE b == Take(w, lo, k)
             c == Bits(n)
  <1>1. b \in SUBSET (0 .. 9)
    BY DEF Take
  <1>2. c \in SUBSET (0 .. 9) /\ Num(c) = n
    BY TenBitsOf
  <1>3. \A j : j \in b <=> j \in 0 .. k - 1 /\ lo + j \in w
    BY TakeBits
  <1> HIDE DEF b, c
  <1>4. Num(b) = n <=> b = c
    BY <1>1, <1>2, TenBitsKnown
  <1>5. c \subseteq 0 .. k - 1
    BY DEF c, OfBits
  <1>6. b = c <=> \A j \in 0 .. k - 1 : lo + j \in w <=> j \in c
    BY <1>3, <1>5
  <1>7. (\A j \in 0 .. k - 1 : lo + j \in w <=> j \in c)
          <=> \A i \in lo .. lo + k - 1 : i \in w <=> i - lo \in c
    <2>1. ASSUME \A j \in 0 .. k - 1 : lo + j \in w <=> j \in c, NEW i \in lo .. lo + k - 1
          PROVE  i \in w <=> i - lo \in c
      <3>1. i - lo \in 0 .. k - 1 /\ lo + (i - lo) = i
        OBVIOUS
      <3> QED
        BY <2>1, <3>1
    <2>2. ASSUME \A i \in lo .. lo + k - 1 : i \in w <=> i - lo \in c, NEW j \in 0 .. k - 1
          PROVE  lo + j \in w <=> j \in c
      <3>1. lo + j \in lo .. lo + k - 1 /\ (lo + j) - lo = j
        OBVIOUS
      <3> QED
        BY <2>2, <3>1
    <2> QED
      BY <2>1, <2>2
  <1>8. Num(b) = n <=> \A i \in lo .. lo + k - 1 : i \in w <=> i - lo \in c
    BY <1>4, <1>6, <1>7
  <1> QED
    BY <1>8 DEF b, c, Shows

-----------------------------------------------------------------------------
(* Headers.  A word that has the constant bits of a layout.                *)
HeadPart(L, lo, k, n) ==
  /\ lo \in Nat /\ k \in 0 .. 10 /\ n \in TenBitNumbers
  /\ OfBits(n, k) /\ Shows(L.const, lo, k, n)
Masks3(L, lo1, k1, lo2, k2) ==
  L.mask = (28 .. 31) \union (lo1 .. lo1 + k1 - 1) \union (lo2 .. lo2 + k2 - 1)
HeadIs(w, L) == w[0] \intersect L.mask = L.const \intersect L.mask

(* A word has the header of a layout exactly when it has the numbers that  *)
(* the header is made of.                                                  *)
LEMMA HeadNumbers ==
  ASSUME NEW L, NEW w, NEW n0, HeadPart(L, 28, 4, n0),
         NEW lo1, NEW k1, NEW n1, HeadPart(L, lo1, k1, n1),
         NEW lo2, NEW k2, NEW n2, HeadPart(L, lo2, k2, n2),
         Masks3(L, lo1, k1, lo2, k2)
  PROVE  HeadIs(w, L) <=> /\ TypeOf(w) = n0
                          /\ Num(Take(w[0], lo1, k1)) = n1
                          /\ Num(Take(w[0], lo2, k2)) = n2
  <1> DEFINE x == w[0]
             c == L.const
  <1>1. HeadIs(w, L) <=> \A i \in L.mask : i \in x <=> i \in c
    BY DEF HeadIs
  <1>2. Num(Take(x, 28, 4)) = n0 <=> Shows(x, 28, 4, n0)
    BY HoldsNumber DEF HeadPart
  <1>3. Num(Take(x, lo1, k1)) = n1 <=> Shows(x, lo1, k1, n1)
    BY HoldsNumber DEF HeadPart
  <1>4. Num(Take(x, lo2, k2)) = n2 <=> Shows(x, lo2, k2, n2)
    BY HoldsNumber DEF HeadPart
  <1> HIDE DEF x, c
  <1>5. ASSUME NEW lo, NEW k, NEW n, Shows(c, lo, k, n)
        PROVE  Shows(x, lo, k, n) <=> \A i \in lo .. lo + k - 1 : i \in x <=> i \in c
    BY <1>5 DEF Shows
  <1>6. Shows(x, 28, 4, n0) <=> \A i \in 28 .. 31 : i \in x <=> i \in c
    <2>1. 28 + 4 - 1 = 31
      OBVIOUS
    <2>2. Shows(x, 28, 4, n0) <=> \A i \in 28 .. 28 + 4 - 1 : i \in x <=> i \in c
      BY <1>5 DEF c, HeadPart
    <2> QED
      BY <2>1, <2>2
  <1>7. Shows(x, lo1, k1, n1) <=> \A i \in lo1 .. lo1 + k1 - 1 : i \in x <=> i \in c
    BY <1>5 DEF c, HeadPart
  <1>8. Shows(x, lo2, k2, n2) <=> \A i \in lo2 .. lo2 + k2 - 1 : i \in x <=> i \in c
    BY <1>5 DEF c, HeadPart
  <1>9. HeadIs(w, L) <=> /\ Shows(x, 28, 4, n0)
                         /\ Shows(x, lo1, k1, n1)
                         /\ Shows(x, lo2, k2, n2)
    <2> DEFINE A == 28 .. 31
               B == lo1 .. lo1 + k1 - 1
               D == lo2 .. lo2 + k2 - 1
    <2>1. L.mask = A \union B \union D
      BY DEF Masks3
    <2> HIDE DEF A, B, D
    <2>2. (\A i \in L.mask : i \in x <=> i \in c)
            <=> /\ \A i \in A : i \in x <=> i \in c
                /\ \A i \in B : i \in x <=> i \in c
                /\ \A i \in D : i \in x <=> i \in c
      BY <2>1
    <2> QED
      BY <1>1, <1>6, <1>7, <1>8, <2>2 DEF A, B, D
  <1> QED
    BY <1>2, <1>3, <1>4, <1>9 DEF x, TypeOf

(* A header that shows a type and a number, and has no other bits.         *)
Header(c, n0, lo, k, n) ==
  /\ Shows(c, 28, 4, n0) /\ Shows(c, lo, k, n)
  /\ \A i \in c : i \in 28 .. 31 \/ i \in lo .. lo + k - 1

(* A type and a number below it are shown by a header that is made of      *)
(* them, which has no other bits.                                          *)
LEMMA HeadShows ==
  ASSUME NEW n0 \in 0 .. 15, NEW lo \in Nat, NEW k \in Nat, lo + k <= 28, NEW n, OfBits(n, k)
  PROVE  Header(MT(n0) \union Put(Bits(n), lo), n0, lo, k, n)
  <1> DEFINE a == Bits(n0)
             b == Bits(n)
             c == MT(n0) \union Put(b, lo)
  <1>1. a \subseteq 0 .. 3
    BY LowBits
  <1>2. b \subseteq 0 .. k - 1
    BY DEF OfBits
  <1> HIDE DEF a, b
  <1>3. \A i : i \in Put(a, 28) <=> i \in Int /\ i - 28 \in a
    <2>1. a \subseteq Int /\ 28 \in Int
      BY <1>1
    <2> QED
      BY <2>1, PutBits
  <1>4. \A i : i \in Put(b, lo) <=> i \in Int /\ i - lo \in b
    <2>1. b \subseteq Int /\ lo \in Int
      BY <1>2
    <2> QED
      BY <2>1, PutBits
  <1>5. MT(n0) = Put(a, 28)
    BY DEF MT, a
  <1>6. \A i : i \in c <=> i \in Int /\ (i - 28 \in a \/ i - lo \in b)
    BY <1>3, <1>4, <1>5
  <1> HIDE DEF c
  <1>7. \A i \in 28 .. 31 : i \in c <=> i - 28 \in a
    <2> SUFFICES ASSUME NEW i \in 28 .. 31 PROVE i - lo \notin b
      BY <1>6
    <2>1. i - lo > k - 1
      OBVIOUS
    <2> QED
      BY <1>2, <2>1
  <1>8. \A i \in lo .. lo + k - 1 : i \in c <=> i - lo \in b
    <2> SUFFICES ASSUME NEW i \in lo .. lo + k - 1 PROVE i - 28 \notin a
      BY <1>6
    <2>1. i - 28 < 0
      OBVIOUS
    <2> QED
      BY <1>1, <2>1
  <1>9. \A i \in c : i \in 28 .. 31 \/ i \in lo .. lo + k - 1
    <2> SUFFICES ASSUME NEW i \in c PROVE i \in 28 .. 31 \/ i \in lo .. lo + k - 1
      OBVIOUS
    <2>1. i \in Int /\ (i - 28 \in 0 .. 3 \/ i - lo \in 0 .. k - 1)
      BY <1>1, <1>2, <1>6
    <2> QED
      BY <2>1
  <1>10. 28 + 4 - 1 = 31
    OBVIOUS
  <1>11. Shows(c, 28, 4, n0) /\ Shows(c, lo, k, n)
    BY <1>7, <1>8, <1>10 DEF Shows, a, b
  <1> QED
    BY <1>9, <1>11 DEF c, b, Header

(* A status byte is its nibble, four bits up, and no more.                 *)
LEMMA ShiftedPut ==
  ASSUME NEW n \in 0 .. 15
  PROVE  Put(Bits(16 * n), 16) = Put(Bits(n), 20)
  <1> DEFINE x == 16 * n
             a == Bits(x)
             b == Bits(n)
  <1>1. x \in StatusBytes
    BY DEF StatusBytes
  <1>2. a \subseteq 0 .. 7 /\ b \subseteq 0 .. 3
    <2> HIDE DEF x
    <2> QED
      BY <1>1, LowBits
  <1>3. \A k \in 0 .. 3 : 4 + k \in a <=> k \in b
    BY ShiftedBits
  <1>4. \A k \in 0 .. 3 : k \notin a
    <2>1. /\ ((16 * n) \div 1) % 2 = 0 /\ ((16 * n) \div 2) % 2 = 0
          /\ ((16 * n) \div 4) % 2 = 0 /\ ((16 * n) \div 8) % 2 = 0
      OBVIOUS
    <2>2. a = {i \in 0 .. 15 : (x \div Powers[i + 1]) % 2 = 1}
      <3>1. x \in Nat
        OBVIOUS
      <3> HIDE DEF x
      <3> QED
        BY <3>1, BitsByPowers
    <2>3. 0 \notin a
      BY <2>1, <2>2 DEF Powers
    <2>4. 1 \notin a
      BY <2>1, <2>2 DEF Powers
    <2>5. 2 \notin a
      BY <2>1, <2>2 DEF Powers
    <2>6. 3 \notin a
      BY <2>1, <2>2 DEF Powers
    <2> HIDE DEF a
    <2>7. \A k \in 0 .. 3 : k \in {0, 1, 2, 3}
      OBVIOUS
    <2> QED
      BY <2>3, <2>4, <2>5, <2>6, <2>7
  <1> HIDE DEF x, a, b
  <1>5. \A i : i \in Put(a, 16) <=> i \in Int /\ i - 16 \in a
    <2>1. a \subseteq Int /\ 16 \in Int
      BY <1>2
    <2> QED
      BY <2>1, PutBits
  <1>6. \A i : i \in Put(b, 20) <=> i \in Int /\ i - 20 \in b
    <2>1. b \subseteq Int /\ 20 \in Int
      BY <1>2
    <2> QED
      BY <2>1, PutBits
  <1>7. ASSUME NEW i \in Int PROVE i - 16 \in a <=> i - 20 \in b
    <2>1. CASE i - 16 \in 4 .. 7
      <3>1. i - 20 \in 0 .. 3 /\ 4 + (i - 20) = i - 16
        BY <2>1
      <3> QED
        BY <1>3, <3>1
    <2>2. CASE i - 16 \in 0 .. 3
      <3>1. i - 20 \notin 0 .. 3
        BY <2>2
      <3> QED
        BY <1>2, <1>4, <2>2, <3>1
    <2>3. CASE i - 16 \notin 0 .. 7
      <3>1. i - 20 \notin 0 .. 3
        BY <2>3
      <3> QED
        BY <1>2, <2>3, <3>1
    <2>4. i - 16 \in 0 .. 7 => i - 16 \in 0 .. 3 \/ i - 16 \in 4 .. 7
      OBVIOUS
    <2> QED
      BY <2>1, <2>2, <2>3, <2>4
  <1>8. Put(a, 16) = Put(b, 20)
    BY <1>5, <1>6, <1>7
  <1> QED
    BY <1>8 DEF a, b, x

(* A layout without bytes is sound when no field lies on its header.       *)
LEMMA PlainSound ==
  ASSUME NEW L, Tidy(L.fields), L.room = 0, L.at = 0, L.counts = "no",
         \A f \in L.fields : f.word = 0 => \A i \in Span(f) : i \notin L.mask /\ i \notin L.const
  PROVE  Sound(L)
  <1>1. Counted(L) = {} /\ TailBits(L) = {}
    BY DEF Counted, TailBits
  <1>2. \A f \in L.fields : f.word \in 0 .. 3
    BY DEF Tidy, PieceType
  <1> QED
    BY <1>1, <1>2 DEF Sound

(* The type nibble is a part of every header.                              *)
LEMMA TypePart ==
  ASSUME NEW L, NEW n0 \in 0 .. 15, Shows(L.const, 28, 4, n0)
  PROVE  HeadPart(L, 28, 4, n0)
  BY LowBits DEF HeadPart, OfBits, TenBitNumbers

(* The field of word 0 that stays below bit 28 and off k bits from lo.     *)
Placed(fields, lo, k) ==
  \A f \in fields : f.word = 0 => f.lo + f.width <= lo \/ (lo + k <= f.lo /\ f.lo + f.width <= 28)

HeadKind(n0, lo, k, n) ==
  /\ n0 \in 0 .. 15 /\ lo \in Nat /\ k \in 0 .. 10 /\ lo + k <= 28
  /\ n \in TenBitNumbers /\ OfBits(n, k)
HeadMsg(calls, n0, lo, k, n, fields, says) ==
  Msg(calls, MTBits \union (lo .. lo + k - 1), MT(n0) \union Put(Bits(n), lo), fields, says)
(* A header is recognized by its type and one number more.                 *)
Headed(L, n0, lo, k, n) ==
  /\ \A w : HeadIs(w, L) <=> TypeOf(w) = n0 /\ Num(Take(w[0], lo, k)) = n
  /\ \A i \in L.mask \union L.const : i \in 28 .. 31 \/ i \in lo .. lo + k - 1

(* A header that is a type and one more number.                            *)
LEMMA OneNumber ==
  ASSUME NEW calls, NEW n0, NEW lo, NEW k, NEW n, HeadKind(n0, lo, k, n),
         NEW fields, Tidy(fields), Placed(fields, lo, k), NEW says
  PROVE  LET L == HeadMsg(calls, n0, lo, k, n, fields, says)
         IN  Sound(L) /\ Headed(L, n0, lo, k, n) /\ L.calls = calls /\ L.fields = fields
  <1> DEFINE L == HeadMsg(calls, n0, lo, k, n, fields, says)
  <1>0. /\ n0 \in 0 .. 15 /\ lo \in Nat /\ k \in 0 .. 10 /\ lo + k <= 28
        /\ n \in TenBitNumbers /\ OfBits(n, k)
    BY DEF HeadKind
  <1> USE <1>0
  <1> DEFINE c == MT(n0) \union Put(Bits(n), lo)
             mask == MTBits \union (lo .. lo + k - 1)
  <1>1. /\ Shows(c, 28, 4, n0) /\ Shows(c, lo, k, n)
        /\ \A i \in c : i \in 28 .. 31 \/ i \in lo .. lo + k - 1
    <2>1. Header(c, n0, lo, k, n)
      BY HeadShows
    <2> QED
      BY <2>1 DEF Header
  <1>2. mask = (28 .. 31) \union (lo .. lo + k - 1)
    BY DEF MTBits
  <1>3. L = Msg(calls, mask, c, fields, says)
    BY DEF HeadMsg
  <1> HIDE DEF c, mask, L
  <1>4. /\ L.calls = calls /\ L.fields = fields /\ L.mask = mask /\ L.const = c
        /\ L.room = 0 /\ L.at = 0 /\ L.counts = "no"
    BY <1>3 DEF Msg
  <1>5. ASSUME NEW f \in fields, f.word = 0, NEW i \in Span(f) PROVE ~ (i \in 28 .. 31 \/ i \in lo .. lo + k - 1)
    <2> DEFINE a == f.lo
               b == f.width
    <2>1. a \in Nat /\ b \in Nat /\ i \in a .. a + b - 1 /\ (a + b <= lo \/ (lo + k <= a /\ a + b <= 28))
      BY <1>5 DEF Tidy, PieceType, Placed, Span
    <2> HIDE DEF a, b
    <2> QED
      BY <2>1
  <1>6. Sound(L)
    BY <1>1, <1>2, <1>4, <1>5, PlainSound
  <1>7. ASSUME NEW w PROVE HeadIs(w, L) <=> TypeOf(w) = n0 /\ Num(Take(w[0], lo, k)) = n
    <2>1. HeadPart(L, lo, k, n) /\ Masks3(L, lo, k, lo, k)
      BY <1>1, <1>2, <1>4 DEF Masks3, HeadPart
    <2>2. HeadPart(L, 28, 4, n0)
      BY <1>1, <1>4, TypePart
    <2>3. HeadIs(w, L) <=> /\ TypeOf(w) = n0
                           /\ Num(Take(w[0], lo, k)) = n
                           /\ Num(Take(w[0], lo, k)) = n
      BY <2>1, <2>2, HeadNumbers
    <2> QED
      BY <2>3
  <1> QED
    BY <1>1, <1>2, <1>4, <1>6, <1>7 DEF Headed, L

(* A header that is a type only.                                           *)
OnlyTyped(L, n0) ==
  /\ \A w : HeadIs(w, L) <=> TypeOf(w) = n0
  /\ \A i \in L.mask \union L.const : i \in 28 .. 31

(* Its type is all that it is recognized by.                               *)
LEMMA TypeOnly ==
  ASSUME NEW n0 \in 0 .. 15, NEW L, L.mask = MTBits, L.const = MT(n0)
  PROVE  OnlyTyped(L, n0)
  <1> DEFINE c == MT(n0) \union Put(Bits(n0), 24)
  <1>1. Bits(n0) \subseteq 0 .. 3
    BY LowBits
  <1>2. \A i : i \in MT(n0) <=> i \in Int /\ i - 28 \in Bits(n0)
    <2>1. Bits(n0) \subseteq Int /\ 28 \in Int
      BY BitsBelow16
    <2>2. \A i : i \in Put(Bits(n0), 28) <=> i \in Int /\ i - 28 \in Bits(n0)
      BY <2>1, PutBits, Zenon
    <2> QED
      BY <2>2 DEF MT
  <1>3. Shows(L.const, 28, 4, n0)
    BY <1>2 DEF Shows
  <1>4. MTBits = 28 .. 31 /\ 28 + 4 - 1 = 31
    BY DEF MTBits
  <1>5. HeadPart(L, 28, 4, n0)
    BY <1>3, TypePart
  <1>6. ASSUME NEW w PROVE HeadIs(w, L) <=> TypeOf(w) = n0
    <2>1. Masks3(L, 28, 4, 28, 4)
      BY <1>4 DEF Masks3
    <2>2. HeadIs(w, L) <=> TypeOf(w) = n0 /\ Num(Take(w[0], 28, 4)) = n0 /\ Num(Take(w[0], 28, 4)) = n0
      BY <1>5, <2>1, HeadNumbers
    <2> QED
      BY <2>2 DEF TypeOf
  <1>7. \A i \in L.mask \union L.const : i \in 28 .. 31
    <2>1. ASSUME NEW i \in MT(n0) PROVE i \in 28 .. 31
      <3>1. i \in Int /\ i - 28 \in 0 .. 3
        BY <1>1, <1>2
      <3> QED
        BY <3>1
    <2> QED
      BY <1>4, <2>1
  <1> QED
    BY <1>6, <1>7 DEF OnlyTyped

(* With bytes, a layout needs the rest of the message for them.            *)
LEMMA BytesSound ==
  ASSUME NEW M, Sound(M), M.room = 0, M.counts = "no",
         NEW at \in {16, 24, 32}, NEW room \in 0 .. 14, at + 8 * room <= 128,
         \A f \in M.fields : f.word = 0 /\ f.lo >= 32 - at,
         \A i \in M.mask \union M.const : i \notin 0 .. 31 - at,
         NEW L, L.fields = M.fields, L.mask = M.mask, L.const = M.const, L.at = at, L.room = room, L.counts = "no"
  PROVE  Sound(L)
  <1>1. Counted(L) = {} /\ \A i : i \in TailBits(L) => i \in 0 .. 31 - at
    BY DEF Counted, TailBits
  <1>2. ASSUME NEW f \in L.fields, NEW i \in Span(f) PROVE i \notin 0 .. 31 - at
    <2> DEFINE a == f.lo
               b == f.width
    <2>1. a \in Nat /\ b \in Nat /\ i \in a .. a + b - 1 /\ a >= 32 - at
      BY <1>2 DEF Sound, Tidy, PieceType, Span
    <2> HIDE DEF a, b
    <2> QED
      BY <2>1
  <1>3. \A f \in L.fields : f.word = 0 /\ \A i \in Span(f) : i \notin L.mask \union L.const
    BY DEF Sound
  <1>4. Tidy(L.fields)
    BY DEF Sound
  <1> QED
    BY <1>1, <1>2, <1>3, <1>4 DEF Sound

(* Words with the header of a layout reach its callback; a callback that   *)
(* reads what its builder writes.                                          *)
Reached(L) == \A w : HeadIs(w, L) => CallbackOf(w) = L.calls
Exact(L) ==
  Sound(L) /\ L.calls \in DOMAIN Extract /\ Extract[L.calls] = L.fields /\ L.calls # "on_clip"

Switches == {UtilityCalls, Cv1Calls, Cv2Calls, SetupCalls, StreamCalls}

(* No switch of the dispatcher has two branches for a value.               *)
LEMMA SwitchOne ==
  ASSUME NEW t \in Switches, NEW n, NEW calls, <<n, calls>> \in t, NEW b, Num(b) = n
  PROVE  At(t, b) = calls
  <1>1. \A c, d \in UtilityCalls : c[1] = d[1] => c[2] = d[2]
    BY DEF UtilityCalls
  <1>2. \A c, d \in Cv1Calls : c[1] = d[1] => c[2] = d[2]
    BY DEF Cv1Calls
  <1>3. \A c, d \in Cv2Calls : c[1] = d[1] => c[2] = d[2]
    BY DEF Cv2Calls
  <1>4. \A c, d \in SetupCalls : c[1] = d[1] => c[2] = d[2]
    BY DEF SetupCalls
  <1>5. \A c, d \in StreamCalls : c[1] = d[1] => c[2] = d[2]
    BY DEF StreamCalls
  <1>6. \A c, d \in t : c[1] = d[1] => c[2] = d[2]
    BY <1>1, <1>2, <1>3, <1>4, <1>5 DEF Switches
  <1> DEFINE c == <<n, calls>>
  <1>7. c \in t /\ c[1] = Num(b) /\ c[2] = calls
    OBVIOUS
  <1> HIDE DEF c
  <1>8. At(t, b) = c[2]
    BY <1>6, <1>7, SwitchTakes
  <1> QED
    BY <1>7, <1>8

(* The arguments of channel voice messages leave the status nibble alone,  *)
(* those of system messages the status byte.                               *)
LEMMA VoicePlaced ==
  ASSUME NEW fields, LowHalf(fields)
  PROVE  Placed(fields \union {Group, Channel}, 20, 4) /\ Placed(fields \union {Group}, 16, 8)
  <1>1. /\ Group.word = 0 /\ Group.lo = 24 /\ Group.width = 4
        /\ Channel.word = 0 /\ Channel.lo = 16 /\ Channel.width = 4
    BY DEF Group, Channel, F, Piece
  <1>2. \A f \in fields : f.word = 0 => f.lo + f.width <= 20 /\ f.lo + f.width <= 16
    <2> SUFFICES ASSUME NEW f \in fields, f.word = 0 PROVE f.lo + f.width <= 20 /\ f.lo + f.width <= 16
      OBVIOUS
    <2>1. f.lo \in Nat /\ f.width \in Nat /\ f.lo + f.width <= 16
      BY DEF LowHalf
    <2> QED
      BY <2>1
  <1> QED
    BY <1>1, <1>2 DEF Placed

(* Fields that a builder of channel voice messages may place, and a layout *)
(* with the status of a switch of the dispatcher.  The group of a message  *)
(* has one place.                                                          *)
NoGroup(fields) == \A f \in fields : f.arg # "group"
Grouped(L) == Group \in L.fields /\ \A f \in L.fields : f.arg = "group" => f = Group
VoiceFields(fields) == Tidy(fields \union {Group, Channel}) /\ LowHalf(fields) /\ NoGroup(fields)
Cv2From(L, calls, n, fields) ==
  n \in 0 .. 15 /\ <<n, calls>> \in Cv2Calls /\ VoiceFields(fields) /\ L = build_cv2_w0(calls, 16 * n, fields)
Cv1From(L, calls, n, fields) ==
  n \in 0 .. 15 /\ <<n, calls>> \in Cv1Calls /\ VoiceFields(fields) /\ L = Cv1(calls, 16 * n, fields)

(* What a builder of a channel voice message makes.                        *)
LEMMA Cv2Made ==
  ASSUME NEW L, NEW calls, NEW n, NEW fields, Cv2From(L, calls, n, fields)
  PROVE  /\ Sound(L) /\ Headed(L, 4, 20, 4, n) /\ Reached(L) /\ Grouped(L)
         /\ L.calls = calls /\ L.fields = fields \union {Group, Channel}
  <1> DEFINE all == fields \union {Group, Channel}
             M == HeadMsg(calls, 4, 20, 4, n, all, None)
  <1>0. /\ n \in 0 .. 15 /\ <<n, calls>> \in Cv2Calls /\ L = build_cv2_w0(calls, 16 * n, fields)
        /\ Tidy(fields \union {Group, Channel}) /\ LowHalf(fields) /\ NoGroup(fields)
    BY DEF Cv2From, VoiceFields
  <1> USE <1>0
  <1>1. L = M
    <2>1. 20 + 4 - 1 = 23
      OBVIOUS
    <2>2. Put(Bits(16 * n), 16) = Put(Bits(n), 20)
      BY ShiftedPut
    <2> QED
      BY <2>1, <2>2 DEF build_cv2_w0, Channel, HeadMsg
  <1>2. Placed(all, 20, 4)
    BY VoicePlaced
  <1>3. HeadKind(4, 20, 4, n)
    BY LowBits DEF HeadKind, TenBitNumbers, OfBits
  <1> HIDE DEF all
  <1>4. Sound(L) /\ Headed(L, 4, 20, 4, n) /\ L.calls = calls /\ L.fields = all
    BY <1>1, <1>2, <1>3, OneNumber DEF all
  <1>6. ASSUME NEW w, HeadIs(w, L) PROVE CallbackOf(w) = calls
    <2>1. TypeOf(w) = 4 /\ Num(Take(w[0], 20, 4)) = n
      BY <1>4, <1>6 DEF Headed
    <2>2. At(Cv2Calls, Take(w[0], 20, 4)) = calls
      BY <2>1, SwitchOne DEF Switches
    <2> QED
      BY <2>1, <2>2 DEF CallbackOf, TypeOf, dispatch_cv2
  <1>7. Grouped(L)
    BY <1>4 DEF Grouped, NoGroup, Channel, F, Piece, all
  <1> QED
    BY <1>4, <1>6, <1>7 DEF Reached, all

(* ... and of a MIDI 1.0 one.                                              *)
LEMMA Cv1Made ==
  ASSUME NEW L, NEW calls, NEW n, NEW fields, Cv1From(L, calls, n, fields)
  PROVE  /\ Sound(L) /\ Headed(L, 2, 20, 4, n) /\ Reached(L) /\ Grouped(L)
         /\ L.calls = calls /\ L.fields = fields \union {Group, Channel}
  <1> DEFINE all == fields \union {Group, Channel}
             M == HeadMsg(calls, 2, 20, 4, n, all, None)
  <1>0. /\ n \in 0 .. 15 /\ <<n, calls>> \in Cv1Calls /\ L = Cv1(calls, 16 * n, fields)
        /\ Tidy(fields \union {Group, Channel}) /\ LowHalf(fields) /\ NoGroup(fields)
    BY DEF Cv1From, VoiceFields
  <1> USE <1>0
  <1>1. L = M
    <2>1. 20 + 4 - 1 = 23
      OBVIOUS
    <2>2. Put(Bits(16 * n), 16) = Put(Bits(n), 20)
      BY ShiftedPut
    <2> QED
      BY <2>1, <2>2 DEF Cv1, Channel, HeadMsg
  <1>2. Placed(all, 20, 4)
    BY VoicePlaced
  <1>3. HeadKind(2, 20, 4, n)
    BY LowBits DEF HeadKind, TenBitNumbers, OfBits
  <1> HIDE DEF all
  <1>4. Sound(L) /\ Headed(L, 2, 20, 4, n) /\ L.calls = calls /\ L.fields = all
    BY <1>1, <1>2, <1>3, OneNumber DEF all
  <1>6. ASSUME NEW w, HeadIs(w, L) PROVE CallbackOf(w) = calls
    <2>1. TypeOf(w) = 2 /\ Num(Take(w[0], 20, 4)) = n
      BY <1>4, <1>6 DEF Headed
    <2>2. At(Cv1Calls, Take(w[0], 20, 4)) = calls
      BY <2>1, SwitchOne DEF Switches
    <2> QED
      BY <2>1, <2>2 DEF CallbackOf, TypeOf, dispatch_cv1
  <1>7. Grouped(L)
    BY <1>4 DEF Grouped, NoGroup, Channel, F, Piece, all
  <1> QED
    BY <1>4, <1>6, <1>7 DEF Reached, all

(* ... and of a utility message.                                           *)
UtilityFrom(L, calls, n, fields) ==
  /\ n \in 0 .. 15 /\ <<n, calls>> \in UtilityCalls /\ L = Utility(calls, n, fields)
  /\ Tidy(fields) /\ Placed(fields, 20, 4)

(* The word of a Utility message shows its status in bits 20 to 23, and    *)
(* the dispatcher reaches the callback that the builder means.             *)
LEMMA UtilityMade ==
  ASSUME NEW L, NEW calls, NEW n, NEW fields, UtilityFrom(L, calls, n, fields)
  PROVE  /\ Sound(L) /\ Headed(L, 0, 20, 4, n) /\ Reached(L)
         /\ L.calls = calls /\ L.fields = fields
  <1>0. /\ n \in 0 .. 15 /\ <<n, calls>> \in UtilityCalls /\ L = Utility(calls, n, fields)
        /\ Tidy(fields) /\ Placed(fields, 20, 4)
    BY DEF UtilityFrom
  <1> USE <1>0
  <1>1. L = HeadMsg(calls, 0, 20, 4, n, fields, None)
    <2>1. 20 + 4 - 1 = 23
      OBVIOUS
    <2> QED
      BY <2>1 DEF Utility, HeadMsg
  <1>2. HeadKind(0, 20, 4, n)
    BY LowBits DEF HeadKind, TenBitNumbers, OfBits
  <1>3. Sound(L) /\ Headed(L, 0, 20, 4, n) /\ L.calls = calls /\ L.fields = fields
    BY <1>1, <1>2, OneNumber
  <1>4. ASSUME NEW w, HeadIs(w, L) PROVE CallbackOf(w) = calls
    <2>1. TypeOf(w) = 0 /\ Num(Take(w[0], 20, 4)) = n
      BY <1>3, <1>4 DEF Headed
    <2>2. At(UtilityCalls, Take(w[0], 20, 4)) = calls
      BY <2>1, SwitchOne DEF Switches
    <2> QED
      BY <2>1, <2>2 DEF CallbackOf, TypeOf, dispatch_utility
  <1> QED
    BY <1>3, <1>4 DEF Reached

(* ... and of a system message with a status of its own.                   *)
SystemFrom(L, n, fields) ==
  n \in StatusBytes /\ Tidy(fields \union {Group}) /\ LowHalf(fields) /\ L = System(n, fields)

(* The word of a System message shows its status byte in bits 16 to 23,    *)
(* and the dispatcher hands it to on_system.                               *)
LEMMA SystemMade ==
  ASSUME NEW L, NEW n, NEW fields, SystemFrom(L, n, fields)
  PROVE  /\ Sound(L) /\ Headed(L, 1, 16, 8, n) /\ Reached(L)
         /\ L.calls = "on_system" /\ L.fields = fields \union {Group}
  <1> DEFINE all == fields \union {Group}
             says == [status |-> Bits(n)]
  <1>0. n \in StatusBytes /\ Tidy(fields \union {Group}) /\ LowHalf(fields) /\ L = System(n, fields)
    BY DEF SystemFrom
  <1> USE <1>0
  <1>1. L = HeadMsg("on_system", 1, 16, 8, n, all, says)
    <2>1. 16 + 8 - 1 = 23
      OBVIOUS
    <2> QED
      BY <2>1 DEF System, HeadMsg
  <1>2. HeadKind(1, 16, 8, n)
    BY LowBits DEF HeadKind, TenBitNumbers, OfBits, StatusBytes
  <1>3. Placed(all, 16, 8)
    BY VoicePlaced
  <1> HIDE DEF all, says
  <1>4. Sound(L) /\ Headed(L, 1, 16, 8, n) /\ L.calls = "on_system" /\ L.fields = all
    BY <1>1, <1>2, <1>3, OneNumber DEF all
  <1>5. ASSUME NEW w, HeadIs(w, L) PROVE CallbackOf(w) = "on_system"
    <2>1. TypeOf(w) = 1
      BY <1>4, <1>5 DEF Headed
    <2> QED
      BY <2>1 DEF CallbackOf, TypeOf, dispatch_system
  <1> QED
    BY <1>4, <1>5 DEF Reached, all

(* ... or with the caller's.                                               *)
AnySystemFrom(L, fields) ==
  Tidy(fields \union {Group, F("status", 8, 0, 16)}) /\ LowHalf(fields) /\ L = AnySystem(fields)

(* A System message that takes its status as an argument is known by its   *)
(* message type alone.                                                     *)
LEMMA AnySystemMade ==
  ASSUME NEW L, NEW fields, AnySystemFrom(L, fields)
  PROVE  /\ Sound(L) /\ OnlyTyped(L, 1) /\ Reached(L)
         /\ L.calls = "on_system" /\ L.fields = fields \union {Group, F("status", 8, 0, 16)}
  <1> DEFINE s == F("status", 8, 0, 16)
             all == fields \union {Group, s}
  <1>0. Tidy(fields \union {Group, F("status", 8, 0, 16)}) /\ LowHalf(fields) /\ L = AnySystem(fields)
    BY DEF AnySystemFrom
  <1> USE <1>0
  <1>1. /\ L.calls = "on_system" /\ L.mask = MTBits /\ L.const = MT(1) /\ L.fields = all
        /\ L.room = 0 /\ L.at = 0 /\ L.counts = "no"
    BY DEF AnySystem, Msg
  <1>2. OnlyTyped(L, 1)
    BY <1>1, TypeOnly
  <1>3. \A f \in all : f.word = 0 => f.lo \in Nat /\ f.width \in Nat /\ f.lo + f.width <= 28
    <2>1. \A f \in fields : f.word = 0 => f.lo \in Nat /\ f.width \in Nat /\ f.lo + f.width <= 28
      <3> SUFFICES ASSUME NEW f \in fields, f.word = 0 PROVE f.lo \in Nat /\ f.width \in Nat /\ f.lo + f.width <= 28
        OBVIOUS
      <3>1. f.lo \in Nat /\ f.width \in Nat /\ f.lo + f.width <= 16
        BY DEF LowHalf
      <3> QED
        BY <3>1
    <2>2. Group.lo = 24 /\ Group.width = 4 /\ s.lo = 16 /\ s.width = 8
      BY DEF Group, F, Piece
    <2> QED
      BY <2>1, <2>2
  <1>4. Sound(L)
    <2>1. ASSUME NEW f \in all, f.word = 0, NEW i \in Span(f) PROVE i \notin 28 .. 31
      <3> DEFINE a == f.lo
                 b == f.width
      <3>1. a \in Nat /\ b \in Nat /\ a + b <= 28 /\ i \in a .. a + b - 1
        BY <1>3, <2>1 DEF Span
      <3> HIDE DEF a, b
      <3> QED
        BY <3>1
    <2>2. Tidy(L.fields)
      BY <1>1
    <2> HIDE DEF all
    <2> QED
      BY <1>1, <1>2, <2>1, <2>2, PlainSound DEF OnlyTyped
  <1>5. ASSUME NEW w, HeadIs(w, L) PROVE CallbackOf(w) = "on_system"
    <2>1. TypeOf(w) = 1
      BY <1>2, <1>5 DEF OnlyTyped
    <2> QED
      BY <2>1 DEF CallbackOf, TypeOf, dispatch_system
  <1> QED
    BY <1>1, <1>2, <1>4, <1>5 DEF Reached

-----------------------------------------------------------------------------
(* The dispatcher's tables of arguments.                                   *)
NoArgs == [on_unknown |-> {}]
ArgTables == {UtilityArgs, SystemArgs, Cv1Args, Cv2Args, DataArgs, FlexArgs, StreamArgs, NoArgs}

DataNames == {"on_sysex7", "on_sysex8", "on_mds_header", "on_mds_payload"}
FlexNames == {"on_tempo", "on_time_sig", "on_metronome", "on_key_sig", "on_chord", "on_flex_text"}
StreamNames == {"on_endpoint_discovery", "on_endpoint_info", "on_device_identity", "on_stream_text",
                "on_fb_name", "on_config_request", "on_config_notify", "on_fb_discovery", "on_fb_info"}

(* The callbacks of each table, as finite sets.                            *)
LEMMA ArgDomains ==
  /\ DOMAIN UtilityArgs = UtilityNames /\ DOMAIN SystemArgs = {"on_system"}
  /\ DOMAIN Cv1Args = Cv1Names /\ DOMAIN Cv2Args = Cv2Names /\ DOMAIN DataArgs = DataNames
  /\ DOMAIN FlexArgs = FlexNames /\ DOMAIN StreamArgs = StreamNames /\ DOMAIN NoArgs = {"on_unknown"}
  <1>1. DOMAIN UtilityArgs = UtilityNames
    BY DEF UtilityArgs, UtilityNames
  <1>2. DOMAIN SystemArgs = {"on_system"} /\ DOMAIN NoArgs = {"on_unknown"}
    BY DEF SystemArgs, NoArgs
  <1>3. DOMAIN Cv1Args = Cv1Names
    BY DEF Cv1Args, Cv1Names
  <1>4. DOMAIN Cv2Args = Cv2Names
    BY DEF Cv2Args, Cv2Names
  <1>5. DOMAIN DataArgs = DataNames
    BY DEF DataArgs, DataNames
  <1>6. DOMAIN FlexArgs = FlexNames
    BY DEF FlexArgs, FlexNames
  <1>7. DOMAIN StreamArgs = StreamNames
    BY DEF StreamArgs, StreamNames
  <1> QED
    BY <1>1, <1>2, <1>3, <1>4, <1>5, <1>6, <1>7

(* Each callback is in one table only, where its arguments are looked up.  *)
LEMMA ExtractOf ==
  ASSUME NEW t \in ArgTables, NEW name \in DOMAIN t
  PROVE  name \in DOMAIN Extract /\ Extract[name] = t[name]
  <1>1. ASSUME NEW u \in ArgTables, name \in DOMAIN u PROVE u = t
    <2> USE ArgDomains DEF UtilityNames, Cv1Names, Cv2Names, DataNames, FlexNames, StreamNames
    <2>1. CASE t = UtilityArgs
      BY <1>1, <2>1 DEF ArgTables
    <2>2. CASE t = SystemArgs
      BY <1>1, <2>2 DEF ArgTables
    <2>3. CASE t = Cv1Args
      BY <1>1, <2>3 DEF ArgTables
    <2>4. CASE t = Cv2Args
      BY <1>1, <2>4 DEF ArgTables
    <2>5. CASE t = DataArgs
      BY <1>1, <2>5 DEF ArgTables
    <2>6. CASE t = FlexArgs
      BY <1>1, <2>6 DEF ArgTables
    <2>7. CASE t = StreamArgs
      BY <1>1, <2>7 DEF ArgTables
    <2>8. CASE t = NoArgs
      BY <1>1, <2>8 DEF ArgTables
    <2> QED
      BY <2>1, <2>2, <2>3, <2>4, <2>5, <2>6, <2>7, <2>8 DEF ArgTables
  <1>2. Extract = Merged(ArgTables)
    BY DEF Extract, ArgTables, NoArgs
  <1> QED
    BY <1>1, <1>2, MergedAt

(* A layout whose header is a number and whose callback reads what the     *)
(* builder writes.                                                         *)
Known(L, n0, lo, k, n)  == Sound(L) /\ Headed(L, n0, lo, k, n) /\ Reached(L)
Agrees(L, n0, lo, k, n) == Known(L, n0, lo, k, n) /\ Exact(L)

-----------------------------------------------------------------------------
(* MIDI 2.0 channel voice messages: fields that a builder may place, and   *)
(* the status nibble of each kind.                                         *)
VoiceNumber == [
  note_on |-> 9, note_off |-> 8, cc |-> 11, pitch_bend |-> 14, chan_pressure |-> 13, poly_pressure |-> 10,
  rpn |-> 2, nrpn |-> 3, program |-> 12, per_note_pb |-> 6, per_note_cc |-> 1, per_note_mgmt |-> 15,
  reg_per_note_ctrl |-> 0, asn_per_note_ctrl |-> 1, rel_rpn |-> 4, rel_nrpn |-> 5]

(* A kind of MIDI 2.0 channel voice message, and the callback for it.      *)
Cv2Row(t, kind, calls, n, fields) ==
  /\ t \in Tables /\ kind \in DOMAIN t /\ Cv2From(t[kind], calls, n, fields)
  /\ calls \in DOMAIN Cv2Args /\ Cv2Args[calls] = fields \union {Group, Channel}
Voiced(kind, n) == Agrees(Layouts[kind], 4, 20, 4, n) /\ Grouped(Layouts[kind])

(* Its callback reads what it writes.                                      *)
LEMMA Cv2Agrees ==
  ASSUME NEW t, NEW kind, NEW calls, NEW n, NEW fields, Cv2Row(t, kind, calls, n, fields)
  PROVE  Voiced(kind, n)
  <1> DEFINE L == Layouts[kind]
  <1>0. t \in Tables /\ kind \in DOMAIN t /\ Cv2From(t[kind], calls, n, fields)
    BY DEF Cv2Row
  <1>1. Cv2From(L, calls, n, fields)
    BY <1>0, LayoutOf
  <1> HIDE DEF L
  <1>2. /\ Sound(L) /\ Headed(L, 4, 20, 4, n) /\ Reached(L) /\ Grouped(L)
        /\ L.calls = calls /\ L.fields = fields \union {Group, Channel}
    BY <1>1, Cv2Made
  <1>3. calls \in DOMAIN Cv2Args /\ Cv2Args[calls] = fields \union {Group, Channel}
    BY DEF Cv2Row
  <1>4. calls \in DOMAIN Extract /\ Extract[calls] = Cv2Args[calls]
    BY <1>3, ExtractOf DEF ArgTables
  <1>5. calls # "on_clip"
    BY <1>3, ArgDomains DEF Cv2Names
  <1>6. Agrees(L, 4, 20, 4, n)
    BY <1>2, <1>3, <1>4, <1>5 DEF Agrees, Known, Exact
  <1> QED
    BY <1>2, <1>6 DEF L, Voiced

(* The arguments of MIDI 2.0 channel voice messages.                       *)
LEMMA VoiceFieldSets ==
  /\ VoiceFields(NoteArgs) /\ VoiceFields(BankIndex) /\ VoiceFields(PerNote)
  /\ VoiceFields({Note, Value}) /\ VoiceFields({Value}) /\ VoiceFields({F("index", 7, 0, 8), Value})
  /\ VoiceFields({F("program", 7, 1, 24), F("bank_valid", 1, 0, 0), F("bank_msb", 7, 1, 8), F("bank_lsb", 7, 1, 0)})
  /\ VoiceFields({Note, F("detach", 1, 0, 1), F("reset", 1, 0, 0)})
  <1> USE DEF VoiceFields, NoGroup, Tidy, LowHalf, PieceType, Apart, Group, Channel, Note, Value, F, Piece
  <1>1. VoiceFields(NoteArgs)
    BY DEF NoteArgs
  <1>2. VoiceFields(BankIndex)
    BY DEF BankIndex
  <1>3. VoiceFields(PerNote)
    BY DEF PerNote
  <1>4. VoiceFields({Note, Value})
    OBVIOUS
  <1>5. VoiceFields({Value})
    OBVIOUS
  <1>6. VoiceFields({F("index", 7, 0, 8), Value})
    OBVIOUS
  <1>7. VoiceFields({F("program", 7, 1, 24), F("bank_valid", 1, 0, 0), F("bank_msb", 7, 1, 8), F("bank_lsb", 7, 1, 0)})
    OBVIOUS
  <1>8. VoiceFields({Note, F("detach", 1, 0, 1), F("reset", 1, 0, 0)})
    OBVIOUS
  <1> QED
    BY <1>1, <1>2, <1>3, <1>4, <1>5, <1>6, <1>7, <1>8

(* What the callbacks read, as what the builders write and a group and a   *)
(* channel.                                                                *)
LEMMA Cv2ArgSets ==
  /\ GroupChannel = {Group, Channel}
  /\ Cv2Note = NoteArgs \union {Group, Channel} /\ Cv2Bank = BankIndex \union {Group, Channel}
  /\ Cv2PerNote = PerNote \union {Group, Channel} /\ Word1 = Value
  /\ Byte3("note") = Note /\ Byte3("index") = F("index", 7, 0, 8)
  <1>1. GroupChannel = {Group, Channel} /\ Word1 = Value /\ Byte3("note") = Note /\ Byte3("index") = F("index", 7, 0, 8)
    BY DEF GroupChannel, Channel, Word1, Value, Byte3, Note
  <1>2. Byte3("bank") = F("bank", 7, 0, 8)
    BY DEF Byte3
  <1>3. Cv2Note = NoteArgs \union {Group, Channel}
    BY <1>1 DEF Cv2Note, NoteArgs
  <1>4. Cv2Bank = BankIndex \union {Group, Channel}
    BY <1>1, <1>2 DEF Cv2Bank, BankIndex
  <1>5. Cv2PerNote = PerNote \union {Group, Channel}
    BY <1>1 DEF Cv2PerNote, PerNote
  <1> QED
    BY <1>1, <1>3, <1>4, <1>5

(* Every MIDI 2.0 Channel Voice layout is read with the fields it was      *)
(* written with, under the opcode of its kind.                             *)
LEMMA Cv2AllAgree ==
  \A kind \in DOMAIN VoiceNumber : kind \in UmpKinds /\ Voiced(kind, VoiceNumber[kind])
  <1>1. Voiced("note_on", 9)
    <2>1. VoiceLayouts \in Tables /\ "note_on" \in DOMAIN VoiceLayouts /\ <<9, "on_note_on">> \in Cv2Calls /\ "on_note_on" \in DOMAIN Cv2Args
      BY Domains, ArgDomains DEF Tables, Cv2Calls, Cv2Names
    <2>2. VoiceLayouts["note_on"] = build_cv2_w0("on_note_on", 16 * 9, NoteArgs)
      BY DEF VoiceLayouts
    <2>3. Cv2Args["on_note_on"] = NoteArgs \union {Group, Channel}
      BY Cv2ArgSets DEF Cv2Args
    <2>4. Cv2Row(VoiceLayouts, "note_on", "on_note_on", 9, NoteArgs)
      BY <2>1, <2>2, <2>3, VoiceFieldSets DEF Cv2Row, Cv2From
    <2> QED
      BY <2>4, Cv2Agrees
  <1>2. Voiced("note_off", 8)
    <2>1. VoiceLayouts \in Tables /\ "note_off" \in DOMAIN VoiceLayouts /\ <<8, "on_note_off">> \in Cv2Calls /\ "on_note_off" \in DOMAIN Cv2Args
      BY Domains, ArgDomains DEF Tables, Cv2Calls, Cv2Names
    <2>2. VoiceLayouts["note_off"] = build_cv2_w0("on_note_off", 16 * 8, NoteArgs)
      BY DEF VoiceLayouts
    <2>3. Cv2Args["on_note_off"] = NoteArgs \union {Group, Channel}
      BY Cv2ArgSets DEF Cv2Args
    <2>4. Cv2Row(VoiceLayouts, "note_off", "on_note_off", 8, NoteArgs)
      BY <2>1, <2>2, <2>3, VoiceFieldSets DEF Cv2Row, Cv2From
    <2> QED
      BY <2>4, Cv2Agrees
  <1>3. Voiced("cc", 11)
    <2>1. VoiceLayouts \in Tables /\ "cc" \in DOMAIN VoiceLayouts /\ <<11, "on_cc">> \in Cv2Calls /\ "on_cc" \in DOMAIN Cv2Args
      BY Domains, ArgDomains DEF Tables, Cv2Calls, Cv2Names
    <2>2. VoiceLayouts["cc"] = build_cv2_w0("on_cc", 16 * 11, {F("index", 7, 0, 8), Value})
      BY DEF VoiceLayouts
    <2>3. Cv2Args["on_cc"] = {F("index", 7, 0, 8), Value} \union {Group, Channel}
      BY Cv2ArgSets DEF Cv2Args
    <2>4. Cv2Row(VoiceLayouts, "cc", "on_cc", 11, {F("index", 7, 0, 8), Value})
      BY <2>1, <2>2, <2>3, VoiceFieldSets DEF Cv2Row, Cv2From
    <2> QED
      BY <2>4, Cv2Agrees
  <1>4. Voiced("pitch_bend", 14)
    <2>1. VoiceLayouts \in Tables /\ "pitch_bend" \in DOMAIN VoiceLayouts /\ <<14, "on_pitch_bend">> \in Cv2Calls /\ "on_pitch_bend" \in DOMAIN Cv2Args
      BY Domains, ArgDomains DEF Tables, Cv2Calls, Cv2Names
    <2>2. VoiceLayouts["pitch_bend"] = build_cv2_w0("on_pitch_bend", 16 * 14, {Value})
      BY DEF VoiceLayouts
    <2>3. Cv2Args["on_pitch_bend"] = {Value} \union {Group, Channel}
      BY Cv2ArgSets DEF Cv2Args
    <2>4. Cv2Row(VoiceLayouts, "pitch_bend", "on_pitch_bend", 14, {Value})
      BY <2>1, <2>2, <2>3, VoiceFieldSets DEF Cv2Row, Cv2From
    <2> QED
      BY <2>4, Cv2Agrees
  <1>5. Voiced("chan_pressure", 13)
    <2>1. VoiceLayouts \in Tables /\ "chan_pressure" \in DOMAIN VoiceLayouts /\ <<13, "on_chan_pressure">> \in Cv2Calls /\ "on_chan_pressure" \in DOMAIN Cv2Args
      BY Domains, ArgDomains DEF Tables, Cv2Calls, Cv2Names
    <2>2. VoiceLayouts["chan_pressure"] = build_cv2_w0("on_chan_pressure", 16 * 13, {Value})
      BY DEF VoiceLayouts
    <2>3. Cv2Args["on_chan_pressure"] = {Value} \union {Group, Channel}
      BY Cv2ArgSets DEF Cv2Args
    <2>4. Cv2Row(VoiceLayouts, "chan_pressure", "on_chan_pressure", 13, {Value})
      BY <2>1, <2>2, <2>3, VoiceFieldSets DEF Cv2Row, Cv2From
    <2> QED
      BY <2>4, Cv2Agrees
  <1>6. Voiced("poly_pressure", 10)
    <2>1. VoiceLayouts \in Tables /\ "poly_pressure" \in DOMAIN VoiceLayouts /\ <<10, "on_poly_pressure">> \in Cv2Calls /\ "on_poly_pressure" \in DOMAIN Cv2Args
      BY Domains, ArgDomains DEF Tables, Cv2Calls, Cv2Names
    <2>2. VoiceLayouts["poly_pressure"] = build_cv2_w0("on_poly_pressure", 16 * 10, {Note, Value})
      BY DEF VoiceLayouts
    <2>3. Cv2Args["on_poly_pressure"] = {Note, Value} \union {Group, Channel}
      BY Cv2ArgSets DEF Cv2Args
    <2>4. Cv2Row(VoiceLayouts, "poly_pressure", "on_poly_pressure", 10, {Note, Value})
      BY <2>1, <2>2, <2>3, VoiceFieldSets DEF Cv2Row, Cv2From
    <2> QED
      BY <2>4, Cv2Agrees
  <1>7. Voiced("rpn", 2)
    <2>1. VoiceLayouts \in Tables /\ "rpn" \in DOMAIN VoiceLayouts /\ <<2, "on_rpn">> \in Cv2Calls /\ "on_rpn" \in DOMAIN Cv2Args
      BY Domains, ArgDomains DEF Tables, Cv2Calls, Cv2Names
    <2>2. VoiceLayouts["rpn"] = build_cv2_w0("on_rpn", 16 * 2, BankIndex)
      BY DEF VoiceLayouts
    <2>3. Cv2Args["on_rpn"] = BankIndex \union {Group, Channel}
      BY Cv2ArgSets DEF Cv2Args
    <2>4. Cv2Row(VoiceLayouts, "rpn", "on_rpn", 2, BankIndex)
      BY <2>1, <2>2, <2>3, VoiceFieldSets DEF Cv2Row, Cv2From
    <2> QED
      BY <2>4, Cv2Agrees
  <1>8. Voiced("nrpn", 3)
    <2>1. VoiceLayouts \in Tables /\ "nrpn" \in DOMAIN VoiceLayouts /\ <<3, "on_nrpn">> \in Cv2Calls /\ "on_nrpn" \in DOMAIN Cv2Args
      BY Domains, ArgDomains DEF Tables, Cv2Calls, Cv2Names
    <2>2. VoiceLayouts["nrpn"] = build_cv2_w0("on_nrpn", 16 * 3, BankIndex)
      BY DEF VoiceLayouts
    <2>3. Cv2Args["on_nrpn"] = BankIndex \union {Group, Channel}
      BY Cv2ArgSets DEF Cv2Args
    <2>4. Cv2Row(VoiceLayouts, "nrpn", "on_nrpn", 3, BankIndex)
      BY <2>1, <2>2, <2>3, VoiceFieldSets DEF Cv2Row, Cv2From
    <2> QED
      BY <2>4, Cv2Agrees
  <1>9. Voiced("program", 12)
    <2>1. ProgramLayout \in Tables /\ "program" \in DOMAIN ProgramLayout /\ <<12, "on_program">> \in Cv2Calls /\ "on_program" \in DOMAIN Cv2Args
      BY Domains, ArgDomains DEF Tables, Cv2Calls, Cv2Names
    <2>2. ProgramLayout["program"] = build_cv2_w0("on_program", 16 * 12, {F("program", 7, 1, 24), F("bank_valid", 1, 0, 0), F("bank_msb", 7, 1, 8), F("bank_lsb", 7, 1, 0)})
      BY DEF ProgramLayout
    <2>3. Cv2Args["on_program"] = {F("program", 7, 1, 24), F("bank_valid", 1, 0, 0), F("bank_msb", 7, 1, 8), F("bank_lsb", 7, 1, 0)} \union {Group, Channel}
      BY Cv2ArgSets DEF Cv2Args
    <2>4. Cv2Row(ProgramLayout, "program", "on_program", 12, {F("program", 7, 1, 24), F("bank_valid", 1, 0, 0), F("bank_msb", 7, 1, 8), F("bank_lsb", 7, 1, 0)})
      BY <2>1, <2>2, <2>3, VoiceFieldSets DEF Cv2Row, Cv2From
    <2> QED
      BY <2>4, Cv2Agrees
  <1>10. Voiced("per_note_pb", 6)
    <2>1. PerNoteLayouts \in Tables /\ "per_note_pb" \in DOMAIN PerNoteLayouts /\ <<6, "on_per_note_pb">> \in Cv2Calls /\ "on_per_note_pb" \in DOMAIN Cv2Args
      BY Domains, ArgDomains DEF Tables, Cv2Calls, Cv2Names
    <2>2. PerNoteLayouts["per_note_pb"] = build_cv2_w0("on_per_note_pb", 16 * 6, {Note, Value})
      BY DEF PerNoteLayouts
    <2>3. Cv2Args["on_per_note_pb"] = {Note, Value} \union {Group, Channel}
      BY Cv2ArgSets DEF Cv2Args
    <2>4. Cv2Row(PerNoteLayouts, "per_note_pb", "on_per_note_pb", 6, {Note, Value})
      BY <2>1, <2>2, <2>3, VoiceFieldSets DEF Cv2Row, Cv2From
    <2> QED
      BY <2>4, Cv2Agrees
  <1>11. Voiced("per_note_cc", 1)
    <2>1. PerNoteLayouts \in Tables /\ "per_note_cc" \in DOMAIN PerNoteLayouts /\ <<1, "on_asn_per_note">> \in Cv2Calls /\ "on_asn_per_note" \in DOMAIN Cv2Args
      BY Domains, ArgDomains DEF Tables, Cv2Calls, Cv2Names
    <2>2. PerNoteLayouts["per_note_cc"] = build_cv2_w0("on_asn_per_note", 16 * 1, PerNote)
      BY DEF PerNoteLayouts
    <2>3. Cv2Args["on_asn_per_note"] = PerNote \union {Group, Channel}
      BY Cv2ArgSets DEF Cv2Args
    <2>4. Cv2Row(PerNoteLayouts, "per_note_cc", "on_asn_per_note", 1, PerNote)
      BY <2>1, <2>2, <2>3, VoiceFieldSets DEF Cv2Row, Cv2From
    <2> QED
      BY <2>4, Cv2Agrees
  <1>12. Voiced("per_note_mgmt", 15)
    <2>1. PerNoteLayouts \in Tables /\ "per_note_mgmt" \in DOMAIN PerNoteLayouts /\ <<15, "on_per_note_mgmt">> \in Cv2Calls /\ "on_per_note_mgmt" \in DOMAIN Cv2Args
      BY Domains, ArgDomains DEF Tables, Cv2Calls, Cv2Names
    <2>2. PerNoteLayouts["per_note_mgmt"] = build_cv2_w0("on_per_note_mgmt", 16 * 15, {Note, F("detach", 1, 0, 1), F("reset", 1, 0, 0)})
      BY DEF PerNoteLayouts
    <2>3. Cv2Args["on_per_note_mgmt"] = {Note, F("detach", 1, 0, 1), F("reset", 1, 0, 0)} \union {Group, Channel}
      BY Cv2ArgSets DEF Cv2Args
    <2>4. Cv2Row(PerNoteLayouts, "per_note_mgmt", "on_per_note_mgmt", 15, {Note, F("detach", 1, 0, 1), F("reset", 1, 0, 0)})
      BY <2>1, <2>2, <2>3, VoiceFieldSets DEF Cv2Row, Cv2From
    <2> QED
      BY <2>4, Cv2Agrees
  <1>13. Voiced("reg_per_note_ctrl", 0)
    <2>1. PerNoteLayouts \in Tables /\ "reg_per_note_ctrl" \in DOMAIN PerNoteLayouts /\ <<0, "on_reg_per_note">> \in Cv2Calls /\ "on_reg_per_note" \in DOMAIN Cv2Args
      BY Domains, ArgDomains DEF Tables, Cv2Calls, Cv2Names
    <2>2. PerNoteLayouts["reg_per_note_ctrl"] = build_cv2_w0("on_reg_per_note", 16 * 0, PerNote)
      BY DEF PerNoteLayouts
    <2>3. Cv2Args["on_reg_per_note"] = PerNote \union {Group, Channel}
      BY Cv2ArgSets DEF Cv2Args
    <2>4. Cv2Row(PerNoteLayouts, "reg_per_note_ctrl", "on_reg_per_note", 0, PerNote)
      BY <2>1, <2>2, <2>3, VoiceFieldSets DEF Cv2Row, Cv2From
    <2> QED
      BY <2>4, Cv2Agrees
  <1>14. Voiced("asn_per_note_ctrl", 1)
    <2>1. PerNoteLayouts \in Tables /\ "asn_per_note_ctrl" \in DOMAIN PerNoteLayouts /\ <<1, "on_asn_per_note">> \in Cv2Calls /\ "on_asn_per_note" \in DOMAIN Cv2Args
      BY Domains, ArgDomains DEF Tables, Cv2Calls, Cv2Names
    <2>2. PerNoteLayouts["asn_per_note_ctrl"] = build_cv2_w0("on_asn_per_note", 16 * 1, PerNote)
      BY DEF PerNoteLayouts
    <2>3. Cv2Args["on_asn_per_note"] = PerNote \union {Group, Channel}
      BY Cv2ArgSets DEF Cv2Args
    <2>4. Cv2Row(PerNoteLayouts, "asn_per_note_ctrl", "on_asn_per_note", 1, PerNote)
      BY <2>1, <2>2, <2>3, VoiceFieldSets DEF Cv2Row, Cv2From
    <2> QED
      BY <2>4, Cv2Agrees
  <1>15. Voiced("rel_rpn", 4)
    <2>1. PerNoteLayouts \in Tables /\ "rel_rpn" \in DOMAIN PerNoteLayouts /\ <<4, "on_rel_rpn">> \in Cv2Calls /\ "on_rel_rpn" \in DOMAIN Cv2Args
      BY Domains, ArgDomains DEF Tables, Cv2Calls, Cv2Names
    <2>2. PerNoteLayouts["rel_rpn"] = build_cv2_w0("on_rel_rpn", 16 * 4, BankIndex)
      BY DEF PerNoteLayouts
    <2>3. Cv2Args["on_rel_rpn"] = BankIndex \union {Group, Channel}
      BY Cv2ArgSets DEF Cv2Args
    <2>4. Cv2Row(PerNoteLayouts, "rel_rpn", "on_rel_rpn", 4, BankIndex)
      BY <2>1, <2>2, <2>3, VoiceFieldSets DEF Cv2Row, Cv2From
    <2> QED
      BY <2>4, Cv2Agrees
  <1>16. Voiced("rel_nrpn", 5)
    <2>1. PerNoteLayouts \in Tables /\ "rel_nrpn" \in DOMAIN PerNoteLayouts /\ <<5, "on_rel_nrpn">> \in Cv2Calls /\ "on_rel_nrpn" \in DOMAIN Cv2Args
      BY Domains, ArgDomains DEF Tables, Cv2Calls, Cv2Names
    <2>2. PerNoteLayouts["rel_nrpn"] = build_cv2_w0("on_rel_nrpn", 16 * 5, BankIndex)
      BY DEF PerNoteLayouts
    <2>3. Cv2Args["on_rel_nrpn"] = BankIndex \union {Group, Channel}
      BY Cv2ArgSets DEF Cv2Args
    <2>4. Cv2Row(PerNoteLayouts, "rel_nrpn", "on_rel_nrpn", 5, BankIndex)
      BY <2>1, <2>2, <2>3, VoiceFieldSets DEF Cv2Row, Cv2From
    <2> QED
      BY <2>4, Cv2Agrees
  <1>17. DOMAIN VoiceNumber = DOMAIN VoiceLayouts \union DOMAIN ProgramLayout \union DOMAIN PerNoteLayouts
    BY Domains DEF VoiceNumber
  <1>18. \A kind \in DOMAIN VoiceNumber : kind \in UmpKinds
    BY <1>17, LayoutOf DEF Tables
  <1>19. \A kind \in DOMAIN VoiceNumber : Voiced(kind, VoiceNumber[kind])
    BY <1>1, <1>2, <1>3, <1>4, <1>5, <1>6, <1>7, <1>8, <1>9, <1>10, <1>11, <1>12, <1>13, <1>14, <1>15, <1>16 DEF VoiceNumber
  <1> QED
    BY <1>18, <1>19

-----------------------------------------------------------------------------
(* MIDI 1.0 channel voice messages, by status nibble.                      *)
CvOneNumber == [
  cv1_note_off |-> 8, cv1_note_on |-> 9, cv1_poly_pressure |-> 10, cv1_cc |-> 11, cv1_program |-> 12,
  cv1_chan_pressure |-> 13, cv1_pitch_bend |-> 14]

(* One row of the MIDI 1.0 Channel Voice layouts: the opcode its word      *)
(* shows, its group, and when the reader has its very fields.              *)
LEMMA CvOneKnown ==
  ASSUME NEW kind, NEW calls, NEW n, NEW fields,
         kind \in DOMAIN from_midi1, Cv1From(from_midi1[kind], calls, n, fields)
  PROVE  /\ Known(Layouts[kind], 2, 20, 4, n) /\ Grouped(Layouts[kind])
         /\ calls \in DOMAIN Cv1Args /\ Cv1Args[calls] = fields \union {Group, Channel} => Exact(Layouts[kind])
  <1> DEFINE L == Layouts[kind]
  <1>1. Cv1From(L, calls, n, fields)
    BY LayoutOf DEF Tables
  <1> HIDE DEF L
  <1>2. /\ Sound(L) /\ Headed(L, 2, 20, 4, n) /\ Reached(L) /\ Grouped(L)
        /\ L.calls = calls /\ L.fields = fields \union {Group, Channel}
    BY <1>1, Cv1Made
  <1>3. ASSUME calls \in DOMAIN Cv1Args, Cv1Args[calls] = fields \union {Group, Channel} PROVE Exact(L)
    <2>1. calls \in DOMAIN Extract /\ Extract[calls] = Cv1Args[calls]
      BY <1>3, ExtractOf DEF ArgTables
    <2>2. calls # "on_clip"
      BY <1>3, ArgDomains DEF Cv1Names
    <2> QED
      BY <1>2, <1>3, <2>1, <2>2 DEF Exact
  <1>4. Known(L, 2, 20, 4, n)
    BY <1>2 DEF Known
  <1> QED
    BY <1>2, <1>3, <1>4 DEF L

(* Every MIDI 1.0 Channel Voice layout; the reader of Pitch Bend joins the *)
(* two data bytes that the builder takes apart.                            *)
LEMMA CvOneAllKnown ==
  \A kind \in DOMAIN CvOneNumber :
     /\ kind \in UmpKinds /\ Known(Layouts[kind], 2, 20, 4, CvOneNumber[kind]) /\ Grouped(Layouts[kind])
     /\ kind # "cv1_pitch_bend" => Exact(Layouts[kind])
  <1>0. VoiceFields({Data1(7), Data2(7)}) /\ VoiceFields({Data1(7)})
    BY DEF VoiceFields, NoGroup, Tidy, LowHalf, PieceType, Apart, Group, Channel, Data1, Data2, F, Piece
  <1>1. Known(Layouts["cv1_note_off"], 2, 20, 4, 8) /\ Grouped(Layouts["cv1_note_off"]) /\ Exact(Layouts["cv1_note_off"])
    <2>1. "cv1_note_off" \in DOMAIN from_midi1 /\ <<8, "on_cv1_note_off">> \in Cv1Calls /\ "on_cv1_note_off" \in DOMAIN Cv1Args
      BY Domains, ArgDomains DEF Cv1Calls, Cv1Names
    <2>2. from_midi1["cv1_note_off"] = Cv1("on_cv1_note_off", 16 * 8, {Data1(7), Data2(7)})
      BY DEF from_midi1
    <2>3. Cv1From(from_midi1["cv1_note_off"], "on_cv1_note_off", 8, {Data1(7), Data2(7)})
      BY <1>0, <2>1, <2>2 DEF Cv1From
    <2>4. Cv1Args["on_cv1_note_off"] = {Data1(7), Data2(7)} \union {Group, Channel}
      BY DEF Cv1Args, Cv1One, Cv1Two, GroupChannel, Channel, Data1, Data2
    <2> QED
      BY <2>1, <2>3, <2>4, CvOneKnown
  <1>2. Known(Layouts["cv1_note_on"], 2, 20, 4, 9) /\ Grouped(Layouts["cv1_note_on"]) /\ Exact(Layouts["cv1_note_on"])
    <2>1. "cv1_note_on" \in DOMAIN from_midi1 /\ <<9, "on_cv1_note_on">> \in Cv1Calls /\ "on_cv1_note_on" \in DOMAIN Cv1Args
      BY Domains, ArgDomains DEF Cv1Calls, Cv1Names
    <2>2. from_midi1["cv1_note_on"] = Cv1("on_cv1_note_on", 16 * 9, {Data1(7), Data2(7)})
      BY DEF from_midi1
    <2>3. Cv1From(from_midi1["cv1_note_on"], "on_cv1_note_on", 9, {Data1(7), Data2(7)})
      BY <1>0, <2>1, <2>2 DEF Cv1From
    <2>4. Cv1Args["on_cv1_note_on"] = {Data1(7), Data2(7)} \union {Group, Channel}
      BY DEF Cv1Args, Cv1One, Cv1Two, GroupChannel, Channel, Data1, Data2
    <2> QED
      BY <2>1, <2>3, <2>4, CvOneKnown
  <1>3. Known(Layouts["cv1_poly_pressure"], 2, 20, 4, 10) /\ Grouped(Layouts["cv1_poly_pressure"]) /\ Exact(Layouts["cv1_poly_pressure"])
    <2>1. "cv1_poly_pressure" \in DOMAIN from_midi1 /\ <<10, "on_cv1_poly_pressure">> \in Cv1Calls /\ "on_cv1_poly_pressure" \in DOMAIN Cv1Args
      BY Domains, ArgDomains DEF Cv1Calls, Cv1Names
    <2>2. from_midi1["cv1_poly_pressure"] = Cv1("on_cv1_poly_pressure", 16 * 10, {Data1(7), Data2(7)})
      BY DEF from_midi1
    <2>3. Cv1From(from_midi1["cv1_poly_pressure"], "on_cv1_poly_pressure", 10, {Data1(7), Data2(7)})
      BY <1>0, <2>1, <2>2 DEF Cv1From
    <2>4. Cv1Args["on_cv1_poly_pressure"] = {Data1(7), Data2(7)} \union {Group, Channel}
      BY DEF Cv1Args, Cv1One, Cv1Two, GroupChannel, Channel, Data1, Data2
    <2> QED
      BY <2>1, <2>3, <2>4, CvOneKnown
  <1>4. Known(Layouts["cv1_cc"], 2, 20, 4, 11) /\ Grouped(Layouts["cv1_cc"]) /\ Exact(Layouts["cv1_cc"])
    <2>1. "cv1_cc" \in DOMAIN from_midi1 /\ <<11, "on_cv1_cc">> \in Cv1Calls /\ "on_cv1_cc" \in DOMAIN Cv1Args
      BY Domains, ArgDomains DEF Cv1Calls, Cv1Names
    <2>2. from_midi1["cv1_cc"] = Cv1("on_cv1_cc", 16 * 11, {Data1(7), Data2(7)})
      BY DEF from_midi1
    <2>3. Cv1From(from_midi1["cv1_cc"], "on_cv1_cc", 11, {Data1(7), Data2(7)})
      BY <1>0, <2>1, <2>2 DEF Cv1From
    <2>4. Cv1Args["on_cv1_cc"] = {Data1(7), Data2(7)} \union {Group, Channel}
      BY DEF Cv1Args, Cv1One, Cv1Two, GroupChannel, Channel, Data1, Data2
    <2> QED
      BY <2>1, <2>3, <2>4, CvOneKnown
  <1>5. Known(Layouts["cv1_program"], 2, 20, 4, 12) /\ Grouped(Layouts["cv1_program"]) /\ Exact(Layouts["cv1_program"])
    <2>1. "cv1_program" \in DOMAIN from_midi1 /\ <<12, "on_cv1_program">> \in Cv1Calls /\ "on_cv1_program" \in DOMAIN Cv1Args
      BY Domains, ArgDomains DEF Cv1Calls, Cv1Names
    <2>2. from_midi1["cv1_program"] = Cv1("on_cv1_program", 16 * 12, {Data1(7)})
      BY DEF from_midi1
    <2>3. Cv1From(from_midi1["cv1_program"], "on_cv1_program", 12, {Data1(7)})
      BY <1>0, <2>1, <2>2 DEF Cv1From
    <2>4. Cv1Args["on_cv1_program"] = {Data1(7)} \union {Group, Channel}
      BY DEF Cv1Args, Cv1One, Cv1Two, GroupChannel, Channel, Data1, Data2
    <2> QED
      BY <2>1, <2>3, <2>4, CvOneKnown
  <1>6. Known(Layouts["cv1_chan_pressure"], 2, 20, 4, 13) /\ Grouped(Layouts["cv1_chan_pressure"]) /\ Exact(Layouts["cv1_chan_pressure"])
    <2>1. "cv1_chan_pressure" \in DOMAIN from_midi1 /\ <<13, "on_cv1_chan_pressure">> \in Cv1Calls /\ "on_cv1_chan_pressure" \in DOMAIN Cv1Args
      BY Domains, ArgDomains DEF Cv1Calls, Cv1Names
    <2>2. from_midi1["cv1_chan_pressure"] = Cv1("on_cv1_chan_pressure", 16 * 13, {Data1(7)})
      BY DEF from_midi1
    <2>3. Cv1From(from_midi1["cv1_chan_pressure"], "on_cv1_chan_pressure", 13, {Data1(7)})
      BY <1>0, <2>1, <2>2 DEF Cv1From
    <2>4. Cv1Args["on_cv1_chan_pressure"] = {Data1(7)} \union {Group, Channel}
      BY DEF Cv1Args, Cv1One, Cv1Two, GroupChannel, Channel, Data1, Data2
    <2> QED
      BY <2>1, <2>3, <2>4, CvOneKnown
  <1>7. Known(Layouts["cv1_pitch_bend"], 2, 20, 4, 14) /\ Grouped(Layouts["cv1_pitch_bend"])
    <2>1. "cv1_pitch_bend" \in DOMAIN from_midi1 /\ <<14, "on_cv1_pitch_bend">> \in Cv1Calls /\ "on_cv1_pitch_bend" \in DOMAIN Cv1Args
      BY Domains, ArgDomains DEF Cv1Calls, Cv1Names
    <2>2. from_midi1["cv1_pitch_bend"] = Cv1("on_cv1_pitch_bend", 16 * 14, {Data1(7), Data2(7)})
      BY DEF from_midi1
    <2>3. Cv1From(from_midi1["cv1_pitch_bend"], "on_cv1_pitch_bend", 14, {Data1(7), Data2(7)})
      BY <1>0, <2>1, <2>2 DEF Cv1From
    <2> QED
      BY <2>1, <2>3, CvOneKnown
  <1>8. \A kind \in DOMAIN CvOneNumber : kind \in UmpKinds
    <2>1. DOMAIN CvOneNumber = DOMAIN from_midi1
      BY Domains DEF CvOneNumber
    <2> QED
      BY <2>1, LayoutOf DEF Tables
  <1>9. \A kind \in DOMAIN CvOneNumber :
          /\ Known(Layouts[kind], 2, 20, 4, CvOneNumber[kind]) /\ Grouped(Layouts[kind])
          /\ kind # "cv1_pitch_bend" => Exact(Layouts[kind])
    BY <1>1, <1>2, <1>3, <1>4, <1>5, <1>6, <1>7 DEF CvOneNumber
  <1> QED
    BY <1>8, <1>9

(* Utility messages, by status nibble.                                     *)
UtilityNumber == [noop |-> 0, jr_clock |-> 1, jr_timestamp |-> 2, dctpq |-> 3, delta_clockstamp |-> 4]
UtilityRow(kind, calls, n, fields) ==
  /\ kind \in DOMAIN UtilityLayouts /\ UtilityFrom(UtilityLayouts[kind], calls, n, fields)
  /\ calls \in DOMAIN UtilityArgs /\ UtilityArgs[calls] = fields

(* One row of the Utility layouts.                                         *)
LEMMA UtilityAgrees ==
  ASSUME NEW kind, NEW calls, NEW n, NEW fields, UtilityRow(kind, calls, n, fields)
  PROVE  Agrees(Layouts[kind], 0, 20, 4, n)
  <1> DEFINE L == Layouts[kind]
  <1>0. /\ kind \in DOMAIN UtilityLayouts /\ UtilityFrom(UtilityLayouts[kind], calls, n, fields)
        /\ calls \in DOMAIN UtilityArgs /\ UtilityArgs[calls] = fields
    BY DEF UtilityRow
  <1>1. UtilityFrom(L, calls, n, fields)
    BY <1>0, LayoutOf DEF Tables
  <1> HIDE DEF L
  <1>2. Sound(L) /\ Headed(L, 0, 20, 4, n) /\ Reached(L) /\ L.calls = calls /\ L.fields = fields
    BY <1>1, UtilityMade
  <1>3. calls \in DOMAIN Extract /\ Extract[calls] = UtilityArgs[calls]
    BY <1>0, ExtractOf DEF ArgTables
  <1>4. calls # "on_clip"
    BY <1>0, ArgDomains DEF UtilityNames
  <1>5. Agrees(L, 0, 20, 4, n)
    BY <1>0, <1>2, <1>3, <1>4 DEF Agrees, Known, Exact
  <1> QED
    BY <1>5 DEF L

(* Every Utility layout is read with the fields it was written with.       *)
LEMMA UtilityAllAgree ==
  \A kind \in DOMAIN UtilityNumber : kind \in UmpKinds /\ Agrees(Layouts[kind], 0, 20, 4, UtilityNumber[kind])
  <1>1. Agrees(Layouts["noop"], 0, 20, 4, 0)
    <2>1. "noop" \in DOMAIN UtilityLayouts /\ <<0, "on_noop">> \in UtilityCalls /\ "on_noop" \in DOMAIN UtilityArgs
      BY Domains, ArgDomains DEF UtilityCalls, UtilityNames
    <2>2. UtilityLayouts["noop"] = Utility("on_noop", 0, {}) /\ UtilityArgs["on_noop"] = {}
      BY DEF UtilityLayouts, UtilityArgs
    <2>3. Tidy({}) /\ Placed({}, 20, 4)
      BY DEF Tidy, Placed, PieceType, F, Piece
    <2>4. UtilityRow("noop", "on_noop", 0, {})
      BY <2>1, <2>2, <2>3 DEF UtilityRow, UtilityFrom
    <2> QED
      BY <2>4, UtilityAgrees
  <1>2. Agrees(Layouts["jr_clock"], 0, 20, 4, 1)
    <2>1. "jr_clock" \in DOMAIN UtilityLayouts /\ <<1, "on_jr_clock">> \in UtilityCalls /\ "on_jr_clock" \in DOMAIN UtilityArgs
      BY Domains, ArgDomains DEF UtilityCalls, UtilityNames
    <2>2. UtilityLayouts["jr_clock"] = Utility("on_jr_clock", 1, {F("timestamp", 16, 0, 0)}) /\ UtilityArgs["on_jr_clock"] = {F("timestamp", 16, 0, 0)}
      BY DEF UtilityLayouts, UtilityArgs
    <2>3. Tidy({F("timestamp", 16, 0, 0)}) /\ Placed({F("timestamp", 16, 0, 0)}, 20, 4)
      BY DEF Tidy, Placed, PieceType, F, Piece
    <2>4. UtilityRow("jr_clock", "on_jr_clock", 1, {F("timestamp", 16, 0, 0)})
      BY <2>1, <2>2, <2>3 DEF UtilityRow, UtilityFrom
    <2> QED
      BY <2>4, UtilityAgrees
  <1>3. Agrees(Layouts["jr_timestamp"], 0, 20, 4, 2)
    <2>1. "jr_timestamp" \in DOMAIN UtilityLayouts /\ <<2, "on_jr_timestamp">> \in UtilityCalls /\ "on_jr_timestamp" \in DOMAIN UtilityArgs
      BY Domains, ArgDomains DEF UtilityCalls, UtilityNames
    <2>2. UtilityLayouts["jr_timestamp"] = Utility("on_jr_timestamp", 2, {F("timestamp", 16, 0, 0)}) /\ UtilityArgs["on_jr_timestamp"] = {F("timestamp", 16, 0, 0)}
      BY DEF UtilityLayouts, UtilityArgs
    <2>3. Tidy({F("timestamp", 16, 0, 0)}) /\ Placed({F("timestamp", 16, 0, 0)}, 20, 4)
      BY DEF Tidy, Placed, PieceType, F, Piece
    <2>4. UtilityRow("jr_timestamp", "on_jr_timestamp", 2, {F("timestamp", 16, 0, 0)})
      BY <2>1, <2>2, <2>3 DEF UtilityRow, UtilityFrom
    <2> QED
      BY <2>4, UtilityAgrees
  <1>4. Agrees(Layouts["dctpq"], 0, 20, 4, 3)
    <2>1. "dctpq" \in DOMAIN UtilityLayouts /\ <<3, "on_dctpq">> \in UtilityCalls /\ "on_dctpq" \in DOMAIN UtilityArgs
      BY Domains, ArgDomains DEF UtilityCalls, UtilityNames
    <2>2. UtilityLayouts["dctpq"] = Utility("on_dctpq", 3, {F("tpq", 16, 0, 0)}) /\ UtilityArgs["on_dctpq"] = {F("tpq", 16, 0, 0)}
      BY DEF UtilityLayouts, UtilityArgs
    <2>3. Tidy({F("tpq", 16, 0, 0)}) /\ Placed({F("tpq", 16, 0, 0)}, 20, 4)
      BY DEF Tidy, Placed, PieceType, F, Piece
    <2>4. UtilityRow("dctpq", "on_dctpq", 3, {F("tpq", 16, 0, 0)})
      BY <2>1, <2>2, <2>3 DEF UtilityRow, UtilityFrom
    <2> QED
      BY <2>4, UtilityAgrees
  <1>5. Agrees(Layouts["delta_clockstamp"], 0, 20, 4, 4)
    <2>1. "delta_clockstamp" \in DOMAIN UtilityLayouts /\ <<4, "on_dc">> \in UtilityCalls /\ "on_dc" \in DOMAIN UtilityArgs
      BY Domains, ArgDomains DEF UtilityCalls, UtilityNames
    <2>2. UtilityLayouts["delta_clockstamp"] = Utility("on_dc", 4, {F("ticks", 20, 0, 0)}) /\ UtilityArgs["on_dc"] = {F("ticks", 20, 0, 0)}
      BY DEF UtilityLayouts, UtilityArgs
    <2>3. Tidy({F("ticks", 20, 0, 0)}) /\ Placed({F("ticks", 20, 0, 0)}, 20, 4)
      BY DEF Tidy, Placed, PieceType, F, Piece
    <2>4. UtilityRow("delta_clockstamp", "on_dc", 4, {F("ticks", 20, 0, 0)})
      BY <2>1, <2>2, <2>3 DEF UtilityRow, UtilityFrom
    <2> QED
      BY <2>4, UtilityAgrees
  <1>6. \A kind \in DOMAIN UtilityNumber : kind \in UmpKinds
    <2>1. DOMAIN UtilityNumber = DOMAIN UtilityLayouts
      BY Domains DEF UtilityNumber
    <2> QED
      BY <2>1, LayoutOf DEF Tables
  <1>7. \A kind \in DOMAIN UtilityNumber : Agrees(Layouts[kind], 0, 20, 4, UtilityNumber[kind])
    BY <1>1, <1>2, <1>3, <1>4, <1>5 DEF UtilityNumber
  <1> QED
    BY <1>6, <1>7

-----------------------------------------------------------------------------
(* System messages: the statuses that builders fix, and the data bytes.    *)
SystemStatus == [
  system_tune_request |-> 246, system_timing_clock |-> 248, system_start |-> 250, system_continue |-> 251,
  system_stop |-> 252, system_active_sensing |-> 254, system_reset |-> 255, system_mtc |-> 241,
  system_song_select |-> 243, system_song_position |-> 242]
Position == {Piece("position", 0, 7, 0, 8), Piece("position", 7, 7, 0, 0)}
SystemData(kind) ==
  CASE kind \in {"system_mtc", "system_song_select"} -> {Data1(7)}
    [] kind = "system_song_position" -> Position
    [] OTHER -> {}
AnySystemData == [system |-> {}, system_2byte |-> {Data1(8)}, system_3byte |-> {Data1(8), Data2(8)}]

(* Every System layout that fixes the status byte: its word shows that     *)
(* status, and its fields.                                                 *)
LEMMA SystemAllKnown ==
  \A kind \in DOMAIN SystemStatus :
     LET L == Layouts[kind] IN
     /\ kind \in UmpKinds /\ Known(L, 1, 16, 8, SystemStatus[kind])
     /\ L.calls = "on_system" /\ L.fields = SystemData(kind) \union {Group}
     /\ L.says = [status |-> Bits(SystemStatus[kind])]
  <1>1. \A kind \in DOMAIN SystemStatus : kind \in DOMAIN SystemLayouts
    BY Domains DEF SystemStatus
  <1>2. \A kind \in DOMAIN SystemStatus : SystemLayouts[kind] = System(SystemStatus[kind], SystemData(kind))
    <2>1. SystemLayouts["system_mtc"] = System(241, {Data1(7)})
      BY DEF SystemLayouts
    <2>2. SystemLayouts["system_song_select"] = System(243, {Data1(7)})
      BY DEF SystemLayouts
    <2>3. SystemLayouts["system_song_position"] = System(242, Position)
      BY DEF SystemLayouts, Position
    <2>4. SystemLayouts["system_tune_request"] = System(246, {})
      BY DEF SystemLayouts
    <2>5. SystemLayouts["system_timing_clock"] = System(248, {})
      BY DEF SystemLayouts
    <2>6. SystemLayouts["system_start"] = System(250, {})
      BY DEF SystemLayouts
    <2>7. SystemLayouts["system_continue"] = System(251, {})
      BY DEF SystemLayouts
    <2>8. SystemLayouts["system_stop"] = System(252, {})
      BY DEF SystemLayouts
    <2>9. SystemLayouts["system_active_sensing"] = System(254, {})
      BY DEF SystemLayouts
    <2>10. SystemLayouts["system_reset"] = System(255, {})
      BY DEF SystemLayouts
    <2> QED
      BY <2>1, <2>2, <2>3, <2>4, <2>5, <2>6, <2>7, <2>8, <2>9, <2>10 DEF SystemStatus, SystemData
  <1>3. \A kind \in DOMAIN SystemStatus : SystemStatus[kind] \in StatusBytes
    BY DEF SystemStatus, StatusBytes
  <1>4. \A kind : Tidy(SystemData(kind) \union {Group}) /\ LowHalf(SystemData(kind))
    <2>1. Tidy({Data1(7), Group}) /\ LowHalf({Data1(7)}) /\ Tidy({Group}) /\ LowHalf({})
      BY DEF Tidy, LowHalf, PieceType, Apart, Group, Data1, F, Piece
    <2>2. Tidy(Position \union {Group}) /\ LowHalf(Position)
      BY DEF Tidy, LowHalf, PieceType, Apart, Group, Position, F, Piece
    <2>3. {Data1(7)} \union {Group} = {Data1(7), Group} /\ {} \union {Group} = {Group}
      OBVIOUS
    <2>4. \A kind : SystemData(kind) \in {{Data1(7)}, {}, Position}
      BY DEF SystemData
    <2> QED
      BY <2>1, <2>2, <2>3, <2>4
  <1>5. ASSUME NEW kind \in DOMAIN SystemStatus
        PROVE  LET L == Layouts[kind] IN
               /\ kind \in UmpKinds /\ Known(L, 1, 16, 8, SystemStatus[kind])
               /\ L.calls = "on_system" /\ L.fields = SystemData(kind) \union {Group}
               /\ L.says = [status |-> Bits(SystemStatus[kind])]
    <2> DEFINE L == Layouts[kind]
               n == SystemStatus[kind]
               fields == SystemData(kind)
    <2>1. kind \in UmpKinds /\ L = SystemLayouts[kind]
      BY <1>1, LayoutOf DEF Tables
    <2>2. SystemFrom(L, n, fields)
      BY <1>2, <1>3, <1>4, <2>1 DEF SystemFrom
    <2>3. L.says = [status |-> Bits(n)]
      <3>1. L = System(n, fields)
        BY <1>2, <2>1
      <3> HIDE DEF L, n, fields
      <3> QED
        BY <3>1 DEF System, Msg
    <2> HIDE DEF L, n, fields
    <2>4. Sound(L) /\ Headed(L, 1, 16, 8, n) /\ Reached(L) /\ L.calls = "on_system" /\ L.fields = fields \union {Group}
      BY <2>2, SystemMade
    <2>5. Known(L, 1, 16, 8, n)
      BY <2>4 DEF Known
    <2> QED
      BY <2>1, <2>3, <2>4, <2>5 DEF L, n, fields
  <1> QED
    BY <1>5

(* The System layouts that take the status byte as an argument.            *)
LEMMA AnySystemAllKnown ==
  \A kind \in DOMAIN AnySystemData :
     LET L == Layouts[kind] IN
     /\ kind \in UmpKinds /\ Sound(L) /\ OnlyTyped(L, 1) /\ Reached(L)
     /\ L.calls = "on_system" /\ L.fields = AnySystemData[kind] \union {Group, F("status", 8, 0, 16)}
     /\ L.says = None
  <1>1. \A kind \in DOMAIN AnySystemData : kind \in DOMAIN SystemLayouts
    BY Domains DEF AnySystemData
  <1>2. \A kind \in DOMAIN AnySystemData : SystemLayouts[kind] = AnySystem(AnySystemData[kind])
    <2>1. SystemLayouts["system"] = AnySystem({})
      BY DEF SystemLayouts
    <2>2. SystemLayouts["system_2byte"] = AnySystem({Data1(8)})
      BY DEF SystemLayouts
    <2>3. SystemLayouts["system_3byte"] = AnySystem({Data1(8), Data2(8)})
      BY DEF SystemLayouts
    <2> QED
      BY <2>1, <2>2, <2>3 DEF AnySystemData
  <1>3. \A kind \in DOMAIN AnySystemData :
           Tidy(AnySystemData[kind] \union {Group, F("status", 8, 0, 16)}) /\ LowHalf(AnySystemData[kind])
    <2> USE DEF Tidy, LowHalf, PieceType, Apart, Group, Data1, Data2, F, Piece
    <2>1. Tidy({} \union {Group, F("status", 8, 0, 16)}) /\ LowHalf({})
      OBVIOUS
    <2>2. Tidy({Data1(8)} \union {Group, F("status", 8, 0, 16)}) /\ LowHalf({Data1(8)})
      OBVIOUS
    <2>3. Tidy({Data1(8), Data2(8)} \union {Group, F("status", 8, 0, 16)}) /\ LowHalf({Data1(8), Data2(8)})
      OBVIOUS
    <2> HIDE DEF Tidy, LowHalf, PieceType, Apart, Group, Data1, Data2, F, Piece
    <2> QED
      BY <2>1, <2>2, <2>3, SMTT(30) DEF AnySystemData
  <1>5. ASSUME NEW kind \in DOMAIN AnySystemData
        PROVE  LET L == Layouts[kind] IN
               /\ kind \in UmpKinds /\ Sound(L) /\ OnlyTyped(L, 1) /\ Reached(L)
               /\ L.calls = "on_system" /\ L.fields = AnySystemData[kind] \union {Group, F("status", 8, 0, 16)}
               /\ L.says = None
    <2> DEFINE L == Layouts[kind]
               fields == AnySystemData[kind]
    <2>1. kind \in UmpKinds /\ L = SystemLayouts[kind]
      BY <1>1, LayoutOf DEF Tables
    <2>2. AnySystemFrom(L, fields)
      BY <1>2, <1>3, <2>1 DEF AnySystemFrom
    <2>3. L.says = None
      <3>1. L = AnySystem(fields)
        BY <1>2, <2>1
      <3> HIDE DEF L, fields
      <3> QED
        BY <3>1 DEF AnySystem, Msg
    <2> HIDE DEF L, fields
    <2>4. /\ Sound(L) /\ OnlyTyped(L, 1) /\ Reached(L)
          /\ L.calls = "on_system" /\ L.fields = fields \union {Group, F("status", 8, 0, 16)}
      BY <2>2, AnySystemMade
    <2> QED
      BY <2>1, <2>3, <2>4 DEF L, fields
  <1> QED
    BY <1>5

-----------------------------------------------------------------------------
(* Flex Data setup messages, by status; the bank is zero, and at group     *)
(* level the builder fixes the address.                                    *)
FlexNumber == [tempo |-> 0, time_sig |-> 1, key_sig |-> 5, key_sig_full |-> 5, metronome |-> 2, chord_name |-> 6]
FlexHead(L, n) ==
  /\ \A w : HeadIs(w, L) <=> TypeOf(w) = 13 /\ Num(Take(w[0], 0, 8)) = n /\ Num(Take(w[0], 8, 8)) = 0
  /\ \A i \in L.mask : i \in 28 .. 31 \/ i \in 0 .. 15
  /\ \A i \in 16 .. 27 : i \in L.const => i = 20
(* The fields of word 0 leave the header alone; there are none but the     *)
(* group where the address is fixed.                                       *)
FlexPlaced(fields, extra) ==
  \A f \in fields : f.word = 0 => extra = {} /\ f.lo >= 16 /\ f.lo + f.width <= 24
FlexFrom(L, calls, n, fields, extra) ==
  /\ n \in 0 .. 15 /\ <<n, calls>> \in SetupCalls /\ extra \in {{}, {20}}
  /\ Tidy(fields \union {Group}) /\ FlexPlaced(fields, extra) /\ NoGroup(fields)
  /\ L.calls = calls /\ L.mask = MTBits \union 0 .. 15 /\ L.const = (MT(13) \union Bits(n)) \union extra
  /\ L.fields = fields \union {Group} /\ L.room = 0 /\ L.at = 0 /\ L.counts = "no"

(* The word of a Flex Data setup message shows bank 0 and its status, and  *)
(* the dispatcher reaches its callback.                                    *)
LEMMA FlexMade ==
  ASSUME NEW L, NEW calls, NEW n, NEW fields, NEW extra, FlexFrom(L, calls, n, fields, extra)
  PROVE  Sound(L) /\ FlexHead(L, n) /\ Reached(L) /\ Grouped(L)
  <1>0. /\ n \in 0 .. 15 /\ <<n, calls>> \in SetupCalls /\ extra \in {{}, {20}}
        /\ Tidy(fields \union {Group}) /\ FlexPlaced(fields, extra) /\ NoGroup(fields)
        /\ L.calls = calls /\ L.mask = MTBits \union 0 .. 15 /\ L.const = (MT(13) \union Bits(n)) \union extra
        /\ L.fields = fields \union {Group} /\ L.room = 0 /\ L.at = 0 /\ L.counts = "no"
    BY DEF FlexFrom
  <1> DEFINE b == Bits(n)
  <1>1. b \subseteq 0 .. 3
    BY <1>0, LowBits
  <1>2. Header(MT(13) \union Put(Bits(n), 0), 13, 0, 16, n)
    <2>1. OfBits(n, 16)
      BY <1>1 DEF OfBits
    <2> QED
      BY <2>1, HeadShows
  <1>3. Put(Bits(n), 0) = Bits(n)
    <2>1. b \subseteq Int
      BY <1>1
    <2> HIDE DEF b
    <2>2. Put(b, 0) = b
      BY <2>1, PutAtZero
    <2> QED
      BY <2>2 DEF b
  <1> DEFINE c == MT(13) \union b
  <1>4. /\ \A i \in 28 .. 28 + 4 - 1 : i \in c <=> i - 28 \in Bits(13)
        /\ \A i \in 0 .. 0 + 16 - 1 : i \in c <=> i - 0 \in b
        /\ \A i \in c : i \in 28 .. 31 \/ i \in 0 .. 0 + 16 - 1
    BY <1>2, <1>3 DEF Header, Shows
  <1>5. L.const = c \union extra
    BY <1>0
  <1>6. Bits(0) = {}
    <2>1. \A i \in 0 .. 15 : Powers[i + 1] \in Nat /\ Powers[i + 1] > 0
      BY DEF Powers
    <2>2. \A i \in 0 .. 15 : (0 \div Powers[i + 1]) % 2 = 0
      <3>1. ASSUME NEW d \in Nat, d > 0 PROVE (0 \div d) % 2 = 0
        <4>1. 0 \div d = 0
          BY <3>1
        <4> DEFINE q == 0 \div d
        <4> HIDE DEF q
        <4>2. q = 0
          BY <4>1 DEF q
        <4>3. q % 2 = 0
          BY <4>2
        <4> QED
          BY <4>3 DEF q
      <3> QED
        BY <2>1, <3>1
    <2> QED
      BY <2>2, BitsByPowers
  <1> HIDE DEF b, c
  <1>7. Shows(L.const, 28, 4, 13)
    <2>1. \A i \in 28 .. 28 + 4 - 1 : i # 20
      OBVIOUS
    <2> QED
      BY <1>0, <1>4, <1>5, <2>1 DEF Shows
  <1>8. \A i \in 0 .. 15 : i \in L.const <=> i \in b
    <2>1. \A i \in 0 .. 15 : i # 20 /\ i \in 0 .. 0 + 16 - 1 /\ i - 0 = i
      OBVIOUS
    <2> QED
      BY <1>0, <1>4, <1>5, <2>1
  <1>9. Shows(L.const, 0, 8, n)
    <2>1. \A i \in 0 .. 0 + 8 - 1 : i \in 0 .. 15 /\ i - 0 = i
      OBVIOUS
    <2> QED
      BY <1>8, <2>1 DEF Shows, b
  <1>10. Shows(L.const, 8, 8, 0)
    <2>1. \A i \in 8 .. 8 + 8 - 1 : i \in 0 .. 15 /\ i \notin 0 .. 3
      OBVIOUS
    <2> QED
      BY <1>1, <1>6, <1>8, <2>1 DEF Shows
  <1>11. HeadPart(L, 28, 4, 13)
    BY <1>7, TypePart
  <1>12. HeadPart(L, 0, 8, n)
    <2>1. n \in TenBitNumbers
      BY <1>0 DEF TenBitNumbers
    <2>2. OfBits(n, 8)
      BY <1>1 DEF OfBits, b
    <2> QED
      BY <1>9, <2>1, <2>2 DEF HeadPart
  <1>13. HeadPart(L, 8, 8, 0)
    BY <1>6, <1>10 DEF HeadPart, OfBits, TenBitNumbers
  <1>14. Masks3(L, 0, 8, 8, 8)
    <2>1. (0 .. 15) = (0 .. 0 + 8 - 1) \union (8 .. 8 + 8 - 1)
      OBVIOUS
    <2> QED
      BY <1>0, <2>1 DEF Masks3, MTBits
  <1>15. ASSUME NEW w PROVE HeadIs(w, L) <=> TypeOf(w) = 13 /\ Num(Take(w[0], 0, 8)) = n /\ Num(Take(w[0], 8, 8)) = 0
    BY <1>11, <1>12, <1>13, <1>14, HeadNumbers
  <1>16. \A i \in 16 .. 27 : i \in L.const => i = 20
    <2>1. \A i \in 16 .. 27 : i \notin 28 .. 31 /\ i \notin 0 .. 0 + 16 - 1
      OBVIOUS
    <2> QED
      BY <1>0, <1>4, <1>5, <2>1
  <1>17. FlexHead(L, n)
    BY <1>0, <1>15, <1>16 DEF FlexHead, MTBits
  <1>18. Sound(L)
    <2>1. ASSUME NEW f \in L.fields, f.word = 0, NEW i \in Span(f) PROVE i \notin L.mask /\ i \notin L.const
      <3>1. i \in 16 .. 27 /\ (i = 20 => extra = {})
        <4>1. CASE f = Group
          <5>1. i \in 24 .. 24 + 4 - 1
            BY <2>1, <4>1 DEF Group, F, Piece, Span
          <5> QED
            BY <5>1
        <4>2. CASE f \in fields
          <5> DEFINE lo == f.lo
                     k == f.width
          <5>1. lo \in Nat /\ k \in Nat /\ i \in lo .. lo + k - 1 /\ lo >= 16 /\ lo + k <= 24 /\ extra = {}
            BY <1>0, <2>1, <4>2 DEF Tidy, PieceType, FlexPlaced, Span
          <5> HIDE DEF lo, k
          <5> QED
            BY <5>1
        <4> QED
          BY <1>0, <4>1, <4>2
      <3>2. i \notin L.mask
        BY <1>0, <3>1 DEF MTBits
      <3>3. i \notin c
        BY <1>4, <3>1
      <3> QED
        BY <1>0, <1>5, <3>1, <3>2, <3>3
    <2> QED
      BY <1>0, <2>1, PlainSound
  <1>19. ASSUME NEW w, HeadIs(w, L) PROVE CallbackOf(w) = calls
    <2>1. TypeOf(w) = 13 /\ Num(Take(w[0], 0, 8)) = n /\ Num(Take(w[0], 8, 8)) = 0
      BY <1>15, <1>19
    <2>2. At(SetupCalls, Take(w[0], 0, 8)) = calls
      BY <1>0, <2>1, SwitchOne DEF Switches
    <2> QED
      BY <2>1, <2>2 DEF CallbackOf, TypeOf, dispatch_flex
  <1>20. Grouped(L)
    BY <1>0 DEF Grouped, NoGroup
  <1> QED
    BY <1>0, <1>17, <1>18, <1>19, <1>20 DEF Reached

FlexRow(kind, calls, n, fields, extra) ==
  \E t \in Tables : kind \in DOMAIN t /\ FlexFrom(t[kind], calls, n, fields, extra)

(* One row of the Flex Data setup layouts.                                 *)
LEMMA FlexKnown ==
  ASSUME NEW kind, NEW calls, NEW n, NEW fields, NEW extra, FlexRow(kind, calls, n, fields, extra)
  PROVE  LET L == Layouts[kind] IN
         /\ kind \in UmpKinds /\ Sound(L) /\ FlexHead(L, n) /\ Reached(L) /\ Grouped(L)
         /\ calls \in DOMAIN FlexArgs /\ FlexArgs[calls] = fields \union {Group} => Exact(L)
  <1> DEFINE L == Layouts[kind]
  <1>1. FlexFrom(L, calls, n, fields, extra) /\ kind \in UmpKinds
    BY LayoutOf DEF FlexRow
  <1> HIDE DEF L
  <1>2. Sound(L) /\ FlexHead(L, n) /\ Reached(L) /\ Grouped(L)
    BY <1>1, FlexMade
  <1>3. L.calls = calls /\ L.fields = fields \union {Group}
    BY <1>1 DEF FlexFrom
  <1>4. ASSUME calls \in DOMAIN FlexArgs, FlexArgs[calls] = fields \union {Group} PROVE Exact(L)
    <2>1. calls \in DOMAIN Extract /\ Extract[calls] = FlexArgs[calls]
      BY <1>4, ExtractOf DEF ArgTables
    <2>2. calls # "on_clip"
      BY <1>4, ArgDomains DEF FlexNames
    <2> QED
      BY <1>2, <1>3, <1>4, <2>1, <2>2 DEF Exact
  <1> QED
    BY <1>1, <1>2, <1>4 DEF L

FlexAll(kind) ==
  /\ kind \in UmpKinds /\ Sound(Layouts[kind]) /\ FlexHead(Layouts[kind], FlexNumber[kind]) /\ Reached(Layouts[kind])
  /\ Grouped(Layouts[kind])
  /\ kind # "key_sig" => Exact(Layouts[kind])

(* Every Flex Data setup layout; the reader of Key Signature names two of  *)
(* its fields otherwise.                                                   *)
LEMMA FlexAllKnown == \A kind \in DOMAIN FlexNumber : FlexAll(kind)
  <1>1. FlexAll("tempo")
    <2> DEFINE fields == {F("ten_ns_per_qn", 32, 1, 0)}
    <2>1. FlexLayouts \in Tables /\ "tempo" \in DOMAIN FlexLayouts /\ <<0, "on_tempo">> \in SetupCalls /\ "on_tempo" \in DOMAIN FlexArgs
      BY Domains, ArgDomains DEF Tables, SetupCalls, FlexNames
    <2>2. FlexLayouts["tempo"] = build_flex_w0("on_tempo", 0, fields)
      BY DEF FlexLayouts
    <2>3. Tidy(fields \union {Group}) /\ FlexPlaced(fields, {20}) /\ NoGroup(fields)
      BY DEF Tidy, FlexPlaced, NoGroup, PieceType, Apart, Group, FlexAddress, F, Piece
    <2>4. FlexArgs["on_tempo"] = fields \union {Group}
      BY DEF FlexArgs
    <2> HIDE DEF fields
    <2>5. FlexFrom(FlexLayouts["tempo"], "on_tempo", 0, fields, {20})
      <3>1. FlexLayouts["tempo"] =
              [calls |-> "on_tempo", mask |-> MTBits \union 0 .. 15, const |-> (MT(13) \union Bits(0)) \union {20},
               fields |-> fields \union {Group}, says |-> [address |-> {0}], at |-> 0, room |-> 0, counts |-> "no"]
        BY <2>2 DEF build_flex_w0, build_flex_w0_full, Msg
      <3> QED
        BY <2>1, <2>3, <3>1 DEF FlexFrom
    <2>6. FlexRow("tempo", "on_tempo", 0, fields, {20})
      BY <2>1, <2>5 DEF FlexRow
    <2>7. FlexNumber["tempo"] = 0
      BY DEF FlexNumber
    <2> QED
      BY <2>1, <2>4, <2>6, <2>7, FlexKnown DEF FlexAll
  <1>2. FlexAll("time_sig")
    <2> DEFINE fields == {F("numerator", 8, 1, 24), F("denominator", 8, 1, 16), F("num_32nd_notes", 8, 1, 8)}
    <2>1. FlexLayouts \in Tables /\ "time_sig" \in DOMAIN FlexLayouts /\ <<1, "on_time_sig">> \in SetupCalls /\ "on_time_sig" \in DOMAIN FlexArgs
      BY Domains, ArgDomains DEF Tables, SetupCalls, FlexNames
    <2>2. FlexLayouts["time_sig"] = build_flex_w0("on_time_sig", 1, fields)
      BY DEF FlexLayouts
    <2>3. Tidy(fields \union {Group}) /\ FlexPlaced(fields, {20}) /\ NoGroup(fields)
      BY DEF Tidy, FlexPlaced, NoGroup, PieceType, Apart, Group, FlexAddress, F, Piece
    <2>4. FlexArgs["on_time_sig"] = fields \union {Group}
      BY DEF FlexArgs
    <2> HIDE DEF fields
    <2>5. FlexFrom(FlexLayouts["time_sig"], "on_time_sig", 1, fields, {20})
      <3>1. FlexLayouts["time_sig"] =
              [calls |-> "on_time_sig", mask |-> MTBits \union 0 .. 15, const |-> (MT(13) \union Bits(1)) \union {20},
               fields |-> fields \union {Group}, says |-> [address |-> {0}], at |-> 0, room |-> 0, counts |-> "no"]
        BY <2>2 DEF build_flex_w0, build_flex_w0_full, Msg
      <3> QED
        BY <2>1, <2>3, <3>1 DEF FlexFrom
    <2>6. FlexRow("time_sig", "on_time_sig", 1, fields, {20})
      BY <2>1, <2>5 DEF FlexRow
    <2>7. FlexNumber["time_sig"] = 1
      BY DEF FlexNumber
    <2> QED
      BY <2>1, <2>4, <2>6, <2>7, FlexKnown DEF FlexAll
  <1>3. FlexAll("key_sig")
    <2> DEFINE fields == {F("sharps_flats", 4, 1, 28), F("key_type", 1, 1, 22)}
    <2>1. FlexLayouts \in Tables /\ "key_sig" \in DOMAIN FlexLayouts /\ <<5, "on_key_sig">> \in SetupCalls /\ "on_key_sig" \in DOMAIN FlexArgs
      BY Domains, ArgDomains DEF Tables, SetupCalls, FlexNames
    <2>2. FlexLayouts["key_sig"] = build_flex_w0("on_key_sig", 5, fields)
      BY DEF FlexLayouts
    <2>3. Tidy(fields \union {Group}) /\ FlexPlaced(fields, {20}) /\ NoGroup(fields)
      BY DEF Tidy, FlexPlaced, NoGroup, PieceType, Apart, Group, FlexAddress, F, Piece
    <2> HIDE DEF fields
    <2>5. FlexFrom(FlexLayouts["key_sig"], "on_key_sig", 5, fields, {20})
      <3>1. FlexLayouts["key_sig"] =
              [calls |-> "on_key_sig", mask |-> MTBits \union 0 .. 15, const |-> (MT(13) \union Bits(5)) \union {20},
               fields |-> fields \union {Group}, says |-> [address |-> {0}], at |-> 0, room |-> 0, counts |-> "no"]
        BY <2>2 DEF build_flex_w0, build_flex_w0_full, Msg
      <3> QED
        BY <2>1, <2>3, <3>1 DEF FlexFrom
    <2>6. FlexRow("key_sig", "on_key_sig", 5, fields, {20})
      BY <2>1, <2>5 DEF FlexRow
    <2>7. FlexNumber["key_sig"] = 5
      BY DEF FlexNumber
    <2> QED
      BY <2>1, <2>6, <2>7, FlexKnown DEF FlexAll
  <1>4. FlexAll("key_sig_full")
    <2> DEFINE fields == FlexAddress \union
         {F("sharps_flats", 4, 1, 28), F("tonic", 4, 1, 24), F("key_type", 2, 1, 22)}
    <2>1. FlexLayouts \in Tables /\ "key_sig_full" \in DOMAIN FlexLayouts /\ <<5, "on_key_sig">> \in SetupCalls /\ "on_key_sig" \in DOMAIN FlexArgs
      BY Domains, ArgDomains DEF Tables, SetupCalls, FlexNames
    <2>2. FlexLayouts["key_sig_full"] = build_flex_w0_full("on_key_sig", 5, fields)
      BY DEF FlexLayouts
    <2>3. Tidy(fields \union {Group}) /\ FlexPlaced(fields, {}) /\ NoGroup(fields)
      BY DEF Tidy, FlexPlaced, NoGroup, PieceType, Apart, Group, FlexAddress, F, Piece
    <2>4. FlexArgs["on_key_sig"] = fields \union {Group}
      BY DEF FlexArgs
    <2> HIDE DEF fields
    <2>5. FlexFrom(FlexLayouts["key_sig_full"], "on_key_sig", 5, fields, {})
      <3>1. FlexLayouts["key_sig_full"] =
              [calls |-> "on_key_sig", mask |-> MTBits \union 0 .. 15, const |-> MT(13) \union Bits(5),
               fields |-> fields \union {Group}, says |-> None, at |-> 0, room |-> 0, counts |-> "no"]
        BY <2>2 DEF build_flex_w0_full, Msg
      <3> QED
        BY <2>1, <2>3, <3>1 DEF FlexFrom
    <2>6. FlexRow("key_sig_full", "on_key_sig", 5, fields, {})
      BY <2>1, <2>5 DEF FlexRow
    <2>7. FlexNumber["key_sig_full"] = 5
      BY DEF FlexNumber
    <2> QED
      BY <2>1, <2>4, <2>6, <2>7, FlexKnown DEF FlexAll
  <1>5. FlexAll("metronome")
    <2> DEFINE fields == {F("primary_clicks", 8, 1, 24), F("accent_1", 8, 1, 16), F("accent_2", 8, 1, 8),
         F("accent_3", 8, 1, 0), F("subdiv_1", 8, 2, 24), F("subdiv_2", 8, 2, 16)}
    <2>1. FlexLayouts \in Tables /\ "metronome" \in DOMAIN FlexLayouts /\ <<2, "on_metronome">> \in SetupCalls /\ "on_metronome" \in DOMAIN FlexArgs
      BY Domains, ArgDomains DEF Tables, SetupCalls, FlexNames
    <2>2. FlexLayouts["metronome"] = build_flex_w0("on_metronome", 2, fields)
      BY DEF FlexLayouts
    <2>3. Tidy(fields \union {Group}) /\ FlexPlaced(fields, {20}) /\ NoGroup(fields)
      BY DEF Tidy, FlexPlaced, NoGroup, PieceType, Apart, Group, FlexAddress, F, Piece
    <2>4. FlexArgs["on_metronome"] = fields \union {Group}
      BY DEF FlexArgs
    <2> HIDE DEF fields
    <2>5. FlexFrom(FlexLayouts["metronome"], "on_metronome", 2, fields, {20})
      <3>1. FlexLayouts["metronome"] =
              [calls |-> "on_metronome", mask |-> MTBits \union 0 .. 15, const |-> (MT(13) \union Bits(2)) \union {20},
               fields |-> fields \union {Group}, says |-> [address |-> {0}], at |-> 0, room |-> 0, counts |-> "no"]
        BY <2>2 DEF build_flex_w0, build_flex_w0_full, Msg
      <3> QED
        BY <2>1, <2>3, <3>1 DEF FlexFrom
    <2>6. FlexRow("metronome", "on_metronome", 2, fields, {20})
      BY <2>1, <2>5 DEF FlexRow
    <2>7. FlexNumber["metronome"] = 2
      BY DEF FlexNumber
    <2> QED
      BY <2>1, <2>4, <2>6, <2>7, FlexKnown DEF FlexAll
  <1>6. FlexAll("chord_name")
    <2> DEFINE fields == FlexAddress \union {F("tonic_sf", 4, 1, 28), F("tonic_note", 4, 1, 24), F("chord_type", 8, 1, 16),
         F("alt1_type", 4, 1, 12), F("alt1_deg", 4, 1, 8), F("alt2_type", 4, 1, 4), F("alt2_deg", 4, 1, 0),
         F("alt3_type", 4, 2, 28), F("alt3_deg", 4, 2, 24), F("alt4_type", 4, 2, 20), F("alt4_deg", 4, 2, 16),
         F("bass_sf", 4, 3, 28), F("bass_note", 4, 3, 24), F("bass_type", 8, 3, 16),
         F("bass_alt1_type", 4, 3, 12), F("bass_alt1_deg", 4, 3, 8),
         F("bass_alt2_type", 4, 3, 4), F("bass_alt2_deg", 4, 3, 0)}
    <2>1. ChordLayout \in Tables /\ "chord_name" \in DOMAIN ChordLayout /\ <<6, "on_chord">> \in SetupCalls /\ "on_chord" \in DOMAIN FlexArgs
      BY Domains, ArgDomains DEF Tables, SetupCalls, FlexNames
    <2>2. ChordLayout["chord_name"] = build_flex_w0_full("on_chord", 6, fields)
      BY DEF ChordLayout
    <2>3. Tidy(fields \union {Group}) /\ FlexPlaced(fields, {}) /\ NoGroup(fields)
      BY DEF Tidy, FlexPlaced, NoGroup, PieceType, Apart, Group, FlexAddress, F, Piece
    <2>4. FlexArgs["on_chord"] = fields \union {Group}
      BY DEF FlexArgs
    <2> HIDE DEF fields
    <2>5. FlexFrom(ChordLayout["chord_name"], "on_chord", 6, fields, {})
      <3>1. ChordLayout["chord_name"] =
              [calls |-> "on_chord", mask |-> MTBits \union 0 .. 15, const |-> MT(13) \union Bits(6),
               fields |-> fields \union {Group}, says |-> None, at |-> 0, room |-> 0, counts |-> "no"]
        BY <2>2 DEF build_flex_w0_full, Msg
      <3> QED
        BY <2>1, <2>3, <3>1 DEF FlexFrom
    <2>6. FlexRow("chord_name", "on_chord", 6, fields, {})
      BY <2>1, <2>5 DEF FlexRow
    <2>7. FlexNumber["chord_name"] = 6
      BY DEF FlexNumber
    <2> QED
      BY <2>1, <2>4, <2>6, <2>7, FlexKnown DEF FlexAll
  <1>7. DOMAIN FlexNumber = {"tempo", "time_sig", "key_sig", "key_sig_full", "metronome", "chord_name"}
    BY DEF FlexNumber
  <1> QED
    BY <1>1, <1>2, <1>3, <1>4, <1>5, <1>6, <1>7

-----------------------------------------------------------------------------
(* Stream messages, by their ten bits of status.                           *)
StreamNumber == [
  stream_endpoint_discovery |-> 0, stream_endpoint_info |-> 1, stream_device_identity |-> 2,
  stream_endpoint_name |-> 3, stream_product_id |-> 4, stream_config_request |-> 5, stream_config_notify |-> 6,
  stream_fb_discovery |-> 16, stream_fb_info |-> 17, stream_fb_name |-> 18, stream_start_of_clip |-> 32,
  stream_end_of_clip |-> 33]
(* A stream message of which bytes may be a part: those from bit `at' on.  *)
Clear(fields, at) == \A f \in fields : f.word = 0 /\ f.lo >= 32 - at
StreamFrom(L, calls, n, fields) ==
  /\ n \in StatusBytes /\ <<n, calls>> \in StreamCalls /\ Tidy(fields) /\ Placed(fields, 16, 10)
  /\ L.calls = calls /\ L.mask = MTBits \union 16 .. 25 /\ L.const = MT(15) \union Put(Bits(n), 16)
  /\ L.fields = fields /\ L.counts = "no"
  /\ \/ L.room = 0 /\ L.at = 0
     \/ /\ L.at \in {16, 24} /\ L.room \in 0 .. 14 /\ L.at + 8 * L.room <= 128
        /\ Clear(fields, L.at)

(* The word of a Stream message shows its ten-bit status, and the          *)
(* dispatcher reaches the callback that the builder means.                 *)
LEMMA StreamMade ==
  ASSUME NEW L, NEW calls, NEW n, NEW fields, StreamFrom(L, calls, n, fields)
  PROVE  Known(L, 15, 16, 10, n)
  <1>0. /\ n \in StatusBytes /\ <<n, calls>> \in StreamCalls /\ Tidy(fields) /\ Placed(fields, 16, 10)
        /\ L.calls = calls /\ L.mask = MTBits \union 16 .. 25 /\ L.const = MT(15) \union Put(Bits(n), 16)
        /\ L.fields = fields /\ L.counts = "no"
    BY DEF StreamFrom
  <1> DEFINE M == HeadMsg(calls, 15, 16, 10, n, fields, None)
  <1>1. HeadKind(15, 16, 10, n)
    <2>1. n \in TenBitNumbers
      BY <1>0 DEF StatusBytes, TenBitNumbers
    <2>2. OfBits(n, 10)
      BY <1>0, LowBits DEF OfBits
    <2> QED
      BY <2>1, <2>2 DEF HeadKind
  <1>2. Sound(M) /\ Headed(M, 15, 16, 10, n) /\ M.fields = fields
    BY <1>0, <1>1, OneNumber
  <1>3. M.mask = L.mask /\ M.const = L.const /\ M.room = 0 /\ M.at = 0 /\ M.counts = "no"
    <2>1. 16 + 10 - 1 = 25
      OBVIOUS
    <2> QED
      BY <1>0, <2>1 DEF HeadMsg, Msg
  <1> HIDE DEF M
  <1>4. Headed(L, 15, 16, 10, n)
    BY <1>2, <1>3 DEF Headed, HeadIs
  <1>5. Sound(L)
    <2>1. CASE L.room = 0 /\ L.at = 0
      BY <1>0, <1>2, <1>3, <2>1 DEF Sound, Counted, TailBits
    <2>2. CASE /\ L.at \in {16, 24} /\ L.room \in 0 .. 14 /\ L.at + 8 * L.room <= 128
               /\ Clear(fields, L.at)
      <3> DEFINE at == L.at
                 room == L.room
      <3>1. at \in {16, 24, 32} /\ room \in 0 .. 14 /\ at + 8 * room <= 128
        BY <2>2
      <3>2. \A f \in M.fields : f.word = 0 /\ f.lo >= 32 - at
        BY <1>2, <2>2 DEF Clear
      <3>3. \A i \in M.mask \union M.const : i \notin 0 .. 31 - at
        <4>1. \A i \in M.mask \union M.const : i \in 28 .. 31 \/ i \in 16 .. 16 + 10 - 1
          BY <1>2 DEF Headed
        <4>2. at \in {16, 24}
          BY <2>2
        <4> HIDE DEF at
        <4> QED
          BY <4>1, <4>2
      <3>4. L.fields = M.fields /\ L.mask = M.mask /\ L.const = M.const /\ L.at = at /\ L.room = room
            /\ L.counts = "no"
        BY <1>0, <1>2, <1>3
      <3> HIDE DEF at, room
      <3> QED
        BY <1>2, <1>3, <3>1, <3>2, <3>3, <3>4, BytesSound
    <2> QED
      BY <2>1, <2>2 DEF StreamFrom
  <1>6. ASSUME NEW w, HeadIs(w, L) PROVE CallbackOf(w) = calls
    <2>1. TypeOf(w) = 15 /\ Num(Take(w[0], 16, 10)) = n
      BY <1>4, <1>6 DEF Headed
    <2>2. At(StreamCalls, Take(w[0], 16, 10)) = calls
      BY <1>0, <2>1, SwitchOne DEF Switches
    <2> QED
      BY <2>1, <2>2 DEF CallbackOf, TypeOf, dispatch_stream
  <1> QED
    BY <1>0, <1>4, <1>5, <1>6 DEF Known, Reached

StreamRow(kind, calls, n, fields) ==
  \E t \in Tables : kind \in DOMAIN t /\ StreamFrom(t[kind], calls, n, fields)

(* One row of the Stream layouts.                                          *)
LEMMA StreamKnown ==
  ASSUME NEW kind, NEW calls, NEW n, NEW fields, StreamRow(kind, calls, n, fields)
  PROVE  LET L == Layouts[kind] IN
         /\ kind \in UmpKinds /\ Known(L, 15, 16, 10, n)
         /\ calls \in DOMAIN StreamArgs /\ StreamArgs[calls] = fields => Exact(L)
  <1> DEFINE L == Layouts[kind]
  <1>1. StreamFrom(L, calls, n, fields) /\ kind \in UmpKinds
    BY LayoutOf DEF StreamRow
  <1> HIDE DEF L
  <1>2. Known(L, 15, 16, 10, n)
    BY <1>1, StreamMade
  <1>3. L.calls = calls /\ L.fields = fields
    BY <1>1 DEF StreamFrom
  <1>4. ASSUME calls \in DOMAIN StreamArgs, StreamArgs[calls] = fields PROVE Exact(L)
    <2>1. calls \in DOMAIN Extract /\ Extract[calls] = StreamArgs[calls]
      BY <1>4, ExtractOf DEF ArgTables
    <2>2. calls # "on_clip"
      BY <1>4, ArgDomains DEF StreamNames
    <2> QED
      BY <1>2, <1>3, <1>4, <2>1, <2>2 DEF Exact, Known
  <1> QED
    BY <1>1, <1>2, <1>4 DEF L

InexactStream == {"stream_endpoint_name", "stream_product_id", "stream_start_of_clip", "stream_end_of_clip"}
StreamAll(kind) ==
  /\ kind \in UmpKinds /\ Known(Layouts[kind], 15, 16, 10, StreamNumber[kind])
  /\ kind \notin InexactStream => Exact(Layouts[kind])

(* Every Stream layout; the readers of the texts and of the clip markers   *)
(* take other fields than the builder writes.                              *)
LEMMA StreamAllKnown == \A kind \in DOMAIN StreamNumber : StreamAll(kind)
  <1>1. StreamAll("stream_endpoint_discovery")
    <2> DEFINE fields == Version \union {F("filter", 8, 1, 0)}
    <2>1. EndpointLayouts \in Tables /\ "stream_endpoint_discovery" \in DOMAIN EndpointLayouts /\ <<0, "on_endpoint_discovery">> \in StreamCalls /\ "on_endpoint_discovery" \in DOMAIN StreamArgs
      BY Domains, ArgDomains DEF Tables, StreamCalls, StreamNames
    <2>2. EndpointLayouts["stream_endpoint_discovery"] = build_stream_w0("on_endpoint_discovery", 0, fields)
      BY DEF EndpointLayouts
    <2>3. Tidy(fields) /\ Placed(fields, 16, 10)
      BY DEF Tidy, Placed, PieceType, Apart, Clear, Version, Config, Format, F, Piece
    <2>4. StreamArgs["on_endpoint_discovery"] = fields
      BY DEF StreamArgs, Version, Config, Format
    <2> HIDE DEF fields
    <2>5. StreamFrom(EndpointLayouts["stream_endpoint_discovery"], "on_endpoint_discovery", 0, fields)
      <3>1. EndpointLayouts["stream_endpoint_discovery"] =
              [calls |-> "on_endpoint_discovery", mask |-> MTBits \union 16 .. 25, const |-> MT(15) \union Put(Bits(0), 16),
               fields |-> fields, says |-> None, at |-> 0, room |-> 0, counts |-> "no"]
        BY <2>2 DEF build_stream_w0, Says, WithBytes, Msg
      <3>2. 0 \in StatusBytes
        BY DEF StatusBytes
      <3> QED
        BY <2>1, <2>3, <3>1, <3>2 DEF StreamFrom
    <2>6. StreamRow("stream_endpoint_discovery", "on_endpoint_discovery", 0, fields)
      BY <2>1, <2>5 DEF StreamRow
    <2>7. StreamNumber["stream_endpoint_discovery"] = 0
      BY DEF StreamNumber
    <2> QED
      BY <2>1, <2>4, <2>6, <2>7, StreamKnown DEF StreamAll
  <1>2. StreamAll("stream_endpoint_info")
    <2> DEFINE fields == Version \union
         {F("static_fb", 1, 1, 31), F("num_fb", 7, 1, 24), F("midi2_proto", 1, 1, 9),
          F("midi1_proto", 1, 1, 8), F("rx_jr", 1, 1, 1), F("tx_jr", 1, 1, 0)}
    <2>1. EndpointLayouts \in Tables /\ "stream_endpoint_info" \in DOMAIN EndpointLayouts /\ <<1, "on_endpoint_info">> \in StreamCalls /\ "on_endpoint_info" \in DOMAIN StreamArgs
      BY Domains, ArgDomains DEF Tables, StreamCalls, StreamNames
    <2>2. EndpointLayouts["stream_endpoint_info"] = build_stream_w0("on_endpoint_info", 1, fields)
      BY DEF EndpointLayouts
    <2>3. Tidy(fields) /\ Placed(fields, 16, 10)
      BY DEF Tidy, Placed, PieceType, Apart, Clear, Version, Config, Format, F, Piece
    <2>4. StreamArgs["on_endpoint_info"] = fields
      BY DEF StreamArgs, Version, Config, Format
    <2> HIDE DEF fields
    <2>5. StreamFrom(EndpointLayouts["stream_endpoint_info"], "on_endpoint_info", 1, fields)
      <3>1. EndpointLayouts["stream_endpoint_info"] =
              [calls |-> "on_endpoint_info", mask |-> MTBits \union 16 .. 25, const |-> MT(15) \union Put(Bits(1), 16),
               fields |-> fields, says |-> None, at |-> 0, room |-> 0, counts |-> "no"]
        BY <2>2 DEF build_stream_w0, Says, WithBytes, Msg
      <3>2. 1 \in StatusBytes
        BY DEF StatusBytes
      <3> QED
        BY <2>1, <2>3, <3>1, <3>2 DEF StreamFrom
    <2>6. StreamRow("stream_endpoint_info", "on_endpoint_info", 1, fields)
      BY <2>1, <2>5 DEF StreamRow
    <2>7. StreamNumber["stream_endpoint_info"] = 1
      BY DEF StreamNumber
    <2> QED
      BY <2>1, <2>4, <2>6, <2>7, StreamKnown DEF StreamAll
  <1>3. StreamAll("stream_device_identity")
    <2> DEFINE fields == {F("manufacturer_id", 7, 1, 0), Piece("manufacturer_id", 8, 7, 1, 8),
         Piece("manufacturer_id", 16, 7, 1, 16), F("family_id", 7, 2, 24), Piece("family_id", 7, 7, 2, 16),
         F("model_id", 7, 2, 8), Piece("model_id", 7, 7, 2, 0), Piece("version_id", 24, 7, 3, 24),
         Piece("version_id", 16, 7, 3, 16), Piece("version_id", 8, 7, 3, 8), Piece("version_id", 0, 7, 3, 0)}
    <2>1. EndpointLayouts \in Tables /\ "stream_device_identity" \in DOMAIN EndpointLayouts /\ <<2, "on_device_identity">> \in StreamCalls /\ "on_device_identity" \in DOMAIN StreamArgs
      BY Domains, ArgDomains DEF Tables, StreamCalls, StreamNames
    <2>2. EndpointLayouts["stream_device_identity"] = build_stream_w0("on_device_identity", 2, fields)
      <3> DEFINE a == <<<<0, 1, 0>>, <<8, 1, 8>>, <<16, 1, 16>>>>
                 b == <<<<0, 2, 24>>, <<7, 2, 16>>>>
                 d == <<<<0, 2, 8>>, <<7, 2, 0>>>>
                 e == <<<<24, 3, 24>>, <<16, 3, 16>>, <<8, 3, 8>>, <<0, 3, 0>>>>
      <3>1. Sevens("manufacturer_id", a) = {F("manufacturer_id", 7, 1, 0), Piece("manufacturer_id", 8, 7, 1, 8),
                                            Piece("manufacturer_id", 16, 7, 1, 16)}
        <4>1. DOMAIN a = {1, 2, 3}
          OBVIOUS
        <4> QED
          BY <4>1 DEF Sevens, F
      <3>2. Sevens("family_id", b) = {F("family_id", 7, 2, 24), Piece("family_id", 7, 7, 2, 16)}
        <4>1. DOMAIN b = {1, 2}
          OBVIOUS
        <4> QED
          BY <4>1 DEF Sevens, F
      <3>3. Sevens("model_id", d) = {F("model_id", 7, 2, 8), Piece("model_id", 7, 7, 2, 0)}
        <4>1. DOMAIN d = {1, 2}
          OBVIOUS
        <4> QED
          BY <4>1 DEF Sevens, F
      <3>4. Sevens("version_id", e) = {Piece("version_id", 24, 7, 3, 24), Piece("version_id", 16, 7, 3, 16),
                                       Piece("version_id", 8, 7, 3, 8), Piece("version_id", 0, 7, 3, 0)}
        <4>1. DOMAIN e = {1, 2, 3, 4}
          OBVIOUS
        <4> QED
          BY <4>1 DEF Sevens
      <3>5. EndpointLayouts["stream_device_identity"] = build_stream_w0("on_device_identity", 2, Sevens("manufacturer_id", a) \union Sevens("family_id", b)
                                          \union Sevens("model_id", d) \union Sevens("version_id", e))
        BY DEF EndpointLayouts
      <3> HIDE DEF a, b, d, e
      <3>6. fields = Sevens("manufacturer_id", a) \union Sevens("family_id", b)
                       \union Sevens("model_id", d) \union Sevens("version_id", e)
        BY <3>1, <3>2, <3>3, <3>4
      <3> QED
        BY <3>5, <3>6
    <2>3. Tidy(fields) /\ Placed(fields, 16, 10)
      BY DEF Tidy, Placed, PieceType, Apart, Clear, Version, Config, Format, F, Piece
    <2>4. StreamArgs["on_device_identity"] = fields
      <3>1. {Piece("version_id", x, 7, 3, x) : x \in {0, 8, 16, 24}}
              = {Piece("version_id", 24, 7, 3, 24), Piece("version_id", 16, 7, 3, 16),
                 Piece("version_id", 8, 7, 3, 8), Piece("version_id", 0, 7, 3, 0)}
        OBVIOUS
      <3> QED
        BY <3>1 DEF StreamArgs
    <2> HIDE DEF fields
    <2>5. StreamFrom(EndpointLayouts["stream_device_identity"], "on_device_identity", 2, fields)
      <3>1. EndpointLayouts["stream_device_identity"] =
              [calls |-> "on_device_identity", mask |-> MTBits \union 16 .. 25, const |-> MT(15) \union Put(Bits(2), 16),
               fields |-> fields, says |-> None, at |-> 0, room |-> 0, counts |-> "no"]
        BY <2>2 DEF build_stream_w0, Says, WithBytes, Msg
      <3>2. 2 \in StatusBytes
        BY DEF StatusBytes
      <3> QED
        BY <2>1, <2>3, <3>1, <3>2 DEF StreamFrom
    <2>6. StreamRow("stream_device_identity", "on_device_identity", 2, fields)
      BY <2>1, <2>5 DEF StreamRow
    <2>7. StreamNumber["stream_device_identity"] = 2
      BY DEF StreamNumber
    <2> QED
      BY <2>1, <2>4, <2>6, <2>7, StreamKnown DEF StreamAll
  <1>4. StreamAll("stream_endpoint_name")
    <2> DEFINE fields == {Format}
    <2>1. StreamTextLayouts \in Tables /\ "stream_endpoint_name" \in DOMAIN StreamTextLayouts /\ <<3, "on_stream_text">> \in StreamCalls 
      BY Domains, ArgDomains DEF Tables, StreamCalls, StreamNames
    <2>2. StreamTextLayouts["stream_endpoint_name"] = WithBytes(Says(build_stream_w0("on_stream_text", 3, fields), [status |-> Bits(3)]), 16, 14, "no")
      BY DEF StreamTextLayouts
    <2>3. Tidy(fields) /\ Placed(fields, 16, 10) /\ Clear(fields, 16)
      BY DEF Tidy, Placed, PieceType, Apart, Clear, Version, Config, Format, F, Piece
    <2> HIDE DEF fields
    <2>5. StreamFrom(StreamTextLayouts["stream_endpoint_name"], "on_stream_text", 3, fields)
      <3>1. StreamTextLayouts["stream_endpoint_name"] =
              [calls |-> "on_stream_text", mask |-> MTBits \union 16 .. 25, const |-> MT(15) \union Put(Bits(3), 16),
               fields |-> fields, says |-> [status |-> Bits(3)], at |-> 16, room |-> 14, counts |-> "no"]
        BY <2>2 DEF build_stream_w0, Says, WithBytes, Msg
      <3>2. 3 \in StatusBytes
        BY DEF StatusBytes
      <3> QED
        BY <2>1, <2>3, <3>1, <3>2 DEF StreamFrom
    <2>6. StreamRow("stream_endpoint_name", "on_stream_text", 3, fields)
      BY <2>1, <2>5 DEF StreamRow
    <2>7. StreamNumber["stream_endpoint_name"] = 3
      BY DEF StreamNumber
    <2> QED
      BY <2>1, <2>6, <2>7, StreamKnown DEF StreamAll, InexactStream
  <1>5. StreamAll("stream_product_id")
    <2> DEFINE fields == {Format}
    <2>1. StreamTextLayouts \in Tables /\ "stream_product_id" \in DOMAIN StreamTextLayouts /\ <<4, "on_stream_text">> \in StreamCalls 
      BY Domains, ArgDomains DEF Tables, StreamCalls, StreamNames
    <2>2. StreamTextLayouts["stream_product_id"] = WithBytes(Says(build_stream_w0("on_stream_text", 4, fields), [status |-> Bits(4)]), 16, 14, "no")
      BY DEF StreamTextLayouts
    <2>3. Tidy(fields) /\ Placed(fields, 16, 10) /\ Clear(fields, 16)
      BY DEF Tidy, Placed, PieceType, Apart, Clear, Version, Config, Format, F, Piece
    <2> HIDE DEF fields
    <2>5. StreamFrom(StreamTextLayouts["stream_product_id"], "on_stream_text", 4, fields)
      <3>1. StreamTextLayouts["stream_product_id"] =
              [calls |-> "on_stream_text", mask |-> MTBits \union 16 .. 25, const |-> MT(15) \union Put(Bits(4), 16),
               fields |-> fields, says |-> [status |-> Bits(4)], at |-> 16, room |-> 14, counts |-> "no"]
        BY <2>2 DEF build_stream_w0, Says, WithBytes, Msg
      <3>2. 4 \in StatusBytes
        BY DEF StatusBytes
      <3> QED
        BY <2>1, <2>3, <3>1, <3>2 DEF StreamFrom
    <2>6. StreamRow("stream_product_id", "on_stream_text", 4, fields)
      BY <2>1, <2>5 DEF StreamRow
    <2>7. StreamNumber["stream_product_id"] = 4
      BY DEF StreamNumber
    <2> QED
      BY <2>1, <2>6, <2>7, StreamKnown DEF StreamAll, InexactStream
  <1>6. StreamAll("stream_config_request")
    <2> DEFINE fields == Config
    <2>1. BlockLayouts \in Tables /\ "stream_config_request" \in DOMAIN BlockLayouts /\ <<5, "on_config_request">> \in StreamCalls /\ "on_config_request" \in DOMAIN StreamArgs
      BY Domains, ArgDomains DEF Tables, StreamCalls, StreamNames
    <2>2. BlockLayouts["stream_config_request"] = build_stream_w0("on_config_request", 5, fields)
      BY DEF BlockLayouts
    <2>3. Tidy(fields) /\ Placed(fields, 16, 10)
      BY DEF Tidy, Placed, PieceType, Apart, Clear, Version, Config, Format, F, Piece
    <2>4. StreamArgs["on_config_request"] = fields
      BY DEF StreamArgs, Version, Config, Format
    <2> HIDE DEF fields
    <2>5. StreamFrom(BlockLayouts["stream_config_request"], "on_config_request", 5, fields)
      <3>1. BlockLayouts["stream_config_request"] =
              [calls |-> "on_config_request", mask |-> MTBits \union 16 .. 25, const |-> MT(15) \union Put(Bits(5), 16),
               fields |-> fields, says |-> None, at |-> 0, room |-> 0, counts |-> "no"]
        BY <2>2 DEF build_stream_w0, Says, WithBytes, Msg
      <3>2. 5 \in StatusBytes
        BY DEF StatusBytes
      <3> QED
        BY <2>1, <2>3, <3>1, <3>2 DEF StreamFrom
    <2>6. StreamRow("stream_config_request", "on_config_request", 5, fields)
      BY <2>1, <2>5 DEF StreamRow
    <2>7. StreamNumber["stream_config_request"] = 5
      BY DEF StreamNumber
    <2> QED
      BY <2>1, <2>4, <2>6, <2>7, StreamKnown DEF StreamAll
  <1>7. StreamAll("stream_config_notify")
    <2> DEFINE fields == Config
    <2>1. BlockLayouts \in Tables /\ "stream_config_notify" \in DOMAIN BlockLayouts /\ <<6, "on_config_notify">> \in StreamCalls /\ "on_config_notify" \in DOMAIN StreamArgs
      BY Domains, ArgDomains DEF Tables, StreamCalls, StreamNames
    <2>2. BlockLayouts["stream_config_notify"] = build_stream_w0("on_config_notify", 6, fields)
      BY DEF BlockLayouts
    <2>3. Tidy(fields) /\ Placed(fields, 16, 10)
      BY DEF Tidy, Placed, PieceType, Apart, Clear, Version, Config, Format, F, Piece
    <2>4. StreamArgs["on_config_notify"] = fields
      BY DEF StreamArgs, Version, Config, Format
    <2> HIDE DEF fields
    <2>5. StreamFrom(BlockLayouts["stream_config_notify"], "on_config_notify", 6, fields)
      <3>1. BlockLayouts["stream_config_notify"] =
              [calls |-> "on_config_notify", mask |-> MTBits \union 16 .. 25, const |-> MT(15) \union Put(Bits(6), 16),
               fields |-> fields, says |-> None, at |-> 0, room |-> 0, counts |-> "no"]
        BY <2>2 DEF build_stream_w0, Says, WithBytes, Msg
      <3>2. 6 \in StatusBytes
        BY DEF StatusBytes
      <3> QED
        BY <2>1, <2>3, <3>1, <3>2 DEF StreamFrom
    <2>6. StreamRow("stream_config_notify", "on_config_notify", 6, fields)
      BY <2>1, <2>5 DEF StreamRow
    <2>7. StreamNumber["stream_config_notify"] = 6
      BY DEF StreamNumber
    <2> QED
      BY <2>1, <2>4, <2>6, <2>7, StreamKnown DEF StreamAll
  <1>8. StreamAll("stream_fb_discovery")
    <2> DEFINE fields == {F("fb_num", 8, 0, 8), F("filter", 8, 0, 0)}
    <2>1. BlockLayouts \in Tables /\ "stream_fb_discovery" \in DOMAIN BlockLayouts /\ <<16, "on_fb_discovery">> \in StreamCalls /\ "on_fb_discovery" \in DOMAIN StreamArgs
      BY Domains, ArgDomains DEF Tables, StreamCalls, StreamNames
    <2>2. BlockLayouts["stream_fb_discovery"] = build_stream_w0("on_fb_discovery", 16, fields)
      BY DEF BlockLayouts
    <2>3. Tidy(fields) /\ Placed(fields, 16, 10)
      BY DEF Tidy, Placed, PieceType, Apart, Clear, Version, Config, Format, F, Piece
    <2>4. StreamArgs["on_fb_discovery"] = fields
      BY DEF StreamArgs, Version, Config, Format
    <2> HIDE DEF fields
    <2>5. StreamFrom(BlockLayouts["stream_fb_discovery"], "on_fb_discovery", 16, fields)
      <3>1. BlockLayouts["stream_fb_discovery"] =
              [calls |-> "on_fb_discovery", mask |-> MTBits \union 16 .. 25, const |-> MT(15) \union Put(Bits(16), 16),
               fields |-> fields, says |-> None, at |-> 0, room |-> 0, counts |-> "no"]
        BY <2>2 DEF build_stream_w0, Says, WithBytes, Msg
      <3>2. 16 \in StatusBytes
        BY DEF StatusBytes
      <3> QED
        BY <2>1, <2>3, <3>1, <3>2 DEF StreamFrom
    <2>6. StreamRow("stream_fb_discovery", "on_fb_discovery", 16, fields)
      BY <2>1, <2>5 DEF StreamRow
    <2>7. StreamNumber["stream_fb_discovery"] = 16
      BY DEF StreamNumber
    <2> QED
      BY <2>1, <2>4, <2>6, <2>7, StreamKnown DEF StreamAll
  <1>9. StreamAll("stream_fb_info")
    <2> DEFINE fields == {F("active", 1, 0, 15), F("fb_num", 7, 0, 8), F("ui_hint", 2, 0, 4), F("direction", 2, 0, 0),
         F("first_group", 8, 1, 24), F("num_groups", 8, 1, 16), F("midi_ci_ver", 8, 1, 8),
         F("max_sysex8_streams", 8, 1, 0)}
    <2>1. BlockLayouts \in Tables /\ "stream_fb_info" \in DOMAIN BlockLayouts /\ <<17, "on_fb_info">> \in StreamCalls /\ "on_fb_info" \in DOMAIN StreamArgs
      BY Domains, ArgDomains DEF Tables, StreamCalls, StreamNames
    <2>2. BlockLayouts["stream_fb_info"] = build_stream_w0("on_fb_info", 17, fields)
      BY DEF BlockLayouts
    <2>3. Tidy(fields) /\ Placed(fields, 16, 10)
      BY DEF Tidy, Placed, PieceType, Apart, Clear, Version, Config, Format, F, Piece
    <2>4. StreamArgs["on_fb_info"] = fields
      BY DEF StreamArgs, Version, Config, Format
    <2> HIDE DEF fields
    <2>5. StreamFrom(BlockLayouts["stream_fb_info"], "on_fb_info", 17, fields)
      <3>1. BlockLayouts["stream_fb_info"] =
              [calls |-> "on_fb_info", mask |-> MTBits \union 16 .. 25, const |-> MT(15) \union Put(Bits(17), 16),
               fields |-> fields, says |-> None, at |-> 0, room |-> 0, counts |-> "no"]
        BY <2>2 DEF build_stream_w0, Says, WithBytes, Msg
      <3>2. 17 \in StatusBytes
        BY DEF StatusBytes
      <3> QED
        BY <2>1, <2>3, <3>1, <3>2 DEF StreamFrom
    <2>6. StreamRow("stream_fb_info", "on_fb_info", 17, fields)
      BY <2>1, <2>5 DEF StreamRow
    <2>7. StreamNumber["stream_fb_info"] = 17
      BY DEF StreamNumber
    <2> QED
      BY <2>1, <2>4, <2>6, <2>7, StreamKnown DEF StreamAll
  <1>10. StreamAll("stream_fb_name")
    <2> DEFINE fields == {Format, F("fb_num", 8, 0, 8)}
    <2>1. StreamTextLayouts \in Tables /\ "stream_fb_name" \in DOMAIN StreamTextLayouts /\ <<18, "on_fb_name">> \in StreamCalls /\ "on_fb_name" \in DOMAIN StreamArgs
      BY Domains, ArgDomains DEF Tables, StreamCalls, StreamNames
    <2>2. StreamTextLayouts["stream_fb_name"] = WithBytes(build_stream_w0("on_fb_name", 18, fields), 24, 13, "no")
      BY DEF StreamTextLayouts
    <2>3. Tidy(fields) /\ Placed(fields, 16, 10) /\ Clear(fields, 24)
      BY DEF Tidy, Placed, PieceType, Apart, Clear, Version, Config, Format, F, Piece
    <2>4. StreamArgs["on_fb_name"] = fields
      BY DEF StreamArgs, Version, Config, Format
    <2> HIDE DEF fields
    <2>5. StreamFrom(StreamTextLayouts["stream_fb_name"], "on_fb_name", 18, fields)
      <3>1. StreamTextLayouts["stream_fb_name"] =
              [calls |-> "on_fb_name", mask |-> MTBits \union 16 .. 25, const |-> MT(15) \union Put(Bits(18), 16),
               fields |-> fields, says |-> None, at |-> 24, room |-> 13, counts |-> "no"]
        BY <2>2 DEF build_stream_w0, Says, WithBytes, Msg
      <3>2. 18 \in StatusBytes
        BY DEF StatusBytes
      <3> QED
        BY <2>1, <2>3, <3>1, <3>2 DEF StreamFrom
    <2>6. StreamRow("stream_fb_name", "on_fb_name", 18, fields)
      BY <2>1, <2>5 DEF StreamRow
    <2>7. StreamNumber["stream_fb_name"] = 18
      BY DEF StreamNumber
    <2> QED
      BY <2>1, <2>4, <2>6, <2>7, StreamKnown DEF StreamAll
  <1>11. StreamAll("stream_start_of_clip")
    <2> DEFINE fields == {}
    <2>1. StreamTextLayouts \in Tables /\ "stream_start_of_clip" \in DOMAIN StreamTextLayouts /\ <<32, "on_clip">> \in StreamCalls 
      BY Domains, ArgDomains DEF Tables, StreamCalls, StreamNames
    <2>2. StreamTextLayouts["stream_start_of_clip"] = Says(build_stream_w0("on_clip", 32, fields), [start |-> {0}])
      BY DEF StreamTextLayouts
    <2>3. Tidy(fields) /\ Placed(fields, 16, 10)
      BY DEF Tidy, Placed, PieceType, Apart, Clear, Version, Config, Format, F, Piece
    <2> HIDE DEF fields
    <2>5. StreamFrom(StreamTextLayouts["stream_start_of_clip"], "on_clip", 32, fields)
      <3>1. StreamTextLayouts["stream_start_of_clip"] =
              [calls |-> "on_clip", mask |-> MTBits \union 16 .. 25, const |-> MT(15) \union Put(Bits(32), 16),
               fields |-> fields, says |-> [start |-> {0}], at |-> 0, room |-> 0, counts |-> "no"]
        BY <2>2 DEF build_stream_w0, Says, WithBytes, Msg
      <3>2. 32 \in StatusBytes
        BY DEF StatusBytes
      <3> QED
        BY <2>1, <2>3, <3>1, <3>2 DEF StreamFrom
    <2>6. StreamRow("stream_start_of_clip", "on_clip", 32, fields)
      BY <2>1, <2>5 DEF StreamRow
    <2>7. StreamNumber["stream_start_of_clip"] = 32
      BY DEF StreamNumber
    <2> QED
      BY <2>1, <2>6, <2>7, StreamKnown DEF StreamAll, InexactStream
  <1>12. StreamAll("stream_end_of_clip")
    <2> DEFINE fields == {}
    <2>1. StreamTextLayouts \in Tables /\ "stream_end_of_clip" \in DOMAIN StreamTextLayouts /\ <<33, "on_clip">> \in StreamCalls 
      BY Domains, ArgDomains DEF Tables, StreamCalls, StreamNames
    <2>2. StreamTextLayouts["stream_end_of_clip"] = build_stream_w0("on_clip", 33, fields)
      BY DEF StreamTextLayouts
    <2>3. Tidy(fields) /\ Placed(fields, 16, 10)
      BY DEF Tidy, Placed, PieceType, Apart, Clear, Version, Config, Format, F, Piece
    <2> HIDE DEF fields
    <2>5. StreamFrom(StreamTextLayouts["stream_end_of_clip"], "on_clip", 33, fields)
      <3>1. StreamTextLayouts["stream_end_of_clip"] =
              [calls |-> "on_clip", mask |-> MTBits \union 16 .. 25, const |-> MT(15) \union Put(Bits(33), 16),
               fields |-> fields, says |-> None, at |-> 0, room |-> 0, counts |-> "no"]
        BY <2>2 DEF build_stream_w0, Says, WithBytes, Msg
      <3>2. 33 \in StatusBytes
        BY DEF StatusBytes
      <3> QED
        BY <2>1, <2>3, <3>1, <3>2 DEF StreamFrom
    <2>6. StreamRow("stream_end_of_clip", "on_clip", 33, fields)
      BY <2>1, <2>5 DEF StreamRow
    <2>7. StreamNumber["stream_end_of_clip"] = 33
      BY DEF StreamNumber
    <2> QED
      BY <2>1, <2>6, <2>7, StreamKnown DEF StreamAll, InexactStream
  <1>13. DOMAIN StreamNumber =
         {"stream_endpoint_discovery", "stream_endpoint_info", "stream_device_identity", "stream_endpoint_name",
          "stream_product_id", "stream_config_request", "stream_config_notify", "stream_fb_discovery",
          "stream_fb_info", "stream_fb_name", "stream_start_of_clip", "stream_end_of_clip"}
    BY DEF StreamNumber
  <1> QED
    BY <1>1, <1>2, <1>3, <1>4, <1>5, <1>6, <1>7, <1>8, <1>9, <1>10, <1>11, <1>12, <1>13

-----------------------------------------------------------------------------
(* SysEx and Mixed Data Set packets, and Flex text, which are recognized   *)
(* by their type and a status or a bank that the header does not fix.      *)
LEMMA MdsHeaderAgrees ==
  LET L == Layouts["mds_header"] IN "mds_header" \in UmpKinds /\ Agrees(L, 5, 20, 4, 8) /\ Grouped(L)
  <1> DEFINE fields == {MdsId, F("num_bytes", 16, 0, 0), F("num_chunks", 16, 1, 16), F("this_chunk", 16, 1, 0),
                        F("mfr_id", 16, 2, 16), F("device_id", 16, 2, 0), F("sub_id1", 16, 3, 16),
                        F("sub_id2", 16, 3, 0)}
             all == fields \union {Group}
             L == Layouts["mds_header"]
  <1>1. "mds_header" \in DOMAIN DataLayouts /\ "on_mds_header" \in DOMAIN DataArgs
    BY Domains, ArgDomains DEF DataNames
  <1>2. "mds_header" \in UmpKinds /\ L = DataLayouts["mds_header"]
    BY <1>1, LayoutOf DEF Tables
  <1>3. L = Data128("on_mds_header", 20 .. 23, Put(Bits(128), 16), fields)
    BY <1>2 DEF DataLayouts
  <1>4. Tidy(all) /\ Placed(all, 20, 4)
    BY DEF Tidy, Placed, PieceType, Apart, Group, MdsId, F, Piece
  <1>5. DataArgs["on_mds_header"] = all
    BY DEF DataArgs, MdsId
  <1>5g. \A f \in all : f.arg = "group" => f = Group
    BY DEF Group, MdsId, F, Piece
  <1> HIDE DEF L, fields
  <1>6. L = HeadMsg("on_mds_header", 5, 20, 4, 8, all, None)
    <2>1. 20 + 4 - 1 = 23 /\ 16 * 8 = 128
      OBVIOUS
    <2>2. Put(Bits(128), 16) = Put(Bits(8), 20)
      BY <2>1, ShiftedPut
    <2> QED
      BY <1>3, <2>1, <2>2 DEF Data128, HeadMsg
  <1> HIDE DEF all
  <1>7. HeadKind(5, 20, 4, 8)
    BY LowBits DEF HeadKind, TenBitNumbers, OfBits
  <1>8. Sound(L) /\ Headed(L, 5, 20, 4, 8) /\ L.calls = "on_mds_header" /\ L.fields = all
    BY <1>4, <1>6, <1>7, OneNumber
  <1>9. Reached(L)
    <2> SUFFICES ASSUME NEW w, HeadIs(w, L) PROVE CallbackOf(w) = "on_mds_header"
      BY <1>8 DEF Reached
    <2>1. TypeOf(w) = 5 /\ Num(Take(w[0], 20, 4)) = 8
      BY <1>8 DEF Headed
    <2> QED
      BY <2>1 DEF CallbackOf, TypeOf, dispatch_data128
  <1>10. Exact(L)
    <2>1. "on_mds_header" \in DOMAIN Extract /\ Extract["on_mds_header"] = DataArgs["on_mds_header"]
      BY <1>1, ExtractOf DEF ArgTables
    <2> QED
      BY <1>5, <1>8, <2>1 DEF Exact
  <1>11. Grouped(L)
    <2>1. Group \in all
      BY DEF all
    <2> QED
      BY <1>5g, <1>8, <2>1 DEF Grouped
  <1> QED
    BY <1>2, <1>8, <1>9, <1>10, <1>11 DEF Agrees, Known, L

(* The Mixed Data Set payload is read with the fields it was written with. *)
LEMMA MdsPayloadAgrees ==
  LET L == Layouts["mds_payload"] IN
  /\ "mds_payload" \in UmpKinds /\ Agrees(L, 5, 20, 4, 9) /\ Grouped(L)
  <1> DEFINE all == {MdsId, Group}
             L == Layouts["mds_payload"]
             M == Data128("on_mds_payload", 20 .. 23, Put(Bits(144), 16), {MdsId})
  <1>1. "mds_payload" \in DOMAIN DataLayouts /\ "on_mds_payload" \in DOMAIN DataArgs
    BY Domains, ArgDomains DEF DataNames
  <1>2. "mds_payload" \in UmpKinds /\ L = DataLayouts["mds_payload"]
    BY <1>1, LayoutOf DEF Tables
  <1>3. L = WithBytes(M, 16, 14, "no")
    BY <1>2 DEF DataLayouts
  <1>4. Tidy(all) /\ Placed(all, 20, 4) /\ Clear(all, 16)
    BY DEF Tidy, Placed, PieceType, Apart, Clear, Group, MdsId, F, Piece
  <1>5. DataArgs["on_mds_payload"] = all
    BY DEF DataArgs, MdsId
  <1>5g. \A f \in all : f.arg = "group" => f = Group
    BY DEF Group, MdsId, F, Piece
  <1>6. M = HeadMsg("on_mds_payload", 5, 20, 4, 9, all, None)
    <2>1. 20 + 4 - 1 = 23 /\ 16 * 9 = 144 /\ {MdsId} \union {Group} = all
      OBVIOUS
    <2>2. Put(Bits(144), 16) = Put(Bits(9), 20)
      BY <2>1, ShiftedPut
    <2> HIDE DEF all
    <2> QED
      BY <2>1, <2>2 DEF Data128, HeadMsg
  <1>7. HeadKind(5, 20, 4, 9)
    BY LowBits DEF HeadKind, TenBitNumbers, OfBits
  <1>8. /\ M.room = 0 /\ M.counts = "no" /\ L.fields = M.fields /\ L.mask = M.mask /\ L.const = M.const
        /\ L.at = 16 /\ L.room = 14 /\ L.counts = "no" /\ L.calls = "on_mds_payload"
    BY <1>3 DEF WithBytes, Data128, Msg
  <1> HIDE DEF L, all, M
  <1>9. Sound(M) /\ Headed(M, 5, 20, 4, 9) /\ M.fields = all
    BY <1>4, <1>6, <1>7, OneNumber
  <1>10. Sound(L)
    <2>1. \A i \in M.mask \union M.const : i \notin 0 .. 31 - 16
      <3>1. \A i \in M.mask \union M.const : i \in 28 .. 31 \/ i \in 20 .. 20 + 4 - 1
        BY <1>9 DEF Headed
      <3> QED
        BY <3>1
    <2>2. \A f \in M.fields : f.word = 0 /\ f.lo >= 32 - 16
      BY <1>4, <1>9 DEF Clear
    <2>3. 16 + 8 * 14 <= 128
      OBVIOUS
    <2> QED
      BY <1>8, <1>9, <2>1, <2>2, <2>3, BytesSound
  <1>11. Headed(L, 5, 20, 4, 9)
    BY <1>8, <1>9 DEF Headed, HeadIs
  <1>12. Reached(L)
    <2> SUFFICES ASSUME NEW w, HeadIs(w, L) PROVE CallbackOf(w) = "on_mds_payload"
      BY <1>8 DEF Reached
    <2>1. TypeOf(w) = 5 /\ Num(Take(w[0], 20, 4)) = 9
      BY <1>11 DEF Headed
    <2> QED
      BY <2>1 DEF CallbackOf, TypeOf, dispatch_data128
  <1>13. Exact(L)
    <2>1. "on_mds_payload" \in DOMAIN Extract /\ Extract["on_mds_payload"] = DataArgs["on_mds_payload"]
      BY <1>1, ExtractOf DEF ArgTables
    <2> QED
      BY <1>5, <1>8, <1>9, <1>10, <2>1 DEF Exact
  <1>14. Grouped(L)
    <2>1. Group \in all
      BY DEF all
    <2> QED
      BY <1>5g, <1>8, <1>9, <2>1 DEF Grouped
  <1> QED
    BY <1>2, <1>10, <1>11, <1>12, <1>13, <1>14 DEF Agrees, Known, L

(* SysEx packets: what they are made of.                                   *)
SysexIs(L, calls, n0, fields, at, room, counts) ==
  /\ L.calls = calls /\ L.mask = MTBits /\ L.const = MT(n0) /\ L.fields = fields
  /\ L.at = at /\ L.room = room /\ L.counts = counts

(* The three layouts that carry bytes after a head of message type, status *)
(* and fields: SysEx7, SysEx8 and Flex text.                               *)
LEMMA SysexLayouts ==
  /\ "sysex7_packet" \in UmpKinds /\ "sysex8_packet" \in UmpKinds /\ "flex_text" \in UmpKinds
  /\ SysexIs(Layouts["sysex7_packet"], "on_sysex7", 3, {Group, Status}, 16, 6, "bytes")
  /\ SysexIs(Layouts["sysex8_packet"], "on_sysex8", 5, {Group, Status, F("stream_id", 8, 0, 8)}, 24, 13,
             "bytes and stream_id")
  /\ SysexIs(Layouts["flex_text"], "on_flex_text", 13,
             FlexAddress \union {Group, F("format", 2, 0, 22), F("bank", 8, 0, 8), F("status", 8, 0, 0)}, 32, 12, "no")
  <1>1. "sysex7_packet" \in DOMAIN DataLayouts /\ "sysex8_packet" \in DOMAIN DataLayouts
        /\ "flex_text" \in DOMAIN FlexTextLayout
    BY Domains
  <1>2. /\ "sysex7_packet" \in UmpKinds /\ Layouts["sysex7_packet"] = DataLayouts["sysex7_packet"]
        /\ "sysex8_packet" \in UmpKinds /\ Layouts["sysex8_packet"] = DataLayouts["sysex8_packet"]
        /\ "flex_text" \in UmpKinds /\ Layouts["flex_text"] = FlexTextLayout["flex_text"]
    BY <1>1, LayoutOf DEF Tables
  <1>3. SysexIs(DataLayouts["sysex7_packet"], "on_sysex7", 3, {Group, Status}, 16, 6, "bytes")
    BY DEF DataLayouts, WithBytes, Msg, SysexIs
  <1>4. SysexIs(DataLayouts["sysex8_packet"], "on_sysex8", 5, {Group, Status, F("stream_id", 8, 0, 8)}, 24, 13,
             "bytes and stream_id")
    <2> DEFINE fields == {Status, F("stream_id", 8, 0, 8)}
    <2>1. DataLayouts["sysex8_packet"] = WithBytes(Data128("on_sysex8", {}, {}, fields), 24, 13, "bytes and stream_id")
      BY DEF DataLayouts
    <2>2. fields \union {Group} = {Group, Status, F("stream_id", 8, 0, 8)}
      OBVIOUS
    <2> HIDE DEF fields
    <2>3. SysexIs(DataLayouts["sysex8_packet"], "on_sysex8", 5, fields \union {Group}, 24, 13, "bytes and stream_id")
      BY <2>1 DEF Data128, WithBytes, Msg, SysexIs
    <2> QED
      BY <2>2, <2>3
  <1>5. SysexIs(FlexTextLayout["flex_text"], "on_flex_text", 13,
             FlexAddress \union {Group, F("format", 2, 0, 22), F("bank", 8, 0, 8), F("status", 8, 0, 0)}, 32, 12, "no")
    BY DEF FlexTextLayout, WithBytes, Msg, SysexIs
  <1> QED
    BY <1>2, <1>3, <1>4, <1>5

(* Below the type nibble, off the count and the bytes.                     *)
InRoom(fields, hi, lo) ==
  \A f \in fields : f.word = 0 /\ (f.lo >= hi \/ (f.lo >= lo /\ f.lo + f.width <= 16)) /\ f.lo + f.width <= 28
SysexFrom(L, calls, n0, fields, at, room, counts) ==
  /\ n0 \in 0 .. 15 /\ at \in {16, 24, 32} /\ room \in 0 .. 14 /\ at + 8 * room <= 128
  /\ SysexIs(L, calls, n0, fields, at, room, counts) /\ Tidy(fields)
  /\ IF counts = "no" THEN InRoom(fields, 32 - at, 32 - at) ELSE InRoom(fields, 20, 32 - at)

(* In such a layout no bit has two owners, and it is known by its message  *)
(* type.                                                                   *)
LEMMA SysexSound ==
  ASSUME NEW L, NEW calls, NEW n0, NEW fields, NEW at, NEW room, NEW counts,
         SysexFrom(L, calls, n0, fields, at, room, counts)
  PROVE  Sound(L) /\ OnlyTyped(L, n0) /\ L.calls = calls /\ L.fields = fields
  <1>0. /\ n0 \in 0 .. 15 /\ at \in {16, 24, 32} /\ room \in 0 .. 14 /\ at + 8 * room <= 128
        /\ SysexIs(L, calls, n0, fields, at, room, counts) /\ Tidy(fields)
        /\ (counts # "no" => InRoom(fields, 20, 32 - at)) /\ (counts = "no" => InRoom(fields, 32 - at, 32 - at))
    BY DEF SysexFrom
  <1> USE <1>0
  <1>1. /\ L.calls = calls /\ L.mask = MTBits /\ L.const = MT(n0) /\ L.fields = fields
        /\ L.at = at /\ L.room = room /\ L.counts = counts
    BY DEF SysexIs
  <1>2. OnlyTyped(L, n0)
    BY <1>1, TypeOnly
  <1>3. /\ \A i : i \in Counted(L) => counts # "no" /\ i \in 16 .. 19
        /\ \A i : i \in TailBits(L) => i \in 0 .. 31 - at
    BY <1>1 DEF Counted, TailBits
  <1>4. ASSUME NEW f \in fields, NEW i \in Span(f)
        PROVE  f.word = 0 /\ i \notin 28 .. 31 /\ (counts # "no" => i \notin 16 .. 19) /\ i \notin 0 .. 31 - at
    <2> DEFINE lo == f.lo
               k == f.width
    <2>1. lo \in Nat /\ k \in Nat /\ i \in lo .. lo + k - 1 /\ f.word = 0 /\ lo + k <= 28
      BY <1>4 DEF Tidy, PieceType, Span, InRoom
    <2>2. \/ counts # "no" /\ (lo >= 20 \/ (lo >= 32 - at /\ lo + k <= 16))
          \/ counts = "no" /\ lo >= 32 - at
      <3>1. 32 - at \in Nat
        OBVIOUS
      <3> QED
        BY <2>1, <3>1 DEF InRoom
    <2> HIDE DEF lo, k
    <2>3. i \notin 28 .. 31 /\ i \notin 0 .. 31 - at
      BY <2>1, <2>2
    <2>4. counts # "no" => i \notin 16 .. 19
      BY <2>1, <2>2
    <2> QED
      BY <2>1, <2>3, <2>4
  <1>4b. \A f \in fields : f.word = 0
    BY DEF InRoom
  <1>5. \A i \in L.mask \union L.const : i \in 28 .. 31
    BY <1>2 DEF OnlyTyped
  <1>6. \A i \in 28 .. 31 : i \notin 16 .. 19 /\ i \notin 0 .. 31 - at
    OBVIOUS
  <1>7. at \in {0, 16, 24, 32}
    OBVIOUS
  <1>8. \A f \in L.fields : f.word = 0 /\ \A i \in Span(f) : i \notin L.mask \union L.const \union Counted(L) \union TailBits(L)
    <2> SUFFICES ASSUME NEW f \in fields
                 PROVE  f.word = 0 /\ \A i \in Span(f) : i \notin L.mask \union L.const \union Counted(L) \union TailBits(L)
      BY <1>1
    <2>1. \A i \in Span(f) : i \notin 28 .. 31 /\ (counts # "no" => i \notin 16 .. 19) /\ i \notin 0 .. 31 - at
      BY <1>4
    <2>2. f.word = 0
      BY <1>4b
    <2> QED
      BY <2>1, <2>2, <1>3, <1>5
  <1>9. \A i \in L.mask \union L.const : i \notin Counted(L) \union TailBits(L)
    BY <1>3, <1>5, <1>6
  <1>10. L.room # 0 => L.at # 0 /\ L.at + 8 * L.room <= 128
    BY <1>1
  <1>11. Sound(L)
    BY <1>1, <1>7, <1>8, <1>9, <1>10 DEF Sound
  <1> QED
    BY <1>1, <1>2, <1>11

Text13 == FlexAddress \union {Group, F("format", 2, 0, 22), F("bank", 8, 0, 8), F("status", 8, 0, 0)}
(* What packets and Flex text are made of and how they are recognized.     *)
PacketKnown(kind, calls, n0) ==
  LET L == Layouts[kind] IN
  kind \in UmpKinds /\ Sound(L) /\ OnlyTyped(L, n0) /\ L.calls = calls /\ Exact(L) /\ Grouped(L)
PacketFrom(kind, calls, n0, fields, at, room, counts, t) ==
  /\ kind \in UmpKinds /\ SysexFrom(Layouts[kind], calls, n0, fields, at, room, counts)
  /\ Group \in fields /\ \A f \in fields : f.arg = "group" => f = Group
  /\ t \in ArgTables /\ calls \in DOMAIN t /\ t[calls] = fields /\ calls # "on_clip"

(* One of those layouts, and the table of arguments that its callback      *)
(* reads.                                                                  *)
LEMMA PacketOf ==
  ASSUME NEW kind, NEW calls, NEW n0, NEW fields, NEW at, NEW room, NEW counts, NEW t,
         PacketFrom(kind, calls, n0, fields, at, room, counts, t)
  PROVE  PacketKnown(kind, calls, n0)
  <1> DEFINE L == Layouts[kind]
  <1>1. SysexFrom(L, calls, n0, fields, at, room, counts) /\ kind \in UmpKinds
    BY DEF PacketFrom
  <1> HIDE DEF L
  <1>2. Sound(L) /\ OnlyTyped(L, n0) /\ L.calls = calls /\ L.fields = fields
    BY <1>1, SysexSound
  <1>3. t \in ArgTables /\ calls \in DOMAIN t /\ t[calls] = fields /\ calls # "on_clip"
    BY DEF PacketFrom
  <1>4. calls \in DOMAIN Extract /\ Extract[calls] = fields
    BY <1>3, ExtractOf
  <1>5. Exact(L)
    BY <1>2, <1>3, <1>4 DEF Exact
  <1>6. Grouped(L)
    BY <1>2 DEF Grouped, PacketFrom
  <1> QED
    BY <1>1, <1>2, <1>5, <1>6 DEF L, PacketKnown

(* All three of those layouts.                                             *)
LEMMA PacketsKnown ==
  /\ PacketKnown("sysex7_packet", "on_sysex7", 3)
  /\ PacketKnown("sysex8_packet", "on_sysex8", 5)
  /\ PacketKnown("flex_text", "on_flex_text", 13)
  <1>2. /\ "on_sysex7" \in DOMAIN DataArgs /\ "on_sysex8" \in DOMAIN DataArgs /\ "on_flex_text" \in DOMAIN FlexArgs
        /\ DataArgs \in ArgTables /\ FlexArgs \in ArgTables
    BY ArgDomains DEF DataNames, FlexNames, ArgTables
  <1> USE DEF Tidy, PieceType, Apart, InRoom, Group, Status, F, Piece
  <1>3. PacketKnown("sysex7_packet", "on_sysex7", 3)
    <2> DEFINE fields == {Group, Status}
    <2>1. Tidy(fields) /\ InRoom(fields, 20, 16) /\ Group \in fields /\ \A f \in fields : f.arg = "group" => f = Group
      OBVIOUS
    <2>2. DataArgs["on_sysex7"] = fields
      BY DEF DataArgs
    <2>3. "sysex7_packet" \in UmpKinds /\ SysexIs(Layouts["sysex7_packet"], "on_sysex7", 3, fields, 16, 6, "bytes")
      BY SysexLayouts
    <2> HIDE DEF fields, Tidy, PieceType, Apart, InRoom, Group, Status, F, Piece
    <2>4. SysexFrom(Layouts["sysex7_packet"], "on_sysex7", 3, fields, 16, 6, "bytes")
      <3>1. 16 + 8 * 6 <= 128 /\ 32 - 16 = 16 /\ 3 \in 0 .. 15 /\ 6 \in 0 .. 14
        OBVIOUS
      <3> QED
        BY <2>1, <2>3, <3>1 DEF SysexFrom
    <2>5. PacketFrom("sysex7_packet", "on_sysex7", 3, fields, 16, 6, "bytes", DataArgs)
      BY <1>2, <2>1, <2>2, <2>3, <2>4 DEF PacketFrom
    <2> QED
      BY <2>5, PacketOf
  <1>4. PacketKnown("sysex8_packet", "on_sysex8", 5)
    <2> DEFINE fields == {Group, Status, F("stream_id", 8, 0, 8)}
    <2>1. Tidy(fields) /\ InRoom(fields, 20, 8) /\ Group \in fields /\ \A f \in fields : f.arg = "group" => f = Group
      OBVIOUS
    <2>2. DataArgs["on_sysex8"] = fields
      BY DEF DataArgs
    <2>3. /\ "sysex8_packet" \in UmpKinds
          /\ SysexIs(Layouts["sysex8_packet"], "on_sysex8", 5, fields, 24, 13, "bytes and stream_id")
      BY SysexLayouts
    <2> HIDE DEF fields, Tidy, PieceType, Apart, InRoom, Group, Status, F, Piece
    <2>4. SysexFrom(Layouts["sysex8_packet"], "on_sysex8", 5, fields, 24, 13, "bytes and stream_id")
      <3>1. 24 + 8 * 13 <= 128 /\ 32 - 24 = 8 /\ 5 \in 0 .. 15 /\ 13 \in 0 .. 14
        OBVIOUS
      <3> QED
        BY <2>1, <2>3, <3>1 DEF SysexFrom
    <2>5. PacketFrom("sysex8_packet", "on_sysex8", 5, fields, 24, 13, "bytes and stream_id", DataArgs)
      BY <1>2, <2>1, <2>2, <2>3, <2>4 DEF PacketFrom
    <2> QED
      BY <2>5, PacketOf
  <1>5. PacketKnown("flex_text", "on_flex_text", 13)
    <2> DEFINE fields == Text13
    <2>1. Tidy(fields) /\ InRoom(fields, 0, 0) /\ Group \in fields /\ \A f \in fields : f.arg = "group" => f = Group
      BY DEF Text13, FlexAddress
    <2>2. FlexArgs["on_flex_text"] = fields
      BY DEF FlexArgs, Text13
    <2>3. "flex_text" \in UmpKinds /\ SysexIs(Layouts["flex_text"], "on_flex_text", 13, fields, 32, 12, "no")
      BY SysexLayouts DEF Text13
    <2> HIDE DEF fields, Tidy, PieceType, Apart, InRoom, Group, Status, F, Piece
    <2>4. PacketFrom("flex_text", "on_flex_text", 13, fields, 32, 12, "no", FlexArgs)
      BY <1>2, <2>1, <2>2, <2>3 DEF PacketFrom, SysexFrom
    <2> QED
      BY <2>4, PacketOf
  <1> QED
    BY <1>3, <1>4, <1>5

(* Every kind of message is one of these.                                  *)
Packets3 == {"sysex7_packet", "sysex8_packet", "flex_text"}

(* Every kind of message belongs to one of the families above.             *)
LEMMA EveryKind ==
  ASSUME NEW kind \in UmpKinds
  PROVE  \/ kind \in DOMAIN VoiceNumber \/ kind \in DOMAIN CvOneNumber \/ kind \in DOMAIN UtilityNumber
         \/ kind \in DOMAIN SystemStatus \/ kind \in DOMAIN AnySystemData \/ kind \in DOMAIN FlexNumber
         \/ kind \in DOMAIN StreamNumber \/ kind \in {"mds_header", "mds_payload"} \/ kind \in Packets3
  <1>1. DOMAIN VoiceNumber = DOMAIN VoiceLayouts \union DOMAIN ProgramLayout \union DOMAIN PerNoteLayouts
    BY Domains DEF VoiceNumber
  <1>2. DOMAIN CvOneNumber = DOMAIN from_midi1 /\ DOMAIN UtilityNumber = DOMAIN UtilityLayouts
    BY Domains DEF CvOneNumber, UtilityNumber
  <1>3. DOMAIN SystemStatus \union DOMAIN AnySystemData = DOMAIN SystemLayouts
    BY Domains DEF SystemStatus, AnySystemData
  <1>4. DOMAIN FlexNumber = DOMAIN FlexLayouts \union DOMAIN ChordLayout
    BY Domains DEF FlexNumber
  <1>5. DOMAIN StreamNumber = DOMAIN EndpointLayouts \union DOMAIN BlockLayouts \union DOMAIN StreamTextLayouts
    BY Domains DEF StreamNumber
  <1>6. {"mds_header", "mds_payload"} \union Packets3 = DOMAIN DataLayouts \union DOMAIN FlexTextLayout
    BY Domains DEF Packets3
  <1>7. PICK t \in Tables : kind \in DOMAIN t
    BY LayoutOf
  <1> QED
    BY <1>1, <1>2, <1>3, <1>4, <1>5, <1>6, <1>7 DEF Tables

(* The header of a message of a kind, and what Flex text and packets have  *)
(* besides: one of two banks, one of four statuses.                        *)
FitsIn(w, kind) ==
  /\ HeadIs(w, Layouts[kind])
  /\ kind = "flex_text" => Num(Take(w[0], 8, 8)) \in {1, 2}
  /\ kind \in {"sysex7_packet", "sysex8_packet"} => Num(Take(w[0], 20, 4)) \in 0 .. 3

(* The fields of every message leave its header alone.                     *)
LEMMA EverySound ==
  ASSUME NEW kind \in UmpKinds
  PROVE  Sound(Layouts[kind])
  <1>1. CASE kind \in DOMAIN VoiceNumber
    BY <1>1, Cv2AllAgree DEF Voiced, Agrees, Known
  <1>2. CASE kind \in DOMAIN CvOneNumber
    BY <1>2, CvOneAllKnown DEF Known
  <1>3. CASE kind \in DOMAIN UtilityNumber
    BY <1>3, UtilityAllAgree DEF Agrees, Known
  <1>4. CASE kind \in DOMAIN SystemStatus
    BY <1>4, SystemAllKnown DEF Known
  <1>5. CASE kind \in DOMAIN AnySystemData
    BY <1>5, AnySystemAllKnown
  <1>6. CASE kind \in DOMAIN FlexNumber
    BY <1>6, FlexAllKnown DEF FlexAll
  <1>7. CASE kind \in DOMAIN StreamNumber
    BY <1>7, StreamAllKnown DEF StreamAll, Known
  <1>8. CASE kind \in {"mds_header", "mds_payload"}
    BY <1>8, MdsHeaderAgrees, MdsPayloadAgrees DEF Agrees, Known
  <1>9. CASE kind \in Packets3
    BY <1>9, PacketsKnown DEF PacketKnown, Packets3
  <1> QED
    BY <1>1, <1>2, <1>3, <1>4, <1>5, <1>6, <1>7, <1>8, <1>9, EveryKind

(* A word with the header of a kind reaches the callback of that kind.     *)
LEMMA FitCalls ==
  ASSUME NEW kind \in UmpKinds, NEW w, FitsIn(w, kind)
  PROVE  CallbackOf(w) = Layouts[kind].calls
  <1> DEFINE L == Layouts[kind]
  <1>0. HeadIs(w, L)
    BY DEF FitsIn
  <1>r. Reached(L) => CallbackOf(w) = L.calls
    BY <1>0 DEF Reached
  <1>1. CASE kind \in DOMAIN VoiceNumber
    BY <1>1, <1>r, Cv2AllAgree DEF Voiced, Agrees, Known
  <1>2. CASE kind \in DOMAIN CvOneNumber
    BY <1>2, <1>r, CvOneAllKnown DEF Known
  <1>3. CASE kind \in DOMAIN UtilityNumber
    BY <1>3, <1>r, UtilityAllAgree DEF Agrees, Known
  <1>4. CASE kind \in DOMAIN SystemStatus
    BY <1>4, <1>r, SystemAllKnown DEF Known
  <1>5. CASE kind \in DOMAIN AnySystemData
    BY <1>5, <1>r, AnySystemAllKnown
  <1>6. CASE kind \in DOMAIN FlexNumber
    BY <1>6, <1>r, FlexAllKnown DEF FlexAll
  <1>7. CASE kind \in DOMAIN StreamNumber
    BY <1>7, <1>r, StreamAllKnown DEF StreamAll, Known
  <1>8. CASE kind \in {"mds_header", "mds_payload"}
    BY <1>8, <1>r, MdsHeaderAgrees, MdsPayloadAgrees DEF Agrees, Known
  <1>9. CASE kind = "sysex7_packet"
    <2>1. OnlyTyped(L, 3) /\ L.calls = "on_sysex7"
      BY <1>9, PacketsKnown DEF PacketKnown
    <2>2. TypeOf(w) = 3
      BY <1>0, <2>1 DEF OnlyTyped
    <2> QED
      BY <2>1, <2>2 DEF CallbackOf, TypeOf, dispatch_sysex7
  <1>10. CASE kind = "sysex8_packet"
    <2>1. OnlyTyped(L, 5) /\ L.calls = "on_sysex8"
      BY <1>10, PacketsKnown DEF PacketKnown
    <2>2. TypeOf(w) = 5
      BY <1>0, <2>1 DEF OnlyTyped
    <2>3. Num(Take(w[0], 20, 4)) \in 0 .. 3
      BY <1>10 DEF FitsIn
    <2>4. Num(Take(w[0], 20, 4)) # 8 /\ Num(Take(w[0], 20, 4)) # 9
      BY <2>3
    <2> QED
      BY <2>1, <2>2, <2>4 DEF CallbackOf, TypeOf, dispatch_data128
  <1>11. CASE kind = "flex_text"
    <2>1. OnlyTyped(L, 13) /\ L.calls = "on_flex_text"
      BY <1>11, PacketsKnown DEF PacketKnown
    <2>2. TypeOf(w) = 13
      BY <1>0, <2>1 DEF OnlyTyped
    <2>3. Num(Take(w[0], 8, 8)) \in {1, 2}
      BY <1>11 DEF FitsIn
    <2> QED
      BY <2>1, <2>2, <2>3 DEF CallbackOf, TypeOf, dispatch_flex
  <1> QED
    BY <1>1, <1>2, <1>3, <1>4, <1>5, <1>6, <1>7, <1>8, <1>9, <1>10, <1>11, EveryKind DEF Packets3

(* A switch with no branch for a value selects no callback.                *)
LEMMA SwitchKnows ==
  ASSUME NEW t, NEW b, At(t, b) # "on_unknown"
  PROVE  \E c \in t : c[1] = Num(b)
  BY DEF At
(* A word has the header of a kind when it has its type and number.        *)
NumberOf(kind, n0, lo, k, n) == kind \in UmpKinds \ Packets3 /\ Headed(Layouts[kind], n0, lo, k, n)

(* A word that shows the message type and the number of a kind fits that   *)
(* kind.                                                                   *)
LEMMA FitsByNumber ==
  ASSUME NEW w, NEW kind, NEW n0, NEW lo, NEW k, NEW n, NumberOf(kind, n0, lo, k, n),
         TypeOf(w) = n0, Num(Take(w[0], lo, k)) = n
  PROVE  \E j \in UmpKinds : FitsIn(w, j)
  <1>1. HeadIs(w, Layouts[kind])
    BY DEF NumberOf, Headed
  <1>2. FitsIn(w, kind)
    BY <1>1 DEF FitsIn, NumberOf, Packets3
  <1> QED
    BY <1>2 DEF NumberOf

(* Every word of a typed callback has the header of a message, or is a     *)
(* SysEx packet.                                                           *)
LEMMA CallFits ==
  ASSUME NEW w, CallbackOf(w) # "on_unknown"
  PROVE  \/ \E kind \in UmpKinds : FitsIn(w, kind)
         \/ TypeOf(w) = 3 /\ CallbackOf(w) = "on_sysex7"
         \/ TypeOf(w) = 5 /\ CallbackOf(w) = "on_sysex8"
  <1>1. CASE TypeOf(w) = 0
    <2> DEFINE b == Take(w[0], 20, 4)
    <2>1. CallbackOf(w) = At(UtilityCalls, b)
      BY <1>1 DEF CallbackOf, TypeOf, dispatch_utility
    <2>2. PICK c \in UtilityCalls : c[1] = Num(b)
      BY <2>1, SwitchKnows
    <2>3. Num(b) \in {0, 1, 2, 3, 4}
      BY <2>2 DEF UtilityCalls
    <2>4. \A n \in {0, 1, 2, 3, 4} : \E kind \in DOMAIN UtilityNumber : UtilityNumber[kind] = n
      BY DEF UtilityNumber
    <2>5. PICK kind \in DOMAIN UtilityNumber : UtilityNumber[kind] = Num(b)
      BY <2>3, <2>4
    <2>6. kind \notin Packets3
      BY <2>5 DEF UtilityNumber, Packets3
    <2>7. NumberOf(kind, 0, 20, 4, Num(b))
      BY <2>5, <2>6, UtilityAllAgree DEF Agrees, Known, NumberOf
    <2> QED
      BY <1>1, <2>7, FitsByNumber
  <1>2. CASE TypeOf(w) = 1
    <2>1. "system" \in UmpKinds /\ OnlyTyped(Layouts["system"], 1)
      BY AnySystemAllKnown DEF AnySystemData
    <2>2. FitsIn(w, "system")
      BY <1>2, <2>1 DEF OnlyTyped, FitsIn
    <2> QED
      BY <2>1, <2>2
  <1>3. CASE TypeOf(w) = 2
    <2> DEFINE b == Take(w[0], 20, 4)
    <2>1. CallbackOf(w) = At(Cv1Calls, b)
      BY <1>3 DEF CallbackOf, TypeOf, dispatch_cv1
    <2>2. PICK c \in Cv1Calls : c[1] = Num(b)
      BY <2>1, SwitchKnows
    <2>3. Num(b) \in {8, 9, 10, 11, 12, 13, 14}
      BY <2>2 DEF Cv1Calls
    <2>4. \A n \in {8, 9, 10, 11, 12, 13, 14} : \E kind \in DOMAIN CvOneNumber : CvOneNumber[kind] = n
      BY DEF CvOneNumber
    <2>5. PICK kind \in DOMAIN CvOneNumber : CvOneNumber[kind] = Num(b)
      BY <2>3, <2>4
    <2>6. kind \notin Packets3
      BY <2>5 DEF CvOneNumber, Packets3
    <2>7. NumberOf(kind, 2, 20, 4, Num(b))
      BY <2>5, <2>6, CvOneAllKnown DEF Known, NumberOf
    <2> QED
      BY <1>3, <2>7, FitsByNumber
  <1>4. CASE TypeOf(w) = 3
    BY <1>4 DEF CallbackOf, TypeOf, dispatch_sysex7
  <1>5. CASE TypeOf(w) = 4
    <2> DEFINE b == Take(w[0], 20, 4)
               S == {0, 1, 2, 3, 4, 5, 6, 8, 9, 10, 11, 12, 13, 14, 15}
    <2>1. CallbackOf(w) = At(Cv2Calls, b)
      BY <1>5 DEF CallbackOf, TypeOf, dispatch_cv2
    <2>2. PICK c \in Cv2Calls : c[1] = Num(b)
      BY <2>1, SwitchKnows
    <2>3. Num(b) \in S
      BY <2>2 DEF Cv2Calls
    <2>4. \A n \in S : \E kind \in DOMAIN VoiceNumber : VoiceNumber[kind] = n
      BY DEF VoiceNumber
    <2>5. PICK kind \in DOMAIN VoiceNumber : VoiceNumber[kind] = Num(b)
      BY <2>3, <2>4
    <2>6. kind \notin Packets3
      BY <2>5 DEF VoiceNumber, Packets3
    <2>7. NumberOf(kind, 4, 20, 4, Num(b))
      BY <2>5, <2>6, Cv2AllAgree DEF Voiced, Agrees, Known, NumberOf
    <2> QED
      BY <1>5, <2>7, FitsByNumber
  <1>6. CASE TypeOf(w) = 5
    <2> DEFINE b == Take(w[0], 20, 4)
    <2>1. CASE Num(b) = 8
      <3>1. NumberOf("mds_header", 5, 20, 4, 8)
        BY MdsHeaderAgrees DEF Agrees, Known, NumberOf, Packets3
      <3> QED
        BY <1>6, <2>1, <3>1, FitsByNumber
    <2>2. CASE Num(b) = 9
      <3>1. NumberOf("mds_payload", 5, 20, 4, 9)
        BY MdsPayloadAgrees DEF Agrees, Known, NumberOf, Packets3
      <3> QED
        BY <1>6, <2>2, <3>1, FitsByNumber
    <2>3. CASE Num(b) # 8 /\ Num(b) # 9
      BY <1>6, <2>3 DEF CallbackOf, TypeOf, dispatch_data128
    <2> QED
      BY <2>1, <2>2, <2>3
  <1>7. CASE TypeOf(w) = 13
    <2> DEFINE b == Take(w[0], 0, 8)
               bank == Num(Take(w[0], 8, 8))
               S == {0, 1, 2, 5, 6}
    <2>1. CallbackOf(w) = IF bank = 0 THEN At(SetupCalls, b) ELSE IF bank \in {1, 2} THEN "on_flex_text" ELSE "on_unknown"
      BY <1>7 DEF CallbackOf, TypeOf, dispatch_flex
    <2>2. CASE bank \in {1, 2}
      <3>1. "flex_text" \in UmpKinds /\ OnlyTyped(Layouts["flex_text"], 13)
        BY PacketsKnown DEF PacketKnown
      <3>2. FitsIn(w, "flex_text")
        BY <1>7, <2>2, <3>1 DEF OnlyTyped, FitsIn
      <3> QED
        BY <3>1, <3>2
    <2>3. CASE bank = 0
      <3>1. PICK c \in SetupCalls : c[1] = Num(b)
        BY <2>1, <2>3, SwitchKnows
      <3>2. Num(b) \in S
        BY <3>1 DEF SetupCalls
      <3>3. \A n \in S : \E kind \in DOMAIN FlexNumber : FlexNumber[kind] = n
        BY DEF FlexNumber
      <3>4. PICK kind \in DOMAIN FlexNumber : FlexNumber[kind] = Num(b)
        BY <3>2, <3>3
      <3>5. kind \notin Packets3
        BY <3>4 DEF FlexNumber, Packets3
      <3>6. kind \in UmpKinds /\ FlexHead(Layouts[kind], Num(b))
        BY <3>4, FlexAllKnown DEF FlexAll
      <3>7. HeadIs(w, Layouts[kind])
        BY <1>7, <2>3, <3>6 DEF FlexHead
      <3>8. FitsIn(w, kind)
        BY <3>5, <3>7 DEF FitsIn, Packets3
      <3> QED
        BY <3>6, <3>8
    <2> QED
      BY <2>1, <2>2, <2>3
  <1>8. CASE TypeOf(w) = 15
    <2> DEFINE b == Take(w[0], 16, 10)
               S == {0, 1, 2, 3, 4, 5, 6, 16, 17, 18, 32, 33}
    <2>1. CallbackOf(w) = At(StreamCalls, b)
      BY <1>8 DEF CallbackOf, TypeOf, dispatch_stream
    <2>2. PICK c \in StreamCalls : c[1] = Num(b)
      BY <2>1, SwitchKnows
    <2>3. Num(b) \in S
      BY <2>2 DEF StreamCalls
    <2>4. \A n \in S : \E kind \in DOMAIN StreamNumber : StreamNumber[kind] = n
      BY DEF StreamNumber
    <2>5. PICK kind \in DOMAIN StreamNumber : StreamNumber[kind] = Num(b)
      BY <2>3, <2>4
    <2>6. kind \notin Packets3
      BY <2>5 DEF StreamNumber, Packets3
    <2>7. NumberOf(kind, 15, 16, 10, Num(b))
      BY <2>5, <2>6, StreamAllKnown DEF StreamAll, Known, NumberOf
    <2> QED
      BY <1>8, <2>7, FitsByNumber
  <1>9. CASE TypeOf(w) \notin {0, 1, 2, 3, 4, 5, 13, 15}
    BY <1>9 DEF CallbackOf, TypeOf
  <1> QED
    BY <1>1, <1>2, <1>3, <1>4, <1>5, <1>6, <1>7, <1>8, <1>9

(* What a builder makes has the header of its kind, if Flex text is given  *)
(* one of its banks and a packet one of the four statuses.                 *)
Usable(m) ==
  /\ m.kind \in UmpKinds /\ m.data \in Seq(Bytes8)
  /\ m.kind = "flex_text" => Num(m.args.bank \intersect 0 .. 7) \in {1, 2}
  /\ m.kind \in {"sysex7_packet", "sysex8_packet"} => m.args.status \subseteq 4 .. 5

(* Two bits make a number below four.                                      *)
LEMMA TwoBits ==
  ASSUME NEW b, b \subseteq {0, 1}
  PROVE  Num(b) \in 0 .. 3
  <1>1. b \in SUBSET (0 .. 9)
    BY SMT
  <1>2. Num(b) = TenBits(b)
    BY <1>1, TenRead
  <1>3. \A k \in 2 .. 9 : k \notin b
    OBVIOUS
  <1>4. /\ \A n : Weight(b, 9, n) = 0 /\ Weight(b, 8, n) = 0 /\ Weight(b, 7, n) = 0 /\ Weight(b, 6, n) = 0
        /\ \A n : Weight(b, 5, n) = 0 /\ Weight(b, 4, n) = 0 /\ Weight(b, 3, n) = 0 /\ Weight(b, 2, n) = 0
    BY <1>3 DEF Weight
  <1>5. Weight(b, 1, 2) \in {0, 2} /\ Weight(b, 0, 1) \in {0, 1}
    BY DEF Weight
  <1>6. TenBits(b) = Weight(b, 1, 2) + Weight(b, 0, 1)
    BY <1>4, <1>5 DEF TenBits
  <1> QED
    BY <1>2, <1>5, <1>6

(* A message that the builder is given as it should has its header.        *)
LEMMA BuiltFits ==
  ASSUME NEW m, Usable(m)
  PROVE  FitsIn(Build(m), m.kind)
  <1> DEFINE L == Layouts[m.kind]
             w == Build(m)
  <1>0. m.kind \in UmpKinds /\ m.data \in Seq(Bytes8) /\ Sound(L)
    BY EverySound DEF Usable
  <1>1. HeadIs(w, L)
    BY <1>0, MaskRead DEF HeadIs
  <1>2. ASSUME m.kind = "flex_text" PROVE Num(Take(w[0], 8, 8)) \in {1, 2}
    <2> DEFINE f == F("bank", 8, 0, 8)
    <2>1. L.fields = Text13 /\ f \in Text13
      BY <1>2, SysexLayouts DEF SysexIs, Text13
    <2>2. f \in Written(m.kind, m.args)
      BY <1>0, <1>2, <2>1, WrittenFields
    <2>3. \A i \in Span(f) : i \in w[0] <=> 0 + (i - 8) \in m.args["bank"]
      <3>1. f.word = 0 /\ f.from = 0 /\ f.lo = 8 /\ f.arg = "bank"
        BY DEF F, Piece
      <3> HIDE DEF f, w
      <3>2. \A i \in Span(f) : i \in Build(m)[f.word] <=> f.from + (i - f.lo) \in m.args[f.arg]
        BY <1>0, <2>2, FieldRead
      <3> QED
        BY <3>1, <3>2 DEF w
    <2>4. Span(f) = 8 .. 15
      <3>1. f.lo = 8 /\ f.width = 8
        BY DEF F, Piece
      <3> HIDE DEF f
      <3> QED
        BY <3>1 DEF Span
    <2>5. \A j \in 0 .. 8 - 1 : 8 + j \in w[0] <=> j \in m.args["bank"]
      <3> SUFFICES ASSUME NEW j \in 0 .. 7 PROVE 8 + j \in w[0] <=> j \in m.args["bank"]
        OBVIOUS
      <3>1. 8 + j \in 8 .. 15 /\ 0 + ((8 + j) - 8) = j
        OBVIOUS
      <3> HIDE DEF f, w
      <3> QED
        BY <2>3, <2>4, <3>1
    <2> HIDE DEF w
    <2>6. Take(w[0], 8, 8) = m.args["bank"] \intersect 0 .. 7
      BY <2>5 DEF Take
    <2> QED
      BY <1>2, <2>6 DEF Usable
  <1>3. ASSUME m.kind \in {"sysex7_packet", "sysex8_packet"} PROVE Num(Take(w[0], 20, 4)) \in 0 .. 3
    <2> DEFINE f == Status
    <2>1. f \in L.fields
      BY <1>3, SysexLayouts DEF SysexIs
    <2>2. f \in Written(m.kind, m.args)
      BY <1>0, <1>3, <2>1, WrittenFields
    <2>3. f.word = 0 /\ f.from = 4 /\ f.lo = 20 /\ f.arg = "status" /\ f.width = 4
      BY DEF Status, Piece
    <2> HIDE DEF f, w
    <2>4. \A i \in Span(f) : i \in Build(m)[f.word] <=> f.from + (i - f.lo) \in m.args[f.arg]
      BY <1>0, <2>2, FieldRead
    <2>5. \A i \in 20 .. 23 : i \in w[0] <=> 4 + (i - 20) \in m.args["status"]
      BY <2>3, <2>4 DEF w, Span
    <2>6. \A x \in m.args["status"] : x \in 4 .. 5
      BY <1>3 DEF Usable
    <2>7. \A j \in 0 .. 4 - 1 : 20 + j \in w[0] => j \in {0, 1}
      <3> SUFFICES ASSUME NEW j \in 0 .. 3, 20 + j \in w[0] PROVE j \in {0, 1}
        OBVIOUS
      <3>1. 20 + j \in 20 .. 23 /\ 4 + ((20 + j) - 20) = 4 + j
        OBVIOUS
      <3>2. 4 + j \in m.args["status"]
        BY <2>5, <3>1
      <3> QED
        BY <2>6, <3>2
    <2>8. Take(w[0], 20, 4) \subseteq {0, 1}
      BY <2>7 DEF Take
    <2> QED
      BY <2>8, TwoBits
  <1> QED
    BY <1>1, <1>2, <1>3 DEF FitsIn

-----------------------------------------------------------------------------
(* What the callback is told of an argument of a message, as Expected says *)
(* it of the message that was sent.                                        *)
Meant(m, a) ==
  LET L == Layouts[m.kind]
      v == m.args[a] \intersect RangeOf(L.fields, a)
  IN  IF a \notin ArgsOf(L.fields) THEN (IF a \in DOMAIN L.says THEN L.says[a] ELSE {})
      ELSE IF a \in Signed THEN sign_extend_4(v) ELSE v
ExpectedOf(m, a) ==
  CASE m.kind = "system_song_position" /\ a = "data1" -> Take(m.args.position, 0, 7)
    [] m.kind = "system_song_position" /\ a = "data2" -> Take(m.args.position, 7, 7)
    [] m.kind = "cv1_pitch_bend" /\ a = "value" ->
         Take(m.args.data1, 0, 7) \union Put(Take(m.args.data2, 0, 7), 7)
    [] m.kind = "program" /\ a \in {"bank_msb", "bank_lsb"} ->
         IF m.args.bank_valid = {} THEN {} ELSE m.args[a] \intersect RangeOf(Layouts[m.kind].fields, a)
    [] OTHER -> Meant(m, a)

(* What the caller of the builder expects to be told, as an operator of    *)
(* the message.                                                            *)
LEMMA SentExpected == \A a : Expected(a) = ExpectedOf(sent, a)
  BY DEF Expected, ExpectedOf, Meant, Layout

(* What the callback of a message is told: an argument as it was read.     *)
Told(m) ==
  LET c == Call(Layouts[m.kind].calls, Build(m)) IN
  \A a \in DOMAIN c.args : c.args[a] = ExpectedOf(m, a)

(* A message is told when the reader of its callback unpacks the expected  *)
(* value of every argument.                                                *)
LEMMA ToldBy ==
  ASSUME NEW m, Layouts[m.kind].calls # "on_clip",
         \A a \in ArgsOf(Extract[Layouts[m.kind].calls]) :
            LET v == Unpacked(Extract[Layouts[m.kind].calls], Build(m), a)
            IN  (IF a \in Signed THEN sign_extend_4(v) ELSE v) = ExpectedOf(m, a)
  PROVE  Told(m)
  BY DEF Told, Call, Read

(* An argument that is read exactly as it is written.                      *)
LEMMA ExactMeant ==
  ASSUME NEW m, m.data \in Seq(Bytes8), Sound(Layouts[m.kind]), NEW told, NEW a \in ArgsOf(told),
         SamePieces(Layouts[m.kind], told, a), Pieces(told, a) \subseteq Written(m.kind, m.args)
  PROVE  LET v == Unpacked(told, Build(m), a) IN (IF a \in Signed THEN sign_extend_4(v) ELSE v) = Meant(m, a)
  <1>1. Unpacked(told, Build(m), a) = m.args[a] \intersect RangeOf(Layouts[m.kind].fields, a)
    BY ExactRead
  <1>2. a \in ArgsOf(Layouts[m.kind].fields)
    BY DEF SamePieces, ArgsOf, Pieces
  <1> QED
    BY <1>1, <1>2 DEF Meant

(* A callback that reads what the builder writes is told what was given.   *)
Special == {"system_song_position", "cv1_pitch_bend", "program"}

(* A layout that is read with the very fields it was written with is told, *)
(* but for the special kinds.                                              *)
LEMMA ExactTold ==
  ASSUME NEW m, m.data \in Seq(Bytes8), m.kind \notin Special, Exact(Layouts[m.kind])
  PROVE  Told(m)
  <1> DEFINE L == Layouts[m.kind]
             told == Extract[L.calls]
  <1>1. Sound(L) /\ told = L.fields /\ L.calls # "on_clip"
    BY DEF Exact
  <1>2. Written(m.kind, m.args) = L.fields
    BY <1>1, WrittenFields DEF Special
  <1>3. \A a : ExpectedOf(m, a) = Meant(m, a)
    BY DEF ExpectedOf, Special
  <1>4. ASSUME NEW a \in ArgsOf(told)
        PROVE  LET v == Unpacked(told, Build(m), a) IN (IF a \in Signed THEN sign_extend_4(v) ELSE v) = Meant(m, a)
    <2>1. SamePieces(L, told, a) /\ Pieces(told, a) \subseteq Written(m.kind, m.args)
      BY <1>1, <1>2 DEF SamePieces, Pieces
    <2> HIDE DEF told
    <2> QED
      BY <1>1, <2>1, ExactMeant
  <1> QED
    BY <1>1, <1>3, <1>4, ToldBy

(* What the callback is told of an argument is what it should be told.     *)
AsMeant(m, told, a) ==
  LET v == Unpacked(told, Build(m), a) IN (IF a \in Signed THEN sign_extend_4(v) ELSE v) = ExpectedOf(m, a)
Sent(m) == m.data \in Seq(Bytes8) /\ m.kind \in UmpKinds
(* It is when it is read where it was written ...                          *)
Whole(m, told, a) ==
  /\ a \in ArgsOf(told) /\ SamePieces(Layouts[m.kind], told, a) /\ Pieces(told, a) \subseteq Written(m.kind, m.args)
  /\ ExpectedOf(m, a) = Meant(m, a)

(* An argument whose pieces are the same for the reader and the builder is *)
(* read as it was meant.                                                   *)
LEMMA WholeMeant ==
  ASSUME NEW m, Sent(m), NEW told, NEW a, Whole(m, told, a)
  PROVE  AsMeant(m, told, a)
  <1>1. m.data \in Seq(Bytes8) /\ Sound(Layouts[m.kind])
    BY EverySound DEF Sent
  <1>2. /\ a \in ArgsOf(told) /\ SamePieces(Layouts[m.kind], told, a)
        /\ Pieces(told, a) \subseteq Written(m.kind, m.args) /\ ExpectedOf(m, a) = Meant(m, a)
    BY DEF Whole
  <1>3. LET v == Unpacked(told, Build(m), a) IN (IF a \in Signed THEN sign_extend_4(v) ELSE v) = Meant(m, a)
    BY <1>1, <1>2, ExactMeant
  <1> QED
    BY <1>2, <1>3 DEF AsMeant

(* ... when it is nothing, and read from bits that are not written ...     *)
Absent(m, told, a, e) ==
  /\ Pieces(told, a) = {e} /\ PieceType(e) /\ e.from = 0
  /\ \A i \in Span(e) : Blank(Layouts[m.kind], Written(m.kind, m.args), e.word, i)
                        /\ (e.word = 0 => i \notin Layouts[m.kind].const)
  /\ ExpectedOf(m, a) = {}

(* So is an argument of the reader that the builder does not write, on     *)
(* bits that stay clear.                                                   *)
LEMMA AbsentMeant ==
  ASSUME NEW m, Sent(m), NEW told, NEW a, NEW e, Absent(m, told, a, e)
  PROVE  AsMeant(m, told, a)
  <1>1. m.data \in Seq(Bytes8) /\ Sound(Layouts[m.kind])
    BY EverySound DEF Sent
  <1>2. /\ Pieces(told, a) = {e} /\ PieceType(e) /\ e.from = 0
        /\ \A i \in Span(e) : Blank(Layouts[m.kind], Written(m.kind, m.args), e.word, i)
        /\ \A i \in Span(e) : e.word = 0 => i \notin Layouts[m.kind].const
        /\ ExpectedOf(m, a) = {}
    BY DEF Absent
  <1>3. Unpacked(told, Build(m), a) = IF e.word = 0 THEN Take(Layouts[m.kind].const, e.lo, e.width) ELSE {}
    BY <1>1, <1>2, ConstRead
  <1>4. e.word = 0 => Take(Layouts[m.kind].const, e.lo, e.width) = {}
    <2> SUFFICES ASSUME e.word = 0, NEW j \in 0 .. e.width - 1 PROVE e.lo + j \notin Layouts[m.kind].const
      BY DEF Take
    <2> DEFINE lo == e.lo
               width == e.width
    <2>1. lo \in Nat /\ width \in Nat
      BY <1>2 DEF PieceType
    <2> HIDE DEF lo, width
    <2>2. lo + j \in lo .. lo + width - 1
      BY <2>1 DEF lo, width
    <2> QED
      BY <1>2, <2>2 DEF Span, lo, width
  <1>5. Unpacked(told, Build(m), a) = {}
    BY <1>3, <1>4
  <1> QED
    BY <1>2, <1>5 DEF AsMeant, sign_extend_4

(* ... when it is told a field of the header, or one that is narrower.     *)
Stated(m, told, a, e) ==
  /\ Pieces(told, a) = {e} /\ PieceType(e) /\ e.from = 0 /\ e.word = 0 /\ a \notin Signed
  /\ \A i \in Span(e) : Blank(Layouts[m.kind], Written(m.kind, m.args), 0, i)
  /\ ExpectedOf(m, a) = Take(Layouts[m.kind].const, e.lo, e.width)

(* So is one that the builder fixes: the constant bits say it.             *)
LEMMA StatedMeant ==
  ASSUME NEW m, Sent(m), NEW told, NEW a, NEW e, Stated(m, told, a, e)
  PROVE  AsMeant(m, told, a)
  <1>1. m.data \in Seq(Bytes8) /\ Sound(Layouts[m.kind])
    BY EverySound DEF Sent
  <1>2. /\ Pieces(told, a) = {e} /\ PieceType(e) /\ e.from = 0 /\ e.word = 0 /\ a \notin Signed
        /\ \A i \in Span(e) : Blank(Layouts[m.kind], Written(m.kind, m.args), e.word, i)
        /\ ExpectedOf(m, a) = Take(Layouts[m.kind].const, e.lo, e.width)
    BY DEF Stated
  <1>3. Unpacked(told, Build(m), a) = IF e.word = 0 THEN Take(Layouts[m.kind].const, e.lo, e.width) ELSE {}
    BY <1>1, <1>2, ConstRead
  <1> QED
    BY <1>2, <1>3 DEF AsMeant

Narrow(m, told, a, e, f) ==
  /\ Pieces(told, a) = {e} /\ Pieces(Layouts[m.kind].fields, a) = {f} /\ f \in Written(m.kind, m.args)
  /\ PieceType(e) /\ e.from = f.from /\ e.word = f.word /\ e.lo = f.lo /\ f.width <= e.width
  /\ \A i \in f.lo + f.width .. e.lo + e.width - 1 :
        Blank(Layouts[m.kind], Written(m.kind, m.args), f.word, i) /\ i \notin Layouts[m.kind].const
  /\ a \notin Signed /\ ExpectedOf(m, a) = Meant(m, a)

(* So is one that the reader takes from a wider field than the builder     *)
(* writes, when the bits above it stay clear.                              *)
LEMMA NarrowMeant ==
  ASSUME NEW m, Sent(m), NEW told, NEW a, NEW e, NEW f, Narrow(m, told, a, e, f)
  PROVE  AsMeant(m, told, a)
  <1>1. m.data \in Seq(Bytes8) /\ Sound(Layouts[m.kind])
    BY EverySound DEF Sent
  <1>2. /\ Pieces(told, a) = {e} /\ Pieces(Layouts[m.kind].fields, a) = {f} /\ f \in Written(m.kind, m.args)
        /\ PieceType(e) /\ e.from = f.from /\ e.word = f.word /\ e.lo = f.lo /\ f.width <= e.width
        /\ \A i \in f.lo + f.width .. e.lo + e.width - 1 :
              Blank(Layouts[m.kind], Written(m.kind, m.args), f.word, i) /\ i \notin Layouts[m.kind].const
    BY DEF Narrow
  <1>3. a \notin Signed /\ ExpectedOf(m, a) = Meant(m, a)
    BY DEF Narrow
  <1>4. Unpacked(told, Build(m), a) = m.args[a] \intersect RangeOf(Layouts[m.kind].fields, a)
    BY <1>1, <1>2, WideRead
  <1>5. a \in ArgsOf(Layouts[m.kind].fields)
    BY <1>2 DEF ArgsOf, Pieces
  <1> QED
    BY <1>3, <1>4, <1>5 DEF AsMeant, Meant

(* A message is told when each argument of its callback is read as it was  *)
(* meant.                                                                  *)
LEMMA ToldByAll ==
  ASSUME NEW m, Layouts[m.kind].calls # "on_clip",
         \A a \in ArgsOf(Extract[Layouts[m.kind].calls]) : AsMeant(m, Extract[Layouts[m.kind].calls], a)
  PROVE  Told(m)
  <1>1. \A a \in ArgsOf(Extract[Layouts[m.kind].calls]) :
            LET v == Unpacked(Extract[Layouts[m.kind].calls], Build(m), a)
            IN  (IF a \in Signed THEN sign_extend_4(v) ELSE v) = ExpectedOf(m, a)
    BY DEF AsMeant
  <1> QED
    BY <1>1, ToldBy

(* A program change is told its bank only when that is valid.              *)
LEMMA ProgramTold ==
  ASSUME NEW m, Sent(m), m.kind = "program"
  PROVE  Told(m)
  <1> DEFINE L == Layouts["program"]
             own == {F("program", 7, 1, 24), F("bank_valid", 1, 0, 0), F("bank_msb", 7, 1, 8), F("bank_lsb", 7, 1, 0)}
             fields == own \union {Group, Channel}
             written == Written("program", m.args)
  <1>1. L.fields = fields /\ L.room = 0 /\ Exact(L)
    <2>1. "program" \in DOMAIN ProgramLayout /\ ProgramLayout["program"] = build_cv2_w0("on_program", \hC0, own)
      BY Domains DEF ProgramLayout
    <2>2. L = build_cv2_w0("on_program", \hC0, own)
      BY <2>1, LayoutOf DEF Tables
    <2>3. "program" \in DOMAIN VoiceNumber
      BY DEF VoiceNumber
    <2> HIDE DEF L
    <2>4. Exact(L)
      BY <2>3, Cv2AllAgree DEF Voiced, Agrees, L
    <2> QED
      BY <2>2, <2>4 DEF build_cv2_w0, Msg, Channel
  <1> DEFINE told == Extract[L.calls]
  <1>2. told = fields /\ L.calls # "on_clip"
    BY <1>1 DEF Exact
  <1>3. written = IF m.args.bank_valid = {} THEN {f \in fields : f.arg \notin {"bank_msb", "bank_lsb"}} ELSE fields
    BY <1>1 DEF Written
  <1>4. ASSUME NEW a \in ArgsOf(told) PROVE AsMeant(m, told, a)
    <2>1. CASE a \notin {"bank_msb", "bank_lsb"} \/ m.args.bank_valid # {}
      <3>1. Pieces(told, a) \subseteq written
        BY <1>2, <1>3, <2>1 DEF Pieces
      <3>2. SamePieces(L, told, a)
        BY <1>1, <1>2 DEF SamePieces
      <3>3. a \in ArgsOf(L.fields) /\ (a \in {"bank_msb", "bank_lsb"} => a \notin Signed)
        BY <1>1, <1>2 DEF Signed
      <3>4. ExpectedOf(m, a) = Meant(m, a)
        BY <2>1, <3>3 DEF ExpectedOf, Meant
      <3> HIDE DEF told, L, written
      <3>5. Whole(m, told, a)
        BY <3>1, <3>2, <3>4 DEF Whole, L, written
      <3> QED
        BY <3>5, WholeMeant
    <2>2. CASE a \in {"bank_msb", "bank_lsb"} /\ m.args.bank_valid = {}
      <3> DEFINE e == IF a = "bank_msb" THEN F("bank_msb", 7, 1, 8) ELSE F("bank_lsb", 7, 1, 0)
      <3>1. Pieces(fields, a) = {e}
        BY <2>2 DEF Pieces, F, Piece, Group, Channel
      <3>2. PieceType(e) /\ e.from = 0 /\ e.word = 1 /\ e.lo \in {0, 8} /\ e.width = 7
        BY DEF PieceType, F, Piece
      <3>3. \A f \in written : f.word = 1 => f.lo = 24
        BY <1>3, <2>2 DEF F, Piece, Group, Channel
      <3>4. \A f \in written : f.word = 1 => f.width = 7
        BY <1>3, <2>2 DEF F, Piece, Group, Channel
      <3> HIDE DEF e, written, fields, L, told
      <3>5. ASSUME NEW i \in Span(e) PROVE Blank(L, written, e.word, i)
        <4>1. i \in 0 .. 14
          BY <3>2 DEF Span
        <4> QED
          BY <1>1, <3>2, <3>3, <3>4, <4>1 DEF Blank, Span
      <3>6. ExpectedOf(m, a) = {}
        BY <2>2 DEF ExpectedOf
      <3>7. Absent(m, told, a, e)
        BY <1>2, <3>1, <3>2, <3>5, <3>6 DEF Absent, L, written
      <3> QED
        BY <3>7, AbsentMeant
    <2> QED
      BY <2>1, <2>2
  <1> QED
    BY <1>2, <1>4, ToldByAll

-----------------------------------------------------------------------------
(* Which messages have bytes, where they are and whether they are counted. *)
PayloadNames == {"on_sysex7", "on_sysex8", "on_mds_payload", "on_flex_text", "on_stream_text", "on_fb_name"}
ByteKinds == Packets3 \union {"mds_payload", "stream_endpoint_name", "stream_product_id", "stream_fb_name"}
NoBytes(L) == L.room = 0 /\ L.at = 0 /\ L.counts = "no" /\ L.calls \notin PayloadNames
HasBytes(L) ==
  /\ L.calls \in PayloadNames /\ Payload[L.calls] = <<L.at, L.room>> /\ L.room \in {6, 12, 13, 14}
  /\ L.counts = CASE L.calls = "on_sysex7" -> "bytes" [] L.calls = "on_sysex8" -> "bytes and stream_id" [] OTHER -> "no"
Roomed(kind, L) == (kind \in ByteKinds => HasBytes(L)) /\ (kind \notin ByteKinds => NoBytes(L))

(* The callbacks that are handed bytes.                                    *)
LEMMA PayloadDomain == DOMAIN Payload = PayloadNames
  BY DEF Payload, PayloadNames

(* No Channel Voice message carries bytes of data.                         *)
LEMMA VoiceNoBytes ==
  \A t \in {VoiceLayouts, ProgramLayout, PerNoteLayouts, from_midi1} : \A kind \in DOMAIN t : NoBytes(t[kind])
  <1> USE DEF NoBytes, PayloadNames
  <1>1. \A kind \in DOMAIN VoiceLayouts : NoBytes(VoiceLayouts[kind])
    BY DEF VoiceLayouts, build_cv2_w0, Msg
  <1>2. \A kind \in DOMAIN ProgramLayout : NoBytes(ProgramLayout[kind])
    BY DEF ProgramLayout, build_cv2_w0, Msg
  <1>3. \A kind \in DOMAIN PerNoteLayouts : NoBytes(PerNoteLayouts[kind])
    BY DEF PerNoteLayouts, build_cv2_w0, Msg
  <1>4. \A kind \in DOMAIN from_midi1 : NoBytes(from_midi1[kind])
    BY DEF from_midi1, Cv1, Msg
  <1> QED
    BY <1>1, <1>2, <1>3, <1>4

(* Nor do System, Utility, Flex setup, Endpoint and Function Block         *)
(* messages.                                                               *)
LEMMA SetupNoBytes ==
  \A t \in {SystemLayouts, UtilityLayouts, FlexLayouts, ChordLayout, EndpointLayouts, BlockLayouts} :
    \A kind \in DOMAIN t : NoBytes(t[kind])
  <1> USE DEF NoBytes, PayloadNames
  <1>1. \A kind \in DOMAIN SystemLayouts : NoBytes(SystemLayouts[kind])
    BY DEF SystemLayouts, System, AnySystem, Msg
  <1>2. \A kind \in DOMAIN UtilityLayouts : NoBytes(UtilityLayouts[kind])
    BY DEF UtilityLayouts, Utility, Msg
  <1>3. \A kind \in DOMAIN FlexLayouts : NoBytes(FlexLayouts[kind])
    <2>1. \A calls, status, fields :
            LET L == build_flex_w0_full(calls, status, fields)
            IN  L.room = 0 /\ L.at = 0 /\ L.counts = "no" /\ L.calls = calls
      BY DEF build_flex_w0_full, Msg
    <2>2. \A calls, status, fields :
            LET L == build_flex_w0(calls, status, fields)
            IN  L.room = 0 /\ L.at = 0 /\ L.counts = "no" /\ L.calls = calls
      BY <2>1 DEF build_flex_w0, build_flex_w0_full, Msg
    <2> QED
      BY <2>1, <2>2 DEF FlexLayouts
  <1>4. \A kind \in DOMAIN ChordLayout : NoBytes(ChordLayout[kind])
    BY DEF ChordLayout, build_flex_w0_full, Msg
  <1>5. \A kind \in DOMAIN EndpointLayouts : NoBytes(EndpointLayouts[kind])
    BY DEF EndpointLayouts, build_stream_w0, Msg
  <1>6. \A kind \in DOMAIN BlockLayouts : NoBytes(BlockLayouts[kind])
    BY DEF BlockLayouts, build_stream_w0, Msg
  <1> QED
    BY <1>1, <1>2, <1>3, <1>4, <1>5, <1>6
(* ... of the kinds that have them.                                        *)
ByteRow(L, calls, at, room, counts) == L.calls = calls /\ L.at = at /\ L.room = room /\ L.counts = counts

(* The six layouts that carry bytes: where the bytes start, and how many   *)
(* there are at most, is the same for reader and builder.                  *)
LEMMA ByteRows ==
  ASSUME NEW L,
         \/ ByteRow(L, "on_sysex7", 16, 6, "bytes") \/ ByteRow(L, "on_sysex8", 24, 13, "bytes and stream_id")
         \/ ByteRow(L, "on_mds_payload", 16, 14, "no") \/ ByteRow(L, "on_flex_text", 32, 12, "no")
         \/ ByteRow(L, "on_stream_text", 16, 14, "no") \/ ByteRow(L, "on_fb_name", 24, 13, "no")
  PROVE  HasBytes(L)
  <1>1. Payload[L.calls] = <<L.at, L.room>>
    <2>1. /\ Payload["on_sysex7"] = <<16, 6>> /\ Payload["on_sysex8"] = <<24, 13>>
          /\ Payload["on_mds_payload"] = <<16, 14>> /\ Payload["on_flex_text"] = <<32, 12>>
          /\ Payload["on_stream_text"] = <<16, 14>> /\ Payload["on_fb_name"] = <<24, 13>>
      BY DEF Payload
    <2> QED
      BY <2>1 DEF ByteRow
  <1>2. L.calls \in PayloadNames
    BY DEF ByteRow, PayloadNames
  <1>2r. L.room \in {6, 12, 13, 14}
    BY DEF ByteRow
  <1>3. L.counts = CASE L.calls = "on_sysex7" -> "bytes" [] L.calls = "on_sysex8" -> "bytes and stream_id" [] OTHER -> "no"
    BY DEF ByteRow
  <1> QED
    BY <1>1, <1>2, <1>2r, <1>3 DEF HasBytes

(* The tables of Stream texts and of data messages, row by row, and Flex   *)
(* text.                                                                   *)
LEMMA PayloadLayouts ==
  /\ \A kind \in DOMAIN StreamTextLayouts : Roomed(kind, StreamTextLayouts[kind])
  /\ \A kind \in DOMAIN DataLayouts : Roomed(kind, DataLayouts[kind])
  /\ HasBytes(FlexTextLayout["flex_text"])
  <1>1. /\ HasBytes(StreamTextLayouts["stream_endpoint_name"]) /\ HasBytes(StreamTextLayouts["stream_product_id"])
        /\ HasBytes(StreamTextLayouts["stream_fb_name"])
    <2>1. /\ ByteRow(StreamTextLayouts["stream_endpoint_name"], "on_stream_text", 16, 14, "no")
          /\ ByteRow(StreamTextLayouts["stream_product_id"], "on_stream_text", 16, 14, "no")
          /\ ByteRow(StreamTextLayouts["stream_fb_name"], "on_fb_name", 24, 13, "no")
      BY DEF ByteRow, StreamTextLayouts, build_stream_w0, Msg, WithBytes, Says
    <2> QED
      BY <2>1, ByteRows
  <1>2. NoBytes(StreamTextLayouts["stream_start_of_clip"]) /\ NoBytes(StreamTextLayouts["stream_end_of_clip"])
    BY DEF NoBytes, PayloadNames, StreamTextLayouts, build_stream_w0, Msg, WithBytes, Says
  <1>3. HasBytes(DataLayouts["sysex7_packet"]) /\ HasBytes(DataLayouts["sysex8_packet"])
        /\ HasBytes(DataLayouts["mds_payload"])
    <2>1. /\ ByteRow(DataLayouts["sysex7_packet"], "on_sysex7", 16, 6, "bytes")
          /\ ByteRow(DataLayouts["sysex8_packet"], "on_sysex8", 24, 13, "bytes and stream_id")
          /\ ByteRow(DataLayouts["mds_payload"], "on_mds_payload", 16, 14, "no")
      BY DEF ByteRow, DataLayouts, Data128, Msg, WithBytes
    <2> QED
      BY <2>1, ByteRows
  <1>4. NoBytes(DataLayouts["mds_header"])
    BY DEF NoBytes, PayloadNames, DataLayouts, Data128, Msg, WithBytes
  <1>5. HasBytes(FlexTextLayout["flex_text"])
    <2>1. ByteRow(FlexTextLayout["flex_text"], "on_flex_text", 32, 12, "no")
      BY DEF ByteRow, FlexTextLayout, Msg, WithBytes
    <2> QED
      BY <2>1, ByteRows
  <1>6. \A kind \in DOMAIN StreamTextLayouts : Roomed(kind, StreamTextLayouts[kind])
    BY <1>1, <1>2, Domains DEF Roomed, ByteKinds, Packets3
  <1>7. \A kind \in DOMAIN DataLayouts : Roomed(kind, DataLayouts[kind])
    BY <1>3, <1>4, Domains DEF Roomed, ByteKinds, Packets3
  <1> QED
    BY <1>5, <1>6, <1>7

(* Every kind carries bytes for a callback that takes them, or neither.    *)
LEMMA RoomOf ==
  ASSUME NEW kind \in UmpKinds
  PROVE  Roomed(kind, Layouts[kind])
  <1>1. PICK t \in Tables : kind \in DOMAIN t
    BY LayoutOf
  <1>2. Layouts[kind] = t[kind]
    BY <1>1, LayoutOf
  <1>3. CASE t \in {StreamTextLayouts, DataLayouts}
    <2>1. \A k \in DOMAIN t : Roomed(k, t[k])
      BY <1>3, PayloadLayouts
    <2> QED
      BY <1>1, <1>2, <2>1
  <1>4. CASE t = FlexTextLayout
    <2>1. kind = "flex_text"
      BY <1>1, <1>4, Domains
    <2>2. HasBytes(t["flex_text"])
      BY <1>4, PayloadLayouts
    <2>3. kind \in ByteKinds
      BY <2>1 DEF ByteKinds, Packets3
    <2> QED
      BY <1>2, <2>1, <2>2, <2>3 DEF Roomed
  <1>5. CASE t \in {VoiceLayouts, ProgramLayout, PerNoteLayouts, from_midi1}
    <2>1. kind \notin ByteKinds
      BY <1>1, <1>5, Domains DEF ByteKinds, Packets3
    <2> QED
      BY <1>1, <1>2, <1>5, <2>1, VoiceNoBytes DEF Roomed
  <1>6. CASE t \in {SystemLayouts, UtilityLayouts, FlexLayouts, ChordLayout, EndpointLayouts, BlockLayouts}
    <2>1. kind \notin ByteKinds
      BY <1>1, <1>6, Domains DEF ByteKinds, Packets3
    <2> QED
      BY <1>1, <1>2, <1>6, <2>1, SetupNoBytes DEF Roomed
  <1> QED
    BY <1>1, <1>3, <1>4, <1>5, <1>6 DEF Tables

(* The number in a header is what its constant bits are.                   *)
LEMMA HeadTake ==
  ASSUME NEW L, NEW n0, NEW lo, NEW k, NEW n, HeadKind(n0, lo, k, n), Headed(L, n0, lo, k, n)
  PROVE  Take(L.const, lo, k) = Bits(n)
  <1> DEFINE w == [i \in 0 .. 3 |-> L.const]
  <1>0. lo \in Nat /\ k \in 0 .. 10 /\ n \in TenBitNumbers /\ OfBits(n, k)
    BY DEF HeadKind
  <1>1. w[0] = L.const
    OBVIOUS
  <1>2. HeadIs(w, L)
    BY <1>1 DEF HeadIs
  <1>3. Num(Take(w[0], lo, k)) = n
    BY <1>2 DEF Headed
  <1> HIDE DEF w
  <1>4. Shows(w[0], lo, k, n)
    BY <1>0, <1>3, HoldsNumber
  <1>5. \A j \in 0 .. k - 1 : lo + j \in L.const <=> j \in Bits(n)
    <2> SUFFICES ASSUME NEW j \in 0 .. k - 1 PROVE lo + j \in L.const <=> j \in Bits(n)
      OBVIOUS
    <2>1. lo + j \in lo .. lo + k - 1 /\ (lo + j) - lo = j
      BY <1>0
    <2> QED
      BY <1>1, <1>4, <2>1 DEF Shows
  <1>6. \A j \in Bits(n) : j \in 0 .. k - 1
    BY <1>0 DEF OfBits
  <1> QED
    BY <1>0, <1>5, <1>6 DEF Take

(* What a system message is told.                                          *)
StatusByte == F("status", 8, 0, 16)
SystemRead == {Group, StatusByte, F("data1", 8, 0, 8), F("data2", 8, 0, 0)}

(* What the dispatcher reads of a System message: group, status and both   *)
(* data bytes, whatever the status.                                        *)
LEMMA SystemPieces ==
  /\ Pieces(SystemRead, "group") = {Group} /\ Pieces(SystemRead, "status") = {StatusByte}
  /\ Pieces(SystemRead, "data1") = {F("data1", 8, 0, 8)} /\ Pieces(SystemRead, "data2") = {F("data2", 8, 0, 0)}
  /\ ArgsOf(SystemRead) = {"group", "status", "data1", "data2"}
  /\ Extract["on_system"] = SystemRead
  <1>1. Pieces(SystemRead, "group") = {Group} /\ Pieces(SystemRead, "status") = {StatusByte}
    BY DEF Pieces, SystemRead, Group, StatusByte, F, Piece
  <1>2. Pieces(SystemRead, "data1") = {F("data1", 8, 0, 8)} /\ Pieces(SystemRead, "data2") = {F("data2", 8, 0, 0)}
    BY DEF Pieces, SystemRead, Group, StatusByte, F, Piece
  <1>3. ArgsOf(SystemRead) = {"group", "status", "data1", "data2"}
    BY DEF ArgsOf, SystemRead, Group, StatusByte, F, Piece
  <1>4. Extract["on_system"] = SystemRead
    <2>1. SystemArgs \in ArgTables /\ "on_system" \in DOMAIN SystemArgs /\ SystemArgs["on_system"] = SystemRead
      BY DEF ArgTables, SystemArgs, SystemRead, StatusByte
    <2> QED
      BY <2>1, ExtractOf
  <1> QED
    BY <1>1, <1>2, <1>3, <1>4

SystemMsg(m, L, status) ==
  /\ Sent(m) /\ m.kind \notin {"program", "cv1_pitch_bend"} /\ L = Layouts[m.kind] /\ L.calls = "on_system"
  /\ Group \in L.fields /\ \A f \in L.fields : f.arg = "group" => f = Group
  /\ \A i \in L.const : i \in 28 .. 31 \/ (~ status /\ i \in 16 .. 23)

(* A System message is told when its status and its data bytes are read as *)
(* they were meant.                                                        *)
LEMMA SystemTold ==
  ASSUME NEW m, NEW L, NEW status, SystemMsg(m, L, status), AsMeant(m, SystemRead, "status"),
         AsMeant(m, SystemRead, "data1"), AsMeant(m, SystemRead, "data2")
  PROVE  Told(m)
  <1>1. Sent(m) /\ m.kind # "program" /\ L = Layouts[m.kind] /\ L.calls = "on_system"
        /\ Group \in L.fields /\ \A f \in L.fields : f.arg = "group" => f = Group
    BY DEF SystemMsg
  <1>2. Whole(m, SystemRead, "group")
    <2>1. Pieces(L.fields, "group") = {Group}
      <3>1. Group.arg = "group"
        BY DEF Group, F, Piece
      <3> QED
        BY <1>1, <3>1 DEF Pieces
    <2>2. Group \in Written(m.kind, m.args)
      BY <1>1 DEF Written
    <2>3. ExpectedOf(m, "group") = Meant(m, "group")
      BY DEF ExpectedOf
    <2> QED
      BY <1>1, <2>1, <2>2, <2>3, SystemPieces DEF Whole, SamePieces
  <1>3. AsMeant(m, SystemRead, "group")
    BY <1>1, <1>2, WholeMeant
  <1>4. \A a \in ArgsOf(SystemRead) : AsMeant(m, SystemRead, a)
    BY <1>3, SystemPieces
  <1> QED
    BY <1>1, <1>4, SystemPieces, ToldByAll

(* Bits lo .. hi of word 0 are those of no field of a message without      *)
(* bytes.                                                                  *)
OffFields(L, lo, hi) == \A f \in L.fields : f.word = 0 => \A i \in Span(f) : i \notin lo .. hi

(* Bits of word 0 that no field of a layout covers, and no byte of data,   *)
(* stay clear but for the constants.                                       *)
LEMMA OffBlank ==
  ASSUME NEW m, m.kind \in UmpKinds, NoBytes(Layouts[m.kind]), NEW lo, NEW hi, OffFields(Layouts[m.kind], lo, hi)
  PROVE  \A i \in lo .. hi : Blank(Layouts[m.kind], Written(m.kind, m.args), 0, i)
  <1> DEFINE L == Layouts[m.kind]
  <1>1. \A f \in Written(m.kind, m.args) : f \in L.fields
    BY EverySound, WrittenFields
  <1>2. \A i : i \notin Counted(L) /\ i \notin TailBits(L)
    BY DEF NoBytes, Counted, TailBits
  <1> HIDE DEF L
  <1>3. \A f \in L.fields : f.word = 0 => \A i \in Span(f) : i \notin lo .. hi
    BY DEF OffFields, L
  <1>4. \A i \in lo .. hi : Blank(L, Written(m.kind, m.args), 0, i)
    BY <1>1, <1>2, <1>3 DEF Blank
  <1> QED
    BY <1>4 DEF L

(* A data byte that the message does not have is told as zero.             *)
LEMMA NoDataByte ==
  ASSUME NEW m, NEW L, NEW status, SystemMsg(m, L, status), NoBytes(L), NEW a \in {"data1", "data2"},
         OffFields(L, IF a = "data1" THEN 8 ELSE 0, IF a = "data1" THEN 15 ELSE 7), ExpectedOf(m, a) = {}
  PROVE  AsMeant(m, SystemRead, a)
  <1> DEFINE e == IF a = "data1" THEN F("data1", 8, 0, 8) ELSE F("data2", 8, 0, 0)
             lo == IF a = "data1" THEN 8 ELSE 0
             hi == IF a = "data1" THEN 15 ELSE 7
  <1>1. Sent(m) /\ L = Layouts[m.kind] /\ m.kind \in UmpKinds
        /\ \A i \in L.const : i \in 28 .. 31 \/ i \in 16 .. 23
    BY DEF SystemMsg, Sent
  <1>2. Pieces(SystemRead, a) = {e}
    BY SystemPieces
  <1>3. PieceType(e) /\ e.from = 0 /\ e.word = 0
    BY DEF PieceType, F, Piece
  <1>4. Span(e) = lo .. hi
    BY DEF Span, F, Piece
  <1>5. \A i \in lo .. hi : i \in 0 .. 15
    OBVIOUS
  <1>5b. \A i \in 0 .. 15 : i \notin 28 .. 31 /\ i \notin 16 .. 23
    OBVIOUS
  <1> HIDE DEF e, lo, hi
  <1>6. OffFields(L, lo, hi)
    BY DEF lo, hi
  <1>7. \A i \in lo .. hi : Blank(L, Written(m.kind, m.args), 0, i)
    BY <1>1, <1>6, OffBlank
  <1>8. Absent(m, SystemRead, a, e)
    BY <1>1, <1>2, <1>3, <1>4, <1>5, <1>5b, <1>7 DEF Absent
  <1> QED
    BY <1>1, <1>8, AbsentMeant

(* A system message with a status of its own ...                           *)
LEMMA FixedSystem ==
  ASSUME NEW m, Sent(m), m.kind \in DOMAIN SystemStatus
  PROVE  LET L == Layouts[m.kind] IN
         /\ SystemMsg(m, L, FALSE) /\ NoBytes(L) /\ L.fields = SystemData(m.kind) \union {Group}
         /\ AsMeant(m, SystemRead, "status")
  <1> DEFINE L == Layouts[m.kind]
             n == SystemStatus[m.kind]
  <1>1. /\ Known(L, 1, 16, 8, n) /\ L.calls = "on_system" /\ L.fields = SystemData(m.kind) \union {Group}
        /\ L.says = [status |-> Bits(n)]
    BY SystemAllKnown
  <1>2. n \in StatusBytes
    BY DEF SystemStatus, StatusBytes
  <1>3. NoBytes(L)
    <2>1. m.kind \notin ByteKinds
      BY DEF SystemStatus, ByteKinds, Packets3
    <2> QED
      BY <2>1, RoomOf DEF Sent, Roomed
  <1>4. \A f \in SystemData(m.kind) : f.arg \in {"data1", "position"} /\ f.word = 0 /\ f.lo \in {0, 8} /\ f.width = 7
    BY DEF SystemData, Position, Data1, F, Piece
  <1>5. Group.word = 0 /\ Group.lo = 24 /\ Group.width = 4 /\ Group.arg = "group"
    BY DEF Group, F, Piece
  <1>k. m.kind \notin {"program", "cv1_pitch_bend"}
    BY DEF SystemStatus
  <1> HIDE DEF L, n
  <1>6. \A i \in L.const : i \in 28 .. 31 \/ i \in 16 .. 23
    BY <1>1 DEF Known, Headed
  <1>7. SystemMsg(m, L, FALSE)
    BY <1>1, <1>4, <1>5, <1>6, <1>k DEF SystemMsg, L
  <1>8. AsMeant(m, SystemRead, "status")
    <2>1. HeadKind(1, 16, 8, n)
      BY <1>2, LowBits DEF HeadKind, TenBitNumbers, OfBits, StatusBytes
    <2>2. Take(L.const, 16, 8) = Bits(n)
      BY <1>1, <2>1, HeadTake DEF Known
    <2>3. OffFields(L, 16, 23)
      <3> SUFFICES ASSUME NEW f \in L.fields, f.word = 0, NEW i \in Span(f) PROVE i \notin 16 .. 23
        BY DEF OffFields
      <3>1. (f.lo = 24 /\ f.width = 4) \/ (f.lo \in {0, 8} /\ f.width = 7)
        <4>1. f \in SystemData(m.kind) \/ f = Group
          BY <1>1
        <4> QED
          BY <1>4, <1>5, <4>1
      <3> DEFINE lo == f.lo
                 width == f.width
      <3>2. i \in lo .. lo + width - 1 /\ ((lo = 24 /\ width = 4) \/ (lo \in {0, 8} /\ width = 7))
        BY <3>1 DEF Span
      <3> HIDE DEF lo, width
      <3> QED
        BY <3>2
    <2>4. PieceType(StatusByte) /\ StatusByte.from = 0 /\ StatusByte.word = 0
          /\ StatusByte.lo = 16 /\ StatusByte.width = 8
      BY DEF PieceType, StatusByte, F, Piece
    <2>5. Span(StatusByte) = 16 .. 23
      BY <2>4 DEF Span
    <2>6. \A i \in 16 .. 23 : Blank(L, Written(m.kind, m.args), 0, i)
      BY <1>3, <2>3, OffBlank DEF Sent, L
    <2>7. ExpectedOf(m, "status") = Bits(n)
      <3>1. "status" \notin ArgsOf(L.fields)
        BY <1>1, <1>4, <1>5 DEF ArgsOf
      <3>2. Meant(m, "status") = Bits(n)
        BY <1>1, <3>1 DEF Meant, L
      <3> QED
        BY <3>2 DEF ExpectedOf
    <2>8. Stated(m, SystemRead, "status", StatusByte)
      BY <2>2, <2>4, <2>5, <2>6, <2>7, SystemPieces DEF Stated, Signed, L
    <2> QED
      BY <2>8, StatedMeant
  <1> QED
    BY <1>1, <1>3, <1>7, <1>8 DEF L

(* ... is told its data bytes: none, ...                                   *)
LEMMA PlainSystemTold ==
  ASSUME NEW m, Sent(m), m.kind \in DOMAIN SystemStatus, SystemData(m.kind) \in {{}, {Data1(7)}}
  PROVE  Told(m)
  <1> DEFINE L == Layouts[m.kind]
  <1>1. /\ SystemMsg(m, L, FALSE) /\ NoBytes(L) /\ L.fields = SystemData(m.kind) \union {Group}
        /\ AsMeant(m, SystemRead, "status")
    BY FixedSystem
  <1>2. Group.word = 0 /\ Group.lo = 24 /\ Group.width = 4 /\ Group.arg = "group" /\ Span(Group) = 24 .. 27
    BY DEF Group, F, Piece, Span
  <1>3. /\ Data1(7).word = 0 /\ Data1(7).lo = 8 /\ Data1(7).width = 7 /\ Data1(7).arg = "data1" /\ Data1(7).from = 0
        /\ Span(Data1(7)) = 8 .. 14
    BY DEF Data1, F, Piece, Span
  <1>4. m.kind # "system_song_position"
    <2>1. "position" \notin ArgsOf(SystemData(m.kind))
      BY <1>3 DEF ArgsOf
    <2>2. Piece("position", 0, 7, 0, 8) \in Position /\ Piece("position", 0, 7, 0, 8).arg = "position"
      BY DEF Position, Piece
    <2>3. m.kind = "system_song_position" => SystemData(m.kind) = Position
      BY DEF SystemData
    <2> QED
      BY <2>1, <2>2, <2>3 DEF ArgsOf
  <1>5. \A a \in {"data1", "data2"} : ExpectedOf(m, a) = Meant(m, a)
    BY <1>4 DEF ExpectedOf, SystemStatus
  <1>6. L.says = [status |-> Bits(SystemStatus[m.kind])]
    BY SystemAllKnown
  <1> HIDE DEF L
  <1>7. \A f \in L.fields : f = Group \/ f = Data1(7)
    BY <1>1
  <1>8. AsMeant(m, SystemRead, "data2")
    <2>1. \A i : i \in 24 .. 27 \/ i \in 8 .. 14 => i \notin 0 .. 7
      OBVIOUS
    <2>2. OffFields(L, 0, 7)
      BY <1>2, <1>3, <1>7, <2>1 DEF OffFields
    <2>3. ExpectedOf(m, "data2") = {}
      <3>1. "data2" \notin ArgsOf(L.fields)
        BY <1>2, <1>3, <1>7 DEF ArgsOf
      <3>2. "data2" \notin DOMAIN L.says
        BY <1>6
      <3>3. Meant(m, "data2") = {}
        BY <3>1, <3>2 DEF Meant, L
      <3> QED
        BY <1>5, <3>3
    <2> QED
      BY <1>1, <2>2, <2>3, NoDataByte
  <1>9. AsMeant(m, SystemRead, "data1")
    <2>1. CASE SystemData(m.kind) = {}
      <3>1. L.fields = {Group}
        BY <1>1, <2>1
      <3>2. \A i \in 24 .. 27 : i \notin 8 .. 15
        OBVIOUS
      <3>3. OffFields(L, 8, 15)
        BY <1>2, <3>1, <3>2 DEF OffFields
      <3>4. ExpectedOf(m, "data1") = {}
        <4>1. "data1" \notin ArgsOf(L.fields)
          BY <1>2, <3>1 DEF ArgsOf
        <4>2. "data1" \notin DOMAIN L.says
          BY <1>6
        <4>3. Meant(m, "data1") = {}
          BY <4>1, <4>2 DEF Meant, L
        <4> QED
          BY <1>5, <4>3
      <3> QED
        BY <1>1, <3>3, <3>4, NoDataByte
    <2>2. CASE SystemData(m.kind) = {Data1(7)}
      <3> DEFINE e == F("data1", 8, 0, 8)
                 f == Data1(7)
      <3>1. L.fields = {f, Group}
        BY <1>1, <2>2
      <3>2. Pieces(L.fields, "data1") = {f}
        BY <1>2, <1>3, <3>1 DEF Pieces
      <3>3. PieceType(e) /\ e.from = 0 /\ e.word = 0 /\ e.lo = 8 /\ e.width = 8
        BY DEF PieceType, F, Piece
      <3>4. f \in Written(m.kind, m.args)
        BY <1>1, <3>1 DEF Written, SystemMsg, L
      <3>5. \A i \in 15 .. 15 : i \notin 24 .. 27 /\ i \notin 8 .. 14 /\ i \notin 28 .. 31 /\ i \notin 16 .. 23
        OBVIOUS
      <3>6. OffFields(L, 15, 15)
        BY <1>2, <1>3, <3>1, <3>5 DEF OffFields
      <3>7. \A i \in 15 .. 15 : Blank(L, Written(m.kind, m.args), 0, i)
        BY <1>1, <3>6, OffBlank DEF Sent, L
      <3>8. \A i \in 15 .. 15 : i \notin L.const
        BY <1>1, <3>5 DEF SystemMsg
      <3> HIDE DEF e, f
      <3>9. f.from = 0 /\ f.word = 0 /\ f.lo = 8 /\ f.width = 7
        BY <1>3 DEF f
      <3>10. \A i \in f.lo + f.width .. e.lo + e.width - 1 : i \in 15 .. 15
        BY <3>3, <3>9
      <3>11. f.width <= e.width
        BY <3>3, <3>9
      <3>12. Narrow(m, SystemRead, "data1", e, f)
        BY <1>5, <3>2, <3>3, <3>4, <3>7, <3>8, <3>9, <3>10, <3>11, SystemPieces DEF Narrow, Signed, L, e
      <3> QED
        BY <3>12, NarrowMeant
    <2> QED
      BY <2>1, <2>2
  <1> QED
    BY <1>1, <1>8, <1>9, SystemTold

(* Seven bits of an argument under another name, in a byte of their own.   *)
Renamed(m, told, a, e, f) ==
  /\ Pieces(told, a) = {e} /\ f \in Written(m.kind, m.args) /\ a \notin Signed
  /\ e.from = 0 /\ e.word = 0 /\ e.width = 8 /\ e.lo \in {0, 8}
  /\ f.word = 0 /\ f.width = 7 /\ f.lo = e.lo /\ f.from \in {0, 7}
  /\ Blank(Layouts[m.kind], Written(m.kind, m.args), 0, e.lo + 7) /\ e.lo + 7 \notin Layouts[m.kind].const
  /\ ExpectedOf(m, a) = Take(m.args[f.arg], f.from, 7)

(* An argument that the builder and the reader name differently is read as *)
(* it was meant.                                                           *)
LEMMA RenamedMeant ==
  ASSUME NEW m, Sent(m), NEW told, NEW a, NEW e, NEW f, Renamed(m, told, a, e, f)
  PROVE  AsMeant(m, told, a)
  <1> DEFINE L == Layouts[m.kind]
             w == Build(m)
             v == m.args[f.arg]
             lo == e.lo
             from == f.from
  <1>1. m.data \in Seq(Bytes8) /\ Sound(L)
    BY EverySound DEF Sent
  <1>2. /\ Pieces(told, a) = {e} /\ f \in Written(m.kind, m.args) /\ a \notin Signed
        /\ e.from = 0 /\ e.word = 0 /\ e.width = 8 /\ lo \in {0, 8}
        /\ f.word = 0 /\ f.width = 7 /\ f.lo = lo /\ from \in {0, 7}
        /\ Blank(L, Written(m.kind, m.args), 0, lo + 7) /\ lo + 7 \notin L.const
        /\ ExpectedOf(m, a) = Take(v, from, 7)
    BY DEF Renamed
  <1>3. \A i \in Span(f) : i \in w[f.word] <=> f.from + (i - f.lo) \in m.args[f.arg]
    BY <1>1, <1>2, FieldRead
  <1>4. lo + 7 \notin w[0]
    BY <1>1, <1>2, BlankRead
  <1>5. Span(f) = lo .. lo + 7 - 1
    BY <1>2 DEF Span
  <1> HIDE DEF w, v, lo, from, L
  <1>6. \A i \in lo .. lo + 7 - 1 : i \in w[0] <=> from + (i - lo) \in v
    BY <1>2, <1>3, <1>5 DEF lo, from, v
  <1>7. PieceType(e)
    BY <1>2 DEF PieceType, lo
  <1>8. \A x : x \in Unpacked(told, w, a) <=> x \in 0 .. 7 /\ lo + x \in w[0]
    <2>1. \A x : x \in Unpacked(told, w, a) <=> \E g \in Pieces(told, a) : x \in g.from .. g.from + g.width - 1
                                               /\ g.lo + (x - g.from) \in w[g.word]
      BY <1>2, <1>7, UnpackedBits
    <2>2. \A x : x \in Unpacked(told, w, a) <=> x \in e.from .. e.from + e.width - 1 /\ e.lo + (x - e.from) \in w[e.word]
      BY <1>2, <2>1
    <2>3. e.from .. e.from + e.width - 1 = 0 .. 7
      BY <1>2
    <2>4. \A x \in 0 .. 7 : e.lo + (x - e.from) = lo + x
      BY <1>2 DEF lo
    <2> QED
      BY <1>2, <2>2, <2>3, <2>4
  <1>9. \A x \in 0 .. 6 : lo + x \in w[0] <=> from + x \in v
    <2> SUFFICES ASSUME NEW x \in 0 .. 6 PROVE lo + x \in w[0] <=> from + x \in v
      OBVIOUS
    <2>1. lo + x \in lo .. lo + 7 - 1 /\ from + ((lo + x) - lo) = from + x
      BY <1>2
    <2> QED
      BY <1>6, <2>1
  <1>10. \A x : x \in 0 .. 7 <=> x \in 0 .. 6 \/ x = 7
    OBVIOUS
  <1>11. Unpacked(told, w, a) = {x \in 0 .. 6 : from + x \in v}
    <2>1. \A x : x \in Unpacked(told, w, a) <=> x \in 0 .. 6 /\ lo + x \in w[0]
      BY <1>4, <1>8, <1>10
    <2>2. \A x : x \in Unpacked(told, w, a) <=> x \in 0 .. 6 /\ from + x \in v
      BY <1>9, <2>1
    <2> QED
      BY <2>2
  <1>12. Take(v, from, 7) = {x \in 0 .. 6 : from + x \in v}
    BY DEF Take
  <1> QED
    BY <1>2, <1>11, <1>12 DEF AsMeant, w

(* A song position is told as two data bytes.                              *)
LEMMA SongPositionTold ==
  ASSUME NEW m, Sent(m), m.kind = "system_song_position"
  PROVE  Told(m)
  <1> DEFINE L == Layouts[m.kind]
             f1 == Piece("position", 0, 7, 0, 8)
             f2 == Piece("position", 7, 7, 0, 0)
             e1 == F("data1", 8, 0, 8)
             e2 == F("data2", 8, 0, 0)
  <1>1. /\ SystemMsg(m, L, FALSE) /\ NoBytes(L) /\ L.fields = {f1, f2, Group} /\ AsMeant(m, SystemRead, "status")
    <2>1. m.kind \in DOMAIN SystemStatus /\ SystemData(m.kind) \union {Group} = {f1, f2, Group}
      BY DEF SystemStatus, SystemData, Position
    <2> QED
      BY <2>1, FixedSystem
  <1>2. Span(Group) = 24 .. 27 /\ Span(f1) = 8 .. 14 /\ Span(f2) = 0 .. 6
    BY DEF Group, F, Piece, Span
  <1>3. /\ f1.word = 0 /\ f1.lo = 8 /\ f1.width = 7 /\ f1.arg = "position" /\ f1.from = 0
        /\ f2.word = 0 /\ f2.lo = 0 /\ f2.width = 7 /\ f2.arg = "position" /\ f2.from = 7
    BY DEF Piece
  <1>4. /\ e1.word = 0 /\ e1.lo = 8 /\ e1.width = 8 /\ e1.from = 0
        /\ e2.word = 0 /\ e2.lo = 0 /\ e2.width = 8 /\ e2.from = 0
    BY DEF F, Piece
  <1>5. f1 \in Written(m.kind, m.args) /\ f2 \in Written(m.kind, m.args)
    BY <1>1 DEF Written
  <1>6. /\ ExpectedOf(m, "data1") = Take(m.args["position"], 0, 7)
        /\ ExpectedOf(m, "data2") = Take(m.args["position"], 7, 7)
    BY DEF ExpectedOf
  <1>s. "data1" \notin Signed /\ "data2" \notin Signed
    BY DEF Signed
  <1> HIDE DEF L, f1, f2, e1, e2
  <1>7. Blank(L, Written(m.kind, m.args), 0, 15) /\ Blank(L, Written(m.kind, m.args), 0, 7)
    <2>1. OffFields(L, 15, 15) /\ OffFields(L, 7, 7)
      <3>1. \A i : i \in 24 .. 27 \/ i \in 8 .. 14 \/ i \in 0 .. 6 => i \notin 15 .. 15 /\ i \notin 7 .. 7
        OBVIOUS
      <3> QED
        BY <1>1, <1>2, <3>1 DEF OffFields
    <2>2. \A i \in 15 .. 15 : Blank(L, Written(m.kind, m.args), 0, i)
      BY <1>1, <2>1, OffBlank DEF Sent, L
    <2>3. \A i \in 7 .. 7 : Blank(L, Written(m.kind, m.args), 0, i)
      BY <1>1, <2>1, OffBlank DEF Sent, L
    <2> QED
      BY <2>2, <2>3
  <1>8. 15 \notin L.const /\ 7 \notin L.const
    BY <1>1 DEF SystemMsg
  <1>9. Renamed(m, SystemRead, "data1", e1, f1)
    <2>1. e1.lo + 7 = 15
      BY <1>4
    <2>2. Pieces(SystemRead, "data1") = {e1}
      BY SystemPieces DEF e1
    <2> QED
      BY <1>3, <1>4, <1>5, <1>6, <1>s, <1>7, <1>8, <2>1, <2>2 DEF Renamed, L
  <1>10. Renamed(m, SystemRead, "data2", e2, f2)
    <2>1. e2.lo + 7 = 7
      BY <1>4
    <2>2. Pieces(SystemRead, "data2") = {e2}
      BY SystemPieces DEF e2
    <2> QED
      BY <1>3, <1>4, <1>5, <1>6, <1>s, <1>7, <1>8, <2>1, <2>2 DEF Renamed, L
  <1>11. AsMeant(m, SystemRead, "data1") /\ AsMeant(m, SystemRead, "data2")
    BY <1>9, <1>10, RenamedMeant
  <1> QED
    BY <1>1, <1>11, SystemTold

(* A system message that is given its status.                              *)
LEMMA AnySystemTold ==
  ASSUME NEW m, Sent(m), m.kind \in DOMAIN AnySystemData
  PROVE  Told(m)
  <1> DEFINE L == Layouts[m.kind]
             fields == AnySystemData[m.kind] \union {Group, StatusByte}
             e1 == F("data1", 8, 0, 8)
             e2 == F("data2", 8, 0, 0)
  <1>1. /\ OnlyTyped(L, 1) /\ L.calls = "on_system" /\ L.fields = fields /\ L.says = None
    BY AnySystemAllKnown DEF StatusByte
  <1>2. NoBytes(L)
    <2>1. m.kind \notin ByteKinds
      BY DEF AnySystemData, ByteKinds, Packets3
    <2> QED
      BY <2>1, RoomOf DEF Sent, Roomed
  <1>3. m.kind \notin {"program", "cv1_pitch_bend", "system_song_position"}
    BY DEF AnySystemData
  <1>4. Span(Group) = 24 .. 27 /\ Span(StatusByte) = 16 .. 23 /\ Span(e1) = 8 .. 15 /\ Span(e2) = 0 .. 7
    BY DEF Group, StatusByte, F, Piece, Span
  <1>5. Group.arg = "group" /\ StatusByte.arg = "status" /\ e1.arg = "data1" /\ e2.arg = "data2"
    BY DEF Group, StatusByte, F, Piece
  <1>6. AnySystemData[m.kind] \in {{}, {e1}, {e1, e2}}
    BY DEF AnySystemData, Data1, Data2
  <1> HIDE DEF L, e1, e2
  <1>7. \A i \in L.const : i \in 28 .. 31
    BY <1>1 DEF OnlyTyped
  <1>8. SystemMsg(m, L, TRUE)
    BY <1>1, <1>3, <1>5, <1>6, <1>7 DEF SystemMsg, L
  <1>9. ASSUME NEW a, NEW e \in L.fields, a \in {"status", "data1", "data2"}, e.arg = a, Pieces(SystemRead, a) = {e}
        PROVE  AsMeant(m, SystemRead, a)
    <2>1. Pieces(L.fields, a) = {e}
      <3>1. \A g \in L.fields : g.arg = a => g = e
        BY <1>1, <1>5, <1>6, <1>9
      <3> QED
        BY <1>9, <3>1 DEF Pieces
    <2>2. e \in Written(m.kind, m.args)
      BY <1>3, <1>9 DEF Written, L
    <2>3. ExpectedOf(m, a) = Meant(m, a)
      BY <1>3 DEF ExpectedOf
    <2>4. Whole(m, SystemRead, a)
      BY <1>9, <2>1, <2>2, <2>3, SystemPieces DEF Whole, SamePieces, L
    <2> QED
      BY <2>4, WholeMeant
  <1>10. /\ Pieces(SystemRead, "status") = {StatusByte} /\ Pieces(SystemRead, "data1") = {e1}
         /\ Pieces(SystemRead, "data2") = {e2}
    BY SystemPieces DEF e1, e2
  <1>11. AsMeant(m, SystemRead, "status")
    BY <1>1, <1>5, <1>9, <1>10
  <1>12. ASSUME NEW a \in {"data1", "data2"}, a \notin ArgsOf(L.fields)
         PROVE  ExpectedOf(m, a) = {}
    <2>1. Meant(m, a) = {}
      BY <1>1, <1>12 DEF Meant, None, L
    <2> QED
      BY <1>3, <2>1 DEF ExpectedOf
  <1>13. AsMeant(m, SystemRead, "data1")
    <2>1. CASE e1 \in L.fields
      BY <1>5, <1>9, <1>10, <2>1
    <2>2. CASE e1 \notin L.fields
      <3>1. L.fields = {Group, StatusByte}
        BY <1>1, <1>6, <2>2
      <3>2. \A i : i \in 24 .. 27 \/ i \in 16 .. 23 => i \notin 8 .. 15
        OBVIOUS
      <3>3. OffFields(L, 8, 15)
        BY <1>4, <3>1, <3>2 DEF OffFields
      <3>4. "data1" \notin ArgsOf(L.fields)
        BY <1>5, <3>1 DEF ArgsOf
      <3> QED
        BY <1>2, <1>8, <1>12, <3>3, <3>4, NoDataByte
    <2> QED
      BY <2>1, <2>2
  <1>14. AsMeant(m, SystemRead, "data2")
    <2>1. CASE e2 \in L.fields
      BY <1>5, <1>9, <1>10, <2>1
    <2>2. CASE e2 \notin L.fields
      <3>1. \A f \in L.fields : f = Group \/ f = StatusByte \/ f = e1
        BY <1>1, <1>6, <2>2
      <3>2. \A i : i \in 24 .. 27 \/ i \in 16 .. 23 \/ i \in 8 .. 15 => i \notin 0 .. 7
        OBVIOUS
      <3>3. OffFields(L, 0, 7)
        BY <1>4, <3>1, <3>2 DEF OffFields
      <3>4. "data2" \notin ArgsOf(L.fields)
        BY <1>5, <3>1 DEF ArgsOf
      <3> QED
        BY <1>2, <1>8, <1>12, <3>3, <3>4, NoDataByte
    <2> QED
      BY <2>1, <2>2
  <1> QED
    BY <1>8, <1>11, <1>13, <1>14, SystemTold

-----------------------------------------------------------------------------
(* MIDI 1.0 pitch bend is written as two data bytes and told as one value. *)
LEMMA PitchBendTold ==
  ASSUME NEW m, Sent(m), m.kind = "cv1_pitch_bend"
  PROVE  Told(m)
  <1> DEFINE L == Layouts[m.kind]
             f1 == Data1(7)
             f2 == Data2(7)
             e1 == Piece("value", 7, 7, 0, 0)
             e2 == Piece("value", 0, 7, 0, 8)
             told == {Group, Channel, e1, e2}
             w == Build(m)
             d1 == m.args["data1"]
             d2 == m.args["data2"]
  <1>1. L.fields = {f1, f2, Group, Channel} /\ L.calls = "on_cv1_pitch_bend"
    <2>1. "cv1_pitch_bend" \in DOMAIN from_midi1
          /\ from_midi1["cv1_pitch_bend"] = Cv1("on_cv1_pitch_bend", \hE0, {f1, f2})
      BY Domains DEF from_midi1
    <2>2. L = Cv1("on_cv1_pitch_bend", \hE0, {f1, f2})
      BY <2>1, LayoutOf DEF Tables
    <2> HIDE DEF L, f1, f2
    <2> QED
      BY <2>2 DEF Cv1, Msg, Channel
  <1>2. Extract["on_cv1_pitch_bend"] = told
    <2>1. Cv1Args \in ArgTables /\ "on_cv1_pitch_bend" \in DOMAIN Cv1Args /\ Cv1Args["on_cv1_pitch_bend"] = told
      BY DEF ArgTables, Cv1Args, GroupChannel, Channel
    <2> QED
      BY <2>1, ExtractOf
  <1>3. m.data \in Seq(Bytes8) /\ Sound(L)
    BY EverySound DEF Sent
  <1>4. Written(m.kind, m.args) = L.fields
    BY DEF Written
  <1>5. /\ Group.arg = "group" /\ Channel.arg = "channel" /\ e1.arg = "value" /\ e2.arg = "value"
        /\ f1.arg = "data1" /\ f2.arg = "data2"
    BY DEF Group, Channel, Data1, Data2, F, Piece
  <1>6. /\ f1.word = 0 /\ f1.from = 0 /\ f1.lo = 8 /\ f1.width = 7 /\ f2.word = 0 /\ f2.from = 0 /\ f2.lo = 0 /\ f2.width = 7
        /\ e1.word = 0 /\ e1.from = 7 /\ e1.lo = 0 /\ e1.width = 7 /\ e2.word = 0 /\ e2.from = 0 /\ e2.lo = 8 /\ e2.width = 7
    BY DEF Data1, Data2, F, Piece
  <1>7. ExpectedOf(m, "value") = Take(d1, 0, 7) \union Put(Take(d2, 0, 7), 7)
    BY DEF ExpectedOf
  <1> HIDE DEF L, f1, f2, e1, e2, w, d1, d2
  <1>8. ASSUME NEW a \in {"group", "channel"} PROVE AsMeant(m, told, a)
    <2>1. Pieces(told, a) = Pieces(L.fields, a) /\ a \in ArgsOf(told)
      BY <1>1, <1>5 DEF Pieces, ArgsOf
    <2>2. Pieces(told, a) \subseteq Written(m.kind, m.args)
      BY <1>4, <2>1 DEF Pieces
    <2>3. ExpectedOf(m, a) = Meant(m, a)
      BY DEF ExpectedOf
    <2> HIDE DEF told
    <2>4. Whole(m, told, a)
      BY <2>1, <2>2, <2>3 DEF Whole, SamePieces, L
    <2> QED
      BY <2>4, WholeMeant
  <1>9. \A i \in 8 .. 14 : i \in w[0] <=> i - 8 \in d1
    <2>1. \A i \in Span(f1) : i \in w[f1.word] <=> f1.from + (i - f1.lo) \in m.args[f1.arg]
      BY <1>1, <1>3, <1>4, FieldRead DEF L, w
    <2>2. Span(f1) = 8 .. 14
      BY <1>6 DEF Span
    <2> QED
      BY <1>5, <1>6, <2>1, <2>2 DEF d1
  <1>10. \A i \in 0 .. 6 : i \in w[0] <=> i \in d2
    <2>1. \A i \in Span(f2) : i \in w[f2.word] <=> f2.from + (i - f2.lo) \in m.args[f2.arg]
      BY <1>1, <1>3, <1>4, FieldRead DEF L, w
    <2>2. Span(f2) = 0 .. 6
      BY <1>6 DEF Span
    <2> QED
      BY <1>5, <1>6, <2>1, <2>2 DEF d2
  <1>11. \A x : x \in Unpacked(told, w, "value") <=> (x \in 0 .. 6 /\ x \in d1) \/ (x \in 7 .. 13 /\ x - 7 \in d2)
    <2>1. Pieces(told, "value") = {e1, e2}
      BY <1>5 DEF Pieces
    <2>2. \A f \in Pieces(told, "value") : PieceType(f)
      BY <1>6, <2>1 DEF PieceType
    <2>3. \A x : x \in Unpacked(told, w, "value") <=> \E g \in Pieces(told, "value") : x \in g.from .. g.from + g.width - 1
                                               /\ g.lo + (x - g.from) \in w[g.word]
      BY <2>2, UnpackedBits
    <2>4. \A x : x \in Unpacked(told, w, "value") <=>
                   \/ x \in e1.from .. e1.from + e1.width - 1 /\ e1.lo + (x - e1.from) \in w[e1.word]
                   \/ x \in e2.from .. e2.from + e2.width - 1 /\ e2.lo + (x - e2.from) \in w[e2.word]
      BY <2>1, <2>3
    <2>5. e1.from .. e1.from + e1.width - 1 = 7 .. 13 /\ e2.from .. e2.from + e2.width - 1 = 0 .. 6
      BY <1>6
    <2>6. /\ \A x \in 7 .. 13 : e1.lo + (x - e1.from) = x - 7
          /\ \A x \in 0 .. 6 : e2.lo + (x - e2.from) = 8 + x
      BY <1>6
    <2>7. \A x : x \in Unpacked(told, w, "value") <=>
                   (x \in 7 .. 13 /\ x - 7 \in w[0]) \/ (x \in 0 .. 6 /\ 8 + x \in w[0])
      BY <1>6, <2>4, <2>5, <2>6
    <2>8. \A x \in 7 .. 13 : x - 7 \in w[0] <=> x - 7 \in d2
      BY <1>10
    <2>9. \A x \in 0 .. 6 : 8 + x \in w[0] <=> x \in d1
      <3> SUFFICES ASSUME NEW x \in 0 .. 6 PROVE 8 + x \in w[0] <=> x \in d1
        OBVIOUS
      <3>1. 8 + x \in 8 .. 14 /\ (8 + x) - 8 = x
        OBVIOUS
      <3> QED
        BY <1>9, <3>1
    <2> QED
      BY <2>7, <2>8, <2>9
  <1>12. \A x : x \in Take(d1, 0, 7) \union Put(Take(d2, 0, 7), 7) <=> (x \in 0 .. 6 /\ x \in d1) \/ (x \in 7 .. 13 /\ x - 7 \in d2)
    <2>1. \A x : x \in Take(d1, 0, 7) <=> x \in 0 .. 6 /\ x \in d1
      BY DEF Take
    <2>2. \A x : x \in Put(Take(d2, 0, 7), 7) <=> x \in 7 .. 13 /\ x - 7 \in d2
      <3>1. 7 \in Nat /\ 0 \in Nat
        OBVIOUS
      <3>2. \A x : x \in Put(Take(d2, 0, 7), 7) <=> \E j \in 0 .. 6 : x = 7 + j /\ j \in d2
        BY DEF Put, Take
      <3>3. \A x \in 7 .. 13 : x - 7 \in 0 .. 6 /\ x = 7 + (x - 7)
        OBVIOUS
      <3>4. \A j \in 0 .. 6 : 7 + j \in 7 .. 13 /\ (7 + j) - 7 = j
        OBVIOUS
      <3> QED
        BY <3>2, <3>3, <3>4
    <2> QED
      BY <2>1, <2>2
  <1>13. AsMeant(m, told, "value")
    <2>1. Unpacked(told, w, "value") = Take(d1, 0, 7) \union Put(Take(d2, 0, 7), 7)
      BY <1>11, <1>12
    <2> HIDE DEF told
    <2> QED
      BY <1>7, <2>1 DEF AsMeant, Signed, w
  <1>14. ArgsOf(told) = {"group", "channel", "value"}
    BY <1>5 DEF ArgsOf
  <1>15. \A a \in ArgsOf(told) : AsMeant(m, told, a)
    BY <1>8, <1>13, <1>14
  <1> HIDE DEF told
  <1> QED
    BY <1>1, <1>2, <1>15, ToldByAll DEF L

(* A key signature at group level has no address, no channel and no tonic. *)
LEMMA KeySigTold ==
  ASSUME NEW m, Sent(m), m.kind = "key_sig"
  PROVE  Told(m)
  <1> DEFINE L == Layouts[m.kind]
             sf == F("sharps_flats", 4, 1, 28)
             kt == F("key_type", 1, 1, 22)
             ek == F("key_type", 2, 1, 22)
             et == F("tonic", 4, 1, 24)
             ea == F("address", 2, 0, 20)
             ec == F("channel", 4, 0, 16)
             told == {ea, ec, Group, sf, et, ek}
  <1>1. L.calls = "on_key_sig" /\ L.fields = {sf, kt, Group} /\ L.says = [address |-> {0}] /\ L.room = 0 /\ L.counts = "no"
        /\ 20 \in L.const
    <2>1. "key_sig" \in DOMAIN FlexLayouts /\ FlexLayouts["key_sig"] = build_flex_w0("on_key_sig", 5, {sf, kt})
      BY Domains DEF FlexLayouts
    <2>2. L = build_flex_w0("on_key_sig", 5, {sf, kt})
      BY <2>1, LayoutOf DEF Tables
    <2> HIDE DEF L, sf, kt
    <2>3. L = [calls |-> "on_key_sig", mask |-> MTBits \union 0 .. 15, const |-> (MT(13) \union Bits(5)) \union {20},
               fields |-> {sf, kt} \union {Group}, says |-> [address |-> {0}], at |-> 0, room |-> 0, counts |-> "no"]
      BY <2>2 DEF build_flex_w0, build_flex_w0_full, Msg
    <2> QED
      BY <2>3
  <1>2. Extract["on_key_sig"] = told
    <2>1. FlexArgs \in ArgTables /\ "on_key_sig" \in DOMAIN FlexArgs
      BY DEF ArgTables, FlexArgs
    <2>2. FlexArgs["on_key_sig"] = FlexAddress \union {Group, sf, et, ek}
      BY DEF FlexArgs
    <2>3. FlexArgs["on_key_sig"] = told
      BY <2>2 DEF FlexAddress
    <2> QED
      BY <2>1, <2>3, ExtractOf
  <1>3. \A i \in 16 .. 27 : i \in L.const => i = 20
    <2>1. "key_sig" \in DOMAIN FlexNumber
      BY DEF FlexNumber
    <2>2. FlexHead(L, FlexNumber["key_sig"])
      BY <2>1, FlexAllKnown DEF FlexAll
    <2> HIDE DEF L
    <2> QED
      BY <2>2 DEF FlexHead
  <1>4. Written(m.kind, m.args) = L.fields
    BY DEF Written
  <1>5. /\ sf.arg = "sharps_flats" /\ kt.arg = "key_type" /\ ek.arg = "key_type" /\ et.arg = "tonic" /\ ea.arg = "address"
        /\ ec.arg = "channel" /\ Group.arg = "group"
    BY DEF Group, F, Piece
  <1>6. sf.word = 1 /\ kt.word = 1 /\ Group.word = 0
    BY DEF Group, F, Piece
  <1>7. Span(sf) = 28 .. 31 /\ Span(kt) = 22 .. 22 /\ Span(Group) = 24 .. 27
    BY DEF Group, F, Piece, Span
  <1>8. /\ PieceType(ek) /\ ek.from = 0 /\ ek.word = 1 /\ ek.lo = 22 /\ ek.width = 2
        /\ kt.from = 0 /\ kt.word = 1 /\ kt.lo = 22 /\ kt.width = 1
    BY DEF PieceType, F, Piece
  <1>9. /\ PieceType(et) /\ et.from = 0 /\ et.word = 1 /\ Span(et) = 24 .. 27
        /\ PieceType(ea) /\ ea.from = 0 /\ ea.word = 0 /\ ea.lo = 20 /\ ea.width = 2 /\ Span(ea) = 20 .. 21
        /\ PieceType(ec) /\ ec.from = 0 /\ ec.word = 0 /\ Span(ec) = 16 .. 19
    BY DEF PieceType, F, Piece, Span
  <1>10. \A a : ExpectedOf(m, a) = Meant(m, a)
    BY DEF ExpectedOf
  <1> HIDE DEF L, sf, kt, ek, et, ea, ec
  <1>11. \A f \in L.fields : \/ f.word = 1 /\ Span(f) = 28 .. 31
                             \/ f.word = 1 /\ Span(f) = 22 .. 22
                             \/ f.word = 0 /\ Span(f) = 24 .. 27
    BY <1>1, <1>6, <1>7
  <1>12. \A i \in 24 .. 27 : Blank(L, L.fields, 1, i)
    <2>1. \A i \in 24 .. 27 : i \notin 28 .. 31 /\ i \notin 22 .. 22
      OBVIOUS
    <2> QED
      BY <1>1, <1>11, <2>1 DEF Blank
  <1>13. \A i \in 23 .. 23 : Blank(L, L.fields, 1, i)
    <2>1. \A i \in 23 .. 23 : i \notin 28 .. 31 /\ i \notin 22 .. 22
      OBVIOUS
    <2> QED
      BY <1>1, <1>11, <2>1 DEF Blank
  <1>14. \A i \in 16 .. 21 : Blank(L, L.fields, 0, i)
    <2>1. \A i \in 16 .. 21 : i \notin 24 .. 27
      OBVIOUS
    <2> QED
      BY <1>1, <1>11, <2>1 DEF Blank, Counted, TailBits
  <1>15. ArgsOf(L.fields) = {"sharps_flats", "key_type", "group"}
    BY <1>1, <1>5 DEF ArgsOf
  <1>16. \A a \in {"tonic", "channel"} : ExpectedOf(m, a) = {}
    BY <1>1, <1>10, <1>15 DEF Meant, L
  <1>17. AsMeant(m, told, "tonic")
    <2>1. Pieces(told, "tonic") = {et}
      BY <1>5 DEF Pieces
    <2> HIDE DEF told
    <2>2. Absent(m, told, "tonic", et)
      BY <1>4, <1>9, <1>12, <1>16, <2>1 DEF Absent, L
    <2> QED
      BY <2>2, AbsentMeant
  <1>18. AsMeant(m, told, "channel")
    <2>1. Pieces(told, "channel") = {ec}
      BY <1>5 DEF Pieces
    <2>2. \A i \in 16 .. 19 : i \in 16 .. 21 /\ i \in 16 .. 27 /\ i # 20
      OBVIOUS
    <2> HIDE DEF told
    <2>3. Absent(m, told, "channel", ec)
      BY <1>3, <1>4, <1>9, <1>14, <1>16, <2>1, <2>2 DEF Absent, L
    <2> QED
      BY <2>3, AbsentMeant
  <1>19. AsMeant(m, told, "address")
    <2>1. Pieces(told, "address") = {ea}
      BY <1>5 DEF Pieces
    <2>2. \A i \in 20 .. 21 : i \in 16 .. 21
      OBVIOUS
    <2>3. Take(L.const, 20, 2) = {0}
      BY <1>1, <1>3 DEF Take
    <2>4. ExpectedOf(m, "address") = {0}
      <3>1. "address" \notin ArgsOf(L.fields)
        BY <1>15
      <3>2. "address" \in DOMAIN L.says /\ L.says["address"] = {0}
        BY <1>1
      <3>3. Meant(m, "address") = {0}
        BY <3>1, <3>2 DEF Meant, L
      <3> QED
        BY <1>10, <3>3
    <2> HIDE DEF told
    <2>5. Stated(m, told, "address", ea)
      BY <1>4, <1>9, <1>14, <2>1, <2>2, <2>3, <2>4 DEF Stated, Signed, L
    <2> QED
      BY <2>5, StatedMeant
  <1>20. AsMeant(m, told, "key_type")
    <2>1. Pieces(told, "key_type") = {ek} /\ Pieces(L.fields, "key_type") = {kt}
      BY <1>1, <1>5 DEF Pieces
    <2>2. kt.lo + kt.width .. ek.lo + ek.width - 1 = 23 .. 23 /\ kt.width <= ek.width
      BY <1>8
    <2>3. 23 \notin L.const
      BY <1>3
    <2>4. kt \in Written(m.kind, m.args)
      BY <1>1, <1>4
    <2> HIDE DEF told
    <2>5. Narrow(m, told, "key_type", ek, kt)
      BY <1>4, <1>8, <1>10, <1>13, <2>1, <2>2, <2>3, <2>4 DEF Narrow, Signed, L
    <2> QED
      BY <2>5, NarrowMeant
  <1>21. ASSUME NEW a \in {"sharps_flats", "group"} PROVE AsMeant(m, told, a)
    <2>1. Pieces(told, a) = Pieces(L.fields, a) /\ a \in ArgsOf(told)
      BY <1>1, <1>5 DEF Pieces, ArgsOf
    <2>2. Pieces(told, a) \subseteq Written(m.kind, m.args)
      BY <1>4, <2>1 DEF Pieces
    <2> HIDE DEF told
    <2>3. Whole(m, told, a)
      BY <1>10, <2>1, <2>2 DEF Whole, SamePieces, L
    <2> QED
      BY <2>3, WholeMeant
  <1>22. ArgsOf(told) = {"address", "channel", "group", "sharps_flats", "tonic", "key_type"}
    BY <1>5 DEF ArgsOf
  <1>23. \A a \in ArgsOf(told) : AsMeant(m, told, a)
    BY <1>17, <1>18, <1>19, <1>20, <1>21, <1>22
  <1> HIDE DEF told
  <1> QED
    BY <1>1, <1>2, <1>23, ToldByAll DEF L

(* The names of an endpoint are told by their status.                      *)
LEMMA StreamTextTold ==
  ASSUME NEW m, Sent(m), m.kind \in {"stream_endpoint_name", "stream_product_id"}
  PROVE  Told(m)
  <1> DEFINE L == Layouts[m.kind]
             n == IF m.kind = "stream_endpoint_name" THEN 3 ELSE 4
             es == F("status", 10, 0, 16)
             told == {es, Format}
  <1>1. /\ L.calls = "on_stream_text" /\ L.fields = {Format} /\ L.says = [status |-> Bits(n)]
        /\ L.room = 14 /\ L.at = 16 /\ L.counts = "no"
    <2>1. m.kind \in DOMAIN StreamTextLayouts
      BY Domains
    <2>2. L = StreamTextLayouts[m.kind]
      BY <2>1, LayoutOf DEF Tables
    <2>3. StreamTextLayouts[m.kind] =
            WithBytes(Says(build_stream_w0("on_stream_text", n, {Format}), [status |-> Bits(n)]), 16, 14, "no")
      BY DEF StreamTextLayouts
    <2> HIDE DEF L, n
    <2>4. L = [calls |-> "on_stream_text", mask |-> MTBits \union 16 .. 25, const |-> MT(15) \union Put(Bits(n), 16),
               fields |-> {Format}, says |-> [status |-> Bits(n)], at |-> 16, room |-> 14, counts |-> "no"]
      BY <2>2, <2>3 DEF build_stream_w0, Says, WithBytes, Msg
    <2> QED
      BY <2>4
  <1>2. Extract["on_stream_text"] = told
    <2>1. StreamArgs \in ArgTables /\ "on_stream_text" \in DOMAIN StreamArgs
      BY DEF ArgTables, StreamArgs
    <2>2. StreamArgs["on_stream_text"] = told
      BY DEF StreamArgs, Format
    <2> QED
      BY <2>1, <2>2, ExtractOf
  <1>3. Headed(L, 15, 16, 10, n)
    <2>1. m.kind \in DOMAIN StreamNumber /\ StreamNumber[m.kind] = n
      BY DEF StreamNumber
    <2> HIDE DEF L, n
    <2> QED
      BY <2>1, StreamAllKnown DEF StreamAll, Known, L
  <1>4. HeadKind(15, 16, 10, n)
    <2>1. n \in 0 .. 15
      OBVIOUS
    <2>2. Bits(n) \subseteq 0 .. 3
      BY <2>1, LowBits
    <2>3. \A i \in 0 .. 3 : i \in 0 .. 10 - 1
      OBVIOUS
    <2> HIDE DEF n
    <2> QED
      BY <2>1, <2>2, <2>3 DEF HeadKind, TenBitNumbers, OfBits
  <1>5. Take(L.const, 16, 10) = Bits(n)
    BY <1>3, <1>4, HeadTake
  <1>6. Written(m.kind, m.args) = {Format}
    BY <1>1 DEF Written
  <1>7. /\ PieceType(es) /\ es.from = 0 /\ es.word = 0 /\ es.lo = 16 /\ es.width = 10 /\ es.arg = "status"
        /\ Span(es) = 16 .. 25 /\ Span(Format) = 26 .. 27 /\ Format.arg = "format"
    BY DEF PieceType, Span, Format, F, Piece
  <1>8. \A a : ExpectedOf(m, a) = Meant(m, a)
    BY DEF ExpectedOf
  <1>9. ArgsOf(L.fields) = {"format"} /\ ArgsOf(told) = {"status", "format"}
    BY <1>1, <1>7 DEF ArgsOf
  <1> HIDE DEF L, n, es
  <1>10. AsMeant(m, told, "status")
    <2>1. Pieces(told, "status") = {es}
      BY <1>7 DEF Pieces
    <2>2. ExpectedOf(m, "status") = Bits(n)
      <3>1. "status" \notin ArgsOf(L.fields)
        BY <1>9
      <3>2. "status" \in DOMAIN L.says /\ L.says["status"] = Bits(n)
        BY <1>1
      <3>3. Meant(m, "status") = Bits(n)
        BY <3>1, <3>2 DEF Meant, L
      <3> QED
        BY <1>8, <3>3
    <2>3. \A i \in 16 .. 25 : i \notin 26 .. 27 /\ i \notin 0 .. 31 - 16
      OBVIOUS
    <2>4. \A i \in 16 .. 25 : Blank(L, {Format}, 0, i)
      BY <1>1, <1>7, <2>3 DEF Blank, Counted, TailBits
    <2> HIDE DEF told
    <2>5. Stated(m, told, "status", es)
      BY <1>5, <1>6, <1>7, <2>1, <2>2, <2>4 DEF Stated, Signed, L
    <2> QED
      BY <2>5, StatedMeant
  <1>11. AsMeant(m, told, "format")
    <2>1. Pieces(told, "format") = {Format} /\ Pieces(L.fields, "format") = {Format}
      BY <1>1, <1>7 DEF Pieces
    <2> HIDE DEF told
    <2>2. Whole(m, told, "format")
      BY <1>6, <1>8, <1>9, <2>1 DEF Whole, SamePieces, L
    <2> QED
      BY <2>2, WholeMeant
  <1>12. \A a \in ArgsOf(told) : AsMeant(m, told, a)
    BY <1>9, <1>10, <1>11
  <1> HIDE DEF told
  <1> QED
    BY <1>1, <1>2, <1>12, ToldByAll DEF L

(* The start and the end of a clip are told from their status.             *)
LEMMA ClipTold ==
  ASSUME NEW m, Sent(m), m.kind \in {"stream_start_of_clip", "stream_end_of_clip"}
  PROVE  Told(m)
  <1> DEFINE L == Layouts[m.kind]
             n == IF m.kind = "stream_start_of_clip" THEN 32 ELSE 33
  <1>1. L.calls = "on_clip" /\ L.fields = {} /\ L.says = IF m.kind = "stream_start_of_clip" THEN [start |-> {0}] ELSE None
    <2>1. m.kind \in DOMAIN StreamTextLayouts
      BY Domains
    <2>2. L = StreamTextLayouts[m.kind]
      BY <2>1, LayoutOf DEF Tables
    <2>3. CASE m.kind = "stream_start_of_clip"
      <3>1. StreamTextLayouts["stream_start_of_clip"] = Says(build_stream_w0("on_clip", \h20, {}), [start |-> {0}])
        BY DEF StreamTextLayouts
      <3> QED
        BY <2>2, <2>3, <3>1 DEF Says, build_stream_w0, Msg
    <2>4. CASE m.kind = "stream_end_of_clip"
      <3>1. StreamTextLayouts["stream_end_of_clip"] = build_stream_w0("on_clip", \h21, {})
        BY DEF StreamTextLayouts
      <3> QED
        BY <2>2, <2>4, <3>1 DEF build_stream_w0, Msg
    <2> QED
      BY <2>3, <2>4
  <1>2. Num(Take(Build(m)[0], 16, 10)) = n
    <2>1. m.kind \in DOMAIN StreamNumber /\ StreamNumber[m.kind] = n
      BY DEF StreamNumber
    <2>2. m.data \in Seq(Bytes8) /\ Sound(L)
      BY EverySound DEF Sent
    <2> HIDE DEF L, n
    <2>3. HeadIs(Build(m), L)
      BY <2>2, MaskRead DEF HeadIs, L
    <2>4. Headed(L, 15, 16, 10, n)
      BY <2>1, StreamAllKnown DEF StreamAll, Known, L
    <2> QED
      BY <2>3, <2>4 DEF Headed
  <1>3. \A a : ExpectedOf(m, a) = Meant(m, a)
    BY DEF ExpectedOf
  <1>4. Meant(m, "start") = IF m.kind = "stream_start_of_clip" THEN {0} ELSE {}
    <2>1. "start" \notin ArgsOf(L.fields)
      BY <1>1 DEF ArgsOf
    <2>2. CASE m.kind = "stream_start_of_clip"
      <3>1. "start" \in DOMAIN L.says /\ L.says["start"] = {0}
        BY <1>1, <2>2
      <3> HIDE DEF L
      <3> QED
        BY <2>1, <2>2, <3>1 DEF Meant, L
    <2>3. CASE m.kind # "stream_start_of_clip"
      <3>1. "start" \notin DOMAIN L.says
        BY <1>1, <2>3 DEF None
      <3> HIDE DEF L
      <3> QED
        BY <2>1, <2>3, <3>1 DEF Meant, L
    <2> QED
      BY <2>2, <2>3
  <1>5. \A a \in DOMAIN ClipArgs(Build(m)) : ClipArgs(Build(m))[a] = ExpectedOf(m, a)
    BY <1>2, <1>3, <1>4 DEF ClipArgs
  <1> QED
    BY <1>1, <1>5 DEF Told, Call

(* Every callback is told what the builder was given.                      *)
LEMMA ToldAll ==
  ASSUME NEW m, Sent(m)
  PROVE  Told(m)
  <1>0. m.kind \in UmpKinds /\ m.data \in Seq(Bytes8)
    BY DEF Sent
  <1>x. Exact(Layouts[m.kind]) /\ m.kind \notin Special => Told(m)
    BY <1>0, ExactTold
  <1>1. CASE m.kind \in DOMAIN VoiceNumber
    <2>1. Exact(Layouts[m.kind])
      BY <1>1, Cv2AllAgree DEF Voiced, Agrees
    <2>2. m.kind \notin {"system_song_position", "cv1_pitch_bend"}
      BY <1>1 DEF VoiceNumber
    <2> QED
      BY <1>x, <2>1, <2>2, ProgramTold DEF Special
  <1>2. CASE m.kind \in DOMAIN CvOneNumber
    <2>1. m.kind # "cv1_pitch_bend" => Exact(Layouts[m.kind])
      BY <1>2, CvOneAllKnown
    <2>2. m.kind \notin {"system_song_position", "program"}
      BY <1>2 DEF CvOneNumber
    <2> QED
      BY <1>x, <2>1, <2>2, PitchBendTold DEF Special
  <1>3. CASE m.kind \in DOMAIN UtilityNumber
    <2>1. Exact(Layouts[m.kind])
      BY <1>3, UtilityAllAgree DEF Agrees
    <2>2. m.kind \notin Special
      BY <1>3 DEF UtilityNumber, Special
    <2> QED
      BY <1>x, <2>1, <2>2
  <1>4. CASE m.kind \in DOMAIN SystemStatus
    <2>1. m.kind # "system_song_position" => SystemData(m.kind) \in {{}, {Data1(7)}}
      BY DEF SystemData
    <2> QED
      BY <1>4, <2>1, PlainSystemTold, SongPositionTold
  <1>5. CASE m.kind \in DOMAIN AnySystemData
    BY <1>5, AnySystemTold
  <1>6. CASE m.kind \in DOMAIN FlexNumber
    <2>1. m.kind # "key_sig" => Exact(Layouts[m.kind])
      BY <1>6, FlexAllKnown DEF FlexAll
    <2>2. m.kind \notin Special
      BY <1>6 DEF FlexNumber, Special
    <2> QED
      BY <1>x, <2>1, <2>2, KeySigTold
  <1>7. CASE m.kind \in DOMAIN StreamNumber
    <2>1. m.kind \notin InexactStream => Exact(Layouts[m.kind])
      BY <1>7, StreamAllKnown DEF StreamAll
    <2>2. m.kind \notin Special
      BY <1>7 DEF StreamNumber, Special
    <2> QED
      BY <1>x, <2>1, <2>2, StreamTextTold, ClipTold DEF InexactStream
  <1>8. CASE m.kind \in {"mds_header", "mds_payload"}
    <2>1. Exact(Layouts[m.kind])
      BY <1>8, MdsHeaderAgrees, MdsPayloadAgrees DEF Agrees
    <2>2. m.kind \notin Special
      BY <1>8 DEF Special
    <2> QED
      BY <1>x, <2>1, <2>2
  <1>9. CASE m.kind \in Packets3
    <2>1. Exact(Layouts[m.kind])
      BY <1>9, PacketsKnown DEF PacketKnown, Packets3
    <2>2. m.kind \notin Special
      BY <1>9 DEF Packets3, Special
    <2> QED
      BY <1>x, <2>1, <2>2
  <1> QED
    BY <1>0, <1>1, <1>2, <1>3, <1>4, <1>5, <1>6, <1>7, <1>8, <1>9, EveryKind

-----------------------------------------------------------------------------
(* Bytes.  The last byte that is not zero: the length of trimmed bytes.    *)
Filled(bs) == {0} \union {i \in DOMAIN bs : bs[i] # {}}

(* The last byte that is not zero of a sequence of bytes.                  *)
LEMMA LastFilled ==
  ASSUME NEW N \in Nat, NEW bs, DOMAIN bs = 1 .. N
  PROVE  /\ Max(Filled(bs)) \in 0 .. N
         /\ \A i \in 1 .. N : bs[i] # {} => i <= Max(Filled(bs))
         /\ \A T : T = Filled(bs) => Max(T) = Max(Filled(bs))
  <1> DEFINE T == Filled(bs)
  <1>1. T \subseteq 0 .. N /\ T # {} /\ \A i \in 1 .. N : bs[i] # {} => i \in T
    BY DEF Filled
  <1> HIDE DEF T
  <1>2. PICK x \in T : \A k \in T : k <= x
    BY <1>1, GreatestElement
  <1>3. \A k \in T : k \in Int
    BY <1>1
  <1>4. Max(T) \in T /\ \A k \in T : Max(T) >= k
    <2>1. \E y \in T : \A k \in T : y >= k
      BY <1>2, <1>3
    <2> QED
      BY <2>1 DEF Max
  <1>5. \A k \in T : k <= Max(T)
    BY <1>3, <1>4
  <1> QED
    BY <1>1, <1>4, <1>5 DEF T

(* Two sequences that are the same up to there are trimmed the same.       *)
LEMMA TrimmedAlike ==
  ASSUME NEW S, NEW a \in Seq(S), NEW b \in Seq(S),
         \A i \in 1 .. Len(a) : a[i] # {} => i \in 1 .. Len(b),
         \A i \in 1 .. Len(b) : b[i] # {} => i \in 1 .. Len(a),
         \A i \in 1 .. Len(a) : i \in 1 .. Len(b) => a[i] = b[i]
  PROVE  Trimmed(a) = Trimmed(b)
  <1>1. Filled(a) = Filled(b)
    BY DEF Filled
  <1> DEFINE K == Max(Filled(a))
  <1>2. K \in 0 .. Len(a) /\ K \in 0 .. Len(b)
    <2>1. Len(a) \in Nat /\ Len(b) \in Nat /\ DOMAIN a = 1 .. Len(a) /\ DOMAIN b = 1 .. Len(b)
      OBVIOUS
    <2>2. Max(Filled(a)) \in 0 .. Len(a)
      BY <2>1, LastFilled
    <2>3. Max(Filled(b)) \in 0 .. Len(b)
      BY <2>1, LastFilled
    <2> QED
      BY <1>1, <2>2, <2>3
  <1>3. Trimmed(a) = SubSeq(a, 1, K) /\ Trimmed(b) = SubSeq(b, 1, K)
    BY <1>1 DEF Trimmed, Filled
  <1> HIDE DEF K
  <1>4. SubSeq(a, 1, K) = [i \in 1 .. K |-> a[i]] /\ SubSeq(b, 1, K) = [i \in 1 .. K |-> b[i]]
    BY <1>2
  <1>5. \A i \in 1 .. K : a[i] = b[i]
    BY <1>2
  <1> QED
    BY <1>3, <1>4, <1>5

(* What is trimmed cannot be trimmed further.                              *)
LEMMA TrimmedTwice ==
  ASSUME NEW S, NEW a \in Seq(S)
  PROVE  Trimmed(a) \in Seq(S) /\ Trimmed(Trimmed(a)) = Trimmed(a)
  <1> DEFINE K == Max(Filled(a))
             t == Trimmed(a)
  <1>1. K \in 0 .. Len(a) /\ \A i \in 1 .. Len(a) : a[i] # {} => i <= K
    <2>1. Len(a) \in Nat /\ DOMAIN a = 1 .. Len(a)
      OBVIOUS
    <2> QED
      BY <2>1, LastFilled
  <1>2. t = SubSeq(a, 1, K)
    BY DEF Trimmed, Filled
  <1> HIDE DEF K, t
  <1>3. t \in Seq(S) /\ Len(t) = K /\ \A i \in 1 .. K : t[i] = a[i]
    BY <1>1, <1>2
  <1>4. \A i \in 1 .. Len(a) : a[i] # {} => i \in 1 .. K
    BY <1>1
  <1>5. \A i \in 1 .. K : i \in 1 .. Len(a)
    BY <1>1
  <1>6. Trimmed(a) = Trimmed(t)
    BY <1>3, <1>4, <1>5, TrimmedAlike
  <1> QED
    BY <1>3, <1>6 DEF t

SameBytesOf(m, got) ==
  LET L == Layouts[m.kind]
      fit == Fitting(L, m.data)
  IN  IF L.calls \in {"on_sysex7", "on_sysex8"} THEN got = fit ELSE Trimmed(got) = Trimmed(fit)

(* The bytes that the caller of the builder expects, as an operator of the *)
(* message.                                                                *)
LEMMA SentBytes == \A got : SameBytes(got) <=> SameBytesOf(sent, got)
  BY DEF SameBytes, SameBytesOf, Layout, Fitting

(* The bytes of a message are those that were given, and zeros.            *)
LEMMA PaddedBytes ==
  ASSUME NEW m, Sent(m), HasBytes(Layouts[m.kind])
  PROVE  LET L == Layouts[m.kind]
             kept == Fitting(L, m.data)
             all == AllBytes(L.calls, Build(m))
         IN  /\ all \in Seq(Bytes8) /\ Len(all) = L.room
             /\ \A i \in 1 .. L.room : all[i] = IF i <= Len(kept) THEN kept[i] ELSE {}
  <1> DEFINE L == Layouts[m.kind]
             kept == Fitting(L, m.data)
             all == AllBytes(L.calls, Build(m))
             room == L.room
  <1>1. m.data \in Seq(Bytes8) /\ Sound(L)
    BY EverySound DEF Sent
  <1>2. Payload[L.calls] = <<L.at, room>> /\ room \in {6, 12, 13, 14}
    BY DEF HasBytes
  <1>3. all = [i \in 1 .. room |-> Take(Build(m)[ByteWord(L.at, i)], ByteLo(L.at, i), 8)]
    BY <1>2 DEF AllBytes
  <1>4. \A i \in 1 .. room : Take(Build(m)[ByteWord(L.at, i)], ByteLo(L.at, i), 8) = IF i <= Len(kept) THEN kept[i] ELSE {}
    BY <1>1, ByteRead
  <1> HIDE DEF L, kept, all, room
  <1>5. \A i \in 1 .. room : all[i] = IF i <= Len(kept) THEN kept[i] ELSE {}
    BY <1>3, <1>4
  <1>6. \A i \in 1 .. room : all[i] \in Bytes8
    <2> SUFFICES ASSUME NEW i \in 1 .. room PROVE all[i] \in Bytes8
      OBVIOUS
    <2> DEFINE x == Build(m)[ByteWord(L.at, i)]
               lo == ByteLo(L.at, i)
    <2>1. all[i] = Take(x, lo, 8)
      BY <1>3
    <2> HIDE DEF x, lo
    <2>2. Take(x, lo, 8) \subseteq 0 .. 7
      BY DEF Take
    <2> QED
      BY <2>1, <2>2 DEF Bytes8
  <1>7. all \in Seq(Bytes8) /\ Len(all) = room
    <2>1. room \in Nat /\ DOMAIN all = 1 .. room /\ all = [i \in 1 .. room |-> all[i]]
      BY <1>2, <1>3
    <2>2. all \in [1 .. room -> Bytes8]
      BY <1>6, <2>1
    <2>3. all \in Seq(Bytes8)
      BY <2>1, <2>2, SeqDef
    <2> QED
      BY <2>1, <2>3
  <1> QED
    BY <1>5, <1>7 DEF L, kept, all, room

(* The count of a SysEx packet is that of its bytes.                       *)
LEMMA CountIs ==
  ASSUME NEW m, Sent(m), NEW n \in 0 .. 14, Layouts[m.kind].counts # "no",
         CountBits(Layouts[m.kind], m.data) = Put(Bits(n), 16)
  PROVE  Num(Take(Build(m)[0], 16, 4)) = n
  <1>1. m.data \in Seq(Bytes8) /\ Sound(Layouts[m.kind])
    BY EverySound DEF Sent
  <1>2. n \in TenBitNumbers /\ OfBits(n, 4) /\ 16 \in Nat /\ 4 \in 0 .. 10
    <2>1. Bits(n) \subseteq 0 .. 3
      BY LowBits
    <2> QED
      BY <2>1 DEF TenBitNumbers, OfBits
  <1>3. \A i : i \in Put(Bits(n), 16) <=> i \in Int /\ i - 16 \in Bits(n)
    <2>1. Bits(n) \subseteq Int
      BY DEF Bits
    <2> HIDE DEF Bits
    <2> QED
      BY <2>1, PutBits
  <1>4. \A i \in 16 .. 19 : i \in Build(m)[0] <=> i - 16 \in Bits(n)
    <2> SUFFICES ASSUME NEW i \in 16 .. 19 PROVE i \in Build(m)[0] <=> i - 16 \in Bits(n)
      OBVIOUS
    <2>1. i \in Build(m)[0] <=> i \in CountBits(Layouts[m.kind], m.data)
      BY <1>1, CountRead
    <2> QED
      BY <1>3, <2>1
  <1>5. Shows(Build(m)[0], 16, 4, n)
    BY <1>4 DEF Shows
  <1> QED
    BY <1>2, <1>5, HoldsNumber

(* SysEx is told byte by byte as it was given.                             *)
LEMMA SysexBytes ==
  ASSUME NEW m, Sent(m), HasBytes(Layouts[m.kind]), Layouts[m.kind].calls \in {"on_sysex7", "on_sysex8"}
  PROVE  Bytes(Layouts[m.kind].calls, Build(m)) = Fitting(Layouts[m.kind], m.data)
  <1> DEFINE L == Layouts[m.kind]
             kept == Fitting(L, m.data)
             all == AllBytes(L.calls, Build(m))
             n == Len(kept)
             room == L.room
  <1>1. /\ all \in Seq(Bytes8) /\ Len(all) = room
        /\ \A i \in 1 .. room : all[i] = IF i <= Len(kept) THEN kept[i] ELSE {}
    BY PaddedBytes
  <1>2. kept \in Seq(Bytes8) /\ n \in 0 .. room /\ room \in 0 .. 14
    BY EverySound, KeptFit DEF Sent
  <1>3. Payload[L.calls] = <<L.at, room>> /\ L.counts = IF L.calls = "on_sysex7" THEN "bytes" ELSE "bytes and stream_id"
    BY DEF HasBytes
  <1>4. room = IF L.calls = "on_sysex7" THEN 6 ELSE 13
    <2>1. Payload["on_sysex7"] = <<16, 6>> /\ Payload["on_sysex8"] = <<24, 13>>
      BY DEF Payload
    <2>2. \A x, y, u, v : <<x, y>> = <<u, v>> => y = v
      OBVIOUS
    <2> HIDE DEF room
    <2>3. CASE L.calls = "on_sysex7"
      <3>1. <<L.at, room>> = <<16, 6>>
        BY <1>3, <2>1, <2>3
      <3> QED
        BY <2>2, <2>3, <3>1
    <2>4. CASE L.calls = "on_sysex8"
      <3>1. <<L.at, room>> = <<24, 13>>
        BY <1>3, <2>1, <2>4
      <3> QED
        BY <2>2, <2>4, <3>1
    <2> QED
      BY <2>3, <2>4
  <1>5. Bytes(L.calls, Build(m)) = SubSeq(all, 1, n)
    <2> DEFINE num == Num(Take(Build(m)[0], 16, 4))
    <2>1. CASE L.calls = "on_sysex7"
      <3>1. CountBits(L, m.data) = Put(Bits(n), 16) /\ L.counts # "no"
        BY <1>3, <2>1 DEF CountBits
      <3>2. n \in 0 .. 6 /\ n \in 0 .. 14
        BY <1>2, <1>4, <2>1
      <3> HIDE DEF n
      <3>3. num = n
        BY <3>1, <3>2, CountIs
      <3> HIDE DEF num
      <3>4. Bytes(L.calls, Build(m)) = SubSeq(all, 1, Min({num, 6}))
        BY <2>1 DEF Bytes, num
      <3>5. Min({n, 6}) = n
        BY <3>2 DEF Min
      <3> QED
        BY <3>3, <3>4, <3>5
    <2>2. CASE L.calls = "on_sysex8"
      <3>1. CountBits(L, m.data) = Put(Bits(n + 1), 16) /\ L.counts # "no"
        BY <1>3, <2>2 DEF CountBits
      <3>0. n \in 0 .. 13
        BY <1>2, <1>4, <2>2
      <3> HIDE DEF n
      <3>2. n \in 0 .. 13 /\ n + 1 \in 0 .. 14
        BY <3>0
      <3>3. num = n + 1
        BY <3>1, <3>2, CountIs
      <3> HIDE DEF num
      <3>4. Bytes(L.calls, Build(m)) = SubSeq(all, 1, Min({IF num > 1 THEN num - 1 ELSE 0, 13}))
        BY <2>2 DEF Bytes, num
      <3>5. (IF num > 1 THEN num - 1 ELSE 0) = n
        BY <3>2, <3>3
      <3>6. Min({n, 13}) = n
        BY <3>2 DEF Min
      <3> QED
        BY <3>4, <3>5, <3>6
    <2> QED
      BY <2>1, <2>2
  <1> HIDE DEF L, kept, all, n, room
  <1>6. SubSeq(all, 1, n) = [i \in 1 .. n |-> all[i]]
    BY <1>1, <1>2
  <1>7. \A i \in 1 .. n : all[i] = kept[i]
    BY <1>1, <1>2 DEF n
  <1>8. kept = [i \in 1 .. n |-> kept[i]]
    BY <1>2 DEF n
  <1>9. SubSeq(all, 1, n) = kept
    BY <1>6, <1>7, <1>8
  <1> QED
    BY <1>5, <1>9 DEF L, kept

(* Other bytes are told up to trailing zeros.                              *)
LEMMA TextBytes ==
  ASSUME NEW m, Sent(m), HasBytes(Layouts[m.kind]), Layouts[m.kind].calls \notin {"on_sysex7", "on_sysex8"}
  PROVE  Trimmed(Bytes(Layouts[m.kind].calls, Build(m))) = Trimmed(Fitting(Layouts[m.kind], m.data))
  <1> DEFINE L == Layouts[m.kind]
             kept == Fitting(L, m.data)
             all == AllBytes(L.calls, Build(m))
             got == Bytes(L.calls, Build(m))
             room == L.room
  <1>1. /\ all \in Seq(Bytes8) /\ Len(all) = room
        /\ \A i \in 1 .. room : all[i] = IF i <= Len(kept) THEN kept[i] ELSE {}
    BY PaddedBytes
  <1>2. kept \in Seq(Bytes8) /\ Len(kept) \in 0 .. room /\ room \in 0 .. 14
    BY EverySound, KeptFit DEF Sent
  <1>3. got = all \/ got = Trimmed(all)
    BY DEF Bytes, Text
  <1> HIDE DEF L, kept, all, got, room
  <1>4. Trimmed(got) = Trimmed(all)
    BY <1>1, <1>3, TrimmedTwice
  <1>5. /\ \A i \in 1 .. Len(all) : all[i] # {} => i \in 1 .. Len(kept)
        /\ \A i \in 1 .. Len(kept) : i \in 1 .. Len(all) /\ all[i] = kept[i]
    BY <1>1, <1>2
  <1>6. Trimmed(all) = Trimmed(kept)
    BY <1>1, <1>2, <1>5, TrimmedAlike
  <1> QED
    BY <1>4, <1>6 DEF L, kept, got

(* Every callback is told the bytes that the builder was given.            *)
LEMMA SameBytesAll ==
  ASSUME NEW m, Sent(m)
  PROVE  SameBytesOf(m, Call(Layouts[m.kind].calls, Build(m)).data)
  <1> DEFINE L == Layouts[m.kind]
             got == Call(L.calls, Build(m)).data
  <1>1. got = IF L.calls \in PayloadNames THEN Bytes(L.calls, Build(m)) ELSE <<>>
    BY PayloadDomain DEF Call
  <1>2. Roomed(m.kind, L)
    BY RoomOf DEF Sent
  <1>3. CASE HasBytes(L)
    <2>1. got = Bytes(L.calls, Build(m))
      BY <1>1, <1>3 DEF HasBytes
    <2>2. L.calls \in {"on_sysex7", "on_sysex8"} => got = Fitting(L, m.data)
      BY <1>3, <2>1, SysexBytes
    <2>3. L.calls \notin {"on_sysex7", "on_sysex8"} => Trimmed(got) = Trimmed(Fitting(L, m.data))
      BY <1>3, <2>1, TextBytes
    <2> HIDE DEF L, got
    <2>4. SameBytesOf(m, got) <=> IF L.calls \in {"on_sysex7", "on_sysex8"} THEN got = Fitting(L, m.data)
                                  ELSE Trimmed(got) = Trimmed(Fitting(L, m.data))
      BY DEF SameBytesOf, L
    <2>5. SameBytesOf(m, got)
      BY <2>2, <2>3, <2>4
    <2> QED
      BY <2>5 DEF L, got
  <1>4. CASE NoBytes(L)
    <2>1. got = <<>> /\ L.calls \notin {"on_sysex7", "on_sysex8"} /\ L.room = 0
      BY <1>1, <1>4 DEF NoBytes, PayloadNames
    <2>2. Fitting(L, m.data) = <<>>
      <3>1. Len(m.data) \in Nat
        BY DEF Sent
      <3>2. Min({Len(m.data), 0}) = 0
        <4> DEFINE k == Len(m.data)
        <4> HIDE DEF k
        <4> QED
          BY <3>1 DEF Min, k
      <3> QED
        BY <2>1, <3>2 DEF Fitting
    <2> HIDE DEF L, got
    <2>3. SameBytesOf(m, got) <=> IF L.calls \in {"on_sysex7", "on_sysex8"} THEN got = Fitting(L, m.data)
                                  ELSE Trimmed(got) = Trimmed(Fitting(L, m.data))
      BY DEF SameBytesOf, L
    <2>4. SameBytesOf(m, got)
      BY <2>1, <2>2, <2>3
    <2> QED
      BY <2>4 DEF L, got
  <1> QED
    BY <1>2, <1>3, <1>4 DEF Roomed

(* What a message of a kind is: its type, and with one of the types that   *)
(* have a group it has that group and no other.                            *)
GroupTypes == {1, 2, 3, 4, 5, 13}
OfType(L, n0) ==
  /\ \A w : HeadIs(w, L) => TypeOf(w) = n0
  /\ n0 \in GroupTypes \union {0, 15}
  /\ n0 \in GroupTypes => Grouped(L)

(* It is what its header says.                                             *)
LEMMA HeadedType ==
  ASSUME NEW L, NEW n0, NEW lo, NEW k, NEW n, Headed(L, n0, lo, k, n), n0 \in GroupTypes \union {0, 15},
         n0 \in GroupTypes => Grouped(L)
  PROVE  OfType(L, n0)
  BY DEF Headed, OfType

(* Every kind is of one type.                                              *)
LEMMA KindType ==
  ASSUME NEW kind \in UmpKinds
  PROVE  \E n0 : OfType(Layouts[kind], n0)
  <1> DEFINE L == Layouts[kind]
  <1>0. {0, 15} \intersect GroupTypes = {} /\ \A n \in {1, 2, 4, 5, 13, 0, 15} : n \in GroupTypes \union {0, 15}
    BY DEF GroupTypes
  <1>1. CASE kind \in DOMAIN VoiceNumber
    <2>1. Headed(L, 4, 20, 4, VoiceNumber[kind]) /\ Grouped(L)
      BY <1>1, Cv2AllAgree DEF Voiced, Agrees, Known
    <2> HIDE DEF L
    <2>2. OfType(L, 4)
      BY <1>0, <2>1, HeadedType
    <2> QED
      BY <2>2 DEF L
  <1>2. CASE kind \in DOMAIN CvOneNumber
    <2>1. Headed(L, 2, 20, 4, CvOneNumber[kind]) /\ Grouped(L)
      BY <1>2, CvOneAllKnown DEF Known
    <2> HIDE DEF L
    <2>2. OfType(L, 2)
      BY <1>0, <2>1, HeadedType
    <2> QED
      BY <2>2 DEF L
  <1>3. CASE kind \in DOMAIN UtilityNumber
    <2>1. Headed(L, 0, 20, 4, UtilityNumber[kind])
      BY <1>3, UtilityAllAgree DEF Agrees, Known
    <2> HIDE DEF L
    <2>2. OfType(L, 0)
      BY <1>0, <2>1, HeadedType
    <2> QED
      BY <2>2 DEF L
  <1>4. CASE kind \in DOMAIN SystemStatus
    <2>1. Headed(L, 1, 16, 8, SystemStatus[kind]) /\ L.fields = SystemData(kind) \union {Group}
      BY <1>4, SystemAllKnown DEF Known
    <2>2. \A f \in SystemData(kind) : f.arg # "group"
      BY DEF SystemData, Position, Data1, F, Piece
    <2>3. Grouped(L)
      BY <2>1, <2>2 DEF Grouped
    <2> HIDE DEF L
    <2>4. OfType(L, 1)
      BY <1>0, <2>1, <2>3, HeadedType
    <2> QED
      BY <2>4 DEF L
  <1>5. CASE kind \in DOMAIN AnySystemData
    <2>1. OnlyTyped(L, 1) /\ L.fields = AnySystemData[kind] \union {Group, F("status", 8, 0, 16)}
      BY <1>5, AnySystemAllKnown
    <2>2. \A f \in AnySystemData[kind] : f.arg # "group"
      BY <1>5 DEF AnySystemData, Data1, Data2, F, Piece
    <2>3. F("status", 8, 0, 16).arg # "group"
      BY DEF F, Piece
    <2>4. Grouped(L)
      BY <2>1, <2>2, <2>3 DEF Grouped
    <2> HIDE DEF L
    <2>5. OfType(L, 1)
      BY <1>0, <2>1, <2>4 DEF OfType, OnlyTyped
    <2> QED
      BY <2>5 DEF L
  <1>6. CASE kind \in DOMAIN FlexNumber
    <2>1. FlexHead(L, FlexNumber[kind]) /\ Grouped(L)
      BY <1>6, FlexAllKnown DEF FlexAll
    <2> HIDE DEF L
    <2>2. OfType(L, 13)
      BY <1>0, <2>1 DEF OfType, FlexHead
    <2> QED
      BY <2>2 DEF L
  <1>7. CASE kind \in DOMAIN StreamNumber
    <2>1. Headed(L, 15, 16, 10, StreamNumber[kind])
      BY <1>7, StreamAllKnown DEF StreamAll, Known
    <2> HIDE DEF L
    <2>2. OfType(L, 15)
      BY <1>0, <2>1, HeadedType
    <2> QED
      BY <2>2 DEF L
  <1>8. CASE kind = "mds_header"
    <2>1. Headed(L, 5, 20, 4, 8) /\ Grouped(L)
      BY <1>8, MdsHeaderAgrees DEF Agrees, Known
    <2> HIDE DEF L
    <2>2. OfType(L, 5)
      BY <1>0, <2>1, HeadedType
    <2> QED
      BY <2>2 DEF L
  <1>9. CASE kind = "mds_payload"
    <2>1. Headed(L, 5, 20, 4, 9) /\ Grouped(L)
      BY <1>9, MdsPayloadAgrees DEF Agrees, Known
    <2> HIDE DEF L
    <2>2. OfType(L, 5)
      BY <1>0, <2>1, HeadedType
    <2> QED
      BY <2>2 DEF L
  <1>10. CASE kind \in Packets3
    <2>1. PICK n0 \in {3, 5, 13} : OnlyTyped(L, n0) /\ Grouped(L)
      BY <1>10, PacketsKnown DEF PacketKnown, Packets3
    <2> HIDE DEF L
    <2>2. OfType(L, n0)
      BY <2>1 DEF OfType, OnlyTyped, GroupTypes
    <2> QED
      BY <2>2 DEF L
  <1> QED
    BY <1>1, <1>2, <1>3, <1>4, <1>5, <1>6, <1>7, <1>8, <1>9, <1>10, EveryKind

(* A layout's type is that of its header.                                  *)
LEMMA LayoutType ==
  ASSUME NEW L, NEW n0, OfType(L, n0)
  PROVE  Num(Take(L.const, 28, 4)) = n0
  <1> DEFINE w == [i \in 0 .. 3 |-> L.const]
  <1>1. w[0] = L.const
    OBVIOUS
  <1> HIDE DEF w
  <1>2. HeadIs(w, L)
    BY <1>1 DEF HeadIs
  <1>3. TypeOf(w) = n0
    BY <1>2 DEF OfType
  <1> QED
    BY <1>1, <1>3 DEF TypeOf

(* So is a built message's.                                                *)
LEMMA SentType ==
  ASSUME NEW m, Sent(m), NEW n0, OfType(Layouts[m.kind], n0)
  PROVE  TypeOf(Build(m)) = n0 /\ HeadIs(Build(m), Layouts[m.kind])
  <1>1. HeadIs(Build(m), Layouts[m.kind])
    BY EverySound, MaskRead DEF Sent, HeadIs
  <1> QED
    BY <1>1 DEF OfType

-----------------------------------------------------------------------------
(* A message that is re-stamped is one that was built with that group.     *)
ArgsNamed == {"position", "data1", "data2", "bank_valid", "bank_msb", "bank_lsb", "bank", "status"}
Restamped(m, g) ==
  [kind |-> m.kind, data |-> m.data,
   args |-> [a \in ArgsOf(Layouts[m.kind].fields) \union ArgsNamed \union {"group"} |->
               IF a = "group" THEN g ELSE m.args[a]]]
(* It has the other arguments of the message.                              *)
SameBut(m, r, g) ==
  /\ r.kind = m.kind /\ r.data = m.data /\ r.args["group"] = g
  /\ \A a \in ArgsOf(Layouts[m.kind].fields) \union ArgsNamed : a # "group" => r.args[a] = m.args[a]

(* A message with another group differs from the message in that argument  *)
(* alone.                                                                  *)
LEMMA RestampedArgs ==
  ASSUME NEW m, NEW g
  PROVE  SameBut(m, Restamped(m, g), g)
  <1> DEFINE named == ArgsOf(Layouts[m.kind].fields) \union ArgsNamed
             r == Restamped(m, g)
  <1>1. /\ r.kind = m.kind /\ r.data = m.data
        /\ r.args = [a \in named \union {"group"} |-> IF a = "group" THEN g ELSE m.args[a]]
    BY DEF Restamped
  <1> HIDE DEF r, named
  <1>2. r.args["group"] = g /\ \A a \in named : a # "group" => r.args[a] = m.args[a]
    BY <1>1
  <1>3. "group" \notin ArgsNamed
    BY DEF ArgsNamed
  <1> QED
    BY <1>1, <1>2 DEF SameBut, r, named

(* The same fields of it are written.                                      *)
LEMMA RestampedWritten ==
  ASSUME NEW m, NEW r, NEW g, SameBut(m, r, g)
  PROVE  Written(r.kind, r.args) = Written(m.kind, m.args)
  <1>1. r.args["bank_valid"] = m.args["bank_valid"] /\ r.kind = m.kind
    BY DEF SameBut, ArgsNamed
  <1> QED
    BY <1>1 DEF Written

(* Off the group's four bits it is the message.                            *)
LEMMA RestampedElse ==
  ASSUME NEW m, Sent(m), NEW r, NEW g, SameBut(m, r, g), Grouped(Layouts[m.kind]),
         NEW w \in 0 .. 3, NEW i, ~ (w = 0 /\ i \in 24 .. 27)
  PROVE  i \in Build(r)[w] <=> i \in Build(m)[w]
  <1> DEFINE L == Layouts[m.kind]
             kept == Fitting(L, m.data)
             fields == Written(m.kind, m.args)
             One(args) == \E f \in fields : Fills(f, args, w, i)
             Rest == \/ w = 0 /\ i \in L.const
                     \/ w = 0 /\ i \in CountBits(L, m.data)
                     \/ \E j \in 1 .. Len(kept) : FromByte(L.at, kept, j, w, i)
  <1>1. r.kind = m.kind /\ r.data = m.data /\ m.data \in Seq(Bytes8) /\ Sound(L)
    BY EverySound DEF SameBut, Sent
  <1>2. fields \subseteq L.fields
    BY <1>1, WrittenFields
  <1>3. i \in Build(m)[w] <=> Rest \/ One(m.args)
    BY <1>1, BuiltBits
  <1>4. i \in Build(r)[w] <=> Rest \/ One(r.args)
    <2>1. Written(r.kind, r.args) = fields
      BY RestampedWritten
    <2>2. r.data \in Seq(Bytes8) /\ Sound(Layouts[r.kind]) /\ Layouts[r.kind] = L /\ Fitting(L, r.data) = kept
      BY <1>1
    <2> QED
      BY <1>1, <2>1, <2>2, BuiltBits
  <1>5. ASSUME NEW f \in fields PROVE Fills(f, r.args, w, i) <=> Fills(f, m.args, w, i)
    <2>1. CASE f = Group
      <3>1. f.word = 0 /\ f.lo = 24 /\ f.width = 4
        BY <2>1 DEF Group, F, Piece
      <3>2. f.lo .. f.lo + f.width - 1 = 24 .. 27
        BY <3>1
      <3> QED
        BY <3>1, <3>2 DEF Fills
    <2>2. CASE f # Group
      <3>1. f.arg \in ArgsOf(L.fields) /\ f.arg # "group"
        BY <1>2, <2>2 DEF Grouped, ArgsOf
      <3>2. r.args[f.arg] = m.args[f.arg]
        BY <3>1 DEF SameBut
      <3> QED
        BY <3>2 DEF Fills
    <2> QED
      BY <2>1, <2>2
  <1> HIDE DEF fields, Rest
  <1>6. One(r.args) <=> One(m.args)
    BY <1>5
  <1> HIDE DEF One
  <1> QED
    BY <1>3, <1>4, <1>6

(* The group's four bits are the new group.                                *)
LEMMA RestampedGroup ==
  ASSUME NEW m, Sent(m), NEW r, NEW g, SameBut(m, r, g), Grouped(Layouts[m.kind]), NEW i \in 24 .. 27
  PROVE  i \in Build(r)[0] <=> i - 24 \in g
  <1>1. r.data \in Seq(Bytes8) /\ Sound(Layouts[r.kind]) /\ r.kind = m.kind
    BY EverySound DEF SameBut, Sent
  <1>2. Group.word = 0 /\ Group.lo = 24 /\ Group.width = 4 /\ Group.from = 0 /\ Group.arg = "group"
    BY DEF Group, F, Piece
  <1>3. Group \in Written(r.kind, r.args)
    <2>1. Group \in Layouts[r.kind].fields
      BY <1>1 DEF Grouped
    <2> QED
      BY <1>2, <2>1 DEF Written
  <1>4. i \in Span(Group)
    BY <1>2 DEF Span
  <1>5. i \in Build(r)[Group.word] <=> Group.from + (i - Group.lo) \in r.args[Group.arg]
    BY <1>1, <1>3, <1>4, FieldRead
  <1>6. r.args["group"] = g /\ 0 + (i - 24) = i - 24
    BY DEF SameBut
  <1> QED
    BY <1>2, <1>5, <1>6

(* Re-stamping the words of a message gives the words of the message with  *)
(* that group.                                                             *)
LEMMA RegroupedIs ==
  ASSUME NEW m, Sent(m), NEW g, Grouped(Layouts[m.kind])
  PROVE  Regrouped(Build(m), g) = Build(Restamped(m, g))
  <1> DEFINE r == Restamped(m, g)
             b == Build(m)
             c == Build(r)
             x == Regrouped(b, g)
  <1>1. SameBut(m, r, g)
    BY RestampedArgs
  <1>2. IsFour(b) /\ IsFour(c)
    BY DEF Build, IsFour
  <1>3. \A w \in 0 .. 3 : \A i : ~ (w = 0 /\ i \in 24 .. 27) => (i \in c[w] <=> i \in b[w])
    <2> HIDE DEF r
    <2> QED
      BY <1>1, RestampedElse
  <1>4. \A i \in 24 .. 27 : i \in c[0] <=> i - 24 \in g
    <2> HIDE DEF r
    <2> QED
      BY <1>1, RestampedGroup
  <1> HIDE DEF r, b, c
  <1>5. x = [w \in 0 .. 3 |-> IF w = 0 THEN (b[0] \ (24 .. 27)) \union Put(g \intersect 0 .. 3, 24) ELSE b[w]]
    BY <1>2 DEF Regrouped, IsFour
  <1>6. \A i : i \in Put(g \intersect 0 .. 3, 24) <=> i \in 24 .. 27 /\ i - 24 \in g
    <2> DEFINE low == g \intersect 0 .. 3
    <2>1. low \subseteq Int /\ 24 \in Int
      OBVIOUS
    <2>2. \A i : i \in low <=> i \in 0 .. 3 /\ i \in g
      OBVIOUS
    <2> HIDE DEF low
    <2>3. \A i : i \in Put(low, 24) <=> i \in Int /\ i - 24 \in low
      BY <2>1, PutBits, Zenon
    <2>4. \A i : i \in Int /\ i - 24 \in 0 .. 3 <=> i \in 24 .. 27
      OBVIOUS
    <2>5. \A i : i \in Put(low, 24) <=> i \in 24 .. 27 /\ i - 24 \in g
      BY <2>2, <2>3, <2>4
    <2> QED
      BY <2>5 DEF low
  <1>7. x[0] = c[0]
    <2>1. x[0] = (b[0] \ (24 .. 27)) \union Put(g \intersect 0 .. 3, 24)
      BY <1>5
    <2> HIDE DEF x
    <2>2. \A i : i \in x[0] <=> i \in c[0]
      BY <1>3, <1>4, <1>6, <2>1
    <2> QED
      BY <2>2
  <1>8. \A w \in 1 .. 3 : x[w] = c[w]
    <2> SUFFICES ASSUME NEW w \in 1 .. 3 PROVE x[w] = c[w]
      OBVIOUS
    <2>1. x[w] = b[w] /\ w \in 0 .. 3 /\ w # 0
      BY <1>5
    <2> HIDE DEF x
    <2>2. \A i : i \in x[w] <=> i \in c[w]
      BY <1>3, <2>1
    <2> QED
      BY <2>2
  <1>9. x = [w \in 0 .. 3 |-> x[w]]
    BY <1>5
  <1> HIDE DEF x
  <1>10. x = c
    BY <1>2, <1>7, <1>8, <1>9 DEF IsFour
  <1> QED
    BY <1>10 DEF x, b, c, r

(* Its callback is told the new group, and the rest as before.             *)
LEMMA RestampedMeant ==
  ASSUME NEW m, NEW r, NEW g, SameBut(m, r, g), NEW a, a # "group"
  PROVE  ExpectedOf(r, a) = ExpectedOf(m, a)
  <1> DEFINE L == Layouts[m.kind]
  <1>1. r.kind = m.kind /\ \A x \in ArgsOf(L.fields) \union ArgsNamed : x # "group" => r.args[x] = m.args[x]
    BY DEF SameBut
  <1>2. /\ r.args["position"] = m.args["position"] /\ r.args["data1"] = m.args["data1"]
        /\ r.args["data2"] = m.args["data2"] /\ r.args["bank_valid"] = m.args["bank_valid"]
        /\ r.args["bank_msb"] = m.args["bank_msb"] /\ r.args["bank_lsb"] = m.args["bank_lsb"]
    BY <1>1 DEF ArgsNamed
  <1>3. Meant(r, a) = Meant(m, a)
    <2>1. CASE a \in ArgsOf(L.fields)
      <3>1. r.args[a] = m.args[a] /\ Layouts[r.kind] = Layouts[m.kind]
        BY <1>1, <2>1
      <3> QED
        BY <3>1 DEF Meant
    <2>2. CASE a \notin ArgsOf(L.fields)
      BY <1>1, <2>2 DEF Meant
    <2> QED
      BY <2>1, <2>2
  <1>4. CASE m.kind = "system_song_position" /\ a \in {"data1", "data2"}
    BY <1>1, <1>2, <1>4 DEF ExpectedOf
  <1>5. CASE m.kind = "cv1_pitch_bend" /\ a = "value"
    BY <1>1, <1>2, <1>5 DEF ExpectedOf
  <1>6. CASE m.kind = "program" /\ a \in {"bank_msb", "bank_lsb"}
    <2>1. r.args[a] = m.args[a] /\ Layouts[r.kind] = Layouts[m.kind]
      BY <1>1, <1>2, <1>6
    <2> QED
      BY <1>1, <1>2, <1>6, <2>1 DEF ExpectedOf
  <1>7. CASE /\ ~ (m.kind = "system_song_position" /\ a \in {"data1", "data2"})
             /\ ~ (m.kind = "cv1_pitch_bend" /\ a = "value")
             /\ ~ (m.kind = "program" /\ a \in {"bank_msb", "bank_lsb"})
    <2>1. ExpectedOf(m, a) = Meant(m, a)
      BY <1>7 DEF ExpectedOf
    <2>2. ExpectedOf(r, a) = Meant(r, a)
      BY <1>1, <1>7 DEF ExpectedOf
    <2> QED
      BY <1>3, <2>1, <2>2
  <1> QED
    BY <1>4, <1>5, <1>6, <1>7

(* Of such a message the callback is told the new group.                   *)
LEMMA RestampedToGroup ==
  ASSUME NEW m, NEW r, NEW g, SameBut(m, r, g), Grouped(Layouts[m.kind])
  PROVE  ExpectedOf(r, "group") = g \intersect 0 .. 3
  <1> DEFINE fields == Layouts[r.kind].fields
  <1>1. Group \in fields /\ (\A f \in fields : f.arg = "group" => f = Group) /\ r.args["group"] = g
    BY DEF Grouped, SameBut
  <1>2. Group.from = 0 /\ Group.width = 4 /\ Group.arg = "group"
    BY DEF Group, F, Piece
  <1> HIDE DEF fields
  <1>3. Pieces(fields, "group") = {Group} /\ "group" \in ArgsOf(fields)
    BY <1>1, <1>2 DEF Pieces, ArgsOf
  <1>4. RangeOf(fields, "group") = 0 .. 3
    <2>1. Group.from .. Group.from + Group.width - 1 = 0 .. 3
      BY <1>2
    <2> QED
      BY <1>3, <2>1 DEF RangeOf
  <1>5. Meant(r, "group") = g \intersect 0 .. 3
    BY <1>1, <1>3, <1>4 DEF Meant, Signed, fields
  <1>6. ExpectedOf(r, "group") = Meant(r, "group")
    BY DEF ExpectedOf
  <1> QED
    BY <1>5, <1>6

-----------------------------------------------------------------------------
(* What is fed is heard: with all the words that the type needs, and not   *)
(* translated first, the callback of the words is told of them.            *)
LEMMA FedIsCalled ==
  ASSUME NEW w, NEW upscale, ~ (upscale /\ TypeOf(w) = 2)
  PROVE  midi2_dispatch_feed(w, Needed(w), upscale) = Call(CallbackOf(w), w)
  <1> DEFINE mt == Num(Take(w[0], 28, 4))
             n == midi2_msg_word_count[mt]
             c == Call(CallbackOf(w), w)
             calls == {Call(CallbackOf(v), v) : v \in IF mt = 2 /\ upscale THEN mt2_to_mt4(w[0]) ELSE {w}}
  <1>1. Needed(w) = n /\ n \in 1 .. 4
    BY NeededType DEF Needed
  <1>2. ~ (mt = 2 /\ upscale)
    BY DEF TypeOf
  <1>3. calls = {c}
    BY <1>2
  <1>4. ~ TooShort(mt, n)
    <2>1. ~ (n < n)
      BY <1>1
    <2> QED
      BY <2>1 DEF TooShort
  <1>5. midi2_dispatch_feed(w, n, upscale) = IF TooShort(mt, n) \/ calls = {} THEN Nobody ELSE CHOOSE x \in calls : TRUE
    BY DEF midi2_dispatch_feed
  <1> HIDE DEF mt, n, c, calls
  <1> QED
    BY <1>1, <1>3, <1>4, <1>5 DEF c

(* A built message is heard as it was meant.                               *)
HeardMeant(m, h) ==
  /\ h.name = Layouts[m.kind].calls
  /\ \A a \in DOMAIN h.args : h.args[a] = ExpectedOf(m, a)
  /\ SameBytesOf(m, h.data)

(* A built message, handed to the dispatcher whole, is heard as it was     *)
(* meant, unless it is a MIDI 1.0 voice message that the dispatcher raises *)
(* first.                                                                  *)
LEMMA BuiltIsHeard ==
  ASSUME NEW m, Usable(m), NEW upscale, ~ (upscale /\ TypeOf(Build(m)) = 2)
  PROVE  HeardMeant(m, midi2_dispatch_feed(Build(m), Needed(Build(m)), upscale))
  <1> DEFINE w == Build(m)
             L == Layouts[m.kind]
             h == midi2_dispatch_feed(w, Needed(w), upscale)
  <1>1. Sent(m) /\ m.kind \in UmpKinds
    BY DEF Usable, Sent
  <1>2. CallbackOf(w) = L.calls
    BY <1>1, BuiltFits, FitCalls
  <1>3. h = Call(L.calls, w)
    <2>1. h = Call(CallbackOf(w), w)
      BY FedIsCalled
    <2> QED
      BY <1>2, <2>1
  <1>4. h.name = L.calls
    <2>1. Call(L.calls, w).name = L.calls
      BY DEF Call
    <2> QED
      BY <1>3, <2>1
  <1>5. \A a \in DOMAIN h.args : h.args[a] = ExpectedOf(m, a)
    BY <1>1, <1>3, ToldAll DEF Told
  <1>6. SameBytesOf(m, h.data)
    BY <1>1, <1>3, SameBytesAll
  <1> HIDE DEF w, L, h
  <1>7. HeardMeant(m, h)
    BY <1>4, <1>5, <1>6 DEF HeardMeant, L
  <1> QED
    BY <1>7 DEF h, w

(* Every message that is sent is one.                                      *)
LEMMA MessageUsable ==
  ASSUME NEW m \in Messages
  PROVE  Usable(m)
  BY UmpAssumption DEF UmpAssumption, OfFixedSet, Usable, Bytes8

(* Other words are heard as a kind whose header they have.                 *)
LEMMA RawIsHeard ==
  ASSUME NEW w, NEW name, name = CallbackOf(w)
  PROVE  LET calls == {Layouts[k].calls : k \in {j \in UmpKinds : FitsIn(w, j)}}
         IN  IF calls # {} THEN calls = {name}
             ELSE name \in {"on_unknown"} \union
                  (CASE TypeOf(w) = 3 -> {"on_sysex7"}
                     [] TypeOf(w) = 5 -> {"on_sysex8"}
                     [] OTHER -> {})
  <1> DEFINE fit == {j \in UmpKinds : FitsIn(w, j)}
             calls == {Layouts[k].calls : k \in fit}
  <1>1. \A k \in fit : Layouts[k].calls = name
    BY FitCalls
  <1>2. calls # {} => calls = {name}
    BY <1>1
  <1>3. ASSUME calls = {} PROVE name = "on_unknown" \/ (TypeOf(w) = 3 /\ name = "on_sysex7")
                                \/ (TypeOf(w) = 5 /\ name = "on_sysex8")
    <2>1. ~ \E kind \in UmpKinds : FitsIn(w, kind)
      BY <1>3
    <2> QED
      BY <2>1, CallFits
  <1> HIDE DEF calls
  <1> QED
    BY <1>2, <1>3 DEF calls

-----------------------------------------------------------------------------
(* A word that is moved to another group keeps its type.                   *)
LEMMA RegroupedType ==
  ASSUME NEW w, IsFour(w), NEW g
  PROVE  IsFour(Regrouped(w, g)) /\ TypeOf(Regrouped(w, g)) = TypeOf(w)
  <1> DEFINE x == Regrouped(w, g)
             low == g \intersect 0 .. 3
             rest == w[0] \ (24 .. 27)
             moved == Put(low, 24)
  <1>1. IsFour(x) /\ x[0] = rest \union moved
    BY DEF Regrouped, IsFour
  <1>2. \A i \in moved : i \in 24 .. 27
    <2>1. low \subseteq Int /\ 24 \in Int /\ \A i : i \in low => i \in 0 .. 3
      OBVIOUS
    <2> HIDE DEF low
    <2>2. \A i : i \in Put(low, 24) <=> i \in Int /\ i - 24 \in low
      BY <2>1, PutBits, Zenon
    <2>3. \A i \in Int : i - 24 \in 0 .. 3 => i \in 24 .. 27
      OBVIOUS
    <2> QED
      BY <2>1, <2>2, <2>3
  <1>3. \A j \in 0 .. 4 - 1 : 28 + j \notin 24 .. 27
    OBVIOUS
  <1> HIDE DEF x, moved
  <1>4. \A j \in 0 .. 4 - 1 : 28 + j \in x[0] <=> 28 + j \in w[0]
    BY <1>1, <1>2, <1>3
  <1>5. Take(x[0], 28, 4) = Take(w[0], 28, 4)
    BY <1>4 DEF Take
  <1> QED
    BY <1>1, <1>5 DEF TypeOf, x

(* What the words of a message are after it was re-stamped, and how many.  *)
Stamped(w, g) == IF path = "set_group" THEN set_group(w, g) ELSE remap_group(w, g)
Carried ==
  /\ path \in {"set_group", "remap_group"} /\ sent.kind \in UmpKinds =>
       sent \in Messages /\ words = Stamped(Build(sent), group)
  /\ path \in {"wire", "set_group", "remap_group"} => count = Needed(words)
Carriage == HeardFromWords /\ OnItsWay /\ Carried

(* Every step of the codec preserves it.                                   *)
LEMMA CarriageInductive ==
  (UmpInit => Carriage) /\ (Carriage /\ [UmpNext]_(umpVars) => Carriage')
  <1>1. UmpInit => Carried
    BY DEF UmpInit, Carried
  <1>2. ASSUME Carriage, [UmpNext]_(umpVars) PROVE Carried'
    <2> USE <1>2
    <2>0. HeardFromWords /\ OnItsWay /\ Carried
      BY DEF Carriage
    <2>1. CASE UNCHANGED umpVars
      <3>1. path' = path /\ sent' = sent /\ words' = words /\ group' = group /\ count' = count
        BY <2>1 DEF umpVars
      <3> QED
        BY <2>0, <3>1 DEF Carried, Stamped
    <2>2. ASSUME NEW m, OnWire(m) PROVE Carried'
      <3>1. path' = "wire" /\ count' = Needed(words')
        BY <2>2 DEF OnWire
      <3> QED
        BY <3>1, Zenon DEF Carried
    <2>3. ASSUME NEW m \in Messages, SendBuilt(m) \/ SendCable(m) PROVE Carried'
      BY <2>2, <2>3 DEF SendBuilt, SendCable
    <2>4. ASSUME NEW w \in RawWords, SendRaw(w) PROVE Carried'
      BY <2>2, <2>4 DEF SendRaw
    <2>10. ASSUME NEW e, NEW g, SendCommon(e, g) PROVE Carried'
      BY <2>2, <2>10 DEF SendCommon
    <2>5. ASSUME NEW g \in NewGroups, SetGroup(g) \/ RemapGroup(g) PROVE Carried'
      <3>1. /\ path = "wire" /\ sent' = sent /\ group' = g /\ count' = count
            /\ \/ path' = "set_group" /\ words' = set_group(words, g)
               \/ path' = "remap_group" /\ words' = remap_group(words, g)
        BY <2>5 DEF SetGroup, RemapGroup, Becomes
      <3>2. IsFour(words) /\ count = Needed(words)
        BY <2>0, <3>1 DEF HeardFromWords, Carried
      <3>3. words' = words \/ words' = Regrouped(words, g)
        BY <3>1 DEF set_group, remap_group
      <3>4. TypeOf(words') = TypeOf(words)
        BY <3>2, <3>3, RegroupedType
      <3>5. Needed(words') = Needed(words)
        BY <3>4 DEF Needed, TypeOf
      <3>6. ASSUME sent'.kind \in UmpKinds PROVE sent \in Messages /\ words = Build(sent)
        BY <2>0, <3>1, <3>6 DEF OnItsWay
      <3>7. CASE path' = "set_group" /\ words' = set_group(words, g)
        BY <3>1, <3>2, <3>5, <3>6, <3>7 DEF Carried, Stamped
      <3>8. CASE path' = "remap_group" /\ words' = remap_group(words, g)
        BY <3>1, <3>2, <3>5, <3>6, <3>8 DEF Carried, Stamped
      <3> QED
        BY <3>1, <3>7, <3>8
    <2>6. ASSUME path' \in {"cut", "lowered"} PROVE Carried'
      BY <2>6 DEF Carried
    <2>7. ASSUME NEW n \in 1 .. 3, Cut(n) PROVE Carried'
      BY <2>6, <2>7 DEF Cut, Becomes
    <2>8. CASE Lower
      BY <2>6, <2>8 DEF Lower, Becomes
    <2>9. CASE FeedWords
      <3>1. path' = path /\ sent' = sent /\ words' = words /\ group' = group /\ count' = count
        BY <2>9 DEF FeedWords
      <3> QED
        BY <2>0, <3>1 DEF Carried, Stamped
    <2> QED
      BY <2>1, <2>3, <2>4, <2>5, <2>7, <2>8, <2>9, <2>10 DEF UmpNext
  <1> QED
    BY <1>1, <1>2, HeardFromWordsInductive, OnItsWayInductive DEF Carriage

(* What was sent, heard.                                                   *)
LEMMA SentIsMeant ==
  ASSUME NEW h, HeardMeant(sent, h)
  PROVE  /\ h.name = Layout.calls /\ SameBytes(h.data)
         /\ \A a \in DOMAIN h.args : h.args[a] = Expected(a)
  BY SentBytes, SentExpected DEF HeardMeant, Layout

(* Every message a builder makes, or a cable event carries, reaches the    *)
(* callback for it, which is told the arguments and the bytes that were    *)
(* given; other words reach a typed callback exactly when a builder has    *)
(* their header.                                                           *)
THEOREM BuildersAndDispatcherAgree ==
  UmpSpec => []HeardAsTheyAre
  <1>1. Carriage => HeardAsTheyAre
    <2> SUFFICES ASSUME Carriage, Fed("wire"), AsItself(words)
                 PROVE  IF Built
                        THEN /\ heard.name = Layout.calls
                             /\ \A a \in DOMAIN heard.args : heard.args[a] = Expected(a)
                             /\ SameBytes(heard.data)
                        ELSE LET calls == {Layouts[k].calls : k \in {j \in UmpKinds : Fits(j)}}
                             IN  IF calls # {} THEN calls = {heard.name}
                                 ELSE heard.name \in {"on_unknown"} \union
                                      (CASE Num(Take(words[0], 28, 4)) = 3 -> {"on_sysex7"}
                                         [] Num(Take(words[0], 28, 4)) = 5 -> {"on_sysex8"}
                                         [] OTHER -> {})
      BY DEF HeardAsTheyAre
    <2>1. /\ heard = midi2_dispatch_feed(words, Needed(words), upscale_mt2)
          /\ ~ (upscale_mt2 /\ TypeOf(words) = 2) /\ path = "wire"
      BY DEF Carriage, HeardFromWords, Carried, Fed, AsItself, TypeOf
    <2>2. CASE Built
      <3>1. Usable(sent) /\ words = Build(sent)
        BY <2>1, <2>2, MessageUsable DEF Carriage, OnItsWay, Built
      <3>2. HeardMeant(sent, heard)
        BY <2>1, <3>1, BuiltIsHeard
      <3> QED
        BY <2>2, <3>2, SentIsMeant
    <2>3. CASE ~ Built
      <3>1. heard.name = CallbackOf(words)
        <4>1. heard = Call(CallbackOf(words), words)
          BY <2>1, FedIsCalled
        <4>2. \A name, w : Call(name, w).name = name
          BY DEF Call
        <4> QED
          BY <4>1, <4>2
      <3>2. \A j : Fits(j) <=> FitsIn(words, j)
        BY DEF Fits, FitsIn, HeadIs
      <3>3. {j \in UmpKinds : Fits(j)} = {j \in UmpKinds : FitsIn(words, j)}
        BY <3>2
      <3> HIDE DEF Fits
      <3> QED
        BY <2>3, <3>1, <3>3, RawIsHeard DEF TypeOf
    <2> QED
      BY <2>2, <2>3
  <1> QED
    BY <1>1, CarriageInductive, PTL DEF UmpSpec

(* A re-stamped message is heard as it was sent but for its group, and it  *)
(* keeps the length that its type says.                                    *)
THEOREM OnlyTheGroupMoves ==
  UmpSpec => []RestampMovesGroupOnly
  <1>1. Carriage => RestampMovesGroupOnly
    <2> DEFINE mt == Num(Take(Layout.const, 28, 4))
               moves == mt \in (IF path = "set_group" THEN 2 .. 5 ELSE (0 .. 15) \ {0, 15})
               Told1(a) == IF a = "group" /\ moves THEN group \intersect 0 .. 3 ELSE Expected(a)
    <2> SUFFICES ASSUME Carriage, path \in {"set_group", "remap_group"}, heard # NotYet, Built, AsItself(words)
                 PROVE  /\ heard.name = Layout.calls /\ count = Needed(words)
                        /\ \A a \in DOMAIN heard.args : heard.args[a] = Told1(a)
                        /\ SameBytes(heard.data)
      BY DEF RestampMovesGroupOnly
    <2>1. /\ heard = midi2_dispatch_feed(words, Needed(words), upscale_mt2) /\ count = Needed(words)
          /\ ~ (upscale_mt2 /\ TypeOf(words) = 2)
      BY DEF Carriage, HeardFromWords, Carried, AsItself, TypeOf
    <2>2. Usable(sent) /\ words = Stamped(Build(sent), group)
      BY MessageUsable DEF Carriage, Carried, Built
    <2>3. PICK n0 : OfType(Layout, n0)
      BY <2>2, KindType DEF Usable, Layout
    <2>4. mt = n0
      BY <2>3, LayoutType
    <2>5. Sent(sent)
      BY <2>2 DEF Usable, Sent
    <2>6. TypeOf(Build(sent)) = n0
      BY <2>3, <2>5, SentType DEF Layout
    <2>7. CASE ~ moves
      <3>1. n0 \in 0 .. 15
        BY <2>3 DEF OfType, GroupTypes
      <3>2. words = Build(sent)
        BY <2>2, <2>4, <2>6, <2>7, <3>1 DEF Stamped, set_group, remap_group, TypeOf
      <3>3. HeardMeant(sent, heard)
        BY <2>1, <2>2, <3>2, BuiltIsHeard
      <3> QED
        BY <2>1, <2>7, <3>3, SentIsMeant
    <2>8. CASE moves
      <3> DEFINE r == Restamped(sent, group)
      <3>1. n0 \in GroupTypes
        BY <2>3, <2>4, <2>8 DEF OfType, GroupTypes
      <3>2. Grouped(Layouts[sent.kind])
        BY <2>3, <3>1 DEF OfType, Layout
      <3>3. words = Regrouped(Build(sent), group)
        BY <2>2, <2>4, <2>6, <2>8 DEF Stamped, set_group, remap_group, TypeOf
      <3>4. words = Build(r)
        BY <2>5, <3>2, <3>3, RegroupedIs
      <3>5. SameBut(sent, r, group)
        BY RestampedArgs
      <3> HIDE DEF r
      <3>6. Usable(r)
        <4>1. r.args["bank"] = sent.args["bank"] /\ r.args["status"] = sent.args["status"]
          BY <3>5 DEF SameBut, ArgsNamed
        <4>2. r.kind = sent.kind /\ r.data = sent.data
          BY <3>5 DEF SameBut
        <4> QED
          BY <2>2, <4>1, <4>2 DEF Usable
      <3>7. HeardMeant(r, heard)
        BY <2>1, <3>4, <3>6, BuiltIsHeard
      <3>8. heard.name = Layout.calls /\ SameBytes(heard.data)
        <4>1. r.kind = sent.kind /\ r.data = sent.data
          BY <3>5 DEF SameBut
        <4>2. SameBytesOf(r, heard.data) <=> SameBytesOf(sent, heard.data)
          BY <4>1 DEF SameBytesOf
        <4> QED
          BY <3>7, <4>1, <4>2, SentBytes DEF HeardMeant, Layout
      <3>9. \A a \in DOMAIN heard.args : heard.args[a] = Told1(a)
        <4> SUFFICES ASSUME NEW a \in DOMAIN heard.args PROVE heard.args[a] = Told1(a)
          OBVIOUS
        <4>1. heard.args[a] = ExpectedOf(r, a)
          BY <3>7 DEF HeardMeant
        <4>2. CASE a = "group"
          <5>1. ExpectedOf(r, "group") = group \intersect 0 .. 3
            BY <3>2, <3>5, RestampedToGroup
          <5> QED
            BY <2>8, <4>1, <4>2, <5>1
        <4>3. CASE a # "group"
          <5>1. ExpectedOf(r, a) = Expected(a)
            BY <3>5, <4>3, RestampedMeant, SentExpected
          <5> QED
            BY <4>1, <4>3, <5>1
        <4> QED
          BY <4>2, <4>3
      <3> QED
        BY <2>1, <3>8, <3>9
    <2> QED
      BY <2>7, <2>8
  <1> QED
    BY <1>1, CarriageInductive, PTL DEF UmpSpec

-----------------------------------------------------------------------------
(* A MIDI 2.0 message translated down and upscaled again. Its arguments    *)
(* are whole fields that begin at their lowest bit.                        *)
WidthOf == [group |-> 4, channel |-> 4, note |-> 7, index |-> 7, program |-> 7, velocity |-> 16, value |-> 32,
            attr_type |-> 8, attr_data |-> 16, bank_valid |-> 1, bank_msb |-> 7, bank_lsb |-> 7]
Notes == {"note_on", "note_off"}
OwnArgs(kind) ==
  CASE kind \in Notes           -> {"note", "velocity", "attr_type", "attr_data"}
    [] kind = "poly_pressure"   -> {"note", "value"}
    [] kind = "cc"              -> {"index", "value"}
    [] kind = "program"         -> {"program", "bank_valid", "bank_msb", "bank_lsb"}
    [] OTHER                    -> {"value"}
(* Which arguments a voice message has, and how many bits of each.         *)
LEMMA VoiceRanges ==
  ASSUME NEW kind \in Cv2Kinds, NEW a \in ArgsOf(Layouts[kind].fields)
  PROVE  /\ a \in {"group", "channel"} \union OwnArgs(kind)
         /\ a \in DOMAIN WidthOf /\ a \notin Signed
         /\ RangeOf(Layouts[kind].fields, a) = 0 .. WidthOf[a] - 1
  <1> DEFINE fields == Layouts[kind].fields
  <1>1. fields = Cv2Fields(kind) \union {Group, Channel}
    BY Cv2Layouts DEF Cv2Is
  <1>2. \A f \in {Group, Channel} : f.from = 0 /\ f.arg \in {"group", "channel"} /\ f.width = WidthOf[f.arg]
    BY DEF Group, Channel, F, Piece, WidthOf
  <1>3. kind \in {"note_off", "note_on", "poly_pressure", "cc", "program", "chan_pressure", "pitch_bend"}
    BY DEF Cv2Kinds, Cv2Status
  <1>4. \A f \in Cv2Fields(kind) : f.from = 0 /\ f.arg \in OwnArgs(kind) /\ f.width = WidthOf[f.arg]
    <2> USE DEF Cv2Fields, OwnArgs, Notes, F, Piece, WidthOf
    <2>1. CASE kind \in Notes
      BY <2>1 DEF NoteArgs, Note
    <2>2. CASE kind = "poly_pressure"
      BY <2>2 DEF Note, Value
    <2>3. CASE kind = "cc"
      BY <2>3 DEF Value
    <2>4. CASE kind = "program"
      BY <2>4
    <2>5. CASE kind \in {"chan_pressure", "pitch_bend"}
      BY <2>5 DEF Value
    <2> QED
      BY <1>3, <2>1, <2>2, <2>3, <2>4, <2>5 DEF Notes
  <1>5. OwnArgs(kind) \union {"group", "channel"} \subseteq DOMAIN WidthOf /\ Signed \intersect DOMAIN WidthOf = {}
    BY DEF OwnArgs, WidthOf, Signed
  <1> HIDE DEF fields
  <1>6. PICK f \in fields : f.arg = a
    BY DEF ArgsOf, fields
  <1>7. \A g \in fields : g.arg = a => g.from .. g.from + g.width - 1 = 0 .. WidthOf[a] - 1
    <2> SUFFICES ASSUME NEW g \in fields, g.arg = a PROVE g.from .. g.from + g.width - 1 = 0 .. WidthOf[a] - 1
      OBVIOUS
    <2>1. g.from = 0 /\ g.width = WidthOf[a]
      BY <1>1, <1>2, <1>4
    <2>2. WidthOf[a] \in Nat
      BY <1>1, <1>2, <1>4, <1>5 DEF WidthOf
    <2> QED
      BY <2>1, <2>2
  <1>8. RangeOf(fields, a) = 0 .. WidthOf[a] - 1
    <2>1. RangeOf(fields, a) = UNION {g.from .. g.from + g.width - 1 : g \in Pieces(fields, a)}
      BY DEF RangeOf
    <2>2. f \in Pieces(fields, a) /\ \A g \in Pieces(fields, a) : g \in fields /\ g.arg = a
      BY <1>6 DEF Pieces
    <2>3. {g.from .. g.from + g.width - 1 : g \in Pieces(fields, a)} = {0 .. WidthOf[a] - 1}
      BY <1>7, <2>2
    <2> QED
      BY <2>1, <2>3
  <1> QED
    BY <1>1, <1>2, <1>4, <1>5, <1>6, <1>8 DEF fields

(* What the callback should be told of argument a of the message m.        *)
Softest(m) == m.kind = "note_on" /\ Take(m.args["velocity"], 9, 7) = {}
ToldBack(m, a, v) ==
  CASE a \in {"group", "channel"}         -> v = Take(m.args[a], 0, 4)
    [] a \in {"note", "index", "program"} -> v = Take(m.args[a], 0, 7)
    [] a = "velocity" -> Take(v, 9, 7) = IF Softest(m) THEN {6} ELSE Take(m.args[a], 9, 7)
    [] a = "value"    -> IF m.kind = "pitch_bend" THEN Take(v, 18, 14) = Take(m.args[a], 18, 14)
                         ELSE Take(v, 25, 7) = Take(m.args[a], 25, 7)
    [] OTHER          -> v = {}

(* A value cut to a range that holds the bits that are taken of it.        *)
LEMMA TakeWithin ==
  ASSUME NEW x, NEW top \in Nat, NEW lo \in Nat, NEW n \in Nat, lo + n <= top
  PROVE  Take(x \intersect 0 .. top - 1, lo, n) = Take(x, lo, n)
  <1>1. \A j \in 0 .. n - 1 : lo + j \in 0 .. top - 1
    OBVIOUS
  <1>2. \A j \in 0 .. n - 1 : lo + j \in x \intersect 0 .. top - 1 <=> lo + j \in x
    BY <1>1
  <1> QED
    BY <1>2 DEF Take

(* Bits at the top of a scaled value are the value that was scaled.        *)
LEMMA TakeScaled ==
  ASSUME NEW x, NEW lo \in Nat, NEW v, v \subseteq 0 .. 6, \A j \in 0 .. 6 : lo + j \in x <=> j \in v
  PROVE  Take(x, lo, 7) = v
  <1>1. \A j : j \in Take(x, lo, 7) <=> j \in 0 .. 7 - 1 /\ lo + j \in x
    BY TakeBits
  <1>2. 0 .. 7 - 1 = 0 .. 6
    OBVIOUS
  <1> QED
    BY <1>1, <1>2

(* Fourteen bits are seven and seven.                                      *)
LEMMA FourteenAlike ==
  ASSUME NEW x, NEW y, \A j \in 0 .. 6 : 18 + j \in x <=> 18 + j \in y, \A j \in 0 .. 6 : 25 + j \in x <=> 25 + j \in y
  PROVE  Take(x, 18, 14) = Take(y, 18, 14)
  <1>1. ASSUME NEW j \in 0 .. 13 PROVE 18 + j \in x <=> 18 + j \in y
    <2>1. CASE j \in 0 .. 6
      BY <2>1
    <2>2. CASE j \in 7 .. 13
      <3>1. j - 7 \in 0 .. 6 /\ 25 + (j - 7) = 18 + j
        BY <2>2
      <3> QED
        BY <3>1
    <2> QED
      BY <2>1, <2>2
  <1>2. 0 .. 14 - 1 = 0 .. 13
    OBVIOUS
  <1> QED
    BY <1>1, <1>2 DEF Take

(* What the lowered word and the message raised from it have of the        *)
(* message that was sent.                                                  *)
Again(r, m) == \E w : LoweredTo(w, m) /\ RaisedFrom(r, w, m.kind)
(* The velocity and the values of the raised message have the most         *)
(* significant bits of what was sent.                                      *)
LEMMA AgainScaled ==
  ASSUME NEW m, m.kind \in Cv2Kinds, NEW r, Again(r, m)
  PROVE  /\ r.kind = IF Softest(m) THEN "note_off" ELSE m.kind
         /\ r.data = <<>>
         /\ r.args["group"] = Take(m.args["group"], 0, 4) /\ r.args["channel"] = Take(m.args["channel"], 0, 4)
         /\ m.kind \in Notes \union {"poly_pressure"} => r.args["note"] = Take(m.args["note"], 0, 7)
         /\ m.kind = "cc" => r.args["index"] = Take(m.args["index"], 0, 7)
         /\ m.kind = "program" => r.args["program"] = Take(m.args["program"], 0, 7) /\ r.args["bank_valid"] = {}
         /\ m.kind \in Notes => /\ r.args["attr_type"] = {} /\ r.args["attr_data"] = {}
                                /\ ToldBack(m, "velocity", r.args["velocity"])
         /\ m.kind \notin Notes \union {"program"} => ToldBack(m, "value", r.args["value"])
  <1>1. PICK w : LoweredTo(w, m) /\ RaisedFrom(r, w, m.kind)
    BY DEF Again
  <1> DEFINE d1 == ValueOne(m)
             d2 == ValueTwo(m)
             k == m.kind
             args == m.args
  <1>2. k \in {"note_off", "note_on", "poly_pressure", "cc", "program", "chan_pressure", "pitch_bend"}
    BY DEF Cv2Kinds, Cv2Status
  <1>3. d1 \subseteq 0 .. 6 /\ d2 \subseteq 0 .. 6
    <2>1. \A x, lo : Take(x, lo, 7) \subseteq 0 .. 6
      <3>1. 0 .. 7 - 1 = 0 .. 6
        OBVIOUS
      <3> QED
        BY <3>1 DEF Take
    <2> QED
      BY <2>1 DEF ValueOne, ValueTwo
  <1>4. /\ k \in Notes => d1 = Take(args["note"], 0, 7) /\ d2 = Take(args["velocity"], 9, 7)
        /\ k = "poly_pressure" => d1 = Take(args["note"], 0, 7) /\ d2 = Take(args["value"], 25, 7)
        /\ k = "cc" => d1 = Take(args["index"], 0, 7) /\ d2 = Take(args["value"], 25, 7)
        /\ k = "program" => d1 = Take(args["program"], 0, 7)
        /\ k = "chan_pressure" => d1 = Take(args["value"], 25, 7)
        /\ k = "pitch_bend" => d1 = Take(args["value"], 18, 7) /\ d2 = Take(args["value"], 25, 7)
    BY DEF ValueOne, ValueTwo, Notes
  <1>5. /\ Take(w, 24, 4) = Take(args["group"], 0, 4) /\ Take(w, 16, 4) = Take(args["channel"], 0, 4)
        /\ Take(w, 8, 7) = d1 /\ Take(w, 0, 7) = d2
    BY <1>1 DEF LoweredTo
  <1>6. (Silent(w, k) <=> Softest(m)) /\ (Softest(m) => k = "note_on")
    BY <1>4, <1>5 DEF Silent, Softest, Notes
  <1> DEFINE struck == IF Softest(m) THEN {6} ELSE d2
  <1>7. /\ r.data = <<>> /\ r.kind = IF Softest(m) THEN "note_off" ELSE k
        /\ r.args["group"] = Take(args["group"], 0, 4) /\ r.args["channel"] = Take(args["channel"], 0, 4)
        /\ k \in Notes => /\ r.args["note"] = d1 /\ r.args["velocity"] = scale_up_7to16(struck)
                          /\ r.args["attr_type"] = {} /\ r.args["attr_data"] = {}
        /\ k = "poly_pressure" => r.args["note"] = d1 /\ r.args["value"] = scale_up_7to32(d2)
        /\ k = "cc" => r.args["index"] = d1 /\ r.args["value"] = scale_up_7to32(d2)
        /\ k = "program" => r.args["program"] = d1 /\ r.args["bank_valid"] = {}
        /\ k = "chan_pressure" => r.args["value"] = scale_up_7to32(d1)
        /\ k = "pitch_bend" => r.args["value"] = scale_up_14to32(Join14(d1, d2))
    <2>1. RaisedKind(w, k) = IF Softest(m) THEN "note_off" ELSE k
      BY <1>6 DEF RaisedKind
    <2>2. Struck(w, k) = struck
      BY <1>5, <1>6 DEF Struck
    <2> HIDE DEF d1, d2, struck, args
    <2> QED
      BY <1>1, <1>5, <2>1, <2>2 DEF RaisedFrom, Notes
  <1> HIDE DEF d1, d2, args
  <1>8. k \in Notes => ToldBack(m, "velocity", r.args["velocity"])
    <2> SUFFICES ASSUME k \in Notes PROVE ToldBack(m, "velocity", r.args["velocity"])
      OBVIOUS
    <2>1. struck \subseteq 0 .. 6
      BY <1>3
    <2> HIDE DEF struck
    <2>2. Take(scale_up_7to16(struck), 9, 7) = struck
      <3> DEFINE x == scale_up_7to16(struck)
      <3>1. \A j \in 0 .. 6 : 9 + j \in x <=> j \in struck
        BY <2>1, ScaledTo16
      <3> HIDE DEF x
      <3>2. Take(x, 9, 7) = struck
        BY <2>1, <3>1, TakeScaled
      <3> QED
        BY <3>2 DEF x
    <2> QED
      BY <1>4, <1>7, <2>2 DEF ToldBack, struck, args
  <1> HIDE DEF struck
  <1>9. \A v : k # "pitch_bend" /\ Take(v, 25, 7) = Take(args["value"], 25, 7) => ToldBack(m, "value", v)
    BY DEF ToldBack, args
  <1>10. \A v : v \subseteq 0 .. 6 => Take(scale_up_7to32(v), 25, 7) = v
    <2> SUFFICES ASSUME NEW v, v \subseteq 0 .. 6 PROVE Take(scale_up_7to32(v), 25, 7) = v
      OBVIOUS
    <2> DEFINE x == scale_up_7to32(v)
    <2>1. \A j \in 0 .. 6 : 25 + j \in x <=> j \in v
      BY ScaledTo32
    <2> HIDE DEF x
    <2>2. Take(x, 25, 7) = v
      BY <2>1, TakeScaled
    <2> QED
      BY <2>2 DEF x
  <1>11. k \in {"poly_pressure", "cc", "chan_pressure"} => ToldBack(m, "value", r.args["value"])
    <2>1. k \in {"poly_pressure", "cc"} => Take(r.args["value"], 25, 7) = Take(args["value"], 25, 7)
      BY <1>3, <1>4, <1>7, <1>10
    <2>2. k = "chan_pressure" => Take(r.args["value"], 25, 7) = Take(args["value"], 25, 7)
      BY <1>3, <1>4, <1>7, <1>10
    <2> QED
      BY <1>9, <2>1, <2>2
  <1>12. k = "pitch_bend" => ToldBack(m, "value", r.args["value"])
    <2> SUFFICES ASSUME k = "pitch_bend" PROVE ToldBack(m, "value", r.args["value"])
      OBVIOUS
    <2> DEFINE u == scale_up_14to32(Join14(d1, d2))
               y == args["value"]
    <2>1. \A j \in 0 .. 6 : (18 + j \in u <=> j \in d1) /\ (25 + j \in u <=> j \in d2)
      BY <1>3, ScaledFrom14
    <2>2. d1 = Take(y, 18, 7) /\ d2 = Take(y, 25, 7)
      BY <1>4
    <2>3. r.args["value"] = u
      BY <1>7
    <2> HIDE DEF u, y
    <2>4. \A j \in 0 .. 6 : (j \in d1 <=> 18 + j \in y) /\ (j \in d2 <=> 25 + j \in y)
      <3>1. /\ \A j : j \in Take(y, 18, 7) <=> j \in 0 .. 7 - 1 /\ 18 + j \in y
            /\ \A j : j \in Take(y, 25, 7) <=> j \in 0 .. 7 - 1 /\ 25 + j \in y
        BY TakeBits
      <3>2. 0 .. 7 - 1 = 0 .. 6
        OBVIOUS
      <3> QED
        BY <2>2, <3>1, <3>2
    <2>5. Take(u, 18, 14) = Take(y, 18, 14)
      <3>1. \A j \in 0 .. 6 : (18 + j \in u <=> 18 + j \in y) /\ (25 + j \in u <=> 25 + j \in y)
        BY <2>1, <2>4
      <3> QED
        BY <3>1, FourteenAlike
    <2> QED
      BY <2>3, <2>5 DEF ToldBack, y, args
  <1>13. k \notin Notes \union {"program"} => ToldBack(m, "value", r.args["value"])
    BY <1>2, <1>11, <1>12 DEF Notes
  <1>14. /\ k \in Notes \union {"poly_pressure"} => r.args["note"] = Take(m.args["note"], 0, 7)
         /\ k = "cc" => r.args["index"] = Take(m.args["index"], 0, 7)
         /\ k = "program" => r.args["program"] = Take(m.args["program"], 0, 7) /\ r.args["bank_valid"] = {}
    BY <1>4, <1>7 DEF args
  <1> QED
    BY <1>7, <1>8, <1>13, <1>14 DEF args

(* The callback of the raised message is told what it should be.           *)
LEMMA AgainMeant ==
  ASSUME NEW m, m.kind \in Cv2Kinds, NEW r, Again(r, m), NEW a \in ArgsOf(Layouts[r.kind].fields)
  PROVE  ToldBack(m, a, ExpectedOf(r, a))
  <1> DEFINE k == r.kind
             v == r.args[a] \intersect 0 .. WidthOf[a] - 1
             e == ExpectedOf(r, a)
  <1>1. /\ k = IF Softest(m) THEN "note_off" ELSE m.kind
        /\ r.args["group"] = Take(m.args["group"], 0, 4) /\ r.args["channel"] = Take(m.args["channel"], 0, 4)
        /\ m.kind \in Notes \union {"poly_pressure"} => r.args["note"] = Take(m.args["note"], 0, 7)
        /\ m.kind = "cc" => r.args["index"] = Take(m.args["index"], 0, 7)
        /\ m.kind = "program" => r.args["program"] = Take(m.args["program"], 0, 7) /\ r.args["bank_valid"] = {}
        /\ m.kind \in Notes => /\ r.args["attr_type"] = {} /\ r.args["attr_data"] = {}
                               /\ ToldBack(m, "velocity", r.args["velocity"])
        /\ m.kind \notin Notes \union {"program"} => ToldBack(m, "value", r.args["value"])
    BY AgainScaled
  <1>2. m.kind \in {"note_off", "note_on", "poly_pressure", "cc", "program", "chan_pressure", "pitch_bend"}
    BY DEF Cv2Kinds, Cv2Status
  <1>3. k \in Cv2Kinds /\ (m.kind \in Notes <=> k \in Notes) /\ (m.kind \notin Notes => k = m.kind)
    BY <1>1 DEF Notes, Softest, Cv2Kinds, Cv2Status
  <1>4. /\ a \in {"group", "channel"} \union OwnArgs(k) /\ a \in DOMAIN WidthOf /\ a \notin Signed
        /\ RangeOf(Layouts[k].fields, a) = 0 .. WidthOf[a] - 1
    BY <1>3, VoiceRanges
  <1>5. e = IF k = "program" /\ a \in {"bank_msb", "bank_lsb"} /\ r.args["bank_valid"] = {} THEN {} ELSE v
    <2>1. Meant(r, a) = v
      BY <1>4 DEF Meant
    <2>2. k # "system_song_position" /\ k # "cv1_pitch_bend"
      BY <1>3 DEF Cv2Kinds, Cv2Status
    <2> HIDE DEF v, k
    <2>3. r.args[a] \intersect RangeOf(Layouts[r.kind].fields, a) = v
      BY <1>4 DEF k, v
    <2> QED
      BY <2>1, <2>2, <2>3 DEF ExpectedOf, k
  <1> HIDE DEF e
  <1>6. CASE a \in {"group", "channel"}
    <2>1. r.args[a] = Take(m.args[a], 0, 4) /\ WidthOf[a] = 4
      BY <1>1, <1>6 DEF WidthOf
    <2>2. e = r.args[a]
      BY <1>5, <1>6, <2>1 DEF Take
    <2> QED
      BY <1>6, <2>1, <2>2 DEF ToldBack, e
  <1>7. CASE a \in {"note", "index", "program"}
    <2>1. /\ a = "note" => k \in Notes \union {"poly_pressure"}
          /\ a = "index" => k = "cc"
          /\ a = "program" => k = "program"
      BY <1>4, <1>7 DEF OwnArgs, Notes
    <2>2. r.args[a] = Take(m.args[a], 0, 7) /\ WidthOf[a] = 7
      BY <1>1, <1>3, <1>7, <2>1 DEF WidthOf, Notes
    <2>3. e = r.args[a]
      BY <1>5, <1>7, <2>2 DEF Take
    <2> QED
      BY <1>7, <2>2, <2>3 DEF ToldBack, e
  <1>8. CASE a = "velocity"
    <2>1. k \in Notes
      BY <1>4, <1>8 DEF OwnArgs, Notes
    <2>2. e = r.args["velocity"] \intersect 0 .. 16 - 1
      BY <1>5, <1>8 DEF WidthOf
    <2> DEFINE x == r.args["velocity"]
    <2>3. Take(x \intersect 0 .. 16 - 1, 9, 7) = Take(x, 9, 7)
      BY TakeWithin
    <2>4. ToldBack(m, "velocity", x)
      BY <1>1, <1>3, <2>1
    <2> HIDE DEF x
    <2>5. ToldBack(m, "velocity", x \intersect 0 .. 16 - 1)
      BY <2>3, <2>4 DEF ToldBack
    <2> QED
      BY <1>8, <2>2, <2>5 DEF e, x
  <1>9. CASE a = "value"
    <2>1. k \notin Notes \union {"program"}
      BY <1>4, <1>9 DEF OwnArgs, Notes
    <2>2. e = r.args["value"] \intersect 0 .. 32 - 1
      BY <1>5, <1>9 DEF WidthOf
    <2> DEFINE x == r.args["value"]
    <2>3. Take(x \intersect 0 .. 32 - 1, 18, 14) = Take(x, 18, 14) /\ Take(x \intersect 0 .. 32 - 1, 25, 7) = Take(x, 25, 7)
      <3>1. (\A j \in 0 .. 14 - 1 : 18 + j \in 0 .. 32 - 1) /\ (\A j \in 0 .. 7 - 1 : 25 + j \in 0 .. 32 - 1)
        OBVIOUS
      <3> HIDE DEF x
      <3> QED
        BY <3>1 DEF Take
    <2>4. ToldBack(m, "value", x)
      BY <1>1, <1>3, <2>1
    <2> HIDE DEF x
    <2>5. ToldBack(m, "value", x \intersect 0 .. 32 - 1)
      BY <2>3, <2>4 DEF ToldBack
    <2> QED
      BY <1>9, <2>2, <2>5 DEF e, x
  <1>10. CASE a \in {"attr_type", "attr_data"}
    <2>1. k \in Notes
      BY <1>4, <1>10 DEF OwnArgs, Notes
    <2>2. e = {}
      BY <1>1, <1>3, <1>5, <1>10, <2>1
    <2> QED
      BY <1>10, <2>2 DEF ToldBack, e
  <1>11. CASE a \in {"bank_valid", "bank_msb", "bank_lsb"}
    <2>1. k = "program"
      BY <1>4, <1>11 DEF OwnArgs, Notes
    <2>2. e = {}
      BY <1>1, <1>3, <1>5, <1>11, <2>1 DEF Notes
    <2> QED
      BY <1>11, <2>2 DEF ToldBack, e
  <1>12. OwnArgs(k) \subseteq {"note", "index", "program", "velocity", "value", "attr_type", "attr_data",
                              "bank_valid", "bank_msb", "bank_lsb"}
    BY DEF OwnArgs
  <1> QED
    BY <1>4, <1>6, <1>7, <1>8, <1>9, <1>10, <1>11, <1>12

(* What the dispatcher calls when it upscales the lowered word.            *)
LEMMA AgainHeard ==
  ASSUME NEW m, m.data \in Seq(Bytes8), m.kind \in Cv2Kinds, NEW w \in mt4_to_mt2(Build(m)), NEW n
  PROVE  LET h == midi2_dispatch_feed([NoWords EXCEPT ![0] = w], n, TRUE) IN
         /\ h.name = IF Softest(m) THEN "on_note_off" ELSE Layouts[m.kind].calls
         /\ \A a \in DOMAIN h.args : ToldBack(m, a, h.args[a])
  <1> DEFINE v == [NoWords EXCEPT ![0] = w]
             h == midi2_dispatch_feed(v, n, TRUE)
  <1>1. LoweredTo(w, m)
    BY LoweredWord
  <1>2. MidiOne(w, m.kind)
    <2>1. \A i \in 0 .. 6 : m.kind \in OneByte => i \notin w
      <3> SUFFICES ASSUME NEW i \in 0 .. 6, m.kind \in OneByte PROVE i \notin w
        OBVIOUS
      <3>1. Take(w, 0, 7) = {}
        BY <1>1 DEF LoweredTo, ValueTwo, OneByte
      <3>2. i \in Take(w, 0, 7) <=> i \in 0 .. 7 - 1 /\ 0 + i \in w
        BY TakeBits
      <3> QED
        BY <3>1, <3>2
    <2> QED
      BY <1>1, <2>1 DEF LoweredTo, MidiOne
  <1>3. PICK r : Raised(w) = {r} /\ RaisedFrom(r, w, m.kind)
    BY <1>2, RaisedIs
  <1>4. Again(r, m)
    BY <1>1, <1>3 DEF Again
  <1>5. r.kind = (IF Softest(m) THEN "note_off" ELSE m.kind) /\ r.data = <<>>
    BY <1>4, AgainScaled
  <1>6. r.kind \in Cv2Kinds
    BY <1>5 DEF Cv2Kinds, Cv2Status
  <1>7. Usable(r)
    <2>1. r.kind \in {"note_off", "note_on", "poly_pressure", "cc", "program", "chan_pressure", "pitch_bend"}
      BY <1>6 DEF Cv2Kinds, Cv2Status
    <2>2. r.kind \in UmpKinds
      BY <2>1, Cv2AllAgree DEF VoiceNumber
    <2>3. r.data \in Seq(Bytes8)
      BY <1>5
    <2> QED
      BY <2>1, <2>2, <2>3 DEF Usable
  <1> DEFINE b == Build(r)
             called == Call(CallbackOf(b), b)
  <1>8. h = called
    <2>1. v[0] = w
      BY DEF NoWords
    <2>2. Num(Take(w, 28, 4)) = 2
      BY <1>1, NibbleOfType DEF LoweredTo
    <2>3. mt2_to_mt4(w) = {b}
      BY <1>3 DEF mt2_to_mt4
    <2>4. ~ TooShort(2, n)
      BY DEF TooShort
    <2> HIDE DEF v, b
    <2>5. midi2_dispatch_feed(v, n, TRUE) =
            LET calls == {Call(CallbackOf(x), x) : x \in {b}}
            IN  IF calls = {} THEN Nobody ELSE CHOOSE c \in calls : TRUE
      BY <2>1, <2>2, <2>3, <2>4 DEF midi2_dispatch_feed
    <2>6. {Call(CallbackOf(x), x) : x \in {b}} = {called}
      OBVIOUS
    <2> HIDE DEF called
    <2> QED
      BY <2>5, <2>6
  <1>9. called = midi2_dispatch_feed(b, Needed(b), FALSE)
    <2> HIDE DEF b
    <2>1. midi2_dispatch_feed(b, Needed(b), FALSE) = Call(CallbackOf(b), b)
      BY FedIsCalled
    <2> QED
      BY <2>1
  <1>10. HeardMeant(r, midi2_dispatch_feed(Build(r), Needed(Build(r)), FALSE))
    BY <1>7, BuiltIsHeard
  <1>11. HeardMeant(r, h)
    <2> HIDE DEF h, called
    <2> QED
      BY <1>8, <1>9, <1>10 DEF b
  <1>12. DOMAIN h.args = ArgsOf(Layouts[r.kind].fields)
    <2>1. Exact(Layouts[r.kind])
      <3>1. r.kind \in DOMAIN VoiceNumber
        BY <1>6 DEF Cv2Kinds, Cv2Status, VoiceNumber
      <3> QED
        BY <3>1, Cv2AllAgree DEF Voiced, Agrees
    <2> DEFINE name == CallbackOf(b)
    <2>2. name = Layouts[r.kind].calls
      <3>1. called.name = name
        BY DEF Call
      <3> HIDE DEF h, called, name
      <3> QED
        BY <1>8, <1>11, <3>1 DEF HeardMeant
    <2>3. name # "on_clip" /\ Extract[name] = Layouts[r.kind].fields
      BY <2>1, <2>2 DEF Exact
    <2> HIDE DEF name
    <2>4. Call(name, b).args = Read(Extract[name], b)
      BY <2>3 DEF Call
    <2>5. DOMAIN Read(Extract[name], b) = ArgsOf(Extract[name])
      BY DEF Read
    <2>6. called = Call(name, b)
      BY DEF name
    <2> HIDE DEF h, called, b
    <2> QED
      BY <1>8, <2>3, <2>4, <2>5, <2>6
  <1> HIDE DEF h, v, called, b
  <1>13. \A a \in DOMAIN h.args : ToldBack(m, a, h.args[a])
    <2> SUFFICES ASSUME NEW a \in DOMAIN h.args PROVE ToldBack(m, a, h.args[a])
      OBVIOUS
    <2>1. h.args[a] = ExpectedOf(r, a)
      BY <1>11 DEF HeardMeant
    <2>2. ToldBack(m, a, ExpectedOf(r, a))
      BY <1>4, <1>12, AgainMeant
    <2> QED
      BY <2>1, <2>2
  <1>14. h.name = IF Softest(m) THEN "on_note_off" ELSE Layouts[m.kind].calls
    <2>1. h.name = Layouts[r.kind].calls
      BY <1>11 DEF HeardMeant
    <2>2. Layouts["note_off"].calls = "on_note_off"
      <3>1. "note_off" \in DOMAIN VoiceLayouts /\ VoiceLayouts \in Tables
        BY Domains DEF Tables
      <3>2. VoiceLayouts["note_off"] = build_cv2_w0("on_note_off", \h80, NoteArgs)
        BY DEF VoiceLayouts
      <3>3. Layouts["note_off"] = build_cv2_w0("on_note_off", \h80, NoteArgs)
        BY <3>1, <3>2, LayoutOf
      <3> QED
        BY <3>3 DEF build_cv2_w0, Msg
    <2> QED
      BY <1>5, <2>1, <2>2
  <1> QED
    BY <1>13, <1>14 DEF h, v

(* A MIDI 2.0 message translated down is heard for the same group, channel *)
(* and note or index with the most significant bits of its value: by its   *)
(* MIDI 1.0 callback, or upscaled again by its own; but for a Note On      *)
(* softer than MIDI 1.0 can say, which upscaled is a Note Off.             *)
THEOREM LoweredStaysTheSameNote ==
  UmpSpec => []LoweredIsHeard
  <1>1. Carriage => LoweredIsHeard
    <2> SUFFICES ASSUME Carriage, Fed("lowered"), Built
                 PROVE  IF upscale_mt2 THEN HeardRaised ELSE HeardAsMidiOne
      BY DEF LoweredIsHeard
    <2>1. OnItsWay /\ HeardFromWords
      BY DEF Carriage
    <2>2. CASE ~ upscale_mt2
      <3>1. HeardAsMidiOne
        BY <2>1, <2>2, LoweredAsMidiOne
      <3> QED
        BY <2>2, <3>1
    <2>3. CASE upscale_mt2
      <3>1. PICK w \in mt4_to_mt2(Build(sent)) : sent \in Messages /\ words = [NoWords EXCEPT ![0] = w]
        BY <2>1 DEF OnItsWay, Fed, Built
      <3>2. sent.data \in Seq(Bytes8)
        BY <3>1, UmpAssumption DEF UmpAssumption, Bytes8
      <3>3. sent.kind \in Cv2Kinds
        BY <3>1, <3>2, OnlyTheseLower DEF Built
      <3>4. heard = midi2_dispatch_feed([NoWords EXCEPT ![0] = w], count, upscale_mt2)
        BY <2>1, <3>1 DEF HeardFromWords, Fed
      <3>5. upscale_mt2 = TRUE
        BY <2>1, <2>3 DEF HeardFromWords
      <3>6. /\ heard.name = IF Softest(sent) THEN "on_note_off" ELSE Layouts[sent.kind].calls
            /\ \A a \in DOMAIN heard.args : ToldBack(sent, a, heard.args[a])
        BY <3>1, <3>2, <3>3, <3>4, <3>5, AgainHeard
      <3>7. Silenced <=> Softest(sent)
        BY DEF Silenced, Softest, TopBits
      <3>8. HeardRaised
        BY <3>6, <3>7 DEF HeardRaised, Layout, ToldBack, TopBits
      <3> QED
        BY <2>3, <3>8
    <2> QED
      BY <2>2, <2>3
  <1> QED
    BY <1>1, CarriageInductive, PTL DEF UmpSpec
=============================================================================
