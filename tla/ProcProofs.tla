----------------------------- MODULE ProcProofs -----------------------------
(***************************************************************************)
(* Proofs about Proc for every set of packets, every buffer size and every *)
(* length of the input: type correctness, that a reassembly buffer holds   *)
(* one run of packets, and that an undisturbed message is held and delivered *)
(* whole.  Then about UmpCodec, for any messages: what the dispatcher      *)
(* reads and what the translation of MIDI 1.0 to 2.0 and back keeps.       *)
(***************************************************************************)
EXTENDS Proc, UmpCodec, DataLemmas

Byte == Nat \X Nat

(* A kind without a buffer never leaves its initial state. *)
NoBufferIdle == \A k \in Kinds \ Buffers : asm[k] = Idle

(* The inductive invariant.  What is delivered is a buffer as it was one    *)
(* step earlier, so the two properties of upcalls rest on the two of the   *)
(* buffers, which are inductive.                                           *)
IInv ==
  /\ TypeOK
  /\ NoBufferIdle
  /\ BuffersHoldOneRun
  /\ OpenRunsHeldWhole
  /\ DeliveriesHoldOneRun
  /\ IntactRunIsDelivered

-----------------------------------------------------------------------------
(* Lemmas about the operators. *)

(* Count is a natural number: what the code extracts of a packet. *)
LEMMA CountType ==
  ASSUME NEW p \in Packet
  PROVE  Count(p) \in Nat
  <1>1. p.num_bytes \in Nat /\ p.mt \in Types
    BY DEF Packet
  <1>2. MaxData["sysex7"] \in Nat /\ MaxData["sysex8"] \in Nat
    BY ProcAssumption DEF Kinds
  <1> QED
    BY <1>1, <1>2 DEF Count, Smaller

(* The data of a packet, as a sequence of bytes of that packet. *)
LEMMA DataProperties ==
  ASSUME NEW p \in Packet, NEW i \in Nat
  PROVE  /\ Data(p, i) \in Seq(Byte)
         /\ Len(Data(p, i)) = Count(p)
         /\ \A j \in 1 .. Count(p) : Data(p, i)[j] = <<i, j>>
         /\ Elems(Data(p, i)) = {<<i, j>> : j \in 1 .. Count(p)}
  <1>1. Count(p) \in Nat
    BY CountType
  <1>2. \A j \in 1 .. Count(p) : <<i, j>> \in Byte
    BY <1>1 DEF Byte
  <1>3. Data(p, i) \in Seq(Byte)
    BY <1>1, <1>2, IsASeq DEF Data
  <1>4. DOMAIN Data(p, i) = 1 .. Count(p)
    BY DEF Data
  <1>5. Len(Data(p, i)) = Count(p)
    BY <1>1, <1>3, <1>4, LenProperties
  <1>6. \A j \in 1 .. Count(p) : Data(p, i)[j] = <<i, j>>
    BY DEF Data
  <1> QED
    BY <1>3, <1>4, <1>5, <1>6 DEF Elems

(* The bytes the code extracts are those the packet carries. *)
LEMMA CountCovers ==
  ASSUME NEW p \in Packet, p.mt \in Kinds
  PROVE  Covered(p) = 1 .. Count(p)
  <1>1. p.num_bytes \in Nat /\ p.mt \in {"sysex7", "sysex8"}
    BY DEF Packet, Kinds
  <1>2. MaxData["sysex7"] \in Nat /\ MaxData["sysex8"] \in Nat
    BY ProcAssumption DEF Kinds
  <1>3. CASE p.mt = "sysex7"
    <2>1. Covered(p) = {j \in 1 .. MaxData["sysex7"] : j <= p.num_bytes}
      BY <1>1, <1>2, <1>3 DEF Covered
    <2>2. Count(p) = IF p.num_bytes < MaxData["sysex7"] THEN p.num_bytes
                     ELSE MaxData["sysex7"]
      BY <1>3 DEF Count, Smaller
    <2> QED
      BY <1>1, <1>2, <2>1, <2>2
  <1>4. CASE p.mt = "sysex8"
    <2>1. Covered(p) = {j \in 1 .. MaxData["sysex8"] : j + 1 <= p.num_bytes}
      BY <1>1, <1>2, <1>4 DEF Covered
    <2> DEFINE c == IF p.num_bytes > 1 THEN p.num_bytes - 1 ELSE 0
    <2>2. Count(p) = IF c < MaxData["sysex8"] THEN c ELSE MaxData["sysex8"]
      BY <1>4 DEF Count, Smaller
    <2> QED
      BY <1>1, <1>2, <2>1, <2>2
  <1> QED
    BY <1>1, <1>3, <1>4

(* What Fill returns: the old buffer, then a prefix of the data, all of it *)
(* unless the result has reached the size.                                 *)
IsFill(f, buf, data, size) ==
  /\ Len(f) <= size
  /\ Len(buf) <= Len(f)
  /\ \A x \in 1 .. Len(buf) : f[x] = buf[x]
  /\ \A x \in 1 .. Len(f) : x > Len(buf) =>
       x - Len(buf) \in 1 .. Len(data) /\ f[x] = data[x - Len(buf)]
  /\ Len(f) < size => Len(f) = Len(buf) + Len(data)

(* Fill returns what IsFill says. *)
LEMMA FillProperties ==
  ASSUME NEW S, NEW buf \in Seq(S), NEW data \in Seq(S), NEW size \in Nat,
         Len(buf) <= size
  PROVE  /\ Fill(buf, data, size) \in Seq(S)
         /\ IsFill(Fill(buf, data, size), buf, data, size)
  <1> DEFINE n == Smaller(Len(data), size - Len(buf))
             tail == SubSeq(data, 1, n)
             f == buf \o tail
  <1>1. Len(buf) \in Nat /\ Len(data) \in Nat
    BY LenProperties
  <1>2. n \in 0 .. Len(data) /\ n <= size - Len(buf)
        /\ (n = Len(data) \/ n = size - Len(buf))
    BY <1>1 DEF Smaller
  <1>3. Fill(buf, data, size) = f
    BY DEF Fill
  <1> HIDE DEF n
  <1>4. tail \in Seq(S) /\ Len(tail) = n /\ \A i \in 1 .. n : tail[i] = data[i]
    BY <1>1, <1>2, SubSeqProperties
  <1> HIDE DEF tail
  <1>5. /\ f \in Seq(S)
        /\ Len(f) = Len(buf) + n
        /\ \A i \in 1 .. Len(buf) + n :
             f[i] = IF i <= Len(buf) THEN buf[i] ELSE tail[i - Len(buf)]
    <2>1. /\ buf \o tail \in Seq(S)
          /\ Len(buf \o tail) = Len(buf) + Len(tail)
          /\ \A i \in 1 .. Len(buf) + Len(tail) :
               (buf \o tail)[i] = IF i <= Len(buf) THEN buf[i] ELSE tail[i - Len(buf)]
      BY <1>4, ConcatProperties, Zenon
    <2> QED
      BY <1>4, <2>1
  <1> HIDE DEF f
  <1>6. \A x \in 1 .. Len(f) : x > Len(buf) =>
          x - Len(buf) \in 1 .. Len(data) /\ f[x] = data[x - Len(buf)]
    BY <1>1, <1>2, <1>4, <1>5
  <1>7. \A x \in 1 .. Len(buf) : f[x] = buf[x]
    BY <1>1, <1>2, <1>5
  <1>8. /\ Len(f) <= size
        /\ Len(buf) <= Len(f)
        /\ Len(f) < size => Len(f) = Len(buf) + Len(data)
    <2>1. Len(f) = Len(buf) + n
      BY <1>5
    <2> QED
      BY <1>1, <1>2, <2>1
  <1>9. f \in Seq(S) /\ IsFill(f, buf, data, size)
    BY <1>5, <1>6, <1>7, <1>8, Zenon DEF IsFill
  <1> QED
    BY <1>3, <1>9, Zenon

(* The same for the sets of bytes. *)
LEMMA FillElems ==
  ASSUME NEW S, NEW buf \in Seq(S), NEW data \in Seq(S), NEW size \in Nat,
         NEW f \in Seq(S), IsFill(f, buf, data, size)
  PROVE  /\ Elems(buf) \subseteq Elems(f)
         /\ Elems(f) \subseteq Elems(buf) \union Elems(data)
         /\ Elems(data) \subseteq Elems(f) \/ Len(f) = size
  <1>1. Len(buf) \in Nat /\ Len(data) \in Nat /\ Len(f) \in Nat
    BY LenProperties
  <1>2. Elems(buf) \subseteq Elems(f)
    <2> SUFFICES ASSUME NEW x \in 1 .. Len(buf)
                 PROVE  buf[x] \in Elems(f)
      BY <1>1 DEF Elems
    <2>1. x \in 1 .. Len(f) /\ f[x] = buf[x]
      BY <1>1 DEF IsFill
    <2> QED
      BY <1>1, <2>1 DEF Elems
  <1>3. Elems(f) \subseteq Elems(buf) \union Elems(data)
    <2> SUFFICES ASSUME NEW x \in 1 .. Len(f)
                 PROVE  f[x] \in Elems(buf) \union Elems(data)
      BY <1>1 DEF Elems
    <2>1. CASE x <= Len(buf)
      <3>1. x \in 1 .. Len(buf) /\ f[x] = buf[x]
        BY <1>1, <2>1 DEF IsFill
      <3> QED
        BY <1>1, <3>1 DEF Elems
    <2>2. CASE x > Len(buf)
      <3>1. x - Len(buf) \in 1 .. Len(data) /\ f[x] = data[x - Len(buf)]
        BY <2>2 DEF IsFill
      <3> QED
        BY <1>1, <3>1 DEF Elems
    <2> QED
      BY <1>1, <2>1, <2>2
  <1>4. ASSUME Len(f) = Len(buf) + Len(data)
        PROVE  Elems(data) \subseteq Elems(f)
    <2> SUFFICES ASSUME NEW j \in 1 .. Len(data)
                 PROVE  data[j] \in Elems(f)
      BY <1>1 DEF Elems
    <2>1. /\ j + Len(buf) \in 1 .. Len(f)
          /\ j + Len(buf) > Len(buf)
          /\ (j + Len(buf)) - Len(buf) = j
      BY <1>1, <1>4
    <2>2. f[j + Len(buf)] = data[j]
      BY <2>1 DEF IsFill
    <2> QED
      BY <1>1, <2>1, <2>2 DEF Elems
  <1> QED
    BY <1>1, <1>2, <1>3, <1>4 DEF IsFill

(* What the buffer holds after packet p is appended. *)
LEMMA GatheredProperties ==
  ASSUME TypeOK, NEW p \in Packets, p.mt \in Kinds, NEW i \in Nat
  PROVE  LET a == asm[p.mt]
             g == Gathered(a, p, Data(p, i))
         IN  /\ Kept(a, p) \in Seq(Byte)
             /\ g \in Seq(Byte)
             /\ IsFill(g, Kept(a, p), Data(p, i), BufSize[p.mt])
             /\ Elems(Kept(a, p)) \subseteq Elems(g)
             /\ Elems(g) \subseteq Elems(Kept(a, p)) \union Elems(Data(p, i))
             /\ Elems(Data(p, i)) \subseteq Elems(g) \/ Len(g) = BufSize[p.mt]
  <1> DEFINE a == asm[p.mt]
             kept == Kept(a, p)
             data == Data(p, i)
             size == BufSize[p.mt]
             g == Fill(kept, data, size)
  <1>1. size \in Nat
    BY ProcAssumption
  <1>2. a.buf \in Seq(Byte) /\ Len(a.buf) <= size
    BY DEF TypeOK, Byte
  <1>3. <<>> \in Seq(Byte) /\ Len(<<>>) = 0
    BY EmptySeq
  <1>4. kept \in Seq(Byte) /\ Len(kept) <= size
    BY <1>1, <1>2, <1>3 DEF Kept
  <1>5. data \in Seq(Byte)
    BY DataProperties, ProcAssumption
  <1> HIDE DEF kept, data, size, a
  <1>6. g \in Seq(Byte) /\ IsFill(g, kept, data, size)
    BY <1>1, <1>4, <1>5, FillProperties, Zenon
  <1>7. /\ Elems(kept) \subseteq Elems(g)
        /\ Elems(g) \subseteq Elems(kept) \union Elems(data)
        /\ Elems(data) \subseteq Elems(g) \/ Len(g) = size
    BY <1>1, <1>4, <1>5, <1>6, FillElems, Zenon
  <1> QED
    BY <1>4, <1>6, <1>7, Zenon DEF Gathered, kept, data, size, a

(* The history after one more packet. *)
LEMMA FedProperties ==
  ASSUME fed \in Seq(Packets), NEW p \in Packets, fed' = Append(fed, p)
  PROVE  /\ fed' \in Seq(Packets)
         /\ Len(fed) \in Nat
         /\ Len(fed') = Len(fed) + 1
         /\ fed'[Len(fed) + 1] = p
         /\ \A t \in 1 .. Len(fed) :
              fed'[t] = fed[t] /\ BytesOf(fed', t) = BytesOf(fed, t)
         /\ p.mt \in Kinds =>
              BytesOf(fed', Len(fed) + 1) = Elems(Data(p, Len(fed) + 1))
         /\ \A b \in Elems(Data(p, Len(fed) + 1)) : b[1] = Len(fed) + 1
  <1>1. /\ Len(fed) \in Nat
        /\ fed' \in Seq(Packets)
        /\ Len(fed') = Len(fed) + 1
        /\ fed'[Len(fed) + 1] = p
        /\ \A t \in 1 .. Len(fed) : fed'[t] = fed[t]
    BY AppendProperties, LenProperties
  <1>2. \A t \in 1 .. Len(fed) : BytesOf(fed', t) = BytesOf(fed, t)
    BY <1>1 DEF BytesOf
  <1>4. Len(fed) + 1 \in Nat /\ p \in Packet
    BY <1>1, ProcAssumption
  <1>3. ASSUME p.mt \in Kinds
        PROVE  BytesOf(fed', Len(fed) + 1) = {<<Len(fed) + 1, j>> : j \in 1 .. Count(p)}
    <2>1. Covered(p) = 1 .. Count(p)
      BY <1>3, <1>4, CountCovers
    <2> QED
      BY <1>1, <2>1 DEF BytesOf
  <1>5. Elems(Data(p, Len(fed) + 1)) = {<<Len(fed) + 1, j>> : j \in 1 .. Count(p)}
    BY <1>4, DataProperties
  <1>6. \A b \in Elems(Data(p, Len(fed) + 1)) : b[1] = Len(fed) + 1
    BY <1>5
  <1> QED
    BY <1>1, <1>2, <1>3, <1>5, <1>6

(* Appending a packet that takes part keeps the rule of OneRun.        *)
LEMMA GatheredOneRun ==
  ASSUME TypeOK, BuffersHoldOneRun,
         NEW p \in Packets, p.mt \in Kinds, TakesPart(p, p.mt),
         fed' = Append(fed, p)
  PROVE  LET g == Gathered(asm[p.mt], p, Data(p, Len(fed) + 1))
         IN  OneRun(fed', g, Key(p), p.mt, Len(fed))
  <1> DEFINE n == Len(fed)
             k == p.mt
             a == asm[k]
             kept == Kept(a, p)
             data == Data(p, n + 1)
             size == BufSize[k]
             g == Gathered(a, p, data)
  <1>1. /\ n \in Nat
        /\ Len(fed') = n + 1
        /\ fed'[n + 1] = p
        /\ \A t \in 1 .. n : fed'[t] = fed[t] /\ BytesOf(fed', t) = BytesOf(fed, t)
        /\ BytesOf(fed', n + 1) = Elems(data)
        /\ \A b \in Elems(data) : b[1] = n + 1
    <2>1. fed \in Seq(Packets)
      BY DEF TypeOK
    <2> QED
      BY <2>1, FedProperties, Zenon
  <1>2. /\ kept \in Seq(Byte) /\ g \in Seq(Byte)
        /\ IsFill(g, kept, data, size)
        /\ Elems(kept) \subseteq Elems(g)
        /\ Elems(g) \subseteq Elems(kept) \union Elems(data)
        /\ Elems(data) \subseteq Elems(g) \/ Len(g) = size
    <2>1. n + 1 \in Nat
      BY <1>1
    <2> QED
      BY <2>1, GatheredProperties
  <1>3. /\ data \in Seq(Byte)
        /\ Len(data) = Count(p) /\ Count(p) \in Nat
        /\ \A j \in 1 .. Count(p) : data[j] = <<n + 1, j>>
    <2>1. p \in Packet /\ n + 1 \in Nat
      BY <1>1, ProcAssumption
    <2> QED
      BY <2>1, DataProperties, CountType
  <1>4. OneRun(fed, kept, Key(p), k, n) /\ (kept # <<>> => p.status # "start")
    <2>1. CASE kept = <<>>
      <3>1. Len(<<>>) = 0
        OBVIOUS
      <3>2. Elems(kept) = {}
        BY <2>1, <3>1 DEF Elems
      <3> QED
        BY <2>1, <3>1, <3>2 DEF OneRun
    <2>2. CASE kept # <<>>
      <3>1. kept = a.buf /\ p.status # "start" /\ Key(p) = a.key
        BY <2>2 DEF Kept, Foreign
      <3> QED
        BY <3>1 DEF BuffersHoldOneRun
    <2> QED
      BY <2>1, <2>2
  <1> HIDE DEF n, k, a, kept, data, size, g
  <1>5. \A b \in Elems(kept) : b[1] \in 1 .. n
    BY <1>4 DEF OneRun, n
  <1>6. ASSUME NEW x \in 1 .. Len(g), NEW y \in 1 .. Len(g), x < y
        PROVE  Before(g[x], g[y])
    <2>1. Len(kept) \in Nat /\ Len(g) \in Nat /\ Len(data) \in Nat
      BY <1>2, <1>3, LenProperties
    <2>2. CASE y <= Len(kept)
      <3>1. /\ x \in 1 .. Len(kept) /\ y \in 1 .. Len(kept)
            /\ g[x] = kept[x] /\ g[y] = kept[y]
        BY <1>2, <2>1, <2>2, <1>6 DEF IsFill
      <3> QED
        BY <1>4, <1>6, <3>1 DEF OneRun
    <2>3. CASE x <= Len(kept) /\ y > Len(kept)
      <3>1. x \in 1 .. Len(kept) /\ g[x] = kept[x]
        BY <1>2, <2>1, <2>3 DEF IsFill
      <3>2. g[x] \in Elems(kept)
        BY <3>1 DEF Elems
      <3>3. g[y] = <<n + 1, y - Len(kept)>>
        BY <1>2, <1>3, <2>1, <2>3 DEF IsFill
      <3> QED
        BY <1>1, <1>5, <3>2, <3>3 DEF Before
    <2>4. CASE x > Len(kept)
      <3>1. g[x] = <<n + 1, x - Len(kept)>>
        BY <1>2, <1>3, <2>1, <2>4 DEF IsFill
      <3>2. g[y] = <<n + 1, y - Len(kept)>>
        BY <1>2, <1>3, <1>6, <2>1, <2>4, SMTT(30) DEF IsFill
      <3> QED
        BY <1>1, <1>6, <2>1, <3>1, <3>2 DEF Before
    <2> QED
      BY <2>1, <2>2, <2>3, <2>4
  <1>7. ASSUME NEW b \in Elems(g)
        PROVE  /\ b[1] \in 1 .. n + 1
               /\ b \in BytesOf(fed', b[1])
               /\ b[1] # n + 1 => b \in Elems(kept)
    <2>1. CASE b \in Elems(kept)
      BY <1>1, <1>4, <1>5, <2>1 DEF OneRun
    <2>2. CASE b \in Elems(data)
      BY <1>1, <2>2
    <2> QED
      BY <1>2, <2>1, <2>2
  <1>8. ASSUME NEW b \in Elems(g), NEW t \in b[1] .. n + 1, TakesPart(fed'[t], k)
        PROVE  /\ Key(fed'[t]) = Key(p)
               /\ t > b[1] => fed'[t].status # "start"
               /\ t <= n => fed'[t].status # "end"
               /\ BytesOf(fed', t) \subseteq Elems(g) \/ Len(g) = size
    <2>1. CASE t = n + 1
      <3>1. b[1] < n + 1 => p.status # "start"
        <4>1. Len(<<>>) = 0 /\ Elems(<<>>) = {}
          BY DEF Elems
        <4> QED
          BY <1>4, <1>7, <1>8, <1>1, <4>1
      <3> QED
        BY <1>1, <1>2, <1>7, <2>1, <3>1
    <2>2. CASE t # n + 1
      <3>1. t \in b[1] .. n /\ t \in 1 .. n /\ b \in Elems(kept)
        BY <1>1, <1>7, <2>2
      <3>2. /\ Key(fed[t]) = Key(p)
            /\ t > b[1] => fed[t].status # "start"
            /\ t <= n => fed[t].status # "end"
            /\ BytesOf(fed, t) \subseteq Elems(kept) \/ Len(kept) = size
        BY <1>1, <1>4, <1>8, <3>1 DEF OneRun, n, size, k
      <3>3. Len(kept) = size => Len(g) = size
        <4>1. Len(kept) \in Nat /\ Len(g) \in Nat /\ size \in Nat
          BY <1>2, LenProperties, ProcAssumption DEF size, k
        <4> QED
          BY <1>2, <4>1 DEF IsFill
      <3> QED
        BY <1>1, <1>2, <3>1, <3>2, <3>3
    <2> QED
      BY <2>1, <2>2
  <1>9. OneRun(fed', g, Key(p), k, n)
    BY <1>1, <1>6, <1>7, <1>8 DEF OneRun, size
  <1> QED
    BY <1>9 DEF g, a, data, k, n

(* Appending a packet of the run in progress keeps the run whole.          *)
LEMMA GatheredWhole ==
  ASSUME TypeOK, OpenRunsHeldWhole,
         NEW p \in Packets, p.mt \in Kinds \intersect Buffers,
         TakesPart(p, p.mt), p.status # "start",
         fed' = Append(fed, p),
         NEW s \in 1 .. Len(fed), OpenRun(fed, s, Len(fed), p.mt),
         Key(p) = Key(fed[s])
  PROVE  LET g == Gathered(asm[p.mt], p, Data(p, Len(fed) + 1))
             run == RunBytes(fed', s, Len(fed) + 1, p.mt)
         IN  /\ ~Foreign(asm[p.mt], p)
             /\ Elems(g) \subseteq run
             /\ run \subseteq Elems(g) \/ Len(g) = BufSize[p.mt]
  <1> DEFINE n == Len(fed)
             k == p.mt
             a == asm[k]
             data == Data(p, n + 1)
             size == BufSize[k]
             g == Gathered(a, p, data)
             old == RunBytes(fed, s, n, k)
             run == RunBytes(fed', s, n + 1, k)
  <1>1. /\ n \in Nat
        /\ fed'[n + 1] = p
        /\ \A t \in 1 .. n : fed'[t] = fed[t] /\ BytesOf(fed', t) = BytesOf(fed, t)
        /\ BytesOf(fed', n + 1) = Elems(data)
    <2>1. fed \in Seq(Packets)
      BY DEF TypeOK
    <2> QED
      BY <2>1, FedProperties, Zenon
  <1>2. /\ a.key = Key(p)
        /\ Elems(a.buf) \subseteq old
        /\ old \subseteq Elems(a.buf) \/ Len(a.buf) = size
    BY DEF OpenRunsHeldWhole, HeldWhole
  <1>3. ~Foreign(a, p) /\ Kept(a, p) = a.buf
    BY <1>2 DEF Foreign, Kept
  <1>4. /\ a.buf \in Seq(Byte) /\ g \in Seq(Byte)
        /\ IsFill(g, a.buf, data, size)
        /\ Elems(a.buf) \subseteq Elems(g)
        /\ Elems(g) \subseteq Elems(a.buf) \union Elems(data)
        /\ Elems(data) \subseteq Elems(g) \/ Len(g) = size
    <2>1. n + 1 \in Nat
      BY <1>1
    <2> QED
      BY <1>3, <2>1, GatheredProperties
  <1>5. run = old \union Elems(data)
    <2>1. \A u \in 1 .. n + 1 : TakesPart(fed'[u], k) <=> u = n + 1 \/ TakesPart(fed[u], k)
      BY <1>1
    <2>2. {u \in s .. n + 1 : TakesPart(fed'[u], k)}
            = {u \in s .. n : TakesPart(fed[u], k)} \union {n + 1}
      BY <1>1, <2>1
    <2>3. \A u \in {v \in s .. n : TakesPart(fed[v], k)} :
            BytesOf(fed', u) = BytesOf(fed, u)
      BY <1>1
    <2> QED
      BY <1>1, <2>2, <2>3 DEF RunBytes
  <1>6. Len(a.buf) = size => Len(g) = size
    <2>1. Len(a.buf) \in Nat /\ Len(g) \in Nat /\ size \in Nat
      BY <1>4, LenProperties, ProcAssumption
    <2> QED
      BY <1>4, <2>1 DEF IsFill
  <1> QED
    BY <1>2, <1>3, <1>4, <1>5, <1>6

-----------------------------------------------------------------------------
(* The effect of a step on the reassembly of one kind: a packet that takes *)
(* part and has a buffer is processed, everything else leaves it alone.    *)
LEMMA FeedEffect ==
  ASSUME TypeOK, NEW p \in Packets, Feed(p)
  PROVE  /\ fed' = Append(fed, p)
         /\ \A k \in Kinds :
              asm'[k] = IF k \in Buffers /\ TakesPart(p, k)
                        THEN Reassembled(asm[k], p, Data(p, Len(fed) + 1))
                        ELSE asm[k]
         /\ DOMAIN asm' = Kinds
         /\ up' = IF ~p.truncated /\ p.mt \in Buffers
                  THEN SysexUpcall(asm[p.mt], p, Data(p, Len(fed) + 1))
                  ELSE IF ~p.truncated /\ p.mt \notin Kinds /\ PassesFilter(p)
                  THEN Upcall("on_ump", p, <<>>) ELSE NoUpcall
  <1>1. fed' = Append(fed, p)
    BY DEF Feed
  <1>2. Buffers \subseteq Kinds
    BY ProcAssumption
  <1>3. DOMAIN asm = Kinds
    BY DEF TypeOK
  <1>4. CASE FeedTruncated(p)
    BY <1>1, <1>2, <1>3, <1>4 DEF FeedTruncated, TakesPart
  <1>5. CASE FeedSysex(p)
    <2>1. CASE p.mt \notin Buffers
      BY <1>1, <1>2, <1>3, <1>5, <2>1 DEF FeedSysex, TakesPart
    <2>2. CASE p.mt \in Buffers
      <3> DEFINE r == Reassembled(asm[p.mt], p, Data(p, Len(fed) + 1))
      <3>1. /\ asm' = [asm EXCEPT ![p.mt] = r]
            /\ up' = SysexUpcall(asm[p.mt], p, Data(p, Len(fed) + 1))
        BY <1>5, <2>2 DEF FeedSysex
      <3>2. p.status = "complete" => r = asm[p.mt]
        BY DEF Reassembled
      <3> HIDE DEF r
      <3>3. \A k \in Kinds : asm'[k] = IF k = p.mt THEN r ELSE asm[k]
        BY <1>3, <3>1
      <3>4. \A k \in Kinds :
              asm'[k] = IF k \in Buffers /\ TakesPart(p, k) THEN r ELSE asm[k]
        BY <1>5, <2>2, <3>2, <3>3 DEF TakesPart, FeedSysex
      <3> QED
        BY <1>1, <1>2, <1>3, <1>5, <2>2, <3>1, <3>4 DEF FeedSysex, TakesPart, r
    <2> QED
      BY <2>1, <2>2
  <1>6. CASE FeedOther(p)
    BY <1>1, <1>2, <1>3, <1>6 DEF FeedOther, TakesPart
  <1> QED
    BY <1>4, <1>5, <1>6 DEF Feed

(* The key of a packet, <<group>> or <<group, stream id>>, is a sequence.   *)
LEMMA KeyType ==
  ASSUME NEW p \in Packets
  PROVE  Key(p) \in Seq(Groups \union Nat)
  <1>1. p.group \in Groups \union Nat /\ p.stream \in Groups \union Nat
    BY ProcAssumption DEF Packet
  <1> DEFINE S == Groups \union Nat
  <1>2. <<p.group>> \in Seq(S) /\ <<p.group, p.stream>> \in Seq(S)
    BY <1>1
  <1> QED
    BY <1>2 DEF Key

(* Each conjunct of the invariant is preserved by Feed. *)
LEMMA ReassembledType ==
  ASSUME TypeOK, NEW p \in Packets, p.mt \in Kinds, NEW i \in Nat
  PROVE  LET r == Reassembled(asm[p.mt], p, Data(p, i))
         IN  /\ r \in [key: Seq(Groups \union Nat), buf: Seq(Nat \X Nat)]
             /\ Len(r.buf) <= BufSize[p.mt]
  <1> DEFINE a == asm[p.mt]
             g == Gathered(a, p, Data(p, i))
             Asm == [key: Seq(Groups \union Nat), buf: Seq(Nat \X Nat)]
  <1>1. a \in Asm /\ Len(a.buf) <= BufSize[p.mt] /\ BufSize[p.mt] \in Nat
    BY ProcAssumption DEF TypeOK
  <1>2. Key(p) \in Seq(Groups \union Nat)
    BY KeyType
  <1>3. g \in Seq(Nat \X Nat) /\ Len(g) <= BufSize[p.mt]
    BY GatheredProperties DEF IsFill, Byte
  <1>4. Idle \in Asm /\ Len(Idle.buf) = 0
    BY EmptySeq DEF Idle, NoKey
  <1>5. [key |-> Key(p), buf |-> <<>>] \in Asm /\ Len(<<>>) = 0
    BY <1>2, EmptySeq
  <1> HIDE DEF g, a
  <1>6. [key |-> Key(p), buf |-> g] \in Asm
    BY <1>2, <1>3
  <1> QED
    BY <1>1, <1>3, <1>4, <1>5, <1>6 DEF Reassembled, g, a

(* What a SysEx callback is called with is of its type. *)
LEMMA SysexUpcallType ==
  ASSUME TypeOK, NEW p \in Packets, p.mt \in Kinds, NEW i \in Nat
  PROVE  SysexUpcall(asm[p.mt], p, Data(p, i))
           \in [cb: Callbacks \union {"none"}, key: Seq(Groups \union Nat),
                data: Seq(Nat \X Nat)]
  <1> DEFINE d == Data(p, i)
             g == Gathered(asm[p.mt], p, d)
  <1>1. Key(p) \in Seq(Groups \union Nat)
    BY KeyType
  <1>2. g \in Seq(Nat \X Nat)
    BY GatheredProperties DEF Byte
  <1>3. d \in Seq(Nat \X Nat)
    BY DataProperties, ProcAssumption DEF Byte
  <1>4. NoKey \in Seq(Groups \union Nat) /\ <<>> \in Seq(Nat \X Nat)
    BY EmptySeq DEF NoKey
  <1> HIDE DEF g, d
  <1> QED
    BY <1>1, <1>2, <1>3, <1>4 DEF SysexUpcall, Upcall, NoUpcall, g, d

(* One feed preserves the types and the bound of the buffers. *)
LEMMA TypeOKFeed ==
  ASSUME TypeOK, NEW p \in Packets, Feed(p)
  PROVE  TypeOK'
  <1> DEFINE Asm == [key: Seq(Groups \union Nat), buf: Seq(Nat \X Nat)]
             Up == [cb: Callbacks \union {"none"}, key: Seq(Groups \union Nat),
                    data: Seq(Nat \X Nat)]
  <1>1. fed \in Seq(Packets) /\ Len(fed) + 1 \in Nat /\ fed' \in Seq(Packets)
    <2>1. fed \in Seq(Packets)
      BY DEF TypeOK
    <2> QED
      BY <2>1, FedProperties, FeedEffect
  <1>2. asm' \in [Kinds -> Asm] /\ \A k \in Kinds : Len(asm'[k].buf) <= BufSize[k]
    <2>1. ASSUME NEW k \in Kinds
          PROVE  asm'[k] \in Asm /\ Len(asm'[k].buf) <= BufSize[k]
      <3>1. CASE k \in Buffers /\ TakesPart(p, k)
        <4>1. p.mt = k
          BY <3>1 DEF TakesPart
        <4> QED
          BY <1>1, <3>1, <4>1, FeedEffect, ReassembledType, ZenonT(30)
      <3>2. CASE ~(k \in Buffers /\ TakesPart(p, k))
        BY <3>2, FeedEffect DEF TypeOK
      <3> QED
        BY <3>1, <3>2
    <2>2. asm' = [k \in Kinds |-> asm'[k]]
      <3>1. asm \in [Kinds -> Asm]
        BY DEF TypeOK
      <3> QED
        BY <3>1 DEF Feed, FeedTruncated, FeedSysex, FeedOther
    <2> QED
      BY <2>1, <2>2
  <1>3. up' \in Up
    <2>1. Key(p) \in Seq(Groups \union Nat)
      BY KeyType
    <2>2. NoKey \in Seq(Groups \union Nat) /\ <<>> \in Seq(Nat \X Nat)
      BY EmptySeq DEF NoKey
    <2>3. NoUpcall \in Up /\ Upcall("on_ump", p, <<>>) \in Up
      BY <2>1, <2>2 DEF NoUpcall, Upcall
    <2>4. CASE ~p.truncated /\ p.mt \in Buffers
      <3>1. p.mt \in Kinds
        BY <2>4, ProcAssumption
      <3>2. up' = SysexUpcall(asm[p.mt], p, Data(p, Len(fed) + 1))
        BY <2>4, FeedEffect
      <3> QED
        BY <1>1, <3>1, <3>2, SysexUpcallType
    <2>5. CASE ~(~p.truncated /\ p.mt \in Buffers)
      <3>1. up' \in {Upcall("on_ump", p, <<>>), NoUpcall}
        BY <2>5, FeedEffect, Zenon
      <3> QED
        BY <2>3, <3>1
    <2> QED
      BY <2>4, <2>5
  <1> QED
    BY <1>1, <1>2, <1>3 DEF TypeOK, Feed

(* A kind whose buffer is NULL stays idle (midi2_proc.c:64, 121). *)
LEMMA NoBufferIdleFeed ==
  ASSUME TypeOK, NoBufferIdle, NEW p \in Packets, Feed(p)
  PROVE  NoBufferIdle'
  BY FeedEffect DEF NoBufferIdle

(* One feed leaves every buffer with bytes of one message. *)
LEMMA BuffersHoldOneRunFeed ==
  ASSUME TypeOK, NoBufferIdle, BuffersHoldOneRun, NEW p \in Packets, Feed(p)
  PROVE  BuffersHoldOneRun'
  <1>1. SUFFICES ASSUME NEW k \in Kinds
                 PROVE  OneRun(fed', asm'[k].buf, asm'[k].key, k, Len(fed'))
    BY DEF BuffersHoldOneRun, OneRun, Elems
  <1> DEFINE n == Len(fed)
             r == Reassembled(asm[k], p, Data(p, n + 1))
  <1>2. /\ fed' = Append(fed, p)
        /\ n \in Nat /\ Len(fed') = n + 1 /\ fed'[n + 1] = p
        /\ \A t \in 1 .. n : fed'[t] = fed[t] /\ BytesOf(fed', t) = BytesOf(fed, t)
    <2>1. fed \in Seq(Packets)
      BY DEF TypeOK
    <2> QED
      BY <2>1, FeedEffect, FedProperties
  <1>3. OneRun(fed, asm[k].buf, asm[k].key, k, n)
    BY DEF BuffersHoldOneRun
  <1>4. \A key, last : OneRun(fed', <<>>, key, k, last)
    <2>1. Len(<<>>) = 0 /\ Elems(<<>>) = {}
      BY DEF Elems
    <2> QED
      BY <2>1 DEF OneRun
  <1>5. CASE ~TakesPart(p, k)
    <2>1. asm'[k] = asm[k]
      BY <1>5, FeedEffect
    <2>2. \A t \in 1 .. n + 1 : TakesPart(fed'[t], k) =>
            t \in 1 .. n /\ fed'[t] = fed[t] /\ BytesOf(fed', t) = BytesOf(fed, t)
      BY <1>2, <1>5
    <2>3. \A b \in Elems(asm[k].buf) : b[1] \in 1 .. n
      BY <1>3 DEF OneRun
    <2> QED
      BY <1>2, <1>3, <2>1, <2>2, <2>3 DEF OneRun
  <1>6. CASE TakesPart(p, k) /\ k \notin Buffers
    <2>1. asm'[k] = Idle
      BY <1>6, FeedEffect DEF NoBufferIdle
    <2> QED
      BY <1>4, <2>1 DEF Idle
  <1>7. CASE TakesPart(p, k) /\ k \in Buffers
    <2> DEFINE g == Gathered(asm[k], p, Data(p, n + 1))
    <2>1. asm'[k] = r /\ p.mt = k
      BY <1>7, FeedEffect DEF TakesPart
    <2>2. CASE p.status = "continue" /\ Foreign(asm[k], p)
      BY <1>4, <1>7, <2>1, <2>2 DEF Reassembled, TakesPart
    <2>3. CASE p.status = "end"
      BY <1>4, <1>7, <2>1, <2>3 DEF Reassembled, TakesPart, Idle
    <2>4. CASE ~(p.status = "continue" /\ Foreign(asm[k], p)) /\ p.status # "end"
      <3>1. asm'[k] = [key |-> Key(p), buf |-> g]
        BY <1>7, <2>1, <2>4 DEF Reassembled, TakesPart
      <3>2. OneRun(fed', g, Key(p), k, n)
        BY <1>2, <1>7, <2>1, GatheredOneRun
      <3> HIDE DEF g
      <3>3. OneRun(fed', g, Key(p), k, n + 1)
        BY <1>2, <2>4, <3>2 DEF OneRun
      <3> QED
        BY <1>2, <3>1, <3>3
    <2> QED
      BY <2>2, <2>3, <2>4
  <1> QED
    BY <1>5, <1>6, <1>7

(* One feed leaves every undisturbed message in progress held whole. *)
LEMMA OpenRunsHeldWholeFeed ==
  ASSUME TypeOK, OpenRunsHeldWhole, NEW p \in Packets, Feed(p)
  PROVE  OpenRunsHeldWhole'
  <1>1. SUFFICES
          ASSUME NEW k \in Kinds, k \in Buffers,
                 NEW s \in 1 .. Len(fed'), OpenRun(fed', s, Len(fed'), k)
          PROVE  LET run == RunBytes(fed', s, Len(fed'), k)
                 IN  /\ asm'[k].key = Key(fed'[s])
                     /\ Elems(asm'[k].buf) \subseteq run
                     /\ \/ run \subseteq Elems(asm'[k].buf)
                        \/ Len(asm'[k].buf) = BufSize[k]
    BY DEF OpenRunsHeldWhole, HeldWhole, Elems
  <1> DEFINE n == Len(fed)
             data == Data(p, n + 1)
             g == Gathered(asm[k], p, data)
             run == RunBytes(fed', s, n + 1, k)
  <1>2. /\ fed' = Append(fed, p)
        /\ n \in Nat /\ Len(fed') = n + 1 /\ fed'[n + 1] = p
        /\ \A t \in 1 .. n : fed'[t] = fed[t] /\ BytesOf(fed', t) = BytesOf(fed, t)
        /\ TakesPart(p, k) => BytesOf(fed', n + 1) = Elems(data)
    <2>1. fed \in Seq(Packets)
      BY DEF TypeOK
    <2> QED
      BY <2>1, FeedEffect, FedProperties DEF TakesPart
  <1>3. ASSUME s \in 1 .. n
        PROVE  OpenRun(fed, s, n, k) /\ fed'[s] = fed[s]
    BY <1>1, <1>2, <1>3 DEF OpenRun
  <1>4. CASE ~TakesPart(p, k)
    <2>1. s \in 1 .. n
      BY <1>1, <1>2, <1>4 DEF OpenRun
    <2>2. asm'[k] = asm[k]
      BY <1>4, FeedEffect
    <2>3. {u \in s .. n + 1 : TakesPart(fed'[u], k)} = {u \in s .. n : TakesPart(fed[u], k)}
      BY <1>2, <1>4, <2>1
    <2>4. run = RunBytes(fed, s, n, k)
      BY <1>2, <2>1, <2>3 DEF RunBytes
    <2>5. HeldWhole(k)
      BY DEF OpenRunsHeldWhole
    <2> QED
      BY <1>1, <1>2, <1>3, <2>1, <2>2, <2>4, <2>5 DEF HeldWhole
  <1>5. CASE TakesPart(p, k) /\ s = n + 1
    <2>1. p.status = "start" /\ p.mt = k
      BY <1>1, <1>2, <1>5 DEF OpenRun, TakesPart
    <2>2. asm'[k] = [key |-> Key(p), buf |-> g]
      BY <1>1, <1>5, <2>1, FeedEffect DEF Reassembled, Foreign
    <2>3. Kept(asm[k], p) = <<>> /\ Elems(<<>>) = {}
      BY <2>1 DEF Kept, Elems
    <2>4. /\ Elems(g) \subseteq Elems(data)
          /\ Elems(data) \subseteq Elems(g) \/ Len(g) = BufSize[k]
      <3>1. n + 1 \in Nat
        BY <1>2
      <3> QED
        BY <2>1, <2>3, <3>1, GatheredProperties
    <2>5. {u \in s .. n + 1 : TakesPart(fed'[u], k)} = {n + 1}
      BY <1>2, <1>5
    <2>6. run = Elems(data)
      BY <1>2, <2>5 DEF RunBytes
    <2> HIDE DEF g, data, run
    <2> QED
      BY <1>2, <1>5, <2>2, <2>4, <2>6 DEF run, n
  <1>6. CASE TakesPart(p, k) /\ s \in 1 .. n
    <2>1. p.status = "continue" /\ Key(p) = Key(fed[s]) /\ p.mt = k
      BY <1>1, <1>2, <1>6 DEF OpenRun, TakesPart
    <2>2. /\ ~Foreign(asm[k], p)
          /\ Elems(g) \subseteq run
          /\ run \subseteq Elems(g) \/ Len(g) = BufSize[k]
      BY <1>1, <1>2, <1>3, <1>6, <2>1, GatheredWhole
    <2>3. asm'[k] = [key |-> Key(p), buf |-> g]
      BY <1>1, <1>6, <2>1, <2>2, FeedEffect DEF Reassembled
    <2> HIDE DEF g, run
    <2> QED
      BY <1>2, <1>3, <1>6, <2>1, <2>2, <2>3 DEF run, n
  <1> QED
    BY <1>1, <1>2, <1>4, <1>5, <1>6

(* What one feed delivers is a COMPLETE packet or bytes of one message. *)
LEMMA DeliveriesHoldOneRunFeed ==
  ASSUME TypeOK, BuffersHoldOneRun, NEW p \in Packets, Feed(p)
  PROVE  DeliveriesHoldOneRun'
  <1> DEFINE n == Len(fed)
             data == Data(p, n + 1)
             g == Gathered(asm[p.mt], p, data)
  <1>1. /\ fed' = Append(fed, p)
        /\ n \in Nat /\ Len(fed') = n + 1 /\ fed'[n + 1] = p
    <2>1. fed \in Seq(Packets)
      BY DEF TypeOK
    <2> QED
      BY <2>1, FeedEffect, FedProperties
  <1>2. SUFFICES ASSUME up'.cb \in {"on_sysex7", "on_sysex8"}
                 PROVE  /\ Key(p) = up'.key
                        /\ \/ /\ p.status = "complete"
                              /\ Elems(up'.data) = BytesOf(fed', n + 1)
                              /\ \A x, y \in 1 .. Len(up'.data) :
                                   x < y => Before(up'.data[x], up'.data[y])
                           \/ /\ p.status = "end"
                              /\ OneRun(fed', up'.data, up'.key, p.mt, n)
    <2>1. (n + 1) - 1 = n
      BY <1>1
    <2> HIDE DEF n
    <2> QED
      BY <1>1, <2>1 DEF DeliveriesHoldOneRun, OneRun, Elems
  <1>3. /\ ~p.truncated /\ p.mt \in Buffers
        /\ up' = SysexUpcall(asm[p.mt], p, data)
    BY <1>2, FeedEffect DEF NoUpcall, Upcall
  <1>4. \/ p.status = "complete" /\ up'.key = Key(p) /\ up'.data = data
        \/ p.status = "end" /\ up'.key = Key(p) /\ up'.data = g
    <2> HIDE DEF g, data
    <2> QED
      BY <1>2, <1>3 DEF SysexUpcall, NoUpcall, Upcall, g
  <1>5. CASE p.status = "complete"
    <2>1. p.mt \in Kinds /\ p \in Packet /\ n + 1 \in Nat /\ fed \in Seq(Packets)
      BY <1>1, <1>3, ProcAssumption DEF TypeOK
    <2>2. BytesOf(fed', n + 1) = Elems(data)
      BY <1>1, <2>1, FedProperties, Zenon
    <2>3. /\ Len(data) = Count(p) /\ Count(p) \in Nat
          /\ \A x \in 1 .. Count(p) : data[x] = <<n + 1, x>>
      BY <2>1, DataProperties, CountType
    <2> HIDE DEF data, n
    <2>4. \A x, y \in 1 .. Len(data) : x < y => Before(data[x], data[y])
      BY <2>3 DEF Before
    <2> QED
      BY <1>4, <1>5, <2>2, <2>4
  <1>6. CASE p.status = "end"
    <2>1. p.mt \in Kinds /\ TakesPart(p, p.mt)
      BY <1>3, <1>6, ProcAssumption DEF TakesPart
    <2>2. OneRun(fed', g, Key(p), p.mt, n)
      BY <1>1, <2>1, GatheredOneRun
    <2> QED
      BY <1>4, <1>6, <2>2
  <1> QED
    BY <1>4, <1>5, <1>6

(* An End that closes an undisturbed message delivers all of it. *)
LEMMA IntactRunIsDeliveredFeed ==
  ASSUME TypeOK, OpenRunsHeldWhole, NEW p \in Packets, Feed(p)
  PROVE  IntactRunIsDelivered'
  <1> DEFINE n == Len(fed)
             k == p.mt
             cb == IF k = "sysex7" THEN "on_sysex7" ELSE "on_sysex8"
             g == Gathered(asm[k], p, Data(p, n + 1))
  <1>1. /\ fed' = Append(fed, p)
        /\ n \in Nat /\ Len(fed') = n + 1 /\ fed'[n + 1] = p
        /\ \A t \in 1 .. n : fed'[t] = fed[t]
    <2>1. fed \in Seq(Packets)
      BY DEF TypeOK
    <2> QED
      BY <2>1, FeedEffect, FedProperties
  <1>2. SUFFICES
          ASSUME NEW s \in 1 .. n + 1, k \in Buffers, cb \in Callbacks,
                 TakesPart(p, k), p.status = "end",
                 OpenRun(fed', s, n, k), Key(p) = Key(fed'[s])
          PROVE  LET run == RunBytes(fed', s, n + 1, k)
                 IN  /\ up'.cb = cb
                     /\ up'.key = Key(p)
                     /\ Elems(up'.data) \subseteq run
                     /\ run \subseteq Elems(up'.data) \/ Len(up'.data) = BufSize[k]
    <2>1. (n + 1) - 1 = n
      BY <1>1
    <2> HIDE DEF n
    <2> QED
      BY <1>1, <2>1 DEF IntactRunIsDelivered, Elems
  <1>3. s \in 1 .. n /\ OpenRun(fed, s, n, k) /\ Key(p) = Key(fed[s])
    BY <1>1, <1>2 DEF OpenRun
  <1>4. k \in Kinds \intersect Buffers /\ p.status # "start"
    BY <1>2, ProcAssumption
  <1>5. LET run == RunBytes(fed', s, n + 1, k)
        IN  Elems(g) \subseteq run /\ (run \subseteq Elems(g) \/ Len(g) = BufSize[k])
    BY <1>1, <1>2, <1>3, <1>4, GatheredWhole
  <1>6. up' = SysexUpcall(asm[k], p, Data(p, n + 1))
    BY <1>2, FeedEffect DEF TakesPart
  <1>7. up' = [cb |-> cb, key |-> Key(p), data |-> g]
    BY <1>2, <1>6 DEF SysexUpcall, Upcall
  <1> HIDE DEF g, cb, k, n
  <1> QED
    BY <1>5, <1>7

-----------------------------------------------------------------------------
(* The theorems. *)

(* The state midi2_proc_init leaves satisfies the invariant. *)
LEMMA InitIInv == Init => IInv
  <1> SUFFICES ASSUME Init PROVE IInv
    OBVIOUS
  <1> USE DEF Init
  <1>1. Len(fed) = 0 /\ Len(<<>>) = 0 /\ Elems(<<>>) = {} /\ Len(Idle.buf) = 0
    BY DEF Elems, Idle
  <1>2. <<>> \in Seq(Packets) /\ NoKey \in Seq(Groups \union Nat)
        /\ <<>> \in Seq(Nat \X Nat)
    BY EmptySeq DEF NoKey
  <1>3. TypeOK
    <2>1. Idle \in [key: Seq(Groups \union Nat), buf: Seq(Nat \X Nat)]
      BY <1>2 DEF Idle
    <2>2. asm \in [Kinds -> [key: Seq(Groups \union Nat), buf: Seq(Nat \X Nat)]]
      BY <2>1
    <2>3. \A k \in Kinds : Len(asm[k].buf) <= BufSize[k]
      BY <1>1, ProcAssumption
    <2>4. up \in [cb: Callbacks \union {"none"}, key: Seq(Groups \union Nat),
                  data: Seq(Nat \X Nat)]
      BY <1>2 DEF NoUpcall
    <2> QED
      BY <1>2, <2>2, <2>3, <2>4 DEF TypeOK
  <1>4. NoBufferIdle
    BY DEF NoBufferIdle
  <1>5. BuffersHoldOneRun
    BY <1>1 DEF BuffersHoldOneRun, OneRun, Idle
  <1>6. OpenRunsHeldWhole /\ IntactRunIsDelivered
    BY <1>1 DEF OpenRunsHeldWhole, HeldWhole, IntactRunIsDelivered
  <1>7. DeliveriesHoldOneRun
    BY DEF DeliveriesHoldOneRun, NoUpcall
  <1> QED
    BY <1>3, <1>4, <1>5, <1>6, <1>7 DEF IInv

(* Every feed, and every change of the group mask, preserves it. *)
LEMMA NextIInv == IInv /\ [Next]_vars => IInv'
  <1> SUFFICES ASSUME IInv, [Next]_vars
               PROVE  IInv'
    OBVIOUS
  <1>1. ASSUME NEW p \in Packets, Feed(p)
        PROVE  IInv'
    BY <1>1, TypeOKFeed, NoBufferIdleFeed, BuffersHoldOneRunFeed,
       OpenRunsHeldWholeFeed, DeliveriesHoldOneRunFeed, IntactRunIsDeliveredFeed
       DEF IInv
  <1>2. ASSUME UNCHANGED <<asm, up, fed>>, group_mask' \subseteq Groups
        PROVE  IInv'
    BY <1>2, SMTT(30) DEF IInv, TypeOK, NoBufferIdle, BuffersHoldOneRun, OneRun,
       OpenRunsHeldWhole, HeldWhole, DeliveriesHoldOneRun, IntactRunIsDelivered, Elems
  <1>3. ASSUME NEW m \in Masks, SetGroupMask(m)
        PROVE  IInv'
    BY <1>2, <1>3, ProcAssumption DEF SetGroupMask
  <1>4. CASE UNCHANGED vars
    BY <1>2, <1>4 DEF vars, IInv, TypeOK
  <1> QED
    BY <1>1, <1>3, <1>4 DEF Next

(* The conjunction of what follows, and the invariant that makes it        *)
(* inductive, holds of every state of the pipeline (midi2_proc_feed).      *)
THEOREM Invariance == Spec => []IInv
  BY InitIInv, NextIInv, PTL DEF Spec

(* The state of the pipeline is always of its type, and no reassembly      *)
(* buffer (midi2_proc.c:101, 172) is ever longer than the caller's.        *)
THEOREM TypeCorrect == Spec => []TypeOK
  <1>1. IInv => TypeOK
    BY DEF IInv
  <1> QED
    BY <1>1, Invariance, PTL

(* Whatever packets arrive, in whatever order, a reassembly buffer holds   *)
(* bytes of one message only (sysex7_process, sysex8_process).             *)
THEOREM BuffersHoldRuns == Spec => []BuffersHoldOneRun
  <1>1. IInv => BuffersHoldOneRun
    BY DEF IInv
  <1> QED
    BY <1>1, Invariance, PTL

(* What on_sysex7 and on_sysex8 receive is never spliced of two messages.  *)
THEOREM DeliveriesHoldRuns == Spec => []DeliveriesHoldOneRun
  <1>1. IInv => DeliveriesHoldOneRun
    BY DEF IInv
  <1> QED
    BY <1>1, Invariance, PTL

(* A message that no other packet of its kind disturbs is held whole while *)
(* in progress, for every buffer size.                                     *)
THEOREM RunsHeldWhole == Spec => []OpenRunsHeldWhole
  <1>1. IInv => OpenRunsHeldWhole
    BY DEF IInv
  <1> QED
    BY <1>1, Invariance, PTL

(* ... and delivered whole by its End, whatever the group mask.            *)
THEOREM IntactDelivered == Spec => []IntactRunIsDelivered
  <1>1. IInv => IntactRunIsDelivered
    BY DEF IInv
  <1> QED
    BY <1>1, Invariance, PTL
-----------------------------------------------------------------------------
(* The typed messages, UmpCodec. *)

(* Half a byte is the number that its four bits make.                      *)
LEMMA NibbleRead ==
  ASSUME NEW b \in SUBSET (0 .. 3)
  PROVE  Num(b) = (IF 3 \in b THEN 8 ELSE 0) + (IF 2 \in b THEN 4 ELSE 0)
                      + (IF 1 \in b THEN 2 ELSE 0) + (IF 0 \in b THEN 1 ELSE 0)
  <1>0. PICK f \in [0 .. 31 -> Nat] :
          /\ f = CHOOSE g : g = [k \in 0 .. 31 |->
                    IF k = 0 THEN 0 ELSE 2 * g[k - 1] + (IF 31 - k \in b THEN 1 ELSE 0)]
          /\ f[0] = 0
          /\ \A k \in 1 .. 31 : f[k] = 2 * f[k - 1] + (IF 31 - k \in b THEN 1 ELSE 0)
    BY BitsRead
  <1>1. /\ Num(b) = f[31] /\ f[0] = 0
        /\ \A k \in 1 .. 31 : f[k] = 2 * f[k - 1] + (IF 31 - k \in b THEN 1 ELSE 0)
    BY <1>0, Zenon DEF Num
  <1> DEFINE T == {n \in Nat : n <= 27 => f[n] = 0}
  <1>2. 0 \in T
    BY <1>1
  <1>3. ASSUME NEW n \in Nat, n \in T PROVE n + 1 \in T
    <2>1. n + 1 <= 27 => f[n + 1] = 2 * f[n] + (IF 31 - (n + 1) \in b THEN 1 ELSE 0)
      <3>1. n + 1 <= 27 => n + 1 \in 1 .. 31 /\ (n + 1) - 1 = n
        OBVIOUS
      <3> QED
        BY <1>1, <3>1
    <2>2. n + 1 <= 27 => ~ (31 - (n + 1) \in b)
      OBVIOUS
    <2> QED
      BY <1>3, <2>1, <2>2
  <1> HIDE DEF T
  <1>4. 27 \in T
    BY <1>2, <1>3, Induction
  <1>5. f[27] = 0
    BY <1>4 DEF T
  <1>6. /\ f[28] = 2 * f[27] + (IF 3 \in b THEN 1 ELSE 0)
        /\ f[29] = 2 * f[28] + (IF 2 \in b THEN 1 ELSE 0)
        /\ f[30] = 2 * f[29] + (IF 1 \in b THEN 1 ELSE 0)
        /\ f[31] = 2 * f[30] + (IF 0 \in b THEN 1 ELSE 0)
    <2>1. /\ f[28] = 2 * f[28 - 1] + (IF 31 - 28 \in b THEN 1 ELSE 0)
          /\ f[29] = 2 * f[29 - 1] + (IF 31 - 29 \in b THEN 1 ELSE 0)
          /\ f[30] = 2 * f[30 - 1] + (IF 31 - 30 \in b THEN 1 ELSE 0)
          /\ f[31] = 2 * f[31 - 1] + (IF 31 - 31 \in b THEN 1 ELSE 0)
      BY <1>1
    <2> QED
      BY <2>1
  <1> DEFINE bit(i) == IF i \in b THEN 1 ELSE 0
  <1>7. /\ bit(3) \in Nat /\ bit(2) \in Nat /\ bit(1) \in Nat /\ bit(0) \in Nat
        /\ f[28] = bit(3) /\ f[29] = 2 * f[28] + bit(2) /\ f[30] = 2 * f[29] + bit(1)
        /\ f[31] = 2 * f[30] + bit(0)
    BY <1>5, <1>6
  <1>8. Num(b) = 8 * bit(3) + 4 * bit(2) + 2 * bit(1) + bit(0)
    <2> HIDE DEF bit
    <2> QED
      BY <1>1, <1>7
  <1> QED
    BY <1>8

(* Four bits of a word make a number below 16.                             *)
LEMMA NibbleType ==
  ASSUME NEW w, NEW lo
  PROVE  Take(w, lo, 4) \in SUBSET (0 .. 3) /\ Num(Take(w, lo, 4)) \in 0 .. 15
  <1>1. Take(w, lo, 4) \in SUBSET (0 .. 3)
    BY DEF Take
  <1> QED
    BY <1>1, NibbleRead

(* Four words, whatever they hold.                                         *)
IsFour(w) == w = [i \in 0 .. 3 |-> w[i]]
(* Every field lies in the first n words.                                  *)
WithinWords(fields, n) == \A f \in fields : f.word \in 0 .. n - 1

UtilityNames == {"on_noop", "on_jr_clock", "on_jr_timestamp", "on_dctpq", "on_dc"}
Cv1Names == {"on_cv1_note_off", "on_cv1_note_on", "on_cv1_poly_pressure", "on_cv1_cc", "on_cv1_program",
             "on_cv1_chan_pressure", "on_cv1_pitch_bend"}
Cv2Names == {"on_reg_per_note", "on_asn_per_note", "on_rpn", "on_nrpn", "on_rel_rpn", "on_rel_nrpn",
             "on_per_note_pb", "on_note_off", "on_note_on", "on_poly_pressure", "on_cc", "on_program",
             "on_chan_pressure", "on_pitch_bend", "on_per_note_mgmt"}
OneWord == UtilityNames \union Cv1Names \union {"on_system", "on_unknown"}
TwoWords == Cv2Names \union {"on_sysex7"}

(* The callbacks of one and two words, read only those.                    *)
Shallow(name, fields) ==
  /\ name \in OneWord => WithinWords(fields, 1)
  /\ name \in TwoWords => WithinWords(fields, 2)

(* The callbacks of one-word messages read word 0 only, those of two-word  *)
(* messages words 0 and 1.                                                 *)
LEMMA ExtractShallow == \A name \in DOMAIN Extract : Shallow(name, Extract[name])
  <1> DEFINE T == {UtilityArgs, SystemArgs, Cv1Args, Cv2Args, DataArgs, FlexArgs,
                   StreamArgs, [on_unknown |-> {}]}
  <1>1. ASSUME NEW arg, NEW k, NEW wd, NEW lo PROVE F(arg, k, wd, lo).word = wd
    BY DEF F, Piece
  <1>2. ASSUME NEW arg, NEW from, NEW k, NEW wd, NEW lo PROVE Piece(arg, from, k, wd, lo).word = wd
    BY DEF Piece
  <1>3. WithinWords(GroupChannel, 1) /\ Group.word = 0
    BY <1>1 DEF WithinWords, GroupChannel, Group
  <1>4. \A name \in DOMAIN UtilityArgs : Shallow(name, UtilityArgs[name])
    BY <1>1 DEF UtilityArgs, Shallow, WithinWords, OneWord, TwoWords, UtilityNames, Cv1Names, Cv2Names
  <1>5. \A name \in DOMAIN SystemArgs : Shallow(name, SystemArgs[name])
    BY <1>1, <1>3 DEF SystemArgs, Shallow, WithinWords, OneWord, TwoWords, UtilityNames, Cv1Names, Cv2Names
  <1>6. \A name \in DOMAIN Cv1Args : Shallow(name, Cv1Args[name])
    <2>1. /\ WithinWords(Cv1Two, 1) /\ WithinWords(Cv1One, 1)
          /\ WithinWords(Cv1Args["on_cv1_pitch_bend"], 1)
      BY <1>1, <1>2, <1>3 DEF WithinWords, Cv1Two, Cv1One, Cv1Args
    <2>2. \A name \in DOMAIN Cv1Args : WithinWords(Cv1Args[name], 1) /\ ~ (name \in TwoWords)
      BY <2>1 DEF Cv1Args, TwoWords, Cv2Names
    <2> QED
      BY <2>2 DEF Shallow
  <1>7. \A name \in DOMAIN Cv2Args : Shallow(name, Cv2Args[name])
    <2>1. /\ Word1.word = 1 /\ \A a : Byte3(a).word = 0
          /\ WithinWords(GroupChannel, 2)
      BY <1>1, <1>3 DEF Word1, Byte3, WithinWords
    <2>2. WithinWords(Cv2Note, 2) /\ WithinWords(Cv2PerNote, 2) /\ WithinWords(Cv2Bank, 2)
      BY <1>1, <2>1 DEF WithinWords, Cv2Note, Cv2PerNote, Cv2Bank
    <2>3. /\ WithinWords(Cv2Args["on_poly_pressure"], 2) /\ WithinWords(Cv2Args["on_cc"], 2)
          /\ WithinWords(Cv2Args["on_program"], 2) /\ WithinWords(Cv2Args["on_chan_pressure"], 2)
          /\ WithinWords(Cv2Args["on_pitch_bend"], 2) /\ WithinWords(Cv2Args["on_per_note_pb"], 2)
          /\ WithinWords(Cv2Args["on_per_note_mgmt"], 2)
      BY <1>1, <2>1 DEF WithinWords, Cv2Args
    <2>4. \A name \in DOMAIN Cv2Args : WithinWords(Cv2Args[name], 2) /\ ~ (name \in OneWord)
      <3>1. DOMAIN Cv2Args =
              {"on_note_on", "on_note_off", "on_poly_pressure", "on_cc", "on_program", "on_chan_pressure",
               "on_pitch_bend", "on_per_note_pb", "on_reg_per_note", "on_asn_per_note", "on_rpn", "on_nrpn",
               "on_rel_rpn", "on_rel_nrpn", "on_per_note_mgmt"}
        BY DEF Cv2Args
      <3>2. \A name \in {"on_note_on", "on_note_off"} : Cv2Args[name] = Cv2Note
        BY DEF Cv2Args
      <3>3. \A name \in {"on_reg_per_note", "on_asn_per_note"} : Cv2Args[name] = Cv2PerNote
        BY DEF Cv2Args
      <3>4. \A name \in {"on_rpn", "on_nrpn", "on_rel_rpn", "on_rel_nrpn"} : Cv2Args[name] = Cv2Bank
        BY DEF Cv2Args
      <3>5. \A name \in DOMAIN Cv2Args : WithinWords(Cv2Args[name], 2)
        BY <2>2, <2>3, <3>1, <3>2, <3>3, <3>4
      <3>6. \A name \in DOMAIN Cv2Args : ~ (name \in OneWord)
        BY <3>1 DEF OneWord, UtilityNames, Cv1Names
      <3> QED
        BY <3>5, <3>6
    <2> QED
      BY <2>4 DEF Shallow
  <1>8. \A name \in DOMAIN DataArgs : Shallow(name, DataArgs[name])
    <2>1. WithinWords(DataArgs["on_sysex7"], 2)
      BY <1>2, <1>3 DEF WithinWords, DataArgs
    <2>2. \A name \in DOMAIN DataArgs : ~ (name \in OneWord) /\ (name \in TwoWords => name = "on_sysex7")
      BY DEF DataArgs, OneWord, TwoWords, UtilityNames, Cv1Names, Cv2Names
    <2> QED
      BY <2>1, <2>2 DEF Shallow
  <1>9. \A name \in DOMAIN FlexArgs \union DOMAIN StreamArgs : ~ (name \in OneWord \union TwoWords)
    BY DEF FlexArgs, StreamArgs, OneWord, TwoWords, UtilityNames, Cv1Names, Cv2Names
  <1>10. \A t \in T : \A name \in DOMAIN t : Shallow(name, t[name])
    <2>1. Shallow("on_unknown", {})
      BY DEF Shallow, WithinWords
    <2>2. \A t \in {FlexArgs, StreamArgs} : \A name \in DOMAIN t : Shallow(name, t[name])
      BY <1>9 DEF Shallow
    <2> QED
      BY <1>4, <1>5, <1>6, <1>7, <1>8, <2>1, <2>2
  <1>11. Extract = Merged(T)
    BY DEF Extract
  <1> HIDE DEF T
  <1>12. ASSUME NEW name \in DOMAIN Merged(T) PROVE Shallow(name, Merged(T)[name])
    <2> DEFINE t == CHOOSE u \in T : name \in DOMAIN u
    <2>1. t \in T /\ name \in DOMAIN t
      BY DEF Merged
    <2>2. Merged(T)[name] = t[name]
      BY DEF Merged
    <2> QED
      BY <1>10, <2>1, <2>2
  <1> QED
    BY <1>11, <1>12

(* A callback that a switch selects is one of its table, or on_unknown.    *)
LEMMA SwitchSelects ==
  ASSUME NEW table, NEW b, NEW S, "on_unknown" \in S, \A c \in table : c[2] \in S
  PROVE  At(table, b) \in S
  <1>1. CASE \E c \in table : c[1] = Num(b)
    <2>1. (CHOOSE c \in table : c[1] = Num(b)) \in table
      BY <1>1
    <2> QED
      BY <1>1, <2>1 DEF At
  <1>2. CASE ~ \E c \in table : c[1] = Num(b)
    BY <1>2 DEF At
  <1> QED
    BY <1>1, <1>2

TypeOf(w) == Num(Take(w[0], 28, 4))
(* The message type says of how many words a callback is.                  *)
LEMMA CallbackReach ==
  ASSUME NEW w
  PROVE  /\ TypeOf(w) \notin {3, 4, 5, 13, 15} => CallbackOf(w) \in OneWord
         /\ TypeOf(w) \in {3, 4} => CallbackOf(w) \in OneWord \union TwoWords
  <1>1. dispatch_utility(w) \in OneWord
    <2>1. \A c \in UtilityCalls : c[2] \in OneWord
      BY DEF UtilityCalls, OneWord, UtilityNames
    <2>2. "on_unknown" \in OneWord
      BY DEF OneWord
    <2> QED
      BY <2>1, <2>2, SwitchSelects DEF dispatch_utility
  <1>2. dispatch_cv1(w) \in OneWord
    <2>1. \A c \in Cv1Calls : c[2] \in OneWord
      BY DEF Cv1Calls, OneWord, Cv1Names
    <2>2. "on_unknown" \in OneWord
      BY DEF OneWord
    <2> QED
      BY <2>1, <2>2, SwitchSelects DEF dispatch_cv1
  <1>3. dispatch_cv2(w) \in OneWord \union TwoWords
    <2>1. \A c \in Cv2Calls : c[2] \in TwoWords
      BY DEF Cv2Calls, TwoWords, Cv2Names
    <2>2. "on_unknown" \in OneWord
      BY DEF OneWord
    <2> DEFINE S == OneWord \union TwoWords
    <2>3. "on_unknown" \in S /\ \A c \in Cv2Calls : c[2] \in S
      BY <2>1, <2>2
    <2> HIDE DEF S
    <2>4. dispatch_cv2(w) \in S
      BY <2>3, SwitchSelects DEF dispatch_cv2
    <2> QED
      BY <2>4 DEF S
  <1>4. /\ dispatch_system(w) \in OneWord /\ "on_unknown" \in OneWord
        /\ dispatch_sysex7(w) \in TwoWords
    BY DEF dispatch_system, dispatch_sysex7, OneWord, TwoWords
  <1>5. TypeOf(w) \in {3, 4} => CallbackOf(w) \in OneWord \union TwoWords
    <2>1. TypeOf(w) = 3 => CallbackOf(w) = dispatch_sysex7(w)
      BY DEF TypeOf, CallbackOf
    <2>2. TypeOf(w) = 4 => CallbackOf(w) = dispatch_cv2(w)
      BY DEF TypeOf, CallbackOf
    <2> QED
      BY <1>3, <1>4, <2>1, <2>2
  <1>6. TypeOf(w) \notin {3, 4, 5, 13, 15} => CallbackOf(w) \in OneWord
    BY <1>1, <1>2, <1>4 DEF TypeOf, CallbackOf
  <1> QED
    BY <1>5, <1>6

(* What a callback is told depends on the words it reads and no others.    *)
LEMMA SameBits ==
  ASSUME NEW w, NEW v, NEW fields, \A f \in fields : w[f.word] = v[f.word]
  PROVE  Read(fields, w) = Read(fields, v)
  <1>1. ASSUME NEW a PROVE Unpacked(fields, w, a) = Unpacked(fields, v, a)
    <2>1. \A f \in Pieces(fields, a) : w[f.word] = v[f.word]
      BY DEF Pieces
    <2> QED
      BY <2>1 DEF Unpacked
  <1> QED
    BY <1>1 DEF Read

(* Which callback is invoked depends on word 0.                            *)
LEMMA SameCallback ==
  ASSUME NEW w, NEW v, w[0] = v[0]
  PROVE  CallbackOf(w) = CallbackOf(v)
  BY Zenon DEF CallbackOf, dispatch_utility, dispatch_system, dispatch_cv1, dispatch_sysex7,
     dispatch_cv2, dispatch_data128, dispatch_flex, dispatch_stream

(* The six bytes of a SysEx7 packet are read from its two words.           *)
LEMMA SameSysexBytes ==
  ASSUME NEW w, NEW v, w[0] = v[0], w[1] = v[1]
  PROVE  Bytes("on_sysex7", w) = Bytes("on_sysex7", v)
  <1>1. Payload["on_sysex7"][1] = 16 /\ Payload["on_sysex7"][2] = 6
    BY DEF Payload
  <1>2. ASSUME NEW i \in 1 .. 6 PROVE w[ByteWord(16, i)] = v[ByteWord(16, i)]
    <2>1. ByteWord(16, i) \in {0, 1}
      BY DEF ByteWord
    <2> QED
      BY <2>1
  <1>3. AllBytes("on_sysex7", w) = AllBytes("on_sysex7", v)
    BY <1>1, <1>2 DEF AllBytes
  <1> QED
    BY <1>3, Zenon DEF Bytes

(* A call is the same of two packets that agree in the words its callback  *)
(* reads.                                                                  *)
LEMMA SameCall ==
  ASSUME NEW w, NEW v, w[0] = v[0], NEW name,
         name \in OneWord \/ (name \in TwoWords /\ w[1] = v[1])
  PROVE  Call(name, w) = Call(name, v)
  <1>1. name # "on_clip" /\ (name \in DOMAIN Payload => name = "on_sysex7")
        /\ ~ ("on_sysex7" \in OneWord)
    BY DEF OneWord, TwoWords, UtilityNames, Cv1Names, Cv2Names, Payload
  <1>2. name \in DOMAIN Extract
    <2> DEFINE T == {UtilityArgs, SystemArgs, Cv1Args, Cv2Args, DataArgs, FlexArgs,
                     StreamArgs, [on_unknown |-> {}]}
    <2>1. \E t \in T : name \in DOMAIN t
      BY DEF OneWord, TwoWords, UtilityNames, Cv1Names, Cv2Names, UtilityArgs, SystemArgs, Cv1Args,
             Cv2Args, DataArgs
    <2>2. Extract = Merged(T)
      BY DEF Extract
    <2> HIDE DEF T
    <2> QED
      BY <2>1, <2>2 DEF Merged
  <1>3. Shallow(name, Extract[name])
    BY <1>2, ExtractShallow
  <1>4. \A f \in Extract[name] : w[f.word] = v[f.word]
    <2>1. CASE name \in OneWord
      <3>1. \A f \in Extract[name] : f.word \in 0 .. 1 - 1
        BY <1>3, <2>1 DEF Shallow, WithinWords
      <3>2. \A f \in Extract[name] : f.word = 0
        BY <3>1
      <3> QED
        BY <3>2
    <2>2. CASE name \in TwoWords /\ w[1] = v[1]
      <3>1. \A f \in Extract[name] : f.word \in 0 .. 2 - 1
        BY <1>3, <2>2 DEF Shallow, WithinWords
      <3>2. \A f \in Extract[name] : f.word = 0 \/ f.word = 1
        BY <3>1
      <3> QED
        BY <2>2, <3>2
    <2> QED
      BY <2>1, <2>2
  <1>5. Read(Extract[name], w) = Read(Extract[name], v)
    BY <1>4, SameBits
  <1>6. name \in DOMAIN Payload => Bytes(name, w) = Bytes(name, v)
    BY <1>1, SameSysexBytes
  <1> QED
    BY <1>1, <1>5, <1>6, Zenon DEF Call

(* What lies behind the words that midi2_dispatch_feed was given does not  *)
(* matter.                                                                 *)
LEMMA FeedReadsCount ==
  ASSUME NEW w, IsFour(w), NEW n \in 1 .. 4, NEW junk, NEW upscale
  PROVE  midi2_dispatch_feed(Junked(w, n, junk), n, upscale) = midi2_dispatch_feed(w, n, upscale)
  <1> DEFINE v  == Junked(w, n, junk)
             mt == TypeOf(w)
             Raises(x) == TypeOf(x) = 2 /\ upscale
             CallsOf(x) == {Call(CallbackOf(y), y) : y \in IF Raises(x) THEN mt2_to_mt4(x[0]) ELSE {x}}
  <1>1. v[0] = w[0] /\ (n >= 2 => v[1] = w[1])
    BY DEF Junked
  <1>2. n = 4 => v = w
    BY DEF Junked, IsFour
  <1>3. TypeOf(v) = mt
    BY <1>1 DEF TypeOf
  <1>4. ASSUME NEW x
        PROVE  midi2_dispatch_feed(x, n, upscale) =
                 IF TooShort(TypeOf(x), n) \/ CallsOf(x) = {} THEN Nobody
                 ELSE CHOOSE c \in CallsOf(x) : TRUE
    BY Zenon DEF TypeOf, midi2_dispatch_feed
  <1>5. ASSUME Raises(w) PROVE CallsOf(v) = CallsOf(w)
    BY <1>1, <1>3, <1>5, Zenon
  <1>7. ASSUME ~ Raises(w), ~ TooShort(mt, n) PROVE CallsOf(v) = CallsOf(w)
    <2>1. Call(CallbackOf(v), v) = Call(CallbackOf(w), w)
      <3>1. CallbackOf(v) = CallbackOf(w)
        BY <1>1, SameCallback
      <3>2. /\ mt \in {3, 4} => n >= 2
            /\ mt \in {5, 13, 15} => n = 4
        <4>1. /\ midi2_msg_word_count[3] = 2 /\ midi2_msg_word_count[4] = 2
              /\ midi2_msg_word_count[5] = 4 /\ midi2_msg_word_count[13] = 4
              /\ midi2_msg_word_count[15] = 4
          BY DEF midi2_msg_word_count
        <4> HIDE DEF mt
        <4> QED
          BY <1>7, <4>1 DEF TooShort
      <3>3. CASE mt \in {5, 13, 15}
        BY <1>2, <3>2, <3>3
      <3>4. CASE mt \in {3, 4}
        <4>1. CallbackOf(w) \in OneWord \union TwoWords /\ v[1] = w[1]
          BY <1>1, <3>2, <3>4, CallbackReach
        <4> HIDE DEF v
        <4> QED
          BY <1>1, <3>1, <4>1, SameCall
      <3>5. CASE mt \notin {3, 4, 5, 13, 15}
        <4>1. CallbackOf(w) \in OneWord
          BY <3>5, CallbackReach
        <4> HIDE DEF v
        <4> QED
          BY <1>1, <3>1, <4>1, SameCall
      <3> QED
        BY <3>3, <3>4, <3>5
    <2>2. CallsOf(v) = {Call(CallbackOf(v), v)} /\ CallsOf(w) = {Call(CallbackOf(w), w)}
      <3> HIDE DEF v
      <3> QED
        BY <1>3, <1>7
    <2> QED
      BY <2>1, <2>2
  <1>8. midi2_dispatch_feed(v, n, upscale) = midi2_dispatch_feed(w, n, upscale)
    <2> HIDE DEF v, CallsOf
    <2>1. TooShort(TypeOf(w), n) \/ CallsOf(v) = CallsOf(w)
      BY <1>5, <1>7
    <2> QED
      BY <1>3, <1>4, <2>1, Zenon
  <1> QED
    BY <1>8 DEF v

-----------------------------------------------------------------------------
(* What the dispatcher did is decided by the words it was given, and they  *)
(* stay as they are once it has been fed.                                  *)
HeardFromWords ==
  /\ IsFour(words) /\ (path # "idle" => count \in 1 .. 4)
  /\ heard # NotYet =>
       path # "idle" /\ heard = midi2_dispatch_feed(words, count, upscale_mt2)

(* A packet is one to four words long.                                     *)
LEMMA NeededType ==
  ASSUME NEW w
  PROVE  Needed(w) \in 1 .. 4
  <1>1. Num(Take(w[0], 28, 4)) \in 0 .. 15
    BY NibbleType
  <1>2. \A mt \in 0 .. 15 : midi2_msg_word_count[mt] \in 1 .. 4
    BY DEF midi2_msg_word_count
  <1> QED
    BY <1>1, <1>2 DEF Needed

(* The calls of a step are those of the words that it leaves.              *)
LEMMA HeardFromWordsInductive ==
  (UmpInit => HeardFromWords) /\ (HeardFromWords /\ [UmpNext]_(umpVars) => HeardFromWords')
  <1>1. UmpInit => HeardFromWords
    BY DEF UmpInit, NoWords, IsFour, HeardFromWords
  <1>2. ASSUME HeardFromWords, [UmpNext]_(umpVars) PROVE HeardFromWords'
    <2> USE <1>2
    <2>1. CASE UNCHANGED umpVars
      BY <2>1, Zenon DEF HeardFromWords, umpVars, IsFour
    <2>2. ASSUME NEW m, path = "idle", OnWire(m), IsFour(words') PROVE HeardFromWords'
      <3>1. count' \in 1 .. 4 /\ path' # "idle" /\ heard' = heard
        BY <2>2, NeededType DEF OnWire
      <3>2. heard' = NotYet
        BY <2>2, <3>1 DEF HeardFromWords
      <3> QED
        BY <2>2, <3>1, <3>2 DEF HeardFromWords
    <2>3. ASSUME NEW m \in Messages, SendBuilt(m) \/ SendCable(m) PROVE HeardFromWords'
      <3>1. path = "idle" /\ OnWire(m)
        BY <2>3 DEF SendBuilt, SendCable
      <3>2. IsFour(words')
        <4>1. CASE SendBuilt(m)
          BY <4>1 DEF SendBuilt, Build, IsFour
        <4>2. CASE SendCable(m)
          <5>1. PICK w : words' = [NoWords EXCEPT ![0] = w]
            BY <4>2 DEF SendCable
          <5> QED
            BY <5>1 DEF NoWords, IsFour
        <4> QED
          BY <2>3, <4>1, <4>2
      <3> QED
        BY <2>2, <3>1, <3>2
    <2>4. ASSUME NEW w \in RawWords, SendRaw(w) PROVE HeardFromWords'
      <3>1. IsFour(w)
        BY UmpAssumption DEF UmpAssumption, IsFour
      <3> QED
        BY <2>2, <2>4, <3>1 DEF SendRaw
    <2>10. ASSUME NEW e, NEW g, SendCommon(e, g) PROVE HeardFromWords'
      <3>1. PICK w : words' = [NoWords EXCEPT ![0] = w]
        BY <2>10 DEF SendCommon
      <3>2. path = "idle" /\ OnWire(Raw) /\ IsFour(words')
        BY <2>10, <3>1 DEF SendCommon, NoWords, IsFour
      <3> QED
        BY <2>2, <3>2
    <2>5. ASSUME NEW p, Becomes(p), p # "idle", IsFour(words'), count' \in 1 .. 4 PROVE HeardFromWords'
      BY <2>5 DEF Becomes, HeardFromWords
    <2>6. ASSUME NEW g \in NewGroups, SetGroup(g) \/ RemapGroup(g) PROVE HeardFromWords'
      <3>1. IsFour(set_group(words, g)) /\ IsFour(remap_group(words, g))
        BY DEF HeardFromWords, IsFour, set_group, remap_group, Regrouped
      <3>2. IsFour(words') /\ count' = count
        BY <2>6, <3>1 DEF SetGroup, RemapGroup
      <3>3. path = "wire" /\ (Becomes("set_group") \/ Becomes("remap_group"))
        BY <2>6 DEF SetGroup, RemapGroup, Becomes
      <3> QED
        BY <2>5, <3>2, <3>3 DEF HeardFromWords
    <2>7. ASSUME NEW n \in 1 .. 3, Cut(n) PROVE HeardFromWords'
      <3>1. words' = words /\ count' = n /\ Becomes("cut")
        BY <2>7 DEF Cut
      <3> QED
        BY <2>5, <3>1 DEF HeardFromWords
    <2>8. CASE Lower
      <3>1. PICK w : words' = [NoWords EXCEPT ![0] = w]
        BY <2>8 DEF Lower
      <3>2. IsFour(words') /\ count' = 1 /\ Becomes("lowered")
        BY <2>8, <3>1 DEF Lower, NoWords, IsFour
      <3> QED
        BY <2>5, <3>2
    <2>9. CASE FeedWords
      <3>1. /\ path' = path /\ path # "idle" /\ words' = words /\ count' = count
            /\ heard' = midi2_dispatch_feed(words, count, upscale_mt2')
        BY <2>9 DEF FeedWords
      <3> QED
        BY <3>1 DEF HeardFromWords
    <2> QED
      BY <2>1, <2>3, <2>4, <2>6, <2>7, <2>8, <2>9, <2>10 DEF UmpNext
  <1> QED
    BY <1>1, <1>2

(* The dispatcher never looks past word_count: what it calls, and with     *)
(* what, is the same whatever lies behind the words it was given.          *)
THEOREM DispatcherStaysInsideCount ==
  UmpSpec => []ReadsNothingPastCount
  <1>1. HeardFromWords => ReadsNothingPastCount
    <2> SUFFICES ASSUME HeardFromWords, heard # NotYet, NEW junk
                 PROVE  midi2_dispatch_feed(Junked(words, count, junk), count, upscale_mt2) = heard
      BY DEF ReadsNothingPastCount
    <2>1. IsFour(words) /\ count \in 1 .. 4 /\ heard = midi2_dispatch_feed(words, count, upscale_mt2)
      BY DEF HeardFromWords
    <2> QED
      BY <2>1, FeedReadsCount
  <1>2. (UmpInit => HeardFromWords) /\ (HeardFromWords /\ [UmpNext]_(umpVars) => HeardFromWords')
    BY HeardFromWordsInductive
  <1> QED
    BY <1>1, <1>2, PTL DEF UmpSpec

-----------------------------------------------------------------------------
(* Bits.  What shifts and masks do, one position at a time.                *)
LEMMA TakeBits ==
  ASSUME NEW x, NEW lo, NEW k
  PROVE  \A i : i \in Take(x, lo, k) <=> i \in 0 .. k - 1 /\ lo + i \in x
  BY DEF Take

(* A value that is put at a bit has its bits from there on.                *)
LEMMA PutBits ==
  ASSUME NEW x, x \subseteq Int, NEW lo \in Int
  PROVE  \A i : i \in Put(x, lo) <=> i \in Int /\ i - lo \in x
  <1>1. ASSUME NEW i, i \in Put(x, lo) PROVE i \in Int /\ i - lo \in x
    <2>1. PICK j \in x : i = lo + j
      BY <1>1 DEF Put
    <2>2. i \in Int /\ i - lo = j
      BY <2>1
    <2> QED
      BY <2>2
  <1>2. ASSUME NEW i \in Int, i - lo \in x PROVE i \in Put(x, lo)
    <2>1. i = lo + (i - lo)
      OBVIOUS
    <2> QED
      BY <1>2, <2>1 DEF Put
  <1> QED
    BY <1>1, <1>2

(* A part of a value that is put at a bit fills as many bits as the part   *)
(* has.                                                                    *)
LEMMA PutTakeBits ==
  ASSUME NEW x, NEW from \in Nat, NEW k \in Nat, NEW lo \in Nat
  PROVE  \A i : i \in Put(Take(x, from, k), lo) <=> i \in lo .. lo + k - 1 /\ from + (i - lo) \in x
  <1>1. Take(x, from, k) \subseteq Int
    BY DEF Take
  <1>2. ASSUME NEW i \in Int PROVE i - lo \in 0 .. k - 1 <=> i \in lo .. lo + k - 1
    OBVIOUS
  <1> QED
    BY <1>1, <1>2, PutBits, TakeBits

(* Bit i of word w is one that field f fills from its argument.            *)
Fills(f, args, w, i) ==
  f.word = w /\ i \in f.lo .. f.lo + f.width - 1 /\ f.from + (i - f.lo) \in args[f.arg]
FieldType(fields) ==
  \A f \in fields : f.from \in Nat /\ f.width \in Nat /\ f.lo \in Nat

(* The bits that the fields of a message fill, word by word.               *)
LEMMA PackedBits ==
  ASSUME NEW fields, FieldType(fields), NEW args, NEW w
  PROVE  \A i : i \in Packed(fields, args, w) <=> \E f \in fields : Fills(f, args, w, i)
  <1>1. ASSUME NEW f \in fields, NEW i
        PROVE  i \in Put(Take(args[f.arg], f.from, f.width), f.lo)
                 <=> i \in f.lo .. f.lo + f.width - 1 /\ f.from + (i - f.lo) \in args[f.arg]
    BY PutTakeBits DEF FieldType
  <1>2. \A i : i \in Packed(fields, args, w)
                <=> \E f \in fields : f.word = w /\ i \in Put(Take(args[f.arg], f.from, f.width), f.lo)
    BY DEF Packed
  <1> QED
    BY <1>1, <1>2 DEF Fills

(* The bits of a number, by the powers of two.                             *)
Powers == <<1, 2, 4, 8, 16, 32, 64, 128, 256, 512, 1024, 2048, 4096, 8192, 16384, 32768>>
(* The bits of a number by division, one by one.                           *)
LEMMA BitsByPowers ==
  ASSUME NEW n \in Nat
  PROVE  Bits(n) = {i \in 0 .. 15 : (n \div Powers[i + 1]) % 2 = 1}
  <1>1. ASSUME NEW i \in 0 .. 15 PROVE 2 ^ i = Powers[i + 1]
    <2>1. /\ 2 ^ 0 = 1 /\ 2 ^ 1 = 2 /\ 2 ^ 2 = 4 /\ 2 ^ 3 = 8 /\ 2 ^ 4 = 16 /\ 2 ^ 5 = 32 /\ 2 ^ 6 = 64
          /\ 2 ^ 7 = 128 /\ 2 ^ 8 = 256 /\ 2 ^ 9 = 512 /\ 2 ^ 10 = 1024 /\ 2 ^ 11 = 2048
          /\ 2 ^ 12 = 4096 /\ 2 ^ 13 = 8192 /\ 2 ^ 14 = 16384 /\ 2 ^ 15 = 32768
      OBVIOUS
    <2>2. CASE i = 0
      BY <2>1, <2>2 DEF Powers
    <2>3. CASE i = 1
      BY <2>1, <2>3 DEF Powers
    <2>4. CASE i = 2
      BY <2>1, <2>4 DEF Powers
    <2>5. CASE i = 3
      BY <2>1, <2>5 DEF Powers
    <2>6. CASE i = 4
      BY <2>1, <2>6 DEF Powers
    <2>7. CASE i = 5
      BY <2>1, <2>7 DEF Powers
    <2>8. CASE i = 6
      BY <2>1, <2>8 DEF Powers
    <2>9. CASE i = 7
      BY <2>1, <2>9 DEF Powers
    <2>10. CASE i = 8
      BY <2>1, <2>10 DEF Powers
    <2>11. CASE i = 9
      BY <2>1, <2>11 DEF Powers
    <2>12. CASE i = 10
      BY <2>1, <2>12 DEF Powers
    <2>13. CASE i = 11
      BY <2>1, <2>13 DEF Powers
    <2>14. CASE i = 12
      BY <2>1, <2>14 DEF Powers
    <2>15. CASE i = 13
      BY <2>1, <2>15 DEF Powers
    <2>16. CASE i = 14
      BY <2>1, <2>16 DEF Powers
    <2>17. CASE i = 15
      BY <2>1, <2>17 DEF Powers
    <2>18. i \in {0, 1, 2, 3, 4, 5, 6, 7, 8, 9, 10, 11, 12, 13, 14, 15}
      OBVIOUS
    <2> QED
      BY <2>2, <2>3, <2>4, <2>5, <2>6, <2>7, <2>8, <2>9,
         <2>10, <2>11, <2>12, <2>13, <2>14, <2>15, <2>16, <2>17, <2>18
  <1> QED
    BY <1>1 DEF Bits

(* The statuses and message types that appear in headers.                  *)
LEMMA StatusBits ==
  /\ Bits(\h80) = {7} /\ Bits(\h90) = {4, 7} /\ Bits(\hA0) = {5, 7}
  /\ Bits(\hB0) = {4, 5, 7} /\ Bits(\hC0) = {6, 7} /\ Bits(\hD0) = {4, 6, 7}
  /\ Bits(\hE0) = {5, 6, 7} /\ Bits(2) = {1} /\ Bits(4) = {2}
  <1>1. Bits(\h80) = {7}
    BY BitsByPowers DEF Powers
  <1>2. Bits(\h90) = {4, 7}
    BY BitsByPowers DEF Powers
  <1>3. Bits(\hA0) = {5, 7}
    BY BitsByPowers DEF Powers
  <1>4. Bits(\hB0) = {4, 5, 7}
    BY BitsByPowers DEF Powers
  <1>5. Bits(\hC0) = {6, 7}
    BY BitsByPowers DEF Powers
  <1>6. Bits(\hD0) = {4, 6, 7}
    BY BitsByPowers DEF Powers
  <1>7. Bits(\hE0) = {5, 6, 7}
    BY BitsByPowers DEF Powers
  <1>8. Bits(2) = {1}
    BY BitsByPowers DEF Powers
  <1>9. Bits(4) = {2}
    BY BitsByPowers DEF Powers
  <1> QED
    BY <1>1, <1>2, <1>3, <1>4, <1>5, <1>6, <1>7, <1>8, <1>9

-----------------------------------------------------------------------------
(* The layouts.  Each message kind is in one table only.                   *)
Tables == {VoiceLayouts, ProgramLayout, PerNoteLayouts, SystemLayouts, from_midi1,
           UtilityLayouts, FlexLayouts, ChordLayout, FlexTextLayout, EndpointLayouts,
           BlockLayouts, StreamTextLayouts, DataLayouts}

(* The kinds of each table, as finite sets.                                *)
LEMMA Domains ==
  /\ DOMAIN VoiceLayouts = {"note_on", "note_off", "cc", "pitch_bend", "chan_pressure", "poly_pressure",
                                "rpn", "nrpn"}
  /\ DOMAIN ProgramLayout = {"program"}
  /\ DOMAIN PerNoteLayouts = {"per_note_pb", "per_note_cc", "per_note_mgmt", "reg_per_note_ctrl",
                                  "asn_per_note_ctrl", "rel_rpn", "rel_nrpn"}
  /\ DOMAIN SystemLayouts = {"system", "system_2byte", "system_3byte", "system_tune_request",
                                 "system_timing_clock", "system_start", "system_continue", "system_stop",
                                 "system_active_sensing", "system_reset", "system_mtc", "system_song_select",
                                 "system_song_position"}
  /\ DOMAIN from_midi1 = {"cv1_note_off", "cv1_note_on", "cv1_poly_pressure", "cv1_cc", "cv1_program",
                              "cv1_chan_pressure", "cv1_pitch_bend"}
  /\ DOMAIN UtilityLayouts = {"noop", "jr_clock", "jr_timestamp", "dctpq", "delta_clockstamp"}
  /\ DOMAIN FlexLayouts = {"tempo", "time_sig", "key_sig", "key_sig_full", "metronome"}
  /\ DOMAIN ChordLayout = {"chord_name"}
  /\ DOMAIN FlexTextLayout = {"flex_text"}
  /\ DOMAIN EndpointLayouts = {"stream_endpoint_discovery", "stream_endpoint_info",
                                   "stream_device_identity"}
  /\ DOMAIN BlockLayouts = {"stream_config_request", "stream_config_notify", "stream_fb_discovery",
                                "stream_fb_info"}
  /\ DOMAIN StreamTextLayouts = {"stream_endpoint_name", "stream_product_id", "stream_fb_name",
                                     "stream_start_of_clip", "stream_end_of_clip"}
  /\ DOMAIN DataLayouts = {"sysex7_packet", "sysex8_packet", "mds_header", "mds_payload"}
  <1>1. DOMAIN VoiceLayouts = {"note_on", "note_off", "cc", "pitch_bend", "chan_pressure", "poly_pressure",
                                   "rpn", "nrpn"}
    BY DEF VoiceLayouts
  <1>2. DOMAIN ProgramLayout = {"program"}
    BY DEF ProgramLayout
  <1>3. DOMAIN PerNoteLayouts = {"per_note_pb", "per_note_cc", "per_note_mgmt", "reg_per_note_ctrl",
                                     "asn_per_note_ctrl", "rel_rpn", "rel_nrpn"}
    BY DEF PerNoteLayouts
  <1>4. DOMAIN SystemLayouts = {"system", "system_2byte", "system_3byte", "system_tune_request",
                                    "system_timing_clock", "system_start", "system_continue", "system_stop",
                                    "system_active_sensing", "system_reset", "system_mtc", "system_song_select",
                                    "system_song_position"}
    BY DEF SystemLayouts
  <1>5. DOMAIN from_midi1 = {"cv1_note_off", "cv1_note_on", "cv1_poly_pressure", "cv1_cc", "cv1_program",
                                 "cv1_chan_pressure", "cv1_pitch_bend"}
    BY DEF from_midi1
  <1>6. DOMAIN UtilityLayouts = {"noop", "jr_clock", "jr_timestamp", "dctpq", "delta_clockstamp"}
    BY DEF UtilityLayouts
  <1>7. DOMAIN FlexLayouts = {"tempo", "time_sig", "key_sig", "key_sig_full", "metronome"}
    BY DEF FlexLayouts
  <1>8. DOMAIN ChordLayout = {"chord_name"}
    BY DEF ChordLayout
  <1>9. DOMAIN FlexTextLayout = {"flex_text"}
    BY DEF FlexTextLayout
  <1>10. DOMAIN EndpointLayouts = {"stream_endpoint_discovery", "stream_endpoint_info",
                                       "stream_device_identity"}
    BY DEF EndpointLayouts
  <1>11. DOMAIN BlockLayouts = {"stream_config_request", "stream_config_notify", "stream_fb_discovery",
                                    "stream_fb_info"}
    BY DEF BlockLayouts
  <1>12. DOMAIN StreamTextLayouts = {"stream_endpoint_name", "stream_product_id", "stream_fb_name",
                                         "stream_start_of_clip", "stream_end_of_clip"}
    BY DEF StreamTextLayouts
  <1>13. DOMAIN DataLayouts = {"sysex7_packet", "sysex8_packet", "mds_header", "mds_payload"}
    BY DEF DataLayouts
  <1> QED
    BY <1>1, <1>2, <1>3, <1>4, <1>5, <1>6, <1>7, <1>8, <1>9, <1>10, <1>11, <1>12, <1>13

(* No kind is in two tables.                                               *)
LEMMA OneTable ==
  ASSUME NEW t \in Tables, NEW u \in Tables, NEW kind \in DOMAIN t, kind \in DOMAIN u
  PROVE  t = u
  <1>1. CASE t = VoiceLayouts
    BY <1>1, Domains DEF Tables
  <1>2. CASE t = ProgramLayout
    BY <1>2, Domains DEF Tables
  <1>3. CASE t = PerNoteLayouts
    BY <1>3, Domains DEF Tables
  <1>4. CASE t = SystemLayouts
    BY <1>4, Domains DEF Tables
  <1>5. CASE t = from_midi1
    BY <1>5, Domains DEF Tables
  <1>6. CASE t = UtilityLayouts
    BY <1>6, Domains DEF Tables
  <1>7. CASE t = FlexLayouts
    BY <1>7, Domains DEF Tables
  <1>8. CASE t = ChordLayout
    BY <1>8, Domains DEF Tables
  <1>9. CASE t = FlexTextLayout
    BY <1>9, Domains DEF Tables
  <1>10. CASE t = EndpointLayouts
    BY <1>10, Domains DEF Tables
  <1>11. CASE t = BlockLayouts
    BY <1>11, Domains DEF Tables
  <1>12. CASE t = StreamTextLayouts
    BY <1>12, Domains DEF Tables
  <1>13. CASE t = DataLayouts
    BY <1>13, Domains DEF Tables
  <1> QED
    BY <1>1, <1>2, <1>3, <1>4, <1>5, <1>6, <1>7, <1>8, <1>9, <1>10, <1>11, <1>12, <1>13 DEF Tables

(* The layout of a kind is what its own table says.                        *)
LEMMA LayoutOf ==
  /\ \A t \in Tables : \A kind \in DOMAIN t : kind \in UmpKinds /\ Layouts[kind] = t[kind]
  /\ \A kind \in UmpKinds : \E t \in Tables : kind \in DOMAIN t
  <1>1. Layouts = Merged(Tables)
    BY DEF Layouts, Tables
  <1>2. ASSUME NEW t \in Tables, NEW kind \in DOMAIN t
        PROVE  kind \in DOMAIN Merged(Tables) /\ Merged(Tables)[kind] = t[kind]
    <2> DEFINE u == CHOOSE x \in Tables : kind \in DOMAIN x
    <2>1. u \in Tables /\ kind \in DOMAIN u
      OBVIOUS
    <2>2. kind \in DOMAIN Merged(Tables) /\ Merged(Tables)[kind] = u[kind]
      BY DEF Merged
    <2> HIDE DEF u
    <2>3. u = t
      BY <2>1, OneTable
    <2> QED
      BY <2>2, <2>3
  <1>3. \A kind \in DOMAIN Merged(Tables) : \E t \in Tables : kind \in DOMAIN t
    BY DEF Merged
  <1> QED
    BY <1>1, <1>2, <1>3 DEF UmpKinds

-----------------------------------------------------------------------------
(* What a builder writes.                                                  *)
Bytes8 == SUBSET (0 .. 7)
Bare(L) == L.room = 0 /\ L.counts = "no"

(* What a builder without data bytes writes: its header in word 0 and its  *)
(* fields.                                                                 *)
LEMMA BuildPlain ==
  ASSUME NEW m, m.data \in Seq(Bytes8), Bare(Layouts[m.kind]),
         FieldType(Written(m.kind, m.args))
  PROVE  /\ IsFour(Build(m))
         /\ \A i : i \in Build(m)[0] <=>
                   \/ i \in Layouts[m.kind].const
                   \/ \E f \in Written(m.kind, m.args) : Fills(f, m.args, 0, i)
         /\ \A w \in 1 .. 3 : \A i : i \in Build(m)[w] <=>
                   \E f \in Written(m.kind, m.args) : Fills(f, m.args, w, i)
  <1> DEFINE L == Layouts[m.kind]
             kept == Fitting(L, m.data)
             P(w) == Packed(Written(m.kind, m.args), m.args, w)
  <1>1. kept = <<>>
    <2>1. Min({Len(m.data), 0}) = 0
      <3>1. Len(m.data) \in Nat
        OBVIOUS
      <3> DEFINE S == {Len(m.data), 0}
      <3>2. 0 \in S /\ \A y \in S : 0 <= y
        BY <3>1
      <3>3. \A x \in S : (\A y \in S : x <= y) => x = 0
        BY <3>1
      <3>4. Min(S) = CHOOSE x \in S : \A y \in S : x <= y
        BY DEF Min
      <3> HIDE DEF S
      <3>5. Min(S) = 0
        BY <3>2, <3>3, <3>4
      <3> QED
        BY <3>5 DEF S
    <2>2. kept = SubSeq(m.data, 1, 0)
      BY <2>1 DEF Fitting, Bare
    <2> QED
      BY <2>2
  <1>2. CountBits(L, m.data) = {}
    BY DEF CountBits, Bare
  <1>3. Build(m) =
          [w \in 0 .. 3 |-> (IF w = 0 THEN L.const \union CountBits(L, m.data) ELSE {}) \union P(w)
             \union UNION {Put(kept[i], ByteLo(L.at, i)) :
                            i \in {j \in DOMAIN kept : ByteWord(L.at, j) = w}}]
    BY DEF Build
  <1> HIDE DEF kept, L
  <1>4. \A w : UNION {Put(kept[i], ByteLo(L.at, i)) :
                     i \in {j \in DOMAIN kept : ByteWord(L.at, j) = w}} = {}
    BY <1>1
  <1>5. Build(m) = [w \in 0 .. 3 |-> (IF w = 0 THEN L.const ELSE {}) \union P(w)]
    BY <1>2, <1>3, <1>4
  <1>6. \A w, i : i \in P(w) <=> \E f \in Written(m.kind, m.args) : Fills(f, m.args, w, i)
    BY PackedBits
  <1> HIDE DEF P
  <1>7. IsFour(Build(m)) /\ Build(m)[0] = L.const \union P(0)
        /\ \A w \in 1 .. 3 : Build(m)[w] = P(w)
    BY <1>5 DEF IsFour
  <1> QED
    BY <1>6, <1>7 DEF L

(* As a field of an argument fills its bits from the lowest one up.        *)
LEMMA FieldFills ==
  ASSUME NEW arg, NEW k \in Nat, NEW w, NEW lo \in Nat, NEW args, NEW v, NEW i
  PROVE  Fills(F(arg, k, w, lo), args, v, i) <=> w = v /\ i \in lo .. lo + k - 1 /\ i - lo \in args[arg]
  <1>1. Fills(F(arg, k, w, lo), args, v, i) <=> w = v /\ i \in lo .. lo + k - 1 /\ 0 + (i - lo) \in args[arg]
    BY DEF Fills, F, Piece
  <1>2. i \in lo .. lo + k - 1 => 0 + (i - lo) = i - lo
    OBVIOUS
  <1> QED
    BY <1>1, <1>2

(* The constant bits of a header: one of the message type's, and a status. *)
HeaderBits(const, mt, nibble) == \A i : i \in const <=> i = mt \/ (i \in Int /\ i - 16 \in nibble)

(* MIDI 1.0 channel voice messages: the upper half of the status, in the   *)
(* bits it has in a byte.                                                  *)
Cv1Status == [
  cv1_note_off |-> {7}, cv1_note_on |-> {4, 7}, cv1_poly_pressure |-> {5, 7}, cv1_cc |-> {4, 5, 7},
  cv1_program |-> {6, 7}, cv1_chan_pressure |-> {4, 6, 7}, cv1_pitch_bend |-> {5, 6, 7}]
OneData == {"cv1_program", "cv1_chan_pressure"}
Channel == F("channel", 4, 0, 16)

Cv1Is(L, fields, nibble) ==
  Bare(L) /\ L.fields = fields \union {Group, Channel} /\ HeaderBits(L.const, 29, nibble)
Cv1Fields(kind) == IF kind \in OneData THEN {Data1(7)} ELSE {Data1(7), Data2(7)}

(* The builder of a MIDI 1.0 channel voice message, for any status and     *)
(* fields.                                                                 *)
LEMMA Cv1Layout ==
  ASSUME NEW calls, NEW status, NEW nibble, Bits(status) = nibble, nibble \subseteq Int, NEW fields
  PROVE  Cv1Is(Cv1(calls, status, fields), fields, nibble)
  <1> DEFINE L == Cv1(calls, status, fields)
  <1>1. \A i : i \in MT(2) <=> i = 29
    <2>1. {1} \subseteq Int /\ \A i : i \in Int /\ i - 28 \in {1} <=> i = 29
      OBVIOUS
    <2> QED
      BY <2>1, PutBits, StatusBits DEF MT
  <1>2. \A i : i \in Put(nibble, 16) <=> i \in Int /\ i - 16 \in nibble
    <2>1. nibble \subseteq Int /\ 16 \in Int
      OBVIOUS
    <2> QED
      BY <2>1, PutBits, Zenon
  <1>3. L.const = MT(2) \union Put(nibble, 16) /\ L.fields = fields \union {Group, Channel}
        /\ Bare(L)
    BY DEF Cv1, Msg, Bare, Channel
  <1> HIDE DEF L
  <1>4. HeaderBits(L.const, 29, nibble)
    BY <1>1, <1>2, <1>3 DEF HeaderBits
  <1> QED
    BY <1>3, <1>4 DEF Cv1Is, L

(* The seven MIDI 1.0 channel voice messages.                              *)
LEMMA Cv1Layouts ==
  ASSUME NEW kind \in DOMAIN from_midi1
  PROVE  Cv1Is(Layouts[kind], Cv1Fields(kind), Cv1Status[kind])
  <1>1. Cv1Is(from_midi1["cv1_note_off"], Cv1Fields("cv1_note_off"), Cv1Status["cv1_note_off"])
    <2>1. Bits(\h80) = Cv1Status["cv1_note_off"] /\ Cv1Status["cv1_note_off"] \subseteq Int
      BY StatusBits DEF Cv1Status
    <2>2. from_midi1["cv1_note_off"] = Cv1("on_cv1_note_off", \h80, {Data1(7), Data2(7)})
      BY DEF from_midi1
    <2>3. Cv1Fields("cv1_note_off") = {Data1(7), Data2(7)}
      BY DEF OneData, Cv1Fields
    <2> QED
      BY <2>1, <2>2, <2>3, Cv1Layout
  <1>2. Cv1Is(from_midi1["cv1_note_on"], Cv1Fields("cv1_note_on"), Cv1Status["cv1_note_on"])
    <2>1. Bits(\h90) = Cv1Status["cv1_note_on"] /\ Cv1Status["cv1_note_on"] \subseteq Int
      BY StatusBits DEF Cv1Status
    <2>2. from_midi1["cv1_note_on"] = Cv1("on_cv1_note_on", \h90, {Data1(7), Data2(7)})
      BY DEF from_midi1
    <2>3. Cv1Fields("cv1_note_on") = {Data1(7), Data2(7)}
      BY DEF OneData, Cv1Fields
    <2> QED
      BY <2>1, <2>2, <2>3, Cv1Layout
  <1>3. Cv1Is(from_midi1["cv1_poly_pressure"], Cv1Fields("cv1_poly_pressure"), Cv1Status["cv1_poly_pressure"])
    <2>1. Bits(\hA0) = Cv1Status["cv1_poly_pressure"] /\ Cv1Status["cv1_poly_pressure"] \subseteq Int
      BY StatusBits DEF Cv1Status
    <2>2. from_midi1["cv1_poly_pressure"] = Cv1("on_cv1_poly_pressure", \hA0, {Data1(7), Data2(7)})
      BY DEF from_midi1
    <2>3. Cv1Fields("cv1_poly_pressure") = {Data1(7), Data2(7)}
      BY DEF OneData, Cv1Fields
    <2> QED
      BY <2>1, <2>2, <2>3, Cv1Layout
  <1>4. Cv1Is(from_midi1["cv1_cc"], Cv1Fields("cv1_cc"), Cv1Status["cv1_cc"])
    <2>1. Bits(\hB0) = Cv1Status["cv1_cc"] /\ Cv1Status["cv1_cc"] \subseteq Int
      BY StatusBits DEF Cv1Status
    <2>2. from_midi1["cv1_cc"] = Cv1("on_cv1_cc", \hB0, {Data1(7), Data2(7)})
      BY DEF from_midi1
    <2>3. Cv1Fields("cv1_cc") = {Data1(7), Data2(7)}
      BY DEF OneData, Cv1Fields
    <2> QED
      BY <2>1, <2>2, <2>3, Cv1Layout
  <1>5. Cv1Is(from_midi1["cv1_program"], Cv1Fields("cv1_program"), Cv1Status["cv1_program"])
    <2>1. Bits(\hC0) = Cv1Status["cv1_program"] /\ Cv1Status["cv1_program"] \subseteq Int
      BY StatusBits DEF Cv1Status
    <2>2. from_midi1["cv1_program"] = Cv1("on_cv1_program", \hC0, {Data1(7)})
      BY DEF from_midi1
    <2>3. Cv1Fields("cv1_program") = {Data1(7)}
      BY DEF OneData, Cv1Fields
    <2> QED
      BY <2>1, <2>2, <2>3, Cv1Layout
  <1>6. Cv1Is(from_midi1["cv1_chan_pressure"], Cv1Fields("cv1_chan_pressure"), Cv1Status["cv1_chan_pressure"])
    <2>1. Bits(\hD0) = Cv1Status["cv1_chan_pressure"] /\ Cv1Status["cv1_chan_pressure"] \subseteq Int
      BY StatusBits DEF Cv1Status
    <2>2. from_midi1["cv1_chan_pressure"] = Cv1("on_cv1_chan_pressure", \hD0, {Data1(7)})
      BY DEF from_midi1
    <2>3. Cv1Fields("cv1_chan_pressure") = {Data1(7)}
      BY DEF OneData, Cv1Fields
    <2> QED
      BY <2>1, <2>2, <2>3, Cv1Layout
  <1>7. Cv1Is(from_midi1["cv1_pitch_bend"], Cv1Fields("cv1_pitch_bend"), Cv1Status["cv1_pitch_bend"])
    <2>1. Bits(\hE0) = Cv1Status["cv1_pitch_bend"] /\ Cv1Status["cv1_pitch_bend"] \subseteq Int
      BY StatusBits DEF Cv1Status
    <2>2. from_midi1["cv1_pitch_bend"] = Cv1("on_cv1_pitch_bend", \hE0, {Data1(7), Data2(7)})
      BY DEF from_midi1
    <2>3. Cv1Fields("cv1_pitch_bend") = {Data1(7), Data2(7)}
      BY DEF OneData, Cv1Fields
    <2> QED
      BY <2>1, <2>2, <2>3, Cv1Layout
  <1>8. Layouts[kind] = from_midi1[kind]
    BY LayoutOf DEF Tables
  <1> QED
    BY <1>1, <1>2, <1>3, <1>4, <1>5, <1>6, <1>7, <1>8, Domains

(* The one word of a MIDI 1.0 message, bit by bit.                         *)
MidiOneBit(m, i) ==
  \/ i = 29
  \/ i \in 20 .. 23 /\ i - 16 \in Cv1Status[m.kind]
  \/ i \in 24 .. 27 /\ i - 24 \in m.args["group"]
  \/ i \in 16 .. 19 /\ i - 16 \in m.args["channel"]
  \/ i \in 8 .. 14 /\ i - 8 \in m.args["data1"]
  \/ i \in 0 .. 6 /\ m.kind \notin OneData /\ i \in m.args["data2"]

(* A MIDI 1.0 channel voice message is one word, bit by bit.               *)
LEMMA Cv1Words ==
  ASSUME NEW m, m.data \in Seq(Bytes8), m.kind \in DOMAIN from_midi1
  PROVE  /\ IsFour(Build(m)) /\ \A w \in 1 .. 3 : Build(m)[w] = {}
         /\ \A i : i \in Build(m)[0] <=> MidiOneBit(m, i)
  <1> DEFINE L == Layouts[m.kind]
             one == {Data1(7)} \union {Group, Channel}
             two == {Data1(7), Data2(7)} \union {Group, Channel}
  <1>1. /\ Bare(L)
        /\ L.fields = IF m.kind \in OneData THEN one ELSE two
        /\ \A i : i \in L.const <=> i = 29 \/ (i \in Int /\ i - 16 \in Cv1Status[m.kind])
    <2>1. Cv1Is(L, Cv1Fields(m.kind), Cv1Status[m.kind])
      BY Cv1Layouts
    <2> HIDE DEF L, Channel
    <2> QED
      BY <2>1 DEF Cv1Is, Cv1Fields, HeaderBits
  <1>2. Written(m.kind, m.args) = L.fields
    BY Domains DEF Written
  <1>3. FieldType(one) /\ FieldType(two)
    BY DEF FieldType, Data1, Data2, Group, Channel, F, Piece
  <1>4. \A i : i \in Int /\ i - 16 \in Cv1Status[m.kind] <=> i \in 20 .. 23 /\ i - 16 \in Cv1Status[m.kind]
    <2>1. Cv1Status[m.kind] \subseteq 4 .. 7
      BY Domains DEF Cv1Status
    <2> QED
      BY <2>1
  <1>5. ASSUME NEW w, NEW i
        PROVE  /\ Fills(Data1(7), m.args, w, i) <=> w = 0 /\ i \in 8 .. 14 /\ i - 8 \in m.args["data1"]
               /\ Fills(Data2(7), m.args, w, i) <=> w = 0 /\ i \in 0 .. 6 /\ i \in m.args["data2"]
               /\ Fills(Group, m.args, w, i) <=> w = 0 /\ i \in 24 .. 27 /\ i - 24 \in m.args["group"]
               /\ Fills(Channel, m.args, w, i) <=> w = 0 /\ i \in 16 .. 19 /\ i - 16 \in m.args["channel"]
    <2>1. Fills(Data1(7), m.args, w, i) <=> 0 = w /\ i \in 8 .. 8 + 7 - 1 /\ i - 8 \in m.args["data1"]
      BY FieldFills DEF Data1
    <2>2. Fills(Data2(7), m.args, w, i) <=> 0 = w /\ i \in 0 .. 0 + 7 - 1 /\ i - 0 \in m.args["data2"]
      BY FieldFills DEF Data2
    <2>3. Fills(Group, m.args, w, i) <=> 0 = w /\ i \in 24 .. 24 + 4 - 1 /\ i - 24 \in m.args["group"]
      BY FieldFills DEF Group
    <2>4. Fills(Channel, m.args, w, i) <=> 0 = w /\ i \in 16 .. 16 + 4 - 1 /\ i - 16 \in m.args["channel"]
      BY FieldFills DEF Channel
    <2>5. i \in 0 .. 6 => i - 0 = i
      OBVIOUS
    <2> QED
      BY <2>1, <2>2, <2>3, <2>4, <2>5
  <1> DEFINE some(w, i) == \E f \in L.fields : Fills(f, m.args, w, i)
  <1>6. ASSUME NEW w, NEW i
        PROVE  some(w, i) <=>
                 /\ w = 0
                 /\ \/ i \in 24 .. 27 /\ i - 24 \in m.args["group"]
                    \/ i \in 16 .. 19 /\ i - 16 \in m.args["channel"]
                    \/ i \in 8 .. 14 /\ i - 8 \in m.args["data1"]
                    \/ i \in 0 .. 6 /\ m.kind \notin OneData /\ i \in m.args["data2"]
    <2> HIDE DEF L, Channel
    <2>1. CASE m.kind \in OneData
      <3>1. some(w, i) <=> Fills(Data1(7), m.args, w, i) \/ Fills(Group, m.args, w, i)
                           \/ Fills(Channel, m.args, w, i)
        BY <1>1, <2>1
      <3> QED
        BY <1>5, <2>1, <3>1
    <2>2. CASE m.kind \notin OneData
      <3>1. some(w, i) <=> Fills(Data1(7), m.args, w, i) \/ Fills(Data2(7), m.args, w, i)
                           \/ Fills(Group, m.args, w, i) \/ Fills(Channel, m.args, w, i)
        BY <1>1, <2>2
      <3> QED
        BY <1>5, <2>2, <3>1
    <2> QED
      BY <2>1, <2>2
  <1>7. FieldType(L.fields)
    BY <1>1, <1>3
  <1>8. /\ IsFour(Build(m))
        /\ \A i : i \in Build(m)[0] <=> i \in L.const \/ some(0, i)
        /\ \A w \in 1 .. 3 : \A i : i \in Build(m)[w] <=> some(w, i)
    <2> DEFINE W == Written(m.kind, m.args)
    <2>1. FieldType(W) /\ W = L.fields
      BY <1>2, <1>7
    <2>2. /\ IsFour(Build(m))
          /\ \A i : i \in Build(m)[0] <=> i \in L.const \/ \E f \in W : Fills(f, m.args, 0, i)
          /\ \A w \in 1 .. 3 : \A i : i \in Build(m)[w] <=> \E f \in W : Fills(f, m.args, w, i)
      BY <1>1, <2>1, BuildPlain
    <2> HIDE DEF W, L
    <2> QED
      BY <2>1, <2>2
  <1> HIDE DEF some, L
  <1>9. ASSUME NEW i PROVE i \in Build(m)[0] <=> MidiOneBit(m, i)
    <2>1. i \in L.const <=> i = 29 \/ (i \in 20 .. 23 /\ i - 16 \in Cv1Status[m.kind])
      BY <1>1, <1>4
    <2>2. i \in Build(m)[0] <=> i \in L.const \/ some(0, i)
      BY <1>8
    <2> QED
      BY <1>6, <2>1, <2>2, Zenon DEF MidiOneBit
  <1>10. \A w \in 1 .. 3 : Build(m)[w] = {}
    BY <1>6, <1>8
  <1> QED
    BY <1>8, <1>9, <1>10

(* MIDI 2.0 channel voice messages that have a MIDI 1.0 one.               *)
Cv2Status == [
  note_off |-> {7}, note_on |-> {4, 7}, poly_pressure |-> {5, 7}, cc |-> {4, 5, 7},
  program |-> {6, 7}, chan_pressure |-> {4, 6, 7}, pitch_bend |-> {5, 6, 7}]
Cv2Kinds == DOMAIN Cv2Status
Cv2Is(L, fields, nibble) ==
  Bare(L) /\ L.fields = fields \union {Group, Channel} /\ HeaderBits(L.const, 30, nibble)
Cv2Fields(kind) ==
  CASE kind \in {"note_on", "note_off"} -> NoteArgs
    [] kind = "poly_pressure" -> {Note, Value}
    [] kind = "cc" -> {F("index", 7, 0, 8), Value}
    [] kind = "program" -> {F("program", 7, 1, 24), F("bank_valid", 1, 0, 0),
                            F("bank_msb", 7, 1, 8), F("bank_lsb", 7, 1, 0)}
    [] OTHER -> {Value}

(* The builder of a MIDI 2.0 channel voice message, for any status and     *)
(* fields.                                                                 *)
LEMMA Cv2Layout ==
  ASSUME NEW calls, NEW status, NEW nibble, Bits(status) = nibble, nibble \subseteq Int, NEW fields
  PROVE  Cv2Is(build_cv2_w0(calls, status, fields), fields, nibble)
  <1> DEFINE L == build_cv2_w0(calls, status, fields)
  <1>1. \A i : i \in MT(4) <=> i = 30
    <2>1. {2} \subseteq Int /\ \A i : i \in Int /\ i - 28 \in {2} <=> i = 30
      OBVIOUS
    <2> QED
      BY <2>1, PutBits, StatusBits DEF MT
  <1>2. \A i : i \in Put(nibble, 16) <=> i \in Int /\ i - 16 \in nibble
    <2>1. nibble \subseteq Int /\ 16 \in Int
      OBVIOUS
    <2> QED
      BY <2>1, PutBits, Zenon
  <1>3. L.const = MT(4) \union Put(nibble, 16) /\ L.fields = fields \union {Group, Channel}
        /\ Bare(L)
    BY DEF build_cv2_w0, Msg, Bare, Channel
  <1> HIDE DEF L
  <1>4. HeaderBits(L.const, 30, nibble)
    BY <1>1, <1>2, <1>3 DEF HeaderBits
  <1> QED
    BY <1>3, <1>4 DEF Cv2Is, L

(* The MIDI 2.0 messages that have a MIDI 1.0 counterpart.                 *)
LEMMA Cv2Layouts ==
  ASSUME NEW kind \in Cv2Kinds
  PROVE  Cv2Is(Layouts[kind], Cv2Fields(kind), Cv2Status[kind])
  <1>1. Cv2Is(Layouts["note_off"], Cv2Fields("note_off"), Cv2Status["note_off"])
    <2>1. Bits(\h80) = Cv2Status["note_off"] /\ Cv2Status["note_off"] \subseteq Int
      BY StatusBits DEF Cv2Status
    <2>2. VoiceLayouts["note_off"] = build_cv2_w0("on_note_off", \h80, Cv2Fields("note_off"))
      BY DEF VoiceLayouts, Cv2Fields
    <2>3. Layouts["note_off"] = VoiceLayouts["note_off"]
      BY LayoutOf, Domains DEF Tables
    <2> QED
      BY <2>1, <2>2, <2>3, Cv2Layout
  <1>2. Cv2Is(Layouts["note_on"], Cv2Fields("note_on"), Cv2Status["note_on"])
    <2>1. Bits(\h90) = Cv2Status["note_on"] /\ Cv2Status["note_on"] \subseteq Int
      BY StatusBits DEF Cv2Status
    <2>2. VoiceLayouts["note_on"] = build_cv2_w0("on_note_on", \h90, Cv2Fields("note_on"))
      BY DEF VoiceLayouts, Cv2Fields
    <2>3. Layouts["note_on"] = VoiceLayouts["note_on"]
      BY LayoutOf, Domains DEF Tables
    <2> QED
      BY <2>1, <2>2, <2>3, Cv2Layout
  <1>3. Cv2Is(Layouts["poly_pressure"], Cv2Fields("poly_pressure"), Cv2Status["poly_pressure"])
    <2>1. Bits(\hA0) = Cv2Status["poly_pressure"] /\ Cv2Status["poly_pressure"] \subseteq Int
      BY StatusBits DEF Cv2Status
    <2>2. VoiceLayouts["poly_pressure"] = build_cv2_w0("on_poly_pressure", \hA0, Cv2Fields("poly_pressure"))
      BY DEF VoiceLayouts, Cv2Fields
    <2>3. Layouts["poly_pressure"] = VoiceLayouts["poly_pressure"]
      BY LayoutOf, Domains DEF Tables
    <2> QED
      BY <2>1, <2>2, <2>3, Cv2Layout
  <1>4. Cv2Is(Layouts["cc"], Cv2Fields("cc"), Cv2Status["cc"])
    <2>1. Bits(\hB0) = Cv2Status["cc"] /\ Cv2Status["cc"] \subseteq Int
      BY StatusBits DEF Cv2Status
    <2>2. VoiceLayouts["cc"] = build_cv2_w0("on_cc", \hB0, Cv2Fields("cc"))
      BY DEF VoiceLayouts, Cv2Fields
    <2>3. Layouts["cc"] = VoiceLayouts["cc"]
      BY LayoutOf, Domains DEF Tables
    <2> QED
      BY <2>1, <2>2, <2>3, Cv2Layout
  <1>5. Cv2Is(Layouts["program"], Cv2Fields("program"), Cv2Status["program"])
    <2>1. Bits(\hC0) = Cv2Status["program"] /\ Cv2Status["program"] \subseteq Int
      BY StatusBits DEF Cv2Status
    <2>2. ProgramLayout["program"] = build_cv2_w0("on_program", \hC0, Cv2Fields("program"))
      BY DEF ProgramLayout, Cv2Fields
    <2>3. Layouts["program"] = ProgramLayout["program"]
      BY LayoutOf, Domains DEF Tables
    <2> QED
      BY <2>1, <2>2, <2>3, Cv2Layout
  <1>6. Cv2Is(Layouts["chan_pressure"], Cv2Fields("chan_pressure"), Cv2Status["chan_pressure"])
    <2>1. Bits(\hD0) = Cv2Status["chan_pressure"] /\ Cv2Status["chan_pressure"] \subseteq Int
      BY StatusBits DEF Cv2Status
    <2>2. VoiceLayouts["chan_pressure"] = build_cv2_w0("on_chan_pressure", \hD0, Cv2Fields("chan_pressure"))
      BY DEF VoiceLayouts, Cv2Fields
    <2>3. Layouts["chan_pressure"] = VoiceLayouts["chan_pressure"]
      BY LayoutOf, Domains DEF Tables
    <2> QED
      BY <2>1, <2>2, <2>3, Cv2Layout
  <1>7. Cv2Is(Layouts["pitch_bend"], Cv2Fields("pitch_bend"), Cv2Status["pitch_bend"])
    <2>1. Bits(\hE0) = Cv2Status["pitch_bend"] /\ Cv2Status["pitch_bend"] \subseteq Int
      BY StatusBits DEF Cv2Status
    <2>2. VoiceLayouts["pitch_bend"] = build_cv2_w0("on_pitch_bend", \hE0, Cv2Fields("pitch_bend"))
      BY DEF VoiceLayouts, Cv2Fields
    <2>3. Layouts["pitch_bend"] = VoiceLayouts["pitch_bend"]
      BY LayoutOf, Domains DEF Tables
    <2> QED
      BY <2>1, <2>2, <2>3, Cv2Layout
  <1> QED
    BY <1>1, <1>2, <1>3, <1>4, <1>5, <1>6, <1>7 DEF Cv2Kinds, Cv2Status

(* The first word of a MIDI 2.0 message above its arguments.               *)
HeaderBit(m, i) ==
  \/ i = 30
  \/ i \in 20 .. 23 /\ i - 16 \in Cv2Status[m.kind]
  \/ i \in 24 .. 27 /\ i - 24 \in m.args["group"]
  \/ i \in 16 .. 19 /\ i - 16 \in m.args["channel"]
(* The argument in the second half of the first word, if any.              *)
ThirdByte(m, i) ==
  CASE m.kind \in {"note_on", "note_off", "poly_pressure"} -> i \in 8 .. 14 /\ i - 8 \in m.args["note"]
    [] m.kind = "cc" -> i \in 8 .. 14 /\ i - 8 \in m.args["index"]
    [] OTHER -> FALSE
(* The second word, where a MIDI 1.0 message has room for it.              *)
SecondWord(m, i) ==
  CASE m.kind \in {"note_on", "note_off"} -> i \in 16 .. 31 /\ i - 16 \in m.args["velocity"]
    [] m.kind = "program" -> i \in 24 .. 30 /\ i - 24 \in m.args["program"]
    [] OTHER -> i \in 0 .. 31 /\ i \in m.args["value"]
FromBit(m) == IF m.kind = "program" THEN 24 ELSE 16

(* ... and their two words, bit by bit, as far as the translation reads    *)
(* them.                                                                   *)
LEMMA Cv2Words ==
  ASSUME NEW m, m.data \in Seq(Bytes8), m.kind \in Cv2Kinds
  PROVE  /\ IsFour(Build(m))
         /\ \A i \in 8 .. 31 : i \in Build(m)[0] <=> HeaderBit(m, i) \/ ThirdByte(m, i)
         /\ \A i \in FromBit(m) .. 31 : i \in Build(m)[1] <=> SecondWord(m, i)
  <1> DEFINE L == Layouts[m.kind]
             fields == Cv2Fields(m.kind) \union {Group, Channel}
             W == Written(m.kind, m.args)
             some(w, i) == \E f \in W : Fills(f, m.args, w, i)
  <1>1. /\ Bare(L) /\ L.fields = fields
        /\ \A i : i \in L.const <=> i = 30 \/ (i \in Int /\ i - 16 \in Cv2Status[m.kind])
    <2>1. Cv2Is(L, Cv2Fields(m.kind), Cv2Status[m.kind])
      BY Cv2Layouts
    <2> HIDE DEF L, Channel
    <2> QED
      BY <2>1 DEF Cv2Is, HeaderBits
  <1>2. /\ m.kind # "program" => W = fields
        /\ m.kind = "program" =>
             /\ W \subseteq fields
             /\ \A f \in fields : f.arg \notin {"bank_msb", "bank_lsb"} => f \in W
    <2> HIDE DEF L, fields
    <2> QED
      BY <1>1 DEF Written, L
  <1>3. FieldType(fields)
    BY DEF Cv2Fields, FieldType, NoteArgs, Note, Value, Group, Channel, F, Piece
  <1>4. FieldType(W)
    <2> HIDE DEF fields, W
    <2> QED
      BY <1>2, <1>3 DEF FieldType
  <1>5. m.kind \in {"note_off", "note_on", "poly_pressure", "cc", "program", "chan_pressure", "pitch_bend"}
    BY DEF Cv2Kinds, Cv2Status
  <1>6. ASSUME NEW w, NEW i
        PROVE  /\ Fills(Group, m.args, w, i) <=> w = 0 /\ i \in 24 .. 27 /\ i - 24 \in m.args["group"]
               /\ Fills(Channel, m.args, w, i) <=> w = 0 /\ i \in 16 .. 19 /\ i - 16 \in m.args["channel"]
               /\ Fills(Value, m.args, w, i) <=> w = 1 /\ i \in 0 .. 31 /\ i \in m.args["value"]
               /\ Fills(Note, m.args, w, i) <=> w = 0 /\ i \in 8 .. 14 /\ i - 8 \in m.args["note"]
    <2>1. Fills(Group, m.args, w, i) <=> 0 = w /\ i \in 24 .. 24 + 4 - 1 /\ i - 24 \in m.args["group"]
      BY FieldFills DEF Group
    <2>2. Fills(Channel, m.args, w, i) <=> 0 = w /\ i \in 16 .. 16 + 4 - 1 /\ i - 16 \in m.args["channel"]
      BY FieldFills DEF Channel
    <2>3. Fills(Value, m.args, w, i) <=> w = 1 /\ i \in 0 .. 31 /\ i \in m.args["value"]
      <3>1. Fills(Value, m.args, w, i) <=> 1 = w /\ i \in 0 .. 0 + 32 - 1 /\ 0 + (i - 0) \in m.args["value"]
        BY DEF Fills, Value, F, Piece
      <3>2. i \in 0 .. 0 + 32 - 1 <=> i \in 0 .. 31
        OBVIOUS
      <3>3. i \in 0 .. 31 => 0 + (i - 0) = i
        OBVIOUS
      <3> QED
        BY <3>1, <3>2, <3>3
    <2>4. Fills(Note, m.args, w, i) <=> 0 = w /\ i \in 8 .. 8 + 7 - 1 /\ i - 8 \in m.args["note"]
      BY FieldFills DEF Note
    <2> QED
      BY <2>1, <2>2, <2>3, <2>4
  <1>7. /\ IsFour(Build(m))
        /\ \A i : i \in Build(m)[0] <=> i \in L.const \/ some(0, i)
        /\ \A i : i \in Build(m)[1] <=> some(1, i)
    <2> HIDE DEF W
    <2>1. /\ IsFour(Build(m))
          /\ \A i : i \in Build(m)[0] <=> i \in L.const \/ \E f \in W : Fills(f, m.args, 0, i)
          /\ \A w \in 1 .. 3 : \A i : i \in Build(m)[w] <=> \E f \in W : Fills(f, m.args, w, i)
      BY <1>1, <1>4, BuildPlain DEF W
    <2> HIDE DEF L
    <2> QED
      BY <2>1
  <1> DEFINE both(w, i) == Fills(Group, m.args, w, i) \/ Fills(Channel, m.args, w, i)
  <1>8. ASSUME m.kind \in {"note_on", "note_off"}, NEW w, NEW i
        PROVE  some(w, i) <=> \/ both(w, i) \/ Fills(Note, m.args, w, i)
                              \/ Fills(F("attr_type", 8, 0, 0), m.args, w, i)
                              \/ Fills(F("velocity", 16, 1, 16), m.args, w, i)
                              \/ Fills(F("attr_data", 16, 1, 0), m.args, w, i)
    <2>1. W = NoteArgs \union {Group, Channel}
      BY <1>2, <1>8 DEF Cv2Fields
    <2> HIDE DEF W, Channel
    <2> QED
      BY <2>1 DEF NoteArgs
  <1>9. ASSUME m.kind = "poly_pressure", NEW w, NEW i
        PROVE  some(w, i) <=> both(w, i) \/ Fills(Note, m.args, w, i) \/ Fills(Value, m.args, w, i)
    <2>1. W = {Note, Value} \union {Group, Channel}
      BY <1>2, <1>9 DEF Cv2Fields
    <2> HIDE DEF W, Channel
    <2> QED
      BY <2>1
  <1>10. ASSUME m.kind = "cc", NEW w, NEW i
         PROVE  some(w, i) <=> \/ both(w, i) \/ Fills(F("index", 7, 0, 8), m.args, w, i)
                               \/ Fills(Value, m.args, w, i)
    <2>1. W = {F("index", 7, 0, 8), Value} \union {Group, Channel}
      BY <1>2, <1>10 DEF Cv2Fields
    <2> HIDE DEF W, Channel
    <2> QED
      BY <2>1
  <1>11. ASSUME m.kind \in {"chan_pressure", "pitch_bend"}, NEW w, NEW i
         PROVE  some(w, i) <=> both(w, i) \/ Fills(Value, m.args, w, i)
    <2>1. W = {Value} \union {Group, Channel}
      BY <1>2, <1>11 DEF Cv2Fields
    <2> HIDE DEF W, Channel
    <2> QED
      BY <2>1
  <1>12. ASSUME m.kind = "program", NEW w, NEW i
         PROVE  some(w, i) <=>
                  \/ both(w, i) \/ Fills(F("program", 7, 1, 24), m.args, w, i)
                  \/ Fills(F("bank_valid", 1, 0, 0), m.args, w, i)
                  \/ /\ \/ Fills(F("bank_msb", 7, 1, 8), m.args, w, i)
                        \/ Fills(F("bank_lsb", 7, 1, 0), m.args, w, i)
                     /\ m.args.bank_valid # {}
    <2> DEFINE banks == {F("bank_msb", 7, 1, 8), F("bank_lsb", 7, 1, 0)}
               rest == {F("program", 7, 1, 24), F("bank_valid", 1, 0, 0), Group, Channel}
    <2>1. fields = rest \union banks
      BY <1>12 DEF Cv2Fields
    <2>2. \A f \in rest : f.arg \notin {"bank_msb", "bank_lsb"}
      BY DEF F, Piece, Group, Channel
    <2>3. \A f \in banks : f.arg \in {"bank_msb", "bank_lsb"}
      BY DEF F, Piece
    <2>4. W = IF m.args.bank_valid = {} THEN {f \in L.fields : f.arg \notin {"bank_msb", "bank_lsb"}} ELSE L.fields
      BY <1>12 DEF Written
    <2>5. W = IF m.args.bank_valid = {} THEN rest ELSE rest \union banks
      <3> HIDE DEF L, W, rest, banks, fields
      <3> QED
        BY <1>1, <2>1, <2>2, <2>3, <2>4
    <2> HIDE DEF W, Channel
    <2> QED
      BY <2>5
  <1> HIDE DEF some, L, W, fields, Channel
  <1>13. ASSUME NEW i \in Int, i <= 31
         PROVE  i \in L.const <=> i = 30 \/ (i \in 20 .. 23 /\ i - 16 \in Cv2Status[m.kind])
    <2>1. Cv2Status[m.kind] \subseteq 4 .. 7
      BY <1>5 DEF Cv2Status
    <2> QED
      BY <1>1, <2>1
  <1>14. ASSUME NEW i \in 8 .. 31 PROVE some(0, i) <=> both(0, i) \/ ThirdByte(m, i)
    <2>1. CASE m.kind \in {"note_on", "note_off"}
      <3>1. ~ Fills(F("attr_type", 8, 0, 0), m.args, 0, i)
        BY DEF Fills, F, Piece
      <3>2. /\ ~ Fills(F("velocity", 16, 1, 16), m.args, 0, i)
            /\ ~ Fills(F("attr_data", 16, 1, 0), m.args, 0, i)
        BY FieldFills
      <3> QED
        BY <1>6, <1>8, <2>1, <3>1, <3>2 DEF ThirdByte
    <2>2. CASE m.kind = "poly_pressure"
      BY <1>6, <1>9, <2>2 DEF ThirdByte
    <2>3. CASE m.kind = "cc"
      <3>1. Fills(F("index", 7, 0, 8), m.args, 0, i) <=> 0 = 0 /\ i \in 8 .. 8 + 7 - 1 /\ i - 8 \in m.args["index"]
        BY FieldFills
      <3> QED
        BY <1>6, <1>10, <2>3, <3>1 DEF ThirdByte
    <2>4. CASE m.kind = "program"
      <3>1. /\ ~ Fills(F("program", 7, 1, 24), m.args, 0, i)
            /\ ~ Fills(F("bank_msb", 7, 1, 8), m.args, 0, i)
            /\ ~ Fills(F("bank_lsb", 7, 1, 0), m.args, 0, i)
            /\ ~ Fills(F("bank_valid", 1, 0, 0), m.args, 0, i)
        BY FieldFills
      <3> QED
        BY <1>12, <2>4, <3>1 DEF ThirdByte
    <2>5. CASE m.kind \in {"chan_pressure", "pitch_bend"}
      BY <1>6, <1>11, <2>5 DEF ThirdByte
    <2> QED
      BY <1>5, <2>1, <2>2, <2>3, <2>4, <2>5
  <1>15. ASSUME NEW i \in FromBit(m) .. 31 PROVE some(1, i) <=> SecondWord(m, i)
    <2>0. ~ both(1, i) /\ ~ Fills(Note, m.args, 1, i)
      BY <1>6
    <2> HIDE DEF both
    <2>1. CASE m.kind \in {"note_on", "note_off"}
      <3>1. Fills(F("velocity", 16, 1, 16), m.args, 1, i)
              <=> 1 = 1 /\ i \in 16 .. 16 + 16 - 1 /\ i - 16 \in m.args["velocity"]
        BY FieldFills
      <3>2. i \in 16 .. 31
        BY <2>1 DEF FromBit
      <3>3. ~ Fills(F("attr_type", 8, 0, 0), m.args, 1, i) /\ ~ Fills(F("attr_data", 16, 1, 0), m.args, 1, i)
        BY <3>2 DEF Fills, F, Piece
      <3> QED
        BY <1>8, <2>0, <2>1, <3>1, <3>3 DEF SecondWord
    <2>2. CASE m.kind = "poly_pressure"
      BY <1>6, <1>9, <2>0, <2>2 DEF SecondWord
    <2>3. CASE m.kind = "cc"
      <3>1. ~ Fills(F("index", 7, 0, 8), m.args, 1, i)
        BY DEF Fills, F, Piece
      <3> QED
        BY <1>6, <1>10, <2>0, <2>3, <3>1 DEF SecondWord
    <2>4. CASE m.kind = "program"
      <3>1. Fills(F("program", 7, 1, 24), m.args, 1, i)
              <=> 1 = 1 /\ i \in 24 .. 24 + 7 - 1 /\ i - 24 \in m.args["program"]
        BY FieldFills
      <3>2. i \in 24 .. 31
        BY <2>4 DEF FromBit
      <3>3. /\ ~ Fills(F("bank_msb", 7, 1, 8), m.args, 1, i)
            /\ ~ Fills(F("bank_lsb", 7, 1, 0), m.args, 1, i)
            /\ ~ Fills(F("bank_valid", 1, 0, 0), m.args, 1, i)
        BY <3>2 DEF Fills, F, Piece
      <3> QED
        BY <1>12, <2>0, <2>4, <3>1, <3>3 DEF SecondWord
    <2>5. CASE m.kind \in {"chan_pressure", "pitch_bend"}
      BY <1>6, <1>11, <2>0, <2>5 DEF SecondWord
    <2> QED
      BY <1>5, <2>1, <2>2, <2>3, <2>4, <2>5
  <1>16. ASSUME NEW i \in 8 .. 31 PROVE i \in Build(m)[0] <=> HeaderBit(m, i) \/ ThirdByte(m, i)
    <2>1. i \in L.const <=> i = 30 \/ (i \in 20 .. 23 /\ i - 16 \in Cv2Status[m.kind])
      BY <1>13
    <2>2. i \in Build(m)[0] <=> i \in L.const \/ some(0, i)
      BY <1>7
    <2>3. both(0, i) <=> \/ i \in 24 .. 27 /\ i - 24 \in m.args["group"]
                         \/ i \in 16 .. 19 /\ i - 16 \in m.args["channel"]
      BY <1>6
    <2> HIDE DEF both
    <2> QED
      BY <1>14, <2>1, <2>2, <2>3 DEF HeaderBit
  <1>17. \A i \in FromBit(m) .. 31 : i \in Build(m)[1] <=> SecondWord(m, i)
    BY <1>7, <1>15
  <1> QED
    BY <1>7, <1>16, <1>17

-----------------------------------------------------------------------------
(* Translation down to MIDI 1.0.                                           *)
LowerWord(w, d1, d2) ==
  MT(2) \union Put(Take(w[0], 16, 12), 16) \union Put(d1, 8) \union d2
(* The two data bytes, by the message's status.                            *)
LowOne(kind, w) ==
  CASE kind = "program"       -> Take(w[1], 24, 7)
    [] kind = "chan_pressure" -> scale_down_32to7(w[1])
    [] kind = "pitch_bend"    -> Take(scale_down_32to14(w[1]), 0, 7)
    [] OTHER                  -> Take(w[0], 8, 7)
LowTwo(kind, w) ==
  CASE kind \in {"note_on", "note_off"}        -> scale_down_16to7(Take(w[1], 16, 16))
    [] kind \in {"poly_pressure", "cc"}        -> scale_down_32to7(w[1])
    [] kind = "pitch_bend"                     -> Take(scale_down_32to14(w[1]), 7, 7)
    [] OTHER                                   -> {}

(* Every bit of a word translated down.                                    *)
LEMMA LowerWordBits ==
  ASSUME NEW w, NEW d1, NEW d2, d1 \subseteq 0 .. 6
  PROVE  \A i : i \in LowerWord(w, d1, d2) <=>
                \/ i = 29
                \/ i \in 16 .. 27 /\ i \in w[0]
                \/ i \in 8 .. 14 /\ i - 8 \in d1
                \/ i \in d2
  <1>1. \A i : i \in MT(2) <=> i = 29
    <2>1. {1} \subseteq Int /\ \A i : i \in Int /\ i - 28 \in {1} <=> i = 29
      OBVIOUS
    <2> QED
      BY <2>1, PutBits, StatusBits DEF MT
  <1>2. \A i : i \in Put(Take(w[0], 16, 12), 16) <=> i \in 16 .. 27 /\ i \in w[0]
    <2>1. \A i : i \in Put(Take(w[0], 16, 12), 16) <=> i \in 16 .. 16 + 12 - 1 /\ 16 + (i - 16) \in w[0]
      BY PutTakeBits
    <2>2. \A i \in 16 .. 27 : 16 + (i - 16) = i
      OBVIOUS
    <2> QED
      BY <2>1, <2>2
  <1>3. \A i : i \in Put(d1, 8) <=> i \in 8 .. 14 /\ i - 8 \in d1
    <2>1. d1 \subseteq Int /\ 8 \in Int
      OBVIOUS
    <2>2. \A i : i \in Put(d1, 8) <=> i \in Int /\ i - 8 \in d1
      BY <2>1, PutBits, Zenon
    <2> QED
      BY <2>2
  <1> QED
    BY <1>1, <1>2, <1>3 DEF LowerWord

(* The nibble of a status.                                                 *)
StatusNibble == [
  note_off |-> 8, note_on |-> 9, poly_pressure |-> 10, cc |-> 11,
  program |-> 12, chan_pressure |-> 13, pitch_bend |-> 14]
(* The status nibble of such a message is the number the translation       *)
(* selects by.                                                             *)
LEMMA NibbleStatus ==
  ASSUME NEW kind \in Cv2Kinds, NEW w, \A i \in 20 .. 23 : i \in w <=> i - 16 \in Cv2Status[kind]
  PROVE  Num(Take(w, 20, 4)) = StatusNibble[kind]
  <1> DEFINE b == Take(w, 20, 4)
  <1>1. b \in SUBSET (0 .. 3)
    BY DEF Take
  <1>2. /\ 3 \in b <=> 7 \in Cv2Status[kind]
        /\ 2 \in b <=> 6 \in Cv2Status[kind]
        /\ 1 \in b <=> 5 \in Cv2Status[kind]
        /\ 0 \in b <=> 4 \in Cv2Status[kind]
    <2>1. /\ 3 \in b <=> 23 \in w
          /\ 2 \in b <=> 22 \in w
          /\ 1 \in b <=> 21 \in w
          /\ 0 \in b <=> 20 \in w
      BY DEF Take
    <2>2. /\ 23 \in w <=> 23 - 16 \in Cv2Status[kind]
          /\ 22 \in w <=> 22 - 16 \in Cv2Status[kind]
          /\ 21 \in w <=> 21 - 16 \in Cv2Status[kind]
          /\ 20 \in w <=> 20 - 16 \in Cv2Status[kind]
      OBVIOUS
    <2> QED
      BY <2>1, <2>2
  <1> HIDE DEF b
  <1>3. Num(b) = (IF 3 \in b THEN 8 ELSE 0) + (IF 2 \in b THEN 4 ELSE 0)
                     + (IF 1 \in b THEN 2 ELSE 0) + (IF 0 \in b THEN 1 ELSE 0)
    BY <1>1, NibbleRead
  <1>4. kind \in {"note_off", "note_on", "poly_pressure", "cc", "program", "chan_pressure", "pitch_bend"}
    BY DEF Cv2Kinds, Cv2Status
  <1>5. Num(b) = StatusNibble[kind]
    <2>1. CASE kind = "note_off"
      BY <1>2, <1>3, <2>1 DEF Cv2Status, StatusNibble
    <2>2. CASE kind = "note_on"
      BY <1>2, <1>3, <2>2 DEF Cv2Status, StatusNibble
    <2>3. CASE kind = "poly_pressure"
      BY <1>2, <1>3, <2>3 DEF Cv2Status, StatusNibble
    <2>4. CASE kind = "cc"
      BY <1>2, <1>3, <2>4 DEF Cv2Status, StatusNibble
    <2>5. CASE kind = "program"
      BY <1>2, <1>3, <2>5 DEF Cv2Status, StatusNibble
    <2>6. CASE kind = "chan_pressure"
      BY <1>2, <1>3, <2>6 DEF Cv2Status, StatusNibble
    <2>7. CASE kind = "pitch_bend"
      BY <1>2, <1>3, <2>7 DEF Cv2Status, StatusNibble
    <2> QED
      BY <1>4, <2>1, <2>2, <2>3, <2>4, <2>5, <2>6, <2>7
  <1> QED
    BY <1>5 DEF b

(* The type nibble of a MIDI 1.0 and of a MIDI 2.0 channel voice message.  *)
LEMMA NibbleOfType ==
  ASSUME NEW w, NEW bit \in {29, 30}, \A i \in 28 .. 31 : i \in w <=> i = bit
  PROVE  Num(Take(w, 28, 4)) = IF bit = 29 THEN 2 ELSE 4
  <1> DEFINE b == Take(w, 28, 4)
  <1>1. b \in SUBSET (0 .. 3)
    BY DEF Take
  <1>2. ~ 3 \in b /\ (2 \in b <=> bit = 30) /\ (1 \in b <=> bit = 29) /\ ~ 0 \in b
    <2>1. /\ 3 \in b <=> 31 \in w
          /\ 2 \in b <=> 30 \in w
          /\ 1 \in b <=> 29 \in w
          /\ 0 \in b <=> 28 \in w
      BY DEF Take
    <2> QED
      BY <2>1
  <1> HIDE DEF b
  <1>3. Num(b) = (IF 3 \in b THEN 8 ELSE 0) + (IF 2 \in b THEN 4 ELSE 0)
                     + (IF 1 \in b THEN 2 ELSE 0) + (IF 0 \in b THEN 1 ELSE 0)
    BY <1>1, NibbleRead
  <1>4. Num(b) = IF bit = 29 THEN 2 ELSE 4
    BY <1>2, <1>3
  <1> QED
    BY <1>4 DEF b

(* What midi2_mt4_to_mt2 makes of each of them, in one form.               *)
LEMMA LowerCases ==
  ASSUME NEW kind \in Cv2Kinds, NEW w,
         \A i \in 20 .. 23 : i \in w[0] <=> i - 16 \in Cv2Status[kind],
         \A i \in 28 .. 31 : i \in w[0] <=> i = 30
  PROVE  mt4_to_mt2(w) = {LowerWord(w, LowOne(kind, w), LowTwo(kind, w))}
  <1>1. Num(Take(w[0], 20, 4)) = StatusNibble[kind]
    <2> DEFINE w0 == w[0]
    <2>1. \A i \in 20 .. 23 : i \in w0 <=> i - 16 \in Cv2Status[kind]
      OBVIOUS
    <2> HIDE DEF w0
    <2>2. Num(Take(w0, 20, 4)) = StatusNibble[kind]
      BY <2>1, NibbleStatus
    <2> QED
      BY <2>2 DEF w0
  <1>2. Num(Take(w[0], 28, 4)) = 4
    <2> DEFINE w0 == w[0]
    <2>1. \A i \in 28 .. 31 : i \in w0 <=> i = 30
      OBVIOUS
    <2> HIDE DEF w0
    <2>2. Num(Take(w0, 28, 4)) = 4
      BY <2>1, NibbleOfType
    <2> QED
      BY <2>2 DEF w0
  <1>3. kind \in {"note_off", "note_on", "poly_pressure", "cc", "program", "chan_pressure", "pitch_bend"}
    BY DEF Cv2Kinds, Cv2Status
  <1> DEFINE n == Num(Take(w[0], 20, 4))
             Word(d1, d2) == {MT(2) \union Put(Take(w[0], 16, 12), 16) \union Put(d1, 8) \union d2}
             byte3 == Take(w[0], 8, 7)
             v7 == scale_down_32to7(w[1])
             v16 == scale_down_16to7(Take(w[1], 16, 16))
             pc == Take(w[1], 24, 7)
             p1 == Take(scale_down_32to14(w[1]), 0, 7)
             p2 == Take(scale_down_32to14(w[1]), 7, 7)
  <1>4. mt4_to_mt2(w) =
          CASE n \in {8, 9}   -> Word(byte3, v16)
            [] n \in {10, 11} -> Word(byte3, v7)
            [] n = 12 -> Word(pc, {})
            [] n = 13 -> Word(v7, {})
            [] n = 14 -> Word(p1, p2)
            [] OTHER -> {}
    BY <1>2 DEF mt4_to_mt2
  <1>5. \A d1, d2 : Word(d1, d2) = {LowerWord(w, d1, d2)}
    BY DEF LowerWord
  <1>6. /\ LowOne(kind, w) = CASE kind = "program" -> pc [] kind = "chan_pressure" -> v7
                               [] kind = "pitch_bend" -> p1 [] OTHER -> byte3
        /\ LowTwo(kind, w) = CASE kind \in {"note_on", "note_off"} -> v16
                               [] kind \in {"poly_pressure", "cc"} -> v7
                               [] kind = "pitch_bend" -> p2 [] OTHER -> {}
    BY DEF LowOne, LowTwo
  <1>7. n = StatusNibble[kind]
    BY <1>1
  <1> HIDE DEF n, Word, byte3, v7, v16, pc, p1, p2
  <1>8. mt4_to_mt2(w) = Word(LowOne(kind, w), LowTwo(kind, w))
    <2>1. CASE kind \in {"note_off", "note_on"}
      BY <1>4, <1>6, <1>7, <2>1 DEF StatusNibble
    <2>2. CASE kind \in {"poly_pressure", "cc"}
      BY <1>4, <1>6, <1>7, <2>2 DEF StatusNibble
    <2>3. CASE kind = "program"
      BY <1>4, <1>6, <1>7, <2>3 DEF StatusNibble
    <2>4. CASE kind = "chan_pressure"
      BY <1>4, <1>6, <1>7, <2>4 DEF StatusNibble
    <2>5. CASE kind = "pitch_bend"
      BY <1>4, <1>6, <1>7, <2>5 DEF StatusNibble
    <2> QED
      BY <1>3, <2>1, <2>2, <2>3, <2>4, <2>5
  <1> QED
    BY <1>5, <1>8

-----------------------------------------------------------------------------
(* Scaling up keeps the value in the most significant bits.                *)
LEMMA ScaledTo16 ==
  ASSUME NEW v, v \subseteq 0 .. 6
  PROVE  \A j \in 0 .. 6 : 9 + j \in scale_up_7to16(v) <=> j \in v
  <1>1. v \subseteq Int /\ 9 \in Int /\ 2 \in Int
    OBVIOUS
  <1>2. /\ \A i : i \in Put(v, 9) <=> i \in Int /\ i - 9 \in v
        /\ \A i : i \in Put(v, 2) <=> i \in Int /\ i - 2 \in v
    BY <1>1, PutBits, Zenon
  <1>3. \A i : i \in Take(v, 5, 2) => i \in 0 .. 1
    BY DEF Take
  <1>4. ASSUME NEW j \in 0 .. 6 PROVE 9 + j \in scale_up_7to16(v) <=> j \in v
    <2>1. 9 + j \in Int /\ (9 + j) - 9 = j /\ ~ ((9 + j) - 2 \in 0 .. 6) /\ ~ (9 + j \in 0 .. 1)
      OBVIOUS
    <2> QED
      BY <1>2, <1>3, <2>1 DEF scale_up_7to16
  <1> QED
    BY <1>4

(* A value that is scaled up keeps its bits at the top of 32.              *)
LEMMA ScaledTo32 ==
  ASSUME NEW v, v \subseteq 0 .. 6
  PROVE  \A j \in 0 .. 6 : 25 + j \in scale_up_7to32(v) <=> j \in v
  <1>1. v \subseteq Int /\ 25 \in Int /\ 18 \in Int /\ 11 \in Int /\ 4 \in Int
    OBVIOUS
  <1>2. /\ \A i : i \in Put(v, 25) <=> i \in Int /\ i - 25 \in v
        /\ \A i : i \in Put(v, 18) <=> i \in Int /\ i - 18 \in v
        /\ \A i : i \in Put(v, 11) <=> i \in Int /\ i - 11 \in v
        /\ \A i : i \in Put(v, 4) <=> i \in Int /\ i - 4 \in v
    BY <1>1, PutBits, Zenon
  <1>3. \A i : i \in Take(v, 3, 4) => i \in 0 .. 3
    BY DEF Take
  <1>4. ASSUME NEW j \in 0 .. 6 PROVE 25 + j \in scale_up_7to32(v) <=> j \in v
    <2>1. /\ 25 + j \in Int /\ (25 + j) - 25 = j /\ ~ ((25 + j) - 18 \in 0 .. 6)
          /\ ~ ((25 + j) - 11 \in 0 .. 6) /\ ~ ((25 + j) - 4 \in 0 .. 6) /\ ~ (25 + j \in 0 .. 3)
      OBVIOUS
    <2> QED
      BY <1>2, <1>3, <2>1 DEF scale_up_7to32
  <1> QED
    BY <1>4

(* The two data bytes of a pitch bend, as one value and apart again.       *)
LEMMA ScaledFrom14 ==
  ASSUME NEW d1, d1 \subseteq 0 .. 6, NEW d2, d2 \subseteq 0 .. 6
  PROVE  \A j \in 0 .. 6 :
           /\ 18 + j \in scale_up_14to32(Join14(d1, d2)) <=> j \in d1
           /\ 25 + j \in scale_up_14to32(Join14(d1, d2)) <=> j \in d2
  <1> DEFINE x == Join14(d1, d2)
  <1>1. \A i : i \in x <=> (i \in Int /\ i - 7 \in d2) \/ i \in d1
    <2>1. d2 \subseteq Int /\ 7 \in Int
      OBVIOUS
    <2>2. \A i : i \in Put(d2, 7) <=> i \in Int /\ i - 7 \in d2
      BY <2>1, PutBits, Zenon
    <2> QED
      BY <2>2 DEF Join14
  <1> HIDE DEF x
  <1>2. x \subseteq 0 .. 13
    <2>1. ASSUME NEW i \in Int, i - 7 \in 0 .. 6 PROVE i \in 0 .. 13
      BY <2>1
    <2>2. ASSUME NEW i \in x PROVE i \in 0 .. 13
      <3>1. CASE i \in d1
        BY <3>1
      <3>2. CASE i \in Int /\ i - 7 \in d2
        BY <2>1, <3>2
      <3> QED
        BY <1>1, <3>1, <3>2
    <2> QED
      BY <2>2
  <1>3. /\ \A i : i \in Put(x, 18) <=> i \in Int /\ i - 18 \in x
        /\ \A i : i \in Put(x, 4) <=> i \in Int /\ i - 4 \in x
    <2>1. x \subseteq Int /\ 18 \in Int /\ 4 \in Int
      BY <1>2
    <2> QED
      BY <2>1, PutBits, Zenon
  <1>4. \A i : i \in Take(x, 10, 4) => i \in 0 .. 3
    BY DEF Take
  <1>5. ASSUME NEW k \in 18 .. 31 PROVE k \in scale_up_14to32(x) <=> k - 18 \in x
    <2>1. k \in Int /\ ~ (k - 4 \in 0 .. 13) /\ ~ (k \in 0 .. 3)
      OBVIOUS
    <2> QED
      BY <1>2, <1>3, <1>4, <2>1 DEF scale_up_14to32
  <1>6. ASSUME NEW j \in 0 .. 6
        PROVE  /\ 18 + j \in scale_up_14to32(x) <=> j \in d1
               /\ 25 + j \in scale_up_14to32(x) <=> j \in d2
    <2>1. 18 + j \in 18 .. 31 /\ (18 + j) - 18 = j /\ 25 + j \in 18 .. 31 /\ (25 + j) - 18 = 7 + j
      OBVIOUS
    <2>2. ~ (j - 7 \in d2) /\ (7 + j) - 7 = j /\ 7 + j \in Int /\ ~ (7 + j \in d1)
      OBVIOUS
    <2>3. (18 + j \in scale_up_14to32(x) <=> j \in x) /\ (25 + j \in scale_up_14to32(x) <=> 7 + j \in x)
      BY <1>5, <2>1
    <2> QED
      BY <1>1, <2>2, <2>3
  <1> QED
    BY <1>6 DEF x

(* A table of several, read at a name that only one of them has.           *)
LEMMA MergedAt ==
  ASSUME NEW tables, NEW t \in tables, NEW name \in DOMAIN t, \A u \in tables : name \in DOMAIN u => u = t
  PROVE  name \in DOMAIN Merged(tables) /\ Merged(tables)[name] = t[name]
  <1> DEFINE u == CHOOSE x \in tables : name \in DOMAIN x
  <1>1. u \in tables /\ name \in DOMAIN u
    OBVIOUS
  <1>2. name \in DOMAIN Merged(tables) /\ Merged(tables)[name] = u[name]
    BY DEF Merged
  <1> HIDE DEF u
  <1>3. u = t
    BY <1>1
  <1> QED
    BY <1>2, <1>3

(* The arguments of a channel voice message: group, channel and its own.   *)
VoiceOf(g, c, args) == Merged({[group |-> g, channel |-> c], args})
(* The arguments of a channel voice message are its group, its channel and *)
(* its own.                                                                *)
LEMMA VoiceArgs ==
  ASSUME NEW g, NEW c, NEW args, "group" \notin DOMAIN args, "channel" \notin DOMAIN args
  PROVE  /\ VoiceOf(g, c, args)["group"] = g /\ VoiceOf(g, c, args)["channel"] = c
         /\ \A a \in DOMAIN args : VoiceOf(g, c, args)[a] = args[a]
  <1> DEFINE t == [group |-> g, channel |-> c]
             v == Merged({t, args})
  <1>1. v["group"] = t["group"] /\ v["channel"] = t["channel"]
    <2>1. t \in {t, args} /\ "group" \in DOMAIN t /\ "channel" \in DOMAIN t
      OBVIOUS
    <2> HIDE DEF t
    <2> QED
      BY <2>1, MergedAt
  <1>2. ASSUME NEW a \in DOMAIN args PROVE v[a] = args[a]
    <2>1. a \notin DOMAIN t
      OBVIOUS
    <2> HIDE DEF t
    <2> QED
      BY <2>1, MergedAt
  <1> QED
    BY <1>1, <1>2 DEF VoiceOf

-----------------------------------------------------------------------------
(* Translation up to MIDI 2.0.                                             *)
OneByte == {"program", "chan_pressure"}
(* A MIDI 1.0 channel voice word whose status is that of the MIDI 2.0      *)
(* message of this kind.                                                   *)
MidiOne(w0, kind) ==
  /\ \A i \in 28 .. 31 : i \in w0 <=> i = 29
  /\ \A i \in 20 .. 23 : i \in w0 <=> i - 16 \in Cv2Status[kind]
  /\ w0 \subseteq (0 .. 6) \union (8 .. 14) \union (16 .. 31)
  /\ kind \in OneByte => \A i \in 0 .. 6 : i \notin w0

(* A Note On of velocity 0, which is a Note Off of velocity 64.            *)
Silent(w0, kind) == kind = "note_on" /\ Take(w0, 0, 7) = {}
RaisedKind(w0, kind) == IF Silent(w0, kind) THEN "note_off" ELSE kind
Struck(w0, kind) == IF Silent(w0, kind) THEN {6} ELSE Take(w0, 0, 7)

RaisedFrom(r, w0, kind) ==
  LET d1 == Take(w0, 8, 7)
      d2 == Take(w0, 0, 7)
  IN  /\ r.data = <<>>
      /\ r.kind = RaisedKind(w0, kind)
      /\ r.args["group"] = Take(w0, 24, 4) /\ r.args["channel"] = Take(w0, 16, 4)
      /\ kind \in {"note_on", "note_off"} =>
           /\ r.args["note"] = d1 /\ r.args["velocity"] = scale_up_7to16(Struck(w0, kind))
           /\ r.args["attr_type"] = {} /\ r.args["attr_data"] = {}
      /\ kind = "poly_pressure" => r.args["note"] = d1 /\ r.args["value"] = scale_up_7to32(d2)
      /\ kind = "cc" => r.args["index"] = d1 /\ r.args["value"] = scale_up_7to32(d2)
      /\ kind = "program" => r.args["program"] = d1 /\ r.args["bank_valid"] = {}
      /\ kind = "chan_pressure" => r.args["value"] = scale_up_7to32(d1)
      /\ kind = "pitch_bend" => r.args["value"] = scale_up_14to32(Join14(d1, d2))

(* Every MIDI 1.0 channel voice message means one MIDI 2.0 message.        *)
LEMMA RaisedIs ==
  ASSUME NEW w0, NEW kind \in Cv2Kinds, MidiOne(w0, kind)
  PROVE  \E r : Raised(w0) = {r} /\ RaisedFrom(r, w0, kind)
  <1> DEFINE g == Take(w0, 24, 4)
             c == Take(w0, 16, 4)
             d1 == Take(w0, 8, 7)
             d2 == Take(w0, 0, 7)
             n == Num(Take(w0, 20, 4))
             Voice(args) == Merged({[group |-> g, channel |-> c], args})
             Noted(v) == [note |-> d1, velocity |-> scale_up_7to16(v), attr_type |-> {}, attr_data |-> {}]
             Of(k, args) == [kind |-> k, args |-> Voice(args), data |-> <<>>]
             cc == [index |-> d1, value |-> scale_up_7to32(d2)]
             pc == [program |-> d1, bank_valid |-> {}, bank_msb |-> {}, bank_lsb |-> {}]
             cp == [value |-> scale_up_7to32(d1)]
             pb == [value |-> scale_up_14to32(Join14(d1, d2))]
             pp == [note |-> d1, value |-> scale_up_7to32(d2)]
  <1>1. n = StatusNibble[kind]
    BY NibbleStatus DEF MidiOne
  <1>2. Num(Take(w0, 28, 4)) = 2
    BY NibbleOfType DEF MidiOne
  <1>3. Raised(w0) =
          CASE n = 9 /\ d2 = {} -> {Of("note_off", Noted({6}))}
            [] n = 9 /\ d2 # {} -> {Of("note_on", Noted(d2))}
            [] n = 8  -> {Of("note_off", Noted(d2))}
            [] n = 11 -> {Of("cc", cc)}
            [] n = 12 -> {Of("program", pc)}
            [] n = 13 -> {Of("chan_pressure", cp)}
            [] n = 14 -> {Of("pitch_bend", pb)}
            [] n = 10 -> {Of("poly_pressure", pp)}
            [] OTHER -> {}
    BY <1>2 DEF Raised, Plain
  <1>4. ASSUME NEW args, "group" \notin DOMAIN args, "channel" \notin DOMAIN args
        PROVE  Voice(args)["group"] = g /\ Voice(args)["channel"] = c /\ \A a \in DOMAIN args : Voice(args)[a] = args[a]
    <2>1. Voice(args) = VoiceOf(g, c, args)
      BY DEF VoiceOf
    <2> HIDE DEF g, c, Voice
    <2>2. /\ VoiceOf(g, c, args)["group"] = g /\ VoiceOf(g, c, args)["channel"] = c
          /\ \A a \in DOMAIN args : VoiceOf(g, c, args)[a] = args[a]
      BY <1>4, VoiceArgs
    <2> QED
      BY <2>1, <2>2
  <1>5. /\ DOMAIN cc = {"index", "value"} /\ DOMAIN pc = {"program", "bank_valid", "bank_msb", "bank_lsb"}
        /\ DOMAIN cp = {"value"} /\ DOMAIN pb = {"value"} /\ DOMAIN pp = {"note", "value"}
        /\ \A v : DOMAIN Noted(v) = {"note", "velocity", "attr_type", "attr_data"}
    OBVIOUS
  <1>6. /\ cc["index"] = d1 /\ cc["value"] = scale_up_7to32(d2) /\ pc["program"] = d1
        /\ cp["value"] = scale_up_7to32(d1) /\ pb["value"] = scale_up_14to32(Join14(d1, d2))
        /\ pp["note"] = d1 /\ pp["value"] = scale_up_7to32(d2)
        /\ \A v : Noted(v)["note"] = d1 /\ Noted(v)["velocity"] = scale_up_7to16(v)
        /\ pc["bank_valid"] = {} /\ \A v : Noted(v)["attr_type"] = {} /\ Noted(v)["attr_data"] = {}
    OBVIOUS
  <1>7. \A k, args : Of(k, args).kind = k /\ Of(k, args).args = Voice(args) /\ Of(k, args).data = <<>>
    OBVIOUS
  <1>8. kind \in {"note_off", "note_on", "poly_pressure", "cc", "program", "chan_pressure", "pitch_bend"}
    BY DEF Cv2Kinds, Cv2Status
  <1>9. /\ \A v : LET a == Noted(v) IN /\ Voice(a)["group"] = g /\ Voice(a)["channel"] = c
                                      /\ Voice(a)["note"] = d1 /\ Voice(a)["velocity"] = scale_up_7to16(v)
                                      /\ Voice(a)["attr_type"] = {} /\ Voice(a)["attr_data"] = {}
        /\ Voice(cc)["group"] = g /\ Voice(cc)["channel"] = c
        /\ Voice(cc)["index"] = d1 /\ Voice(cc)["value"] = scale_up_7to32(d2)
        /\ Voice(pc)["group"] = g /\ Voice(pc)["channel"] = c /\ Voice(pc)["program"] = d1
        /\ Voice(pc)["bank_valid"] = {}
        /\ Voice(cp)["group"] = g /\ Voice(cp)["channel"] = c /\ Voice(cp)["value"] = scale_up_7to32(d1)
        /\ Voice(pb)["group"] = g /\ Voice(pb)["channel"] = c
        /\ Voice(pb)["value"] = scale_up_14to32(Join14(d1, d2))
        /\ Voice(pp)["group"] = g /\ Voice(pp)["channel"] = c
        /\ Voice(pp)["note"] = d1 /\ Voice(pp)["value"] = scale_up_7to32(d2)
    <2> HIDE DEF Voice, Noted, cc, pc, cp, pb, pp
    <2>1. \A v : /\ Voice(Noted(v))["group"] = g /\ Voice(Noted(v))["channel"] = c
                 /\ Voice(Noted(v))["note"] = d1 /\ Voice(Noted(v))["velocity"] = scale_up_7to16(v)
                 /\ Voice(Noted(v))["attr_type"] = {} /\ Voice(Noted(v))["attr_data"] = {}
      BY <1>4, <1>5, <1>6
    <2>2. /\ Voice(cc)["group"] = g /\ Voice(cc)["channel"] = c
          /\ Voice(cc)["index"] = d1 /\ Voice(cc)["value"] = scale_up_7to32(d2)
      BY <1>4, <1>5, <1>6
    <2>3. /\ Voice(pc)["group"] = g /\ Voice(pc)["channel"] = c /\ Voice(pc)["program"] = d1
          /\ Voice(pc)["bank_valid"] = {}
      BY <1>4, <1>5, <1>6
    <2>4. Voice(cp)["group"] = g /\ Voice(cp)["channel"] = c /\ Voice(cp)["value"] = scale_up_7to32(d1)
      BY <1>4, <1>5, <1>6
    <2>5. /\ Voice(pb)["group"] = g /\ Voice(pb)["channel"] = c
          /\ Voice(pb)["value"] = scale_up_14to32(Join14(d1, d2))
      BY <1>4, <1>5, <1>6
    <2>6. /\ Voice(pp)["group"] = g /\ Voice(pp)["channel"] = c
          /\ Voice(pp)["note"] = d1 /\ Voice(pp)["value"] = scale_up_7to32(d2)
      BY <1>4, <1>5, <1>6
    <2> QED
      BY <2>1, <2>2, <2>3, <2>4, <2>5, <2>6
  <1>10. Silent(w0, kind) <=> kind = "note_on" /\ d2 = {}
    BY DEF Silent
  <1>11. Struck(w0, kind) = IF Silent(w0, kind) THEN {6} ELSE d2
    BY DEF Struck
  <1>12. \A r : RaisedFrom(r, w0, kind) <=>
            /\ r.data = <<>>
            /\ r.kind = RaisedKind(w0, kind)
            /\ r.args["group"] = g /\ r.args["channel"] = c
            /\ kind \in {"note_on", "note_off"} =>
                 /\ r.args["note"] = d1 /\ r.args["velocity"] = scale_up_7to16(Struck(w0, kind))
                 /\ r.args["attr_type"] = {} /\ r.args["attr_data"] = {}
            /\ kind = "poly_pressure" => r.args["note"] = d1 /\ r.args["value"] = scale_up_7to32(d2)
            /\ kind = "cc" => r.args["index"] = d1 /\ r.args["value"] = scale_up_7to32(d2)
            /\ kind = "program" => r.args["program"] = d1 /\ r.args["bank_valid"] = {}
            /\ kind = "chan_pressure" => r.args["value"] = scale_up_7to32(d1)
            /\ kind = "pitch_bend" => r.args["value"] = scale_up_14to32(Join14(d1, d2))
    BY DEF RaisedFrom
  <1> HIDE DEF n, g, c, d1, d2, Voice, Noted, Of, cc, pc, cp, pb, pp
  <1>13. CASE Silent(w0, kind)
    <2>1. Raised(w0) = {Of("note_off", Noted({6}))}
      BY <1>1, <1>3, <1>10, <1>13 DEF StatusNibble
    <2>2. RaisedFrom(Of("note_off", Noted({6})), w0, kind)
      BY <1>7, <1>9, <1>10, <1>11, <1>12, <1>13 DEF RaisedKind
    <2> QED
      BY <2>1, <2>2
  <1>14. CASE kind = "note_on" /\ ~ Silent(w0, kind)
    <2>1. Raised(w0) = {Of("note_on", Noted(d2))}
      BY <1>1, <1>3, <1>10, <1>14 DEF StatusNibble
    <2>2. RaisedFrom(Of("note_on", Noted(d2)), w0, kind)
      BY <1>7, <1>9, <1>11, <1>12, <1>14 DEF RaisedKind
    <2> QED
      BY <2>1, <2>2
  <1>15. CASE kind = "note_off"
    <2>1. Raised(w0) = {Of("note_off", Noted(d2))}
      BY <1>1, <1>3, <1>15 DEF StatusNibble
    <2>2. RaisedFrom(Of("note_off", Noted(d2)), w0, kind)
      BY <1>7, <1>9, <1>10, <1>11, <1>12, <1>15 DEF RaisedKind
    <2> QED
      BY <2>1, <2>2
  <1>16. CASE kind = "cc"
    <2>1. Raised(w0) = {Of("cc", cc)}
      BY <1>1, <1>3, <1>16 DEF StatusNibble
    <2>2. RaisedFrom(Of("cc", cc), w0, kind)
      BY <1>7, <1>9, <1>10, <1>12, <1>16 DEF RaisedKind
    <2> QED
      BY <2>1, <2>2
  <1>17. CASE kind = "program"
    <2>1. Raised(w0) = {Of("program", pc)}
      BY <1>1, <1>3, <1>17 DEF StatusNibble
    <2>2. RaisedFrom(Of("program", pc), w0, kind)
      BY <1>7, <1>9, <1>10, <1>12, <1>17 DEF RaisedKind
    <2> QED
      BY <2>1, <2>2
  <1>18. CASE kind = "chan_pressure"
    <2>1. Raised(w0) = {Of("chan_pressure", cp)}
      BY <1>1, <1>3, <1>18 DEF StatusNibble
    <2>2. RaisedFrom(Of("chan_pressure", cp), w0, kind)
      BY <1>7, <1>9, <1>10, <1>12, <1>18 DEF RaisedKind
    <2> QED
      BY <2>1, <2>2
  <1>19. CASE kind = "pitch_bend"
    <2>1. Raised(w0) = {Of("pitch_bend", pb)}
      BY <1>1, <1>3, <1>19 DEF StatusNibble
    <2>2. RaisedFrom(Of("pitch_bend", pb), w0, kind)
      BY <1>7, <1>9, <1>10, <1>12, <1>19 DEF RaisedKind
    <2> QED
      BY <2>1, <2>2
  <1>20. CASE kind = "poly_pressure"
    <2>1. Raised(w0) = {Of("poly_pressure", pp)}
      BY <1>1, <1>3, <1>20 DEF StatusNibble
    <2>2. RaisedFrom(Of("poly_pressure", pp), w0, kind)
      BY <1>7, <1>9, <1>10, <1>12, <1>20 DEF RaisedKind
    <2> QED
      BY <2>1, <2>2
  <1> QED
    BY <1>8, <1>13, <1>14, <1>15, <1>16, <1>17, <1>18, <1>19, <1>20

-----------------------------------------------------------------------------
(* What scaling down reads of a word that holds a scaled value.            *)
LEMMA ScaledDown16 ==
  ASSUME NEW x, NEW u, \A i \in 16 .. 31 : i \in x <=> i - 16 \in u
  PROVE  \A j : j \in scale_down_16to7(Take(x, 16, 16)) <=> j \in 0 .. 6 /\ 9 + j \in u
  <1>1. \A j : j \in scale_down_16to7(Take(x, 16, 16))
                <=> j \in 0 .. 7 - 1 /\ 9 + j \in 0 .. 16 - 1 /\ 16 + (9 + j) \in x
    BY DEF scale_down_16to7, Take
  <1>2. \A j \in 0 .. 6 : 9 + j \in 0 .. 15 /\ 16 + (9 + j) \in 16 .. 31 /\ (16 + (9 + j)) - 16 = 9 + j
    OBVIOUS
  <1> QED
    BY <1>1, <1>2

(* A value that is scaled down gets the bits at the top of 32.             *)
LEMMA ScaledDown32 ==
  ASSUME NEW x, NEW u, \A i \in 16 .. 31 : i \in x <=> i \in u
  PROVE  /\ \A j : j \in scale_down_32to7(x) <=> j \in 0 .. 6 /\ 25 + j \in u
         /\ \A j : j \in Take(scale_down_32to14(x), 0, 7) <=> j \in 0 .. 6 /\ 18 + j \in u
         /\ \A j : j \in Take(scale_down_32to14(x), 7, 7) <=> j \in 0 .. 6 /\ 25 + j \in u
  <1>1. /\ \A j : j \in scale_down_32to7(x) <=> j \in 0 .. 7 - 1 /\ 25 + j \in x
        /\ \A j : j \in Take(scale_down_32to14(x), 0, 7)
                   <=> j \in 0 .. 7 - 1 /\ 0 + j \in 0 .. 14 - 1 /\ 18 + (0 + j) \in x
        /\ \A j : j \in Take(scale_down_32to14(x), 7, 7)
                   <=> j \in 0 .. 7 - 1 /\ 7 + j \in 0 .. 14 - 1 /\ 18 + (7 + j) \in x
    BY DEF scale_down_32to7, scale_down_32to14, Take
  <1>2. \A j \in 0 .. 6 : /\ 0 + j \in 0 .. 13 /\ 7 + j \in 0 .. 13 /\ 18 + (0 + j) = 18 + j /\ 18 + (7 + j) = 25 + j
                          /\ 18 + j \in 16 .. 31 /\ 25 + j \in 16 .. 31
    OBVIOUS
  <1> QED
    BY <1>1, <1>2

Back(w0, kind) == IF Silent(w0, kind) THEN (w0 \ {20}) \union {6} ELSE w0

(* Up to MIDI 2.0 and down again.                                          *)
LEMMA RoundTrip ==
  ASSUME NEW w0, NEW kind \in Cv2Kinds, MidiOne(w0, kind)
  PROVE  \E v \in mt2_to_mt4(w0) : mt4_to_mt2(v) = {Back(w0, kind)}
  <1>1. PICK r : Raised(w0) = {r} /\ RaisedFrom(r, w0, kind)
    BY RaisedIs
  <1> DEFINE v == Build(r)
             k == RaisedKind(w0, kind)
             d1 == Take(w0, 8, 7)
             d2 == Take(w0, 0, 7)
  <1>2. mt2_to_mt4(w0) = {v}
    BY <1>1 DEF mt2_to_mt4
  <1>3. r.data \in Seq(Bytes8) /\ r.kind = k /\ k \in Cv2Kinds
    <2>1. <<>> \in Seq(Bytes8)
      OBVIOUS
    <2>2. r.data = <<>> /\ r.kind = k
      BY <1>1 DEF RaisedFrom
    <2>3. k \in Cv2Kinds
      BY DEF RaisedKind, Cv2Kinds, Cv2Status
    <2> QED
      BY <2>1, <2>2, <2>3
  <1>4. /\ \A i \in 8 .. 31 : i \in v[0] <=> HeaderBit(r, i) \/ ThirdByte(r, i)
        /\ \A i \in FromBit(r) .. 31 : i \in v[1] <=> SecondWord(r, i)
    BY <1>3, Cv2Words
  <1> HIDE DEF v
  <1>5. /\ \A j : j \in d1 <=> j \in 0 .. 6 /\ 8 + j \in w0
        /\ \A j : j \in d2 <=> j \in 0 .. 6 /\ j \in w0
        /\ \A j : j \in r.args["group"] <=> j \in 0 .. 3 /\ 24 + j \in w0
        /\ \A j : j \in r.args["channel"] <=> j \in 0 .. 3 /\ 16 + j \in w0
    <2>1. /\ \A j : j \in d1 <=> j \in 0 .. 7 - 1 /\ 8 + j \in w0
          /\ \A j : j \in d2 <=> j \in 0 .. 7 - 1 /\ 0 + j \in w0
          /\ \A j : j \in Take(w0, 24, 4) <=> j \in 0 .. 4 - 1 /\ 24 + j \in w0
          /\ \A j : j \in Take(w0, 16, 4) <=> j \in 0 .. 4 - 1 /\ 16 + j \in w0
      BY DEF Take
    <2>2. r.args["group"] = Take(w0, 24, 4) /\ r.args["channel"] = Take(w0, 16, 4)
      BY <1>1 DEF RaisedFrom
    <2>3. \A j \in 0 .. 6 : 0 + j = j
      OBVIOUS
    <2> HIDE DEF d1, d2
    <2> QED
      BY <2>1, <2>2, <2>3
  <1>6. ASSUME NEW i \in 15 .. 31 PROVE ~ ThirdByte(r, i)
    BY DEF ThirdByte
  <1>24. ASSUME k \notin {"note_on", "note_off", "program"}
         PROVE  \A i \in 16 .. 31 : i \in v[1] <=> i \in r.args["value"]
    <2>1. FromBit(r) = 16
      BY <1>3, <1>24 DEF FromBit
    <2>2. ASSUME NEW i \in 16 .. 31 PROVE SecondWord(r, i) <=> i \in r.args["value"]
      BY <1>3, <1>24 DEF SecondWord
    <2> QED
      BY <1>4, <2>1, <2>2
  <1>7. /\ \A i \in 28 .. 31 : i \in v[0] <=> i = 30
        /\ \A i \in 20 .. 23 : i \in v[0] <=> i - 16 \in Cv2Status[k]
        /\ \A i \in (16 .. 19) \union (24 .. 27) : i \in v[0] <=> i \in w0
    <2>1. ASSUME NEW i \in 28 .. 31 PROVE i \in v[0] <=> i = 30
      BY <1>4, <1>6 DEF HeaderBit
    <2>2. ASSUME NEW i \in 20 .. 23 PROVE i \in v[0] <=> i - 16 \in Cv2Status[k]
      <3>1. i \in 8 .. 31 /\ i \in 15 .. 31 /\ i # 30 /\ i \notin 24 .. 27 /\ i \notin 16 .. 19
        OBVIOUS
      <3>2. HeaderBit(r, i) <=> i - 16 \in Cv2Status[r.kind]
        BY <3>1 DEF HeaderBit
      <3>3. i \in v[0] <=> HeaderBit(r, i)
        BY <1>4, <1>6, <3>1
      <3> QED
        BY <1>3, <3>2, <3>3
    <2>3. ASSUME NEW i \in 16 .. 19 PROVE i \in v[0] <=> i \in w0
      <3>1. i - 16 \in 0 .. 3 /\ 16 + (i - 16) = i
        OBVIOUS
      <3>2. i \in v[0] <=> i - 16 \in r.args["channel"]
        BY <1>4, <1>6 DEF HeaderBit
      <3> QED
        BY <1>5, <3>1, <3>2
    <2>4. ASSUME NEW i \in 24 .. 27 PROVE i \in v[0] <=> i \in w0
      <3>1. i - 24 \in 0 .. 3 /\ 24 + (i - 24) = i
        OBVIOUS
      <3>2. i \in v[0] <=> i - 24 \in r.args["group"]
        BY <1>4, <1>6 DEF HeaderBit
      <3> QED
        BY <1>5, <3>1, <3>2
    <2> QED
      BY <2>1, <2>2, <2>3, <2>4
  <1> DEFINE e1 == LowOne(k, v)
             e2 == LowTwo(k, v)
             low == LowerWord(v, e1, e2)
  <1>8. mt4_to_mt2(v) = {low}
    BY <1>3, <1>7, LowerCases
  <1>9. k = kind \/ (kind = "note_on" /\ k = "note_off" /\ Silent(w0, kind))
    BY DEF RaisedKind, Silent
  <1>10. kind \in {"note_off", "note_on", "poly_pressure", "cc", "program", "chan_pressure", "pitch_bend"}
    BY DEF Cv2Kinds, Cv2Status
  <1>11. d1 \subseteq 0 .. 6 /\ d2 \subseteq 0 .. 6 /\ Struck(w0, kind) \subseteq 0 .. 6
    BY <1>5 DEF Struck
  <1>12. kind \in {"note_on", "note_off", "poly_pressure", "cc"} => \A i : i \in e1 <=> i \in d1
    <2> SUFFICES ASSUME kind \in {"note_on", "note_off", "poly_pressure", "cc"}, NEW i
                 PROVE  i \in e1 <=> i \in d1
      OBVIOUS
    <2>1. k \in {"note_on", "note_off", "poly_pressure", "cc"}
      BY <1>9
    <2>2. i \in e1 <=> i \in 0 .. 7 - 1 /\ 8 + i \in v[0]
      BY <2>1 DEF LowOne, Take
    <2>3. ASSUME i \in 0 .. 6 PROVE 8 + i \in v[0] <=> i \in d1
      <3>1. 8 + i \in 8 .. 14 /\ (8 + i) - 8 = i
        BY <2>3
      <3>2. ~ HeaderBit(r, 8 + i)
        BY <3>1 DEF HeaderBit
      <3>3. 8 + i \in v[0] <=> ThirdByte(r, 8 + i)
        BY <1>4, <3>1, <3>2
      <3>4. /\ kind \in {"note_on", "note_off", "poly_pressure"} => r.args["note"] = d1
            /\ kind = "cc" => r.args["index"] = d1
        BY <1>1 DEF RaisedFrom
      <3>5. ThirdByte(r, 8 + i) <=> (8 + i) - 8 \in d1
        BY <1>3, <1>9, <3>1, <3>4 DEF ThirdByte
      <3> QED
        BY <3>1, <3>3, <3>5
    <2> QED
      BY <1>11, <2>2, <2>3
  <1>13. kind \in {"note_on", "note_off"} => \A i : i \in e2 <=> i \in Struck(w0, kind)
    <2> SUFFICES ASSUME kind \in {"note_on", "note_off"}
                 PROVE  \A i : i \in e2 <=> i \in Struck(w0, kind)
      OBVIOUS
    <2> DEFINE u == scale_up_7to16(Struck(w0, kind))
    <2>1. k \in {"note_on", "note_off"} /\ r.args["velocity"] = u
      BY <1>1, <1>9 DEF RaisedFrom
    <2>2. \A i \in 16 .. 31 : i \in v[1] <=> i - 16 \in u
      BY <1>3, <1>4, <2>1 DEF FromBit, SecondWord
    <2>3. \A i \in 0 .. 6 : 9 + i \in u <=> i \in Struck(w0, kind)
      BY <1>11, ScaledTo16
    <2>4. e2 = scale_down_16to7(Take(v[1], 16, 16))
      BY <2>1 DEF LowTwo
    <2> HIDE DEF u, e2
    <2>5. \A j : j \in e2 <=> j \in 0 .. 6 /\ 9 + j \in u
      BY <2>2, <2>4, ScaledDown16
    <2> QED
      BY <1>11, <2>3, <2>5
  <1>14. kind \in {"poly_pressure", "cc"} => \A i : i \in e2 <=> i \in d2
    <2> SUFFICES ASSUME kind \in {"poly_pressure", "cc"} PROVE \A i : i \in e2 <=> i \in d2
      OBVIOUS
    <2> DEFINE u == scale_up_7to32(d2)
    <2>1. k = kind /\ r.args["value"] = u
      BY <1>1, <1>9 DEF RaisedFrom
    <2>2. \A i \in 16 .. 31 : i \in v[1] <=> i \in u
      BY <1>24, <2>1
    <2>3. \A i \in 0 .. 6 : 25 + i \in u <=> i \in d2
      BY <1>11, ScaledTo32
    <2>4. e2 = scale_down_32to7(v[1])
      BY <2>1 DEF LowTwo
    <2> HIDE DEF u, e2, d2
    <2>5. \A j : j \in e2 <=> j \in 0 .. 6 /\ 25 + j \in u
      BY <2>2, <2>4, ScaledDown32
    <2> QED
      BY <1>11, <2>3, <2>5
  <1>15. kind = "chan_pressure" => \A i : i \in e1 <=> i \in d1
    <2> SUFFICES ASSUME kind = "chan_pressure" PROVE \A i : i \in e1 <=> i \in d1
      OBVIOUS
    <2> DEFINE u == scale_up_7to32(d1)
    <2>1. k = kind /\ r.args["value"] = u
      BY <1>1, <1>9 DEF RaisedFrom
    <2>2. \A i \in 16 .. 31 : i \in v[1] <=> i \in u
      BY <1>24, <2>1
    <2>3. \A i \in 0 .. 6 : 25 + i \in u <=> i \in d1
      BY <1>11, ScaledTo32
    <2>4. e1 = scale_down_32to7(v[1])
      BY <2>1 DEF LowOne
    <2> HIDE DEF u, e1, d1
    <2>5. \A j : j \in e1 <=> j \in 0 .. 6 /\ 25 + j \in u
      BY <2>2, <2>4, ScaledDown32
    <2> QED
      BY <1>11, <2>3, <2>5
  <1>16. kind = "program" => \A i : i \in e1 <=> i \in d1
    <2> SUFFICES ASSUME kind = "program", NEW i PROVE i \in e1 <=> i \in d1
      OBVIOUS
    <2>1. k = kind /\ r.args["program"] = d1
      BY <1>1, <1>9 DEF RaisedFrom
    <2>2. i \in e1 <=> i \in 0 .. 7 - 1 /\ 24 + i \in v[1]
      BY <2>1 DEF LowOne, Take
    <2>3. ASSUME i \in 0 .. 6 PROVE 24 + i \in v[1] <=> i \in d1
      <3>1. 24 + i \in 24 .. 30 /\ 24 + i \in 24 .. 31 /\ (24 + i) - 24 = i
        BY <2>3
      <3>2. 24 + i \in v[1] <=> SecondWord(r, 24 + i)
        BY <1>3, <1>4, <2>1, <3>1 DEF FromBit
      <3>3. SecondWord(r, 24 + i) <=> 24 + i \in 24 .. 30 /\ (24 + i) - 24 \in d1
        BY <1>3, <2>1 DEF SecondWord
      <3> QED
        BY <3>1, <3>2, <3>3
    <2> QED
      BY <1>11, <2>2, <2>3
  <1>17. kind = "pitch_bend" => \A i : (i \in e1 <=> i \in d1) /\ (i \in e2 <=> i \in d2)
    <2> SUFFICES ASSUME kind = "pitch_bend" PROVE \A i : (i \in e1 <=> i \in d1) /\ (i \in e2 <=> i \in d2)
      OBVIOUS
    <2> DEFINE u == scale_up_14to32(Join14(d1, d2))
    <2>1. k = kind /\ r.args["value"] = u
      BY <1>1, <1>9 DEF RaisedFrom
    <2>2. \A i \in 16 .. 31 : i \in v[1] <=> i \in u
      BY <1>24, <2>1
    <2>3. \A i \in 0 .. 6 : (18 + i \in u <=> i \in d1) /\ (25 + i \in u <=> i \in d2)
      BY <1>11, ScaledFrom14
    <2>4. e1 = Take(scale_down_32to14(v[1]), 0, 7) /\ e2 = Take(scale_down_32to14(v[1]), 7, 7)
      BY <2>1 DEF LowOne, LowTwo
    <2> HIDE DEF u, e1, e2, d1, d2
    <2>5. /\ \A j : j \in e1 <=> j \in 0 .. 6 /\ 18 + j \in u
          /\ \A j : j \in e2 <=> j \in 0 .. 6 /\ 25 + j \in u
      BY <2>2, <2>4, ScaledDown32
    <2> QED
      BY <1>11, <2>3, <2>5
  <1>18. kind \in OneByte => e2 = {}
    <2> SUFFICES ASSUME kind \in OneByte PROVE e2 = {}
      OBVIOUS
    <2>1. k \in {"program", "chan_pressure"}
      BY <1>9 DEF OneByte
    <2> QED
      BY <2>1 DEF LowTwo
  <1>19. /\ \A i : i \in e1 <=> i \in d1
         /\ \A i : i \in e2 <=> IF kind \in OneByte THEN FALSE ELSE i \in Struck(w0, kind)
    <2>1. \A i : i \in e1 <=> i \in d1
      <3> HIDE DEF e1, d1
      <3> QED
        BY <1>10, <1>12, <1>15, <1>16, <1>17
    <2>2. kind \notin {"note_on", "note_off"} => Struck(w0, kind) = d2
      BY DEF Struck, Silent
    <2>3. kind \in OneByte <=> kind \in {"program", "chan_pressure"}
      BY DEF OneByte
    <2> HIDE DEF e1, e2, d1, d2, k
    <2> QED
      BY <1>10, <1>13, <1>14, <1>17, <1>18, <2>1, <2>2, <2>3
  <1> HIDE DEF e1, e2, k, low, d1, d2
  <1>20. \A i : i \in low <=>
                \/ i = 29
                \/ i \in 16 .. 27 /\ i \in v[0]
                \/ i \in 8 .. 14 /\ i - 8 \in e1
                \/ i \in e2
    <2>1. e1 \subseteq 0 .. 6
      BY <1>11, <1>19
    <2> QED
      BY <2>1, LowerWordBits DEF low
  <1>21. \A i : i \in 8 .. 14 /\ i - 8 \in d1 <=> i \in 8 .. 14 /\ i \in w0
    <2>1. \A i \in 8 .. 14 : i - 8 \in 0 .. 6 /\ 8 + (i - 8) = i
      OBVIOUS
    <2> QED
      BY <1>5, <2>1
  <1>22. \A i : i \in Back(w0, kind) <=>
                \/ i = 29
                \/ i \in 16 .. 27 /\ i \in v[0]
                \/ i \in 8 .. 14 /\ i \in w0
                \/ kind \notin OneByte /\ i \in Struck(w0, kind)
    <2>1. w0 \subseteq (0 .. 6) \union (8 .. 14) \union (16 .. 31)
      BY DEF MidiOne
    <2>2. \A i \in 28 .. 31 : i \in w0 <=> i = 29
      BY DEF MidiOne
    <2>3. \A i \in 20 .. 23 : i \in w0 <=> i - 16 \in Cv2Status[kind]
      BY DEF MidiOne
    <2>4. ASSUME NEW i \in w0 PROVE i \in 0 .. 6 \/ i \in 8 .. 14 \/ i \in 16 .. 27 \/ i = 29
      <3>1. i \in 0 .. 6 \/ i \in 8 .. 14 \/ i \in 16 .. 31
        BY <2>1
      <3>2. i \in 16 .. 31 => i \in 16 .. 27 \/ i \in 28 .. 31
        OBVIOUS
      <3> QED
        BY <2>2, <3>1, <3>2
    <2>5. 29 \in w0
      BY <2>2
    <2>6. CASE ~ Silent(w0, kind)
      <3>1. Back(w0, kind) = w0 /\ k = kind /\ Struck(w0, kind) = d2
        BY <2>6 DEF Back, RaisedKind, Struck, k, d2
      <3>2. \A i \in 16 .. 27 : i \in v[0] <=> i \in w0
        BY <1>7, <2>3, <3>1
      <3>3. kind \in OneByte => \A i \in 0 .. 6 : i \notin w0
        BY DEF MidiOne
      <3>4. \A i : i \in w0 <=> \/ i = 29
                                \/ i \in 16 .. 27 /\ i \in w0
                                \/ i \in 8 .. 14 /\ i \in w0
                                \/ i \in 0 .. 6 /\ i \in w0
        BY <2>4, <2>5
      <3> QED
        BY <1>5, <3>1, <3>2, <3>3, <3>4
    <2>7. CASE Silent(w0, kind)
      <3>1. Back(w0, kind) = (w0 \ {20}) \union {6} /\ k = "note_off" /\ kind = "note_on"
            /\ Struck(w0, kind) = {6} /\ d2 = {} /\ kind \notin OneByte
        BY <2>7 DEF Back, RaisedKind, Struck, k, d2, Silent, OneByte
      <3>2. \A i \in 20 .. 23 : /\ i - 16 \in Cv2Status["note_off"] <=> i = 23
                                /\ i - 16 \in Cv2Status["note_on"] <=> i = 20 \/ i = 23
        BY DEF Cv2Status
      <3>3. \A i \in 16 .. 27 : i \in v[0] <=> i \in w0 /\ i # 20
        BY <1>7, <2>3, <3>1, <3>2
      <3>4. \A i \in 0 .. 6 : i \notin w0
        BY <1>5, <3>1
      <3>5. \A i : i \in w0 <=> \/ i = 29
                                \/ i \in 16 .. 27 /\ i \in w0
                                \/ i \in 8 .. 14 /\ i \in w0
        BY <2>4, <2>5, <3>4
      <3> QED
        BY <3>1, <3>3, <3>5
    <2> QED
      BY <2>6, <2>7
  <1>23. low = Back(w0, kind)
    <2>1. \A i : i \in low <=> i \in Back(w0, kind)
      BY <1>19, <1>20, <1>21, <1>22
    <2> QED
      BY <2>1
  <1> QED
    BY <1>2, <1>8, <1>23

-----------------------------------------------------------------------------
(* A MIDI 1.0 message as a USB-MIDI 1.0 event and back: the same word.     *)
LEMMA CableBits ==
  ASSUME NEW m
  PROVE  /\ \A i \in 8 .. 15  : i \in CableEvent(m) <=> i + 8 \in Build(m)[0]
         /\ \A i \in 16 .. 23 : i \in CableEvent(m) <=> i - 8 \in Build(m)[0]
         /\ \A i \in 24 .. 31 : i \in CableEvent(m) <=> i - 24 \in Build(m)[0]
  <1> DEFINE w == Build(m)[0]
             p0 == Take(w, 20, 4)
             p1 == Put(Take(w, 24, 4), 4)
             p2 == Put(Take(w, 16, 8), 8)
             p3 == Put(Take(w, 8, 8), 16)
             p4 == Put(Take(w, 0, 8), 24)
  <1>1. CableEvent(m) = p0 \union p1 \union p2 \union p3 \union p4
    BY DEF CableEvent
  <1> HIDE DEF w
  <1>2. \A i : i \in p0 <=> i \in 0 .. 3 /\ i + 20 \in w
    <2>1. \A i : i \in p0 <=> i \in 0 .. 4 - 1 /\ 20 + i \in w
      BY TakeBits
    <2>2. \A i \in 0 .. 3 : 20 + i = i + 20
      OBVIOUS
    <2> QED
      BY <2>1, <2>2
  <1>3. \A i : i \in p1 <=> i \in 4 .. 7 /\ i + 20 \in w
    <2>1. \A i : i \in p1 <=> i \in 4 .. 4 + 4 - 1 /\ 24 + (i - 4) \in w
      BY PutTakeBits
    <2>2. \A i \in 4 .. 7 : 24 + (i - 4) = i + 20
      OBVIOUS
    <2> QED
      BY <2>1, <2>2
  <1>4. \A i : i \in p2 <=> i \in 8 .. 15 /\ i + 8 \in w
    <2>1. \A i : i \in p2 <=> i \in 8 .. 8 + 8 - 1 /\ 16 + (i - 8) \in w
      BY PutTakeBits
    <2>2. \A i \in 8 .. 15 : 16 + (i - 8) = i + 8
      OBVIOUS
    <2> QED
      BY <2>1, <2>2
  <1>5. \A i : i \in p3 <=> i \in 16 .. 23 /\ i - 8 \in w
    <2>1. \A i : i \in p3 <=> i \in 16 .. 16 + 8 - 1 /\ 8 + (i - 16) \in w
      BY PutTakeBits
    <2>2. \A i \in 16 .. 23 : 8 + (i - 16) = i - 8
      OBVIOUS
    <2> QED
      BY <2>1, <2>2
  <1>6. \A i : i \in p4 <=> i \in 24 .. 31 /\ i - 24 \in w
    <2>1. \A i : i \in p4 <=> i \in 24 .. 24 + 8 - 1 /\ 0 + (i - 24) \in w
      BY PutTakeBits
    <2>2. \A i \in 24 .. 31 : 0 + (i - 24) = i - 24
      OBVIOUS
    <2> QED
      BY <2>1, <2>2
  <1> HIDE DEF p0, p1, p2, p3, p4
  <1>7. \A i : i \in CableEvent(m) <=>
           \/ i \in 0 .. 3 /\ i + 20 \in w
           \/ i \in 4 .. 7 /\ i + 20 \in w
           \/ i \in 8 .. 15 /\ i + 8 \in w
           \/ i \in 16 .. 23 /\ i - 8 \in w
           \/ i \in 24 .. 31 /\ i - 24 \in w
    BY <1>1, <1>2, <1>3, <1>4, <1>5, <1>6
  <1> DEFINE e == CableEvent(m)
  <1> HIDE DEF e
  <1>8. ASSUME NEW i \in 8 .. 15 PROVE i \in e <=> i + 8 \in w
    <2>1. i \notin 0 .. 3 /\ i \notin 4 .. 7 /\ i \notin 16 .. 23 /\ i \notin 24 .. 31
      OBVIOUS
    <2> QED
      BY <1>7, <2>1 DEF e
  <1>9. ASSUME NEW i \in 16 .. 23 PROVE i \in e <=> i - 8 \in w
    <2>1. i \notin 0 .. 3 /\ i \notin 4 .. 7 /\ i \notin 8 .. 15 /\ i \notin 24 .. 31
      OBVIOUS
    <2> QED
      BY <1>7, <2>1 DEF e
  <1>10. ASSUME NEW i \in 24 .. 31 PROVE i \in e <=> i - 24 \in w
    <2>1. i \notin 0 .. 3 /\ i \notin 4 .. 7 /\ i \notin 8 .. 15 /\ i \notin 16 .. 23
      OBVIOUS
    <2> QED
      BY <1>7, <2>1 DEF e
  <1> QED
    BY <1>8, <1>9, <1>10 DEF w, e

(* The word that a USB event becomes is the word the message was built as. *)
LEMMA CableWord ==
  ASSUME NEW m, m.data \in Seq(Bytes8), m.kind \in DOMAIN from_midi1,
         NEW w \in cable_event_to_ump(CableEvent(m), m.args.group)
  PROVE  [NoWords EXCEPT ![0] = w] = Build(m)
  <1> DEFINE e == CableEvent(m)
             g == m.args["group"]
             b == Build(m)
  <1>1. w = MT(2) \union Put(g \intersect 0 .. 3, 24) \union Put(Take(e, 8, 8), 16)
            \union Put(Take(e, 16, 7), 8) \union Take(e, 24, 7)
    BY DEF cable_event_to_ump
  <1>2. /\ \A i \in 8 .. 15  : i \in e <=> i + 8 \in b[0]
        /\ \A i \in 16 .. 23 : i \in e <=> i - 8 \in b[0]
        /\ \A i \in 24 .. 31 : i \in e <=> i - 24 \in b[0]
    BY CableBits
  <1>3. /\ IsFour(b) /\ \A k \in 1 .. 3 : b[k] = {}
        /\ \A i : i \in b[0] <=> MidiOneBit(m, i)
    BY Cv1Words
  <1> HIDE DEF e, b, g
  <1>4. \A i : i \in MT(2) <=> i = 29
    <2>1. {1} \subseteq Int /\ \A i : i \in Int /\ i - 28 \in {1} <=> i = 29
      OBVIOUS
    <2> QED
      BY <2>1, PutBits, StatusBits DEF MT
  <1>5. \A i : i \in Put(g \intersect 0 .. 3, 24) <=> i \in 24 .. 27 /\ i - 24 \in g
    <2> DEFINE x == g \intersect 0 .. 3
    <2>1. x \subseteq Int /\ 24 \in Int
      OBVIOUS
    <2>2. \A i : i \in Int /\ i - 24 \in x <=> i \in 24 .. 27 /\ i - 24 \in g
      OBVIOUS
    <2> HIDE DEF x
    <2>3. \A i : i \in Put(x, 24) <=> i \in Int /\ i - 24 \in x
      BY <2>1, PutBits, Zenon
    <2>4. \A i : i \in Put(x, 24) <=> i \in 24 .. 27 /\ i - 24 \in g
      BY <2>2, <2>3, Zenon
    <2> QED
      BY <2>4 DEF x
  <1>6. \A i : i \in Put(Take(e, 8, 8), 16) <=> i \in 16 .. 23 /\ i \in b[0]
    <2>1. \A i : i \in Put(Take(e, 8, 8), 16) <=> i \in 16 .. 16 + 8 - 1 /\ 8 + (i - 16) \in e
      BY PutTakeBits
    <2>2. \A i \in 16 .. 23 : 8 + (i - 16) \in 8 .. 15 /\ (8 + (i - 16)) + 8 = i
      OBVIOUS
    <2>3. \A j \in 8 .. 15 : j \in e <=> j + 8 \in b[0]
      BY <1>2
    <2>4. ASSUME NEW i \in 16 .. 23 PROVE 8 + (i - 16) \in e <=> i \in b[0]
      BY <2>2, <2>3
    <2>5. 16 .. 16 + 8 - 1 = 16 .. 23
      OBVIOUS
    <2> QED
      BY <2>1, <2>4, <2>5, Zenon
  <1>7. \A i : i \in Put(Take(e, 16, 7), 8) <=> i \in 8 .. 14 /\ i \in b[0]
    <2>1. \A i : i \in Put(Take(e, 16, 7), 8) <=> i \in 8 .. 8 + 7 - 1 /\ 16 + (i - 8) \in e
      BY PutTakeBits
    <2>2. \A i \in 8 .. 14 : 16 + (i - 8) \in 16 .. 23 /\ (16 + (i - 8)) - 8 = i
      OBVIOUS
    <2>3. \A j \in 16 .. 23 : j \in e <=> j - 8 \in b[0]
      BY <1>2
    <2>4. ASSUME NEW i \in 8 .. 14 PROVE 16 + (i - 8) \in e <=> i \in b[0]
      BY <2>2, <2>3
    <2>5. 8 .. 8 + 7 - 1 = 8 .. 14
      OBVIOUS
    <2> QED
      BY <2>1, <2>4, <2>5, Zenon
  <1>8. \A i : i \in Take(e, 24, 7) <=> i \in 0 .. 6 /\ i \in b[0]
    <2>1. \A i : i \in Take(e, 24, 7) <=> i \in 0 .. 7 - 1 /\ 24 + i \in e
      BY TakeBits
    <2>2. \A i \in 0 .. 6 : 24 + i \in 24 .. 31 /\ (24 + i) - 24 = i
      OBVIOUS
    <2>3. \A j \in 24 .. 31 : j \in e <=> j - 24 \in b[0]
      BY <1>2
    <2> QED
      BY <2>1, <2>2, <2>3
  <1>9. \A i : i \in w <=> \/ i = 29
                           \/ i \in 24 .. 27 /\ i - 24 \in g
                           \/ i \in 16 .. 23 /\ i \in b[0]
                           \/ i \in 8 .. 14 /\ i \in b[0]
                           \/ i \in 0 .. 6 /\ i \in b[0]
    <2>1. \A i : i \in w <=> \/ i \in MT(2)
                             \/ i \in Put(g \intersect 0 .. 3, 24)
                             \/ i \in Put(Take(e, 8, 8), 16)
                             \/ i \in Put(Take(e, 16, 7), 8)
                             \/ i \in Take(e, 24, 7)
      BY <1>1
    <2> QED
      BY <1>4, <1>5, <1>6, <1>7, <1>8, <2>1, Zenon
  <1>10. ASSUME NEW i
         PROVE  i \in b[0] <=> \/ i = 29
                               \/ i \in 24 .. 27 /\ i - 24 \in g
                               \/ i \in 16 .. 23 /\ i \in b[0]
                               \/ i \in 8 .. 14 /\ i \in b[0]
                               \/ i \in 0 .. 6 /\ i \in b[0]
    <2>1. i \in b[0] <=> MidiOneBit(m, i)
      BY <1>3
    <2>2. ASSUME i \in b[0]
          PROVE  i = 29 \/ (i \in 24 .. 27 /\ i - 24 \in g) \/ i \in 16 .. 23 \/ i \in 8 .. 14 \/ i \in 0 .. 6
      <3>1. (i \in 20 .. 23 => i \in 16 .. 23) /\ (i \in 16 .. 19 => i \in 16 .. 23)
        OBVIOUS
      <3>2. MidiOneBit(m, i)
        BY <2>1, <2>2
      <3> QED
        BY <3>1, <3>2 DEF MidiOneBit, g
    <2>3. ASSUME i = 29 \/ (i \in 24 .. 27 /\ i - 24 \in g) PROVE i \in b[0]
      BY <2>1, <2>3 DEF MidiOneBit, g
    <2> QED
      BY <2>2, <2>3
  <1>11. w = b[0]
    <2>1. \A i : i \in w <=> i \in b[0]
      BY <1>9, <1>10, Zenon
    <2> QED
      BY <2>1
  <1>12. b = [i \in 0 .. 3 |-> IF i = 0 THEN w ELSE {}]
    <2>1. \A i \in 0 .. 3 : i = 0 \/ i \in 1 .. 3
      OBVIOUS
    <2> QED
      BY <1>3, <1>11, <2>1 DEF IsFour
  <1>13. [NoWords EXCEPT ![0] = w] = [i \in 0 .. 3 |-> IF i = 0 THEN w ELSE {}]
    BY DEF NoWords
  <1> QED
    BY <1>12, <1>13 DEF b

-----------------------------------------------------------------------------
(* A built message stays what its builder made until something is done to  *)
(* it, and translated down it is what mt4_to_mt2 makes of that.            *)
OnItsWay ==
  /\ path = "wire" /\ sent.kind \in UmpKinds => sent \in Messages /\ words = Build(sent)
  /\ path = "lowered" /\ sent.kind \in UmpKinds =>
       sent \in Messages /\ \E w \in mt4_to_mt2(Build(sent)) : words = [NoWords EXCEPT ![0] = w]

(* A raw packet is of no kind that a builder makes.                        *)
LEMMA RawIsNoKind == "raw" \notin UmpKinds
  <1>1. \A t \in Tables : "raw" \notin DOMAIN t
    BY Domains DEF Tables
  <1> QED
    BY <1>1, LayoutOf

(* Every step of the codec preserves it.                                   *)
LEMMA OnItsWayInductive ==
  /\ UmpInit => OnItsWay
  /\ OnItsWay /\ [UmpNext]_(umpVars) => OnItsWay'
  <1>1. UmpInit => OnItsWay
    BY DEF UmpInit, OnItsWay
  <1>2. ASSUME OnItsWay, [UmpNext]_(umpVars) PROVE OnItsWay'
    <2>1. CASE UNCHANGED umpVars
      BY <1>2, <2>1 DEF OnItsWay, umpVars
    <2>2. ASSUME NEW m \in Messages, SendBuilt(m) PROVE OnItsWay'
      <3>1. path' = "wire" /\ sent' = m /\ words' = Build(m)
        BY <2>2 DEF SendBuilt, OnWire
      <3> QED
        BY <3>1 DEF OnItsWay
    <2>3. ASSUME NEW m \in Messages, SendCable(m) PROVE OnItsWay'
      <3>1. PICK w \in cable_event_to_ump(CableEvent(m), m.args.group) :
              words' = [NoWords EXCEPT ![0] = w]
        BY <2>3 DEF SendCable
      <3>2. m.kind \in DOMAIN from_midi1 /\ m.data \in Seq(Bytes8)
        BY <2>3, UmpAssumption DEF SendCable, UmpAssumption, Bytes8
      <3>3. words' = Build(m)
        BY <3>1, <3>2, CableWord
      <3>4. path' = "wire" /\ sent' = m
        BY <2>3 DEF SendCable, OnWire
      <3> QED
        BY <3>3, <3>4 DEF OnItsWay
    <2>4. ASSUME NEW w \in RawWords, SendRaw(w) PROVE OnItsWay'
      <3>1. path' = "wire" /\ sent'.kind = "raw"
        BY <2>4 DEF SendRaw, OnWire, Raw
      <3> QED
        BY <3>1, RawIsNoKind DEF OnItsWay
    <2>10. ASSUME NEW e, NEW g, SendCommon(e, g) PROVE OnItsWay'
      <3>1. path' = "wire" /\ sent'.kind = "raw"
        BY <2>10 DEF SendCommon, OnWire, Raw
      <3> QED
        BY <3>1, RawIsNoKind DEF OnItsWay
    <2>5. ASSUME NEW p, Becomes(p), p \notin {"wire", "lowered"} PROVE OnItsWay'
      BY <2>5 DEF Becomes, OnItsWay
    <2>6. ASSUME NEW g \in NewGroups, SetGroup(g) \/ RemapGroup(g) PROVE OnItsWay'
      BY <2>5, <2>6 DEF SetGroup, RemapGroup
    <2>7. ASSUME NEW n \in 1 .. 3, Cut(n) PROVE OnItsWay'
      BY <2>5, <2>7 DEF Cut
    <2>8. CASE Lower
      <3>1. path = "wire" /\ path' = "lowered" /\ sent' = sent
            /\ \E w \in mt4_to_mt2(words) : words' = [NoWords EXCEPT ![0] = w]
        BY <2>8 DEF Lower, Becomes
      <3> QED
        BY <1>2, <3>1 DEF OnItsWay
    <2>9. CASE FeedWords
      <3>1. path' = path /\ words' = words /\ sent' = sent
        BY <2>9 DEF FeedWords
      <3> QED
        BY <1>2, <3>1 DEF OnItsWay
    <2> QED
      BY <1>2, <2>1, <2>2, <2>3, <2>4, <2>6, <2>7, <2>8, <2>9, <2>10 DEF UmpNext
  <1> QED
    BY <1>1, <1>2

(* The MIDI 2.0 message of each MIDI 1.0 one, by its status.               *)
TwoOf == [
  cv1_note_off |-> "note_off", cv1_note_on |-> "note_on", cv1_poly_pressure |-> "poly_pressure",
  cv1_cc |-> "cc", cv1_program |-> "program", cv1_chan_pressure |-> "chan_pressure",
  cv1_pitch_bend |-> "pitch_bend"]

(* A built MIDI 1.0 message is one that the translation raises.            *)
LEMMA BuiltMidiOne ==
  ASSUME NEW m, m.data \in Seq(Bytes8), m.kind \in DOMAIN from_midi1
  PROVE  TwoOf[m.kind] \in Cv2Kinds /\ MidiOne(Build(m)[0], TwoOf[m.kind])
  <1> DEFINE w == Build(m)[0]
             k == TwoOf[m.kind]
  <1>1. /\ k \in Cv2Kinds /\ Cv2Status[k] = Cv1Status[m.kind] /\ (k \in OneByte <=> m.kind \in OneData)
        /\ Cv1Status[m.kind] \subseteq 4 .. 7
    <2> DEFINE names == {"cv1_note_off", "cv1_note_on", "cv1_poly_pressure", "cv1_cc", "cv1_program",
                         "cv1_chan_pressure", "cv1_pitch_bend"}
    <2>1. m.kind \in names
      BY Domains
    <2>2. \A n \in names : Cv2Status[TwoOf[n]] = Cv1Status[n] /\ Cv1Status[n] \subseteq 4 .. 7
      <3>1. /\ TwoOf["cv1_note_off"] = "note_off"
            /\ TwoOf["cv1_note_on"] = "note_on"
            /\ TwoOf["cv1_poly_pressure"] = "poly_pressure"
            /\ TwoOf["cv1_cc"] = "cc"
            /\ TwoOf["cv1_program"] = "program"
            /\ TwoOf["cv1_chan_pressure"] = "chan_pressure"
            /\ TwoOf["cv1_pitch_bend"] = "pitch_bend"
        BY DEF TwoOf
      <3>2. /\ Cv2Status["note_off"] = {7}
            /\ Cv2Status["note_on"] = {4, 7}
            /\ Cv2Status["poly_pressure"] = {5, 7}
            /\ Cv2Status["cc"] = {4, 5, 7}
            /\ Cv2Status["program"] = {6, 7}
            /\ Cv2Status["chan_pressure"] = {4, 6, 7}
            /\ Cv2Status["pitch_bend"] = {5, 6, 7}
        BY DEF Cv2Status
      <3>3. /\ Cv1Status["cv1_note_off"] = {7}
            /\ Cv1Status["cv1_note_on"] = {4, 7}
            /\ Cv1Status["cv1_poly_pressure"] = {5, 7}
            /\ Cv1Status["cv1_cc"] = {4, 5, 7}
            /\ Cv1Status["cv1_program"] = {6, 7}
            /\ Cv1Status["cv1_chan_pressure"] = {4, 6, 7}
            /\ Cv1Status["cv1_pitch_bend"] = {5, 6, 7}
        BY DEF Cv1Status
      <3>4. \A n \in names : Cv2Status[TwoOf[n]] = Cv1Status[n]
        <4> HIDE DEF names
        <4>1. ASSUME NEW n \in names PROVE Cv2Status[TwoOf[n]] = Cv1Status[n]
          <5>1. \/ n = "cv1_note_off" \/ n = "cv1_note_on" \/ n = "cv1_poly_pressure" \/ n = "cv1_cc"
                \/ n = "cv1_program" \/ n = "cv1_chan_pressure" \/ n = "cv1_pitch_bend"
            BY DEF names
          <5>2. CASE n \in {"cv1_note_off", "cv1_note_on", "cv1_poly_pressure", "cv1_cc"}
            BY <3>1, <3>2, <3>3, <5>2
          <5>3. CASE n \in {"cv1_program", "cv1_chan_pressure", "cv1_pitch_bend"}
            BY <3>1, <3>2, <3>3, <5>3
          <5> QED
            BY <5>1, <5>2, <5>3, Zenon
        <4> QED
          BY <4>1
      <3>5. \A n \in names : Cv1Status[n] \subseteq 4 .. 7
        BY <3>3
      <3> QED
        BY <3>4, <3>5
    <2>3. \A n \in names : TwoOf[n] \in Cv2Kinds
      BY DEF TwoOf, Cv2Kinds, Cv2Status
    <2>4. \A n \in names : TwoOf[n] \in OneByte <=> n \in OneData
      BY DEF TwoOf, OneByte, OneData
    <2> QED
      BY <2>1, <2>2, <2>3, <2>4
  <1>2. \A i : i \in w <=> MidiOneBit(m, i)
    BY Cv1Words
  <1> HIDE DEF w, k
  <1>3. ASSUME NEW i \in 28 .. 31 PROVE i \in w <=> i = 29
    <2>1. i \notin 24 .. 27 /\ i \notin 20 .. 23 /\ i \notin 16 .. 19 /\ i \notin 8 .. 14 /\ i \notin 0 .. 6
      OBVIOUS
    <2> QED
      BY <1>2, <2>1 DEF MidiOneBit
  <1>4. ASSUME NEW i \in 20 .. 23 PROVE i \in w <=> i - 16 \in Cv2Status[k]
    <2>1. i # 29 /\ i \notin 24 .. 27 /\ i \notin 16 .. 19 /\ i \notin 8 .. 14 /\ i \notin 0 .. 6
      OBVIOUS
    <2>2. MidiOneBit(m, i) <=> i - 16 \in Cv1Status[m.kind]
      BY <2>1 DEF MidiOneBit
    <2> QED
      BY <1>1, <1>2, <2>2
  <1>5. ASSUME NEW i \in w PROVE i \in (0 .. 6) \union (8 .. 14) \union (16 .. 31)
    BY <1>2 DEF MidiOneBit
  <1>6. ASSUME k \in OneByte, NEW i \in 0 .. 6 PROVE i \notin w
    <2>1. i # 29 /\ i \notin 24 .. 27 /\ i \notin 20 .. 23 /\ i \notin 16 .. 19 /\ i \notin 8 .. 14
      OBVIOUS
    <2> QED
      BY <1>1, <1>2, <1>6, <2>1 DEF MidiOneBit
  <1>7. k \in Cv2Kinds /\ MidiOne(w, k)
    BY <1>1, <1>3, <1>4, <1>5, <1>6 DEF MidiOne
  <1> QED
    BY <1>7 DEF w, k

(* A MIDI 1.0 message comes back the same from MIDI 2.0 and back: scaling  *)
(* down undoes scaling up for every value, and only a Note On of velocity  *)
(* 0 changes, into the Note Off of velocity 64 that it means.              *)
THEOREM MidiOneComesBack ==
  UmpSpec => []TranslationRoundTrip
  <1>1. OnItsWay => TranslationRoundTrip
    <2> SUFFICES ASSUME OnItsWay, path = "wire", sent.kind \in DOMAIN from_midi1
                 PROVE  TranslationRoundTrip
      BY DEF TranslationRoundTrip
    <2> DEFINE kind == TwoOf[sent.kind]
               silent == sent.kind = "cv1_note_on" /\ Take(words[0], 0, 7) = {}
    <2>1. sent.kind \in UmpKinds
      BY LayoutOf DEF Tables
    <2>2. sent \in Messages /\ words = Build(sent)
      BY <2>1 DEF OnItsWay
    <2>3. sent.data \in Seq(Bytes8)
      BY <2>2, UmpAssumption DEF UmpAssumption, Bytes8
    <2>4. kind \in Cv2Kinds /\ MidiOne(words[0], kind)
      BY <2>2, <2>3, BuiltMidiOne
    <2>5. kind = "note_on" <=> sent.kind = "cv1_note_on"
      BY Domains DEF TwoOf
    <2>6. Back(words[0], kind) = IF silent THEN (words[0] \ {20}) \union {6} ELSE words[0]
      BY <2>5 DEF Back, Silent
    <2> HIDE DEF kind
    <2>7. \E v \in mt2_to_mt4(words[0]) : mt4_to_mt2(v) = {Back(words[0], kind)}
      <3> DEFINE w0 == words[0]
      <3>1. MidiOne(w0, kind)
        BY <2>4
      <3> HIDE DEF w0
      <3>2. \E v \in mt2_to_mt4(w0) : mt4_to_mt2(v) = {Back(w0, kind)}
        BY <2>4, <3>1, RoundTrip
      <3> QED
        BY <3>2 DEF w0
    <2> QED
      BY <2>6, <2>7 DEF TranslationRoundTrip
  <1>2. (UmpInit => OnItsWay) /\ (OnItsWay /\ [UmpNext]_(umpVars) => OnItsWay')
    BY OnItsWayInductive
  <1> QED
    BY <1>1, <1>2, PTL DEF UmpSpec

-----------------------------------------------------------------------------
(* The type nibble of every message: no argument, count or byte reaches    *)
(* it, so that it is what the builder's header says.                       *)
BelowType(f) == f.from \in Nat /\ f.width \in Nat /\ f.lo \in Nat /\ (f.word = 0 => f.lo + f.width <= 28)
AllBelow(fields) == \A f \in fields : BelowType(f)
HeadOf(const, n) == \A i \in 28 .. 31 : i \in const <=> i - 28 \in Bits(n)
Typed(L, n) ==
  /\ AllBelow(L.fields)
  /\ L.room \in 0 .. 14 /\ (L.room # 0 => L.at \in 16 .. 32)
  /\ HeadOf(L.const, n)

(* A field that ends below bit 28 of the first word stays out of the type  *)
(* nibble.                                                                 *)
LEMMA PieceBelow ==
  /\ \A arg, w : \A from, k, lo \in Nat : (w = 0 => lo + k <= 28) => BelowType(Piece(arg, from, k, w, lo))
  /\ \A arg, w : \A k, lo \in Nat : (w = 0 => lo + k <= 28) => BelowType(F(arg, k, w, lo))
  BY DEF BelowType, F, Piece

(* Bits of small numbers are low.                                          *)
StatusBytes == 0 .. 255
(* A half byte has bits 0 to 3 only, a status 0 to 7.                      *)
LEMMA LowBits ==
  /\ \A n \in 0 .. 15   : Bits(n) \subseteq 0 .. 3
  /\ \A n \in StatusBytes : Bits(n) \subseteq 0 .. 7
  <1> DEFINE P(i) == Powers[i + 1]
  <1>1. \A i \in 4 .. 15 : P(i) \in Nat /\ P(i) >= 16
    BY DEF Powers
  <1>2. \A i \in 8 .. 15 : P(i) \in Nat /\ P(i) >= 256
    BY DEF Powers
  <1> HIDE DEF P
  <1>3. \A n \in Nat : \A d \in Nat : n < d => n \div d = 0
    OBVIOUS
  <1>4. \A n \in Nat : Bits(n) = {i \in 0 .. 15 : (n \div P(i)) % 2 = 1}
    BY BitsByPowers DEF P
  <1>5. ASSUME NEW n \in 0 .. 15, NEW i \in Bits(n) PROVE i \in 0 .. 3
    <2>1. i \in 0 .. 15 /\ (n \div P(i)) % 2 = 1
      <3>1. n \in Nat
        OBVIOUS
      <3> QED
        BY <1>4, <3>1
    <2>2. CASE i \in 4 .. 15
      <3>1. n \in Nat /\ P(i) \in Nat /\ n < P(i)
        BY <1>1, <2>2
      <3>2. n \div P(i) = 0
        BY <1>3, <3>1
      <3>3. 0 % 2 = 0
        OBVIOUS
      <3> QED
        BY <2>1, <3>2, <3>3
    <2> QED
      BY <2>1, <2>2
  <1>6. ASSUME NEW n \in StatusBytes, NEW i \in Bits(n) PROVE i \in 0 .. 7
    <2>1. i \in 0 .. 15 /\ (n \div P(i)) % 2 = 1
      <3>1. n \in Nat
        BY DEF StatusBytes
      <3> QED
        BY <1>4, <3>1
    <2>2. CASE i \in 8 .. 15
      <3>1. n \in Nat /\ P(i) \in Nat /\ n < P(i)
        BY <1>2, <2>2 DEF StatusBytes
      <3>2. n \div P(i) = 0
        BY <1>3, <3>1
      <3>3. 0 % 2 = 0
        OBVIOUS
      <3> QED
        BY <2>1, <3>2, <3>3
    <2> QED
      BY <2>1, <2>2
  <1> QED
    BY <1>5, <1>6, Zenon

(* Numbers below 2^16 have no other bits.                                  *)
LEMMA BitsBelow16 == \A n : Bits(n) \subseteq 0 .. 15
  BY DEF Bits

(* A header: a type, and constant bits below it.                           *)
LEMMA HeadType ==
  ASSUME NEW n \in 0 .. 15, NEW rest, \A i \in 28 .. 31 : i \notin rest
  PROVE  HeadOf(MT(n) \union rest, n)
  <1>1. \A i : i \in MT(n) <=> i \in Int /\ i - 28 \in Bits(n)
    <2>1. Bits(n) \subseteq Int /\ 28 \in Int
      BY BitsBelow16
    <2>2. \A i : i \in Put(Bits(n), 28) <=> i \in Int /\ i - 28 \in Bits(n)
      BY <2>1, PutBits, Zenon
    <2> QED
      BY <2>2 DEF MT
  <1> QED
    BY <1>1 DEF HeadOf

(* A status of one byte at bit 16 stays below the type.                    *)
LEMMA StatusBelow ==
  ASSUME NEW n \in StatusBytes
  PROVE  \A i \in 28 .. 31 : i \notin Put(Bits(n), 16)
  <1>1. Bits(n) \subseteq 0 .. 7
    BY LowBits, Zenon
  <1>2. Bits(n) \subseteq Int /\ 16 \in Int
    BY <1>1
  <1>3. \A i : i \in Put(Bits(n), 16) <=> i \in Int /\ i - 16 \in Bits(n)
    <2> DEFINE x == Bits(n)
    <2>1. x \subseteq Int /\ 16 \in Int
      BY <1>2
    <2> HIDE DEF x
    <2>2. \A i : i \in Put(x, 16) <=> i \in Int /\ i - 16 \in x
      BY <2>1, PutBits, Zenon
    <2> QED
      BY <2>2 DEF x
  <1> QED
    BY <1>1, <1>3

(* A header of a type, with fields that stay out of it, is a layout of     *)
(* that type.                                                              *)
LEMMA MsgTyped ==
  ASSUME NEW calls, NEW mask, NEW n \in 0 .. 15, NEW rest, \A i \in 28 .. 31 : i \notin rest,
         NEW fields, AllBelow(fields), NEW says
  PROVE  Typed(Msg(calls, mask, MT(n) \union rest, fields, says), n)
  <1> DEFINE const == MT(n) \union rest
             L == Msg(calls, mask, const, fields, says)
  <1>1. HeadOf(const, n)
    BY HeadType
  <1> HIDE DEF const
  <1>2. L.fields = fields /\ L.const = const /\ L.room = 0
    BY DEF Msg
  <1> HIDE DEF L
  <1>3. Typed(L, n)
    BY <1>1, <1>2 DEF Typed
  <1> QED
    BY <1>3 DEF L, const

(* A header whose only constant is the type.                               *)
LEMMA BareTyped ==
  ASSUME NEW calls, NEW mask, NEW n \in 0 .. 15, NEW fields, AllBelow(fields), NEW says
  PROVE  Typed(Msg(calls, mask, MT(n), fields, says), n)
  <1>1. MT(n) \union {} = MT(n)
    OBVIOUS
  <1>2. Typed(Msg(calls, mask, MT(n) \union {}, fields, says), n)
    BY MsgTyped
  <1> QED
    BY <1>1, <1>2

(* ... and so it is with bytes that begin below the type nibble.           *)
LEMMA WithBytesTyped ==
  ASSUME NEW calls, NEW mask, NEW const, NEW fields, NEW says, NEW n,
         Typed(Msg(calls, mask, const, fields, says), n),
         NEW at \in 16 .. 32, NEW room \in 0 .. 14, NEW counts
  PROVE  Typed(WithBytes(Msg(calls, mask, const, fields, says), at, room, counts), n)
  <1> DEFINE M == Msg(calls, mask, const, fields, says)
             L == WithBytes(M, at, room, counts)
  <1>1. M.fields = fields /\ M.const = const
    BY DEF Msg
  <1>2. L.fields = fields /\ L.const = const /\ L.room = room /\ L.at = at
    BY DEF WithBytes, Msg
  <1>3. AllBelow(fields) /\ HeadOf(const, n)
    BY <1>1 DEF Typed
  <1> HIDE DEF L
  <1>4. Typed(L, n)
    BY <1>2, <1>3 DEF Typed
  <1> QED
    BY <1>4 DEF L

(* The builders of each message type.                                      *)
LEMMA GroupBelow == BelowType(Group) /\ BelowType(Channel) /\ AllBelow(FlexAddress)
  <1>1. BelowType(Group)
    BY PieceBelow DEF Group
  <1>2. BelowType(Channel)
    BY PieceBelow DEF Channel
  <1>3. AllBelow(FlexAddress)
    BY PieceBelow DEF FlexAddress, AllBelow
  <1> QED
    BY <1>1, <1>2, <1>3

(* The builders of channel voice messages make types 2 and 4, whatever     *)
(* status and fields they are given.                                       *)
LEMMA VoiceTyped ==
  ASSUME NEW calls, NEW status \in StatusBytes, NEW fields, AllBelow(fields)
  PROVE  /\ Typed(Cv1(calls, status, fields), 2)
         /\ Typed(build_cv2_w0(calls, status, fields), 4)
  <1> DEFINE all == fields \union {Group, Channel}
             rest == Put(Bits(status), 16)
             mask == MTBits \union 20 .. 23
  <1>1. AllBelow(all) /\ \A i \in 28 .. 31 : i \notin rest
    BY GroupBelow, StatusBelow DEF AllBelow
  <1>2. /\ Cv1(calls, status, fields) = Msg(calls, mask, MT(2) \union rest, all, None)
        /\ build_cv2_w0(calls, status, fields) = Msg(calls, mask, MT(4) \union rest, all, None)
    BY DEF Cv1, build_cv2_w0, Channel
  <1> HIDE DEF all, rest, mask
  <1>3. Typed(Msg(calls, mask, MT(2) \union rest, all, None), 2)
    BY <1>1, MsgTyped
  <1>4. Typed(Msg(calls, mask, MT(4) \union rest, all, None), 4)
    BY <1>1, MsgTyped
  <1> QED
    BY <1>2, <1>3, <1>4

(* Those of system messages make type 1.                                   *)
LEMMA SystemTyped ==
  ASSUME NEW fields, AllBelow(fields)
  PROVE  /\ Typed(AnySystem(fields), 1)
         /\ \A status \in StatusBytes : Typed(System(status, fields), 1)
  <1>1. Typed(AnySystem(fields), 1)
    <2> DEFINE all == fields \union {Group, F("status", 8, 0, 16)}
    <2>1. AllBelow(all)
      BY GroupBelow, PieceBelow DEF AllBelow
    <2>2. AnySystem(fields) = Msg("on_system", MTBits, MT(1), all, None)
      BY DEF AnySystem
    <2> HIDE DEF all
    <2>3. Typed(Msg("on_system", MTBits, MT(1), all, None), 1)
      BY <2>1, BareTyped
    <2> QED
      BY <2>2, <2>3
  <1>2. ASSUME NEW status \in StatusBytes PROVE Typed(System(status, fields), 1)
    <2> DEFINE all == fields \union {Group}
               rest == Put(Bits(status), 16)
               mask == MTBits \union 16 .. 23
               says == [status |-> Bits(status)]
    <2>1. AllBelow(all) /\ \A i \in 28 .. 31 : i \notin rest
      BY GroupBelow, StatusBelow DEF AllBelow
    <2>2. System(status, fields) = Msg("on_system", mask, MT(1) \union rest, all, says)
      BY DEF System
    <2> HIDE DEF all, rest, mask, says
    <2>3. Typed(Msg("on_system", mask, MT(1) \union rest, all, says), 1)
      BY <2>1, MsgTyped
    <2> QED
      BY <2>2, <2>3
  <1> QED
    BY <1>1, <1>2

(* Those of utility messages make type 0.                                  *)
LEMMA UtilityTyped ==
  ASSUME NEW calls, NEW status \in 0 .. 15, NEW fields, AllBelow(fields)
  PROVE  Typed(Utility(calls, status, fields), 0)
  <1> DEFINE rest == Put(Bits(status), 20)
             mask == MTBits \union 20 .. 23
  <1>1. \A i \in 28 .. 31 : i \notin rest
    <2> DEFINE x == Bits(status)
    <2>1. x \subseteq 0 .. 3
      BY LowBits
    <2>2. x \subseteq Int /\ 20 \in Int
      BY <2>1
    <2> HIDE DEF x
    <2>3. \A i : i \in Put(x, 20) <=> i \in Int /\ i - 20 \in x
      BY <2>2, PutBits, Zenon
    <2>4. \A i \in 28 .. 31 : i \notin Put(x, 20)
      BY <2>1, <2>3
    <2> QED
      BY <2>4 DEF x
  <1>2. Utility(calls, status, fields) = Msg(calls, mask, MT(0) \union rest, fields, None)
    BY DEF Utility
  <1> HIDE DEF rest, mask
  <1>3. Typed(Msg(calls, mask, MT(0) \union rest, fields, None), 0)
    BY <1>1, MsgTyped
  <1> QED
    BY <1>2, <1>3

(* Those of Flex Data messages make type 13.                               *)
LEMMA FlexTyped ==
  ASSUME NEW calls, NEW status \in StatusBytes, NEW fields, AllBelow(fields)
  PROVE  /\ Typed(build_flex_w0_full(calls, status, fields), 13)
         /\ Typed(build_flex_w0(calls, status, fields), 13)
  <1> DEFINE all == fields \union {Group}
             rest == Bits(status)
             mask == MTBits \union 0 .. 15
             M == Msg(calls, mask, MT(13) \union rest, all, None)
             L == build_flex_w0(calls, status, fields)
  <1>1. AllBelow(all) /\ \A i \in 28 .. 31 : i \notin rest /\ i \notin rest \union {20}
    BY GroupBelow, BitsBelow16 DEF AllBelow
  <1>2. build_flex_w0_full(calls, status, fields) = M
    BY DEF build_flex_w0_full
  <1>3. L.fields = all /\ L.const = MT(13) \union (rest \union {20}) /\ L.room = 0
    BY <1>2 DEF build_flex_w0, Msg
  <1> HIDE DEF all, rest, mask, L
  <1>4. Typed(M, 13)
    BY <1>1, MsgTyped
  <1>5. HeadOf(MT(13) \union (rest \union {20}), 13)
    <2> DEFINE more == rest \union {20}
    <2>1. \A i \in 28 .. 31 : i \notin more
      BY <1>1
    <2> HIDE DEF more
    <2>2. HeadOf(MT(13) \union more, 13)
      BY <2>1, HeadType
    <2> QED
      BY <2>2 DEF more
  <1>6. Typed(L, 13)
    BY <1>1, <1>3, <1>5 DEF Typed
  <1> QED
    BY <1>2, <1>4, <1>6 DEF L

(* Those of Stream messages make type 15, with text or without.            *)
LEMMA StreamTyped ==
  ASSUME NEW calls, NEW status \in StatusBytes, NEW fields, AllBelow(fields)
  PROVE  /\ Typed(build_stream_w0(calls, status, fields), 15)
         /\ \A args : Typed(Says(build_stream_w0(calls, status, fields), args), 15)
         /\ \A at \in 16 .. 32, room \in 0 .. 14 : \A counts :
              Typed(WithBytes(build_stream_w0(calls, status, fields), at, room, counts), 15)
         /\ \A args : \A at \in 16 .. 32, room \in 0 .. 14 : \A counts :
              Typed(WithBytes(Says(build_stream_w0(calls, status, fields), args), at, room, counts), 15)
  <1> DEFINE rest == Put(Bits(status), 16)
             mask == MTBits \union 16 .. 25
             M == build_stream_w0(calls, status, fields)
  <1>1. \A i \in 28 .. 31 : i \notin rest
    BY StatusBelow
  <1>2. M = Msg(calls, mask, MT(15) \union rest, fields, None)
    BY DEF build_stream_w0
  <1>0. M = [M EXCEPT !.says = M.says]
    BY <1>2 DEF Msg
  <1> HIDE DEF rest, mask
  <1>3. HeadOf(MT(15) \union rest, 15)
    BY <1>1, HeadType
  <1>4. ASSUME NEW args PROVE Typed(Says(M, args), 15)
    <2> DEFINE L == Says(M, args)
    <2>1. L.fields = fields /\ L.const = MT(15) \union rest /\ L.room = 0
      BY <1>2 DEF Msg, Says
    <2> HIDE DEF L, M
    <2>2. Typed(L, 15)
      BY <1>3, <2>1 DEF Typed
    <2> QED
      BY <2>2 DEF L
  <1>5. ASSUME NEW args, NEW at \in 16 .. 32, NEW room \in 0 .. 14, NEW counts
        PROVE  Typed(WithBytes(Says(M, args), at, room, counts), 15)
    <2> DEFINE L == WithBytes(Says(M, args), at, room, counts)
    <2>1. L.fields = fields /\ L.const = MT(15) \union rest /\ L.room = room /\ L.at = at
      BY <1>2 DEF Msg, Says, WithBytes
    <2> HIDE DEF L, M
    <2>2. Typed(L, 15)
      BY <1>3, <2>1 DEF Typed
    <2> QED
      BY <2>2 DEF L
  <1>6. Typed(M, 15) /\ \A at \in 16 .. 32, room \in 0 .. 14 : \A counts : Typed(WithBytes(M, at, room, counts), 15)
    <2>1. Says(M, M.says) = M
      BY <1>0 DEF Says
    <2> HIDE DEF M
    <2> QED
      BY <1>4, <1>5, <2>1
  <1> QED
    BY <1>4, <1>5, <1>6

(* Every message of a type carries it.                                     *)
LEMMA SystemLayoutsTyped == \A kind \in DOMAIN SystemLayouts : Typed(SystemLayouts[kind], 1)
  <1>1. Typed(SystemLayouts["system"], 1)
    <2> DEFINE fields == {}
    <2>1. AllBelow(fields)
      BY PieceBelow DEF AllBelow
    <2>2. SystemLayouts["system"] = AnySystem(fields)
      BY DEF SystemLayouts
    <2> HIDE DEF fields
    <2> QED
      BY <2>1, <2>2, SystemTyped DEF StatusBytes
  <1>2. Typed(SystemLayouts["system_2byte"], 1)
    <2> DEFINE fields == {Data1(8)}
    <2>1. AllBelow(fields)
      BY PieceBelow DEF AllBelow, Data1
    <2>2. SystemLayouts["system_2byte"] = AnySystem(fields)
      BY DEF SystemLayouts
    <2> HIDE DEF fields
    <2> QED
      BY <2>1, <2>2, SystemTyped DEF StatusBytes
  <1>3. Typed(SystemLayouts["system_3byte"], 1)
    <2> DEFINE fields == {Data1(8), Data2(8)}
    <2>1. AllBelow(fields)
      BY PieceBelow DEF AllBelow, Data1, Data2
    <2>2. SystemLayouts["system_3byte"] = AnySystem(fields)
      BY DEF SystemLayouts
    <2> HIDE DEF fields
    <2> QED
      BY <2>1, <2>2, SystemTyped DEF StatusBytes
  <1>4. Typed(SystemLayouts["system_tune_request"], 1)
    <2> DEFINE fields == {}
    <2>1. AllBelow(fields)
      BY PieceBelow DEF AllBelow
    <2>2. SystemLayouts["system_tune_request"] = System(\hF6, fields)
      BY DEF SystemLayouts
    <2> HIDE DEF fields
    <2> QED
      BY <2>1, <2>2, SystemTyped DEF StatusBytes
  <1>5. Typed(SystemLayouts["system_timing_clock"], 1)
    <2> DEFINE fields == {}
    <2>1. AllBelow(fields)
      BY PieceBelow DEF AllBelow
    <2>2. SystemLayouts["system_timing_clock"] = System(\hF8, fields)
      BY DEF SystemLayouts
    <2> HIDE DEF fields
    <2> QED
      BY <2>1, <2>2, SystemTyped DEF StatusBytes
  <1>6. Typed(SystemLayouts["system_start"], 1)
    <2> DEFINE fields == {}
    <2>1. AllBelow(fields)
      BY PieceBelow DEF AllBelow
    <2>2. SystemLayouts["system_start"] = System(\hFA, fields)
      BY DEF SystemLayouts
    <2> HIDE DEF fields
    <2> QED
      BY <2>1, <2>2, SystemTyped DEF StatusBytes
  <1>7. Typed(SystemLayouts["system_continue"], 1)
    <2> DEFINE fields == {}
    <2>1. AllBelow(fields)
      BY PieceBelow DEF AllBelow
    <2>2. SystemLayouts["system_continue"] = System(\hFB, fields)
      BY DEF SystemLayouts
    <2> HIDE DEF fields
    <2> QED
      BY <2>1, <2>2, SystemTyped DEF StatusBytes
  <1>8. Typed(SystemLayouts["system_stop"], 1)
    <2> DEFINE fields == {}
    <2>1. AllBelow(fields)
      BY PieceBelow DEF AllBelow
    <2>2. SystemLayouts["system_stop"] = System(\hFC, fields)
      BY DEF SystemLayouts
    <2> HIDE DEF fields
    <2> QED
      BY <2>1, <2>2, SystemTyped DEF StatusBytes
  <1>9. Typed(SystemLayouts["system_active_sensing"], 1)
    <2> DEFINE fields == {}
    <2>1. AllBelow(fields)
      BY PieceBelow DEF AllBelow
    <2>2. SystemLayouts["system_active_sensing"] = System(\hFE, fields)
      BY DEF SystemLayouts
    <2> HIDE DEF fields
    <2> QED
      BY <2>1, <2>2, SystemTyped DEF StatusBytes
  <1>10. Typed(SystemLayouts["system_reset"], 1)
    <2> DEFINE fields == {}
    <2>1. AllBelow(fields)
      BY PieceBelow DEF AllBelow
    <2>2. SystemLayouts["system_reset"] = System(\hFF, fields)
      BY DEF SystemLayouts
    <2> HIDE DEF fields
    <2> QED
      BY <2>1, <2>2, SystemTyped DEF StatusBytes
  <1>11. Typed(SystemLayouts["system_mtc"], 1)
    <2> DEFINE fields == {Data1(7)}
    <2>1. AllBelow(fields)
      BY PieceBelow DEF AllBelow, Data1
    <2>2. SystemLayouts["system_mtc"] = System(\hF1, fields)
      BY DEF SystemLayouts
    <2> HIDE DEF fields
    <2> QED
      BY <2>1, <2>2, SystemTyped DEF StatusBytes
  <1>12. Typed(SystemLayouts["system_song_select"], 1)
    <2> DEFINE fields == {Data1(7)}
    <2>1. AllBelow(fields)
      BY PieceBelow DEF AllBelow, Data1
    <2>2. SystemLayouts["system_song_select"] = System(\hF3, fields)
      BY DEF SystemLayouts
    <2> HIDE DEF fields
    <2> QED
      BY <2>1, <2>2, SystemTyped DEF StatusBytes
  <1>13. Typed(SystemLayouts["system_song_position"], 1)
    <2> DEFINE fields == {Piece("position", 0, 7, 0, 8), Piece("position", 7, 7, 0, 0)}
    <2>1. AllBelow(fields)
      BY PieceBelow DEF AllBelow
    <2>2. SystemLayouts["system_song_position"] = System(\hF2, fields)
      BY DEF SystemLayouts
    <2> HIDE DEF fields
    <2> QED
      BY <2>1, <2>2, SystemTyped DEF StatusBytes
  <1> QED
    BY Domains, <1>1, <1>2, <1>3, <1>4, <1>5, <1>6, <1>7, <1>8, <1>9, <1>10, <1>11, <1>12, <1>13

(* The MIDI 1.0 channel voice messages are of type 2.                      *)
LEMMA Frommidi1Typed == \A kind \in DOMAIN from_midi1 : Typed(from_midi1[kind], 2)
  <1>1. Typed(from_midi1["cv1_note_off"], 2)
    <2> DEFINE fields == {Data1(7), Data2(7)}
    <2>1. AllBelow(fields)
      BY PieceBelow DEF AllBelow, Data1, Data2
    <2>2. from_midi1["cv1_note_off"] = Cv1("on_cv1_note_off", \h80, fields)
      BY DEF from_midi1
    <2> HIDE DEF fields
    <2>3. \h80 \in StatusBytes
      BY DEF StatusBytes
    <2> QED
      BY <2>1, <2>2, <2>3, VoiceTyped
  <1>2. Typed(from_midi1["cv1_note_on"], 2)
    <2> DEFINE fields == {Data1(7), Data2(7)}
    <2>1. AllBelow(fields)
      BY PieceBelow DEF AllBelow, Data1, Data2
    <2>2. from_midi1["cv1_note_on"] = Cv1("on_cv1_note_on", \h90, fields)
      BY DEF from_midi1
    <2> HIDE DEF fields
    <2>3. \h90 \in StatusBytes
      BY DEF StatusBytes
    <2> QED
      BY <2>1, <2>2, <2>3, VoiceTyped
  <1>3. Typed(from_midi1["cv1_poly_pressure"], 2)
    <2> DEFINE fields == {Data1(7), Data2(7)}
    <2>1. AllBelow(fields)
      BY PieceBelow DEF AllBelow, Data1, Data2
    <2>2. from_midi1["cv1_poly_pressure"] = Cv1("on_cv1_poly_pressure", \hA0, fields)
      BY DEF from_midi1
    <2> HIDE DEF fields
    <2>3. \hA0 \in StatusBytes
      BY DEF StatusBytes
    <2> QED
      BY <2>1, <2>2, <2>3, VoiceTyped
  <1>4. Typed(from_midi1["cv1_cc"], 2)
    <2> DEFINE fields == {Data1(7), Data2(7)}
    <2>1. AllBelow(fields)
      BY PieceBelow DEF AllBelow, Data1, Data2
    <2>2. from_midi1["cv1_cc"] = Cv1("on_cv1_cc", \hB0, fields)
      BY DEF from_midi1
    <2> HIDE DEF fields
    <2>3. \hB0 \in StatusBytes
      BY DEF StatusBytes
    <2> QED
      BY <2>1, <2>2, <2>3, VoiceTyped
  <1>5. Typed(from_midi1["cv1_program"], 2)
    <2> DEFINE fields == {Data1(7)}
    <2>1. AllBelow(fields)
      BY PieceBelow DEF AllBelow, Data1
    <2>2. from_midi1["cv1_program"] = Cv1("on_cv1_program", \hC0, fields)
      BY DEF from_midi1
    <2> HIDE DEF fields
    <2>3. \hC0 \in StatusBytes
      BY DEF StatusBytes
    <2> QED
      BY <2>1, <2>2, <2>3, VoiceTyped
  <1>6. Typed(from_midi1["cv1_chan_pressure"], 2)
    <2> DEFINE fields == {Data1(7)}
    <2>1. AllBelow(fields)
      BY PieceBelow DEF AllBelow, Data1
    <2>2. from_midi1["cv1_chan_pressure"] = Cv1("on_cv1_chan_pressure", \hD0, fields)
      BY DEF from_midi1
    <2> HIDE DEF fields
    <2>3. \hD0 \in StatusBytes
      BY DEF StatusBytes
    <2> QED
      BY <2>1, <2>2, <2>3, VoiceTyped
  <1>7. Typed(from_midi1["cv1_pitch_bend"], 2)
    <2> DEFINE fields == {Data1(7), Data2(7)}
    <2>1. AllBelow(fields)
      BY PieceBelow DEF AllBelow, Data1, Data2
    <2>2. from_midi1["cv1_pitch_bend"] = Cv1("on_cv1_pitch_bend", \hE0, fields)
      BY DEF from_midi1
    <2> HIDE DEF fields
    <2>3. \hE0 \in StatusBytes
      BY DEF StatusBytes
    <2> QED
      BY <2>1, <2>2, <2>3, VoiceTyped
  <1> QED
    BY Domains, <1>1, <1>2, <1>3, <1>4, <1>5, <1>6, <1>7

(* The utility messages are of type 0.                                     *)
LEMMA UtilityLayoutsTyped == \A kind \in DOMAIN UtilityLayouts : Typed(UtilityLayouts[kind], 0)
  <1>1. Typed(UtilityLayouts["noop"], 0)
    <2> DEFINE fields == {}
    <2>1. AllBelow(fields)
      BY PieceBelow DEF AllBelow
    <2>2. UtilityLayouts["noop"] = Utility("on_noop", 0, fields)
      BY DEF UtilityLayouts
    <2> HIDE DEF fields
    <2> QED
      BY <2>1, <2>2, UtilityTyped DEF StatusBytes
  <1>2. Typed(UtilityLayouts["jr_clock"], 0)
    <2> DEFINE fields == {F("timestamp", 16, 0, 0)}
    <2>1. AllBelow(fields)
      BY PieceBelow DEF AllBelow
    <2>2. UtilityLayouts["jr_clock"] = Utility("on_jr_clock", 1, fields)
      BY DEF UtilityLayouts
    <2> HIDE DEF fields
    <2> QED
      BY <2>1, <2>2, UtilityTyped DEF StatusBytes
  <1>3. Typed(UtilityLayouts["jr_timestamp"], 0)
    <2> DEFINE fields == {F("timestamp", 16, 0, 0)}
    <2>1. AllBelow(fields)
      BY PieceBelow DEF AllBelow
    <2>2. UtilityLayouts["jr_timestamp"] = Utility("on_jr_timestamp", 2, fields)
      BY DEF UtilityLayouts
    <2> HIDE DEF fields
    <2> QED
      BY <2>1, <2>2, UtilityTyped DEF StatusBytes
  <1>4. Typed(UtilityLayouts["dctpq"], 0)
    <2> DEFINE fields == {F("tpq", 16, 0, 0)}
    <2>1. AllBelow(fields)
      BY PieceBelow DEF AllBelow
    <2>2. UtilityLayouts["dctpq"] = Utility("on_dctpq", 3, fields)
      BY DEF UtilityLayouts
    <2> HIDE DEF fields
    <2> QED
      BY <2>1, <2>2, UtilityTyped DEF StatusBytes
  <1>5. Typed(UtilityLayouts["delta_clockstamp"], 0)
    <2> DEFINE fields == {F("ticks", 20, 0, 0)}
    <2>1. AllBelow(fields)
      BY PieceBelow DEF AllBelow
    <2>2. UtilityLayouts["delta_clockstamp"] = Utility("on_dc", 4, fields)
      BY DEF UtilityLayouts
    <2> HIDE DEF fields
    <2> QED
      BY <2>1, <2>2, UtilityTyped DEF StatusBytes
  <1> QED
    BY Domains, <1>1, <1>2, <1>3, <1>4, <1>5

(* The Flex Data setup messages are of type 13.                            *)
LEMMA FlexLayoutsTyped == \A kind \in DOMAIN FlexLayouts : Typed(FlexLayouts[kind], 13)
  <1>1. Typed(FlexLayouts["tempo"], 13)
    <2> DEFINE fields == {F("ten_ns_per_qn", 32, 1, 0)}
    <2>1. AllBelow(fields)
      BY PieceBelow DEF AllBelow
    <2>2. FlexLayouts["tempo"] = build_flex_w0("on_tempo", 0, fields)
      BY DEF FlexLayouts
    <2> HIDE DEF fields
    <2>3. 0 \in StatusBytes
      BY DEF StatusBytes
    <2> QED
      BY <2>1, <2>2, <2>3, FlexTyped
  <1>2. Typed(FlexLayouts["time_sig"], 13)
    <2> DEFINE fields == {F("numerator", 8, 1, 24), F("denominator", 8, 1, 16),
            F("num_32nd_notes", 8, 1, 8)}
    <2>1. AllBelow(fields)
      BY PieceBelow DEF AllBelow
    <2>2. FlexLayouts["time_sig"] = build_flex_w0("on_time_sig", 1, fields)
      BY DEF FlexLayouts
    <2> HIDE DEF fields
    <2>3. 1 \in StatusBytes
      BY DEF StatusBytes
    <2> QED
      BY <2>1, <2>2, <2>3, FlexTyped
  <1>3. Typed(FlexLayouts["key_sig"], 13)
    <2> DEFINE fields == {F("sharps_flats", 4, 1, 28), F("key_type", 1, 1, 22)}
    <2>1. AllBelow(fields)
      BY PieceBelow DEF AllBelow
    <2>2. FlexLayouts["key_sig"] = build_flex_w0("on_key_sig", 5, fields)
      BY DEF FlexLayouts
    <2> HIDE DEF fields
    <2>3. 5 \in StatusBytes
      BY DEF StatusBytes
    <2> QED
      BY <2>1, <2>2, <2>3, FlexTyped
  <1>4. Typed(FlexLayouts["key_sig_full"], 13)
    <2> DEFINE fields == FlexAddress \union {F("sharps_flats", 4, 1, 28), F("tonic", 4, 1, 24),
            F("key_type", 2, 1, 22)}
    <2>1. AllBelow(fields)
      BY PieceBelow, GroupBelow DEF AllBelow
    <2>2. FlexLayouts["key_sig_full"] = build_flex_w0_full("on_key_sig", 5, fields)
      BY DEF FlexLayouts
    <2> HIDE DEF fields
    <2>3. 5 \in StatusBytes
      BY DEF StatusBytes
    <2> QED
      BY <2>1, <2>2, <2>3, FlexTyped
  <1>5. Typed(FlexLayouts["metronome"], 13)
    <2> DEFINE fields == {F("primary_clicks", 8, 1, 24), F("accent_1", 8, 1, 16), F("accent_2",
            8, 1, 8), F("accent_3", 8, 1, 0), F("subdiv_1", 8, 2, 24), F("subdiv_2", 8, 2, 16)}
    <2>1. AllBelow(fields)
      BY PieceBelow DEF AllBelow
    <2>2. FlexLayouts["metronome"] = build_flex_w0("on_metronome", 2, fields)
      BY DEF FlexLayouts
    <2> HIDE DEF fields
    <2>3. 2 \in StatusBytes
      BY DEF StatusBytes
    <2> QED
      BY <2>1, <2>2, <2>3, FlexTyped
  <1> QED
    BY Domains, <1>1, <1>2, <1>3, <1>4, <1>5

(* So is the chord name.                                                   *)
LEMMA ChordLayoutTyped == \A kind \in DOMAIN ChordLayout : Typed(ChordLayout[kind], 13)
  <1>1. Typed(ChordLayout["chord_name"], 13)
    <2> DEFINE fields == FlexAddress \union {F("tonic_sf", 4, 1, 28), F("tonic_note", 4, 1, 24),
            F("chord_type", 8, 1, 16), F("alt1_type", 4, 1, 12), F("alt1_deg", 4, 1, 8),
            F("alt2_type", 4, 1, 4), F("alt2_deg", 4, 1, 0), F("alt3_type", 4, 2, 28),
            F("alt3_deg", 4, 2, 24), F("alt4_type", 4, 2, 20), F("alt4_deg", 4, 2, 16),
            F("bass_sf", 4, 3, 28), F("bass_note", 4, 3, 24), F("bass_type", 8, 3, 16),
            F("bass_alt1_type", 4, 3, 12), F("bass_alt1_deg", 4, 3, 8), F("bass_alt2_type", 4, 3,
            4), F("bass_alt2_deg", 4, 3, 0)}
    <2>1. AllBelow(fields)
      BY PieceBelow, GroupBelow DEF AllBelow
    <2>2. ChordLayout["chord_name"] = build_flex_w0_full("on_chord", 6, fields)
      BY DEF ChordLayout
    <2> HIDE DEF fields
    <2>3. 6 \in StatusBytes
      BY DEF StatusBytes
    <2> QED
      BY <2>1, <2>2, <2>3, FlexTyped
  <1> QED
    BY Domains, <1>1

(* The endpoint messages are of type 15.                                   *)
LEMMA EndpointLayoutsTyped == \A kind \in DOMAIN EndpointLayouts : Typed(EndpointLayouts[kind], 15)
  <1>1. Typed(EndpointLayouts["stream_endpoint_discovery"], 15)
    <2> DEFINE fields == Version \union {F("filter", 8, 1, 0)}
    <2>1. AllBelow(fields)
      BY PieceBelow DEF AllBelow, Version
    <2>2. EndpointLayouts["stream_endpoint_discovery"] = build_stream_w0("on_endpoint_discovery", 0,
            fields)
      BY DEF EndpointLayouts
    <2> HIDE DEF fields
    <2>3. 0 \in StatusBytes
      BY DEF StatusBytes
    <2> QED
      BY <2>1, <2>2, <2>3, StreamTyped
  <1>2. Typed(EndpointLayouts["stream_endpoint_info"], 15)
    <2> DEFINE fields == Version \union {F("static_fb", 1, 1, 31), F("num_fb", 7, 1, 24),
            F("midi2_proto", 1, 1, 9), F("midi1_proto", 1, 1, 8), F("rx_jr", 1, 1, 1),
            F("tx_jr", 1, 1, 0)}
    <2>1. AllBelow(fields)
      BY PieceBelow DEF AllBelow, Version
    <2>2. EndpointLayouts["stream_endpoint_info"] = build_stream_w0("on_endpoint_info", 1, fields)
      BY DEF EndpointLayouts
    <2> HIDE DEF fields
    <2>3. 1 \in StatusBytes
      BY DEF StatusBytes
    <2> QED
      BY <2>1, <2>2, <2>3, StreamTyped
  <1>3. Typed(EndpointLayouts["stream_device_identity"], 15)
    <2> DEFINE fields == Sevens("manufacturer_id", <<<<0, 1, 0>>, <<8, 1, 8>>, <<16, 1, 16>>>>)
            \union Sevens("family_id", <<<<0, 2, 24>>, <<7, 2, 16>>>>) \union Sevens("model_id",
            <<<<0, 2, 8>>, <<7, 2, 0>>>>) \union Sevens("version_id", <<<<24, 3, 24>>, <<16, 3, 16>>,
            <<8, 3, 8>>, <<0, 3, 0>>>>)
    <2>1. AllBelow(fields)
      BY PieceBelow DEF AllBelow, Sevens
    <2>2. EndpointLayouts["stream_device_identity"] = build_stream_w0("on_device_identity", 2, fields)
      BY DEF EndpointLayouts
    <2> HIDE DEF fields
    <2>3. 2 \in StatusBytes
      BY DEF StatusBytes
    <2> QED
      BY <2>1, <2>2, <2>3, StreamTyped
  <1> QED
    BY Domains, <1>1, <1>2, <1>3

(* So are the function block messages.                                     *)
LEMMA BlockLayoutsTyped == \A kind \in DOMAIN BlockLayouts : Typed(BlockLayouts[kind], 15)
  <1>1. Typed(BlockLayouts["stream_config_request"], 15)
    <2> DEFINE fields == Config
    <2>1. AllBelow(fields)
      BY PieceBelow DEF AllBelow, Config
    <2>2. BlockLayouts["stream_config_request"] = build_stream_w0("on_config_request", 5, fields)
      BY DEF BlockLayouts
    <2> HIDE DEF fields
    <2>3. 5 \in StatusBytes
      BY DEF StatusBytes
    <2> QED
      BY <2>1, <2>2, <2>3, StreamTyped
  <1>2. Typed(BlockLayouts["stream_config_notify"], 15)
    <2> DEFINE fields == Config
    <2>1. AllBelow(fields)
      BY PieceBelow DEF AllBelow, Config
    <2>2. BlockLayouts["stream_config_notify"] = build_stream_w0("on_config_notify", 6, fields)
      BY DEF BlockLayouts
    <2> HIDE DEF fields
    <2>3. 6 \in StatusBytes
      BY DEF StatusBytes
    <2> QED
      BY <2>1, <2>2, <2>3, StreamTyped
  <1>3. Typed(BlockLayouts["stream_fb_discovery"], 15)
    <2> DEFINE fields == {F("fb_num", 8, 0, 8), F("filter", 8, 0, 0)}
    <2>1. AllBelow(fields)
      BY PieceBelow DEF AllBelow
    <2>2. BlockLayouts["stream_fb_discovery"] = build_stream_w0("on_fb_discovery", \h10, fields)
      BY DEF BlockLayouts
    <2> HIDE DEF fields
    <2>3. \h10 \in StatusBytes
      BY DEF StatusBytes
    <2> QED
      BY <2>1, <2>2, <2>3, StreamTyped
  <1>4. Typed(BlockLayouts["stream_fb_info"], 15)
    <2> DEFINE fields == {F("active", 1, 0, 15), F("fb_num", 7, 0, 8), F("ui_hint", 2, 0, 4),
            F("direction", 2, 0, 0), F("first_group", 8, 1, 24), F("num_groups", 8, 1, 16),
            F("midi_ci_ver", 8, 1, 8), F("max_sysex8_streams", 8, 1, 0)}
    <2>1. AllBelow(fields)
      BY PieceBelow DEF AllBelow
    <2>2. BlockLayouts["stream_fb_info"] = build_stream_w0("on_fb_info", \h11, fields)
      BY DEF BlockLayouts
    <2> HIDE DEF fields
    <2>3. \h11 \in StatusBytes
      BY DEF StatusBytes
    <2> QED
      BY <2>1, <2>2, <2>3, StreamTyped
  <1> QED
    BY Domains, <1>1, <1>2, <1>3, <1>4

(* So are the names, as text.                                              *)
LEMMA StreamTextLayoutsTyped == \A kind \in DOMAIN StreamTextLayouts : Typed(StreamTextLayouts[kind], 15)
  <1>1. Typed(StreamTextLayouts["stream_endpoint_name"], 15)
    <2> DEFINE fields == {Format}
    <2>1. AllBelow(fields)
      BY PieceBelow DEF AllBelow, Format
    <2>2. StreamTextLayouts["stream_endpoint_name"] =
            WithBytes(Says(build_stream_w0("on_stream_text", 3, fields),
            [status |-> Bits(3)]), 16, 14, "no")
      BY DEF StreamTextLayouts
    <2> HIDE DEF fields
    <2>3. 3 \in StatusBytes /\ 16 \in 16 .. 32 /\ 14 \in 0 .. 14
      BY DEF StatusBytes
    <2> QED
      BY <2>1, <2>2, <2>3, StreamTyped
  <1>2. Typed(StreamTextLayouts["stream_product_id"], 15)
    <2> DEFINE fields == {Format}
    <2>1. AllBelow(fields)
      BY PieceBelow DEF AllBelow, Format
    <2>2. StreamTextLayouts["stream_product_id"] =
            WithBytes(Says(build_stream_w0("on_stream_text", 4, fields),
            [status |-> Bits(4)]), 16, 14, "no")
      BY DEF StreamTextLayouts
    <2> HIDE DEF fields
    <2>3. 4 \in StatusBytes /\ 16 \in 16 .. 32 /\ 14 \in 0 .. 14
      BY DEF StatusBytes
    <2> QED
      BY <2>1, <2>2, <2>3, StreamTyped
  <1>3. Typed(StreamTextLayouts["stream_fb_name"], 15)
    <2> DEFINE fields == {Format, F("fb_num", 8, 0, 8)}
    <2>1. AllBelow(fields)
      BY PieceBelow DEF AllBelow, Format
    <2>2. StreamTextLayouts["stream_fb_name"] = WithBytes(build_stream_w0("on_fb_name", \h12,
            fields), 24, 13, "no")
      BY DEF StreamTextLayouts
    <2> HIDE DEF fields
    <2>3. \h12 \in StatusBytes /\ 24 \in 16 .. 32 /\ 13 \in 0 .. 14
      BY DEF StatusBytes
    <2> QED
      BY <2>1, <2>2, <2>3, StreamTyped
  <1>4. Typed(StreamTextLayouts["stream_start_of_clip"], 15)
    <2> DEFINE fields == {}
    <2>1. AllBelow(fields)
      BY PieceBelow DEF AllBelow
    <2>2. StreamTextLayouts["stream_start_of_clip"] = Says(build_stream_w0("on_clip", \h20,
            fields), [start |-> {0}])
      BY DEF StreamTextLayouts
    <2> HIDE DEF fields
    <2>3. \h20 \in StatusBytes
      BY DEF StatusBytes
    <2> QED
      BY <2>1, <2>2, <2>3, StreamTyped
  <1>5. Typed(StreamTextLayouts["stream_end_of_clip"], 15)
    <2> DEFINE fields == {}
    <2>1. AllBelow(fields)
      BY PieceBelow DEF AllBelow
    <2>2. StreamTextLayouts["stream_end_of_clip"] = build_stream_w0("on_clip", \h21, fields)
      BY DEF StreamTextLayouts
    <2> HIDE DEF fields
    <2>3. \h21 \in StatusBytes
      BY DEF StatusBytes
    <2> QED
      BY <2>1, <2>2, <2>3, StreamTyped
  <1> QED
    BY Domains, <1>1, <1>2, <1>3, <1>4, <1>5

(* Flex Data text is of type 13.                                           *)
LEMMA FlexTextLayoutTyped == \A kind \in DOMAIN FlexTextLayout : Typed(FlexTextLayout[kind], 13)
  <1> DEFINE fields == FlexAddress \union
                         {Group, F("format", 2, 0, 22), F("bank", 8, 0, 8), F("status", 8, 0, 0)}
             M == Msg("on_flex_text", MTBits, MT(13), fields, None)
  <1>1. AllBelow(fields)
    BY PieceBelow, GroupBelow DEF AllBelow
  <1>2. FlexTextLayout["flex_text"] = WithBytes(M, 32, 12, "no")
    BY DEF FlexTextLayout
  <1> HIDE DEF fields
  <1>3. Typed(M, 13)
    BY <1>1, BareTyped
  <1>4. Typed(WithBytes(M, 32, 12, "no"), 13)
    BY <1>3, WithBytesTyped
  <1> QED
    BY <1>2, <1>4, Domains

(* SysEx7 packets are of type 3, SysEx8 and Mixed Data Set ones of type 5. *)
LEMMA Data128Typed ==
  ASSUME NEW calls, NEW mask, NEW const, \A i \in 28 .. 31 : i \notin const, NEW fields, AllBelow(fields)
  PROVE  /\ Typed(Data128(calls, mask, const, fields), 5)
         /\ \A at \in 16 .. 32, room \in 0 .. 14 : \A counts :
              Typed(WithBytes(Data128(calls, mask, const, fields), at, room, counts), 5)
  <1> DEFINE all == fields \union {Group}
             wide == MTBits \union mask
             M == Msg(calls, wide, MT(5) \union const, all, None)
  <1>1. AllBelow(all)
    BY GroupBelow DEF AllBelow
  <1>2. Data128(calls, mask, const, fields) = M
    BY DEF Data128
  <1> HIDE DEF all, wide
  <1>3. Typed(M, 5)
    BY <1>1, MsgTyped
  <1>4. ASSUME NEW at \in 16 .. 32, NEW room \in 0 .. 14, NEW counts
        PROVE  Typed(WithBytes(M, at, room, counts), 5)
    BY <1>3, WithBytesTyped
  <1> QED
    BY <1>2, <1>3, <1>4

(* SysEx7 packets are of type 3, SysEx8 and Mixed Data Set packets of type *)
(* 5.                                                                      *)
LEMMA DataLayoutsTyped ==
  \A kind \in DOMAIN DataLayouts :
    Typed(DataLayouts[kind], IF kind = "sysex7_packet" THEN 3 ELSE 5)
  <1>1. Typed(DataLayouts["sysex7_packet"], 3)
    <2> DEFINE fields == {Group, Status}
               M == Msg("on_sysex7", MTBits, MT(3), fields, None)
    <2>1. AllBelow(fields)
      BY PieceBelow, GroupBelow DEF AllBelow, Status
    <2>2. DataLayouts["sysex7_packet"] = WithBytes(M, 16, 6, "bytes")
      BY DEF DataLayouts
    <2> HIDE DEF fields
    <2>3. Typed(M, 3)
      BY <2>1, BareTyped
    <2>4. Typed(WithBytes(M, 16, 6, "bytes"), 3)
      BY <2>3, WithBytesTyped
    <2> QED
      BY <2>2, <2>4
  <1>2. Typed(DataLayouts["sysex8_packet"], 5)
    <2> DEFINE fields == {Status, F("stream_id", 8, 0, 8)}
    <2>1. AllBelow(fields)
      BY PieceBelow DEF AllBelow, Status
    <2>2. DataLayouts["sysex8_packet"]
            = WithBytes(Data128("on_sysex8", {}, {}, fields), 24, 13, "bytes and stream_id")
      BY DEF DataLayouts
    <2> HIDE DEF fields
    <2>3. 24 \in 16 .. 32 /\ 13 \in 0 .. 14 /\ \A i \in 28 .. 31 : i \notin {}
      OBVIOUS
    <2> QED
      BY <2>1, <2>2, <2>3, Data128Typed
  <1>3. Typed(DataLayouts["mds_header"], 5)
    <2> DEFINE fields ==
                 {MdsId, F("num_bytes", 16, 0, 0), F("num_chunks", 16, 1, 16),
                  F("this_chunk", 16, 1, 0), F("mfr_id", 16, 2, 16), F("device_id", 16, 2, 0),
                  F("sub_id1", 16, 3, 16), F("sub_id2", 16, 3, 0)}
               const == Put(Bits(\h80), 16)
               mask == 20 .. 23
    <2>1. AllBelow(fields)
      BY PieceBelow DEF AllBelow, MdsId
    <2>2. DataLayouts["mds_header"] = Data128("on_mds_header", mask, const, fields)
      BY DEF DataLayouts
    <2>3. \A i \in 28 .. 31 : i \notin const
      <3>1. \h80 \in StatusBytes
        BY DEF StatusBytes
      <3> QED
        BY <3>1, StatusBelow
    <2> HIDE DEF fields, const, mask
    <2> QED
      BY <2>1, <2>2, <2>3, Data128Typed
  <1>4. Typed(DataLayouts["mds_payload"], 5)
    <2> DEFINE fields == {MdsId}
               const == Put(Bits(\h90), 16)
               mask == 20 .. 23
    <2>1. AllBelow(fields)
      BY PieceBelow DEF AllBelow, MdsId
    <2>2. DataLayouts["mds_payload"]
            = WithBytes(Data128("on_mds_payload", mask, const, fields), 16, 14, "no")
      BY DEF DataLayouts
    <2>3. \A i \in 28 .. 31 : i \notin const
      <3>1. \h90 \in StatusBytes
        BY DEF StatusBytes
      <3> QED
        BY <3>1, StatusBelow
    <2>4. 16 \in 16 .. 32 /\ 14 \in 0 .. 14
      OBVIOUS
    <2> HIDE DEF fields, const, mask
    <2> QED
      BY <2>1, <2>2, <2>3, <2>4, Data128Typed
  <1> QED
    BY <1>1, <1>2, <1>3, <1>4, Domains

(* The data bytes that a message keeps: no more than it has room for.      *)
LEMMA KeptBytes ==
  ASSUME NEW L, L.room \in 0 .. 14, NEW data \in Seq(Bytes8)
  PROVE  Fitting(L, data) \in Seq(Bytes8) /\ Len(Fitting(L, data)) <= L.room
  <1> DEFINE S == {Len(data), L.room}
             n == Min(S)
  <1>1. Len(data) \in Nat /\ L.room \in Nat
    OBVIOUS
  <1>2. \E x \in S : \A y \in S : x <= y
    BY <1>1
  <1>3. n = CHOOSE x \in S : \A y \in S : x <= y
    BY DEF Min
  <1>4. n \in S /\ \A y \in S : n <= y
    <2> HIDE DEF n, S
    <2> QED
      BY <1>2, <1>3
  <1>5. n \in Nat /\ n <= Len(data) /\ n <= L.room
    BY <1>1, <1>4
  <1> HIDE DEF n
  <1>6. SubSeq(data, 1, n) \in Seq(Bytes8) /\ Len(SubSeq(data, 1, n)) = n
    <2>1. \A k \in 1 .. n : data[k] \in Bytes8
      BY <1>1, <1>5
    <2>2. SubSeq(data, 1, n) = [k \in 1 .. n |-> data[k]]
      BY <1>1, <1>5
    <2> QED
      BY <1>5, <2>1, <2>2
  <1>7. Fitting(L, data) = SubSeq(data, 1, n)
    BY DEF Fitting, n
  <1> QED
    BY <1>5, <1>6, <1>7

(* The type nibble of a built message is its layout's: the count of its    *)
(* bytes, its arguments and its bytes stay below it.                       *)
LEMMA HeadOfBuilt ==
  ASSUME NEW m, m.data \in Seq(Bytes8), NEW n, Typed(Layouts[m.kind], n)
  PROVE  \A i \in 28 .. 31 : i \in Build(m)[0] <=> i - 28 \in Bits(n)
  <1> DEFINE L == Layouts[m.kind]
             kept == Fitting(L, m.data)
             num == CountBits(L, m.data)
             P == Packed(Written(m.kind, m.args), m.args, 0)
             D == UNION {Put(kept[j], ByteLo(L.at, j)) :
                           j \in {k \in DOMAIN kept : ByteWord(L.at, k) = 0}}
  <1>1. Build(m)[0] = L.const \union num \union P \union D
    BY DEF Build
  <1>2. AllBelow(L.fields) /\ L.room \in 0 .. 14 /\ (L.room # 0 => L.at \in 16 .. 32) /\ HeadOf(L.const, n)
    BY DEF Typed
  <1>3. kept \in Seq(Bytes8) /\ Len(kept) \in 0 .. 14 /\ (Len(kept) # 0 => L.at \in 16 .. 32)
    <2> DEFINE room == L.room
    <2>1. kept \in Seq(Bytes8) /\ Len(kept) <= room
      BY <1>2, KeptBytes
    <2>2. room \in 0 .. 14 /\ (room # 0 => L.at \in 16 .. 32)
      BY <1>2
    <2> HIDE DEF room, kept, L
    <2>3. Len(kept) \in Nat
      BY <2>1
    <2>4. \A k \in Nat : k <= room => k \in 0 .. 14 /\ (k # 0 => room # 0)
      BY <2>2
    <2> QED
      BY <2>1, <2>2, <2>3, <2>4, Zenon
  <1>4. ASSUME NEW i \in 28 .. 31 PROVE i \notin num
    <2>1. \A k \in 0 .. 15 : i \notin Put(Bits(k), 16)
      <3> SUFFICES ASSUME NEW k \in 0 .. 15 PROVE i \notin Put(Bits(k), 16)
        OBVIOUS
      <3>1. k \in StatusBytes
        BY DEF StatusBytes
      <3> QED
        BY <3>1, StatusBelow
    <2>2. Len(kept) \in 0 .. 15 /\ Len(kept) + 1 \in 0 .. 15
      <3>1. \A k \in 0 .. 14 : k \in 0 .. 15 /\ k + 1 \in 0 .. 15
        OBVIOUS
      <3> HIDE DEF kept
      <3> QED
        BY <1>3, <3>1, Zenon
    <2>3. i \notin Put(Bits(Len(kept)), 16) /\ i \notin Put(Bits(Len(kept) + 1), 16)
      <3> DEFINE a == Len(kept)
                 b == Len(kept) + 1
      <3>1. a \in 0 .. 15 /\ b \in 0 .. 15
        BY <2>2
      <3> HIDE DEF a, b
      <3>2. i \notin Put(Bits(a), 16) /\ i \notin Put(Bits(b), 16)
        BY <2>1, <3>1
      <3> QED
        BY <3>2 DEF a, b
    <2>4. num \in {Put(Bits(Len(kept)), 16), Put(Bits(Len(kept) + 1), 16), {}}
      BY DEF CountBits
    <2> HIDE DEF num, kept
    <2> QED
      BY <2>3, <2>4
  <1>5. ASSUME NEW i \in 28 .. 31 PROVE i \notin P
    <2> DEFINE fields == Written(m.kind, m.args)
    <2>1. fields \subseteq L.fields
      BY DEF Written
    <2> HIDE DEF fields, L
    <2>2. AllBelow(fields)
      BY <1>2, <2>1 DEF AllBelow
    <2>3. FieldType(fields)
      BY <2>2 DEF AllBelow, BelowType, FieldType
    <2>4. i \in Packed(fields, m.args, 0) <=> \E f \in fields : Fills(f, m.args, 0, i)
      BY <2>3, PackedBits
    <2>5. ASSUME NEW f \in fields PROVE ~ Fills(f, m.args, 0, i)
      <3>1. BelowType(f)
        BY <2>2 DEF AllBelow
      <3> QED
        BY <3>1 DEF BelowType, Fills
    <2>6. i \notin Packed(fields, m.args, 0)
      BY <2>4, <2>5
    <2> QED
      BY <2>6 DEF fields
  <1>6. ASSUME NEW i \in 28 .. 31 PROVE i \notin D
    <2> SUFFICES ASSUME NEW j \in DOMAIN kept, ByteWord(L.at, j) = 0
                 PROVE  i \notin Put(kept[j], ByteLo(L.at, j))
      BY Zenon
    <2> DEFINE at == L.at
               lo == ByteLo(at, j)
               byte == kept[j]
    <2>1. j \in Nat /\ j >= 1 /\ at \in 16 .. 32 /\ byte \subseteq 0 .. 7
      BY <1>3 DEF Bytes8
    <2>2. ByteWord(at, j) = 0
      OBVIOUS
    <2> HIDE DEF at, byte
    <2>3. at + 8 * (j - 1) \in Nat /\ at + 8 * (j - 1) >= 16 /\ (at + 8 * (j - 1)) \div 32 = 0
      BY <2>1, <2>2 DEF ByteWord
    <2>4. \A x \in Nat : x \div 32 = 0 => x % 32 = x
      OBVIOUS
    <2>5. lo \in Int /\ lo <= 8
      BY <2>3, <2>4 DEF ByteLo
    <2> HIDE DEF lo
    <2>6. \A k : k \in Put(byte, lo) <=> k \in Int /\ k - lo \in byte
      <3>1. byte \subseteq Int
        BY <2>1
      <3> QED
        BY <2>5, <3>1, PutBits
    <2>7. i - lo \notin 0 .. 7
      BY <2>5
    <2>8. i \notin Put(byte, lo)
      BY <2>1, <2>6, <2>7
    <2> QED
      BY <2>8 DEF byte, lo, at
  <1> HIDE DEF L, num, P, D
  <1>7. ASSUME NEW i \in 28 .. 31 PROVE i \in Build(m)[0] <=> i - 28 \in Bits(n)
    <2>1. i \in L.const <=> i - 28 \in Bits(n)
      BY <1>2 DEF HeadOf
    <2> QED
      BY <1>1, <1>4, <1>5, <1>6, <2>1
  <1> QED
    BY <1>7

(* Four bits that are those of a number make the number.                   *)
LEMMA NibbleOfBits ==
  ASSUME NEW w, NEW at \in Nat, NEW n \in 0 .. 15,
         \A k \in 0 .. 3 : at + k \in w <=> k \in Bits(n)
  PROVE  Num(Take(w, at, 4)) = n
  <1> DEFINE b == Take(w, at, 4)
  <1>1. b \in SUBSET (0 .. 3) /\ \A k \in 0 .. 3 : k \in b <=> k \in Bits(n)
    BY DEF Take
  <1> HIDE DEF b
  <1>2. Num(b) = (IF 3 \in b THEN 8 ELSE 0) + (IF 2 \in b THEN 4 ELSE 0)
                     + (IF 1 \in b THEN 2 ELSE 0) + (IF 0 \in b THEN 1 ELSE 0)
    BY <1>1, NibbleRead
  <1>3. Bits(n) = {i \in 0 .. 15 : (n \div Powers[i + 1]) % 2 = 1}
    BY BitsByPowers
  <1>4. /\ 3 \in Bits(n) <=> (n \div 8) % 2 = 1
        /\ 2 \in Bits(n) <=> (n \div 4) % 2 = 1
        /\ 1 \in Bits(n) <=> (n \div 2) % 2 = 1
        /\ 0 \in Bits(n) <=> (n \div 1) % 2 = 1
    BY <1>3 DEF Powers
  <1>5. /\ 3 \in b <=> (n \div 8) % 2 = 1
        /\ 2 \in b <=> (n \div 4) % 2 = 1
        /\ 1 \in b <=> (n \div 2) % 2 = 1
        /\ 0 \in b <=> (n \div 1) % 2 = 1
    BY <1>1, <1>4
  <1>6. n = (IF (n \div 8) % 2 = 1 THEN 8 ELSE 0) + (IF (n \div 4) % 2 = 1 THEN 4 ELSE 0)
            + (IF (n \div 2) % 2 = 1 THEN 2 ELSE 0) + (IF (n \div 1) % 2 = 1 THEN 1 ELSE 0)
    OBVIOUS
  <1>7. Num(b) = n
    BY <1>2, <1>5, <1>6
  <1> QED
    BY <1>7 DEF b

(* The type of a message is the one its builder's header says.             *)
LEMMA TypeOfBuilt ==
  ASSUME NEW m, m.data \in Seq(Bytes8), NEW n \in 0 .. 15, Typed(Layouts[m.kind], n)
  PROVE  Num(Take(Build(m)[0], 28, 4)) = n
  <1> DEFINE w == Build(m)[0]
  <1>1. \A i \in 28 .. 31 : i \in w <=> i - 28 \in Bits(n)
    BY HeadOfBuilt
  <1> HIDE DEF w
  <1>2. \A k \in 0 .. 3 : 28 + k \in w <=> k \in Bits(n)
    <2> SUFFICES ASSUME NEW k \in 0 .. 3 PROVE 28 + k \in w <=> k \in Bits(n)
      OBVIOUS
    <2>1. 28 + k \in 28 .. 31 /\ (28 + k) - 28 = k
      OBVIOUS
    <2> QED
      BY <1>1, <2>1
  <1>3. Num(Take(w, 28, 4)) = n
    BY <1>2, NibbleOfBits
  <1> QED
    BY <1>3 DEF w

(* A status byte is its nibble, four bits up.                              *)
LEMMA ShiftedBits ==
  ASSUME NEW n \in 0 .. 15, NEW k \in 0 .. 3
  PROVE  4 + k \in Bits(16 * n) <=> k \in Bits(n)
  <1>1. Bits(n) = {i \in 0 .. 15 : (n \div Powers[i + 1]) % 2 = 1}
    BY BitsByPowers
  <1>2. Bits(16 * n) = {i \in 0 .. 15 : ((16 * n) \div Powers[i + 1]) % 2 = 1}
    <2> DEFINE x == 16 * n
    <2>1. x \in Nat
      OBVIOUS
    <2> HIDE DEF x
    <2>2. Bits(x) = {i \in 0 .. 15 : (x \div Powers[i + 1]) % 2 = 1}
      BY <2>1, BitsByPowers
    <2> QED
      BY <2>2 DEF x
  <1>3. /\ (16 * n) \div 16 = n
        /\ (16 * n) \div 32 = n \div 2
        /\ (16 * n) \div 64 = n \div 4
        /\ (16 * n) \div 128 = n \div 8
    OBVIOUS
  <1>4. CASE k = 0
    <2>1. 0 \in Bits(n) <=> (n \div 1) % 2 = 1
      BY <1>1 DEF Powers
    <2>2. 4 \in Bits(16 * n) <=> ((16 * n) \div 16) % 2 = 1
      BY <1>2 DEF Powers
    <2>3. n \div 1 = n
      OBVIOUS
    <2> QED
      BY <1>3, <1>4, <2>1, <2>2, <2>3
  <1>5. CASE k = 1
    <2>1. 1 \in Bits(n) <=> (n \div 2) % 2 = 1
      BY <1>1 DEF Powers
    <2>2. 5 \in Bits(16 * n) <=> ((16 * n) \div 32) % 2 = 1
      BY <1>2 DEF Powers
    <2> QED
      BY <1>3, <1>5, <2>1, <2>2
  <1>6. CASE k = 2
    <2>1. 2 \in Bits(n) <=> (n \div 4) % 2 = 1
      BY <1>1 DEF Powers
    <2>2. 6 \in Bits(16 * n) <=> ((16 * n) \div 64) % 2 = 1
      BY <1>2 DEF Powers
    <2> QED
      BY <1>3, <1>6, <2>1, <2>2
  <1>7. CASE k = 3
    <2>1. 3 \in Bits(n) <=> (n \div 8) % 2 = 1
      BY <1>1 DEF Powers
    <2>2. 7 \in Bits(16 * n) <=> ((16 * n) \div 128) % 2 = 1
      BY <1>2 DEF Powers
    <2> QED
      BY <1>3, <1>7, <2>1, <2>2
  <1> QED
    BY <1>4, <1>5, <1>6, <1>7

(* Arguments that leave the upper half of the first word alone.            *)
LowHalf(fields) == \A f \in fields : f.from \in Nat /\ f.width \in Nat /\ f.lo \in Nat
                                    /\ (f.word = 0 => f.lo + f.width <= 16)

(* The status nibble of a built MIDI 2.0 channel voice message.            *)
LEMMA StatusOfBuilt ==
  ASSUME NEW m, m.data \in Seq(Bytes8), m.kind # "program", NEW calls, NEW n \in 0 .. 15, NEW fields,
         LowHalf(fields), Layouts[m.kind] = build_cv2_w0(calls, 16 * n, fields)
  PROVE  Num(Take(Build(m)[0], 20, 4)) = n
  <1> DEFINE L == Layouts[m.kind]
             all == fields \union {Group, Channel}
             w == Build(m)[0]
             x == Bits(16 * n)
  <1>1. Bare(L) /\ L.fields = all /\ L.const = MT(4) \union Put(x, 16)
    BY DEF build_cv2_w0, Msg, Bare, Channel
  <1>2. Written(m.kind, m.args) = all
    BY <1>1 DEF Written
  <1>3. FieldType(all) /\ \A f \in all : f.word = 0 => f.lo + f.width <= 20 \/ f.lo >= 24
    <2>1. ASSUME NEW f \in fields PROVE f.from \in Nat /\ f.width \in Nat /\ f.lo \in Nat
                                        /\ (f.word = 0 => f.lo + f.width <= 20)
      BY <2>1 DEF LowHalf
    <2>2. /\ Group.from \in Nat /\ Group.width \in Nat /\ Group.lo = 24
          /\ Channel.from \in Nat /\ Channel.width = 4 /\ Channel.lo = 16
      BY DEF Group, Channel, F, Piece
    <2> QED
      BY <2>1, <2>2 DEF FieldType
  <1>4. \A i : i \in w <=> i \in L.const \/ \E f \in all : Fills(f, m.args, 0, i)
    <2>1. FieldType(Written(m.kind, m.args)) /\ Bare(Layouts[m.kind])
      BY <1>1, <1>2, <1>3
    <2> HIDE DEF all
    <2> QED
      BY <1>2, <2>1, BuildPlain
  <1>5. \A i \in 20 .. 23 : \A f \in all : ~ Fills(f, m.args, 0, i)
    <2> HIDE DEF all
    <2> SUFFICES ASSUME NEW i \in 20 .. 23, NEW f \in all, f.word = 0, i \in f.lo .. f.lo + f.width - 1
                 PROVE  FALSE
      BY DEF Fills
    <2>1. f.lo \in Nat /\ f.width \in Nat /\ (f.lo + f.width <= 20 \/ f.lo >= 24)
      BY <1>3 DEF FieldType
    <2> QED
      BY <2>1
  <1>6. \A i : i \in MT(4) <=> i = 30
    <2>1. {2} \subseteq Int /\ \A i : i \in Int /\ i - 28 \in {2} <=> i = 30
      OBVIOUS
    <2> QED
      BY <2>1, PutBits, StatusBits DEF MT
  <1>7. \A i : i \in Put(x, 16) <=> i \in Int /\ i - 16 \in x
    <2>1. x \subseteq Int /\ 16 \in Int
      BY BitsBelow16
    <2> HIDE DEF x
    <2> QED
      BY <2>1, PutBits, Zenon
  <1>8. \A k \in 0 .. 3 : 4 + k \in x <=> k \in Bits(n)
    BY ShiftedBits
  <1> HIDE DEF L, all, w, x
  <1>9. ASSUME NEW k \in 0 .. 3 PROVE 20 + k \in w <=> k \in Bits(n)
    <2>1. 20 + k \in 20 .. 23 /\ 20 + k # 30 /\ (20 + k) - 16 = 4 + k /\ 20 + k \in Int
      OBVIOUS
    <2>2. 20 + k \in w <=> 20 + k \in Put(x, 16)
      BY <1>1, <1>4, <1>5, <1>6, <2>1
    <2> QED
      BY <1>7, <1>8, <2>1, <2>2
  <1>10. Num(Take(w, 20, 4)) = n
    BY <1>9, NibbleOfBits
  <1> QED
    BY <1>10 DEF w

(* Only messages with a MIDI 1.0 counterpart are translated down: the      *)
(* translation looks at the type and the status, and no other message has  *)
(* theirs.                                                                 *)
LEMMA OnlyTheseLower ==
  ASSUME NEW m, m.data \in Seq(Bytes8), m.kind \in UmpKinds, mt4_to_mt2(Build(m)) # {}
  PROVE  m.kind \in Cv2Kinds
  <1> DEFINE w == Build(m)
             kind == m.kind
             n == Num(Take(w[0], 20, 4))
  <1>1. Num(Take(w[0], 28, 4)) = 4 /\ n \in 8 .. 14
    <2>1. /\ Num(Take(w[0], 28, 4)) # 4 => mt4_to_mt2(w) = {}
          /\ n \notin {8, 9} /\ n \notin {10, 11} /\ n # 12 /\ n # 13 /\ n # 14 => mt4_to_mt2(w) = {}
      BY DEF mt4_to_mt2
    <2> QED
      BY <2>1
  <1>2. \A k \in 0 .. 15 : Typed(Layouts[kind], k) => k = 4
    BY <1>1, TypeOfBuilt
  <1>3. \A calls, fields : \A k \in 0 .. 15 :
          LowHalf(fields) /\ Layouts[kind] = build_cv2_w0(calls, 16 * k, fields) /\ kind # "program"
          => k \in 8 .. 14
    BY <1>1, StatusOfBuilt
  <1>4. PICK t \in Tables : kind \in DOMAIN t /\ Layouts[kind] = t[kind]
    BY LayoutOf
  <1> HIDE DEF n, w
  <1>5. t # SystemLayouts
    <2> SUFFICES ASSUME t = SystemLayouts PROVE FALSE
      OBVIOUS
    <2>1. Typed(Layouts[kind], 1)
      BY <1>4, SystemLayoutsTyped
    <2> QED
      BY <1>2, <2>1
  <1>6. t # from_midi1
    <2> SUFFICES ASSUME t = from_midi1 PROVE FALSE
      OBVIOUS
    <2>1. Typed(Layouts[kind], 2)
      BY <1>4, Frommidi1Typed
    <2> QED
      BY <1>2, <2>1
  <1>7. t # UtilityLayouts
    <2> SUFFICES ASSUME t = UtilityLayouts PROVE FALSE
      OBVIOUS
    <2>1. Typed(Layouts[kind], 0)
      BY <1>4, UtilityLayoutsTyped
    <2> QED
      BY <1>2, <2>1
  <1>8. t # FlexLayouts
    <2> SUFFICES ASSUME t = FlexLayouts PROVE FALSE
      OBVIOUS
    <2>1. Typed(Layouts[kind], 13)
      BY <1>4, FlexLayoutsTyped
    <2> QED
      BY <1>2, <2>1
  <1>9. t # ChordLayout
    <2> SUFFICES ASSUME t = ChordLayout PROVE FALSE
      OBVIOUS
    <2>1. Typed(Layouts[kind], 13)
      BY <1>4, ChordLayoutTyped
    <2> QED
      BY <1>2, <2>1
  <1>10. t # FlexTextLayout
    <2> SUFFICES ASSUME t = FlexTextLayout PROVE FALSE
      OBVIOUS
    <2>1. Typed(Layouts[kind], 13)
      BY <1>4, FlexTextLayoutTyped
    <2> QED
      BY <1>2, <2>1
  <1>11. t # EndpointLayouts
    <2> SUFFICES ASSUME t = EndpointLayouts PROVE FALSE
      OBVIOUS
    <2>1. Typed(Layouts[kind], 15)
      BY <1>4, EndpointLayoutsTyped
    <2> QED
      BY <1>2, <2>1
  <1>12. t # BlockLayouts
    <2> SUFFICES ASSUME t = BlockLayouts PROVE FALSE
      OBVIOUS
    <2>1. Typed(Layouts[kind], 15)
      BY <1>4, BlockLayoutsTyped
    <2> QED
      BY <1>2, <2>1
  <1>13. t # StreamTextLayouts
    <2> SUFFICES ASSUME t = StreamTextLayouts PROVE FALSE
      OBVIOUS
    <2>1. Typed(Layouts[kind], 15)
      BY <1>4, StreamTextLayoutsTyped
    <2> QED
      BY <1>2, <2>1
  <1>14. t # DataLayouts
    <2> SUFFICES ASSUME t = DataLayouts PROVE FALSE
      OBVIOUS
    <2>1. Typed(Layouts[kind], 3) \/ Typed(Layouts[kind], 5)
      BY <1>4, DataLayoutsTyped
    <2> QED
      BY <1>2, <2>1
  <1>15. ~ (t = VoiceLayouts /\ kind = "rpn")
    <2> SUFFICES ASSUME t = VoiceLayouts, kind = "rpn" PROVE FALSE
      OBVIOUS
    <2> DEFINE fields == BankIndex
    <2>1. LowHalf(fields)
      BY DEF LowHalf, F, Piece, BankIndex, Value
    <2>2. Layouts[kind] = build_cv2_w0("on_rpn", 16 * 2, fields)
      <3>1. 16 * 2 = \h20
        OBVIOUS
      <3> QED
        BY <1>4, <3>1 DEF VoiceLayouts
    <2> HIDE DEF fields
    <2>3. 2 \in 0 .. 15 /\ 2 \notin 8 .. 14 /\ kind # "program"
      OBVIOUS
    <2> QED
      BY <1>3, <2>1, <2>2, <2>3
  <1>16. ~ (t = VoiceLayouts /\ kind = "nrpn")
    <2> SUFFICES ASSUME t = VoiceLayouts, kind = "nrpn" PROVE FALSE
      OBVIOUS
    <2> DEFINE fields == BankIndex
    <2>1. LowHalf(fields)
      BY DEF LowHalf, F, Piece, BankIndex, Value
    <2>2. Layouts[kind] = build_cv2_w0("on_nrpn", 16 * 3, fields)
      <3>1. 16 * 3 = \h30
        OBVIOUS
      <3> QED
        BY <1>4, <3>1 DEF VoiceLayouts
    <2> HIDE DEF fields
    <2>3. 3 \in 0 .. 15 /\ 3 \notin 8 .. 14 /\ kind # "program"
      OBVIOUS
    <2> QED
      BY <1>3, <2>1, <2>2, <2>3
  <1>17. ~ (t = PerNoteLayouts /\ kind = "per_note_pb")
    <2> SUFFICES ASSUME t = PerNoteLayouts, kind = "per_note_pb" PROVE FALSE
      OBVIOUS
    <2> DEFINE fields == {Note, Value}
    <2>1. LowHalf(fields)
      BY DEF LowHalf, F, Piece, Note, Value
    <2>2. Layouts[kind] = build_cv2_w0("on_per_note_pb", 16 * 6, fields)
      <3>1. 16 * 6 = \h60
        OBVIOUS
      <3> QED
        BY <1>4, <3>1 DEF PerNoteLayouts
    <2> HIDE DEF fields
    <2>3. 6 \in 0 .. 15 /\ 6 \notin 8 .. 14 /\ kind # "program"
      OBVIOUS
    <2> QED
      BY <1>3, <2>1, <2>2, <2>3
  <1>18. ~ (t = PerNoteLayouts /\ kind = "per_note_cc")
    <2> SUFFICES ASSUME t = PerNoteLayouts, kind = "per_note_cc" PROVE FALSE
      OBVIOUS
    <2> DEFINE fields == PerNote
    <2>1. LowHalf(fields)
      BY DEF LowHalf, F, Piece, PerNote, Note, Value
    <2>2. Layouts[kind] = build_cv2_w0("on_asn_per_note", 16 * 1, fields)
      <3>1. 16 * 1 = \h10
        OBVIOUS
      <3> QED
        BY <1>4, <3>1 DEF PerNoteLayouts
    <2> HIDE DEF fields
    <2>3. 1 \in 0 .. 15 /\ 1 \notin 8 .. 14 /\ kind # "program"
      OBVIOUS
    <2> QED
      BY <1>3, <2>1, <2>2, <2>3
  <1>19. ~ (t = PerNoteLayouts /\ kind = "per_note_mgmt")
    <2> SUFFICES ASSUME t = PerNoteLayouts, kind = "per_note_mgmt" PROVE FALSE
      OBVIOUS
    <2> DEFINE fields == {Note, F("detach", 1, 0, 1), F("reset", 1, 0, 0)}
    <2>1. LowHalf(fields)
      BY DEF LowHalf, F, Piece, Note
    <2>2. Layouts[kind] = build_cv2_w0("on_per_note_mgmt", 16 * 15, fields)
      <3>1. 16 * 15 = \hF0
        OBVIOUS
      <3> QED
        BY <1>4, <3>1 DEF PerNoteLayouts
    <2> HIDE DEF fields
    <2>3. 15 \in 0 .. 15 /\ 15 \notin 8 .. 14 /\ kind # "program"
      OBVIOUS
    <2> QED
      BY <1>3, <2>1, <2>2, <2>3
  <1>20. ~ (t = PerNoteLayouts /\ kind = "reg_per_note_ctrl")
    <2> SUFFICES ASSUME t = PerNoteLayouts, kind = "reg_per_note_ctrl" PROVE FALSE
      OBVIOUS
    <2> DEFINE fields == PerNote
    <2>1. LowHalf(fields)
      BY DEF LowHalf, F, Piece, PerNote, Note, Value
    <2>2. Layouts[kind] = build_cv2_w0("on_reg_per_note", 16 * 0, fields)
      <3>1. 16 * 0 = \h00
        OBVIOUS
      <3> QED
        BY <1>4, <3>1 DEF PerNoteLayouts
    <2> HIDE DEF fields
    <2>3. 0 \in 0 .. 15 /\ 0 \notin 8 .. 14 /\ kind # "program"
      OBVIOUS
    <2> QED
      BY <1>3, <2>1, <2>2, <2>3
  <1>21. ~ (t = PerNoteLayouts /\ kind = "asn_per_note_ctrl")
    <2> SUFFICES ASSUME t = PerNoteLayouts, kind = "asn_per_note_ctrl" PROVE FALSE
      OBVIOUS
    <2> DEFINE fields == PerNote
    <2>1. LowHalf(fields)
      BY DEF LowHalf, F, Piece, PerNote, Note, Value
    <2>2. Layouts[kind] = build_cv2_w0("on_asn_per_note", 16 * 1, fields)
      <3>1. 16 * 1 = \h10
        OBVIOUS
      <3> QED
        BY <1>4, <3>1 DEF PerNoteLayouts
    <2> HIDE DEF fields
    <2>3. 1 \in 0 .. 15 /\ 1 \notin 8 .. 14 /\ kind # "program"
      OBVIOUS
    <2> QED
      BY <1>3, <2>1, <2>2, <2>3
  <1>22. ~ (t = PerNoteLayouts /\ kind = "rel_rpn")
    <2> SUFFICES ASSUME t = PerNoteLayouts, kind = "rel_rpn" PROVE FALSE
      OBVIOUS
    <2> DEFINE fields == BankIndex
    <2>1. LowHalf(fields)
      BY DEF LowHalf, F, Piece, BankIndex, Value
    <2>2. Layouts[kind] = build_cv2_w0("on_rel_rpn", 16 * 4, fields)
      <3>1. 16 * 4 = \h40
        OBVIOUS
      <3> QED
        BY <1>4, <3>1 DEF PerNoteLayouts
    <2> HIDE DEF fields
    <2>3. 4 \in 0 .. 15 /\ 4 \notin 8 .. 14 /\ kind # "program"
      OBVIOUS
    <2> QED
      BY <1>3, <2>1, <2>2, <2>3
  <1>23. ~ (t = PerNoteLayouts /\ kind = "rel_nrpn")
    <2> SUFFICES ASSUME t = PerNoteLayouts, kind = "rel_nrpn" PROVE FALSE
      OBVIOUS
    <2> DEFINE fields == BankIndex
    <2>1. LowHalf(fields)
      BY DEF LowHalf, F, Piece, BankIndex, Value
    <2>2. Layouts[kind] = build_cv2_w0("on_rel_nrpn", 16 * 5, fields)
      <3>1. 16 * 5 = \h50
        OBVIOUS
      <3> QED
        BY <1>4, <3>1 DEF PerNoteLayouts
    <2> HIDE DEF fields
    <2>3. 5 \in 0 .. 15 /\ 5 \notin 8 .. 14 /\ kind # "program"
      OBVIOUS
    <2> QED
      BY <1>3, <2>1, <2>2, <2>3
  <1>24. t \in {VoiceLayouts, ProgramLayout, PerNoteLayouts}
    BY <1>4, <1>5, <1>6, <1>7, <1>8, <1>9, <1>10, <1>11, <1>12, <1>13, <1>14, Zenon DEF Tables
  <1>25. kind \in {"note_on", "note_off", "cc", "pitch_bend", "chan_pressure", "poly_pressure", "program"}
    BY <1>4, <1>15, <1>16, <1>17, <1>18, <1>19, <1>20, <1>21, <1>22, <1>23, <1>24, Domains
  <1> QED
    BY <1>25 DEF Cv2Kinds, Cv2Status

-----------------------------------------------------------------------------
(* A MIDI 2.0 message translated down, heard.                              *)
ValueOne(m) ==
  CASE m.kind \in {"note_on", "note_off", "poly_pressure"} -> Take(m.args["note"], 0, 7)
    [] m.kind = "cc"            -> Take(m.args["index"], 0, 7)
    [] m.kind = "program"       -> Take(m.args["program"], 0, 7)
    [] m.kind = "chan_pressure" -> Take(m.args["value"], 25, 7)
    [] OTHER                    -> Take(m.args["value"], 18, 7)
ValueTwo(m) ==
  CASE m.kind \in {"note_on", "note_off"}                    -> Take(m.args["velocity"], 9, 7)
    [] m.kind \in {"poly_pressure", "cc", "pitch_bend"}      -> Take(m.args["value"], 25, 7)
    [] OTHER                                                 -> {}

(* Seven bits of one word that are seven bits of another.                  *)
SevenAlike(x, lo, y, at) == \A j \in 0 .. 6 : lo + j \in x <=> at + j \in y
(* Cut out, they are the same value.                                       *)
LEMMA SameTake ==
  ASSUME NEW x, NEW lo \in Nat, NEW y, NEW at \in Nat, SevenAlike(x, lo, y, at)
  PROVE  Take(x, lo, 7) = Take(y, at, 7)
  <1>1. \A i : i \in Take(x, lo, 7) <=> i \in 0 .. 7 - 1 /\ lo + i \in x
    BY TakeBits
  <1>2. \A i : i \in Take(y, at, 7) <=> i \in 0 .. 7 - 1 /\ at + i \in y
    BY TakeBits
  <1>3. 0 .. 7 - 1 = 0 .. 6
    OBVIOUS
  <1> QED
    BY <1>1, <1>2, <1>3 DEF SevenAlike

(* The data bytes of the MIDI 1.0 word are the most significant bits of    *)
(* the MIDI 2.0 message's arguments.                                       *)
LEMMA LoweredValues ==
  ASSUME NEW m, m.data \in Seq(Bytes8), m.kind \in Cv2Kinds
  PROVE  /\ LowOne(m.kind, Build(m)) = ValueOne(m)
         /\ LowTwo(m.kind, Build(m)) = ValueTwo(m)
  <1> DEFINE b == Build(m)
             w0 == b[0]
             w1 == b[1]
  <1>1. /\ \A i \in 8 .. 31 : i \in w0 <=> HeaderBit(m, i) \/ ThirdByte(m, i)
        /\ \A i \in FromBit(m) .. 31 : i \in w1 <=> SecondWord(m, i)
    BY Cv2Words
  <1>2. m.kind \in {"note_off", "note_on", "poly_pressure", "cc", "program", "chan_pressure", "pitch_bend"}
    BY DEF Cv2Kinds, Cv2Status
  <1> HIDE DEF b, w0, w1
  <1>3. \A j \in 0 .. 6 : 8 + j \in w0 <=> ThirdByte(m, 8 + j)
    <2> SUFFICES ASSUME NEW j \in 0 .. 6 PROVE 8 + j \in w0 <=> ThirdByte(m, 8 + j)
      OBVIOUS
    <2>1. 8 + j \in 8 .. 31 /\ 8 + j # 30 /\ 8 + j \notin 20 .. 23 /\ 8 + j \notin 24 .. 27 /\ 8 + j \notin 16 .. 19
      OBVIOUS
    <2>2. ~ HeaderBit(m, 8 + j)
      BY <2>1 DEF HeaderBit
    <2> QED
      BY <1>1, <2>1, <2>2
  <1>4. m.kind \in {"note_on", "note_off", "poly_pressure"} => Take(w0, 8, 7) = Take(m.args["note"], 0, 7)
    <2> SUFFICES ASSUME m.kind \in {"note_on", "note_off", "poly_pressure"} PROVE SevenAlike(w0, 8, m.args["note"], 0)
      BY SameTake
    <2> SUFFICES ASSUME NEW j \in 0 .. 6 PROVE 8 + j \in w0 <=> 0 + j \in m.args["note"]
      BY DEF SevenAlike
    <2>1. 8 + j \in 8 .. 14 /\ (8 + j) - 8 = 0 + j
      OBVIOUS
    <2>2. ThirdByte(m, 8 + j) <=> 8 + j \in 8 .. 14 /\ (8 + j) - 8 \in m.args["note"]
      BY DEF ThirdByte
    <2> QED
      BY <1>3, <2>1, <2>2
  <1>5. m.kind = "cc" => Take(w0, 8, 7) = Take(m.args["index"], 0, 7)
    <2> SUFFICES ASSUME m.kind = "cc" PROVE SevenAlike(w0, 8, m.args["index"], 0)
      BY SameTake
    <2> SUFFICES ASSUME NEW j \in 0 .. 6 PROVE 8 + j \in w0 <=> 0 + j \in m.args["index"]
      BY DEF SevenAlike
    <2>1. 8 + j \in 8 .. 14 /\ (8 + j) - 8 = 0 + j
      OBVIOUS
    <2>2. ThirdByte(m, 8 + j) <=> 8 + j \in 8 .. 14 /\ (8 + j) - 8 \in m.args["index"]
      BY DEF ThirdByte
    <2> QED
      BY <1>3, <2>1, <2>2
  <1>6. m.kind = "program" => Take(w1, 24, 7) = Take(m.args["program"], 0, 7)
    <2> SUFFICES ASSUME m.kind = "program" PROVE SevenAlike(w1, 24, m.args["program"], 0)
      BY SameTake
    <2> SUFFICES ASSUME NEW j \in 0 .. 6 PROVE 24 + j \in w1 <=> 0 + j \in m.args["program"]
      BY DEF SevenAlike
    <2>1. 24 + j \in 24 .. 30 /\ 24 + j \in 24 .. 31 /\ (24 + j) - 24 = 0 + j
      OBVIOUS
    <2>2. SecondWord(m, 24 + j) <=> 24 + j \in 24 .. 30 /\ (24 + j) - 24 \in m.args["program"]
      BY DEF SecondWord
    <2>3. FromBit(m) = 24
      BY DEF FromBit
    <2> QED
      BY <1>1, <2>1, <2>2, <2>3
  <1>7. m.kind \notin {"note_on", "note_off", "program"} =>
          \A i \in 16 .. 31 : i \in w1 <=> i \in m.args["value"]
    <2> SUFFICES ASSUME m.kind \notin {"note_on", "note_off", "program"}, NEW i \in 16 .. 31
                 PROVE  i \in w1 <=> i \in m.args["value"]
      OBVIOUS
    <2>1. i \in 0 .. 31
      OBVIOUS
    <2>2. SecondWord(m, i) <=> i \in 0 .. 31 /\ i \in m.args["value"]
      BY DEF SecondWord
    <2>3. FromBit(m) = 16
      BY DEF FromBit
    <2> QED
      BY <1>1, <2>1, <2>2, <2>3
  <1>8. m.kind \in {"note_on", "note_off"} =>
          Take(Take(w1, 16, 16), 9, 7) = Take(m.args["velocity"], 9, 7)
    <2> DEFINE high == Take(w1, 16, 16)
    <2> SUFFICES ASSUME m.kind \in {"note_on", "note_off"} PROVE SevenAlike(high, 9, m.args["velocity"], 9)
      BY SameTake
    <2> SUFFICES ASSUME NEW j \in 0 .. 6 PROVE 9 + j \in high <=> 9 + j \in m.args["velocity"]
      BY DEF SevenAlike
    <2>1. 9 + j \in 0 .. 16 - 1 /\ 16 + (9 + j) \in 16 .. 31 /\ (16 + (9 + j)) - 16 = 9 + j
      OBVIOUS
    <2>2. 9 + j \in high <=> 9 + j \in 0 .. 16 - 1 /\ 16 + (9 + j) \in w1
      BY TakeBits
    <2>3. SecondWord(m, 16 + (9 + j)) <=> 16 + (9 + j) \in 16 .. 31 /\ (16 + (9 + j)) - 16 \in m.args["velocity"]
      BY DEF SecondWord
    <2>4. FromBit(m) = 16
      BY DEF FromBit
    <2> HIDE DEF high
    <2> QED
      BY <1>1, <2>1, <2>2, <2>3, <2>4
  <1>9. m.kind \in {"poly_pressure", "cc", "chan_pressure"} =>
          Take(w1, 25, 7) = Take(m.args["value"], 25, 7)
    <2> SUFFICES ASSUME m.kind \in {"poly_pressure", "cc", "chan_pressure"} PROVE SevenAlike(w1, 25, m.args["value"], 25)
      BY SameTake
    <2> SUFFICES ASSUME NEW j \in 0 .. 6 PROVE 25 + j \in w1 <=> 25 + j \in m.args["value"]
      BY DEF SevenAlike
    <2>1. 25 + j \in 16 .. 31
      OBVIOUS
    <2> QED
      BY <1>7, <2>1
  <1>10. m.kind = "pitch_bend" =>
           /\ Take(Take(w1, 18, 14), 0, 7) = Take(m.args["value"], 18, 7)
           /\ Take(Take(w1, 18, 14), 7, 7) = Take(m.args["value"], 25, 7)
    <2> DEFINE both == Take(w1, 18, 14)
    <2> SUFFICES ASSUME m.kind = "pitch_bend"
                 PROVE  /\ Take(both, 0, 7) = Take(m.args["value"], 18, 7)
                        /\ Take(both, 7, 7) = Take(m.args["value"], 25, 7)
      OBVIOUS
    <2>1. \A i : i \in both <=> i \in 0 .. 14 - 1 /\ 18 + i \in w1
      BY TakeBits
    <2> HIDE DEF both
    <2>2. ASSUME NEW j \in 0 .. 6 PROVE 0 + j \in both <=> 18 + j \in m.args["value"]
      <3>1. 0 + j \in 0 .. 14 - 1 /\ 18 + (0 + j) = 18 + j /\ 18 + j \in 16 .. 31
        OBVIOUS
      <3> QED
        BY <1>7, <2>1, <3>1
    <2>3. ASSUME NEW j \in 0 .. 6 PROVE 7 + j \in both <=> 25 + j \in m.args["value"]
      <3>1. 7 + j \in 0 .. 14 - 1 /\ 18 + (7 + j) = 25 + j /\ 25 + j \in 16 .. 31
        OBVIOUS
      <3> QED
        BY <1>7, <2>1, <3>1
    <2>4. Take(both, 0, 7) = Take(m.args["value"], 18, 7)
      <3>1. SevenAlike(both, 0, m.args["value"], 18)
        BY <2>2 DEF SevenAlike
      <3> QED
        BY <3>1, SameTake
    <2>5. Take(both, 7, 7) = Take(m.args["value"], 25, 7)
      <3>1. SevenAlike(both, 7, m.args["value"], 25)
        BY <2>3 DEF SevenAlike
      <3> QED
        BY <3>1, SameTake
    <2> QED
      BY <2>4, <2>5
  <1>11. /\ LowOne(m.kind, b) = CASE m.kind = "program" -> Take(w1, 24, 7)
                                  [] m.kind = "chan_pressure" -> Take(w1, 25, 7)
                                  [] m.kind = "pitch_bend" -> Take(Take(w1, 18, 14), 0, 7)
                                  [] OTHER -> Take(w0, 8, 7)
         /\ LowTwo(m.kind, b) = CASE m.kind \in {"note_on", "note_off"} -> Take(Take(w1, 16, 16), 9, 7)
                                  [] m.kind \in {"poly_pressure", "cc"} -> Take(w1, 25, 7)
                                  [] m.kind = "pitch_bend" -> Take(Take(w1, 18, 14), 7, 7)
                                  [] OTHER -> {}
    BY DEF LowOne, LowTwo, w0, w1, scale_down_32to7, scale_down_32to14, scale_down_16to7
  <1>12. LowOne(m.kind, b) = ValueOne(m)
    <2>1. CASE m.kind \in {"note_off", "note_on", "poly_pressure"}
      BY <1>4, <1>11, <2>1 DEF ValueOne
    <2>2. CASE m.kind = "cc"
      BY <1>5, <1>11, <2>2 DEF ValueOne
    <2>3. CASE m.kind \in {"program", "chan_pressure", "pitch_bend"}
      BY <1>6, <1>9, <1>10, <1>11, <2>3 DEF ValueOne
    <2> QED
      BY <1>2, <2>1, <2>2, <2>3
  <1>13. LowTwo(m.kind, b) = ValueTwo(m)
    <2>1. CASE m.kind \in {"note_off", "note_on"}
      BY <1>8, <1>11, <2>1 DEF ValueTwo
    <2>2. CASE m.kind \in {"poly_pressure", "cc", "pitch_bend"}
      BY <1>9, <1>10, <1>11, <2>2 DEF ValueTwo
    <2>3. CASE m.kind \in {"program", "chan_pressure"}
      BY <1>11, <2>3 DEF ValueTwo
    <2> QED
      BY <1>2, <2>1, <2>2, <2>3
  <1> QED
    BY <1>12, <1>13 DEF b

(* The fields of the MIDI 1.0 callbacks are looked up in their own table.  *)
LEMMA ExtractOfCv1 ==
  ASSUME NEW name \in DOMAIN Cv1Args
  PROVE  name \in DOMAIN Extract /\ Extract[name] = Cv1Args[name]
  <1> DEFINE T == {UtilityArgs, SystemArgs, Cv1Args, Cv2Args, DataArgs, FlexArgs,
                   StreamArgs, [on_unknown |-> {}]}
  <1>1. name \in Cv1Names
    BY DEF Cv1Args, Cv1Names
  <1>2. name \notin DOMAIN UtilityArgs
    BY <1>1 DEF UtilityArgs, Cv1Names
  <1>3. name \notin DOMAIN SystemArgs
    BY <1>1 DEF SystemArgs, Cv1Names
  <1>4. name \notin DOMAIN Cv2Args
    BY <1>1 DEF Cv2Args, Cv1Names
  <1>5. name \notin DOMAIN DataArgs
    BY <1>1 DEF DataArgs, Cv1Names
  <1>6. name \notin DOMAIN FlexArgs
    BY <1>1 DEF FlexArgs, Cv1Names
  <1>7. name \notin DOMAIN StreamArgs
    BY <1>1 DEF StreamArgs, Cv1Names
  <1>8. name \notin DOMAIN [on_unknown |-> {}]
    BY <1>1 DEF Cv1Names
  <1>9. \A u \in T : name \in DOMAIN u => u = Cv1Args
    BY <1>2, <1>3, <1>4, <1>5, <1>6, <1>7, <1>8, Zenon
  <1>10. Cv1Args \in T /\ Extract = Merged(T)
    BY DEF Extract
  <1> HIDE DEF T
  <1> QED
    BY <1>9, <1>10, MergedAt

(* The callback of a MIDI 1.0 message, by the status of the MIDI 2.0 one   *)
(* that it was translated from.                                            *)
OneCallOf == [
  note_off |-> "on_cv1_note_off", note_on |-> "on_cv1_note_on", poly_pressure |-> "on_cv1_poly_pressure",
  cc |-> "on_cv1_cc", program |-> "on_cv1_program", chan_pressure |-> "on_cv1_chan_pressure",
  pitch_bend |-> "on_cv1_pitch_bend"]

(* A switch with one branch for a number takes it.                         *)
LEMMA SwitchTakes ==
  ASSUME NEW table, NEW b, NEW c \in table, c[1] = Num(b), \A d \in table : d[1] = c[1] => d[2] = c[2]
  PROVE  At(table, b) = c[2]
  <1> DEFINE d == CHOOSE x \in table : x[1] = Num(b)
  <1>1. d \in table /\ d[1] = Num(b)
    OBVIOUS
  <1>2. At(table, b) = d[2]
    BY DEF At
  <1> HIDE DEF d
  <1> QED
    BY <1>1, <1>2

(* The switch on a MIDI 1.0 status selects that callback.                  *)
LEMMA OneCalls ==
  ASSUME NEW kind \in Cv2Kinds, NEW b, Num(b) = StatusNibble[kind]
  PROVE  At(Cv1Calls, b) = OneCallOf[kind]
  <1> DEFINE c == <<StatusNibble[kind], OneCallOf[kind]>>
  <1>1. kind \in {"note_off", "note_on", "poly_pressure", "cc", "program", "chan_pressure", "pitch_bend"}
    BY DEF Cv2Kinds, Cv2Status
  <1>2. c \in Cv1Calls
    <2>1. CASE kind \in {"note_off", "note_on", "poly_pressure", "cc"}
      BY <2>1 DEF StatusNibble, OneCallOf, Cv1Calls
    <2>2. CASE kind \in {"program", "chan_pressure", "pitch_bend"}
      BY <2>2 DEF StatusNibble, OneCallOf, Cv1Calls
    <2> QED
      BY <1>1, <2>1, <2>2
  <1>3. \A d, e \in Cv1Calls : d[1] = e[1] => d[2] = e[2]
    BY DEF Cv1Calls
  <1>4. c[1] = Num(b) /\ c[2] = OneCallOf[kind]
    OBVIOUS
  <1> HIDE DEF c
  <1>5. At(Cv1Calls, b) = c[2]
    BY <1>2, <1>3, <1>4, SwitchTakes
  <1> QED
    BY <1>4, <1>5

(* A MIDI 1.0 word is handed over as what it is.                           *)
LEMMA FeedsMidiOne ==
  ASSUME NEW v, NEW n, NEW raise, ~ raise, NEW kind \in Cv2Kinds,
         \A i \in 20 .. 23 : i \in v[0] <=> i - 16 \in Cv2Status[kind],
         \A i \in 28 .. 31 : i \in v[0] <=> i = 29
  PROVE  midi2_dispatch_feed(v, n, raise) = Call(OneCallOf[kind], v)
  <1> DEFINE w == v[0]
  <1>1. Num(Take(w, 28, 4)) = 2
    <2>1. \A i \in 28 .. 31 : i \in w <=> i = 29
      OBVIOUS
    <2> HIDE DEF w
    <2> QED
      BY <2>1, NibbleOfType
  <1>2. At(Cv1Calls, Take(w, 20, 4)) = OneCallOf[kind]
    <2>1. \A i \in 20 .. 23 : i \in w <=> i - 16 \in Cv2Status[kind]
      OBVIOUS
    <2> HIDE DEF w
    <2>2. Num(Take(w, 20, 4)) = StatusNibble[kind]
      BY <2>1, NibbleStatus
    <2> QED
      BY <2>2, OneCalls
  <1>3. CallbackOf(v) = OneCallOf[kind]
    BY <1>1, <1>2 DEF CallbackOf, dispatch_cv1
  <1> DEFINE c == Call(OneCallOf[kind], v)
             mt == Num(Take(v[0], 28, 4))
             calls == {Call(CallbackOf(u), u) :
                         u \in IF mt = 2 /\ raise THEN mt2_to_mt4(v[0]) ELSE {v}}
  <1>4. calls = {c}
    BY <1>3
  <1>5. ~ TooShort(mt, n)
    BY <1>1 DEF TooShort
  <1>6. midi2_dispatch_feed(v, n, raise) =
          IF TooShort(mt, n) \/ calls = {} THEN Nobody ELSE CHOOSE x \in calls : TRUE
    BY Zenon DEF midi2_dispatch_feed
  <1> HIDE DEF c, mt, calls
  <1>7. midi2_dispatch_feed(v, n, raise) = c
    BY <1>4, <1>5, <1>6
  <1> QED
    BY <1>7 DEF c

(* An argument that one field carries is read from that field.             *)
LEMMA ReadsField ==
  ASSUME NEW fields, NEW v, NEW a, a \notin Signed, NEW w \in Nat, NEW lo \in Nat, NEW k \in Nat,
         Pieces(fields, a) = {F(a, k, w, lo)}
  PROVE  Read(fields, v)[a] = Take(v[w], lo, k)
  <1> DEFINE f == F(a, k, w, lo)
             x == Take(v[w], lo, k)
  <1>1. f.arg = a /\ f.from = 0 /\ f.width = k /\ f.word = w /\ f.lo = lo
    BY DEF F, Piece
  <1>2. f \in fields
    BY DEF Pieces
  <1>3. a \in ArgsOf(fields)
    BY <1>1, <1>2 DEF ArgsOf
  <1>4. Read(fields, v)[a] = Unpacked(fields, v, a)
    BY <1>3 DEF Read
  <1>5. Unpacked(fields, v, a) = Put(x, 0)
    <2>1. Unpacked(fields, v, a) =
            UNION {Put(Take(v[g.word], g.lo, g.width), g.from) : g \in {f}}
      BY DEF Unpacked
    <2> HIDE DEF f
    <2> QED
      BY <1>1, <2>1
  <1>6. x \subseteq Int /\ 0 \in Int
    BY DEF Take
  <1> HIDE DEF x
  <1>7. \A i : i \in Put(x, 0) <=> i \in Int /\ i - 0 \in x
    BY <1>6, PutBits, Zenon
  <1>8. Put(x, 0) = x
    <2>1. \A i \in Int : i - 0 = i
      OBVIOUS
    <2> QED
      BY <1>6, <1>7, <2>1
  <1> QED
    BY <1>4, <1>5, <1>8 DEF x

(* What the callbacks for MIDI 1.0 messages are told.                      *)
LEMMA OneReads ==
  ASSUME NEW kind \in Cv2Kinds, NEW v
  PROVE  LET args == Read(Cv1Args[OneCallOf[kind]], v) IN
         /\ args["group"] = Take(v[0], 24, 4)
         /\ args["channel"] = Take(v[0], 16, 4)
         /\ kind # "pitch_bend" => args["data1"] = Take(v[0], 8, 7)
         /\ kind \notin {"program", "chan_pressure", "pitch_bend"} => args["data2"] = Take(v[0], 0, 7)
         /\ kind = "pitch_bend" =>
              args["value"] = Put(Take(v[0], 8, 7), 0) \union Put(Take(v[0], 0, 7), 7)
  <1> DEFINE fields == Cv1Args[OneCallOf[kind]]
             bend == GroupChannel \union {Piece("value", 7, 7, 0, 0), Piece("value", 0, 7, 0, 8)}
  <1>1. kind \in {"note_off", "note_on", "poly_pressure", "cc", "program", "chan_pressure", "pitch_bend"}
    BY DEF Cv2Kinds, Cv2Status
  <1>2. /\ kind \in {"note_off", "note_on", "poly_pressure", "cc"} => fields = Cv1Two
        /\ kind \in {"program", "chan_pressure"} => fields = Cv1One
        /\ kind = "pitch_bend" => fields = bend
    <2>1. kind \in {"note_off", "note_on", "poly_pressure", "cc"} => fields = Cv1Two
      BY DEF OneCallOf, Cv1Args
    <2>2. kind \in {"program", "chan_pressure"} => fields = Cv1One
      BY DEF OneCallOf, Cv1Args
    <2>3. kind = "pitch_bend" => fields = bend
      BY DEF OneCallOf, Cv1Args
    <2> QED
      BY <2>1, <2>2, <2>3
  <1>3. ASSUME NEW fs \in {Cv1Two, Cv1One, bend}
        PROVE  /\ Pieces(fs, "group") = {F("group", 4, 0, 24)}
               /\ Pieces(fs, "channel") = {F("channel", 4, 0, 16)}
    <2>1. CASE fs = Cv1Two
      BY <2>1 DEF Pieces, Cv1Two, GroupChannel, Group, F, Piece
    <2>2. CASE fs = Cv1One
      BY <2>2 DEF Pieces, Cv1One, GroupChannel, Group, F, Piece
    <2>3. CASE fs = bend
      BY <2>3 DEF Pieces, GroupChannel, Group, F, Piece
    <2> QED
      BY <2>1, <2>2, <2>3
  <1>4. /\ Pieces(Cv1Two, "data1") = {F("data1", 7, 0, 8)}
        /\ Pieces(Cv1Two, "data2") = {F("data2", 7, 0, 0)}
    BY DEF Pieces, Cv1Two, GroupChannel, Group, F, Piece
  <1>5. Pieces(Cv1One, "data1") = {F("data1", 7, 0, 8)}
    BY DEF Pieces, Cv1One, GroupChannel, Group, F, Piece
  <1>6. Read(bend, v)["value"] = Put(Take(v[0], 8, 7), 0) \union Put(Take(v[0], 0, 7), 7)
    <2> DEFINE f == Piece("value", 7, 7, 0, 0)
               g == Piece("value", 0, 7, 0, 8)
    <2>1. /\ f.arg = "value" /\ f.from = 7 /\ f.width = 7 /\ f.word = 0 /\ f.lo = 0
          /\ g.arg = "value" /\ g.from = 0 /\ g.width = 7 /\ g.word = 0 /\ g.lo = 8
      BY DEF Piece
    <2>2. Pieces(bend, "value") = {f, g}
      BY DEF Pieces, GroupChannel, Group, F, Piece
    <2>3. "value" \in ArgsOf(bend) /\ "value" \notin Signed
      <3>1. f \in bend
        OBVIOUS
      <3> HIDE DEF f, bend
      <3> QED
        BY <2>1, <3>1 DEF ArgsOf, Signed
    <2> HIDE DEF bend
    <2>4. Read(bend, v)["value"] = Unpacked(bend, v, "value")
      BY <2>3 DEF Read
    <2>5. Unpacked(bend, v, "value") =
            UNION {Put(Take(v[e.word], e.lo, e.width), e.from) : e \in {f, g}}
      BY <2>2 DEF Unpacked
    <2> HIDE DEF f, g
    <2>6. UNION {Put(Take(v[e.word], e.lo, e.width), e.from) : e \in {f, g}} =
            Put(Take(v[g.word], g.lo, g.width), g.from)
              \union Put(Take(v[f.word], f.lo, f.width), f.from)
      OBVIOUS
    <2> QED
      BY <2>1, <2>4, <2>5, <2>6
  <1>7. /\ {"group", "channel", "data1", "data2"} \intersect Signed = {}
        /\ fields \in {Cv1Two, Cv1One, bend}
    BY <1>1, <1>2 DEF Signed
  <1> HIDE DEF fields, bend
  <1>8. Read(fields, v)["group"] = Take(v[0], 24, 4)
    BY <1>3, <1>7, ReadsField
  <1>9. Read(fields, v)["channel"] = Take(v[0], 16, 4)
    BY <1>3, <1>7, ReadsField
  <1>10. kind # "pitch_bend" => Read(fields, v)["data1"] = Take(v[0], 8, 7)
    <2>1. /\ Read(Cv1Two, v)["data1"] = Take(v[0], 8, 7)
          /\ Read(Cv1One, v)["data1"] = Take(v[0], 8, 7)
      BY <1>4, <1>5, <1>7, ReadsField
    <2> QED
      BY <1>1, <1>2, <2>1
  <1>11. kind \notin {"program", "chan_pressure", "pitch_bend"} =>
           Read(fields, v)["data2"] = Take(v[0], 0, 7)
    <2>1. Read(Cv1Two, v)["data2"] = Take(v[0], 0, 7)
      BY <1>4, <1>7, ReadsField
    <2> QED
      BY <1>1, <1>2, <2>1
  <1> QED
    BY <1>2, <1>6, <1>8, <1>9, <1>10, <1>11 DEF fields

(* The fields of a word translated down.                                   *)
LowerFields(low, w, d1, d2) ==
  /\ \A i \in 28 .. 31 : i \in low <=> i = 29
  /\ \A i \in 16 .. 27 : i \in low <=> i \in w[0]
  /\ Take(low, 8, 7) = d1
  /\ Take(low, 0, 7) = d2
(* A word translated down keeps group, status and channel, and has the two *)
(* data bytes where they belong.                                           *)
LEMMA LowerWordFields ==
  ASSUME NEW w, NEW d1, NEW d2, d1 \subseteq 0 .. 6, d2 \subseteq 0 .. 6, NEW low, low = LowerWord(w, d1, d2)
  PROVE  LowerFields(low, w, d1, d2)
  <1>1. \A i : i \in low <=>
                \/ i = 29
                \/ i \in 16 .. 27 /\ i \in w[0]
                \/ i \in 8 .. 14 /\ i - 8 \in d1
                \/ i \in d2
    BY LowerWordBits
  <1>2. ASSUME NEW i \in 28 .. 31 PROVE i \in low <=> i = 29
    <2>1. i \notin 16 .. 27 /\ i \notin 8 .. 14 /\ i \notin 0 .. 6
      OBVIOUS
    <2> QED
      BY <1>1, <2>1
  <1>3. ASSUME NEW i \in 16 .. 27 PROVE i \in low <=> i \in w[0]
    <2>1. i # 29 /\ i \notin 8 .. 14 /\ i \notin 0 .. 6
      OBVIOUS
    <2> QED
      BY <1>1, <2>1
  <1>4. Take(low, 8, 7) = d1
    <2>1. \A i : i \in Take(low, 8, 7) <=> i \in 0 .. 7 - 1 /\ 8 + i \in low
      BY TakeBits
    <2>2. ASSUME NEW i \in 0 .. 6 PROVE 8 + i \in low <=> i \in d1
      <3>1. 8 + i \in 8 .. 14 /\ 8 + i # 29 /\ 8 + i \notin 16 .. 27 /\ 8 + i \notin 0 .. 6 /\ (8 + i) - 8 = i
        OBVIOUS
      <3> QED
        BY <1>1, <3>1
    <2>3. 0 .. 7 - 1 = 0 .. 6
      OBVIOUS
    <2> QED
      BY <2>1, <2>2, <2>3
  <1>5. Take(low, 0, 7) = d2
    <2>1. \A i : i \in Take(low, 0, 7) <=> i \in 0 .. 7 - 1 /\ 0 + i \in low
      BY TakeBits
    <2>2. ASSUME NEW i \in 0 .. 6 PROVE 0 + i \in low <=> i \in d2
      <3>1. 0 + i = i /\ i # 29 /\ i \notin 16 .. 27 /\ i \notin 8 .. 14
        OBVIOUS
      <3> QED
        BY <1>1, <3>1
    <2>3. 0 .. 7 - 1 = 0 .. 6
      OBVIOUS
    <2> QED
      BY <2>1, <2>2, <2>3
  <1> QED
    BY <1>2, <1>3, <1>4, <1>5 DEF LowerFields

(* A value that is put at bit 0 is itself.                                 *)
LEMMA PutAtZero ==
  ASSUME NEW x, x \subseteq Int
  PROVE  Put(x, 0) = x
  <1>1. \A i : i \in Put(x, 0) <=> i \in Int /\ i - 0 \in x
    <2>1. 0 \in Int
      OBVIOUS
    <2> QED
      BY <2>1, PutBits, Zenon
  <1>2. \A i \in Int : i - 0 = i
    OBVIOUS
  <1> QED
    BY <1>1, <1>2

(* Four bits of one word that are an argument's.                           *)
LEMMA SameNibble ==
  ASSUME NEW x, NEW lo \in Nat, NEW y, \A i \in lo .. lo + 3 : i \in x <=> i - lo \in y
  PROVE  Take(x, lo, 4) = Take(y, 0, 4)
  <1>1. \A j : j \in Take(x, lo, 4) <=> j \in 0 .. 4 - 1 /\ lo + j \in x
    BY TakeBits
  <1>2. \A j : j \in Take(y, 0, 4) <=> j \in 0 .. 4 - 1 /\ 0 + j \in y
    BY TakeBits
  <1>3. \A j \in 0 .. 4 - 1 : lo + j \in lo .. lo + 3 /\ (lo + j) - lo = j /\ 0 + j = j
    OBVIOUS
  <1> QED
    BY <1>1, <1>2, <1>3

(* The word that a MIDI 2.0 message is translated down to: a MIDI 1.0 one  *)
(* of the same status, group and channel, with the message's two values.   *)
LoweredTo(w, m) ==
  /\ \A i \in 28 .. 31 : i \in w <=> i = 29
  /\ \A i \in 20 .. 23 : i \in w <=> i - 16 \in Cv2Status[m.kind]
  /\ w \subseteq (0 .. 6) \union (8 .. 14) \union (16 .. 31)
  /\ Take(w, 24, 4) = Take(m.args["group"], 0, 4) /\ Take(w, 16, 4) = Take(m.args["channel"], 0, 4)
  /\ Take(w, 8, 7) = ValueOne(m) /\ Take(w, 0, 7) = ValueTwo(m)
(* There is no other.                                                      *)
LEMMA LoweredWord ==
  ASSUME NEW m, m.data \in Seq(Bytes8), m.kind \in Cv2Kinds, NEW w \in mt4_to_mt2(Build(m))
  PROVE  LoweredTo(w, m)
  <1> DEFINE b == Build(m)
             k == m.kind
             b0 == b[0]
             d1 == ValueOne(m)
             d2 == ValueTwo(m)
  <1>1. \A i \in 8 .. 31 : i \in b0 <=> HeaderBit(m, i) \/ ThirdByte(m, i)
    BY Cv2Words
  <1>3. LowOne(k, b) = d1 /\ LowTwo(k, b) = d2
    BY LoweredValues
  <1>4. /\ \A i \in 20 .. 23 : i \in b0 <=> i - 16 \in Cv2Status[k]
        /\ \A i \in 28 .. 31 : i \in b0 <=> i = 30
        /\ \A i \in 24 .. 27 : i \in b0 <=> i - 24 \in m.args["group"]
        /\ \A i \in 16 .. 19 : i \in b0 <=> i - 16 \in m.args["channel"]
    <2> HIDE DEF b0
    <2>1. ASSUME NEW i \in 16 .. 31 PROVE i \in b0 <=> HeaderBit(m, i)
      <3>1. i \in 8 .. 31 /\ i \notin 8 .. 14
        OBVIOUS
      <3>2. ~ ThirdByte(m, i)
        BY <3>1 DEF ThirdByte
      <3> QED
        BY <1>1, <3>1, <3>2
    <2>2. ASSUME NEW i \in 20 .. 23 PROVE i \in b0 <=> i - 16 \in Cv2Status[k]
      <3>1. i \in 16 .. 31 /\ i # 30 /\ i \notin 24 .. 27 /\ i \notin 16 .. 19
        OBVIOUS
      <3> QED
        BY <2>1, <3>1 DEF HeaderBit
    <2>3. ASSUME NEW i \in 28 .. 31 PROVE i \in b0 <=> i = 30
      <3>1. i \in 16 .. 31 /\ i \notin 20 .. 23 /\ i \notin 24 .. 27 /\ i \notin 16 .. 19
        OBVIOUS
      <3> QED
        BY <2>1, <3>1 DEF HeaderBit
    <2>4. ASSUME NEW i \in 24 .. 27 PROVE i \in b0 <=> i - 24 \in m.args["group"]
      <3>1. i \in 16 .. 31 /\ i # 30 /\ i \notin 20 .. 23 /\ i \notin 16 .. 19
        OBVIOUS
      <3> QED
        BY <2>1, <3>1 DEF HeaderBit
    <2>5. ASSUME NEW i \in 16 .. 19 PROVE i \in b0 <=> i - 16 \in m.args["channel"]
      <3>1. i \in 16 .. 31 /\ i # 30 /\ i \notin 20 .. 23 /\ i \notin 24 .. 27
        OBVIOUS
      <3> QED
        BY <2>1, <3>1 DEF HeaderBit
    <2> QED
      BY <2>2, <2>3, <2>4, <2>5
  <1>5. w = LowerWord(b, d1, d2)
    <2>1. mt4_to_mt2(b) = {LowerWord(b, LowOne(k, b), LowTwo(k, b))}
      BY <1>4, LowerCases
    <2> HIDE DEF b, k, d1, d2
    <2>2. w \in mt4_to_mt2(b)
      BY DEF b
    <2> QED
      BY <1>3, <2>1, <2>2
  <1>6. d1 \subseteq 0 .. 6 /\ d2 \subseteq 0 .. 6
    <2>1. \A x, lo : Take(x, lo, 7) \subseteq 0 .. 6
      <3>1. 0 .. 7 - 1 = 0 .. 6
        OBVIOUS
      <3> QED
        BY <3>1 DEF Take
    <2> QED
      BY <2>1 DEF ValueOne, ValueTwo
  <1> HIDE DEF d1, d2
  <1>7. /\ \A i \in 28 .. 31 : i \in w <=> i = 29
        /\ \A i \in 16 .. 27 : i \in w <=> i \in b0
        /\ Take(w, 8, 7) = d1
        /\ Take(w, 0, 7) = d2
    <2> HIDE DEF b, b0, k
    <2>1. LowerFields(w, b, d1, d2)
      BY <1>5, <1>6, LowerWordFields
    <2> QED
      BY <2>1 DEF b0, LowerFields
  <1> HIDE DEF b0, b
  <1>13. Take(w, 24, 4) = Take(m.args["group"], 0, 4)
    <2>1. \A i \in 24 .. 24 + 3 : i \in w <=> i - 24 \in m.args["group"]
      <3>1. \A i \in 24 .. 24 + 3 : i \in 16 .. 27 /\ i \in 24 .. 27
        OBVIOUS
      <3> QED
        BY <1>4, <1>7, <3>1
    <2> QED
      BY <2>1, SameNibble
  <1>14. Take(w, 16, 4) = Take(m.args["channel"], 0, 4)
    <2>1. \A i \in 16 .. 16 + 3 : i \in w <=> i - 16 \in m.args["channel"]
      <3>1. \A i \in 16 .. 16 + 3 : i \in 16 .. 27 /\ i \in 16 .. 19
        OBVIOUS
      <3> QED
        BY <1>4, <1>7, <3>1
    <2> QED
      BY <2>1, SameNibble
  <1>15. w \subseteq (0 .. 6) \union (8 .. 14) \union (16 .. 31)
    <2>1. \A i : i \in LowerWord(b, d1, d2) <=>
                \/ i = 29
                \/ i \in 16 .. 27 /\ i \in b[0]
                \/ i \in 8 .. 14 /\ i - 8 \in d1
                \/ i \in d2
      BY <1>6, LowerWordBits
    <2>2. 29 \in 16 .. 31 /\ 16 .. 27 \subseteq 16 .. 31
      OBVIOUS
    <2> QED
      BY <1>5, <1>6, <2>1, <2>2
  <1>16. \A i \in 20 .. 23 : i \in w <=> i - 16 \in Cv2Status[k]
    <2>1. \A i \in 20 .. 23 : i \in 16 .. 27
      OBVIOUS
    <2> QED
      BY <1>4, <1>7, <2>1
  <1> QED
    BY <1>7, <1>13, <1>14, <1>15, <1>16 DEF d1, d2, LoweredTo

(* A MIDI 2.0 message translated down reaches the MIDI 1.0 callback of its *)
(* status, for the same group, channel and note or index, with the most    *)
(* significant bits of its value.                                          *)
LoweredCall(h, m) ==
  /\ h.name = At(Cv1Calls, Take(Layouts[m.kind].const, 20, 4))
  /\ h.args["group"] = Take(m.args["group"], 0, 4)
  /\ h.args["channel"] = Take(m.args["channel"], 0, 4)
  /\ m.kind # "pitch_bend" => h.args["data1"] = ValueOne(m)
  /\ m.kind \notin {"program", "chan_pressure", "pitch_bend"} => h.args["data2"] = ValueTwo(m)
  /\ m.kind = "pitch_bend" => h.args["value"] = ValueOne(m) \union Put(ValueTwo(m), 7)
(* So the dispatcher hands it over, from the word that the translation     *)
(* makes.                                                                  *)
LEMMA LoweredHeard ==
  ASSUME NEW m, m.data \in Seq(Bytes8), m.kind \in Cv2Kinds, NEW w \in mt4_to_mt2(Build(m)), NEW n,
         NEW raise, ~ raise, NEW h, h = midi2_dispatch_feed([NoWords EXCEPT ![0] = w], n, raise)
  PROVE  LoweredCall(h, m)
  <1> DEFINE k == m.kind
             v == [NoWords EXCEPT ![0] = w]
             d1 == ValueOne(m)
             d2 == ValueTwo(m)
  <1>2. v[0] = w
    BY DEF NoWords
  <1>6. d1 \subseteq 0 .. 6 /\ d2 \subseteq 0 .. 6
    <2>1. \A x, lo : Take(x, lo, 7) \subseteq 0 .. 6
      <3>1. 0 .. 7 - 1 = 0 .. 6
        OBVIOUS
      <3> QED
        BY <3>1 DEF Take
    <2> QED
      BY <2>1 DEF ValueOne, ValueTwo
  <1>7. LoweredTo(w, m)
    BY LoweredWord
  <1> HIDE DEF v, d1, d2
  <1>8. h = Call(OneCallOf[k], v)
    <2>1. \A i \in 20 .. 23 : i \in v[0] <=> i - 16 \in Cv2Status[k]
      BY <1>2, <1>7 DEF LoweredTo
    <2>2. \A i \in 28 .. 31 : i \in v[0] <=> i = 29
      BY <1>2, <1>7 DEF LoweredTo
    <2>3. midi2_dispatch_feed(v, n, raise) = Call(OneCallOf[k], v)
      BY <2>1, <2>2, FeedsMidiOne
    <2> QED
      BY <2>3 DEF v
  <1>9. OneCallOf[k] \in DOMAIN Cv1Args /\ OneCallOf[k] # "on_clip"
    <2>1. k \in {"note_off", "note_on", "poly_pressure", "cc", "program", "chan_pressure", "pitch_bend"}
      BY DEF Cv2Kinds, Cv2Status
    <2> HIDE DEF k
    <2>2. OneCallOf[k] \in Cv1Names
      <3>1. CASE k \in {"note_off", "note_on", "poly_pressure", "cc"}
        BY <3>1 DEF OneCallOf, Cv1Names
      <3>2. CASE k \in {"program", "chan_pressure", "pitch_bend"}
        BY <3>2 DEF OneCallOf, Cv1Names
      <3> QED
        BY <2>1, <3>1, <3>2
    <2>3. Cv1Names = DOMAIN Cv1Args /\ "on_clip" \notin Cv1Names
      BY DEF Cv1Args, Cv1Names
    <2> QED
      BY <2>2, <2>3
  <1>10. h.name = OneCallOf[k] /\ h.args = Read(Cv1Args[OneCallOf[k]], v)
    <2> DEFINE name == OneCallOf[k]
    <2>1. Extract[name] = Cv1Args[name]
      BY <1>9, ExtractOfCv1
    <2>2. name # "on_clip"
      BY <1>9
    <2> HIDE DEF name
    <2>3. Call(name, v).name = name /\ Call(name, v).args = Read(Extract[name], v)
      BY <2>2 DEF Call
    <2> QED
      BY <1>8, <2>1, <2>3 DEF name
  <1>11. OneCallOf[k] = At(Cv1Calls, Take(Layouts[k].const, 20, 4))
    <2> DEFINE L == Layouts[k]
               const == L.const
    <2>1. \A i : i \in const <=> i = 30 \/ (i \in Int /\ i - 16 \in Cv2Status[k])
      <3>1. Cv2Is(L, Cv2Fields(k), Cv2Status[k])
        BY Cv2Layouts
      <3> HIDE DEF L
      <3> QED
        BY <3>1 DEF Cv2Is, HeaderBits
    <2> HIDE DEF const
    <2>2. \A i \in 20 .. 23 : i \in const <=> i - 16 \in Cv2Status[k]
      BY <2>1
    <2>3. Num(Take(const, 20, 4)) = StatusNibble[k]
      BY <2>2, NibbleStatus
    <2>4. At(Cv1Calls, Take(const, 20, 4)) = OneCallOf[k]
      BY <2>3, OneCalls
    <2> QED
      BY <2>4 DEF const
  <1> DEFINE args == Read(Cv1Args[OneCallOf[k]], v)
  <1>12. /\ args["group"] = Take(v[0], 24, 4)
         /\ args["channel"] = Take(v[0], 16, 4)
         /\ k # "pitch_bend" => args["data1"] = Take(v[0], 8, 7)
         /\ k \notin {"program", "chan_pressure", "pitch_bend"} => args["data2"] = Take(v[0], 0, 7)
         /\ k = "pitch_bend" =>
              args["value"] = Put(Take(v[0], 8, 7), 0) \union Put(Take(v[0], 0, 7), 7)
    BY OneReads
  <1>15. Put(d1, 0) = d1
    <2>1. d1 \subseteq Int
      BY <1>6
    <2> QED
      BY <2>1, PutAtZero
  <1> HIDE DEF args
  <1>16. /\ args["group"] = Take(m.args["group"], 0, 4)
         /\ args["channel"] = Take(m.args["channel"], 0, 4)
         /\ k # "pitch_bend" => args["data1"] = d1
         /\ k \notin {"program", "chan_pressure", "pitch_bend"} => args["data2"] = d2
         /\ k = "pitch_bend" => args["value"] = d1 \union Put(d2, 7)
    <2>1. /\ Take(w, 24, 4) = Take(m.args["group"], 0, 4) /\ Take(w, 16, 4) = Take(m.args["channel"], 0, 4)
          /\ Take(w, 8, 7) = d1 /\ Take(w, 0, 7) = d2
      BY <1>7 DEF LoweredTo, d1, d2
    <2> QED
      BY <1>2, <1>12, <1>15, <2>1
  <1> QED
    BY <1>10, <1>11, <1>16 DEF args, d1, d2, LoweredCall

(* Heard as it is, it is heard as MIDI 1.0.                                *)
LEMMA LoweredAsMidiOne ==
  ASSUME OnItsWay, HeardFromWords, Fed("lowered"), Built, ~ upscale_mt2
  PROVE  HeardAsMidiOne
  <1>1. PICK w \in mt4_to_mt2(Build(sent)) : sent \in Messages /\ words = [NoWords EXCEPT ![0] = w]
    BY DEF OnItsWay, Fed, Built
  <1>2. sent.data \in Seq(Bytes8)
    BY <1>1, UmpAssumption DEF UmpAssumption, Bytes8
  <1>3. sent.kind \in Cv2Kinds
    BY <1>1, <1>2, OnlyTheseLower DEF Built
  <1>4. heard = midi2_dispatch_feed([NoWords EXCEPT ![0] = w], count, upscale_mt2)
    BY <1>1 DEF HeardFromWords, Fed
  <1>5. LoweredCall(heard, sent)
    BY <1>1, <1>2, <1>3, <1>4, LoweredHeard
  <1>6. sent.kind \in {"note_off", "note_on", "poly_pressure", "cc", "program", "chan_pressure", "pitch_bend"}
    BY <1>3 DEF Cv2Kinds, Cv2Status
  <1>7. LoweredValue = <<ValueOne(sent), ValueTwo(sent)>>
    <2>1. CASE sent.kind \in {"note_on", "note_off"}
      BY <2>1 DEF LoweredValue, TopBits, ValueOne, ValueTwo
    <2>2. CASE sent.kind = "poly_pressure"
      BY <2>2 DEF LoweredValue, TopBits, ValueOne, ValueTwo
    <2>3. CASE sent.kind = "cc"
      BY <2>3 DEF LoweredValue, TopBits, ValueOne, ValueTwo
    <2>4. CASE sent.kind \in {"program", "chan_pressure"}
      BY <2>4 DEF LoweredValue, TopBits, ValueOne, ValueTwo
    <2>5. CASE sent.kind = "pitch_bend"
      BY <2>5 DEF LoweredValue, TopBits, ValueOne, ValueTwo
    <2> QED
      BY <1>6, <2>1, <2>2, <2>3, <2>4, <2>5
  <1> DEFINE d == LoweredValue
             one == ValueOne(sent)
             two == ValueTwo(sent)
  <1>8. d[1] = one /\ d[2] = two
    BY <1>7
  <1> HIDE DEF d, one, two
  <1>9. /\ heard.args.group = Take(sent.args.group, 0, 4)
        /\ heard.args.channel = Take(sent.args.channel, 0, 4)
        /\ IF sent.kind = "pitch_bend" THEN heard.args.value = d[1] \union Put(d[2], 7)
           ELSE /\ heard.args.data1 = d[1]
                /\ sent.kind \notin {"program", "chan_pressure"} => heard.args.data2 = d[2]
    BY <1>5, <1>8 DEF one, two, LoweredCall
  <1> QED
    BY <1>5, <1>9 DEF HeardAsMidiOne, Layout, d, LoweredCall

=============================================================================
