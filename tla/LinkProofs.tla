----------------------------- MODULE LinkProofs -----------------------------
(***************************************************************************)
(* From sender to receiver: for any senders, message lengths, packet and   *)
(* buffer sizes and any sink that tells what it drops, what the receiver's *)
(* callbacks are given are the messages sent, whole, once and in order.    *)
(***************************************************************************)
EXTENDS SysExLink, DataLemmas

(* What the senders, the wire and the receiver hold, as types.             *)
Keys    == {Receiver!NoKey} \union {Receiver!Key(s) : s \in Senders}
Entry   == [sender: Senders, len: Lengths, fate: {"sending", "refused", "sent"}]
Packet  == [mt: Kinds, group: Groups, stream: Nat, truncated: {FALSE}, num_bytes: Nat,
            status: {"complete", "start", "continue", "end"}]
Outcome == [lane: Kinds, key: Keys, bytes: Seq(Nat \X Nat)]

TypeInv ==
  /\ tx \in [Senders -> [msg: Nat, offset: Nat]]
  /\ log \in Seq(Entry)
  /\ wire \in Seq([packet: Packet, from: Nat \X Nat])
  /\ source \in Seq(Nat \X Nat)
  /\ fed \in Seq(Packet) /\ Len(fed) = Len(source)
  /\ asm \in [Kinds -> [key: Keys, buf: Seq(Nat \X Nat)]]
  /\ delivered \in Seq(Outcome)

(* Message m can be cut at offset o: a first packet before it was full.    *)
Cut(m, o) ==
  /\ m \in 1 .. Len(log) /\ o \in 0 .. log[m].len - 1
  /\ o # 0 => o >= MaxData[log[m].sender.mt]

(* A packet on the wire is the one its message has at that offset.         *)
Sound(w) ==
  /\ Cut(w.from[1], w.from[2])
  /\ w.packet = PacketAt(log[w.from[1]].sender, w.from[2], log[w.from[1]].len)

(* The bytes in a buffer are the first ones of message m.                  *)
Carries(src, buf, m) ==
  \A x \in 1 .. Len(buf) : /\ buf[x][1] \in 1 .. Len(src)
                           /\ src[buf[x][1]][1] = m
                           /\ src[buf[x][1]][2] + buf[x][2] = x

(* The receiver holds message m up to offset o, or a buffer full of it.    *)
Held(m, o) ==
  LET s == log[m].sender
      a == asm[s.mt]
  IN  /\ a.key = Receiver!Key(s)
      /\ Len(a.buf) = Smaller(o, BufSize[s.mt])
      /\ Carries(source, a.buf, m)

(* Packet number i on the wire takes message m up to offset o.             *)
Ends(i, m, o) ==
  /\ wire[i].from[1] = m
  /\ wire[i].from[2] + Chunk(log[m].sender, wire[i].from[2], log[m].len) = o

NoneOf(k, i, j) == \A t \in i .. j : wire[t].packet.mt # k

(* After i packets of the wire the receiver will hold m up to offset o.    *)
Reached(i, m, o) ==
  LET k == log[m].sender.mt
  IN  \/ \E j \in 1 .. i : Ends(j, m, o) /\ NoneOf(k, j + 1, i)
      \/ NoneOf(k, 1, i) /\ Held(m, o)

WireInv ==
  \A i \in 1 .. Len(wire) :
    /\ Sound(wire[i])
    /\ wire[i].from[2] # 0 => Reached(i - 1, wire[i].from[1], wire[i].from[2])

(* A task that is sending goes on where its last packet ended.             *)
SendersInv ==
  \A s \in Senders : tx[s] # Quiet =>
    /\ Cut(tx[s].msg, tx[s].offset)
    /\ log[tx[s].msg].sender = s /\ log[tx[s].msg].fate = "sending"
    /\ tx[s].offset # 0 => Reached(Len(wire), tx[s].msg, tx[s].offset)

OneAtATime ==
  \A s, q \in Senders : s.mt = q.mt /\ tx[s] # Quiet /\ tx[q] # Quiet => s = q

LinkInv == TypeInv /\ WireInv /\ SendersInv /\ OneAtATime /\ DeliveredWereSent

(* One place in the traffic comes before another: message, then offset.    *)
Earlier(p, q) == p[1] < q[1] \/ (p[1] = q[1] /\ p[2] < q[2])

WireOrder ==
  \A i, j \in 1 .. Len(wire) :
    i < j /\ wire[i].packet.mt = wire[j].packet.mt => Earlier(wire[i].from, wire[j].from)

SenderOrder ==
  \A s \in Senders : tx[s] # Quiet =>
    /\ \A i \in 1 .. Len(wire) : wire[i].packet.mt = s.mt => Earlier(wire[i].from, <<tx[s].msg, tx[s].offset>>)
    /\ \A m \in 1 .. Len(log) : log[m].sender.mt = s.mt => m <= tx[s].msg

(* The traffic of a kind is in the order its messages were begun.          *)
OrderInv == WireOrder /\ SenderOrder /\ Len(log) <= MaxMessages

(* What became of message m, and whether its last packet is on the wire.   *)
Came(m)   == \E i \in 1 .. Len(delivered) : delivered[i] = Content(m)
Ending(m) == \E i \in 1 .. Len(wire) : Ends(i, m, log[m].len)

(* The traffic of its kind is past message m.                              *)
Passed(m) ==
  /\ log[m].fate # "refused"
  /\ \A i \in 1 .. Len(wire) : wire[i].packet.mt = log[m].sender.mt => wire[i].from[1] > m
  /\ \A s \in Senders : tx[s] # Quiet /\ s.mt = log[m].sender.mt => tx[s].msg > m

(* A message that came has left the wire and its sender; one that was sent *)
(* has come or will, as its last packet is on the wire.                    *)
FateInv ==
  \A m \in 1 .. Len(log) :
    /\ Came(m) => Passed(m)
    /\ log[m].fate = "sending" => tx[log[m].sender] # Quiet /\ tx[log[m].sender].msg = m
    /\ log[m].fate = "sent" => Came(m) \/ Ending(m)
    /\ Ending(m) => log[m].fate = "sent"

-----------------------------------------------------------------------------
(* The operators of the sender and the receiver. *)

LEMMA SenderType ==
  ASSUME NEW s \in Senders
  PROVE  /\ s.mt \in Kinds /\ s.group \in Groups /\ s.stream \in Nat
         /\ MaxData[s.mt] \in Nat \ {0} /\ BufSize[s.mt] \in Nat \ {0}
  BY LinkAssumption

LEMMA ChunkType ==
  ASSUME NEW s \in Senders, NEW len \in Nat, NEW o \in 0 .. len - 1
  PROVE  /\ Chunk(s, o, len) \in 1 .. MaxData[s.mt]
         /\ o + Chunk(s, o, len) \in 1 .. len
         /\ o + Chunk(s, o, len) # len => Chunk(s, o, len) = MaxData[s.mt]
  <1>1. MaxData[s.mt] \in Nat \ {0}
    BY SenderType
  <1> QED
    BY <1>1 DEF Chunk, Smaller

(* A packet of a message: whose it is, and how the receiver counts it.     *)
LEMMA PacketOf ==
  ASSUME NEW s \in Senders, NEW len \in Nat, NEW o \in 0 .. len - 1
  PROVE  LET p == PacketAt(s, o, len)
         IN  /\ p \in Packet /\ p.mt = s.mt
             /\ Receiver!Key(p) = Receiver!Key(s)
             /\ Receiver!Count(p) = Chunk(s, o, len)
             /\ p.status = Form(o = 0, o + Chunk(s, o, len) = len)
  <1> DEFINE n == Chunk(s, o, len)
             p == PacketAt(s, o, len)
  <1>1. n \in 1 .. MaxData[s.mt] /\ s.mt \in Kinds /\ MaxData[s.mt] \in Nat
    BY ChunkType, SenderType
  <1> HIDE DEF n
  <1>2. p = [mt |-> s.mt, group |-> s.group, stream |-> s.stream,
             status |-> Form(o = 0, o + n = len),
             num_bytes |-> IF s.mt = "sysex8" THEN n + 1 ELSE n, truncated |-> FALSE]
    BY DEF PacketAt, n
  <1>3. p.status \in {"complete", "start", "continue", "end"}
    BY <1>2 DEF Form
  <1>4. p \in Packet
    BY <1>1, <1>2, <1>3, SenderType DEF Packet
  <1>5. Receiver!Key(p) = Receiver!Key(s)
    BY <1>2 DEF Receiver!Key
  <1>6. Receiver!Count(p) = n
    <2>1. n + 1 - 1 = n /\ n + 1 > 1
      BY <1>1
    <2> QED
      BY <1>1, <1>2, <2>1 DEF Receiver!Count, Receiver!Smaller, Kinds
  <1> QED
    BY <1>2, <1>4, <1>5, <1>6 DEF n

LEMMA DataOfPacket ==
  ASSUME NEW p, NEW i \in Nat, Receiver!Count(p) \in Nat
  PROVE  LET d == Receiver!Data(p, i)
         IN  /\ d \in Seq(Nat \X Nat) /\ Len(d) = Receiver!Count(p)
             /\ \A x \in 1 .. Receiver!Count(p) : d[x] = <<i, x>>
  <1> DEFINE n == Receiver!Count(p)
  <1>1. Receiver!Data(p, i) = [x \in 1 .. n |-> <<i, x>>]
    BY DEF Receiver!Data
  <1> HIDE DEF n
  <1>2. \A x \in 1 .. n : <<i, x>> \in Nat \X Nat
    OBVIOUS
  <1>3. [x \in 1 .. n |-> <<i, x>>] \in Seq(Nat \X Nat) /\ Len([x \in 1 .. n |-> <<i, x>>]) = n
    <2> HIDE DEF n
    <2> QED
      BY <1>2, IsASeq DEF n
  <1> QED
    BY <1>1, <1>3 DEF n

(* Fill keeps the buffer and goes on with the data, as far as they fit.    *)
LEMMA Filled ==
  ASSUME NEW S, NEW buf \in Seq(S), NEW data \in Seq(S), NEW size \in Nat, Len(buf) <= size
  PROVE  LET f == Receiver!Fill(buf, data, size)
         IN  /\ f \in Seq(S) /\ Len(f) = Smaller(Len(buf) + Len(data), size)
             /\ \A x \in 1 .. Len(f) :
                  f[x] = IF x <= Len(buf) THEN buf[x] ELSE data[x - Len(buf)]
             /\ \A x \in 1 .. Len(f) : ~ (x <= Len(buf)) => x - Len(buf) \in 1 .. Len(data)
  <1> DEFINE n == Smaller(Len(data), size - Len(buf))
             tail == SubSeq(data, 1, n)
  <1>1. Len(buf) \in Nat /\ Len(data) \in Nat
    BY LenProperties
  <1>2. n \in 0 .. Len(data) /\ Len(buf) + n = Smaller(Len(buf) + Len(data), size)
    BY <1>1 DEF Smaller
  <1>3. Receiver!Fill(buf, data, size) = buf \o tail
    BY DEF Receiver!Fill, Receiver!Smaller, Smaller
  <1> HIDE DEF n
  <1>4. tail \in Seq(S) /\ Len(tail) = n /\ \A i \in 1 .. n : tail[i] = data[i]
    BY <1>1, <1>2, SubSeqProperties
  <1> HIDE DEF tail
  <1>5. /\ buf \o tail \in Seq(S) /\ Len(buf \o tail) = Len(buf) + n
        /\ \A i \in 1 .. Len(buf) + n :
             (buf \o tail)[i] = IF i <= Len(buf) THEN buf[i] ELSE tail[i - Len(buf)]
    BY <1>4, ConcatProperties
  <1>6. \A x \in 1 .. Len(buf) + n : ~ (x <= Len(buf)) => x - Len(buf) \in 1 .. n /\ x - Len(buf) \in 1 .. Len(data)
    BY <1>1, <1>2
  <1> QED
    BY <1>2, <1>3, <1>4, <1>5, <1>6

-----------------------------------------------------------------------------
(* Receiving a packet. *)

(* The bytes of the packet that is the i-th one fed.                       *)
Numbered(d, i) == \A x \in 1 .. Len(d) : d[x] = <<i, x>>

LEMMA CarriesOn ==
  ASSUME NEW src \in Seq(Nat \X Nat), NEW buf \in Seq(Nat \X Nat), NEW m \in Nat, NEW o \in Nat,
         NEW size \in Nat, NEW d \in Seq(Nat \X Nat),
         Numbered(d, Len(src) + 1),
         Carries(src, buf, m), Len(buf) = Smaller(o, size)
  PROVE  LET f   == Receiver!Fill(buf, d, size)
             all == Append(src, <<m, o>>)
         IN  /\ f \in Seq(Nat \X Nat) /\ Len(f) = Smaller(o + Len(d), size)
             /\ Carries(all, f, m) /\ Carries(all, buf, m)
             /\ o = 0 => Carries(all, d, m)
  <1> DEFINE n == Len(d)
             f   == Receiver!Fill(buf, d, size)
             all == Append(src, <<m, o>>)
  <1>1. Len(src) \in Nat /\ n \in Nat /\ Len(buf) \in Nat /\ Len(buf) <= size /\ <<m, o>> \in Nat \X Nat
    BY LenProperties DEF Smaller
  <1>2. /\ f \in Seq(Nat \X Nat) /\ Len(f) = Smaller(Len(buf) + n, size)
        /\ \A x \in 1 .. Len(f) : f[x] = IF x <= Len(buf) THEN buf[x] ELSE d[x - Len(buf)]
        /\ \A x \in 1 .. Len(f) : ~ (x <= Len(buf)) => x - Len(buf) \in 1 .. n
    <2> DEFINE S == Nat \X Nat
    <2> HIDE DEF S
    <2>1. buf \in Seq(S) /\ d \in Seq(S)
      BY DEF S
    <2>2. /\ f \in Seq(S) /\ Len(f) = Smaller(Len(buf) + Len(d), size)
          /\ \A x \in 1 .. Len(f) : f[x] = IF x <= Len(buf) THEN buf[x] ELSE d[x - Len(buf)]
          /\ \A x \in 1 .. Len(f) : ~ (x <= Len(buf)) => x - Len(buf) \in 1 .. Len(d)
      BY <1>1, <2>1, Filled, Zenon
    <2> QED
      BY <2>2 DEF S
  <1>3. /\ Len(all) = Len(src) + 1 /\ all[Len(src) + 1] = <<m, o>>
        /\ \A i \in 1 .. Len(src) : all[i] = src[i]
    BY <1>1, AppendProperties
  <1> HIDE DEF f, all
  <1>4. Len(f) = Smaller(o + n, size)
    BY <1>2 DEF Smaller
  <1>5. Carries(all, buf, m)
    <2>1. \A i \in 1 .. Len(src) : i \in 1 .. Len(all)
      BY <1>1, <1>3
    <2> QED
      BY <1>3, <2>1 DEF Carries
  <1>6. ASSUME NEW x \in 1 .. Len(f)
        PROVE  /\ f[x][1] \in 1 .. Len(all) /\ all[f[x][1]][1] = m /\ all[f[x][1]][2] + f[x][2] = x
    <2>1. CASE x <= Len(buf)
      <3>1. x \in 1 .. Len(buf) /\ f[x] = buf[x]
        BY <1>1, <1>2, <2>1, LenProperties
      <3> QED
        BY <1>5, <3>1 DEF Carries
    <2>2. CASE ~ (x <= Len(buf))
      <3>1. x - Len(buf) \in 1 .. n /\ f[x] = d[x - Len(buf)]
        BY <1>2, <2>2
      <3>2. Len(buf) = o
        BY <1>1, <1>4, <2>2, LenProperties DEF Smaller
      <3>3. f[x][1] = Len(src) + 1 /\ f[x][2] = x - o
        BY <3>1, <3>2 DEF Numbered
      <3>4. all[f[x][1]][1] = m /\ all[f[x][1]][2] = o /\ o + (x - o) = x
        BY <1>3, <3>3
      <3> QED
        BY <1>1, <1>3, <3>3, <3>4
    <2> QED
      BY <2>1, <2>2
  <1>7. ASSUME o = 0 PROVE Carries(all, d, m)
    <2>1. ASSUME NEW x \in 1 .. Len(d)
          PROVE  /\ d[x][1] \in 1 .. Len(all) /\ all[d[x][1]][1] = m /\ all[d[x][1]][2] + d[x][2] = x
      <3>1. d[x][1] = Len(src) + 1 /\ d[x][2] = x
        <4>1. d[x] = <<Len(src) + 1, x>>
          BY DEF Numbered
        <4> QED
          BY <4>1
      <3>2. all[d[x][1]][1] = m /\ all[d[x][1]][2] = 0
        BY <1>3, <1>7, <3>1
      <3> QED
        BY <1>1, <1>3, <3>1, <3>2
    <2> QED
      BY <2>1 DEF Carries
  <1> QED
    BY <1>2, <1>4, <1>5, <1>6, <1>7 DEF f, all, Carries

(* What a callback hands over, told by message and index.                  *)
Given(src, k, key, data) ==
  [lane |-> k, key |-> key,
   bytes |-> [x \in 1 .. Len(data) |-> LET from == src[data[x][1]]
                                      IN  <<from[1], from[2] + data[x][2]>>]]

(* How much of message m the callback should be given.                     *)
Due(m) == LET s == log[m].sender
          IN  IF log[m].len <= MaxData[s.mt] THEN log[m].len ELSE Smaller(log[m].len, BufSize[s.mt])

LEMMA GivenWhole ==
  ASSUME NEW m, NEW src, NEW data, Carries(src, data, m), Len(data) = Due(m)
  PROVE  Given(src, log[m].sender.mt, Receiver!Key(log[m].sender), data) = Content(m)
  <1>1. \A x \in 1 .. Due(m) : <<src[data[x][1]][1], src[data[x][1]][2] + data[x][2]>> = <<m, x>>
    BY DEF Carries
  <1>2. [x \in 1 .. Len(data) |-> LET from == src[data[x][1]] IN <<from[1], from[2] + data[x][2]>>]
        = [x \in 1 .. Due(m) |-> <<m, x>>]
    BY <1>1
  <1> QED
    BY <1>2 DEF Given, Content, Due

(* The packet at the head of the wire: bytes o + 1 .. o + n of message m.  *)
Heads(m, o, s, n) ==
  /\ Cut(m, o) /\ m \in Nat /\ o \in Nat
  /\ s \in Senders /\ s = log[m].sender /\ n = Chunk(s, o, log[m].len)
  /\ n \in Nat \ {0} /\ log[m].len \in Nat /\ o + n <= log[m].len
  /\ Len(wire) \in Nat \ {0} /\ wire[1].from = <<m, o>> /\ wire[1].packet.mt = s.mt
  /\ o # 0 => Held(m, o)

(* What receiving it changes.                                              *)
Takes(m, o, s, n, d) ==
  LET key  == Receiver!Key(s)
      f    == Receiver!Fill(IF o = 0 THEN <<>> ELSE asm[s.mt].buf, d, BufSize[s.mt])
      last == o + n = log[m].len
  IN  /\ UNCHANGED <<tx, log>> /\ wire' = Tail(wire) /\ source' = Append(source, <<m, o>>)
      /\ d \in Seq(Nat \X Nat) /\ Len(d) = n /\ \A x \in 1 .. n : d[x] = <<Len(source) + 1, x>>
      /\ fed' = Append(fed, wire[1].packet)
      /\ asm' = IF last /\ o = 0 THEN asm
                ELSE [asm EXCEPT ![s.mt] = IF last THEN Receiver!Idle ELSE [key |-> key, buf |-> f]]
      /\ delivered' = IF last
                      THEN Append(delivered, Given(source', s.mt, key, IF o = 0 THEN d ELSE f))
                      ELSE delivered

LEMMA EntryType ==
  ASSUME TypeInv, NEW m \in 1 .. Len(log)
  PROVE  log[m].sender \in Senders /\ log[m].len \in Nat \ {0} /\ log[m] \in Entry /\ m \in Nat
  <1>1. log[m] \in Entry
    BY ElementOfSeq DEF TypeInv
  <1>2. Len(log) \in Nat
    BY LenProperties DEF TypeInv
  <1> QED
    <2>1. Lengths \subseteq Nat \ {0}
      BY LinkAssumption
    <2>2. log[m].sender \in Senders /\ log[m].len \in Lengths
      BY <1>1 DEF Entry
    <2>3. m \in Nat
      BY <1>2
    <2>4. log[m].len \in Nat \ {0}
      BY <2>1, <2>2, Zenon
    <2> QED
      BY <1>1, <2>2, <2>3, <2>4

LEMMA HeadOfWire ==
  ASSUME TypeInv, WireInv, wire # <<>>
  PROVE  /\ Head(wire) = wire[1]
         /\ \E m, o, s, n : Heads(m, o, s, n)
  <1> DEFINE S == [packet: Packet, from: Nat \X Nat]
  <1>1. wire \in Seq(S)
    BY DEF TypeInv
  <1> HIDE DEF S
  <1>2. Len(wire) \in Nat \ {0} /\ Head(wire) = wire[1] /\ 1 \in 1 .. Len(wire)
    BY <1>1, EmptySeq, LenProperties, HeadTailProperties
  <1> DEFINE m == wire[1].from[1]
             o == wire[1].from[2]
             s == log[m].sender
             n == Chunk(s, o, log[m].len)
  <1>3. wire[1].from \in Nat \X Nat
    <2>1. wire[1] \in S
      BY <1>1, <1>2, ElementOfSeq
    <2> QED
      BY <2>1 DEF S
  <1>4. Sound(wire[1]) /\ (o # 0 => Reached(0, m, o))
    <2>1. 1 - 1 = 0
      OBVIOUS
    <2> QED
      BY <1>2, <2>1 DEF WireInv
  <1>5. Cut(m, o) /\ wire[1].packet = PacketAt(s, o, log[m].len)
    BY <1>4 DEF Sound
  <1>6. s \in Senders /\ log[m].len \in Nat /\ o \in 0 .. log[m].len - 1
    BY <1>5, EntryType DEF Cut
  <1>7. n \in Nat \ {0} /\ o + n <= log[m].len
    <2>1. n \in 1 .. MaxData[s.mt] /\ o + n \in 1 .. log[m].len /\ MaxData[s.mt] \in Nat
      BY <1>6, ChunkType, SenderType
    <2> QED
      BY <1>6, <2>1
  <1>8. wire[1].packet.mt = s.mt
    BY <1>5, <1>6, PacketOf
  <1>9. o # 0 => Held(m, o)
    BY <1>4 DEF Reached
  <1>10. m \in Nat /\ o \in Nat /\ wire[1].from = <<m, o>>
    BY <1>3
  <1>11. Heads(m, o, s, n)
    BY <1>2, <1>5, <1>6, <1>7, <1>8, <1>9, <1>10 DEF Heads
  <1> QED
    BY <1>2, <1>11

LEMMA ReceiveTakes ==
  ASSUME TypeInv, WireInv, Receive, NEW m, NEW o, NEW s, NEW n, Heads(m, o, s, n)
  PROVE  \E d : Takes(m, o, s, n, d)
  <1> DEFINE p == wire[1].packet
             key == Receiver!Key(s)
             d == Receiver!Data(p, Len(fed) + 1)
             len == log[m].len
             f == Receiver!Fill(IF o = 0 THEN <<>> ELSE asm[s.mt].buf, d, BufSize[s.mt])
             last == o + n = len
             first == o = 0
             a == asm[s.mt]
  <1>1. wire # <<>> /\ Head(wire) = wire[1]
    BY HeadOfWire DEF Receive
  <1>2. /\ p = PacketAt(s, o, len) /\ wire[1].from = <<m, o>>
        /\ s \in Senders /\ len \in Nat /\ o \in 0 .. len - 1 /\ n = Chunk(s, o, len) /\ n \in Nat \ {0}
    <2>1. Len(wire) \in Nat \ {0} /\ 1 \in 1 .. Len(wire) /\ wire[1].from = <<m, o>>
      BY DEF Heads
    <2>2. Sound(wire[1])
      BY <2>1 DEF WireInv
    <2> QED
      BY <2>1, <2>2 DEF Heads, Sound, Cut
  <1>3. /\ p.mt = s.mt /\ p.mt \in Kinds /\ Receiver!Key(p) = key /\ Receiver!Count(p) = n
        /\ p.status = Form(first, last) /\ p.truncated = FALSE
    <2>1. p.truncated = FALSE
      BY <1>2 DEF PacketAt
    <2> QED
      BY <1>2, <2>1, PacketOf, SenderType
  <1>4. Len(fed) = Len(source) /\ Len(fed) + 1 \in Nat
    BY LenProperties DEF TypeInv
  <1>5. d \in Seq(Nat \X Nat) /\ Len(d) = n /\ \A x \in 1 .. n : d[x] = <<Len(source) + 1, x>>
    BY <1>2, <1>3, <1>4, DataOfPacket, SMTT(30)
  <1>6. a.key = key \/ first
    BY DEF Heads, Held
  <1>7. /\ fed' = Append(fed, p) /\ Receiver!Feed(p)
        /\ asm' = [asm EXCEPT ![p.mt] = Receiver!Reassembled(asm[p.mt], p, d)]
        /\ up' = Receiver!SysexUpcall(asm[p.mt], p, d)
    <2>1. Receiver!Feed(p)
      BY <1>1 DEF Receive
    <2>2. Receiver!FeedSysex(p) /\ fed' = Append(fed, p)
      BY <1>3, <2>1 DEF Receiver!Feed, Receiver!FeedTruncated, Receiver!FeedOther, Kinds, Receiver!Kinds
    <2> QED
      BY <1>3, <2>1, <2>2 DEF Receiver!FeedSysex, Kinds, Receiver!Kinds
  <1>8. asm \in [Kinds -> [key: Keys, buf: Seq(Nat \X Nat)]]
    BY DEF TypeInv
  <1>9. CASE ~ last
    <2>1. p.status \in {"start", "continue"} /\ (p.status = "start" <=> first)
      BY <1>3, <1>9 DEF Form
    <2>2. ~ Receiver!Foreign(a, p)
      BY <1>3, <1>6, <2>1 DEF Receiver!Foreign
    <2>3. Receiver!Kept(a, p) = IF first THEN <<>> ELSE a.buf
      BY <2>1, <2>2 DEF Receiver!Kept
    <2>4. Receiver!Gathered(a, p, d) = f
      BY <1>3, <2>3 DEF Receiver!Gathered
    <2>5. Receiver!Reassembled(a, p, d) = [key |-> key, buf |-> f]
      BY <1>3, <2>1, <2>2, <2>4 DEF Receiver!Reassembled
    <2>6. up' = Receiver!NoUpcall
      BY <1>7, <2>1 DEF Receiver!SysexUpcall
    <2>7. delivered' = delivered
      BY <2>6 DEF Receive, Receiver!NoUpcall
    <2>8. asm' = [asm EXCEPT ![s.mt] = [key |-> key, buf |-> f]]
      BY <1>3, <1>7, <2>5
    <2>9. Takes(m, o, s, n, d)
      BY <1>1, <1>2, <1>5, <1>7, <1>9, <2>7, <2>8 DEF Takes, Receive
    <2> QED
      BY <2>9
  <1>10. CASE last
    <2> DEFINE data == IF first THEN d ELSE f
               cb == IF s.mt = "sysex7" THEN "on_sysex7" ELSE "on_sysex8"
    <2>1. p.status = IF first THEN "complete" ELSE "end"
      BY <1>3, <1>10 DEF Form
    <2>2. ~ first => Receiver!Gathered(a, p, d) = f
      <3>1. ~ first => Receiver!Kept(a, p) = a.buf
        BY <1>3, <1>6, <2>1 DEF Receiver!Kept, Receiver!Foreign
      <3> QED
        BY <1>3, <3>1 DEF Receiver!Gathered
    <2>3. Receiver!Reassembled(a, p, d) = IF first THEN a ELSE Receiver!Idle
      BY <2>1 DEF Receiver!Reassembled
    <2>4. up' = [cb |-> cb, key |-> key, data |-> data]
      <3>1. \A x : Receiver!Upcall(cb, p, x) = [cb |-> cb, key |-> key, data |-> x]
        BY <1>3 DEF Receiver!Upcall
      <3> QED
        BY <1>3, <1>7, <2>1, <2>2, <3>1 DEF Receiver!SysexUpcall
    <2>5. delivered' = Append(delivered, Given(source', s.mt, key, data))
      <3>1. up'.cb # "none" /\ up'.key = key /\ up'.data = data
        BY <2>4
      <3> QED
        BY <1>1, <1>3, <3>1 DEF Receive, Given
    <2>6. asm' = IF first THEN asm ELSE [asm EXCEPT ![s.mt] = Receiver!Idle]
      BY <1>3, <1>7, <1>8, <2>3, ZenonT(30)
    <2>7. Takes(m, o, s, n, d)
      BY <1>1, <1>2, <1>5, <1>7, <1>10, <2>5, <2>6 DEF Takes, Receive
    <2> QED
      BY <2>7
  <1> QED
    BY <1>9, <1>10

-----------------------------------------------------------------------------
(* Types. *)

LEMMA ContentType ==
  ASSUME TypeInv, NEW m \in 1 .. Len(log)
  PROVE  Content(m) \in Outcome /\ Due(m) \in Nat \ {0} /\ Len(Content(m).bytes) = Due(m)
         /\ \A x \in 1 .. Due(m) : Content(m).bytes[x] = <<m, x>>
  <1>1. log[m].sender \in Senders /\ log[m].len \in Nat \ {0} /\ m \in Nat
    BY EntryType
  <1>2. log[m].sender.mt \in Kinds /\ BufSize[log[m].sender.mt] \in Nat \ {0}
    BY <1>1, SenderType
  <1>3. Due(m) \in Nat \ {0}
    BY <1>1, <1>2 DEF Due, Smaller
  <1> DEFINE n == Due(m)
  <1>4. Content(m) = [lane |-> log[m].sender.mt, key |-> Receiver!Key(log[m].sender),
                      bytes |-> [x \in 1 .. n |-> <<m, x>>]]
    BY DEF Content, Due
  <1> HIDE DEF n
  <1>5. [x \in 1 .. n |-> <<m, x>>] \in Seq(Nat \X Nat) /\ Len([x \in 1 .. n |-> <<m, x>>]) = n
    <2>1. \A x \in 1 .. n : <<m, x>> \in Nat \X Nat
      BY <1>1
    <2>2. n \in Nat
      BY <1>3 DEF n
    <2> QED
      BY <2>1, <2>2, IsASeq
  <1>6. Receiver!Key(log[m].sender) \in Keys
    BY <1>1 DEF Keys
  <1>7. Content(m) \in Outcome
    BY <1>2, <1>4, <1>5, <1>6 DEF Outcome
  <1> QED
    BY <1>3, <1>4, <1>5, <1>7 DEF n

LEMMA TypeBegin ==
  ASSUME TypeInv, NEW s \in Senders, NEW len \in Lengths, Begin(s, len)
  PROVE  TypeInv'
  <1> DEFINE e == [sender |-> s, len |-> len, fate |-> "sending"]
  <1>1. /\ log' = Append(log, e) /\ tx' = [tx EXCEPT ![s] = [msg |-> Len(log) + 1, offset |-> 0]]
        /\ UNCHANGED <<wire, source, delivered, fed, asm>>
    BY DEF Begin, procVars
  <1>2. Len(log) \in Nat
    BY LenProperties DEF TypeInv
  <1>3. e \in Entry
    BY DEF Entry
  <1>4. log' \in Seq(Entry)
    <2> HIDE DEF e
    <2> QED
      BY <1>1, <1>3, AppendProperties DEF TypeInv
  <1>5. tx' \in [Senders -> [msg: Nat, offset: Nat]]
    <2>1. [msg |-> Len(log) + 1, offset |-> 0] \in [msg: Nat, offset: Nat]
      BY <1>2
    <2> QED
      BY <1>1, <2>1 DEF TypeInv
  <1> QED
    BY <1>1, <1>4, <1>5 DEF TypeInv

(* A write appends the next packet of its message, or gives up.            *)
Writes(s, m, o, n) ==
  LET w == [packet |-> PacketAt(s, o, log[m].len), from |-> <<m, o>>]
      becomes(fate) == log' = [log EXCEPT ![m] = [@ EXCEPT !.fate = fate]]
  IN  /\ tx[s] = [msg |-> m, offset |-> o] /\ tx[s] # Quiet
      /\ Cut(m, o) /\ log[m].sender = s /\ log[m].fate = "sending"
      /\ n = Chunk(s, o, log[m].len) /\ o + n <= log[m].len
      /\ o # 0 => Reached(Len(wire), m, o)
      /\ UNCHANGED <<source, delivered, fed, asm>>
      /\ \/ /\ wire' = wire /\ tx' = [tx EXCEPT ![s] = Quiet] /\ becomes("refused")
         \/ /\ wire' = Append(wire, w) /\ o + n = log[m].len
            /\ tx' = [tx EXCEPT ![s] = Quiet] /\ becomes("sent")
         \/ /\ wire' = Append(wire, w) /\ o + n # log[m].len
            /\ tx' = [tx EXCEPT ![s] = [@ EXCEPT !.offset = o + n]] /\ log' = log

LEMMA WriteEffect ==
  ASSUME TypeInv, WireInv, SendersInv, NEW s \in Senders, Write(s), ~ Silent
  PROVE  \E m \in 1 .. Len(log), o \in Nat, n \in Nat \ {0} : Writes(s, m, o, n)
  <1> DEFINE m == tx[s].msg
             o == tx[s].offset
             len == log[m].len
             n == Chunk(s, o, len)
  <1>1. tx[s] # Quiet
    BY DEF Write
  <1>2. /\ Cut(m, o) /\ log[m].sender = s /\ log[m].fate = "sending"
        /\ (o # 0 => Reached(Len(wire), m, o))
    BY <1>1 DEF SendersInv
  <1>3. tx[s] \in [msg: Nat, offset: Nat]
    BY DEF TypeInv
  <1>4. m \in 1 .. Len(log) /\ o \in Nat /\ tx[s] = [msg |-> m, offset |-> o]
    BY <1>2, <1>3 DEF Cut
  <1>5. len \in Nat /\ o \in 0 .. len - 1
    BY <1>2, <1>4, EntryType DEF Cut
  <1>6. n \in Nat \ {0} /\ o + n <= len
    <2>1. n \in 1 .. MaxData[s.mt] /\ o + n \in 1 .. len /\ MaxData[s.mt] \in Nat
      BY <1>5, ChunkType, SenderType
    <2> QED
      BY <1>5, <2>1
  <1>7. UNCHANGED <<source, delivered, fed, asm>>
    BY DEF Write, procVars
  <1>8. CASE ~ (Len(wire) < WireSize)
    <2>1. wire' = wire /\ tx' = [tx EXCEPT ![s] = Quiet] /\ log' = [log EXCEPT ![m].fate = "refused"]
      BY <1>8 DEF Write, Stops
    <2> HIDE DEF m, o, n
    <2>2. Writes(s, m, o, n)
      BY <1>1, <1>2, <1>4, <1>6, <1>7, <2>1 DEF Writes, n
    <2> QED
      BY <1>4, <1>6, <2>2
  <1>9. CASE Len(wire) < WireSize /\ o + n = len
    <2>1. /\ wire' = Append(wire, [packet |-> PacketAt(s, o, len), from |-> <<m, o>>])
          /\ tx' = [tx EXCEPT ![s] = Quiet] /\ log' = [log EXCEPT ![m].fate = "sent"]
      BY <1>9 DEF Write, Stops
    <2> HIDE DEF m, o, n
    <2>2. Writes(s, m, o, n)
      BY <1>1, <1>2, <1>4, <1>6, <1>7, <1>9, <2>1 DEF Writes, n
    <2> QED
      BY <1>4, <1>6, <2>2
  <1>10. CASE Len(wire) < WireSize /\ o + n # len
    <2>1. /\ wire' = Append(wire, [packet |-> PacketAt(s, o, len), from |-> <<m, o>>])
          /\ tx' = [tx EXCEPT ![s].offset = o + n] /\ log' = log
      BY <1>10 DEF Write, Stops
    <2> HIDE DEF m, o, n
    <2>2. Writes(s, m, o, n)
      BY <1>1, <1>2, <1>4, <1>6, <1>7, <1>10, <2>1 DEF Writes, n
    <2> QED
      BY <1>4, <1>6, <2>2
  <1> QED
    BY <1>8, <1>9, <1>10

LEMMA TypeWrite ==
  ASSUME TypeInv, WireInv, SendersInv, NEW s \in Senders, Write(s), ~ Silent
  PROVE  TypeInv'
  <1>1. PICK m \in 1 .. Len(log), o \in Nat, n \in Nat \ {0} : Writes(s, m, o, n)
    BY WriteEffect
  <1>2. log[m] \in Entry /\ log[m].len \in Nat /\ m \in Nat /\ o \in 0 .. log[m].len - 1
    BY <1>1, EntryType DEF Cut, Writes
  <1> DEFINE S == [packet: Packet, from: Nat \X Nat]
             w == [packet |-> PacketAt(s, o, log[m].len), from |-> <<m, o>>]
  <1>3. w \in S
    <2>1. PacketAt(s, o, log[m].len) \in Packet
      BY <1>2, PacketOf
    <2> QED
      BY <1>2, <2>1
  <1>4. wire' \in Seq(S)
    <2>1. wire \in Seq(S)
      BY DEF TypeInv
    <2>2. wire' = wire \/ wire' = Append(wire, w)
      BY <1>1 DEF Writes
    <2> HIDE DEF S, w
    <2> QED
      BY <1>3, <2>1, <2>2, AppendProperties
  <1>5. tx' \in [Senders -> [msg: Nat, offset: Nat]]
    <2>1. Quiet \in [msg: Nat, offset: Nat] /\ [tx[s] EXCEPT !.offset = o + n] \in [msg: Nat, offset: Nat]
      BY <1>1, <1>2 DEF Quiet, Writes
    <2> QED
      BY <1>1, <2>1, ZenonT(30) DEF TypeInv, Writes
  <1>6. log' \in Seq(Entry)
    <2>1. \A fate \in {"refused", "sent"} : [log[m] EXCEPT !.fate = fate] \in Entry
      BY <1>2 DEF Entry
    <2>2. log \in Seq(Entry)
      BY DEF TypeInv
    <2>3. log' = log \/ \E e \in Entry : log' = [log EXCEPT ![m] = e]
      BY <1>1, <2>1 DEF Writes
    <2>4. \A e \in Entry : [log EXCEPT ![m] = e] \in Seq(Entry)
      BY <2>2, ExceptSeq
    <2> QED
      BY <2>2, <2>3, <2>4
  <1> QED
    BY <1>1, <1>4, <1>5, <1>6 DEF TypeInv, Writes

(* What a callback is given is what it is due.                             *)
LEMMA GivenIsContent ==
  ASSUME TypeInv, NEW m, NEW o, NEW s, NEW n, NEW d, Heads(m, o, s, n), Takes(m, o, s, n, d)
  PROVE  LET f == Receiver!Fill(IF o = 0 THEN <<>> ELSE asm[s.mt].buf, d, BufSize[s.mt])
         IN  /\ f \in Seq(Nat \X Nat) /\ Len(f) = Smaller(o + n, BufSize[s.mt])
             /\ Carries(source', f, m)
             /\ o + n = log[m].len =>
                  Given(source', s.mt, Receiver!Key(s), IF o = 0 THEN d ELSE f) = Content(m)
  <1> DEFINE buf == IF o = 0 THEN <<>> ELSE asm[s.mt].buf
             f   == Receiver!Fill(buf, d, BufSize[s.mt])
  <1>1. /\ m \in Nat /\ o \in Nat /\ n \in Nat \ {0} /\ s \in Senders /\ s = log[m].sender
        /\ Cut(m, o) /\ (o # 0 => Held(m, o)) /\ n = Chunk(s, o, log[m].len)
        /\ log[m].len \in Nat
    BY DEF Heads
  <1>2. BufSize[s.mt] \in Nat \ {0} /\ MaxData[s.mt] \in Nat \ {0} /\ s.mt \in Kinds
    BY <1>1, SenderType
  <1>3. buf \in Seq(Nat \X Nat) /\ Len(buf) = Smaller(o, BufSize[s.mt]) /\ Carries(source, buf, m)
    <2>1. CASE o = 0
      <3>1. buf = <<>> /\ Len(<<>>) = 0 /\ <<>> \in Seq(Nat \X Nat)
        BY <2>1, EmptySeq
      <3>2. Smaller(o, BufSize[s.mt]) = 0
        BY <1>2, <2>1 DEF Smaller
      <3>3. Carries(source, <<>>, m)
        <4>1. 1 .. 0 = {}
          OBVIOUS
        <4> QED
          BY <3>1, <4>1 DEF Carries
      <3> QED
        BY <3>1, <3>2, <3>3
    <2>2. CASE o # 0
      <3>1. asm[s.mt] \in [key: Keys, buf: Seq(Nat \X Nat)]
        BY <1>2 DEF TypeInv
      <3> QED
        BY <1>1, <2>2, <3>1 DEF Held
    <2> QED
      BY <2>1, <2>2
  <1>4. /\ source \in Seq(Nat \X Nat) /\ source' = Append(source, <<m, o>>)
        /\ d \in Seq(Nat \X Nat) /\ Len(d) = n /\ \A x \in 1 .. n : d[x] = <<Len(source) + 1, x>>
    BY DEF TypeInv, Takes
  <1> HIDE DEF buf
  <1>5. /\ f \in Seq(Nat \X Nat) /\ Len(f) = Smaller(o + n, BufSize[s.mt])
        /\ Carries(source', f, m) /\ (o = 0 => Carries(source', d, m))
    <2> DEFINE size == BufSize[s.mt]
    <2>1. /\ m \in Nat /\ o \in Nat /\ n \in Nat /\ size \in Nat
          /\ source \in Seq(Nat \X Nat) /\ buf \in Seq(Nat \X Nat) /\ d \in Seq(Nat \X Nat)
          /\ Len(d) = n /\ Numbered(d, Len(source) + 1)
          /\ Carries(source, buf, m) /\ Len(buf) = Smaller(o, size)
      BY <1>1, <1>2, <1>3, <1>4 DEF Numbered
    <2> HIDE DEF size
    <2>2. LET g   == Receiver!Fill(buf, d, size)
              all == Append(source, <<m, o>>)
          IN  /\ g \in Seq(Nat \X Nat) /\ Len(g) = Smaller(o + Len(d), size)
              /\ Carries(all, g, m) /\ Carries(all, buf, m)
              /\ o = 0 => Carries(all, d, m)
      BY <2>1, CarriesOn
    <2> QED
      BY <1>4, <2>1, <2>2 DEF size
  <1> HIDE DEF f
  <1>6. ASSUME o + n = log[m].len
        PROVE  Given(source', s.mt, Receiver!Key(s), IF o = 0 THEN d ELSE f) = Content(m)
    <2>1. CASE o = 0
      <3>1. Due(m) = n
        BY <1>1, <1>2, <1>6, <2>1 DEF Due, Chunk, Smaller
      <3> QED
        BY <1>1, <1>4, <1>5, <2>1, <3>1, GivenWhole
    <2>2. CASE o # 0
      <3>1. o >= MaxData[s.mt] /\ o < log[m].len
        BY <1>1, <2>2 DEF Cut
      <3>2. Due(m) = Smaller(o + n, BufSize[s.mt])
        BY <1>1, <1>2, <1>6, <3>1 DEF Due
      <3> QED
        BY <1>1, <1>5, <2>2, <3>2, GivenWhole
    <2> QED
      BY <2>1, <2>2
  <1> QED
    BY <1>5, <1>6 DEF f, buf

LEMMA TypeReceive ==
  ASSUME TypeInv, WireInv, Receive
  PROVE  TypeInv'
  <1>1. PICK m, o, s, n : Heads(m, o, s, n)
    BY HeadOfWire DEF Receive
  <1>2. PICK d : Takes(m, o, s, n, d)
    BY <1>1, ReceiveTakes
  <1> DEFINE f == Receiver!Fill(IF o = 0 THEN <<>> ELSE asm[s.mt].buf, d, BufSize[s.mt])
             S == [packet: Packet, from: Nat \X Nat]
             A == [key: Keys, buf: Seq(Nat \X Nat)]
  <1>3. /\ m \in 1 .. Len(log) /\ m \in Nat /\ o \in Nat /\ s \in Senders /\ s.mt \in Kinds
        /\ Len(wire) \in Nat \ {0}
    BY <1>1, SenderType DEF Heads, Cut
  <1>4. /\ f \in Seq(Nat \X Nat)
        /\ o + n = log[m].len => Given(source', s.mt, Receiver!Key(s), IF o = 0 THEN d ELSE f) = Content(m)
    BY <1>1, <1>2, GivenIsContent
  <1> HIDE DEF f
  <1>5. wire \in Seq(S)
    BY DEF TypeInv
  <1>6. wire[1].packet \in Packet
    <2>1. wire[1] \in S
      <3>1. 1 \in 1 .. Len(wire)
        BY <1>3
      <3> HIDE DEF S
      <3> QED
        BY <1>5, <3>1, ElementOfSeq
    <2> QED
      BY <2>1
  <1>7. wire' \in Seq(S)
    <2>1. wire # <<>> /\ wire' = Tail(wire)
      BY <1>2 DEF Takes, Receive
    <2> HIDE DEF S
    <2> QED
      BY <1>5, <2>1, HeadTailProperties
  <1>8. source' \in Seq(Nat \X Nat) /\ fed' \in Seq(Packet) /\ Len(fed') = Len(source')
    <2>1. source' = Append(source, <<m, o>>) /\ fed' = Append(fed, wire[1].packet)
      BY <1>2 DEF Takes
    <2>2. source \in Seq(Nat \X Nat) /\ fed \in Seq(Packet) /\ Len(fed) = Len(source)
      BY DEF TypeInv
    <2>3. <<m, o>> \in Nat \X Nat
      BY <1>3
    <2>4. source' \in Seq(Nat \X Nat) /\ Len(source') = Len(source) + 1
      BY <2>1, <2>2, <2>3, AppendProperties
    <2>5. fed' \in Seq(Packet) /\ Len(fed') = Len(fed) + 1
      BY <1>6, <2>1, <2>2, AppendProperties
    <2> QED
      BY <2>2, <2>4, <2>5
  <1>9. asm' \in [Kinds -> A]
    <2>1. Receiver!Idle \in A
      <3>1. <<>> \in Seq(Nat \X Nat)
        BY EmptySeq
      <3> QED
        BY <3>1 DEF Receiver!Idle, Keys
    <2>2. [key |-> Receiver!Key(s), buf |-> f] \in A
      BY <1>3, <1>4 DEF Keys
    <2>3. asm \in [Kinds -> A]
      BY DEF TypeInv
    <2>4. asm' = asm \/ \E x \in A : asm' = [asm EXCEPT ![s.mt] = x]
      BY <1>2, <2>1, <2>2 DEF Takes, f
    <2> HIDE DEF A
    <2> QED
      BY <1>3, <2>3, <2>4
  <1>10. delivered' \in Seq(Outcome)
    <2>1. delivered' = delivered \/ delivered' = Append(delivered, Content(m))
      BY <1>2, <1>4 DEF Takes, f
    <2>2. Content(m) \in Outcome
      BY <1>3, ContentType
    <2>3. delivered \in Seq(Outcome)
      BY DEF TypeInv
    <2> QED
      BY <2>1, <2>2, <2>3, AppendProperties
  <1>11. tx' = tx /\ log' = log
    BY <1>2 DEF Takes
  <1> QED
    BY <1>7, <1>8, <1>9, <1>10, <1>11 DEF TypeInv

-----------------------------------------------------------------------------
(* What is said of a message stays true of it: its sender and its length   *)
(* are what they were.                                                     *)

Steady == \A m \in 1 .. Len(log) : /\ m \in 1 .. Len(log')
                                  /\ log'[m].sender = log[m].sender /\ log'[m].len = log[m].len

LEMMA SteadyFacts ==
  ASSUME Steady
  PROVE  /\ \A m, o : Cut(m, o) => Cut(m, o)'
         /\ \A w : Sound(w) => Sound(w)'
         /\ \A m \in 1 .. Len(log) : Content(m)' = Content(m) /\ Due(m)' = Due(m)
  <1>1. \A m, o : Cut(m, o) => Cut(m, o)'
    BY DEF Cut, Steady
  <1>2. \A w : Sound(w) => Sound(w)'
    <2>1. SUFFICES ASSUME NEW w, Sound(w) PROVE Sound(w)'
      OBVIOUS
    <2>2. Cut(w.from[1], w.from[2]) /\ w.from[1] \in 1 .. Len(log)
      BY <2>1 DEF Sound, Cut
    <2>3. Cut(w.from[1], w.from[2])'
      BY <1>1, <2>2
    <2> QED
      BY <2>1, <2>2, <2>3 DEF Sound, Steady
  <1>3. \A m \in 1 .. Len(log) : Content(m)' = Content(m) /\ Due(m)' = Due(m)
    BY DEF Content, Due, Steady
  <1> QED
    BY <1>1, <1>2, <1>3

LEMMA SteadyBegin ==
  ASSUME TypeInv, NEW s \in Senders, NEW len \in Lengths, Begin(s, len)
  PROVE  /\ Steady /\ Len(log') = Len(log) + 1 /\ Len(log) \in Nat
         /\ \A m \in 1 .. Len(log) : log'[m] = log[m]
         /\ log'[Len(log) + 1] = [sender |-> s, len |-> len, fate |-> "sending"]
  <1> DEFINE e == [sender |-> s, len |-> len, fate |-> "sending"]
  <1>1. log' = Append(log, e) /\ log \in Seq(Entry)
    BY DEF Begin, TypeInv
  <1>2. e \in Entry
    BY DEF Entry
  <1> HIDE DEF e
  <1>3. /\ Len(log') = Len(log) + 1 /\ Len(log) \in Nat /\ log'[Len(log) + 1] = e
        /\ \A m \in 1 .. Len(log) : log'[m] = log[m]
    BY <1>1, <1>2, AppendProperties, LenProperties
  <1>4. Steady
    BY <1>3 DEF Steady
  <1> QED
    BY <1>3, <1>4 DEF e

LEMMA SteadyWrite ==
  ASSUME TypeInv, NEW s \in Senders, NEW m \in 1 .. Len(log), NEW o, NEW n, Writes(s, m, o, n)
  PROVE  /\ Steady /\ Len(log') = Len(log)
         /\ \A q \in 1 .. Len(log) : q # m => log'[q] = log[q]
         /\ log'[m].fate = IF wire' = wire THEN "refused"
                           ELSE IF o + n = log[m].len THEN "sent" ELSE log[m].fate
  <1>1. log \in Seq(Entry) /\ log[m] \in Entry
    BY EntryType DEF TypeInv
  <1>2. wire' = wire \/ \E w : wire' = Append(wire, w)
    BY DEF Writes
  <1>3. \A w : Append(wire, w) # wire
    <2>1. Len(wire) \in Nat /\ wire \in Seq([packet: Packet, from: Nat \X Nat])
      BY LenProperties DEF TypeInv
    <2> QED
      BY <2>1
  <1>4. log' = log \/ \E fate \in {"refused", "sent"} : log' = [log EXCEPT ![m] = [@ EXCEPT !.fate = fate]]
    BY DEF Writes
  <1>5. ASSUME NEW fate \in {"refused", "sent"}, log' = [log EXCEPT ![m] = [@ EXCEPT !.fate = fate]]
        PROVE  /\ Len(log') = Len(log) /\ \A q \in 1 .. Len(log) : q # m => log'[q] = log[q]
               /\ log'[m].sender = log[m].sender /\ log'[m].len = log[m].len /\ log'[m].fate = fate
    <2> DEFINE e == [log[m] EXCEPT !.fate = fate]
    <2>1. e \in Entry /\ e.sender = log[m].sender /\ e.len = log[m].len /\ e.fate = fate
      BY <1>1 DEF Entry
    <2>2. log' = [log EXCEPT ![m] = e]
      BY <1>5
    <2> HIDE DEF e
    <2>3. Len(log') = Len(log) /\ \A q \in 1 .. Len(log) : log'[q] = IF q = m THEN e ELSE log[q]
      BY <1>1, <2>1, <2>2, ExceptSeq
    <2> QED
      BY <2>1, <2>3
  <1>6. CASE wire' = wire
    <2>1. log' = [log EXCEPT ![m] = [@ EXCEPT !.fate = "refused"]]
      BY <1>3, <1>6 DEF Writes
    <2>2. "refused" \in {"refused", "sent"}
      OBVIOUS
    <2> QED
      BY <1>5, <1>6, <2>1, <2>2 DEF Steady
  <1>7. CASE wire' # wire /\ o + n = log[m].len
    <2>1. log' = [log EXCEPT ![m] = [@ EXCEPT !.fate = "sent"]]
      BY <1>7 DEF Writes
    <2>2. "sent" \in {"refused", "sent"}
      OBVIOUS
    <2> QED
      BY <1>5, <1>7, <2>1, <2>2 DEF Steady
  <1>8. CASE wire' # wire /\ o + n # log[m].len
    <2>1. log' = log
      BY <1>8 DEF Writes
    <2> QED
      BY <1>8, <2>1 DEF Steady
  <1> QED
    BY <1>6, <1>7, <1>8

-----------------------------------------------------------------------------
(* The wire and its senders go on from each other. *)

(* What was reached stays so when the wire only gets longer.               *)
LEMMA SameReached ==
  ASSUME TypeInv, Steady, UNCHANGED <<source, asm>>,
         \A t \in 1 .. Len(wire) : wire'[t] = wire[t],
         NEW m \in 1 .. Len(log), NEW o, NEW i \in 0 .. Len(wire), Reached(i, m, o)
  PROVE  Reached(i, m, o)'
  <1>1. /\ log'[m].sender = log[m].sender /\ log'[m].len = log[m].len
        /\ Len(wire) \in Nat
    BY LenProperties DEF Steady, TypeInv
  <1> DEFINE kind == log[m].sender.mt
  <1>2. PICK k : k = kind
    OBVIOUS
  <1>3. \A t \in 1 .. i : wire'[t] = wire[t]
    BY <1>1
  <1>4. Held(m, o) => Held(m, o)'
    BY <1>1 DEF Held
  <1>5. \A j \in 1 .. i : Ends(j, m, o) => Ends(j, m, o)'
    BY <1>1, <1>3 DEF Ends
  <1>6. \A j \in 1 .. i + 1 : NoneOf(k, j, i) => NoneOf(k, j, i)'
    BY <1>3 DEF NoneOf
  <1>7. CASE \E j \in 1 .. i : Ends(j, m, o) /\ NoneOf(k, j + 1, i)
    <2>1. PICK j \in 1 .. i : Ends(j, m, o) /\ NoneOf(k, j + 1, i)
      BY <1>7, <1>2
    <2>2. j + 1 \in 1 .. i + 1
      OBVIOUS
    <2>3. Ends(j, m, o)' /\ NoneOf(k, j + 1, i)'
      BY <1>5, <1>6, <2>1, <2>2
    <2> QED
      BY <1>1, <1>2, <2>3 DEF Reached
  <1>8. CASE NoneOf(k, 1, i) /\ Held(m, o)
    <2>1. 1 \in 1 .. i + 1
      OBVIOUS
    <2> QED
      BY <1>1, <1>4, <1>6, <1>8, <1>2, <2>1 DEF Reached
  <1> QED
    BY <1>7, <1>8, <1>2 DEF Reached

LEMMA SentBegin ==
  ASSUME LinkInv, NEW s \in Senders, NEW len \in Lengths, Begin(s, len)
  PROVE  WireInv' /\ SendersInv' /\ OneAtATime' /\ DeliveredWereSent'
  <1>1. TypeInv /\ WireInv /\ SendersInv /\ OneAtATime /\ DeliveredWereSent
    BY DEF LinkInv
  <1>2. /\ tx' = [tx EXCEPT ![s] = [msg |-> Len(log) + 1, offset |-> 0]]
        /\ UNCHANGED <<wire, source, delivered, fed, asm>>
        /\ \A q \in Senders : q.mt = s.mt => tx[q] = Quiet
    BY DEF Begin, procVars
  <1>3. /\ Steady /\ Len(log') = Len(log) + 1 /\ Len(log) \in Nat
        /\ \A m \in 1 .. Len(log) : log'[m] = log[m]
        /\ log'[Len(log) + 1] = [sender |-> s, len |-> len, fate |-> "sending"]
    BY <1>1, SteadyBegin
  <1>4. /\ \A m, o : Cut(m, o) => Cut(m, o)'
        /\ \A w : Sound(w) => Sound(w)'
        /\ \A m \in 1 .. Len(log) : Content(m)' = Content(m)
    BY <1>3, SteadyFacts
  <1>5. \A m \in 1 .. Len(log) : \A o : \A i \in 0 .. Len(wire) : Reached(i, m, o) => Reached(i, m, o)'
    BY <1>1, <1>2, <1>3, SameReached
  <1>6. Len(wire) \in Nat
    BY <1>1, LenProperties DEF TypeInv
  <1>7. WireInv'
    <2>1. SUFFICES ASSUME NEW i \in 1 .. Len(wire)
                   PROVE  /\ Sound(wire[i])'
                          /\ wire[i].from[2] # 0 => Reached(i - 1, wire[i].from[1], wire[i].from[2])'
      BY <1>2 DEF WireInv
    <2>2. Sound(wire[i]) /\ (wire[i].from[2] # 0 => Reached(i - 1, wire[i].from[1], wire[i].from[2]))
      BY <1>1 DEF WireInv
    <2>3. wire[i].from[1] \in 1 .. Len(log) /\ i - 1 \in 0 .. Len(wire)
      BY <1>6, <2>2 DEF Sound, Cut
    <2>4. Sound(wire[i])'
      BY <1>2, <1>4, <2>2
    <2>5. ASSUME wire[i].from[2] # 0 PROVE Reached(i - 1, wire[i].from[1], wire[i].from[2])'
      <3>1. PICK m, o : m \in 1 .. Len(log) /\ m = wire[i].from[1] /\ o = wire[i].from[2]
        BY <2>3
      <3>2. Reached(i - 1, m, o)'
        BY <1>5, <2>2, <2>3, <2>5, <3>1
      <3> QED
        BY <1>2, <3>1, <3>2
    <2> QED
      BY <2>4, <2>5
  <1>8. SendersInv'
    <2>1. SUFFICES ASSUME NEW q \in Senders, tx'[q] # Quiet
                   PROVE  /\ Cut(tx[q].msg, tx[q].offset)'
                          /\ log'[tx'[q].msg].sender = q /\ log'[tx'[q].msg].fate = "sending"
                          /\ tx'[q].offset # 0 => Reached(Len(wire), tx[q].msg, tx[q].offset)'
      BY DEF SendersInv, Quiet
    <2>2. CASE q = s
      <3>1. tx'[q] = [msg |-> Len(log) + 1, offset |-> 0]
        BY <1>1, <1>2, <2>2 DEF TypeInv
      <3>2. len \in Nat \ {0}
        BY LinkAssumption
      <3>3. PICK m : m = Len(log) + 1
        OBVIOUS
      <3>4. Cut(m, 0)'
        BY <1>3, <3>2, <3>3 DEF Cut
      <3> QED
        BY <1>3, <2>2, <3>1, <3>3, <3>4
    <2>3. CASE q # s
      <3>1. tx'[q] = tx[q]
        BY <1>1, <1>2, <2>3 DEF TypeInv
      <3>2. /\ Cut(tx[q].msg, tx[q].offset)
            /\ log[tx[q].msg].sender = q /\ log[tx[q].msg].fate = "sending"
            /\ tx[q].offset # 0 => Reached(Len(wire), tx[q].msg, tx[q].offset)
        BY <1>1, <2>1, <3>1 DEF SendersInv
      <3>3. PICK m, o : m \in 1 .. Len(log) /\ m = tx[q].msg /\ o = tx[q].offset
        BY <3>2 DEF Cut
      <3>6. PICK i : i = Len(wire) /\ i \in 0 .. Len(wire)
        BY <1>6
      <3>4. Cut(m, o)' /\ log'[m] = log[m]
        BY <1>3, <1>4, <3>2, <3>3
      <3>5. o # 0 => Reached(i, m, o)'
        BY <1>5, <3>2, <3>3, <3>6
      <3> QED
        BY <1>2, <3>1, <3>2, <3>3, <3>4, <3>5, <3>6
    <2> QED
      BY <2>2, <2>3
  <1>9. OneAtATime'
    <2>1. \A q \in Senders : q # s => tx'[q] = tx[q]
      BY <1>1, <1>2 DEF TypeInv
    <2> QED
      BY <1>1, <1>2, <2>1 DEF OneAtATime, Quiet
  <1>10. DeliveredWereSent'
    <2>1. \A i \in DOMAIN delivered : \E m \in 1 .. Len(log) : delivered[i] = Content(m)
      BY <1>1, LenProperties DEF DeliveredWereSent, TypeInv
    <2>2. log' \in Seq(Entry)
      BY <1>1, TypeBegin DEF TypeInv
    <2>3. DOMAIN log' = 1 .. Len(log')
      BY <2>2, LenProperties
    <2> QED
      BY <1>2, <1>3, <1>4, <2>1, <2>3 DEF DeliveredWereSent
  <1> QED
    BY <1>7, <1>8, <1>9, <1>10

LEMMA LongerWire ==
  ASSUME TypeInv, NEW s \in Senders, NEW m \in 1 .. Len(log), NEW o \in Nat, NEW n, Writes(s, m, o, n)
  PROVE  LET w == [packet |-> PacketAt(s, o, log[m].len), from |-> <<m, o>>]
         IN  /\ Len(wire) \in Nat /\ \A t \in 1 .. Len(wire) : wire'[t] = wire[t]
             /\ \/ wire' = wire /\ tx' = [tx EXCEPT ![s] = Quiet]
                \/ /\ Len(wire') = Len(wire) + 1 /\ wire'[Len(wire) + 1] = w
                   /\ wire' # wire
             /\ Sound(w) /\ w.packet.mt = s.mt
  <1> DEFINE S == [packet: Packet, from: Nat \X Nat]
             w == [packet |-> PacketAt(s, o, log[m].len), from |-> <<m, o>>]
  <1>1. wire \in Seq(S)
    BY DEF TypeInv
  <1>2. Cut(m, o) /\ log[m].sender = s
    BY DEF Writes
  <1>3. log[m].len \in Nat /\ m \in Nat /\ o \in 0 .. log[m].len - 1
    BY <1>2, EntryType DEF Cut
  <1>4. PacketAt(s, o, log[m].len) \in Packet /\ PacketAt(s, o, log[m].len).mt = s.mt
    BY <1>3, PacketOf
  <1>5. w \in S /\ w.packet.mt = s.mt /\ w.from[1] = m /\ w.from[2] = o
    BY <1>3, <1>4
  <1>6. Sound(w)
    BY <1>2 DEF Sound
  <1>7. (wire' = wire /\ tx' = [tx EXCEPT ![s] = Quiet]) \/ wire' = Append(wire, w)
    BY DEF Writes
  <1> HIDE DEF w, S
  <1>8. Len(wire) \in Nat
    BY <1>1, LenProperties
  <1>9. CASE wire' = Append(wire, w)
    <2>1. /\ Len(wire') = Len(wire) + 1 /\ wire'[Len(wire) + 1] = w
          /\ \A t \in 1 .. Len(wire) : wire'[t] = wire[t]
      BY <1>1, <1>5, <1>9, AppendProperties
    <2>2. wire' # wire
      BY <1>8, <2>1
    <2> QED
      BY <1>5, <1>6, <1>8, <2>1, <2>2 DEF w
  <1>10. CASE wire' = wire /\ tx' = [tx EXCEPT ![s] = Quiet]
    BY <1>5, <1>6, <1>8, <1>10 DEF w
  <1> QED
    BY <1>7, <1>9, <1>10

(* A packet of another kind on the wire takes nothing away.                *)
LEMMA OtherKind ==
  ASSUME NEW i \in Nat, NEW j, j = i + 1, NEW m, NEW o, NEW k, k = log'[m].sender.mt,
         Reached(i, m, o)', wire'[j].packet.mt # k
  PROVE  Reached(j, m, o)'
  <1>1. \A t \in 1 .. i + 1 : NoneOf(k, t, i)' => NoneOf(k, t, j)'
    <2>1. ASSUME NEW t \in 1 .. i + 1, NEW x \in t .. j, NoneOf(k, t, i)' PROVE wire'[x].packet.mt # k
      <3>1. x = j \/ x \in t .. i
        OBVIOUS
      <3> QED
        BY <2>1, <3>1 DEF NoneOf
    <2> QED
      BY <2>1 DEF NoneOf
  <1>2. CASE \E t \in 1 .. i : Ends(t, m, o)' /\ NoneOf(k, t + 1, i)'
    <2>1. PICK t \in 1 .. i : Ends(t, m, o)' /\ NoneOf(k, t + 1, i)'
      BY <1>2
    <2>2. t + 1 \in 1 .. i + 1 /\ t \in 1 .. j
      OBVIOUS
    <2>3. NoneOf(k, t + 1, j)'
      BY <1>1, <2>1, <2>2
    <2> QED
      BY <2>1, <2>2, <2>3 DEF Reached
  <1>3. CASE NoneOf(k, 1, i)' /\ Held(m, o)'
    <2>1. 1 \in 1 .. i + 1
      OBVIOUS
    <2>2. NoneOf(k, 1, j)'
      BY <1>1, <1>3, <2>1
    <2> QED
      BY <1>3, <2>2 DEF Reached
  <1> QED
    BY <1>2, <1>3 DEF Reached

LEMMA SentWrite ==
  ASSUME LinkInv, NEW s \in Senders, Write(s), ~ Silent
  PROVE  WireInv' /\ SendersInv' /\ OneAtATime' /\ DeliveredWereSent'
  <1>1. TypeInv /\ WireInv /\ SendersInv /\ OneAtATime /\ DeliveredWereSent
    BY DEF LinkInv
  <1>2. PICK m \in 1 .. Len(log), o \in Nat, n \in Nat \ {0} : Writes(s, m, o, n)
    BY <1>1, WriteEffect
  <1> DEFINE w == [packet |-> PacketAt(s, o, log[m].len), from |-> <<m, o>>]
  <1>3. /\ Steady /\ Len(log') = Len(log) /\ \A q \in 1 .. Len(log) : q # m => log'[q] = log[q]
        /\ log'[m].fate = IF wire' = wire THEN "refused"
                          ELSE IF o + n = log[m].len THEN "sent" ELSE log[m].fate
    BY <1>1, <1>2, SteadyWrite
  <1>4. /\ Len(wire) \in Nat /\ \A t \in 1 .. Len(wire) : wire'[t] = wire[t]
        /\ \/ wire' = wire /\ tx' = [tx EXCEPT ![s] = Quiet]
           \/ Len(wire') = Len(wire) + 1 /\ wire'[Len(wire) + 1] = w /\ wire' # wire
        /\ Sound(w) /\ w.packet.mt = s.mt
    BY <1>1, <1>2, LongerWire
  <1>5. /\ Cut(m, o) /\ log[m].sender = s /\ log[m].fate = "sending" /\ tx[s] # Quiet
        /\ tx[s] = [msg |-> m, offset |-> o]
        /\ n = Chunk(s, o, log[m].len) /\ o + n <= log[m].len
        /\ o # 0 => Reached(Len(wire), m, o)
        /\ UNCHANGED <<source, delivered, fed, asm>>
        /\ \/ tx' = [tx EXCEPT ![s] = Quiet]
           \/ o + n # log[m].len /\ tx' = [tx EXCEPT ![s] = [@ EXCEPT !.offset = o + n]]
    BY <1>2 DEF Writes
  <1> HIDE DEF w
  <1>6. w.from[1] = m /\ w.from[2] = o
    BY DEF w
  <1>7. /\ \A x, y : Cut(x, y) => Cut(x, y)'
        /\ \A x : Sound(x) => Sound(x)'
        /\ \A x \in 1 .. Len(log) : Content(x)' = Content(x)
    BY <1>3, SteadyFacts
  <1>8. \A x \in 1 .. Len(log) : \A y : \A i \in 0 .. Len(wire) : Reached(i, x, y) => Reached(i, x, y)'
    BY <1>1, <1>3, <1>4, <1>5, SameReached
  <1>9. WireInv'
    <2>1. SUFFICES ASSUME NEW i \in 1 .. Len(wire')
                   PROVE  /\ \A x : x = wire'[i] => Sound(x)'
                          /\ \A x, y, j : x = wire'[i].from[1] /\ y = wire'[i].from[2] /\ j = i - 1 /\ y # 0 =>
                               Reached(j, x, y)'
      <3>1. \A i \in 1 .. Len(wire') : Sound(wire[i])' /\ (wire'[i].from[2] # 0 => Reached(i - 1, wire[i].from[1], wire[i].from[2])')
        BY <2>1
      <3> QED
        BY <3>1 DEF WireInv
    <2>2. CASE i \in 1 .. Len(wire)
      <3>1. /\ Sound(wire[i]) /\ wire'[i] = wire[i]
            /\ wire[i].from[2] # 0 => Reached(i - 1, wire[i].from[1], wire[i].from[2])
        BY <1>1, <1>4, <2>2 DEF WireInv
      <3>2. wire[i].from[1] \in 1 .. Len(log) /\ i - 1 \in 0 .. Len(wire)
        BY <1>4, <2>2, <3>1 DEF Sound, Cut
      <3> QED
        BY <1>7, <1>8, <3>1, <3>2
    <2>3. CASE i \notin 1 .. Len(wire)
      <3>1. i = Len(wire) + 1 /\ wire'[i] = w
        BY <1>4, <2>1, <2>3
      <3>2. i - 1 = Len(wire) /\ i - 1 \in 0 .. Len(wire)
        BY <1>4, <3>1
      <3> QED
        BY <1>4, <1>5, <1>6, <1>7, <1>8, <3>1, <3>2
    <2> QED
      BY <2>2, <2>3
  <1>10. ASSUME NEW q \in Senders, tx'[q] # Quiet, q # s
         PROVE  /\ tx'[q] = tx[q] /\ tx[q] # Quiet /\ q.mt # s.mt
                /\ Cut(tx[q].msg, tx[q].offset) /\ tx[q].msg \in 1 .. Len(log)
                /\ log'[tx[q].msg].sender = q /\ log'[tx[q].msg].fate = "sending"
                /\ tx[q].offset # 0 => Reached(Len(wire), tx[q].msg, tx[q].offset)
    <2>1. tx'[q] = tx[q]
      BY <1>1, <1>5, <1>10 DEF TypeInv
    <2>2. /\ Cut(tx[q].msg, tx[q].offset) /\ log[tx[q].msg].sender = q
          /\ log[tx[q].msg].fate = "sending"
          /\ tx[q].offset # 0 => Reached(Len(wire), tx[q].msg, tx[q].offset)
      BY <1>1, <1>10, <2>1 DEF SendersInv
    <2>3. tx[q].msg \in 1 .. Len(log) /\ tx[q].msg # m
      BY <1>5, <1>10, <2>2 DEF Cut
    <2>4. q.mt # s.mt
      BY <1>1, <1>5, <1>10, <2>1 DEF OneAtATime
    <2> QED
      BY <1>3, <1>10, <2>1, <2>2, <2>3, <2>4
  <1>11. SendersInv'
    <2>1. SUFFICES ASSUME NEW q \in Senders, tx'[q] # Quiet
                   PROVE  \A x, y, j : x = tx'[q].msg /\ y = tx'[q].offset /\ j = Len(wire') =>
                            /\ Cut(x, y)' /\ log'[x].sender = q /\ log'[x].fate = "sending"
                            /\ y # 0 => Reached(j, x, y)'
      <3>1. \A q \in Senders : tx'[q] # Quiet =>
              /\ Cut(tx[q].msg, tx[q].offset)'
              /\ log'[tx'[q].msg].sender = q /\ log'[tx'[q].msg].fate = "sending"
              /\ tx'[q].offset # 0 => Reached(Len(wire), tx[q].msg, tx[q].offset)'
        BY <2>1
      <3> QED
        BY <3>1 DEF SendersInv, Quiet
    <2>2. CASE q # s
      <3>1. PICK x, y : x = tx[q].msg /\ y = tx[q].offset
        OBVIOUS
      <3>2. PICK i : i = Len(wire)
        OBVIOUS
      <3>3. /\ tx'[q] = tx[q] /\ q.mt # s.mt /\ Cut(x, y) /\ x \in 1 .. Len(log)
            /\ log'[x].sender = q /\ log'[x].fate = "sending"
            /\ y # 0 => Reached(i, x, y)
        BY <1>10, <2>1, <2>2, <3>1, <3>2
      <3>4. i \in Nat /\ i \in 0 .. Len(wire)
        BY <1>4, <3>2
      <3>5. Cut(x, y)' /\ (y # 0 => Reached(i, x, y)')
        BY <1>7, <1>8, <3>3, <3>4
      <3>6. ASSUME NEW j, j = Len(wire'), y # 0 PROVE Reached(j, x, y)'
        <4>1. CASE wire' = wire
          BY <3>2, <3>5, <3>6, <4>1
        <4>2. CASE wire' # wire
          <5>1. j = i + 1 /\ wire'[j].packet.mt # log'[x].sender.mt
            BY <1>4, <3>2, <3>3, <3>6, <4>2
          <5> QED
            BY <3>4, <3>5, <3>6, <5>1, OtherKind
        <4> QED
          BY <4>1, <4>2
      <3> QED
        BY <3>1, <3>3, <3>5, <3>6
    <2>3. CASE q = s
      <3>1. o + n # log[m].len /\ tx' = [tx EXCEPT ![s] = [@ EXCEPT !.offset = o + n]]
        <4>1. tx' # [tx EXCEPT ![s] = Quiet]
          BY <1>1, <2>1, <2>3 DEF TypeInv
        <4> QED
          BY <1>5, <4>1
      <3>2. tx'[q] = [msg |-> m, offset |-> o + n]
        BY <1>1, <1>5, <2>3, <3>1 DEF TypeInv
      <3>3. /\ Len(wire') = Len(wire) + 1 /\ wire'[Len(wire) + 1] = w /\ wire' # wire
        <4>1. tx' # [tx EXCEPT ![s] = Quiet]
          BY <1>1, <2>1, <2>3 DEF TypeInv
        <4> QED
          BY <1>4, <4>1
      <3>4. PICK p : p = o + n
        OBVIOUS
      <3>5. p \in Nat /\ log[m].len \in Nat /\ p < log[m].len /\ (p # 0 => p >= MaxData[s.mt])
        <4>1. log[m].len \in Nat /\ o \in 0 .. log[m].len - 1
          BY <1>1, <1>5, EntryType DEF Cut
        <4>2. n = MaxData[s.mt] /\ MaxData[s.mt] \in Nat
          BY <1>5, <3>1, <4>1, ChunkType, SenderType
        <4>3. o + n <= log[m].len /\ o + n # log[m].len
          BY <1>5, <3>1
        <4> HIDE DEF w
        <4>4. \A len, max \in Nat : o + n <= len /\ o + n # len /\ n = max => o + n < len /\ o + n >= max
          OBVIOUS
        <4> QED
          BY <3>4, <4>1, <4>2, <4>3, <4>4
      <3>6. Cut(m, p)
        BY <1>5, <3>5 DEF Cut
      <3>7. log'[m].sender = s /\ log'[m].fate = "sending" /\ log'[m].len = log[m].len
        BY <1>3, <1>5, <3>1, <3>3 DEF Steady
      <3>8. ASSUME NEW j, j = Len(wire') PROVE Reached(j, m, p)'
        <4>1. j \in 1 .. j /\ wire'[j] = w
          BY <1>4, <3>3, <3>8
        <4>2. Ends(j, m, p)'
          BY <1>5, <1>6, <3>4, <3>7, <4>1 DEF Ends
        <4>3. \A k : NoneOf(k, j + 1, j)'
          <5>1. j \in Nat
            BY <1>4, <3>3, <3>8
          <5>2. j + 1 .. j = {}
            BY <5>1
          <5> QED
            BY <5>2 DEF NoneOf
        <4> QED
          BY <4>1, <4>2, <4>3 DEF Reached
      <3> QED
        BY <1>7, <2>3, <3>2, <3>4, <3>6, <3>7, <3>8
    <2> QED
      BY <2>2, <2>3
  <1>12. OneAtATime'
    <2>1. \A q \in Senders : tx'[q] # Quiet => tx[q] # Quiet
      BY <1>5, <1>10
    <2> QED
      BY <1>1, <2>1 DEF OneAtATime, Quiet
  <1>13. DeliveredWereSent'
    <2>1. \A i \in DOMAIN delivered : \E x \in 1 .. Len(log) : delivered[i] = Content(x)
      BY <1>1, LenProperties DEF DeliveredWereSent, TypeInv
    <2>2. log' \in Seq(Entry)
      BY <1>1, TypeWrite DEF TypeInv
    <2>3. DOMAIN log' = 1 .. Len(log')
      BY <2>2, LenProperties
    <2> QED
      BY <1>3, <1>5, <1>7, <2>1, <2>3 DEF DeliveredWereSent
  <1> QED
    BY <1>9, <1>11, <1>12, <1>13

LEMMA ShorterWire ==
  ASSUME TypeInv, NEW m, NEW o, NEW s, NEW n, NEW d, Heads(m, o, s, n), Takes(m, o, s, n, d)
  PROVE  /\ Len(wire) \in Nat \ {0} /\ Len(wire') = Len(wire) - 1
         /\ \A i \in 1 .. Len(wire') : wire'[i] = wire[i + 1]
  <1> DEFINE S == [packet: Packet, from: Nat \X Nat]
  <1>1. wire \in Seq(S) /\ wire' = Tail(wire) /\ Len(wire) \in Nat \ {0}
    BY DEF TypeInv, Heads, Takes
  <1> HIDE DEF S
  <1>2. wire # <<>>
    BY <1>1, EmptySeq
  <1> QED
    BY <1>1, <1>2, HeadTailProperties

(* What the receiver holds of a kind stays, but for the packet it takes.   *)
LEMMA TakenIsHeld ==
  ASSUME TypeInv, NEW m, NEW o, NEW s, NEW n, NEW d, Heads(m, o, s, n), Takes(m, o, s, n, d)
  PROVE  /\ \A x \in 1 .. Len(log) : \A y : Held(x, y) /\ log[x].sender.mt # s.mt => Held(x, y)'
         /\ \A y : y = o + n /\ y # log[m].len => Held(m, y)'
  <1>1. /\ s \in Senders /\ s = log[m].sender /\ m \in Nat /\ o \in Nat
        /\ s.mt \in Kinds
    BY SenderType DEF Heads
  <1>2. log' = log /\ source' = Append(source, <<m, o>>)
    BY DEF Takes
  <1>3. source \in Seq(Nat \X Nat) /\ asm \in [Kinds -> [key: Keys, buf: Seq(Nat \X Nat)]]
    BY DEF TypeInv
  <1>4. \A b, x : Carries(source, b, x) => Carries(source', b, x)
    <2>1. <<m, o>> \in Nat \X Nat
      BY <1>1
    <2>2. /\ Len(source) \in Nat /\ Len(source') = Len(source) + 1
          /\ \A i \in 1 .. Len(source) : source'[i] = source[i]
      <3> DEFINE P == Nat \X Nat
      <3> HIDE DEF P
      <3>1. source \in Seq(P) /\ <<m, o>> \in P
        BY <1>3, <2>1 DEF P
      <3> QED
        BY <1>2, <3>1, AppendProperties, LenProperties
    <2>3. \A i \in 1 .. Len(source) : i \in 1 .. Len(source')
      BY <2>2
    <2> QED
      BY <2>2, <2>3 DEF Carries
  <1>5. ASSUME NEW x \in 1 .. Len(log), NEW y, Held(x, y), log[x].sender.mt # s.mt PROVE Held(x, y)'
    <2> DEFINE k == log[x].sender.mt
    <2>1. asm'[k] = asm[k]
      <3>1. asm' = asm \/ \E e : asm' = [asm EXCEPT ![s.mt] = e]
        BY DEF Takes
      <3> HIDE DEF k
      <3>2. k # s.mt /\ k \in Kinds
        BY <1>5, EntryType, SenderType DEF k
      <3> QED
        BY <1>1, <1>3, <3>1, <3>2
    <2> QED
      BY <1>2, <1>4, <1>5, <2>1 DEF Held
  <1>6. ASSUME NEW y, y = o + n, y # log[m].len PROVE Held(m, y)'
    <2> DEFINE f == Receiver!Fill(IF o = 0 THEN <<>> ELSE asm[s.mt].buf, d, BufSize[s.mt])
    <2>1. Len(f) = Smaller(y, BufSize[s.mt]) /\ Carries(source', f, m)
      BY <1>6, GivenIsContent
    <2>2. asm' = [asm EXCEPT ![s.mt] = [key |-> Receiver!Key(s), buf |-> f]]
      BY <1>6 DEF Takes
    <2> HIDE DEF f
    <2>3. asm'[s.mt].key = Receiver!Key(s) /\ asm'[s.mt].buf = f
      BY <1>1, <1>3, <2>2
    <2> QED
      BY <1>1, <1>2, <2>1, <2>3 DEF Held
  <1> QED
    BY <1>5, <1>6

LEMMA ReachedEarlier ==
  ASSUME TypeInv, NEW m, NEW o, NEW s, NEW n, NEW d, Heads(m, o, s, n), Takes(m, o, s, n, d),
         NEW i \in 1 .. Len(wire), NEW h, h = i - 1, NEW x \in 1 .. Len(log), NEW y, Reached(i, x, y), y # log[x].len
  PROVE  Reached(h, x, y)'
  <1>1. PICK k : k = log[x].sender.mt
    OBVIOUS
  <1>2. /\ log' = log /\ s = log[m].sender /\ n = Chunk(s, o, log[m].len)
        /\ wire[1].from[1] = m /\ wire[1].from[2] = o /\ wire[1].packet.mt = s.mt
    BY DEF Heads, Takes
  <1>3. /\ Len(wire) \in Nat \ {0} /\ Len(wire') = Len(wire) - 1
        /\ \A t \in 1 .. Len(wire') : wire'[t] = wire[t + 1]
    BY ShorterWire
  <1>4. h \in Nat /\ i = h + 1 /\ h <= Len(wire') /\ i \in Nat \ {0}
    BY <1>3
  <1>5. \A j \in 1 .. h + 1 : NoneOf(k, j + 1, i) => NoneOf(k, j, h)'
    <2>1. SUFFICES ASSUME NEW j \in 1 .. h + 1, NoneOf(k, j + 1, i), NEW t \in j .. h
                   PROVE  wire'[t].packet.mt # k
      BY DEF NoneOf
    <2>2. t \in 1 .. Len(wire') /\ t + 1 \in j + 1 .. i
      BY <1>3, <1>4
    <2> QED
      BY <1>3, <2>1, <2>2 DEF NoneOf
  <1>6. 1 \in 1 .. h + 1 /\ (NoneOf(k, 2, i) => NoneOf(k, 1, h)')
    <2>1. 1 \in 1 .. h + 1 /\ 1 + 1 = 2
      BY <1>4
    <2> QED
      BY <1>5, <2>1
  <1>7. /\ \A a \in 1 .. Len(log) : \A b : Held(a, b) /\ log[a].sender.mt # s.mt => Held(a, b)'
        /\ \A b : b = o + n /\ b # log[m].len => Held(m, b)'
    BY TakenIsHeld
  <1>8. CASE NoneOf(k, 1, i) /\ Held(x, y)
    <2>1. 1 \in 1 .. i /\ \A t \in 2 .. i : t \in 1 .. i
      BY <1>4
    <2>2. NoneOf(k, 2, i) /\ k # s.mt
      BY <1>2, <1>8, <2>1 DEF NoneOf
    <2> QED
      BY <1>1, <1>2, <1>6, <1>7, <1>8, <2>2 DEF Reached
  <1>9. ASSUME NEW j \in 1 .. i, Ends(j, x, y), NoneOf(k, j + 1, i) PROVE Reached(h, x, y)'
    <2>1. CASE j = 1
      <3>1. x = m /\ y = o + n
        BY <1>2, <1>9, <2>1 DEF Ends
      <3>2. Held(m, y)' /\ NoneOf(k, 1, h)'
        <4>1. j + 1 = 2
          BY <2>1
        <4> QED
          BY <1>6, <1>7, <1>9, <3>1, <4>1
      <3> QED
        BY <1>1, <1>2, <3>1, <3>2 DEF Reached
    <2>2. CASE j # 1
      <3>1. PICK t : t = j - 1
        OBVIOUS
      <3>2. t \in 1 .. h /\ t + 1 = j /\ t \in 1 .. Len(wire') /\ j \in 1 .. h + 1
        BY <1>4, <2>2, <3>1
      <3>3. Ends(t, x, y)'
        BY <1>2, <1>3, <1>9, <3>2 DEF Ends
      <3>4. NoneOf(k, t + 1, h)'
        BY <1>5, <1>9, <3>2
      <3> QED
        BY <1>1, <1>2, <3>2, <3>3, <3>4 DEF Reached
    <2> QED
      BY <2>1, <2>2
  <1> QED
    BY <1>1, <1>8, <1>9 DEF Reached

(* A callback is given the content of the message that ends.               *)
LEMMA TakesDelivers ==
  ASSUME TypeInv, NEW m, NEW o, NEW s, NEW n, NEW d, Heads(m, o, s, n), Takes(m, o, s, n, d)
  PROVE  delivered' = IF o + n = log[m].len THEN Append(delivered, Content(m)) ELSE delivered
  <1> DEFINE f == Receiver!Fill(IF o = 0 THEN <<>> ELSE asm[s.mt].buf, d, BufSize[s.mt])
             g == Given(source', s.mt, Receiver!Key(s), IF o = 0 THEN d ELSE f)
  <1>1. o + n = log[m].len => g = Content(m)
    BY GivenIsContent
  <1>2. delivered' = IF o + n = log[m].len THEN Append(delivered, g) ELSE delivered
    BY DEF Takes
  <1> QED
    BY <1>1, <1>2

LEMMA SentReceive ==
  ASSUME LinkInv, Receive
  PROVE  WireInv' /\ SendersInv' /\ OneAtATime' /\ DeliveredWereSent'
  <1>1. TypeInv /\ WireInv /\ SendersInv /\ OneAtATime /\ DeliveredWereSent
    BY DEF LinkInv
  <1>2. PICK m, o, s, n : Heads(m, o, s, n)
    BY <1>1, HeadOfWire DEF Receive
  <1>3. PICK d : Takes(m, o, s, n, d)
    BY <1>1, <1>2, ReceiveTakes
  <1>4. tx' = tx /\ log' = log
    BY <1>3 DEF Takes
  <1>5. /\ Len(wire) \in Nat \ {0} /\ Len(wire') = Len(wire) - 1
        /\ \A i \in 1 .. Len(wire') : wire'[i] = wire[i + 1]
    BY <1>1, <1>2, <1>3, ShorterWire
  <1>6. Steady
    BY <1>4 DEF Steady
  <1>7. /\ \A x, y : Cut(x, y) => Cut(x, y)'
        /\ \A x : Sound(x) => Sound(x)'
        /\ \A x \in 1 .. Len(log) : Content(x)' = Content(x)
    BY <1>6, SteadyFacts
  <1>8. \A i \in 1 .. Len(wire), x \in 1 .. Len(log) : \A h, y :
          h = i - 1 /\ Reached(i, x, y) /\ y # log[x].len => Reached(h, x, y)'
    BY <1>1, <1>2, <1>3, ReachedEarlier
  <1>9. \A x, y : Cut(x, y) => y # log[x].len /\ x \in 1 .. Len(log)
    <2>1. SUFFICES ASSUME NEW x, NEW y, Cut(x, y), y = log[x].len PROVE FALSE
      BY DEF Cut
    <2>2. x \in 1 .. Len(log) /\ y \in 0 .. log[x].len - 1
      BY <2>1 DEF Cut
    <2>3. log[x].len \in Nat
      BY <1>1, <2>2, EntryType
    <2> QED
      BY <2>1, <2>2, <2>3
  <1>10. WireInv'
    <2>1. SUFFICES ASSUME NEW i \in 1 .. Len(wire')
                   PROVE  /\ \A x : x = wire'[i] => Sound(x)'
                          /\ \A x, y, j : x = wire'[i].from[1] /\ y = wire'[i].from[2] /\ j = i - 1 /\ y # 0 =>
                               Reached(j, x, y)'
      <3>1. \A i \in 1 .. Len(wire') : Sound(wire[i])' /\ (wire'[i].from[2] # 0 => Reached(i - 1, wire[i].from[1], wire[i].from[2])')
        BY <2>1
      <3> QED
        BY <3>1 DEF WireInv
    <2>2. PICK t : t = i + 1
      OBVIOUS
    <2>3. t \in 1 .. Len(wire) /\ t - 1 = i /\ i \in 1 .. Len(wire) /\ wire'[i] = wire[t]
      BY <1>5, <2>2
    <2>4. Sound(wire[t]) /\ (wire[t].from[2] # 0 => Reached(i, wire[t].from[1], wire[t].from[2]))
      BY <1>1, <2>3 DEF WireInv
    <2>5. Cut(wire[t].from[1], wire[t].from[2])
      BY <2>4 DEF Sound
    <2> QED
      BY <1>7, <1>8, <1>9, <2>3, <2>4, <2>5
  <1>11. SendersInv'
    <2>1. SUFFICES ASSUME NEW q \in Senders, tx[q] # Quiet
                   PROVE  \A x, y, j : x = tx[q].msg /\ y = tx[q].offset /\ j = Len(wire') =>
                            /\ Cut(x, y)' /\ log'[x].sender = q /\ log'[x].fate = "sending"
                            /\ y # 0 => Reached(j, x, y)'
      <3>1. \A q \in Senders : tx'[q] # Quiet =>
              /\ Cut(tx[q].msg, tx[q].offset)'
              /\ log'[tx'[q].msg].sender = q /\ log'[tx'[q].msg].fate = "sending"
              /\ tx'[q].offset # 0 => Reached(Len(wire), tx[q].msg, tx[q].offset)'
        BY <1>4, <2>1
      <3> QED
        BY <3>1 DEF SendersInv, Quiet
    <2>2. /\ Cut(tx[q].msg, tx[q].offset)
          /\ log[tx[q].msg].sender = q /\ log[tx[q].msg].fate = "sending"
          /\ tx[q].offset # 0 => Reached(Len(wire), tx[q].msg, tx[q].offset)
      BY <1>1, <2>1 DEF SendersInv
    <2>3. Len(wire) \in 1 .. Len(wire)
      BY <1>5
    <2> QED
      BY <1>4, <1>5, <1>7, <1>8, <1>9, <2>2, <2>3
  <1>12. OneAtATime'
    BY <1>1, <1>4 DEF OneAtATime, Quiet
  <1>13. DeliveredWereSent'
    <2>1. delivered \in Seq(Outcome) /\ log \in Seq(Entry)
      BY <1>1 DEF TypeInv
    <2>2. DOMAIN delivered = 1 .. Len(delivered) /\ DOMAIN log = 1 .. Len(log)
      BY <2>1, LenProperties
    <2>3. m \in 1 .. Len(log)
      BY <1>2 DEF Heads, Cut
    <2>4. delivered' = delivered \/ delivered' = Append(delivered, Content(m))
      BY <1>1, <1>2, <1>3, TakesDelivers
    <2>5. CASE delivered' = delivered
      BY <1>1, <1>4, <1>7, <2>2, <2>5 DEF DeliveredWereSent
    <2>6. CASE delivered' = Append(delivered, Content(m))
      <3>1. Content(m) \in Outcome
        BY <1>1, <2>3, ContentType
      <3>2. delivered' \in Seq(Outcome) /\ Len(delivered') = Len(delivered) + 1
            /\ delivered'[Len(delivered) + 1] = Content(m)
            /\ \A i \in 1 .. Len(delivered) : delivered'[i] = delivered[i]
        BY <2>1, <2>6, <3>1, AppendProperties
      <3>3. \A i \in DOMAIN delivered' : i \in 1 .. Len(delivered) \/ i = Len(delivered) + 1
        BY <2>1, <3>2, LenProperties
      <3>4. \A i \in DOMAIN delivered' : \E x \in DOMAIN log : delivered'[i] = Content(x)
        BY <1>1, <2>2, <2>3, <3>2, <3>3 DEF DeliveredWereSent
      <3> QED
        BY <1>4, <1>7, <2>2, <3>4 DEF DeliveredWereSent
    <2> QED
      BY <2>4, <2>5, <2>6
  <1> QED
    BY <1>10, <1>11, <1>12, <1>13

-----------------------------------------------------------------------------
(* The invariant. *)

LEMMA LinkStart == Init => LinkInv
  <1> SUFFICES ASSUME Init PROVE LinkInv
    OBVIOUS
  <1>1. /\ tx = [s \in Senders |-> Quiet] /\ log = <<>> /\ wire = <<>> /\ source = <<>>
        /\ delivered = <<>> /\ fed = <<>> /\ asm = [k \in Kinds |-> Receiver!Idle]
    BY DEF Init, Receiver!Init, Kinds, Receiver!Kinds
  <1>2. \A S : <<>> \in Seq(S)
    BY EmptySeq
  <1>3. Len(<<>>) = 0 /\ 1 .. 0 = {} /\ DOMAIN <<>> = {}
    OBVIOUS
  <1>4. Receiver!Idle \in [key: Keys, buf: Seq(Nat \X Nat)]
    BY <1>2 DEF Receiver!Idle, Keys
  <1>5. Quiet \in [msg: Nat, offset: Nat]
    BY DEF Quiet
  <1>6. TypeInv
    BY <1>1, <1>2, <1>4, <1>5 DEF TypeInv
  <1>7. WireInv
    BY <1>1, <1>3 DEF WireInv
  <1>8. SendersInv /\ OneAtATime
    BY <1>1 DEF SendersInv, OneAtATime
  <1>9. DeliveredWereSent
    BY <1>1, <1>3 DEF DeliveredWereSent
  <1> QED
    BY <1>6, <1>7, <1>8, <1>9 DEF LinkInv

LEMMA LinkStep ==
  ASSUME ~ Silent, LinkInv, [Next]_linkVars
  PROVE  LinkInv'
  <1>1. TypeInv /\ WireInv /\ SendersInv
    BY DEF LinkInv
  <1>2. ASSUME NEW s \in Senders, NEW len \in Lengths, Begin(s, len) PROVE LinkInv'
    BY <1>1, <1>2, TypeBegin, SentBegin DEF LinkInv
  <1>3. ASSUME NEW s \in Senders, Write(s) PROVE LinkInv'
    BY <1>1, <1>3, TypeWrite, SentWrite DEF LinkInv
  <1>4. CASE Receive
    BY <1>1, <1>4, TypeReceive, SentReceive DEF LinkInv
  <1>5. CASE UNCHANGED linkVars
    <2>1. UNCHANGED <<tx, log, wire, source, delivered, asm, fed>>
      BY <1>5 DEF linkVars
    <2>2. TypeInv'
      BY <1>1, <2>1 DEF TypeInv
    <2>3. WireInv' /\ SendersInv'
      BY <1>1, <2>1, ZenonT(30) DEF WireInv, SendersInv, Sound, Cut, Reached, Ends, NoneOf, Held, Quiet
    <2>4. OneAtATime' /\ DeliveredWereSent'
      BY <2>1 DEF LinkInv, OneAtATime, DeliveredWereSent, Content, Quiet
    <2> QED
      BY <2>2, <2>3, <2>4 DEF LinkInv
  <1> QED
    BY <1>2, <1>3, <1>4, <1>5 DEF Next

(* Every message a callback is given is one that was sent, whole: for any  *)
(* senders, lengths, packet and buffer sizes, and any sink that reports    *)
(* what it drops (midi2_proc_send_sysex7, _sysex8 and midi2_proc_feed).    *)
THEOREM DeliveriesWereSent ==
  ASSUME ~ Silent
  PROVE  Spec => []DeliveredWereSent
  <1>1. LinkInv /\ [Next]_linkVars => LinkInv'
    BY LinkStep
  <1>2. LinkInv => DeliveredWereSent
    BY DEF LinkInv
  <1> QED
    BY <1>1, <1>2, LinkStart, PTL DEF Spec

-----------------------------------------------------------------------------
(* The order of the traffic. *)

(* What a callback is given tells its message.                             *)
Distinct == \A m, x \in 1 .. Len(log) : Content(m) = Content(x) => m = x

LEMMA ContentsDiffer == TypeInv => Distinct
  <1> SUFFICES ASSUME TypeInv, NEW m \in 1 .. Len(log), NEW x \in 1 .. Len(log), Content(m) = Content(x)
               PROVE  m = x
    BY DEF Distinct
  <1>1. /\ Due(m) \in Nat \ {0} /\ Len(Content(m).bytes) = Due(m)
        /\ \A y \in 1 .. Due(m) : Content(m).bytes[y] = <<m, y>>
    BY ContentType
  <1>2. /\ Due(x) \in Nat \ {0} /\ Len(Content(x).bytes) = Due(x)
        /\ \A y \in 1 .. Due(x) : Content(x).bytes[y] = <<x, y>>
    BY ContentType
  <1>3. 1 \in 1 .. Due(m) /\ 1 \in 1 .. Due(x)
    BY <1>1, <1>2
  <1>4. <<m, 1>> = <<x, 1>>
    BY <1>1, <1>2, <1>3
  <1> QED
    BY <1>4

(* A message just begun has not come.                                      *)
LEMMA NewIsNotCome ==
  ASSUME LinkInv, TypeInv', Steady, UNCHANGED delivered, NEW m, m \in 1 .. Len(log'), m \notin 1 .. Len(log)
  PROVE  ~ Came(m)'
  <1>1. Distinct'
    BY ContentsDiffer, PTL
  <1>2. SUFFICES ASSUME NEW i \in 1 .. Len(delivered), delivered[i] = Content(m)' PROVE FALSE
    BY DEF Came
  <1>3. DOMAIN delivered = 1 .. Len(delivered) /\ DOMAIN log = 1 .. Len(log)
    BY LenProperties DEF LinkInv, TypeInv
  <1>4. PICK x \in 1 .. Len(log) : delivered[i] = Content(x)
    BY <1>3 DEF LinkInv, DeliveredWereSent
  <1>5. Content(x)' = Content(m)' /\ x \in 1 .. Len(log')
    BY <1>2, <1>4, SteadyFacts DEF Steady
  <1> QED
    BY <1>1, <1>4, <1>5 DEF Distinct

LEMMA SameCame ==
  ASSUME Steady, UNCHANGED delivered, NEW m \in 1 .. Len(log)
  PROVE  Came(m)' <=> Came(m)
  BY SteadyFacts DEF Came

LEMMA SendingFacts ==
  ASSUME LinkInv, NEW s \in Senders, tx[s] # Quiet
  PROVE  /\ tx[s].msg \in 1 .. Len(log) /\ tx[s].msg \in Nat /\ tx[s].offset \in Nat
         /\ log[tx[s].msg].sender = s /\ log[tx[s].msg].fate = "sending"
  <1>1. tx[s] \in [msg: Nat, offset: Nat]
    BY DEF LinkInv, TypeInv
  <1> QED
    BY <1>1 DEF LinkInv, SendersInv, Cut

LEMMA WireFacts ==
  ASSUME LinkInv, NEW i \in 1 .. Len(wire)
  PROVE  \E m, o : /\ wire[i].from = <<m, o>> /\ m \in 1 .. Len(log) /\ m \in Nat /\ o \in Nat
                   /\ Cut(m, o) /\ log[m].sender \in Senders /\ log[m].len \in Nat
                   /\ o \in 0 .. log[m].len - 1 /\ wire[i].packet.mt = log[m].sender.mt
                   /\ o # 0 => Reached(i - 1, m, o)
  <1> DEFINE S == [packet: Packet, from: Nat \X Nat]
  <1>1. wire \in Seq(S)
    BY DEF LinkInv, TypeInv
  <1>2. wire[i] \in S
    <2> HIDE DEF S
    <2> QED
      BY <1>1, ElementOfSeq
  <1>3. PICK m \in Nat, o \in Nat : wire[i].from = <<m, o>>
    BY <1>2
  <1>4. Sound(wire[i]) /\ (o # 0 => Reached(i - 1, m, o))
    BY <1>3 DEF LinkInv, WireInv
  <1>5. Cut(m, o) /\ wire[i].packet = PacketAt(log[m].sender, o, log[m].len)
    BY <1>3, <1>4 DEF Sound
  <1>6. m \in 1 .. Len(log) /\ o \in 0 .. log[m].len - 1
    BY <1>5 DEF Cut
  <1>7. log[m].sender \in Senders /\ log[m].len \in Nat
    BY <1>6, EntryType DEF LinkInv
  <1>8. wire[i].packet.mt = log[m].sender.mt
    BY <1>5, <1>6, <1>7, PacketOf
  <1> QED
    BY <1>3, <1>4, <1>5, <1>6, <1>7, <1>8

LEMMA OrderBegin ==
  ASSUME LinkInv, OrderInv, NEW s \in Senders, NEW len \in Lengths, Begin(s, len)
  PROVE  OrderInv'
  <1>1. /\ tx' = [tx EXCEPT ![s] = [msg |-> Len(log) + 1, offset |-> 0]] /\ wire' = wire
        /\ \A q \in Senders : q.mt = s.mt => tx[q] = Quiet
        /\ Len(log) < MaxMessages
    BY DEF Begin
  <1>2. /\ Len(log') = Len(log) + 1 /\ Len(log) \in Nat
        /\ \A m \in 1 .. Len(log) : log'[m] = log[m]
        /\ log'[Len(log) + 1].sender = s
    <2>1. LinkInv => TypeInv
      BY DEF LinkInv
    <2>2. log'[Len(log) + 1] = [sender |-> s, len |-> len, fate |-> "sending"]
      BY <2>1, SteadyBegin
    <2> QED
      BY <2>1, <2>2, SteadyBegin
  <1>3. \A m \in 1 .. Len(log') : m \in 1 .. Len(log) \/ m = Len(log) + 1
    BY <1>2
  <1>4. tx \in [Senders -> [msg: Nat, offset: Nat]]
    BY DEF LinkInv, TypeInv
  <1>5. WireOrder'
    BY <1>1 DEF OrderInv, WireOrder
  <1>6. SenderOrder'
    <2>1. SUFFICES ASSUME NEW q \in Senders, tx'[q] # Quiet
                   PROVE  /\ \A i \in 1 .. Len(wire) : wire[i].packet.mt = q.mt =>
                               Earlier(wire[i].from, <<tx'[q].msg, tx'[q].offset>>)
                          /\ \A m \in 1 .. Len(log') : log'[m].sender.mt = q.mt => m <= tx'[q].msg
      BY <1>1 DEF SenderOrder, Quiet, Earlier
    <2>2. CASE q = s
      <3>1. tx'[q].msg = Len(log) + 1 /\ tx'[q].offset = 0
        BY <1>1, <1>4, <2>2
      <3>2. ASSUME NEW i \in 1 .. Len(wire) PROVE wire[i].from[1] < Len(log) + 1
        <4>1. wire[i].from[1] \in 1 .. Len(log)
          BY WireFacts
        <4> QED
          BY <1>2, <4>1
      <3>3. \A m \in 1 .. Len(log') : m <= Len(log) + 1
        BY <1>2
      <3> QED
        BY <3>1, <3>2, <3>3 DEF Earlier
    <2>3. CASE q # s
      <3>1. tx'[q] = tx[q] /\ q.mt # s.mt
        BY <1>1, <1>4, <2>1, <2>3
      <3> QED
        BY <1>2, <1>3, <2>1, <3>1 DEF OrderInv, SenderOrder
    <2> QED
      BY <2>2, <2>3
  <1>7. Len(log') <= MaxMessages
    BY <1>1, <1>2, LinkAssumption
  <1> QED
    BY <1>5, <1>6, <1>7 DEF OrderInv

LEMMA OrderWrite ==
  ASSUME LinkInv, OrderInv, NEW s \in Senders, Write(s), ~ Silent
  PROVE  OrderInv'
  <1>1. TypeInv /\ WireInv /\ SendersInv
    BY DEF LinkInv
  <1>2. PICK m \in 1 .. Len(log), o \in Nat, n \in Nat \ {0} : Writes(s, m, o, n)
    BY <1>1, WriteEffect
  <1> DEFINE w == [packet |-> PacketAt(s, o, log[m].len), from |-> <<m, o>>]
  <1>3. Steady /\ Len(log') = Len(log)
    BY <1>1, <1>2, SteadyWrite
  <1>4. /\ Len(wire) \in Nat /\ \A t \in 1 .. Len(wire) : wire'[t] = wire[t]
        /\ \/ wire' = wire
           \/ Len(wire') = Len(wire) + 1 /\ wire'[Len(wire) + 1] = w
        /\ w.packet.mt = s.mt
    BY <1>1, <1>2, LongerWire
  <1>5. /\ tx[s] # Quiet /\ tx[s].msg = m /\ tx[s].offset = o /\ log[m].sender = s
        /\ \/ tx' = [tx EXCEPT ![s] = Quiet]
           \/ tx' = [tx EXCEPT ![s] = [@ EXCEPT !.offset = o + n]]
    BY <1>2 DEF Writes
  <1>6. w.from = <<m, o>> /\ m \in Nat
    BY <1>1, EntryType
  <1> HIDE DEF w
  <1>7. \A i \in 1 .. Len(wire') : i \in 1 .. Len(wire) \/ (i = Len(wire) + 1 /\ wire'[i] = w)
    BY <1>4
  <1>8. \A i \in 1 .. Len(wire) : wire[i].packet.mt = s.mt => Earlier(wire[i].from, <<m, o>>)
    BY <1>5 DEF OrderInv, SenderOrder
  <1>9. WireOrder'
    <2>1. SUFFICES ASSUME NEW i \in 1 .. Len(wire'), NEW j \in 1 .. Len(wire'), i < j,
                          wire'[i].packet.mt = wire'[j].packet.mt
                   PROVE  Earlier(wire'[i].from, wire'[j].from)
      BY DEF WireOrder, Earlier
    <2>2. i \in 1 .. Len(wire)
      BY <1>4, <2>1
    <2>3. CASE j \in 1 .. Len(wire)
      BY <1>4, <2>1, <2>2, <2>3 DEF OrderInv, WireOrder
    <2>4. CASE wire'[j] = w
      BY <1>4, <1>6, <1>8, <2>1, <2>2, <2>4
    <2> QED
      BY <1>7, <2>3, <2>4
  <1>10. SenderOrder'
    <2>1. SUFFICES ASSUME NEW q \in Senders, tx'[q] # Quiet
                   PROVE  /\ \A i \in 1 .. Len(wire') : wire'[i].packet.mt = q.mt =>
                               Earlier(wire'[i].from, <<tx'[q].msg, tx'[q].offset>>)
                          /\ \A x \in 1 .. Len(log') : log'[x].sender.mt = q.mt => x <= tx'[q].msg
      BY DEF SenderOrder, Quiet, Earlier
    <2>2. tx[q] # Quiet /\ tx'[q].msg = tx[q].msg
      <3>1. tx \in [Senders -> [msg: Nat, offset: Nat]]
        BY <1>1 DEF TypeInv
      <3>2. CASE q = s
        <4>1. tx' = [tx EXCEPT ![s] = [@ EXCEPT !.offset = o + n]]
          BY <1>5, <2>1, <3>1, <3>2
        <4> QED
          BY <1>5, <3>1, <3>2, <4>1
      <3>3. CASE q # s
        BY <1>5, <2>1, <3>1, <3>3
      <3> QED
        BY <3>2, <3>3
    <2>3. \A x \in 1 .. Len(log') : log'[x].sender.mt = q.mt => x <= tx'[q].msg
      BY <1>3, <2>2 DEF OrderInv, SenderOrder, Steady
    <2>4. CASE q = s
      <3>1. tx'[q].msg = m /\ tx'[q].offset = o + n
        BY <1>1, <1>5, <2>1, <2>4 DEF TypeInv
      <3>2. ASSUME NEW i \in 1 .. Len(wire), wire[i].packet.mt = s.mt
            PROVE  Earlier(wire[i].from, <<m, o + n>>)
        <4>1. PICK x, y : wire[i].from = <<x, y>> /\ x \in Nat /\ y \in Nat
          BY WireFacts
        <4>2. x < m \/ (x = m /\ y < o)
          BY <1>8, <3>2, <4>1 DEF Earlier
        <4>3. x < m \/ (x = m /\ y < o + n)
          BY <4>1, <4>2
        <4> QED
          BY <4>1, <4>3 DEF Earlier
      <3>3. Earlier(w.from, <<m, o + n>>)
        BY <1>6 DEF Earlier
      <3>4. \A i \in 1 .. Len(wire') : wire'[i].packet.mt = q.mt => Earlier(wire'[i].from, <<m, o + n>>)
        BY <1>4, <1>7, <2>4, <3>2, <3>3
      <3> QED
        BY <2>3, <3>1, <3>4
    <2>5. CASE q # s
      <3>1. tx'[q] = tx[q] /\ q.mt # s.mt
        BY <1>1, <1>5, <2>2, <2>5 DEF TypeInv, LinkInv, OneAtATime
      <3>2. \A i \in 1 .. Len(wire') : wire'[i].packet.mt = q.mt => i \in 1 .. Len(wire) /\ wire'[i] = wire[i]
        BY <1>4, <1>7, <3>1
      <3> QED
        BY <2>2, <2>3, <3>1, <3>2 DEF OrderInv, SenderOrder
    <2> QED
      BY <2>4, <2>5
  <1> QED
    BY <1>3, <1>9, <1>10 DEF OrderInv

LEMMA OrderReceive ==
  ASSUME LinkInv, OrderInv, Receive
  PROVE  OrderInv'
  <1>1. TypeInv /\ WireInv
    BY DEF LinkInv
  <1>2. PICK m, o, s, n : Heads(m, o, s, n)
    BY <1>1, HeadOfWire DEF Receive
  <1>3. PICK d : Takes(m, o, s, n, d)
    BY <1>1, <1>2, ReceiveTakes
  <1>4. tx' = tx /\ log' = log
    BY <1>3 DEF Takes
  <1>5. /\ Len(wire) \in Nat \ {0} /\ Len(wire') = Len(wire) - 1
        /\ \A i \in 1 .. Len(wire') : wire'[i] = wire[i + 1]
    BY <1>1, <1>2, <1>3, ShorterWire
  <1>6. \A i \in 1 .. Len(wire') : i + 1 \in 1 .. Len(wire)
    BY <1>5
  <1>7. WireOrder'
    <2>1. SUFFICES ASSUME NEW i \in 1 .. Len(wire'), NEW j \in 1 .. Len(wire'), i < j,
                          wire'[i].packet.mt = wire'[j].packet.mt
                   PROVE  Earlier(wire'[i].from, wire'[j].from)
      BY DEF WireOrder, Earlier
    <2>2. i + 1 < j + 1
      BY <2>1
    <2> QED
      BY <1>5, <1>6, <2>1, <2>2 DEF OrderInv, WireOrder
  <1>8. SenderOrder'
    BY <1>4, <1>5, <1>6, SMTT(30) DEF OrderInv, SenderOrder, Earlier, Quiet
  <1> QED
    BY <1>4, <1>7, <1>8 DEF OrderInv

-----------------------------------------------------------------------------
(* What becomes of the messages. *)

(* Four facts of a message, in the next state: FateInv from each of them.  *)
LEMMA FateNext ==
  ASSUME \A m \in 1 .. Len(log') : Came(m)' => Passed(m)',
         \A m \in 1 .. Len(log') : log'[m].fate = "sending" =>
           tx'[log'[m].sender] # Quiet /\ tx'[log'[m].sender].msg = m,
         \A m \in 1 .. Len(log') : log'[m].fate = "sent" => Came(m)' \/ Ending(m)',
         \A m \in 1 .. Len(log') : Ending(m)' => log'[m].fate = "sent"
  PROVE  FateInv'
  BY DEF FateInv, Quiet

LEMMA FateOf ==
  ASSUME FateInv, NEW m \in 1 .. Len(log)
  PROVE  /\ Came(m) => Passed(m)
         /\ log[m].fate = "sending" => tx[log[m].sender] # Quiet /\ tx[log[m].sender].msg = m
         /\ log[m].fate = "sent" => Came(m) \/ Ending(m)
         /\ Ending(m) => log[m].fate = "sent"
  BY DEF FateInv

LEMMA SameEnds ==
  ASSUME Steady, NEW m \in 1 .. Len(log), NEW i, NEW j, wire'[i] = wire[j], NEW o
  PROVE  Ends(i, m, o)' <=> Ends(j, m, o)
  BY DEF Ends, Steady

LEMMA FateBegin ==
  ASSUME LinkInv, FateInv, LinkInv', NEW s \in Senders, NEW len \in Lengths, Begin(s, len)
  PROVE  FateInv'
  <1>1. /\ tx' = [tx EXCEPT ![s] = [msg |-> Len(log) + 1, offset |-> 0]]
        /\ UNCHANGED <<wire, delivered>> /\ tx[s] = Quiet
    BY DEF Begin
  <1>2. /\ Steady /\ Len(log') = Len(log) + 1 /\ Len(log) \in Nat
        /\ \A m \in 1 .. Len(log) : log'[m] = log[m]
        /\ log'[Len(log) + 1] = [sender |-> s, len |-> len, fate |-> "sending"]
    <2>1. TypeInv
      BY DEF LinkInv
    <2> QED
      BY <2>1, SteadyBegin
  <1>3. tx \in [Senders -> [msg: Nat, offset: Nat]]
    BY DEF LinkInv, TypeInv
  <1>4. \A m \in 1 .. Len(log') : m \in 1 .. Len(log) \/ (m = Len(log) + 1 /\ m \notin 1 .. Len(log))
    BY <1>2
  <1>5. \A m \in 1 .. Len(log) : Came(m)' <=> Came(m)
    BY <1>1, <1>2, SameCame
  <1>6. \A m \in 1 .. Len(log') : m \notin 1 .. Len(log) => ~ Came(m)'
    BY <1>1, <1>2, NewIsNotCome DEF LinkInv
  <1>7. \A m \in 1 .. Len(log) : Ending(m)' <=> Ending(m)
    BY <1>1, <1>2 DEF Ending, Ends
  <1>8. \A m : m \notin 1 .. Len(log) => ~ Ending(m)'
    <2>1. \A i \in 1 .. Len(wire) : wire[i].from[1] \in 1 .. Len(log)
      BY WireFacts
    <2> QED
      BY <1>1, <2>1 DEF Ending, Ends
  <1>9. \A q \in Senders : q # s => tx'[q] = tx[q]
    BY <1>1, <1>3
  <1>10. tx'[s].msg = Len(log) + 1 /\ tx'[s] # Quiet
    BY <1>1, <1>2, <1>3 DEF Quiet
  <1>11. \A m \in 1 .. Len(log) : Passed(m) => Passed(m)'
    <2>1. SUFFICES ASSUME NEW m \in 1 .. Len(log), Passed(m) PROVE Passed(m)'
      OBVIOUS
    <2>2. m < Len(log) + 1
      BY <1>2
    <2>3. \A q \in Senders : tx'[q] # Quiet /\ q.mt = log[m].sender.mt => tx'[q].msg > m
      <3>1. \A q \in Senders : q = s => tx'[q].msg > m
        BY <1>2, <1>10, <2>2
      <3> QED
        BY <1>9, <2>1, <3>1 DEF Passed
    <2> QED
      BY <1>1, <1>2, <2>1, <2>3 DEF Passed, Quiet
  <1>12. \A m \in 1 .. Len(log') : Came(m)' => Passed(m)'
    BY <1>4, <1>5, <1>6, <1>11, FateOf
  <1>13. \A m \in 1 .. Len(log') : log'[m].fate = "sending" =>
           tx'[log'[m].sender] # Quiet /\ tx'[log'[m].sender].msg = m
    <2>1. ASSUME NEW m \in 1 .. Len(log), log'[m].fate = "sending"
          PROVE  tx'[log'[m].sender] # Quiet /\ tx'[log'[m].sender].msg = m
      <3>1. log[m].sender \in Senders
        BY EntryType DEF LinkInv
      <3>2. tx[log[m].sender] # Quiet /\ tx[log[m].sender].msg = m
        BY <1>2, <2>1, FateOf
      <3> QED
        BY <1>1, <1>2, <1>9, <3>1, <3>2
    <2>2. log'[Len(log) + 1].sender = s
      BY <1>2
    <2> QED
      BY <1>4, <1>10, <2>1, <2>2
  <1>14. \A m \in 1 .. Len(log') : log'[m].fate = "sent" => Came(m)' \/ Ending(m)'
    <2>1. log'[Len(log) + 1].fate # "sent"
      BY <1>2
    <2> QED
      BY <1>2, <1>4, <1>5, <1>7, <2>1, FateOf
  <1>15. \A m \in 1 .. Len(log') : Ending(m)' => log'[m].fate = "sent"
    BY <1>2, <1>4, <1>7, <1>8, FateOf
  <1> QED
    BY <1>12, <1>13, <1>14, <1>15, FateNext

LEMMA FateWrite ==
  ASSUME LinkInv, FateInv, NEW s \in Senders, Write(s), ~ Silent
  PROVE  FateInv'
  <1>1. TypeInv /\ WireInv /\ SendersInv
    BY DEF LinkInv
  <1>2. PICK m \in 1 .. Len(log), o \in Nat, n \in Nat \ {0} : Writes(s, m, o, n)
    BY <1>1, WriteEffect
  <1> DEFINE w == [packet |-> PacketAt(s, o, log[m].len), from |-> <<m, o>>]
  <1>3. /\ Steady /\ Len(log') = Len(log) /\ \A q \in 1 .. Len(log) : q # m => log'[q] = log[q]
        /\ log'[m].fate = IF wire' = wire THEN "refused"
                          ELSE IF o + n = log[m].len THEN "sent" ELSE log[m].fate
    BY <1>1, <1>2, SteadyWrite
  <1>4. /\ Len(wire) \in Nat /\ \A t \in 1 .. Len(wire) : wire'[t] = wire[t]
        /\ \/ wire' = wire /\ tx' = [tx EXCEPT ![s] = Quiet]
           \/ Len(wire') = Len(wire) + 1 /\ wire'[Len(wire) + 1] = w /\ wire' # wire
        /\ w.packet.mt = s.mt
    BY <1>1, <1>2, LongerWire
  <1>5. /\ tx[s] # Quiet /\ tx[s].msg = m /\ tx[s].offset = o /\ log[m].sender = s
        /\ log[m].fate = "sending" /\ n = Chunk(s, o, log[m].len)
        /\ delivered' = delivered
        /\ \/ tx' = [tx EXCEPT ![s] = Quiet]
           \/ o + n # log[m].len /\ tx' = [tx EXCEPT ![s] = [@ EXCEPT !.offset = o + n]]
    BY <1>2 DEF Writes
  <1>6. wire' # wire => o + n = log[m].len \/ tx' = [tx EXCEPT ![s] = [@ EXCEPT !.offset = o + n]]
    BY <1>2 DEF Writes
  <1>7. w.from = <<m, o>> /\ m \in Nat /\ m # 0
    BY <1>1, EntryType
  <1> HIDE DEF w
  <1>8. tx \in [Senders -> [msg: Nat, offset: Nat]]
    BY <1>1 DEF TypeInv
  <1>9. \A i \in 1 .. Len(wire') : i \in 1 .. Len(wire) \/ (i = Len(wire) + 1 /\ wire'[i] = w)
    BY <1>4
  <1>10. \A x \in 1 .. Len(log) : Came(x)' <=> Came(x)
    BY <1>3, <1>5, SameCame
  <1>11. \A q \in Senders : /\ q # s => tx'[q] = tx[q]
                            /\ tx'[q] # Quiet => tx[q] # Quiet /\ tx'[q].msg = tx[q].msg
    <2>1. \A q \in Senders : q # s => tx'[q] = tx[q]
      BY <1>5, <1>8
    <2>2. tx'[s] # Quiet => tx'[s].msg = tx[s].msg
      BY <1>5, <1>8
    <2> QED
      BY <1>5, <2>1, <2>2
  <1>12. ASSUME NEW x \in 1 .. Len(log) PROVE Ending(x)' <=> Ending(x) \/ (x = m /\ wire' # wire /\ o + n = log[m].len)
    <2> DEFINE len == log[x].len
    <2>0. PICK y : y = len
      OBVIOUS
    <2>1. \A i \in 1 .. Len(wire) : Ends(i, x, y)' <=> Ends(i, x, y)
      BY <1>3, <1>4, SameEnds
    <2>2. \A i \in 1 .. Len(wire) : i \in 1 .. Len(wire')
      BY <1>4
    <2>3. ASSUME NEW i, wire'[i] = w
          PROVE  Ends(i, x, y)' <=> x = m /\ o + n = log[m].len
      <3>1. wire'[i].from[1] = m /\ wire'[i].from[2] = o
        BY <1>7, <2>3
      <3>2. log'[m].sender = s /\ log'[m].len = log[m].len
        BY <1>3, <1>5 DEF Steady
      <3>3. x = m => (o + Chunk(log'[x].sender, o, log'[x].len) = y <=> o + n = log[m].len)
        BY <1>5, <2>0, <3>2
      <3> QED
        BY <3>1, <3>3 DEF Ends
    <2>4. /\ Ending(x)' <=> \E i \in 1 .. Len(wire') : Ends(i, x, y)'
          /\ Ending(x) <=> \E i \in 1 .. Len(wire) : Ends(i, x, y)
      <3>1. log'[x].len = y
        BY <1>3, <2>0 DEF Steady
      <3> QED
        BY <2>0, <3>1 DEF Ending, Ends
    <2>5. CASE wire' = wire
      BY <2>1, <2>4, <2>5
    <2>6. CASE wire' # wire
      <3>1. Len(wire) + 1 \in 1 .. Len(wire') /\ wire'[Len(wire) + 1] = w
        BY <1>4, <2>6
      <3> QED
        BY <1>9, <2>1, <2>2, <2>3, <2>4, <2>6, <3>1
    <2> QED
      BY <2>5, <2>6
  <1>13. ~ Came(m)
    <2>1. m <= m /\ ~ (m > m)
      BY <1>7
    <2> QED
      BY <1>5, <2>1, FateOf DEF Passed
  <1>14. ASSUME NEW x \in 1 .. Len(log), Passed(x), x # m PROVE Passed(x)'
    <2>1. log'[x] = log[x]
      BY <1>3, <1>14
    <2>2. s.mt = log[x].sender.mt => m > x
      BY <1>5, <1>14 DEF Passed
    <2>3. \A i \in 1 .. Len(wire') : wire'[i].packet.mt = log[x].sender.mt => wire'[i].from[1] > x
      BY <1>4, <1>7, <1>9, <1>14, <2>2, SMTT(30) DEF Passed
    <2>4. \A q \in Senders : tx'[q] # Quiet /\ q.mt = log[x].sender.mt => tx'[q].msg > x
      BY <1>11, <1>14 DEF Passed
    <2> QED
      BY <1>14, <2>1, <2>3, <2>4 DEF Passed, Quiet
  <1>15. \A x \in 1 .. Len(log') : Came(x)' => Passed(x)'
    BY <1>3, <1>10, <1>13, <1>14, FateOf
  <1>16. \A x \in 1 .. Len(log') : log'[x].fate = "sending" =>
           tx'[log'[x].sender] # Quiet /\ tx'[log'[x].sender].msg = x
    <2>1. ASSUME NEW x \in 1 .. Len(log), x # m, log'[x].fate = "sending"
          PROVE  tx'[log'[x].sender] # Quiet /\ tx'[log'[x].sender].msg = x
      <3>1. log'[x] = log[x] /\ log[x].sender \in Senders
        BY <1>1, <1>3, <2>1, EntryType
      <3>2. tx[log[x].sender] # Quiet /\ tx[log[x].sender].msg = x
        BY <2>1, <3>1, FateOf
      <3> QED
        BY <1>5, <1>11, <2>1, <3>1, <3>2
    <2>2. ASSUME log'[m].fate = "sending" PROVE tx'[s] # Quiet /\ tx'[s].msg = m
      <3>1. wire' # wire /\ o + n # log[m].len
        BY <1>3, <2>2
      <3>2. tx'[s] = [tx[s] EXCEPT !.offset = o + n]
        BY <1>6, <1>8, <3>1
      <3>3. tx'[s].msg = m
        BY <1>5, <1>8, <3>2
      <3> QED
        BY <1>7, <3>3 DEF Quiet
    <2>3. log'[m].sender = s
      BY <1>3, <1>5 DEF Steady
    <2> QED
      BY <1>3, <2>1, <2>2, <2>3
  <1>17. \A x \in 1 .. Len(log') : log'[x].fate = "sent" => Came(x)' \/ Ending(x)'
    BY <1>3, <1>5, <1>10, <1>12, FateOf
  <1>18. \A x \in 1 .. Len(log') : Ending(x)' => log'[x].fate = "sent"
    BY <1>3, <1>5, <1>12, FateOf
  <1> QED
    BY <1>15, <1>16, <1>17, <1>18, FateNext

(* The message at the head of the wire has not come: it is just coming.    *)
LEMMA HeadIsNotCome ==
  ASSUME LinkInv, FateInv, NEW m, NEW o, NEW s, NEW n, Heads(m, o, s, n)
  PROVE  ~ Came(m)
  <1>1. /\ m \in 1 .. Len(log) /\ m \in Nat /\ s = log[m].sender
        /\ Len(wire) \in Nat \ {0} /\ wire[1].from = <<m, o>> /\ wire[1].packet.mt = s.mt
    BY DEF Heads, Cut
  <1>2. 1 \in 1 .. Len(wire) /\ ~ (wire[1].from[1] > m)
    BY <1>1
  <1> QED
    BY <1>1, <1>2, FateOf DEF Passed

(* After the last packet of a message come only later messages.            *)
LEMMA LastAtHead ==
  ASSUME LinkInv, OrderInv, FateInv, NEW m, NEW o, NEW s, NEW n, Heads(m, o, s, n), o + n = log[m].len
  PROVE  /\ log[m].fate = "sent"
         /\ \A i \in 2 .. Len(wire) : wire[i].packet.mt = s.mt => wire[i].from[1] > m
         /\ \A q \in Senders : tx[q] # Quiet /\ q.mt = s.mt => tx[q].msg > m
  <1>1. /\ m \in 1 .. Len(log) /\ m \in Nat /\ o \in Nat /\ s = log[m].sender /\ s \in Senders
        /\ n = Chunk(s, o, log[m].len) /\ log[m].len \in Nat /\ n \in Nat \ {0}
        /\ Len(wire) \in Nat \ {0} /\ wire[1].from = <<m, o>> /\ wire[1].packet.mt = s.mt
    BY DEF Heads, Cut
  <1>2. 1 \in 1 .. Len(wire)
    BY <1>1
  <1>3. Ends(1, m, log[m].len)
    BY <1>1 DEF Ends
  <1>4. log[m].fate = "sent"
    BY <1>1, <1>2, <1>3, FateOf DEF Ending
  <1>5. MaxData[s.mt] \in Nat \ {0} /\ n <= MaxData[s.mt]
    <2>1. o \in 0 .. log[m].len - 1
      BY DEF Heads, Cut
    <2>2. n \in 1 .. MaxData[s.mt] /\ MaxData[s.mt] \in Nat \ {0}
      BY <1>1, <2>1, ChunkType, SenderType
    <2> QED
      BY <1>1, <2>2
  <1>6. ASSUME NEW q \in Senders, tx[q] # Quiet, q.mt = s.mt PROVE tx[q].msg > m
    <2>1. Earlier(<<m, o>>, <<tx[q].msg, tx[q].offset>>)
      BY <1>1, <1>2, <1>6 DEF OrderInv, SenderOrder
    <2>2. tx[q].msg # m
      BY <1>4, <1>6, SendingFacts
    <2>3. tx[q].msg \in Nat
      BY <1>6, SendingFacts
    <2> QED
      BY <1>1, <2>1, <2>2, <2>3 DEF Earlier
  <1>7. ASSUME NEW i \in 2 .. Len(wire), wire[i].packet.mt = s.mt PROVE wire[i].from[1] > m
    <2>1. i \in 1 .. Len(wire) /\ 1 < i /\ i - 1 \in 1 .. Len(wire)
      BY <1>1
    <2>2. PICK x, p : /\ wire[i].from = <<x, p>> /\ x \in Nat /\ p \in Nat /\ log[x].len \in Nat
                      /\ p \in 0 .. log[x].len - 1 /\ wire[i].packet.mt = log[x].sender.mt
                      /\ p # 0 => Reached(i - 1, x, p)
      BY <2>1, WireFacts
    <2>3. Earlier(<<m, o>>, <<x, p>>)
      BY <1>1, <1>2, <1>7, <2>1, <2>2 DEF OrderInv, WireOrder
    <2>4. SUFFICES ASSUME x = m, p > o PROVE FALSE
      BY <1>1, <2>2, <2>3 DEF Earlier
    <2>5. Reached(i - 1, m, p)
      BY <1>1, <2>2, <2>4
    <2>6. ~ NoneOf(s.mt, 1, i - 1)
      <3>1. 1 \in 1 .. i - 1
        BY <2>1
      <3> QED
        BY <1>1, <3>1 DEF NoneOf
    <2>7. PICK j \in 1 .. i - 1 : Ends(j, m, p)
      BY <1>1, <2>5, <2>6 DEF Reached
    <2>8. j \in 1 .. Len(wire)
      BY <1>1, <2>1
    <2>9. PICK r : /\ wire[j].from = <<m, r>> /\ r \in Nat /\ r \in 0 .. log[m].len - 1
                   /\ wire[j].packet.mt = s.mt
      <3>1. PICK y, r : /\ wire[j].from = <<y, r>> /\ r \in Nat /\ r \in 0 .. log[y].len - 1
                        /\ wire[j].packet.mt = log[y].sender.mt
        BY <2>8, WireFacts
      <3>2. y = m
        BY <2>7, <3>1 DEF Ends
      <3> QED
        BY <1>1, <3>1, <3>2
    <2>10. r >= o
      <3>1. CASE j = 1
        <4>1. <<m, r>> = <<m, o>>
          BY <1>1, <2>9, <3>1
        <4>2. r = o
          BY <4>1
        <4> QED
          BY <1>1, <2>9, <4>2
      <3>2. CASE j # 1
        <4>1. 1 < j
          BY <3>2
        <4>2. Earlier(<<m, o>>, <<m, r>>)
          BY <1>1, <1>2, <2>8, <2>9, <4>1 DEF OrderInv, WireOrder
        <4> QED
          BY <1>1, <2>9, <4>2 DEF Earlier
      <3> QED
        BY <3>1, <3>2
    <2>11. r + Chunk(s, r, log[m].len) = p
      BY <1>1, <2>7, <2>9 DEF Ends
    <2>12. Chunk(s, r, log[m].len) \in Nat /\ Chunk(s, r, log[m].len) = MaxData[s.mt]
      <3>1. p # log[m].len
        BY <2>2, <2>4
      <3> QED
        BY <1>1, <1>5, <2>9, <2>11, <3>1, ChunkType, ZenonT(30)
    <2>13. \A len, max \in Nat : r >= o /\ n <= max /\ r + max = p /\ p < len => o + n # len
      BY <1>1, <2>2, <2>9, SMTT(30)
    <2>14. p < log[m].len
      BY <2>2, <2>4
    <2> QED
      BY <1>1, <1>5, <2>10, <2>11, <2>12, <2>13, <2>14
  <1> QED
    BY <1>4, <1>6, <1>7

(* The callback appends one content, and no other message comes with it.   *)
LEMMA DeliveredNow ==
  ASSUME TypeInv, NEW m \in 1 .. Len(log), delivered' = Append(delivered, Content(m))
  PROVE  /\ Len(delivered) \in Nat /\ Len(delivered') = Len(delivered) + 1
         /\ delivered'[Len(delivered) + 1] = Content(m)
         /\ \A i \in 1 .. Len(delivered) : i \in 1 .. Len(delivered') /\ delivered'[i] = delivered[i]
         /\ \A i \in 1 .. Len(delivered') : i \in 1 .. Len(delivered) \/ i = Len(delivered) + 1
         /\ Len(delivered) + 1 \in 1 .. Len(delivered')
  <1>1. delivered \in Seq(Outcome) /\ Content(m) \in Outcome
    BY ContentType DEF TypeInv
  <1>2. /\ Len(delivered) \in Nat /\ Len(delivered') = Len(delivered) + 1
        /\ delivered'[Len(delivered) + 1] = Content(m)
        /\ \A i \in 1 .. Len(delivered) : delivered'[i] = delivered[i]
    BY <1>1, AppendProperties, LenProperties
  <1> QED
    BY <1>2

LEMMA CameNow ==
  ASSUME TypeInv, NEW m, NEW o, NEW s, NEW n, NEW d, Heads(m, o, s, n), Takes(m, o, s, n, d),
         NEW x \in 1 .. Len(log)
  PROVE  Came(x)' <=> Came(x) \/ (x = m /\ o + n = log[m].len)
  <1>1. Content(x)' = Content(x)
    <2>1. Steady
      BY DEF Steady, Takes
    <2> QED
      BY <2>1, SteadyFacts
  <1>2. delivered' = IF o + n = log[m].len THEN Append(delivered, Content(m)) ELSE delivered
    BY TakesDelivers
  <1>3. m \in 1 .. Len(log)
    BY DEF Heads, Cut
  <1>4. CASE o + n # log[m].len
    BY <1>1, <1>2, <1>4 DEF Came
  <1>5. CASE o + n = log[m].len
    <2>1. /\ delivered'[Len(delivered) + 1] = Content(m)
          /\ \A i \in 1 .. Len(delivered) : i \in 1 .. Len(delivered') /\ delivered'[i] = delivered[i]
          /\ \A i \in 1 .. Len(delivered') : i \in 1 .. Len(delivered) \/ i = Len(delivered) + 1
          /\ Len(delivered) + 1 \in 1 .. Len(delivered')
      BY <1>2, <1>3, <1>5, DeliveredNow
    <2>2. Content(x) = Content(m) => x = m
      BY <1>3, ContentsDiffer DEF Distinct
    <2>3. Came(x)' => Came(x) \/ x = m
      BY <1>1, <2>1, <2>2 DEF Came
    <2>4. Came(x) \/ x = m => Came(x)'
      BY <1>1, <2>1 DEF Came
    <2> QED
      BY <1>5, <2>3, <2>4
  <1> QED
    BY <1>4, <1>5

LEMMA FateReceive ==
  ASSUME LinkInv, OrderInv, FateInv, LinkInv', Receive
  PROVE  FateInv'
  <1>1. TypeInv /\ WireInv
    BY DEF LinkInv
  <1>2. PICK m, o, s, n : Heads(m, o, s, n)
    BY <1>1, HeadOfWire DEF Receive
  <1>3. PICK d : Takes(m, o, s, n, d)
    BY <1>1, <1>2, ReceiveTakes
  <1>4. tx' = tx /\ log' = log
    BY <1>3 DEF Takes
  <1>5. /\ Len(wire) \in Nat \ {0} /\ Len(wire') = Len(wire) - 1
        /\ \A i \in 1 .. Len(wire') : wire'[i] = wire[i + 1]
    BY <1>1, <1>2, <1>3, ShorterWire
  <1>6. /\ \A i \in 1 .. Len(wire') : i + 1 \in 2 .. Len(wire) /\ i + 1 \in 1 .. Len(wire)
        /\ \A i \in 2 .. Len(wire) : i - 1 \in 1 .. Len(wire') /\ wire'[i - 1] = wire[i]
        /\ \A i \in 1 .. Len(wire) : i = 1 \/ i \in 2 .. Len(wire)
    BY <1>5
  <1>7. Steady
    BY <1>4 DEF Steady
  <1>8. m \in 1 .. Len(log) /\ s = log[m].sender /\ n = Chunk(s, o, log[m].len) /\ wire[1].from = <<m, o>>
    BY <1>2 DEF Heads, Cut
  <1>9. \A x \in 1 .. Len(log) : Came(x)' <=> Came(x) \/ (x = m /\ o + n = log[m].len)
    BY <1>1, <1>2, <1>3, CameNow
  <1>10. ASSUME NEW x \in 1 .. Len(log)
         PROVE  /\ Ending(x)' => Ending(x)
                /\ Ending(x) => Ending(x)' \/ (x = m /\ o + n = log[m].len)
    <2>1. PICK y : y = log[x].len
      OBVIOUS
    <2>2. /\ Ending(x)' <=> \E i \in 1 .. Len(wire') : Ends(i, x, y)'
          /\ Ending(x) <=> \E i \in 1 .. Len(wire) : Ends(i, x, y)
      BY <1>4, <2>1 DEF Ending, Ends
    <2>3. \A i \in 1 .. Len(wire') : Ends(i, x, y)' <=> Ends(i + 1, x, y)
      BY <1>5, <1>7, SameEnds
    <2>4. \A i \in 2 .. Len(wire) : Ends(i - 1, x, y)' <=> Ends(i, x, y)
      BY <1>6, <1>7, SameEnds
    <2>5. Ends(1, x, y) => x = m /\ o + n = log[m].len
      BY <1>8, <2>1 DEF Ends
    <2> QED
      BY <1>6, <2>2, <2>3, <2>4, <2>5
  <1>11. \A x \in 1 .. Len(log') : Came(x)' => Passed(x)'
    <2>1. SUFFICES ASSUME NEW x \in 1 .. Len(log), Came(x)'
                   PROVE  /\ log[x].fate # "refused"
                          /\ \A i \in 2 .. Len(wire) : wire[i].packet.mt = log[x].sender.mt => wire[i].from[1] > x
                          /\ \A q \in Senders : tx[q] # Quiet /\ q.mt = log[x].sender.mt => tx[q].msg > x
      BY <1>4, <1>5, <1>6 DEF Passed, Quiet
    <2>2. CASE Came(x)
      <3>1. \A i \in 2 .. Len(wire) : i \in 1 .. Len(wire)
        OBVIOUS
      <3> QED
        BY <2>2, <3>1, FateOf DEF Passed
    <2>3. CASE x = m /\ o + n = log[m].len
      BY <1>2, <1>8, <2>3, LastAtHead
    <2> QED
      BY <1>9, <2>1, <2>2, <2>3
  <1>12. \A x \in 1 .. Len(log') : log'[x].fate = "sending" =>
           tx'[log'[x].sender] # Quiet /\ tx'[log'[x].sender].msg = x
    BY <1>4, FateOf
  <1>13. \A x \in 1 .. Len(log') : log'[x].fate = "sent" => Came(x)' \/ Ending(x)'
    BY <1>4, <1>9, <1>10, FateOf
  <1>14. \A x \in 1 .. Len(log') : Ending(x)' => log'[x].fate = "sent"
    BY <1>4, <1>10, FateOf
  <1> QED
    BY <1>11, <1>12, <1>13, <1>14, FateNext

LanesInv == LinkInv /\ OrderInv /\ FateInv

LEMMA LanesStart == Init => LanesInv
  <1> SUFFICES ASSUME Init PROVE LanesInv
    OBVIOUS
  <1>1. wire = <<>> /\ log = <<>> /\ tx = [s \in Senders |-> Quiet]
    BY DEF Init
  <1>2. Len(<<>>) = 0 /\ 1 .. 0 = {} /\ 0 <= MaxMessages
    BY LinkAssumption
  <1>3. LinkInv
    BY LinkStart
  <1>4. OrderInv
    BY <1>1, <1>2 DEF OrderInv, WireOrder, SenderOrder
  <1>5. FateInv
    BY <1>1, <1>2 DEF FateInv
  <1> QED
    BY <1>3, <1>4, <1>5 DEF LanesInv

LEMMA LanesStep ==
  ASSUME ~ Silent, LanesInv, [Next]_linkVars
  PROVE  LanesInv'
  <1>1. LinkInv /\ OrderInv /\ FateInv
    BY DEF LanesInv
  <1>2. LinkInv'
    BY <1>1, LinkStep
  <1>3. ASSUME NEW s \in Senders, NEW len \in Lengths, Begin(s, len) PROVE OrderInv' /\ FateInv'
    BY <1>1, <1>2, <1>3, OrderBegin, FateBegin
  <1>4. ASSUME NEW s \in Senders, Write(s) PROVE OrderInv' /\ FateInv'
    BY <1>1, <1>4, OrderWrite, FateWrite
  <1>5. CASE Receive
    BY <1>1, <1>2, <1>5, OrderReceive, FateReceive DEF LanesInv
  <1>6. CASE UNCHANGED linkVars
    <2>1. UNCHANGED <<tx, log, wire, delivered>>
      BY <1>6 DEF linkVars
    <2>2. OrderInv'
      BY <1>1, <2>1 DEF OrderInv, WireOrder, SenderOrder, Earlier, Quiet
    <2>3. FateInv'
      BY <1>1, <2>1 DEF FateInv, Came, Ending, Passed, Ends, Content, Quiet
    <2> QED
      BY <1>2, <2>2, <2>3 DEF LanesInv
  <1> QED
    BY <1>2, <1>3, <1>4, <1>5, <1>6 DEF LanesInv, Next

-----------------------------------------------------------------------------
(* The lanes. *)

(* What the mapping says of a message, and of what was delivered.          *)
Transits ==
  \A l, m : m \in InTransit(l) <=> /\ m \in 1 .. Len(log) /\ log[m].sender.mt = l
                                   /\ log[m].fate # "refused" /\ ~ Came(m)

LEMMA TransitOf == LinkInv => Transits
  <1> SUFFICES ASSUME LinkInv PROVE Transits
    OBVIOUS
  <1>1. DOMAIN log = 1 .. Len(log) /\ DOMAIN delivered = 1 .. Len(delivered)
    BY LenProperties DEF LinkInv, TypeInv
  <1> QED
    BY <1>1 DEF Transits, InTransit, Came

Named ==
  /\ DOMAIN delivered = 1 .. Len(delivered) /\ Len(delivered) \in Nat
  /\ \A i \in 1 .. Len(delivered) : \E m \in 1 .. Len(log) :
       delivered[i] = Content(m) /\ Identity(delivered[i]) = m

LEMMA NameOf == LinkInv => Named
  <1> SUFFICES ASSUME LinkInv PROVE Named
    OBVIOUS
  <1>1. DOMAIN log = 1 .. Len(log) /\ DOMAIN delivered = 1 .. Len(delivered) /\ Len(delivered) \in Nat
    BY LenProperties DEF LinkInv, TypeInv
  <1>2. ASSUME NEW i \in 1 .. Len(delivered)
        PROVE  \E m \in 1 .. Len(log) : delivered[i] = Content(m) /\ Identity(delivered[i]) = m
    <2> DEFINE P(m) == m \in DOMAIN log /\ delivered[i] = Content(m)
    <2>1. PICK m \in 1 .. Len(log) : delivered[i] = Content(m)
      BY <1>1 DEF LinkInv, DeliveredWereSent
    <2>2. Identity(delivered[i]) = CHOOSE x \in DOMAIN log : delivered[i] = Content(x)
      BY <1>1, <2>1 DEF Identity
    <2>3. (CHOOSE x \in DOMAIN log : delivered[i] = Content(x)) \in DOMAIN log
          /\ delivered[i] = Content(CHOOSE x \in DOMAIN log : delivered[i] = Content(x))
      BY <1>1, <2>1
    <2>4. Distinct
      BY ContentsDiffer DEF LinkInv
    <2> QED
      BY <1>1, <2>1, <2>2, <2>3, <2>4 DEF Distinct
  <1> QED
    BY <1>1, <1>2 DEF Named

LEMMA SameName ==
  ASSUME LinkInv, LinkInv', Steady, NEW i \in 1 .. Len(delivered), i \in 1 .. Len(delivered'),
         delivered'[i] = delivered[i]
  PROVE  Identity(delivered[i])' = Identity(delivered[i]) /\ Identity(delivered[i]) \in 1 .. Len(log)
  <1>1. Named /\ Named' /\ Distinct'
    <2>1. Named' /\ Distinct'
      BY NameOf, ContentsDiffer, PTL DEF LinkInv
    <2> QED
      BY <2>1, NameOf
  <1>2. PICK m \in 1 .. Len(log) : delivered[i] = Content(m) /\ Identity(delivered[i]) = m
    BY <1>1 DEF Named
  <1>3. PICK x \in 1 .. Len(log') : delivered'[i] = Content(x)' /\ Identity(delivered[i])' = x
    BY <1>1 DEF Named
  <1>4. Content(m)' = Content(m) /\ m \in 1 .. Len(log')
    BY SteadyFacts DEF Steady
  <1>5. x = m
    BY <1>1, <1>2, <1>3, <1>4 DEF Distinct
  <1> QED
    BY <1>2, <1>3, <1>5
LEMMA LanesSubmit ==
  ASSUME LanesInv, LinkInv', NEW s \in Senders, NEW len \in Lengths, Begin(s, len),
         NEW new, new = Len(log) + 1
  PROVE  Lanes!Submit(s.mt, new) /\ s.mt \in Kinds /\ new \in 1 .. MaxMessages
  <1>1. LinkInv /\ TypeInv
    BY DEF LanesInv, LinkInv
  <1>2. /\ Steady /\ Len(log') = new /\ Len(log) \in Nat
        /\ \A m \in 1 .. Len(log) : log'[m] = log[m]
        /\ log'[new] = [sender |-> s, len |-> len, fate |-> "sending"]
    BY <1>1, SteadyBegin
  <1>3. delivered' = delivered /\ Len(log) < MaxMessages
    BY DEF Begin
  <1>4. s.mt \in Kinds /\ new \in 1 .. MaxMessages
    BY <1>2, <1>3, SenderType, LinkAssumption
  <1>5. Transits /\ Transits'
    <2>1. Transits'
      BY TransitOf, PTL
    <2> QED
      BY <1>1, <2>1, TransitOf
  <1>6. \A m \in 1 .. Len(log) : Came(m)' <=> Came(m)
    BY <1>2, <1>3, SameCame
  <1>7. new \notin 1 .. Len(log) /\ \A m : m \in 1 .. Len(log') <=> m \in 1 .. Len(log) \/ m = new
    BY <1>2
  <1>8. ~ Came(new)'
    BY <1>1, <1>2, <1>3, <1>7, NewIsNotCome DEF LinkInv
  <1>9. \A l \in Kinds : InTransit(l)' = IF l = s.mt THEN InTransit(l) \union {new} ELSE InTransit(l)
    <2>1. ASSUME NEW l \in Kinds, NEW m
          PROVE  m \in InTransit(l)' <=> m \in InTransit(l) \/ (l = s.mt /\ m = new)
      <3>1. m \in InTransit(l)' <=> /\ m \in 1 .. Len(log') /\ log'[m].sender.mt = l
                                    /\ log'[m].fate # "refused" /\ ~ Came(m)'
        BY <1>5 DEF Transits
      <3>2. m \in InTransit(l) <=> /\ m \in 1 .. Len(log) /\ log[m].sender.mt = l
                                   /\ log[m].fate # "refused" /\ ~ Came(m)
        BY <1>5 DEF Transits
      <3>3. log'[new].sender = s /\ log'[new].fate # "refused"
        BY <1>2
      <3> QED
        BY <1>2, <1>6, <1>7, <1>8, <3>1, <3>2, <3>3
    <2> QED
      BY <2>1
  <1>10. \A l : \A m \in InTransit(l) : m < new
    BY <1>2, <1>5 DEF Transits
  <1>11. \A i \in 1 .. Len(delivered) : Identity(delivered[i])' = Identity(delivered[i]) /\ Identity(delivered[i]) < new
    <2>1. \A i \in 1 .. Len(delivered) :
            Identity(delivered[i])' = Identity(delivered[i]) /\ Identity(delivered[i]) \in 1 .. Len(log)
      BY <1>1, <1>2, <1>3, SameName
    <2> QED
      BY <1>2, <2>1
  <1>12. DOMAIN delivered = 1 .. Len(delivered)
    BY <1>1, NameOf DEF Named
  <1> QED
    BY <1>3, <1>4, <1>9, <1>10, <1>11, <1>12 DEF Lanes!Submit

LEMMA SetsEqual == \A S, T : (\A x : x \in S <=> x \in T) => S = T
  OBVIOUS

(* What a callback was given, by the numbers of the messages.              *)
Received == [i \in DOMAIN delivered |-> Identity(delivered[i])]

LEMMA LanesWrite ==
  ASSUME LanesInv, LinkInv', NEW s \in Senders, Write(s), ~ Silent
  PROVE  (\E l \in Kinds, m \in 1 .. MaxMessages : Lanes!Lose(l, m)) \/ UNCHANGED Lanes!laneVars
  <1>1. LinkInv /\ TypeInv /\ WireInv /\ SendersInv
    BY DEF LanesInv, LinkInv
  <1>2. PICK m \in 1 .. Len(log), o \in Nat, n \in Nat \ {0} : Writes(s, m, o, n)
    BY <1>1, WriteEffect
  <1>3. /\ Steady /\ Len(log') = Len(log) /\ \A q \in 1 .. Len(log) : q # m => log'[q] = log[q]
        /\ log'[m].fate = IF wire' = wire THEN "refused"
                          ELSE IF o + n = log[m].len THEN "sent" ELSE log[m].fate
    BY <1>1, <1>2, SteadyWrite
  <1>4. log[m].sender = s /\ log[m].fate = "sending" /\ delivered' = delivered /\ tx[s] # Quiet /\ tx[s].msg = m
    BY <1>2 DEF Writes
  <1>5. Transits /\ Transits'
    <2>1. Transits'
      BY TransitOf, PTL
    <2> QED
      BY <1>1, <2>1, TransitOf
  <1>6. \A x \in 1 .. Len(log) : Came(x)' <=> Came(x)
    BY <1>3, <1>4, SameCame
  <1>7. ~ Came(m)
    <2>1. m \in Nat
      BY <1>1, EntryType
    <2>2. ~ (m > m)
      BY <2>1
    <2> QED
      BY <1>4, <2>2, FateOf DEF Passed, LanesInv
  <1>8. s.mt \in Kinds /\ m \in 1 .. MaxMessages
    <2>1. Len(log) \in Nat /\ Len(log) <= MaxMessages /\ MaxMessages \in Nat
      BY <1>1, LenProperties, LinkAssumption DEF LanesInv, OrderInv, TypeInv
    <2> QED
      BY <2>1, SenderType
  <1>9. \A i \in 1 .. Len(delivered) : Identity(delivered[i])' = Identity(delivered[i])
    BY <1>1, <1>3, <1>4, SameName
  <1>10. DOMAIN delivered = 1 .. Len(delivered)
    BY <1>1, NameOf DEF Named
  <1>11. ASSUME NEW l, NEW x
         PROVE  x \in InTransit(l)' <=> x \in InTransit(l) /\ ~ (x = m /\ wire' = wire)
    <2>1. x \in InTransit(l)' <=> /\ x \in 1 .. Len(log') /\ log'[x].sender.mt = l
                                  /\ log'[x].fate # "refused" /\ ~ Came(x)'
      BY <1>5 DEF Transits
    <2>2. x \in InTransit(l) <=> /\ x \in 1 .. Len(log) /\ log[x].sender.mt = l
                                 /\ log[x].fate # "refused" /\ ~ Came(x)
      BY <1>5 DEF Transits
    <2>3. x \in 1 .. Len(log) => log'[x].sender = log[x].sender
      BY <1>3 DEF Steady
    <2>4. log'[m].fate = "refused" <=> wire' = wire
      BY <1>3, <1>4
    <2> QED
      BY <1>3, <1>4, <1>6, <2>1, <2>2, <2>3, <2>4
  <1>12. CASE wire' = wire
    <2>1. \A l \in Kinds : InTransit(l)' = IF l = s.mt THEN InTransit(l) \ {m} ELSE InTransit(l)
      <3>1. \A l : m \in InTransit(l) => l = s.mt
        BY <1>4, <1>5 DEF Transits
      <3> QED
        BY <1>11, <1>12, <3>1
    <2>2. m \in InTransit(s.mt)
      BY <1>4, <1>5, <1>7 DEF Transits
    <2>3. Lanes!Lose(s.mt, m)
      BY <1>4, <1>8, <1>9, <1>10, <2>1, <2>2 DEF Lanes!Lose
    <2> QED
      BY <1>8, <2>3
  <1>13. CASE wire' # wire
    <2>1. \A l \in Kinds : InTransit(l)' = InTransit(l)
      <3>1. \A l, x : x \in InTransit(l)' <=> x \in InTransit(l)
        BY <1>11, <1>13
      <3> QED
        BY <3>1, SetsEqual
    <2> QED
      BY <1>4, <1>9, <1>10, <2>1 DEF Lanes!laneVars
  <1> QED
    BY <1>12, <1>13

LEMMA LanesReceive ==
  ASSUME LanesInv, LinkInv', Receive
  PROVE  (\E l \in Kinds, m \in 1 .. MaxMessages : Lanes!Deliver(l, m)) \/ UNCHANGED Lanes!laneVars
  <1>1. LinkInv /\ OrderInv /\ FateInv /\ TypeInv /\ WireInv
    BY DEF LanesInv, LinkInv
  <1>2. PICK m, o, s, n : Heads(m, o, s, n)
    BY <1>1, HeadOfWire DEF Receive
  <1>3. PICK d : Takes(m, o, s, n, d)
    BY <1>1, <1>2, ReceiveTakes
  <1>4. log' = log
    BY <1>3 DEF Takes
  <1>5. Steady
    BY <1>4 DEF Steady
  <1>6. /\ m \in 1 .. Len(log) /\ m \in Nat /\ s = log[m].sender /\ s \in Senders
        /\ wire[1].from = <<m, o>> /\ wire[1].packet.mt = s.mt /\ 1 \in 1 .. Len(wire)
    BY <1>2 DEF Heads, Cut
  <1>7. s.mt \in Kinds /\ m \in 1 .. MaxMessages
    <2>1. Len(log) \in Nat /\ Len(log) <= MaxMessages /\ MaxMessages \in Nat
      BY <1>1, LenProperties, LinkAssumption DEF OrderInv, TypeInv
    <2> QED
      BY <1>6, <2>1, SenderType
  <1>8. Transits /\ Transits' /\ Named /\ Named'
    <2>1. Transits' /\ Named'
      BY TransitOf, NameOf, PTL
    <2> QED
      BY <1>1, <2>1, TransitOf, NameOf
  <1>9. ~ Came(m)
    BY <1>1, <1>2, HeadIsNotCome
  <1>10. delivered' = IF o + n = log[m].len THEN Append(delivered, Content(m)) ELSE delivered
    BY <1>1, <1>2, <1>3, TakesDelivers
  <1>11. \A x \in 1 .. Len(log) : Came(x)' <=> Came(x) \/ (x = m /\ o + n = log[m].len)
    BY <1>1, <1>2, <1>3, CameNow
  <1>12. ASSUME NEW l, NEW x
         PROVE  x \in InTransit(l)' <=> x \in InTransit(l) /\ ~ (x = m /\ o + n = log[m].len)
    <2>1. x \in InTransit(l)' <=> /\ x \in 1 .. Len(log) /\ log[x].sender.mt = l
                                  /\ log[x].fate # "refused" /\ ~ Came(x)'
      BY <1>4, <1>8 DEF Transits
    <2>2. x \in InTransit(l) <=> /\ x \in 1 .. Len(log) /\ log[x].sender.mt = l
                                 /\ log[x].fate # "refused" /\ ~ Came(x)
      BY <1>8 DEF Transits
    <2> QED
      BY <1>11, <2>1, <2>2
  <1>13. CASE o + n # log[m].len
    <2>1. \A l \in Kinds : InTransit(l)' = InTransit(l)
      <3>1. \A l, x : x \in InTransit(l)' <=> x \in InTransit(l)
        BY <1>12, <1>13
      <3> QED
        BY <3>1
    <2>2. \A i \in 1 .. Len(delivered) : Identity(delivered[i])' = Identity(delivered[i])
      BY <1>1, <1>5, <1>10, <1>13, SameName
    <2> QED
      BY <1>8, <1>10, <1>13, <2>1, <2>2 DEF Lanes!laneVars, Named
  <1>14. CASE o + n = log[m].len
    <2>1. /\ log[m].fate = "sent"
          /\ \A i \in 2 .. Len(wire) : wire[i].packet.mt = s.mt => wire[i].from[1] > m
          /\ \A q \in Senders : tx[q] # Quiet /\ q.mt = s.mt => tx[q].msg > m
      BY <1>1, <1>2, <1>14, LastAtHead
    <2>2. m \in InTransit(s.mt)
      BY <1>6, <1>8, <1>9, <2>1 DEF Transits
    <2>3. ASSUME NEW x \in InTransit(s.mt) PROVE m <= x
      <3>1. x \in 1 .. Len(log) /\ log[x].sender.mt = s.mt /\ log[x].fate # "refused" /\ ~ Came(x)
        BY <1>8 DEF Transits
      <3>2. x \in Nat /\ log[x].sender \in Senders /\ log[x].fate \in {"sending", "sent"}
        BY <1>1, <3>1, EntryType DEF Entry
      <3>3. CASE log[x].fate = "sending"
        <4>1. tx[log[x].sender] # Quiet /\ tx[log[x].sender].msg = x
          BY <1>1, <3>1, <3>3, FateOf
        <4>2. x > m
          BY <2>1, <3>1, <3>2, <4>1
        <4> QED
          BY <1>6, <3>2, <4>2
      <3>4. CASE log[x].fate = "sent"
        <4>1. PICK i \in 1 .. Len(wire) : Ends(i, x, log[x].len)
          BY <1>1, <3>1, <3>4, FateOf DEF Ending
        <4>2. wire[i].from[1] = x
          BY <4>1 DEF Ends
        <4>3. wire[i].packet.mt = s.mt
          <5>1. PICK y : wire[i].from[1] = y /\ wire[i].packet.mt = log[y].sender.mt
            BY <1>1, WireFacts
          <5> QED
            BY <3>1, <4>2, <5>1
        <4>4. i = 1 \/ i \in 2 .. Len(wire)
          BY <4>1
        <4>5. CASE i = 1
          BY <1>6, <4>2, <4>5
        <4>6. CASE i \in 2 .. Len(wire)
          <5>1. x > m
            BY <2>1, <4>2, <4>3, <4>6
          <5> QED
            BY <1>6, <3>2, <5>1
        <4> QED
          BY <4>4, <4>5, <4>6
      <3> QED
        BY <3>2, <3>3, <3>4
    <2>4. \A l \in Kinds : InTransit(l)' = IF l = s.mt THEN InTransit(l) \ {m} ELSE InTransit(l)
      <3>1. \A l : m \in InTransit(l) => l = s.mt
        BY <1>6, <1>8 DEF Transits
      <3> QED
        BY <1>12, <1>14, <3>1
    <2>5. Received' = Append(Received, m)
      <3>1. /\ Len(delivered) \in Nat /\ Len(delivered') = Len(delivered) + 1
            /\ delivered'[Len(delivered) + 1] = Content(m)
            /\ \A i \in 1 .. Len(delivered) : i \in 1 .. Len(delivered') /\ delivered'[i] = delivered[i]
            /\ \A i \in 1 .. Len(delivered') : i \in 1 .. Len(delivered) \/ i = Len(delivered) + 1
            /\ Len(delivered) + 1 \in 1 .. Len(delivered')
        BY <1>1, <1>6, <1>10, <1>14, DeliveredNow
      <3>2. \A i \in 1 .. Len(delivered) :
              Identity(delivered[i])' = Identity(delivered[i]) /\ Identity(delivered[i]) \in Nat
        <4>1. \A i \in 1 .. Len(delivered) :
                Identity(delivered[i])' = Identity(delivered[i]) /\ Identity(delivered[i]) \in 1 .. Len(log)
          BY <1>1, <1>5, <3>1, SameName
        <4> QED
          BY <1>1, <4>1, EntryType
      <3>3. PICK last : last = Len(delivered) + 1
        OBVIOUS
      <3>4. Identity(delivered[last])' = m
        <4>1. PICK x \in 1 .. Len(log') : delivered'[last] = Content(x)' /\ Identity(delivered[last])' = x
          BY <1>8, <3>1, <3>3 DEF Named
        <4>2. Content(x)' = Content(x)
          BY <1>4, <1>5, <4>1, SteadyFacts
        <4>3. Distinct
          BY <1>1, ContentsDiffer
        <4> QED
          BY <1>4, <1>6, <3>1, <3>3, <4>1, <4>2, <4>3 DEF Distinct
      <3> DEFINE N == Len(delivered)
                 a == Append(Received, m)
      <3>5. DOMAIN delivered = 1 .. N /\ DOMAIN delivered' = 1 .. N + 1
        BY <1>8, <3>1 DEF Named
      <3>6. Received = [i \in 1 .. N |-> Identity(delivered[i])]
        BY <3>5 DEF Received
      <3>7. Received \in Seq(Nat) /\ Len(Received) = N
        <4>1. [i \in 1 .. N |-> Identity(delivered[i])] \in Seq(Nat)
          BY <3>1, <3>2, IsASeq
        <4> QED
          BY <3>1, <3>6, <4>1
      <3>8. a \in [1 .. N + 1 -> Nat] /\ a[last] = m /\ \A i \in 1 .. N : a[i] = Received[i]
        <4>1. a \in Seq(Nat) /\ Len(a) = N + 1 /\ a[last] = m /\ \A i \in 1 .. N : a[i] = Received[i]
          BY <1>6, <3>3, <3>7, AppendProperties
        <4> QED
          BY <4>1, LenProperties
      <3> HIDE DEF a
      <3>9. DOMAIN Received' = 1 .. N + 1 /\ Received' = [i \in DOMAIN Received' |-> Received'[i]]
        BY <3>5 DEF Received
      <3>10. \A i \in 1 .. N + 1 : Received'[i] = a[i]
        <4>1. \A i \in 1 .. N : Received'[i] = Received[i]
          BY <3>1, <3>2, <3>5, <3>6 DEF Received
        <4>2. Received'[last] = m
          BY <3>1, <3>3, <3>4, <3>5 DEF Received
        <4>3. \A i \in 1 .. N + 1 : i \in 1 .. N \/ i = last
          BY <3>1, <3>3
        <4> QED
          BY <3>8, <4>1, <4>2, <4>3
      <3>11. Received' = a
        BY <3>8, <3>9, <3>10
      <3> QED
        BY <3>11 DEF a
    <2>6. Lanes!Deliver(s.mt, m)
      BY <1>7, <2>2, <2>3, <2>4, <2>5 DEF Lanes!Deliver, Received
    <2> QED
      BY <1>7, <2>6
  <1> QED
    BY <1>13, <1>14

LEMMA LanesBegin == Init => Lanes!Init
  <1> SUFFICES ASSUME Init PROVE Lanes!Init
    OBVIOUS
  <1>1. log = <<>> /\ delivered = <<>> /\ DOMAIN <<>> = {}
    BY DEF Init
  <1>2. \A l \in Kinds : InTransit(l) = {}
    BY <1>1 DEF InTransit
  <1>3. [i \in DOMAIN delivered |-> Identity(delivered[i])] = <<>>
    <2>1. [i \in {} |-> Identity(delivered[i])] = <<>>
      OBVIOUS
    <2> QED
      BY <1>1, <2>1
  <1> QED
    BY <1>2, <1>3 DEF Lanes!Init

LEMMA LanesNext ==
  ASSUME ~ Silent, LanesInv, LinkInv', [Next]_linkVars
  PROVE  [Lanes!Next]_(Lanes!laneVars)
  <1>1. ASSUME NEW s \in Senders, NEW len \in Lengths, Begin(s, len) PROVE Lanes!Next
    <2>1. PICK new : new = Len(log) + 1
      OBVIOUS
    <2>2. Lanes!Submit(s.mt, new) /\ s.mt \in Kinds /\ new \in 1 .. MaxMessages
      BY <1>1, <2>1, LanesSubmit
    <2> QED
      BY <2>2 DEF Lanes!Next
  <1>2. ASSUME NEW s \in Senders, Write(s) PROVE [Lanes!Next]_(Lanes!laneVars)
    BY <1>2, LanesWrite DEF Lanes!Next
  <1>3. CASE Receive
    BY <1>3, LanesReceive DEF Lanes!Next
  <1>4. CASE UNCHANGED linkVars
    <2>1. log' = log /\ delivered' = delivered
      BY <1>4 DEF linkVars
    <2> QED
      BY <2>1 DEF Lanes!laneVars, InTransit, Identity, Content
  <1> QED
    BY <1>1, <1>2, <1>3, <1>4 DEF Next

(* The link keeps the promise of MessageLanes, for any senders, lengths,   *)
(* packet and buffer sizes: whatever an honest sink refuses, the messages  *)
(* of a kind come out once and in the order they were sent.                *)
THEOREM LinkImplementsLanes ==
  ASSUME ~ Silent
  PROVE  Spec => ImplementsLanes
  <1>1. LanesInv /\ [Next]_linkVars => LanesInv'
    BY LanesStep
  <1>2. LanesInv /\ LanesInv' /\ [Next]_linkVars => [Lanes!Next]_(Lanes!laneVars)
    BY LanesNext DEF LanesInv
  <1> QED
    BY <1>1, <1>2, LanesStart, LanesBegin, PTL DEF Spec, ImplementsLanes, Lanes!Spec
=============================================================================
