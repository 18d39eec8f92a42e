----------------------------- MODULE RtosProofs -----------------------------
(***************************************************************************)
(* What the two tasks of the FreeRTOS example keep, for every catalog,     *)
(* every reply, every size of the queues and whatever the host does.       *)
(***************************************************************************)
EXTENDS RtosPipeline, DataLemmas

-----------------------------------------------------------------------------
(* The words in a FIFO. *)

Worded(s) == Len(s) \in Nat /\ \A i \in 1 .. Len(s) : s[i].words \in Nat

(* Words is the last of the running totals its recursive function makes.   *)
LEMMA RunningTotals ==
  ASSUME NEW s, Worded(s)
  PROVE  \E f \in [0 .. Len(s) -> Nat] :
           /\ Words(s) = f[Len(s)] /\ f[0] = 0
           /\ \A n \in 1 .. Len(s) : f[n] = f[n - 1] + s[n].words
  <1> DEFINE N == Len(s)
             Sums(f) == f = [n \in 0 .. N |-> IF n = 0 THEN 0 ELSE f[n - 1] + s[n].words]
             sum == CHOOSE f : Sums(f)
             h == [n \in 1 .. N |-> [v \in Nat |-> v + s[n].words]]
  <1>1. N \in Nat /\ \A n \in 1 .. N : s[n].words \in Nat
    BY DEF Worded
  <1>2. PICK f : Follows(f, Nat, 0, N, h)
    <2>1. \A n \in 1 .. N, v \in Nat : h[n][v] \in Nat
      BY <1>1
    <2>2. 0 \in Nat /\ N \in Nat
      BY <1>1
    <2> HIDE DEF h, N
    <2> QED
      BY <2>1, <2>2, Recursion, Zenon
  <1>3. ASSUME NEW n \in 0 .. N
        PROVE  f[n] = IF n = 0 THEN 0 ELSE f[n - 1] + s[n].words
    <2>1. CASE n = 0
      BY <1>2, <2>1 DEF Follows
    <2>2. CASE n \in 1 .. N
      <3>1. f[n - 1] \in Nat
        BY <1>1, <1>2, <2>2 DEF Follows
      <3> QED
        BY <1>2, <2>2, <3>1 DEF Follows
    <2> QED
      BY <1>1, <2>1, <2>2
  <1>4. Sums(f)
    BY <1>2, <1>3 DEF Follows
  <1>5. Sums(sum)
    <2> HIDE DEF Sums
    <2> QED
      BY <1>4
  <1>6. Words(s) = sum[N]
    BY DEF Words
  <1> HIDE DEF sum
  <1>7. sum[0] = 0 /\ \A n \in 1 .. N : sum[n] = sum[n - 1] + s[n].words
    BY <1>1, <1>5
  <1>8. \A n \in Nat : n <= N => sum[n] \in Nat
    <2>1. ASSUME NEW m \in Nat, m <= N => sum[m] \in Nat, m + 1 <= N
          PROVE  sum[m + 1] \in Nat
      <3>1. sum[m + 1] = sum[m] + s[m + 1].words
        BY <1>1, <1>7, <2>1
      <3> QED
        BY <1>1, <2>1, <3>1
    <2> DEFINE T == {m \in Nat : m <= N => sum[m] \in Nat}
    <2>2. 0 \in T /\ \A n \in Nat : n \in T => n + 1 \in T
      BY <1>7, <2>1
    <2> HIDE DEF T
    <2>3. \A n \in Nat : n \in T
      BY <2>2, Induction
    <2> QED
      BY <2>3 DEF T
  <1>9. sum \in [0 .. N -> Nat]
    <2>1. DOMAIN sum = 0 .. N /\ sum = [n \in 0 .. N |-> sum[n]]
      BY <1>5
    <2> QED
      BY <1>1, <1>8, <2>1
  <1> QED
    BY <1>6, <1>7, <1>9

(* t is s without its first k messages. *)
Rest(t, s, k) ==
  /\ k \in 0 .. Len(s) /\ Len(t) = Len(s) - k
  /\ \A i \in 1 .. Len(t) : t[i] = s[i + k]

(* What is left of a FIFO has no more words than the whole.                *)
LEMMA WordsOfRest ==
  ASSUME NEW s, NEW t, Worded(s), Worded(t), NEW k, Rest(t, s, k)
  PROVE  Words(t) \in Nat /\ Words(s) \in Nat /\ Words(t) <= Words(s)
  <1>1. PICK f \in [0 .. Len(s) -> Nat] :
          /\ Words(s) = f[Len(s)] /\ f[0] = 0
          /\ \A n \in 1 .. Len(s) : f[n] = f[n - 1] + s[n].words
    BY RunningTotals
  <1>2. PICK g \in [0 .. Len(t) -> Nat] :
          /\ Words(t) = g[Len(t)] /\ g[0] = 0
          /\ \A n \in 1 .. Len(t) : g[n] = g[n - 1] + t[n].words
    BY RunningTotals
  <1>3. /\ Len(s) \in Nat /\ \A i \in 1 .. Len(s) : s[i].words \in Nat
        /\ Len(t) \in Nat /\ \A i \in 1 .. Len(t) : t[i].words \in Nat
    BY DEF Worded
  <1>9. k \in 0 .. Len(s) /\ Len(t) = Len(s) - k
    BY DEF Rest
  <1> DEFINE T == {n \in Nat : n <= Len(t) => g[n] + f[k] = f[n + k]}
  <1>4. 0 \in T
    <2>1. f[k] \in Nat /\ g[0] = 0
      BY <1>1, <1>2, <1>3, <1>9
    <2> QED
      BY <2>1, SMTT(30)
  <1>5. ASSUME NEW n \in Nat, n \in T, n + 1 <= Len(t) PROVE g[n + 1] + f[k] = f[n + 1 + k]
    <2>1. n + 1 \in 1 .. Len(t) /\ n + 1 + k \in 1 .. Len(s) /\ k \in 0 .. Len(s)
          /\ n \in 0 .. Len(t) /\ n + k \in 0 .. Len(s)
      BY <1>3, <1>5, <1>9
    <2>2. g[n + 1] = g[n] + t[n + 1].words
      BY <1>2, <2>1
    <2>3. f[n + 1 + k] = f[n + k] + s[n + 1 + k].words
      BY <1>1, <1>3, <2>1
    <2>4. t[n + 1] = s[n + 1 + k]
      BY <2>1 DEF Rest
    <2>5. g[n] + f[k] = f[n + k]
      BY <1>5
    <2>6. g[n] \in Nat /\ f[k] \in Nat /\ f[n + k] \in Nat /\ t[n + 1].words \in Nat
      BY <1>3, <2>1
    <2> QED
      BY <2>2, <2>3, <2>4, <2>5, <2>6
  <1>6. ASSUME NEW n \in Nat, n \in T PROVE n + 1 \in T
    BY <1>5, <1>6
  <1> HIDE DEF T
  <1>7. Len(t) \in T
    BY <1>3, <1>4, <1>6, Induction
  <1>8. g[Len(t)] + f[k] = f[Len(s)]
    BY <1>3, <1>7, <1>9 DEF T
  <1>10. g[Len(t)] \in Nat /\ f[k] \in Nat /\ f[Len(s)] \in Nat
    <2>1. Len(t) \in 0 .. Len(t) /\ Len(s) \in 0 .. Len(s) /\ k \in 0 .. Len(s)
      BY <1>3, <1>9
    <2> QED
      BY <2>1
  <1> QED
    BY <1>1, <1>2, <1>8, <1>10

-----------------------------------------------------------------------------
(* The runs of the catalog. *)

LEMMA CatalogSize ==
  /\ Catalog \in Seq(Message) /\ Len(Catalog) \in Nat \ {0}
  /\ \A i \in Nat \ {0} : At(i) \in 1 .. Len(Catalog) /\ Catalog[At(i)] \in Message
  <1>1. Catalog \in Seq(Message) /\ Catalog # <<>>
    BY RtosAssumption
  <1>2. Len(Catalog) \in Nat \ {0}
    BY <1>1, EmptySeq
  <1>3. ASSUME NEW i \in Nat \ {0}
        PROVE  At(i) \in 1 .. Len(Catalog) /\ Catalog[At(i)] \in Message
    <2>1. (i - 1) % Len(Catalog) \in 0 .. Len(Catalog) - 1
      BY <1>2, Remainder
    <2>2. At(i) \in 1 .. Len(Catalog)
      BY <1>2, <2>1 DEF At
    <2> QED
      BY <1>1, <2>2, ElementOfSeq
  <1> QED
    BY <1>1, <1>2, <1>3

(* From a Start, emit_catalog finds an End within one lap of the catalog.  *)
LEMMA RunEnds ==
  ASSUME NEW i \in 1 .. Len(Catalog)
  PROVE  /\ RunLength(i) \in 1 .. Len(Catalog)
         /\ Catalog[i].kind # "start" => RunLength(i) = 1
         /\ Catalog[i].kind = "start" => Catalog[At(i + RunLength(i) - 1)].kind = "end"
  <1> DEFINE L == Len(Catalog)
             Ends(n) == Catalog[At(i + n - 1)].kind = "end"
             First(n) == Ends(n) /\ \A k \in 2 .. n - 1 : ~ Ends(k)
             E == {n \in 2 .. L : Ends(n)}
  <1>1. L \in Nat \ {0}
    BY CatalogSize
  <1>2. CASE Catalog[i].kind # "start"
    BY <1>1, <1>2 DEF RunLength
  <1>3. CASE Catalog[i].kind = "start"
    <2>1. PICK j \in 1 .. L : Catalog[j].kind = "end"
      BY <1>3, RtosAssumption
    <2>2. i # j
      BY <1>3, <2>1
    <2> DEFINE d == IF j > i THEN j - i + 1 ELSE j - i + 1 + L
    <2>3. d \in 2 .. L
      BY <1>1, <2>2
    <2>4. (i + d - 1) - 1 \in {j - 1, j - 1 + L} /\ i + d - 1 \in Nat
      BY <1>1, <2>3
    <2> HIDE DEF d, L
    <2>5. (j - 1) % L = j - 1 /\ (j - 1 + L) % L = j - 1
      <3>1. j - 1 \in 0 .. L - 1 /\ j - 1 + L \in L .. 2 * L - 1
        BY <1>1
      <3>2. (j - 1 + L) - L = j - 1
        BY <1>1
      <3> QED
        BY <1>1, <3>1, <3>2, Remainder, Zenon
    <2>6. ((i + d - 1) - 1) % L = j - 1
      BY <2>4, <2>5
    <2>7. At(i + d - 1) = j
      BY <2>6 DEF At, L
    <2>8. E # {} /\ E \subseteq Nat
      <3>1. Ends(d)
        BY <2>1, <2>7
      <3>2. d \in E
        BY <2>3, <3>1
      <3> HIDE DEF Ends
      <3> QED
        BY <1>1, <3>2
    <2>9. PICK m \in E : \A k \in E : m <= k
      <3> HIDE DEF E
      <3> QED
        BY <2>8, LeastElement
    <2>10. m \in 2 .. L /\ First(m)
      <3> HIDE DEF Ends
      <3>1. m \in 2 .. L /\ Ends(m)
        BY <2>9
      <3>2. ASSUME NEW k \in 2 .. m - 1 PROVE ~ Ends(k)
        BY <1>1, <2>9, <3>1
      <3> QED
        BY <3>1, <3>2
    <2>11. RunLength(i) = CHOOSE n \in 2 .. L : First(n)
      BY <1>3 DEF RunLength, L
    <2> HIDE DEF First
    <2>12. RunLength(i) \in 2 .. L /\ First(RunLength(i))
      BY <2>10, <2>11
    <2> USE DEF First
    <2> QED
      BY <1>1, <1>3, <2>12 DEF L
  <1> QED
    BY <1>2, <1>3

(* What a pass emits: the same messages, all with the mark of the pass.    *)
LEMMA MarkedMessages ==
  ASSUME passes \in Nat, passes < MaxPasses, NEW n \in Nat, NEW messages,
         Len(messages) = n, \A k \in 1 .. n : messages[k] \in Message
  PROVE  /\ Marked(messages) \in Seq(Sent) /\ Len(Marked(messages)) = n
         /\ \A k \in 1 .. n : /\ Marked(messages)[k].kind = messages[k].kind
                              /\ Marked(messages)[k].run = passes + 1
  <1> DEFINE mark(k) == [kind |-> messages[k].kind, words |-> messages[k].words,
                         run |-> passes + 1]
  <1>1. Marked(messages) = [k \in 1 .. n |-> mark(k)]
    BY DEF Marked
  <1>2. passes + 1 \in 0 .. MaxPasses
    BY RtosAssumption
  <1>3. ASSUME NEW k \in 1 .. n PROVE mark(k) \in Sent
    BY <1>2 DEF Message, Sent
  <1>4. \A k \in 1 .. n : mark(k).kind = messages[k].kind /\ mark(k).run = passes + 1
    OBVIOUS
  <1> HIDE DEF mark
  <1>5. [k \in 1 .. n |-> mark(k)] \in Seq(Sent) /\ Len([k \in 1 .. n |-> mark(k)]) = n
    BY <1>3
  <1> QED
    BY <1>1, <1>4, <1>5

LEMMA RunMessages ==
  ASSUME passes \in Nat, passes < MaxPasses, NEW i \in 1 .. Len(Catalog)
  PROVE  /\ Run(i) \in Seq(Sent) /\ Len(Run(i)) = RunLength(i)
         /\ \A k \in 1 .. RunLength(i) : /\ Run(i)[k].kind = Catalog[At(i + k - 1)].kind
                                         /\ Run(i)[k].run = passes + 1
  <1> DEFINE n == RunLength(i)
             entries == [k \in 1 .. n |-> Catalog[At(i + k - 1)]]
  <1>1. n \in Nat /\ Len(Catalog) \in Nat
    BY RunEnds, CatalogSize
  <1>2. ASSUME NEW k \in 1 .. n PROVE Catalog[At(i + k - 1)] \in Message
    <2>1. i + k - 1 \in Nat \ {0}
      BY <1>1
    <2> QED
      BY <2>1, CatalogSize
  <1>3. Len(entries) = n /\ \A k \in 1 .. n : entries[k] = Catalog[At(i + k - 1)]
    BY <1>1
  <1>4. Run(i) = Marked(entries)
    BY DEF Run
  <1> HIDE DEF n, entries
  <1>5. \A k \in 1 .. n : entries[k] \in Message
    BY <1>2, <1>3
  <1>6. /\ Marked(entries) \in Seq(Sent) /\ Len(Marked(entries)) = n
        /\ \A k \in 1 .. n : /\ Marked(entries)[k].kind = entries[k].kind
                             /\ Marked(entries)[k].run = passes + 1
    BY <1>1, <1>3, <1>5, MarkedMessages
  <1> QED
    BY <1>3, <1>4, <1>6 DEF n

LEMMA HeartbeatSent == Heartbeat \in Sent
  BY RtosAssumption DEF Heartbeat, Sent

-----------------------------------------------------------------------------
(* Type correctness. *)

SequencesOK ==
  /\ tx_fifo \in Seq(Sent) /\ tx_queue \in Seq(Sent) /\ held \in Seq(Sent)
  /\ todo \in Seq(Sent) /\ accepted \in Seq(Sent) /\ host \in Seq(Sent)
  /\ rx_fifo \in Seq(Inbound) /\ rx_queue \in Seq(Inbound)

SizesOK ==
  /\ Len(rx_queue) <= QueueDepth /\ Len(tx_queue) <= QueueDepth /\ Len(held) <= 1
  /\ Words(rx_fifo) <= FifoWords /\ Words(tx_fifo) <= FifoWords

CountersOK ==
  /\ cycle \in [idx: 1 .. Len(Catalog), paused: BOOLEAN, tick: 0 .. HeartbeatTicks - 1]
  /\ mounted \in BOOLEAN /\ passes \in 0 .. MaxPasses /\ tx_drops \in Nat
  /\ inbound \in [sent: Nat, taken: Nat, drops: Nat]
  /\ inbound.sent = inbound.taken + inbound.drops + Len(rx_queue) + Len(rx_fifo)

TypeInv == SequencesOK /\ SizesOK /\ CountersOK

LEMMA InboundWorded == ASSUME NEW s \in Seq(Inbound) PROVE Worded(s)
  <1>1. Len(s) \in Nat
    BY LenProperties
  <1>2. \A i \in 1 .. Len(s) : s[i] \in Inbound
    BY ElementOfSeq
  <1>3. ASSUME NEW m \in Inbound PROVE m.words \in Nat
    <2>1. m \in [kind: {"request", "trigger", "pause", "resume", "other"},
                 index: Nat, words: 1 .. 4]
      BY RtosAssumption
    <2> QED
      BY <2>1
  <1> QED
    BY <1>1, <1>2, <1>3 DEF Worded

LEMMA SentWorded == ASSUME NEW s \in Seq(Sent) PROVE Worded(s)
  <1>1. Len(s) \in Nat
    BY LenProperties
  <1>2. \A i \in 1 .. Len(s) : s[i] \in Sent
    BY ElementOfSeq
  <1>3. \A m \in Sent : m.words \in Nat
    BY DEF Sent
  <1> QED
    BY <1>1, <1>2, <1>3 DEF Worded

LEMMA WordsOfNone == Words(<<>>) = 0
  <1>1. Worded(<<>>)
    BY DEF Worded
  <1>2. Len(<<>>) = 0
    OBVIOUS
  <1> QED
    BY <1>1, <1>2, RunningTotals

LEMMA TypeInit == Init => TypeInv
  <1> SUFFICES ASSUME Init PROVE TypeInv
    OBVIOUS
  <1>1. QueueDepth \in Nat /\ FifoWords \in Nat /\ HeartbeatTicks \in Nat \ {0} /\ MaxPasses \in Nat
    BY RtosAssumption
  <1>2. Len(Catalog) \in Nat \ {0}
    BY CatalogSize
  <1>3. SequencesOK
    BY DEF Init, SequencesOK
  <1>4. SizesOK
    BY <1>1, WordsOfNone DEF Init, SizesOK
  <1>5. CountersOK
    BY <1>1, <1>2 DEF Init, CountersOK
  <1> QED
    BY <1>3, <1>4, <1>5 DEF TypeInv

LEMMA TypeHandle == ASSUME TypeInv, Handle PROVE TypeInv'
  <1> DEFINE m == Head(rx_queue)
  <1>1. SequencesOK /\ SizesOK /\ CountersOK
    BY DEF TypeInv
  <1>2. rx_queue \in Seq(Inbound) /\ rx_queue # <<>> /\ passes \in Nat /\ passes < MaxPasses
    BY <1>1 DEF Handle, SequencesOK, CountersOK
  <1>3. Head(rx_queue) \in Inbound /\ Tail(rx_queue) \in Seq(Inbound)
        /\ Len(Tail(rx_queue)) = Len(rx_queue) - 1
    BY <1>2, HeadTailProperties
  <1>4. m.index \in Nat
    <2>1. m \in [kind: {"request", "trigger", "pause", "resume", "other"},
                 index: Nat, words: 1 .. 4]
      BY <1>3, RtosAssumption
    <2> QED
      BY <2>1
  <1>5. todo' \in Seq(Sent)
    <2>1. Marked(Reply) \in Seq(Sent)
      <3>1. Reply \in Seq(Message)
        BY RtosAssumption
      <3>2. Len(Reply) \in Nat /\ \A k \in 1 .. Len(Reply) : Reply[k] \in Message
        BY <3>1, LenProperties, ElementOfSeq
      <3> QED
        BY <1>2, <3>2, MarkedMessages
    <2>2. Run(At(m.index + 1)) \in Seq(Sent)
      <3>1. At(m.index + 1) \in 1 .. Len(Catalog)
        BY <1>4, CatalogSize
      <3> QED
        BY <1>2, <3>1, RunMessages
    <2>3. todo' = Marked(Reply) \/ todo' = Run(At(m.index + 1)) \/ todo' = <<>>
      BY DEF Handle
    <2>4. <<>> \in Seq(Sent)
      OBVIOUS
    <2> QED
      BY <2>1, <2>2, <2>3, <2>4, Zenon
  <1>6. SequencesOK'
    BY <1>1, <1>3, <1>5 DEF Handle, SequencesOK, usbVars
  <1>7. SizesOK'
    <2>1. Len(rx_queue) \in Nat /\ QueueDepth \in Nat /\ Len(rx_queue) <= QueueDepth
      BY <1>1, RtosAssumption DEF SequencesOK, SizesOK
    <2>2. Len(rx_queue') <= QueueDepth
      BY <1>3, <2>1 DEF Handle
    <2> QED
      BY <1>1, <2>2 DEF Handle, SizesOK, usbVars
  <1>8. CountersOK'
    <2>1. passes' \in 0 .. MaxPasses
      BY <1>2, RtosAssumption, SMTT(30) DEF Handle
    <2>2. cycle' \in [idx: 1 .. Len(Catalog), paused: BOOLEAN, tick: 0 .. HeartbeatTicks - 1]
      <3>1. cycle.paused \in BOOLEAN
        BY <1>1 DEF CountersOK
      <3>2. PICK b \in BOOLEAN : cycle' = [cycle EXCEPT !.paused = b]
        BY <3>1 DEF Handle
      <3> QED
        BY <1>1, <3>2 DEF CountersOK
    <2> DEFINE InboundType == [sent: Nat, taken: Nat, drops: Nat]
    <2>25. inbound' = [inbound EXCEPT !.taken = @ + 1] /\ inbound \in InboundType
      BY <1>1 DEF Handle, CountersOK
    <2>3. inbound' \in InboundType
      BY <2>25
    <2>4. inbound'.sent = inbound.sent /\ inbound'.taken = inbound.taken + 1
          /\ inbound'.drops = inbound.drops
      BY <2>25
    <2>5. inbound.sent = inbound.taken + inbound.drops + Len(rx_queue) + Len(rx_fifo)
          /\ inbound.taken \in Nat /\ inbound.drops \in Nat
      BY <1>1 DEF CountersOK
    <2>6. Len(rx_queue) \in Nat /\ Len(rx_fifo) \in Nat
      BY <1>1 DEF SequencesOK
    <2>7. inbound'.sent = inbound'.taken + inbound'.drops + Len(rx_queue') + Len(rx_fifo')
      BY <1>3, <2>4, <2>5, <2>6 DEF Handle, usbVars
    <2>8. mounted' \in BOOLEAN /\ tx_drops' \in Nat
      BY <1>1 DEF Handle, CountersOK
    <2> QED
      BY <2>1, <2>2, <2>3, <2>7, <2>8 DEF CountersOK
  <1> QED
    BY <1>6, <1>7, <1>8 DEF TypeInv

LEMMA TypeTimeout == ASSUME TypeInv, Timeout PROVE TypeInv'
  <1> DEFINE i == cycle.idx
             due == cycle.tick + 1 >= HeartbeatTicks
  <1>1. SequencesOK /\ SizesOK /\ CountersOK
    BY DEF TypeInv
  <1>2. passes \in Nat /\ passes < MaxPasses /\ i \in 1 .. Len(Catalog)
        /\ cycle.tick \in 0 .. HeartbeatTicks - 1
        /\ cycle \in [idx: 1 .. Len(Catalog), paused: BOOLEAN, tick: 0 .. HeartbeatTicks - 1]
    BY <1>1 DEF Timeout, CountersOK
  <1>3. Run(i) \in Seq(Sent)
    BY <1>2, RunMessages
  <1>4. todo' \in Seq(Sent)
    <2>1. <<Heartbeat>> \in Seq(Sent)
      BY HeartbeatSent
    <2>2. <<Heartbeat>> \o Run(i) \in Seq(Sent)
      BY <1>3, <2>1, ConcatProperties
    <2>3. todo' = <<Heartbeat>> \o Run(i) \/ todo' = Run(i)
      BY DEF Timeout
    <2> QED
      BY <1>3, <2>2, <2>3, Zenon
  <1>5. SequencesOK'
    BY <1>1, <1>4 DEF Timeout, SequencesOK, usbVars
  <1>6. SizesOK'
    BY <1>1 DEF Timeout, SizesOK, usbVars
  <1>7. CountersOK'
    <2>1. passes' \in 0 .. MaxPasses
      <3>1. passes' = passes + 1 /\ MaxPasses \in Nat
        BY RtosAssumption DEF Timeout
      <3> QED
        BY <1>2, <3>1
    <2>2. At(i + RunLength(i)) \in 1 .. Len(Catalog)
      <3>1. RunLength(i) \in 1 .. Len(Catalog) /\ Len(Catalog) \in Nat
        BY <1>2, RunEnds, CatalogSize
      <3>2. i + RunLength(i) \in Nat \ {0}
        BY <1>2, <3>1
      <3> QED
        BY <3>2, CatalogSize
    <2>3. PICK t \in 0 .. HeartbeatTicks - 1 :
            cycle' = [cycle EXCEPT !.tick = t, !.idx = At(i + RunLength(i))]
      <3>1. HeartbeatTicks \in Nat \ {0}
        BY RtosAssumption
      <3>2. cycle' = [cycle EXCEPT !.tick = IF due THEN 0 ELSE cycle.tick + 1,
                                   !.idx = At(i + RunLength(i))]
        BY DEF Timeout
      <3>3. (IF due THEN 0 ELSE cycle.tick + 1) \in 0 .. HeartbeatTicks - 1
        BY <1>2, <3>1
      <3> QED
        BY <3>2, <3>3
    <2>4. cycle' \in [idx: 1 .. Len(Catalog), paused: BOOLEAN, tick: 0 .. HeartbeatTicks - 1]
      BY <1>2, <2>2, <2>3
    <2>5. UNCHANGED <<inbound, rx_queue, rx_fifo, mounted, tx_drops>>
      BY DEF Timeout, usbVars
    <2> QED
      BY <1>1, <2>1, <2>4, <2>5 DEF CountersOK
  <1> QED
    BY <1>5, <1>6, <1>7 DEF TypeInv

LEMMA TypeEnqueue == ASSUME TypeInv, Enqueue PROVE TypeInv'
  <1>1. SequencesOK /\ SizesOK /\ CountersOK
    BY DEF TypeInv
  <1>2. todo \in Seq(Sent) /\ todo # <<>> /\ tx_queue \in Seq(Sent) /\ accepted \in Seq(Sent)
    BY <1>1 DEF Enqueue, SequencesOK
  <1>3. Head(todo) \in Sent /\ Tail(todo) \in Seq(Sent)
    BY <1>2, HeadTailProperties
  <1>4. /\ Append(tx_queue, Head(todo)) \in Seq(Sent)
        /\ Append(accepted, Head(todo)) \in Seq(Sent)
        /\ Len(Append(tx_queue, Head(todo))) = Len(tx_queue) + 1
    BY <1>2, <1>3, AppendProperties
  <1>5. SequencesOK'
    BY <1>1, <1>3, <1>4 DEF Enqueue, SequencesOK, usbVars
  <1>6. SizesOK'
    <2>1. Len(tx_queue) \in Nat /\ QueueDepth \in Nat /\ Len(tx_queue) <= QueueDepth
      BY <1>1, <1>2, LenProperties, RtosAssumption DEF SizesOK
    <2>2. Len(tx_queue') <= QueueDepth
      BY <1>4, <2>1 DEF Enqueue, Accepts
    <2> QED
      BY <1>1, <2>2 DEF Enqueue, SizesOK, usbVars
  <1>7. CountersOK'
    <2>1. tx_drops \in Nat /\ tx_drops' \in {tx_drops, tx_drops + 1}
      BY <1>1 DEF Enqueue, CountersOK
    <2> QED
      BY <1>1, <2>1, SMTT(30) DEF Enqueue, CountersOK, usbVars
  <1> QED
    BY <1>5, <1>6, <1>7 DEF TypeInv

(* What usb_task read of the endpoint, and what of it was queued.          *)
LEMMA ReadSplits ==
  ASSUME SequencesOK, SizesOK, Read
  PROVE  \E n \in 1 .. Len(rx_fifo), kept \in 0 .. Len(rx_fifo) :
           /\ kept <= n /\ Len(rx_queue) + kept <= QueueDepth
           /\ rx_queue' = rx_queue \o SubSeq(rx_fifo, 1, kept)
           /\ inbound' = [inbound EXCEPT !.drops = @ + (n - kept)]
           /\ rx_fifo' = SubSeq(rx_fifo, n + 1, Len(rx_fifo))
  <1>1. Len(rx_queue) \in Nat /\ Len(rx_fifo) \in Nat /\ QueueDepth \in Nat
        /\ Len(rx_queue) <= QueueDepth
    BY RtosAssumption, LenProperties DEF SequencesOK, SizesOK
  <1> DEFINE kept(n) == IF n < QueueDepth - Len(rx_queue) THEN n ELSE QueueDepth - Len(rx_queue)
  <1>2. PICK n \in 1 .. Len(rx_fifo) :
           /\ rx_queue' = rx_queue \o SubSeq(rx_fifo, 1, kept(n))
           /\ inbound' = [inbound EXCEPT !.drops = @ + (n - kept(n))]
           /\ rx_fifo' = SubSeq(rx_fifo, n + 1, Len(rx_fifo))
    BY DEF Read
  <1>3. kept(n) \in 0 .. Len(rx_fifo) /\ kept(n) <= n /\ Len(rx_queue) + kept(n) <= QueueDepth
    BY <1>1
  <1> HIDE DEF kept
  <1> QED
    BY <1>2, <1>3

LEMMA TypeRead == ASSUME TypeInv, Read PROVE TypeInv'
  <1>1. SequencesOK /\ SizesOK /\ CountersOK
    BY DEF TypeInv
  <1>2. PICK n \in 1 .. Len(rx_fifo), kept \in 0 .. Len(rx_fifo) :
           /\ kept <= n /\ Len(rx_queue) + kept <= QueueDepth
           /\ rx_queue' = rx_queue \o SubSeq(rx_fifo, 1, kept)
           /\ inbound' = [inbound EXCEPT !.drops = @ + (n - kept)]
           /\ rx_fifo' = SubSeq(rx_fifo, n + 1, Len(rx_fifo))
    BY <1>1, ReadSplits
  <1>3. rx_fifo \in Seq(Inbound) /\ rx_queue \in Seq(Inbound)
        /\ Len(rx_fifo) \in Nat /\ Len(rx_queue) \in Nat /\ FifoWords \in Nat
    BY <1>1, LenProperties, RtosAssumption DEF SequencesOK
  <1>4. UNCHANGED <<todo, cycle, passes, tx_fifo, held, tx_queue, mounted, tx_drops, accepted, host>>
    BY DEF Read, midiVars
  <1> DEFINE first == SubSeq(rx_fifo, 1, kept)
             rest  == SubSeq(rx_fifo, n + 1, Len(rx_fifo))
  <1>5. first \in Seq(Inbound) /\ Len(first) = kept
    <2>1. \A j \in 1 .. kept : rx_fifo[j] \in Inbound
      BY <1>3, ElementOfSeq
    <2>2. first \in Seq(Inbound) /\ Len(first) = IF 1 <= kept THEN kept - 1 + 1 ELSE 0
      BY <1>3, <2>1, SubSeqProperties
    <2> QED
      BY <2>2
  <1>6. rest \in Seq(Inbound) /\ Len(rest) = Len(rx_fifo) - n
        /\ \A j \in 1 .. Len(rest) : rest[j] = rx_fifo[j + n]
    <2>1. \A j \in n + 1 .. Len(rx_fifo) : rx_fifo[j] \in Inbound
      BY <1>3, ElementOfSeq
    <2>2. rest \in Seq(Inbound)
          /\ Len(rest) = (IF n + 1 <= Len(rx_fifo) THEN Len(rx_fifo) - (n + 1) + 1 ELSE 0)
          /\ \A j \in 1 .. Len(rx_fifo) - (n + 1) + 1 : rest[j] = rx_fifo[n + 1 + j - 1]
      BY <1>3, <2>1, SubSeqProperties
    <2>3. Len(rest) = Len(rx_fifo) - n
      BY <1>3, <2>2
    <2>4. \A j \in 1 .. Len(rest) : n + 1 + j - 1 = j + n
      BY <1>3, <2>3
    <2> HIDE DEF rest
    <2> QED
      BY <1>3, <2>2, <2>3, <2>4
  <1> HIDE DEF first, rest
  <1>7. rx_queue' \in Seq(Inbound) /\ Len(rx_queue') = Len(rx_queue) + kept
    BY <1>2, <1>3, <1>5, ConcatProperties DEF first
  <1>8. rx_fifo' = rest
    BY <1>2 DEF rest
  <1>9. SequencesOK'
    BY <1>1, <1>4, <1>6, <1>7, <1>8 DEF SequencesOK
  <1>10. SizesOK'
    <2>1. Worded(rx_fifo) /\ Worded(rest)
      BY <1>3, <1>6, InboundWorded
    <2>2. Rest(rest, rx_fifo, n)
      BY <1>3, <1>6 DEF Rest
    <2>3. Words(rest) \in Nat /\ Words(rx_fifo) \in Nat /\ Words(rest) <= Words(rx_fifo)
      BY <2>1, <2>2, WordsOfRest
    <2>4. Words(rx_fifo') <= FifoWords
      BY <1>1, <1>3, <1>8, <2>3 DEF SizesOK
    <2> QED
      BY <1>1, <1>2, <1>4, <1>7, <2>4 DEF SizesOK
  <1>11. CountersOK'
    <2> DEFINE InboundType == [sent: Nat, taken: Nat, drops: Nat]
    <2>1. PICK d \in Nat : d = n - kept
      BY <1>2, <1>3
    <2>6. inbound \in InboundType
      BY <1>1 DEF CountersOK
    <2>7. inbound' = [inbound EXCEPT !.drops = @ + d]
      BY <1>2, <2>1
    <2>2. inbound' \in InboundType
      BY <2>6, <2>7
    <2>3. inbound'.sent = inbound.sent /\ inbound'.taken = inbound.taken
          /\ inbound'.drops = inbound.drops + d
      BY <2>6, <2>7
    <2>4. inbound.sent = inbound.taken + inbound.drops + Len(rx_queue) + Len(rx_fifo)
          /\ inbound.taken \in Nat /\ inbound.drops \in Nat
      BY <1>1 DEF CountersOK
    <2>8. Len(rx_queue') = Len(rx_queue) + kept /\ Len(rx_fifo') = Len(rx_fifo) - n
      BY <1>6, <1>7, <1>8
    <2>9. n \in Nat /\ kept \in Nat /\ Len(rx_queue) \in Nat /\ Len(rx_fifo) \in Nat
      BY <1>3
    <2>5. inbound'.sent = inbound'.taken + inbound'.drops + Len(rx_queue') + Len(rx_fifo')
      BY <2>1, <2>3, <2>4, <2>8, <2>9
    <2> QED
      BY <1>1, <1>4, <2>2, <2>5 DEF CountersOK
  <1> QED
    BY <1>9, <1>10, <1>11 DEF TypeInv

LEMMA TypeUsbTask == ASSUME TypeInv, Take \/ Write PROVE TypeInv'
  <1>1. SequencesOK /\ SizesOK /\ CountersOK
    BY DEF TypeInv
  <1>2. UNCHANGED <<todo, cycle, passes, rx_fifo, rx_queue, mounted, inbound, tx_drops,
                    accepted, host>>
    BY DEF Take, Write, midiVars
  <1>3. CountersOK'
    BY <1>1, <1>2 DEF CountersOK
  <1>4. CASE Take
    <2>1. tx_queue # <<>> /\ tx_queue \in Seq(Sent)
      BY <1>1, <1>4 DEF Take, SequencesOK
    <2>2. Head(tx_queue) \in Sent /\ Tail(tx_queue) \in Seq(Sent)
          /\ Len(Tail(tx_queue)) = Len(tx_queue) - 1 /\ Len(tx_queue) \in Nat
      BY <2>1, HeadTailProperties, LenProperties
    <2>3. held' = <<Head(tx_queue)>> /\ tx_queue' = Tail(tx_queue) /\ tx_fifo' = tx_fifo
      BY <1>4 DEF Take
    <2>4. held' \in Seq(Sent) /\ Len(held') = 1
      BY <2>2, <2>3
    <2>5. SequencesOK'
      BY <1>1, <1>2, <2>2, <2>3, <2>4 DEF SequencesOK
    <2>6. Len(tx_queue') <= QueueDepth
      BY <1>1, <2>2, <2>3, RtosAssumption DEF SizesOK
    <2>7. SizesOK'
      BY <1>1, <1>2, <2>3, <2>4, <2>6 DEF SizesOK
    <2> QED
      BY <1>3, <2>5, <2>7 DEF TypeInv
  <1>5. CASE Write
    <2>1. held' = <<>> /\ tx_fifo' = tx_fifo \o held /\ tx_queue' = tx_queue
          /\ Words(tx_fifo \o held) <= FifoWords
      BY <1>5 DEF Write, Fits
    <2>2. tx_fifo' \in Seq(Sent)
      BY <1>1, <2>1, ConcatProperties DEF SequencesOK
    <2>3. SequencesOK'
      BY <1>1, <1>2, <2>1, <2>2 DEF SequencesOK
    <2>4. SizesOK'
      BY <1>1, <1>2, <2>1 DEF SizesOK
    <2> QED
      BY <1>3, <2>3, <2>4 DEF TypeInv
  <1> QED
    BY <1>4, <1>5

LEMMA TypeHostReads == ASSUME TypeInv, HostReads PROVE TypeInv'
  <1>1. SequencesOK /\ SizesOK /\ CountersOK
    BY DEF TypeInv
  <1>2. tx_fifo \in Seq(Sent) /\ tx_fifo # <<>> /\ host \in Seq(Sent)
    BY <1>1 DEF HostReads, SequencesOK
  <1>3. Head(tx_fifo) \in Sent /\ Tail(tx_fifo) \in Seq(Sent)
        /\ Len(Tail(tx_fifo)) = Len(tx_fifo) - 1
        /\ \A i \in 1 .. Len(Tail(tx_fifo)) : Tail(tx_fifo)[i] = tx_fifo[i + 1]
    BY <1>2, HeadTailProperties
  <1>4. Append(host, Head(tx_fifo)) \in Seq(Sent)
    BY <1>2, <1>3, AppendProperties
  <1>5. Words(Tail(tx_fifo)) <= Words(tx_fifo) /\ Words(Tail(tx_fifo)) \in Nat
        /\ Words(tx_fifo) \in Nat
    <2>1. Worded(tx_fifo) /\ Worded(Tail(tx_fifo))
      BY <1>2, <1>3, SentWorded
    <2>2. 1 \in 0 .. Len(tx_fifo)
      BY <1>2, EmptySeq
    <2>3. Rest(Tail(tx_fifo), tx_fifo, 1)
      BY <1>3, <2>2 DEF Rest
    <2> QED
      BY <2>1, <2>3, WordsOfRest
  <1>6. UNCHANGED <<todo, cycle, passes, rx_fifo, held, rx_queue, tx_queue, mounted, inbound,
                    tx_drops, accepted>>
        /\ host' = Append(host, Head(tx_fifo)) /\ tx_fifo' = Tail(tx_fifo)
    BY DEF HostReads, midiVars
  <1>7. SequencesOK'
    BY <1>1, <1>3, <1>4, <1>6 DEF SequencesOK
  <1>8. SizesOK'
    <2>1. Words(tx_fifo') <= FifoWords
      BY <1>1, <1>5, <1>6, RtosAssumption DEF SizesOK
    <2> QED
      BY <1>1, <1>6, <2>1 DEF SizesOK
  <1>9. CountersOK'
    BY <1>1, <1>6 DEF CountersOK
  <1> QED
    BY <1>7, <1>8, <1>9 DEF TypeInv

LEMMA TypeHostSends == ASSUME TypeInv, NEW m \in Inbound, HostSends(m) PROVE TypeInv'
  <1>1. SequencesOK /\ SizesOK /\ CountersOK
    BY DEF TypeInv
  <1>2. rx_fifo \in Seq(Inbound) /\ rx_queue \in Seq(Inbound)
    BY <1>1 DEF SequencesOK
  <1>3. Append(rx_fifo, m) \in Seq(Inbound) /\ Len(Append(rx_fifo, m)) = Len(rx_fifo) + 1
        /\ Len(rx_fifo) \in Nat /\ Len(rx_queue) \in Nat
    BY <1>2, AppendProperties, LenProperties
  <1>4. UNCHANGED <<todo, cycle, passes, tx_fifo, held, rx_queue, tx_queue, mounted,
                    tx_drops, accepted, host>>
        /\ rx_fifo' = Append(rx_fifo, m) /\ Words(Append(rx_fifo, m)) <= FifoWords
        /\ inbound' = [inbound EXCEPT !.sent = @ + 1]
    BY DEF HostSends, midiVars
  <1>5. SequencesOK'
    BY <1>1, <1>3, <1>4 DEF SequencesOK
  <1>6. SizesOK'
    BY <1>1, <1>4 DEF SizesOK
  <1>7. CountersOK'
    <2> DEFINE InboundType == [sent: Nat, taken: Nat, drops: Nat]
    <2>1. inbound \in InboundType
      BY <1>1 DEF CountersOK
    <2>2. inbound' \in InboundType /\ inbound'.sent = inbound.sent + 1
          /\ inbound'.taken = inbound.taken /\ inbound'.drops = inbound.drops
      BY <1>4, <2>1
    <2>3. inbound.sent = inbound.taken + inbound.drops + Len(rx_queue) + Len(rx_fifo)
          /\ inbound.taken \in Nat /\ inbound.drops \in Nat
      BY <1>1 DEF CountersOK
    <2>4. inbound'.sent = inbound'.taken + inbound'.drops + Len(rx_queue') + Len(rx_fifo')
      BY <1>3, <1>4, <2>2, <2>3
    <2> QED
      BY <1>1, <1>4, <2>2, <2>4 DEF CountersOK
  <1> QED
    BY <1>5, <1>6, <1>7 DEF TypeInv

LEMMA TypeUnplug == ASSUME TypeInv, Unplug PROVE TypeInv'
  <1>1. SequencesOK /\ SizesOK /\ CountersOK
    BY DEF TypeInv
  <1>2. UNCHANGED <<todo, cycle, passes, held, rx_queue, tx_queue, tx_drops>>
        /\ rx_fifo' = <<>> /\ tx_fifo' = <<>> /\ host' = <<>> /\ accepted' = held \o tx_queue
        /\ mounted' = FALSE /\ inbound' = [inbound EXCEPT !.sent = @ - Len(rx_fifo)]
    BY DEF Unplug, midiVars
  <1>3. held \o tx_queue \in Seq(Sent)
    BY <1>1, ConcatProperties DEF SequencesOK
  <1>4. SequencesOK'
    <2>1. rx_fifo' \in Seq(Inbound) /\ tx_fifo' \in Seq(Sent) /\ host' \in Seq(Sent)
      BY <1>2
    <2> QED
      BY <1>1, <1>2, <1>3, <2>1 DEF SequencesOK
  <1>5. SizesOK'
    BY <1>1, <1>2, WordsOfNone, RtosAssumption DEF SizesOK
  <1>6. CountersOK'
    <2> DEFINE InboundType == [sent: Nat, taken: Nat, drops: Nat]
    <2>1. inbound \in InboundType
          /\ inbound.sent = inbound.taken + inbound.drops + Len(rx_queue) + Len(rx_fifo)
          /\ inbound.taken \in Nat /\ inbound.drops \in Nat
      BY <1>1 DEF CountersOK
    <2>2. Len(rx_queue) \in Nat /\ Len(rx_fifo) \in Nat /\ Len(rx_fifo') = 0
      BY <1>1, <1>2, LenProperties DEF SequencesOK
    <2>3. PICK s \in Nat : s = inbound.sent - Len(rx_fifo)
      BY <2>1, <2>2
    <2>4. inbound' = [inbound EXCEPT !.sent = s]
      BY <1>2, <2>3
    <2>5. inbound' \in InboundType /\ inbound'.sent = s
          /\ inbound'.taken = inbound.taken /\ inbound'.drops = inbound.drops
      BY <2>1, <2>4
    <2>6. inbound'.sent = inbound'.taken + inbound'.drops + Len(rx_queue') + Len(rx_fifo')
      BY <1>2, <2>1, <2>2, <2>3, <2>5
    <2>7. mounted' \in BOOLEAN
      BY <1>2
    <2> QED
      BY <1>1, <1>2, <2>5, <2>6, <2>7 DEF CountersOK
  <1> QED
    BY <1>4, <1>5, <1>6 DEF TypeInv

LEMMA TypePlug == ASSUME TypeInv, Plug PROVE TypeInv'
  <1>1. mounted' = TRUE
        /\ UNCHANGED <<todo, cycle, passes, rx_fifo, tx_fifo, held, rx_queue, tx_queue, inbound,
                       tx_drops, accepted, host>>
    BY DEF Plug, midiVars, usbVars
  <1>2. SequencesOK' /\ SizesOK'
    BY <1>1 DEF TypeInv, SequencesOK, SizesOK
  <1>3. CountersOK'
    BY <1>1 DEF TypeInv, CountersOK
  <1> QED
    BY <1>2, <1>3 DEF TypeInv

LEMMA TypeStep == ASSUME TypeInv, [Next]_vars PROVE TypeInv'
  <1>1. CASE UNCHANGED vars
    BY <1>1 DEF TypeInv, SequencesOK, SizesOK, CountersOK, vars, midiVars, usbVars
  <1>2. CASE Next
    BY <1>2, TypeHandle, TypeTimeout, TypeEnqueue, TypeRead, TypeUsbTask, TypeHostReads,
       TypeHostSends, TypeUnplug, TypePlug
       DEF Next, MidiTask, UsbTask, Host
  <1> QED
    BY <1>1, <1>2

LEMMA TypesHold == Spec => []TypeInv
  BY TypeInit, TypeStep, PTL DEF Spec

(* Whatever the tasks and the host do, no queue and no FIFO outgrows its   *)
(* size, and each message the host sent is handled, counted as dropped, or *)
(* still on its way.                                                       *)
THEOREM TypeCorrect == Spec => []TypeOK
  <1>1. TypeInv => TypeOK
    BY DEF TypeInv, SequencesOK, SizesOK, CountersOK, TypeOK
  <1> QED
    BY <1>1, TypesHold, PTL

-----------------------------------------------------------------------------
(* Order. *)

LEMMA Flows == SequencesOK => host \o tx_fifo \in Seq(Sent) /\ host \o tx_fifo \o held \in Seq(Sent)
  BY ConcatProperties DEF SequencesOK

LEMMA OrderStep == ASSUME TypeInv, InOrderOnce, [Next]_vars PROVE InOrderOnce'
  <1> DEFINE out == host \o tx_fifo
  <1>1. SequencesOK
    BY DEF TypeInv
  <1>2. host \in Seq(Sent) /\ tx_fifo \in Seq(Sent) /\ held \in Seq(Sent) /\ tx_queue \in Seq(Sent)
        /\ todo \in Seq(Sent) /\ accepted \in Seq(Sent)
    BY <1>1 DEF SequencesOK
  <1>3. out \in Seq(Sent) /\ out \o held \in Seq(Sent)
    BY <1>1, Flows
  <1>4. (out \o held) \o tx_queue = accepted
    BY DEF InOrderOnce
  <1>5. CASE UNCHANGED <<host, tx_fifo, held, tx_queue, accepted>>
    BY <1>5 DEF InOrderOnce
  <1>6. CASE Enqueue /\ Accepts
    <2>1. Head(todo) \in Sent
      BY <1>2, <1>6, HeadTailProperties DEF Enqueue
    <2>2. UNCHANGED <<host, tx_fifo, held>> /\ tx_queue' = Append(tx_queue, Head(todo))
          /\ accepted' = Append(accepted, Head(todo))
      BY <1>6 DEF Enqueue, usbVars
    <2>3. (out \o held) \o Append(tx_queue, Head(todo)) = Append((out \o held) \o tx_queue, Head(todo))
      BY <1>2, <1>3, <2>1, AppendToLast, SMTT(30)
    <2> QED
      BY <1>4, <2>2, <2>3 DEF InOrderOnce
  <1>7. CASE Take
    <2>1. held = <<>> /\ tx_queue # <<>> /\ held' = <<Head(tx_queue)>> /\ tx_queue' = Tail(tx_queue)
          /\ UNCHANGED <<host, tx_fifo, accepted>>
      BY <1>7 DEF Take
    <2>2. Head(tx_queue) \in Sent /\ Tail(tx_queue) \in Seq(Sent)
      BY <1>2, <2>1, HeadAndTail
    <2>3. out \o <<Head(tx_queue)>> = Append(out, Head(tx_queue))
      BY <1>3, <2>2, AppendIsConcat
    <2>4. Append(out, Head(tx_queue)) \o Tail(tx_queue) = out \o tx_queue
      BY <1>2, <1>3, <2>1, MoveFirst
    <2>5. out \o held = out
      BY <1>3, <2>1, ConcatEmptySeq
    <2> QED
      BY <1>4, <2>1, <2>3, <2>4, <2>5 DEF InOrderOnce
  <1>8. CASE Write
    <2>1. tx_fifo' = tx_fifo \o held /\ held' = <<>> /\ UNCHANGED <<host, tx_queue, accepted>>
      BY <1>8 DEF Write
    <2>2. out \o held = host \o (tx_fifo \o held)
      <3>1. host \in Seq(Sent) /\ tx_fifo \in Seq(Sent) /\ held \in Seq(Sent)
        BY <1>2
      <3> QED
        BY <3>1, ConcatAssociative
    <2>3. (out \o held) \o <<>> = out \o held
      BY <1>3, ConcatEmptySeq
    <2> QED
      BY <1>4, <2>1, <2>2, <2>3 DEF InOrderOnce
  <1>9. CASE HostReads
    <2>1. tx_fifo # <<>> /\ host' = Append(host, Head(tx_fifo)) /\ tx_fifo' = Tail(tx_fifo)
          /\ UNCHANGED <<held, tx_queue, accepted>>
      BY <1>9 DEF HostReads
    <2>2. Append(host, Head(tx_fifo)) \o Tail(tx_fifo) = out
      BY <1>2, <2>1, MoveFirst
    <2> QED
      BY <1>4, <2>1, <2>2 DEF InOrderOnce
  <1>10. CASE Unplug
    <2>1. tx_fifo' = <<>> /\ host' = <<>> /\ accepted' = held \o tx_queue /\ UNCHANGED <<held, tx_queue>>
      BY <1>10 DEF Unplug
    <2>2. <<>> \o <<>> = <<>> /\ <<>> \o held = held
      BY <1>2, ConcatEmptySeq, EmptySeq
    <2> QED
      BY <2>1, <2>2 DEF InOrderOnce
  <1>11. [Next]_vars /\ ~ (Take \/ Write \/ HostReads \/ Unplug \/ (Enqueue /\ Accepts))
         => UNCHANGED <<host, tx_fifo, held, tx_queue, accepted>>
    BY DEF Next, MidiTask, UsbTask, Host, Handle, Timeout, Enqueue, Read, HostSends, Plug,
           vars, midiVars, usbVars
  <1> QED
    BY <1>5, <1>6, <1>7, <1>8, <1>9, <1>10, <1>11

(* What entered tx_queue reaches the host in that order and once: a short  *)
(* write that is tried again neither loses nor repeats a message.          *)
THEOREM MessagesInOrder == Spec => []InOrderOnce
  <1>1. Init => InOrderOnce
    <2>1. <<>> \o <<>> = <<>>
      BY ConcatEmptySeq, EmptySeq
    <2> QED
      BY <2>1 DEF Init, InOrderOnce
  <1>2. TypeInv /\ InOrderOnce /\ [Next]_vars => InOrderOnce'
    BY OrderStep
  <1> QED
    BY <1>1, <1>2, TypesHold, PTL DEF Spec

-----------------------------------------------------------------------------
(* SysEx7 runs. *)

(* At message i of s a run is under way: its Start came before, its End    *)
(* has not.                                                                *)
Open(s, i) ==
  /\ s[i].kind \in {"start", "continue"}
  /\ \E j \in 1 .. i : s[j].run = s[i].run /\ s[j].kind = "start"

(* Every run that is under way goes on with the next message, so the last  *)
(* one leaves none under way.                                              *)
Closed(s) ==
  \A i \in 1 .. Len(s) : Open(s, i) => i < Len(s) /\ s[i + 1].run = s[i].run

(* What is in tx_queue's history, followed by what midi_task still has to  *)
(* enqueue, never leaves a run: RunsUninterrupted alone says nothing of    *)
(* the rest of a run midi_task is in the middle of.                        *)
RunsInv ==
  /\ \A i \in 1 .. Len(accepted) : accepted[i].run <= passes
  /\ \A i \in 1 .. Len(todo) : todo[i].run <= passes
  /\ tx_drops = 0 => Closed(accepted \o todo)

LEMMA SentFields ==
  ASSUME NEW s \in Seq(Sent)
  PROVE  /\ Len(s) \in Nat /\ \A i \in 1 .. Len(s) : s[i] \in Sent /\ s[i].run \in Nat
  <1>1. Len(s) \in Nat
    BY LenProperties
  <1>2. \A i \in 1 .. Len(s) : s[i] \in Sent
    BY ElementOfSeq
  <1>3. \A m \in Sent : m.run \in Nat
    BY RtosAssumption DEF Sent
  <1> QED
    BY <1>1, <1>2, <1>3

(* Messages of other runs may follow where no run is under way.            *)
LEMMA ClosedConcat ==
  ASSUME NEW s \in Seq(Sent), NEW t \in Seq(Sent), Closed(s), Closed(t),
         \A i \in 1 .. Len(s), k \in 1 .. Len(t) :
           t[k].run = s[i].run => t[k].kind \notin {"start", "continue"}
  PROVE  Closed(s \o t)
  <1> DEFINE w == s \o t
  <1>1. /\ Len(w) = Len(s) + Len(t)
        /\ \A i \in 1 .. Len(s) + Len(t) : w[i] = IF i <= Len(s) THEN s[i] ELSE t[i - Len(s)]
    BY ConcatProperties
  <1>2. Len(s) \in Nat /\ Len(t) \in Nat
    BY LenProperties
  <1>3. (\A i \in 1 .. Len(s) : w[i] = s[i]) /\ \A k \in 1 .. Len(t) : w[Len(s) + k] = t[k]
    <2> HIDE DEF w
    <2>1. ASSUME NEW k \in 1 .. Len(t) PROVE w[Len(s) + k] = t[k]
      <3>1. Len(s) + k \in 1 .. Len(s) + Len(t) /\ ~ (Len(s) + k <= Len(s))
            /\ Len(s) + k - Len(s) = k
        BY <1>2
      <3> QED
        BY <1>1, <3>1
    <2> QED
      BY <1>1, <1>2, <2>1
  <1> HIDE DEF w
  <1>4. ASSUME NEW i \in 1 .. Len(s), Open(w, i)
        PROVE  i < Len(w) /\ w[i + 1].run = w[i].run
    <2>1. Open(s, i)
      BY <1>2, <1>3, <1>4 DEF Open
    <2>2. i < Len(s) /\ s[i + 1].run = s[i].run
      BY <2>1 DEF Closed
    <2> QED
      BY <1>1, <1>2, <1>3, <2>2
  <1>5. ASSUME NEW k \in 1 .. Len(t), Open(w, Len(s) + k)
        PROVE  Len(s) + k < Len(w) /\ w[Len(s) + k + 1].run = w[Len(s) + k].run
    <2>1. PICK j \in 1 .. Len(s) + k : w[j].run = w[Len(s) + k].run /\ w[j].kind = "start"
      BY <1>5 DEF Open
    <2>2. t[k].kind \in {"start", "continue"} /\ w[Len(s) + k] = t[k]
      BY <1>3, <1>5 DEF Open
    <2>3. ~ (j \in 1 .. Len(s))
      BY <1>3, <2>1, <2>2
    <2>4. PICK l \in 1 .. k : j = Len(s) + l
      <3>1. j - Len(s) \in 1 .. k /\ j = Len(s) + (j - Len(s))
        BY <1>2, <2>3
      <3> QED
        BY <3>1
    <2>5. l \in 1 .. Len(t)
      BY <1>2
    <2>6. t[l].run = t[k].run /\ t[l].kind = "start"
      BY <1>3, <2>1, <2>2, <2>4, <2>5
    <2>7. Open(t, k)
      BY <2>2, <2>6 DEF Open
    <2>8. k < Len(t) /\ t[k + 1].run = t[k].run
      BY <2>7 DEF Closed
    <2>9. k + 1 \in 1 .. Len(t) /\ Len(s) + k + 1 = Len(s) + (k + 1)
      BY <1>2, <2>8
    <2>10. w[Len(s) + k + 1] = t[k + 1]
      BY <1>3, <2>9
    <2> QED
      BY <1>1, <1>2, <2>2, <2>8, <2>10
  <1>6. ASSUME NEW i \in 1 .. Len(w), Open(w, i) PROVE i < Len(w) /\ w[i + 1].run = w[i].run
    <2>1. CASE i <= Len(s)
      BY <1>2, <1>4, <1>6, <2>1
    <2>2. CASE ~ (i <= Len(s))
      <3>1. PICK k \in 1 .. Len(t) : i = Len(s) + k
        <4>1. i - Len(s) \in 1 .. Len(t) /\ i = Len(s) + (i - Len(s))
          BY <1>1, <1>2, <2>2
        <4> QED
          BY <4>1
      <3> QED
        BY <1>5, <1>6, <3>1
    <2> QED
      BY <2>1, <2>2
  <1> QED
    BY <1>6 DEF Closed, w

LEMMA ClosedSuffix ==
  ASSUME NEW s \in Seq(Sent), NEW t \in Seq(Sent), Closed(s \o t)
  PROVE  Closed(t)
  <1> DEFINE w == s \o t
  <1>1. /\ Len(w) = Len(s) + Len(t)
        /\ \A i \in 1 .. Len(s) + Len(t) : w[i] = IF i <= Len(s) THEN s[i] ELSE t[i - Len(s)]
    BY ConcatProperties
  <1>2. Len(s) \in Nat /\ Len(t) \in Nat
    BY LenProperties
  <1>3. Closed(w)
    OBVIOUS
  <1> HIDE DEF w
  <1>4. ASSUME NEW k \in 1 .. Len(t) PROVE w[Len(s) + k] = t[k]
    <2>1. Len(s) + k \in 1 .. Len(s) + Len(t) /\ ~ (Len(s) + k <= Len(s))
          /\ Len(s) + k - Len(s) = k
      BY <1>2
    <2> QED
      BY <1>1, <2>1
  <1>5. ASSUME NEW k \in 1 .. Len(t), Open(t, k) PROVE k < Len(t) /\ t[k + 1].run = t[k].run
    <2>1. PICK l \in 1 .. k : t[l].run = t[k].run /\ t[l].kind = "start"
      BY <1>5 DEF Open
    <2>2. Len(s) + l \in 1 .. Len(s) + k /\ l \in 1 .. Len(t) /\ Len(s) + k \in 1 .. Len(w)
      BY <1>1, <1>2
    <2>3. w[Len(s) + l] = t[l] /\ w[Len(s) + k] = t[k]
      BY <1>4, <2>2
    <2>4. Open(w, Len(s) + k)
      BY <1>5, <2>1, <2>2, <2>3 DEF Open
    <2>5. Len(s) + k < Len(w) /\ w[Len(s) + k + 1].run = w[Len(s) + k].run
      BY <1>3, <2>2, <2>4 DEF Closed
    <2>6. k < Len(t) /\ k + 1 \in 1 .. Len(t) /\ Len(s) + k + 1 = Len(s) + (k + 1)
      BY <1>1, <1>2, <2>5
    <2>7. w[Len(s) + k + 1] = t[k + 1]
      BY <1>4, <2>6
    <2> QED
      BY <2>3, <2>5, <2>6, <2>7
  <1> QED
    BY <1>5 DEF Closed

(* One run on its own, when it ends or never starts.                       *)
LEMMA ClosedRun ==
  ASSUME NEW t \in Seq(Sent), NEW r, \A k \in 1 .. Len(t) : t[k].run = r,
         \/ t # <<>> => t[Len(t)].kind \notin {"start", "continue"}
         \/ \A k \in 1 .. Len(t) : t[k].kind # "start"
  PROVE  Closed(t)
  <1>1. Len(t) \in Nat
    BY LenProperties
  <1>2. ASSUME NEW k \in 1 .. Len(t), Open(t, k) PROVE k < Len(t) /\ t[k + 1].run = t[k].run
    <2>1. PICK l \in 1 .. k : t[l].kind = "start"
      BY <1>2 DEF Open
    <2>2. l \in 1 .. Len(t) /\ t # <<>>
      BY <1>1
    <2>3. t[Len(t)].kind \notin {"start", "continue"}
      BY <2>1, <2>2
    <2>4. k # Len(t)
      BY <1>2, <2>3 DEF Open
    <2>5. k < Len(t) /\ k + 1 \in 1 .. Len(t)
      BY <1>1, <2>4
    <2> QED
      BY <2>5
  <1> QED
    BY <1>2 DEF Closed

(* A pass that starts when the previous one is all enqueued.               *)
LEMMA NewPass ==
  ASSUME TypeInv, RunsInv, todo = <<>>, accepted' = accepted, tx_drops' = tx_drops,
         passes' \in Nat, passes <= passes', todo' \in Seq(Sent), Closed(todo'),
         \A k \in 1 .. Len(todo') : /\ todo'[k].run <= passes'
                                    /\ todo'[k].run > passes \/ todo'[k].kind = "other"
  PROVE  RunsInv'
  <1>1. accepted \in Seq(Sent) /\ passes \in Nat
    BY DEF TypeInv, SequencesOK, CountersOK
  <1>2. Len(accepted) \in Nat /\ \A i \in 1 .. Len(accepted) : accepted[i].run \in Nat
    BY <1>1, SentFields
  <1>3. Len(todo') \in Nat /\ \A k \in 1 .. Len(todo') : todo'[k].run \in Nat
    BY SentFields
  <1>4. \A i \in 1 .. Len(accepted) : accepted[i].run <= passes
    BY DEF RunsInv
  <1>5. \A i \in 1 .. Len(accepted), k \in 1 .. Len(todo') :
          todo'[k].run = accepted[i].run => todo'[k].kind \notin {"start", "continue"}
    <2> SUFFICES ASSUME NEW i \in 1 .. Len(accepted), NEW k \in 1 .. Len(todo'),
                        todo'[k].run = accepted[i].run
                 PROVE  todo'[k].kind = "other"
      OBVIOUS
    <2>1. accepted[i].run <= passes /\ accepted[i].run \in Nat
      BY <1>2, <1>4
    <2>2. ~ (todo'[k].run > passes)
      BY <1>1, <2>1
    <2> QED
      BY <2>2
  <1>6. tx_drops = 0 => Closed(accepted \o todo')
    <2>1. accepted \o todo = accepted
      BY <1>1, ConcatEmptySeq
    <2>2. tx_drops = 0 => Closed(accepted)
      BY <2>1 DEF RunsInv
    <2> QED
      BY <1>1, <1>5, <2>2, ClosedConcat
  <1>7. \A i \in 1 .. Len(accepted) : accepted[i].run <= passes'
    <2> SUFFICES ASSUME NEW i \in 1 .. Len(accepted) PROVE accepted[i].run <= passes'
      OBVIOUS
    <2>1. accepted[i].run <= passes /\ accepted[i].run \in Nat
      BY <1>2, <1>4
    <2> QED
      BY <1>1, <2>1
  <1>8. (\A i \in 1 .. Len(accepted) : accepted[i].run <= passes)' 
    BY <1>7
  <1>9. (\A i \in 1 .. Len(todo) : todo[i].run <= passes)'
    <2>1. \A k \in 1 .. Len(todo') : todo'[k].run <= passes'
      BY Zenon
    <2> QED
      BY <2>1
  <1>10. (tx_drops = 0 => Closed(accepted \o todo))'
    BY <1>6 DEF Closed, Open
  <1> QED
    BY <1>8, <1>9, <1>10 DEF RunsInv

(* What midi_task emits for one entry of the catalog, and for a request.   *)
LEMMA CatalogRun ==
  ASSUME passes \in Nat, passes < MaxPasses, NEW i \in 1 .. Len(Catalog)
  PROVE  /\ Run(i) \in Seq(Sent) /\ Closed(Run(i))
         /\ \A k \in 1 .. Len(Run(i)) : Run(i)[k].run = passes + 1
  <1> DEFINE n == RunLength(i)
             t == Run(i)
  <1>1. t \in Seq(Sent) /\ Len(t) = n
        /\ \A k \in 1 .. n : t[k].kind = Catalog[At(i + k - 1)].kind /\ t[k].run = passes + 1
    BY RunMessages
  <1>2. n \in 1 .. Len(Catalog) /\ (Catalog[i].kind # "start" => n = 1)
        /\ (Catalog[i].kind = "start" => Catalog[At(i + n - 1)].kind = "end")
        /\ Len(Catalog) \in Nat \ {0}
    BY RunEnds, CatalogSize
  <1>3. At(i + 1 - 1) = i
    <2>1. i - 1 \in 0 .. Len(Catalog) - 1 /\ (i - 1) + 1 = i /\ (i + 1 - 1) - 1 = i - 1
      BY <1>2
    <2>2. (i - 1) % Len(Catalog) = i - 1
      BY <1>2, <2>1, Remainder
    <2> QED
      BY <2>1, <2>2 DEF At
  <1>4. 1 \in 1 .. n /\ n \in 1 .. n
    BY <1>2
  <1> HIDE DEF t, n
  <1>5. CASE Catalog[i].kind = "start"
    <2>1. t[n].kind = "end"
      BY <1>1, <1>2, <1>4, <1>5
    <2>2. t[Len(t)].kind \notin {"start", "continue"}
      BY <1>1, <2>1
    <2>3. Closed(t)
      BY <1>1, <2>2, ClosedRun
    <2> QED
      BY <1>1, <2>3 DEF t
  <1>6. CASE Catalog[i].kind # "start"
    <2>1. n = 1 /\ t[1].kind # "start"
      BY <1>1, <1>2, <1>3, <1>4, <1>6
    <2>2. \A k \in 1 .. Len(t) : t[k].kind # "start"
      BY <1>1, <2>1
    <2>3. Closed(t)
      BY <1>1, <2>2, ClosedRun
    <2> QED
      BY <1>1, <2>3 DEF t
  <1> QED
    BY <1>5, <1>6

LEMMA ReplyRun ==
  ASSUME passes \in Nat, passes < MaxPasses
  PROVE  /\ Marked(Reply) \in Seq(Sent) /\ Closed(Marked(Reply))
         /\ \A k \in 1 .. Len(Marked(Reply)) : Marked(Reply)[k].run = passes + 1
  <1> DEFINE t == Marked(Reply)
             n == Len(Reply)
  <1>1. Reply \in Seq(Message) /\ (Reply # <<>> => Reply[n].kind \in {"complete", "end"})
    BY RtosAssumption
  <1>2. n \in Nat /\ \A k \in 1 .. n : Reply[k] \in Message
    BY <1>1, LenProperties, ElementOfSeq
  <1>3. t \in Seq(Sent) /\ Len(t) = n
        /\ \A k \in 1 .. n : t[k].kind = Reply[k].kind /\ t[k].run = passes + 1
    BY <1>2, MarkedMessages
  <1> HIDE DEF t
  <1>4. t # <<>> => t[Len(t)].kind \notin {"start", "continue"}
    <2> SUFFICES ASSUME t # <<>> PROVE t[n].kind \in {"complete", "end"}
      BY <1>3
    <2>1. n \in Nat \ {0}
      BY <1>3, EmptySeq
    <2>2. n \in 1 .. n /\ Reply # <<>>
      BY <2>1
    <2> QED
      BY <1>1, <1>3, <2>2
  <1>5. Closed(t)
    BY <1>3, <1>4, ClosedRun
  <1> QED
    BY <1>3, <1>5 DEF t

LEMMA RunsHandle == ASSUME TypeInv, TypeInv', RunsInv, Handle PROVE RunsInv'
  <1> DEFINE m == Head(rx_queue)
  <1>1. passes \in Nat /\ passes < MaxPasses /\ rx_queue \in Seq(Inbound) /\ rx_queue # <<>>
    BY DEF TypeInv, SequencesOK, CountersOK, Handle
  <1>2. todo = <<>> /\ accepted' = accepted /\ tx_drops' = tx_drops /\ todo' \in Seq(Sent)
        /\ passes' = IF todo' = <<>> THEN passes ELSE passes + 1
    BY DEF Handle, TypeInv, SequencesOK
  <1>3. CASE todo' = <<>>
    <2>1. Len(todo') = 0 /\ passes' = passes
      BY <1>2, <1>3, EmptySeq
    <2>2. Closed(todo')
      BY <2>1 DEF Closed
    <2> QED
      BY <1>1, <1>2, <2>1, <2>2, NewPass
  <1>4. CASE todo' # <<>>
    <2>1. passes' = passes + 1
      BY <1>2, <1>4
    <2>2. At(m.index + 1) \in 1 .. Len(Catalog)
      <3>1. m \in Inbound
        BY <1>1, HeadTailProperties
      <3>2. m \in [kind: {"request", "trigger", "pause", "resume", "other"},
                   index: Nat, words: 1 .. 4]
        BY <3>1, RtosAssumption
      <3>3. m.index + 1 \in Nat \ {0}
        BY <3>2
      <3> QED
        BY <3>3, CatalogSize
    <2>3. todo' = Marked(Reply) \/ todo' = Run(At(m.index + 1))
      BY <1>4 DEF Handle
    <2>4. Closed(todo') /\ \A k \in 1 .. Len(todo') : todo'[k].run = passes + 1
      BY <1>1, <2>2, <2>3, CatalogRun, ReplyRun
    <2>5. passes' \in Nat /\ passes <= passes' /\ \A k \in 1 .. Len(todo') :
            todo'[k].run <= passes' /\ todo'[k].run > passes
      BY <1>1, <2>1, <2>4
    <2> QED
      BY <1>2, <2>4, <2>5, NewPass
  <1> QED
    BY <1>3, <1>4

LEMMA RunsTimeout == ASSUME TypeInv, TypeInv', RunsInv, Timeout PROVE RunsInv'
  <1> DEFINE i == cycle.idx
             beat == <<Heartbeat>>
  <1>1. passes \in Nat /\ passes < MaxPasses /\ i \in 1 .. Len(Catalog)
    BY DEF TypeInv, CountersOK, Timeout
  <1>2. todo = <<>> /\ accepted' = accepted /\ tx_drops' = tx_drops /\ todo' \in Seq(Sent)
        /\ passes' = passes + 1
    BY DEF Timeout, TypeInv, SequencesOK
  <1>3. todo' = beat \o Run(i) \/ todo' = Run(i)
    BY DEF Timeout
  <1>4. Run(i) \in Seq(Sent) /\ Closed(Run(i))
        /\ \A k \in 1 .. Len(Run(i)) : Run(i)[k].run = passes + 1
    BY <1>1, CatalogRun
  <1>5. beat \in Seq(Sent) /\ Len(beat) = 1 /\ beat[1].run = 0 /\ beat[1].kind = "other"
    BY HeartbeatSent DEF Heartbeat
  <1> HIDE DEF beat
  <1>6. Closed(beat)
    <2>1. \A k \in 1 .. Len(beat) : beat[k].run = 0 /\ beat[k].kind # "start"
      BY <1>5
    <2> QED
      BY <1>5, <2>1, ClosedRun
  <1>7. Len(Run(i)) \in Nat
    BY <1>4, LenProperties
  <1>8. Closed(beat \o Run(i))
    <2>1. \A j \in 1 .. Len(beat), k \in 1 .. Len(Run(i)) :
            Run(i)[k].run = beat[j].run => Run(i)[k].kind \notin {"start", "continue"}
      BY <1>1, <1>4, <1>5
    <2> QED
      BY <1>4, <1>5, <1>6, <2>1, ClosedConcat
  <1>9. \A k \in 1 .. Len(beat \o Run(i)) :
          \/ (beat \o Run(i))[k].run = passes + 1
          \/ (beat \o Run(i))[k].run = 0 /\ (beat \o Run(i))[k].kind = "other"
    <2> DEFINE w == beat \o Run(i)
    <2>1. Len(w) = 1 + Len(Run(i)) /\ \A k \in 1 .. 1 + Len(Run(i)) :
            w[k] = IF k <= 1 THEN beat[k] ELSE Run(i)[k - 1]
      <3>1. beat \in Seq(Sent) /\ Run(i) \in Seq(Sent) /\ Len(beat) = 1
        BY <1>4, <1>5
      <3>2. Len(w) = Len(beat) + Len(Run(i)) /\ \A k \in 1 .. Len(beat) + Len(Run(i)) :
              w[k] = IF k <= Len(beat) THEN beat[k] ELSE Run(i)[k - Len(beat)]
        BY <3>1, ConcatProperties
      <3> HIDE DEF w, i
      <3> QED
        BY <3>1, <3>2
    <2> HIDE DEF w
    <2>2. ASSUME NEW k \in 1 .. Len(w)
          PROVE  w[k].run = passes + 1 \/ (w[k].run = 0 /\ w[k].kind = "other")
      <3>1. CASE k = 1
        BY <1>5, <1>7, <2>1, <3>1
      <3>2. CASE k # 1
        <4>1. k - 1 \in 1 .. Len(Run(i)) /\ w[k] = Run(i)[k - 1]
          BY <1>7, <2>1, <3>2
        <4> QED
          BY <1>4, <4>1
      <3> QED
        BY <3>1, <3>2
    <2> QED
      BY <2>2 DEF w
  <1>10. Closed(todo') /\ \A k \in 1 .. Len(todo') :
           todo'[k].run = passes + 1 \/ (todo'[k].run = 0 /\ todo'[k].kind = "other")
    BY <1>3, <1>4, <1>8, <1>9
  <1>11. passes' \in Nat /\ passes <= passes' /\ \A k \in 1 .. Len(todo') :
           /\ todo'[k].run <= passes'
           /\ todo'[k].run > passes \/ todo'[k].kind = "other"
    BY <1>1, <1>2, <1>10
  <1> QED
    BY <1>2, <1>10, <1>11, NewPass

LEMMA RunsEnqueue == ASSUME TypeInv, RunsInv, Enqueue PROVE RunsInv'
  <1>1. todo \in Seq(Sent) /\ todo # <<>> /\ accepted \in Seq(Sent) /\ passes \in Nat /\ tx_drops \in Nat
    BY DEF TypeInv, SequencesOK, CountersOK, Enqueue
  <1>2. Head(todo) \in Sent /\ Len(todo) \in Nat \ {0} /\ Len(Tail(todo)) = Len(todo) - 1
        /\ (\A i \in 1 .. Len(Tail(todo)) : Tail(todo)[i] = todo[i + 1]) /\ Head(todo) = todo[1]
    BY <1>1, HeadTailProperties, EmptySeq
  <1>3. todo' = Tail(todo) /\ passes' = passes
    BY DEF Enqueue
  <1>4. \A i \in 1 .. Len(todo) : todo[i].run <= passes
    BY DEF RunsInv
  <1>5. \A i \in 1 .. Len(accepted) : accepted[i].run <= passes
    BY DEF RunsInv
  <1>6. \A i \in 1 .. Len(todo') : todo'[i].run <= passes'
    <2> SUFFICES ASSUME NEW i \in 1 .. Len(Tail(todo)) PROVE Tail(todo)[i].run <= passes
      BY <1>3
    <2>1. i + 1 \in 1 .. Len(todo)
      BY <1>2
    <2> QED
      BY <1>2, <1>4, <2>1
  <1>7. CASE Accepts
    <2>1. accepted' = Append(accepted, Head(todo)) /\ tx_drops' = tx_drops
      BY <1>7 DEF Enqueue
    <2>2. accepted' \o todo' = accepted \o todo
      BY <1>1, <1>3, <2>1, MoveFirst
    <2>3. tx_drops' = 0 => Closed(accepted' \o todo')
      BY <2>1, <2>2 DEF RunsInv
    <2>4. \A i \in 1 .. Len(accepted') : accepted'[i].run <= passes'
      <3>1. Len(accepted') = Len(accepted) + 1 /\ Len(accepted) \in Nat
            /\ (\A i \in 1 .. Len(accepted) : accepted'[i] = accepted[i])
            /\ accepted'[Len(accepted) + 1] = Head(todo)
        BY <1>1, <1>2, <2>1, AppendProperties, LenProperties
      <3>2. Head(todo).run <= passes
        BY <1>2, <1>4
      <3> SUFFICES ASSUME NEW i \in 1 .. Len(accepted) + 1 PROVE accepted'[i].run <= passes
        BY <1>3, <3>1
      <3>3. CASE i = Len(accepted) + 1
        BY <3>1, <3>2, <3>3
      <3>4. CASE i # Len(accepted) + 1
        <4>1. i \in 1 .. Len(accepted)
          BY <3>1, <3>4
        <4> QED
          BY <1>5, <3>1, <4>1
      <3> QED
        BY <3>3, <3>4
    <2> QED
      BY <1>6, <2>3, <2>4 DEF RunsInv, Closed, Open
  <1>8. CASE ~ Accepts
    <2>1. accepted' = accepted /\ tx_drops' # 0
      BY <1>1, <1>8 DEF Enqueue
    <2> QED
      BY <1>3, <1>5, <1>6, <2>1 DEF RunsInv
  <1> QED
    BY <1>7, <1>8

LEMMA RunsUnplug == ASSUME TypeInv, RunsInv, InOrderOnce, Unplug PROVE RunsInv'
  <1> DEFINE out == host \o tx_fifo
             in  == held \o tx_queue
  <1>1. SequencesOK /\ todo \in Seq(Sent) /\ held \in Seq(Sent) /\ tx_queue \in Seq(Sent)
    BY DEF TypeInv, SequencesOK
  <1>2. out \in Seq(Sent) /\ in \in Seq(Sent)
    BY <1>1, Flows, ConcatProperties
  <1>3. (out \o held) \o tx_queue = out \o in
    <2> HIDE DEF out
    <2>1. held \in Seq(Sent) /\ tx_queue \in Seq(Sent)
      BY <1>1
    <2>2. \A a, b, c \in Seq(Sent) : (a \o b) \o c = a \o (b \o c)
      BY ConcatAssociative
    <2> QED
      BY <1>2, <2>1, <2>2, Zenon
  <1>4. accepted = out \o in
    BY <1>3 DEF InOrderOnce
  <1>5. accepted' = in /\ todo' = todo /\ passes' = passes /\ tx_drops' = tx_drops
    BY DEF Unplug, midiVars
  <1> HIDE DEF out, in
  <1>6. tx_drops = 0 => Closed(in \o todo)
    <2>1. in \o todo \in Seq(Sent)
      BY <1>1, <1>2, ConcatProperties
    <2>2. (out \o in) \o todo = out \o (in \o todo)
      BY <1>1, <1>2, ConcatAssociative, SMTT(30)
    <2>3. tx_drops = 0 => Closed(out \o (in \o todo))
      BY <1>4, <2>2 DEF RunsInv
    <2> QED
      BY <1>2, <2>1, <2>3, ClosedSuffix
  <1>7. \A i \in 1 .. Len(in) : in[i].run <= passes
    <2>1. Len(accepted) = Len(out) + Len(in) /\ \A i \in 1 .. Len(out) + Len(in) :
            accepted[i] = IF i <= Len(out) THEN out[i] ELSE in[i - Len(out)]
      BY <1>2, <1>4, ConcatProperties
    <2>2. Len(out) \in Nat /\ Len(in) \in Nat
      BY <1>2, LenProperties
    <2>3. ASSUME NEW i \in 1 .. Len(in) PROVE in[i].run <= passes
      <3>1. Len(out) + i \in 1 .. Len(out) + Len(in) /\ ~ (Len(out) + i <= Len(out))
            /\ Len(out) + i - Len(out) = i
        BY <2>2
      <3>2. accepted[Len(out) + i] = in[i]
        BY <2>1, <3>1
      <3>3. accepted[Len(out) + i].run <= passes
        BY <2>1, <3>1 DEF RunsInv
      <3> QED
        BY <3>2, <3>3
    <2> QED
      BY <2>3
  <1> QED
    BY <1>5, <1>6, <1>7 DEF RunsInv, Closed, Open

LEMMA RunsStep ==
  ASSUME TypeInv, TypeInv', InOrderOnce, RunsInv, [Next]_vars PROVE RunsInv'
  <1>1. CASE UNCHANGED <<accepted, todo, passes, tx_drops>>
    BY <1>1 DEF RunsInv, Closed, Open
  <1>2. [Next]_vars /\ ~ (Handle \/ Timeout \/ Enqueue \/ Unplug)
        => UNCHANGED <<accepted, todo, passes, tx_drops>>
    BY DEF Next, MidiTask, UsbTask, Host, Read, Take, Write, HostReads, HostSends, Plug,
           vars, midiVars, usbVars
  <1> QED
    BY <1>1, <1>2, RunsHandle, RunsTimeout, RunsEnqueue, RunsUnplug

(* Heartbeats, triggered entries and MIDI-CI replies never fall inside a   *)
(* SysEx7 run of the catalog, as long as tx_queue has not overflowed:      *)
(* emit_catalog goes on to the End in one pass of midi_task.               *)
THEOREM RunsStayWhole == Spec => []RunsUninterrupted
  <1>1. Init => RunsInv
    <2>1. <<>> \o <<>> = <<>> /\ Len(<<>>) = 0
      BY ConcatEmptySeq, EmptySeq
    <2> QED
      BY <2>1 DEF Init, RunsInv, Closed
  <1>2. TypeInv /\ TypeInv' /\ InOrderOnce /\ RunsInv /\ [Next]_vars => RunsInv'
    BY RunsStep
  <1>3. TypeInv /\ RunsInv => RunsUninterrupted
    <2> SUFFICES ASSUME TypeInv, RunsInv, tx_drops = 0, NEW i \in 1 .. Len(accepted) - 1,
                        Open(accepted, i)
                 PROVE  accepted[i + 1].run = accepted[i].run
      BY DEF RunsUninterrupted, Uninterrupted, Open
    <2> DEFINE w == accepted \o todo
    <2>1. accepted \in Seq(Sent) /\ todo \in Seq(Sent)
      BY DEF TypeInv, SequencesOK
    <2>2. Len(w) = Len(accepted) + Len(todo) /\ Len(accepted) \in Nat /\ Len(todo) \in Nat
          /\ \A k \in 1 .. Len(accepted) + Len(todo) :
               w[k] = IF k <= Len(accepted) THEN accepted[k] ELSE todo[k - Len(accepted)]
      BY <2>1, ConcatProperties, LenProperties
    <2>3. Closed(w)
      BY DEF RunsInv
    <2> HIDE DEF w
    <2>4. \A k \in 1 .. Len(accepted) : w[k] = accepted[k]
      BY <2>2
    <2>5. i \in 1 .. Len(accepted) /\ i + 1 \in 1 .. Len(accepted) /\ i \in 1 .. Len(w)
          /\ \A j \in 1 .. i : j \in 1 .. Len(accepted)
      BY <2>2
    <2>6. Open(w, i)
      BY <2>4, <2>5 DEF Open
    <2>7. w[i + 1].run = w[i].run
      BY <2>3, <2>5, <2>6 DEF Closed
    <2> QED
      BY <2>4, <2>5, <2>7
  <1> QED
    BY <1>1, <1>2, <1>3, TypesHold, MessagesInOrder, PTL DEF Spec
=============================================================================
