-------------------------------- MODULE Conv --------------------------------
(***************************************************************************)
(* The MIDI 1.0 byte-stream to UMP converter of midi2_conv.c:              *)
(* midi2_conv_feed takes one byte and produces at most two messages, the   *)
(* second of which midi2_conv_next drains.                                 *)
(*                                                                         *)
(* A byte is known by its place in the stream: a message lists the places  *)
(* of its status byte and of its data bytes (0: a zero nobody sent).       *)
(***************************************************************************)
EXTENDS Naturals, Sequences, FiniteSets

CONSTANTS
  Bytes,       (* the classes of bytes the wire may carry                   *)
  PacketSize,  (* data bytes of a SysEx7 packet: 6 in the code              *)
  MaxBytes     (* bound on the bytes fed; names the checking bound only     *)

(* 80..BF and E0..EF; C0..DF; F1 and F3; F2; F4..F6; F0; F7; F8..FF; 0..7F  *)
Voice   == {"voice2", "voice1"}
Common  == {"common1", "common2", "common0"}
Classes == Voice \union Common \union {"F0", "F7", "realtime", "data"}

ASSUME ConvAssumption ==
  /\ Bytes \subseteq Classes
  /\ PacketSize \in Nat \ {0}
  /\ MaxBytes \in Nat

VARIABLES
  running_status,   (* the place of the status byte in force; 0: none       *)
  data_byte_count, data_pos, data,
  sysex_buf, in_sysex, sysex_started,
  pending,          (* what midi2_conv_next has to hand over                *)
  out,              (* history: every message handed to the caller          *)
  bytes,            (* history: every byte fed                              *)
  dropped           (* history: what was pending when the next byte came    *)

statusVars == <<running_status, data_byte_count, data_pos, data>>
sysexVars  == <<sysex_buf, in_sysex, sysex_started>>
vars       == <<statusVars, sysexVars, pending, out, bytes, dropped>>

-----------------------------------------------------------------------------
Elems(q) == {q[x] : x \in 1 .. Len(q)}

expected_data_bytes(b) ==
  CASE b \in {"voice2", "common2"} -> 2
    [] b \in {"voice1", "common1"} -> 1
    [] OTHER -> 0

System(s, args)  == [type |-> "system", form |-> "none", status |-> s, data |-> args]
VoiceMsg(s, d)   == [type |-> "voice", form |-> "none", status |-> s, data |-> d]
Sysex7(form, bs) == [type |-> "sysex7", form |-> form, status |-> 0, data |-> bs]

(* emit_channel_msg: a System Common message takes as many of the two data *)
(* slots as its status needs, a Channel Voice message always both.         *)
ChannelMsg(d) ==
  IF bytes[running_status] \in Voice THEN VoiceMsg(running_status, d)
  ELSE System(running_status, SubSeq(d, 1, data_byte_count))

Bug_Form(is_end) ==
  IF is_end THEN "end" ELSE IF sysex_started THEN "continue" ELSE "start"

Form(is_end) ==
  IF is_end THEN IF sysex_started THEN "end" ELSE "complete"
            ELSE IF sysex_started THEN "continue" ELSE "start"

(* The packet emit_sysex_packet makes of the bytes bs, and its reset.      *)
Packet(bs, is_end) == Sysex7(Form(is_end), bs)

AfterPacket(is_end) ==
  /\ sysex_buf' = <<>>
  /\ sysex_started' = ~is_end
  /\ in_sysex' = (in_sysex /\ ~is_end)

(* A SysEx with something to close: a byte held, or a Start sent.          *)
MustClose == in_sysex /\ (sysex_buf # <<>> \/ sysex_started)

-----------------------------------------------------------------------------
Init ==
  /\ running_status = 0 /\ data_byte_count = 0 /\ data_pos = 0
  /\ data = <<0, 0>>
  /\ sysex_buf = <<>> /\ in_sysex = FALSE /\ sysex_started = FALSE
  /\ pending = <<>> /\ out = <<>>
  /\ bytes = <<>> /\ dropped = {}

Bug_FeedRealTime(i) ==
  /\ out' = Append(out, System(i, <<>>))
  /\ pending' = <<>>
  /\ UNCHANGED <<statusVars, sysexVars>>

(* Inside a SysEx the bytes held go out first and the Real-Time message    *)
(* queues behind them.                                                     *)
FeedRealTime(i) ==
  /\ IF in_sysex /\ sysex_buf # <<>>
     THEN /\ out' = Append(out, Packet(sysex_buf, FALSE))
          /\ pending' = <<System(i, <<>>)>>
          /\ AfterPacket(FALSE)
     ELSE /\ out' = Append(out, System(i, <<>>))
          /\ pending' = <<>>
          /\ UNCHANGED sysexVars
  /\ UNCHANGED statusVars

Bug_FeedStart ==
  /\ UNCHANGED out
  /\ pending' = <<>>
  /\ in_sysex' = TRUE /\ sysex_started' = FALSE /\ sysex_buf' = <<>>
  /\ running_status' = 0
  /\ UNCHANGED <<data_byte_count, data_pos, data>>

(* F0 closes an open SysEx, opens a new one, cancels Running Status.       *)
FeedStart ==
  /\ out' = IF MustClose THEN Append(out, Packet(sysex_buf, TRUE)) ELSE out
  /\ pending' = <<>>
  /\ in_sysex' = TRUE /\ sysex_started' = FALSE /\ sysex_buf' = <<>>
  /\ running_status' = 0
  /\ UNCHANGED <<data_byte_count, data_pos, data>>

(* F7 closes an open SysEx, even an empty one; a stray F7 is ignored.      *)
FeedEnd ==
  /\ IF in_sysex
     THEN out' = Append(out, Packet(sysex_buf, TRUE)) /\ AfterPacket(TRUE)
     ELSE UNCHANGED <<out, sysexVars>>
  /\ pending' = <<>>
  /\ UNCHANGED statusVars

Bug_TakeStatus(b, i) ==
  /\ running_status' = IF expected_data_bytes(b) = 0 THEN running_status ELSE i
  /\ data_byte_count' = expected_data_bytes(b)
  /\ data_pos' = 0
  /\ data' = IF b \in Voice THEN <<0, 0>> ELSE data

(* conv_take_status: F4..F6 are complete and leave no status in force.     *)
TakeStatus(b, i) ==
  /\ running_status' = IF expected_data_bytes(b) = 0 THEN 0 ELSE i
  /\ data_byte_count' = expected_data_bytes(b)
  /\ data_pos' = 0
  /\ data' = IF b \in Voice THEN <<0, 0>> ELSE data

(* Any other status terminates an open SysEx, then takes its own effect;   *)
(* a message it completes by itself queues behind the closing packet.      *)
FeedStatus(b, i) ==
  LET word == IF expected_data_bytes(b) = 0 THEN <<System(i, <<>>)>> ELSE <<>>
  IN  /\ IF MustClose
         THEN out' = Append(out, Packet(sysex_buf, TRUE)) /\ pending' = word
         ELSE out' = out \o word /\ pending' = <<>>
      /\ IF MustClose THEN AfterPacket(TRUE)
         ELSE in_sysex' = FALSE /\ UNCHANGED <<sysex_buf, sysex_started>>
      /\ TakeStatus(b, i)

Bug_FeedSysexData(i) ==
  /\ IF Len(sysex_buf) = PacketSize
     THEN /\ out' = Append(out, Packet(sysex_buf, FALSE))
          /\ AfterPacket(FALSE)
     ELSE /\ sysex_buf' = Append(sysex_buf, i)
          /\ UNCHANGED <<out, in_sysex, sysex_started>>
  /\ pending' = <<>>
  /\ UNCHANGED statusVars

FeedSysexData(i) ==
  LET bs == Append(sysex_buf, i)
  IN  /\ IF Len(bs) = PacketSize
         THEN out' = Append(out, Packet(bs, FALSE)) /\ AfterPacket(FALSE)
         ELSE sysex_buf' = bs /\ UNCHANGED <<out, in_sysex, sysex_started>>
      /\ pending' = <<>>
      /\ UNCHANGED statusVars

(* A data byte under the status in force.  What completes a System Common  *)
(* message also ends its status: it establishes no Running Status.         *)
FeedData(i) ==
  LET d == [data EXCEPT ![data_pos + 1] = i]
  IN  /\ running_status # 0
      /\ IF data_pos + 1 >= data_byte_count
         THEN /\ out' = Append(out, ChannelMsg(d))
              /\ data' = <<0, 0>>
              /\ data_pos' = 0
              /\ running_status' = IF bytes[running_status] \in Voice
                                   THEN running_status ELSE 0
         ELSE /\ data' = d
              /\ data_pos' = data_pos + 1
              /\ UNCHANGED <<out, running_status>>
      /\ pending' = <<>>
      /\ UNCHANGED <<data_byte_count, sysexVars>>

FeedOrphan ==
  /\ running_status = 0
  /\ pending' = <<>>
  /\ UNCHANGED <<statusVars, sysexVars, out>>

(* midi2_conv_feed, with the byte's place in the stream.  A caller    *)
(* that has not drained loses what was pending (in a release build: a      *)
(* debug build stops at an assertion).                                     *)
Feed(b) ==
  LET i == Len(bytes) + 1
  IN  /\ Len(bytes) < MaxBytes
      /\ bytes' = Append(bytes, b)
      /\ dropped' = dropped \union Elems(pending)
      /\ \/ b = "realtime" /\ FeedRealTime(i)
         \/ b = "F0" /\ FeedStart
         \/ b = "F7" /\ FeedEnd
         \/ b \in Voice \union Common /\ FeedStatus(b, i)
         \/ b = "data" /\ in_sysex /\ FeedSysexData(i)
         \/ b = "data" /\ ~in_sysex /\ (FeedData(i) \/ FeedOrphan)

(* midi2_conv_next. *)
DrainPending ==
  /\ pending # <<>>
  /\ out' = out \o pending
  /\ pending' = <<>>
  /\ UNCHANGED <<statusVars, sysexVars, bytes, dropped>>

Next == (\E b \in Bytes : Feed(b)) \/ DrainPending

Spec == Init /\ [][Next]_vars

-----------------------------------------------------------------------------
(* Properties.  They compare the messages with the meaning of the bytes    *)
(* under the MIDI 1.0 rules, read off the history.                         *)

(* Type correctness, with every index and buffer inside its array.         *)
TypeOK ==
  /\ bytes \in Seq(Bytes)
  /\ running_status \in 0 .. Len(bytes)
  /\ data_byte_count \in 0 .. 2
  /\ data_pos \in 0 .. 1
  /\ data \in [1 .. 2 -> 0 .. Len(bytes)]
  /\ sysex_buf \in Seq(1 .. Len(bytes))
  /\ Len(sysex_buf) < PacketSize
  /\ in_sysex \in BOOLEAN
  /\ sysex_started \in BOOLEAN
  /\ Len(pending) <= 1

Places == 1 .. Len(bytes)

(* Between F0 and place i nothing but data and Real-Time bytes.            *)
StartOf(i) == {j \in 1 .. i - 1 : /\ bytes[j] = "F0"
                                  /\ \A k \in j + 1 .. i - 1 :
                                       bytes[k] \in {"data", "realtime"}}
InSysex(i) == StartOf(i) # {}

SysexPlaces == {i \in Places : bytes[i] = "data" /\ InSysex(i)}

(* A status byte that has an effect: not Real-Time, not a stray F7.        *)
TakesEffect(j) ==
  /\ bytes[j] \notin {"data", "realtime"}
  /\ bytes[j] = "F7" => InSysex(j)

InForce(s, i) ==
  /\ s \in 1 .. i - 1
  /\ TakesEffect(s)
  /\ \A j \in s + 1 .. i - 1 : ~TakesEffect(j)

(* The data bytes from status s up to place i.                             *)
Arguments(s, i) == {j \in s + 1 .. i : bytes[j] = "data"}

(* Place i completes a message of status s: its last data byte, or itself. *)
Completes(s, i) ==
  \/ s = i /\ bytes[i] \in {"realtime", "common0"}
  \/ /\ bytes[i] = "data" /\ InForce(s, i)
     /\ LET n == Cardinality(Arguments(s, i))
            e == expected_data_bytes(bytes[s])
        IN  CASE bytes[s] \in Voice -> n % e = 0
              [] bytes[s] \in Common -> n = e
              [] OTHER -> FALSE

(* What that message says: the last data bytes, as many as s expects.      *)
Meaning(s, i) ==
  LET args == Arguments(s, i)
      last == i
      prev == IF args = {i} \/ s = i THEN 0
              ELSE CHOOSE j \in args \ {i} : \A k \in args \ {i} : k <= j
      e    == expected_data_bytes(bytes[s])
  IN  CASE e = 0 -> System(s, <<>>)
        [] bytes[s] = "voice2" -> VoiceMsg(s, <<prev, last>>)
        [] bytes[s] = "voice1" -> VoiceMsg(s, <<last, 0>>)
        [] bytes[s] = "common2" -> System(s, <<prev, last>>)
        [] bytes[s] = "common1" -> System(s, <<last>>)

Parsed == {Meaning(x[1], x[2]) : x \in {y \in Places \X Places : Completes(y[1], y[2])}}

Said    == out \o pending
Emitted == {Said[p] : p \in 1 .. Len(Said)}
Packets == {p \in 1 .. Len(Said) : Said[p].type = "sysex7"}

(* Running Status, System Common and Real-Time: the messages produced are  *)
(* exactly the ones the bytes mean, with their own status and their own    *)
(* data; a caller that feeds before draining loses what was pending, single *)
(* byte messages only, and nothing else (midi2_conv.c:271).                *)
MessagesAreParsed ==
  LET said == {m \in Emitted : m.type # "sysex7"}
  IN  /\ said \subseteq Parsed
      /\ Parsed \ said = dropped
      /\ \A m \in dropped : m.data = <<>>

Ascending(q) == \A x, y \in 1 .. Len(q) : x < y => q[x] < q[y]

(* No byte of a SysEx is lost, invented, repeated or reordered, whatever   *)
(* interrupts it: the packets' data, then the buffer, are the SysEx bytes. *)
SysexBytesKept ==
  LET held == {Said[p].data : p \in Packets} \union {sysex_buf}
  IN  /\ UNION {Elems(q) : q \in held} = SysexPlaces
      /\ \A q \in held : Ascending(q)
      /\ \A p, q \in Packets : p < q =>
           \A i \in Elems(Said[p].data), j \in Elems(Said[q].data) : i < j
      /\ \A p \in Packets :
           \A i \in Elems(Said[p].data), j \in Elems(sysex_buf) : i < j

Opens(m)  == m.form \in {"start", "complete"}
Closes(m) == m.form \in {"end", "complete"}

Adjacent(p, q) == p < q /\ \A r \in Packets : r <= p \/ q <= r

OneStart(q) == \A i, j \in Elems(q) : StartOf(i) = StartOf(j)

(* The SysEx7 packets are well framed: a packet opens a message exactly if *)
(* the one before closed its own, and continues it exactly if their bytes  *)
(* follow the same F0; and "no START is left dangling" (midi2_conv.c:196)  *)
(* once no SysEx is open.                                                  *)
PacketsFramed ==
  /\ \A p \in Packets :
       /\ (\A q \in Packets : p <= q) => Opens(Said[p])
       /\ (\A q \in Packets : q <= p) /\ ~in_sysex => Closes(Said[p])
       /\ OneStart(Said[p].data)
  /\ \A p, q \in Packets : Adjacent(p, q) =>
       /\ Closes(Said[p]) <=> Opens(Said[q])
       /\ Said[p].data # <<>> /\ Said[q].data # <<>> =>
            (Opens(Said[q]) <=> ~OneStart(Said[p].data \o Said[q].data))

(* Every message keeps its position on the wire, Real-Time ones included:  *)
(* a SysEx packet starts after the place where any earlier message ended.  *)
EndsAt(m) ==
  LET ps == {m.status} \union {m.data[x] : x \in 1 .. Len(m.data)}
  IN  CHOOSE i \in ps : \A j \in ps : j <= i
BeginsAt(m) == IF m.type = "sysex7" THEN m.data[1] ELSE EndsAt(m)

(* The empty packet that closes a SysEx whose bytes are out has no place.  *)
Placed == {p \in 1 .. Len(Said) : Said[p].type # "sysex7" \/ Said[p].data # <<>>}

WireOrderKept ==
  \A p, q \in Placed : p < q => EndsAt(Said[p]) < BeginsAt(Said[q])
=============================================================================
