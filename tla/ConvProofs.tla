------------------------------ MODULE ConvProofs ------------------------------
(***************************************************************************)
(* What the byte-stream converter keeps for any stream of bytes, any size  *)
(* of packet and any caller, draining or not.                              *)
(***************************************************************************)
EXTENDS Conv, DataLemmas

Message(n) == [type: {"system", "voice", "sysex7"},
               form: {"none", "start", "continue", "end", "complete"},
               status: 0 .. n, data: Seq(0 .. n)]
Single(n) == {System(i, <<>>) : i \in 1 .. n}

(* A status in force waits for data bytes, and no SysEx is open.           *)
StatusInv ==
  running_status # 0 =>
    /\ ~ in_sysex
    /\ bytes[running_status] \in Voice \union {"common1", "common2"}
    /\ data_byte_count = expected_data_bytes(bytes[running_status])
    /\ data_pos < data_byte_count

SysexInv == ~ in_sysex => sysex_buf = <<>> /\ sysex_started = FALSE

TypeInv ==
  /\ TypeOK
  /\ out \in Seq(Message(Len(bytes))) /\ pending \in Seq(Single(Len(bytes)))
  /\ StatusInv /\ SysexInv

LEMMA Expected ==
  /\ \A b \in Voice \union {"common1", "common2"} : expected_data_bytes(b) \in {1, 2}
  /\ \A b \in {"common0", "realtime", "F0", "F7", "data"} : expected_data_bytes(b) = 0
  BY DEF expected_data_bytes, Voice

LEMMA OneMoreByte ==
  ASSUME bytes \in Seq(Bytes), NEW b \in Bytes, bytes' = Append(bytes, b)
  PROVE  /\ bytes' \in Seq(Bytes) /\ Len(bytes) \in Nat /\ Len(bytes') = Len(bytes) + 1
         /\ bytes'[Len(bytes) + 1] = b
         /\ \A j \in 1 .. Len(bytes) : bytes'[j] = bytes[j]
  BY AppendProperties, LenProperties

(* A message stays what it is as the stream goes on.                       *)
LEMMA LongerStream ==
  ASSUME NEW n \in Nat
  PROVE  Message(n) \subseteq Message(n + 1) /\ Single(n) \subseteq Single(n + 1)
         /\ Single(n) \subseteq Message(n)
  <1>1. 0 .. n \subseteq 0 .. n + 1 /\ 1 .. n \subseteq 1 .. n + 1
    OBVIOUS
  <1>2. Seq(0 .. n) \subseteq Seq(0 .. n + 1)
    BY <1>1, SeqMonotonic
  <1>3. Message(n) \subseteq Message(n + 1)
    BY <1>1, <1>2 DEF Message
  <1>4. Single(n) \subseteq Single(n + 1)
    BY <1>1 DEF Single
  <1>5. ASSUME NEW i \in 1 .. n PROVE System(i, <<>>) \in Message(n)
    <2>1. <<>> \in Seq(0 .. n)
      BY EmptySeq
    <2>2. i \in 0 .. n
      OBVIOUS
    <2> QED
      BY <2>1, <2>2 DEF Message, System
  <1> QED
    BY <1>3, <1>4, <1>5 DEF Single

LEMMA PacketType ==
  ASSUME NEW n \in Nat, NEW bs \in Seq(1 .. n), NEW is_end \in BOOLEAN
  PROVE  Packet(bs, is_end) \in Message(n)
  <1>1. bs \in Seq(0 .. n)
    <2>1. 1 .. n \subseteq 0 .. n
      OBVIOUS
    <2> QED
      BY <2>1, SeqMonotonic
  <1>2. Form(is_end) \in {"none", "start", "continue", "end", "complete"}
    BY DEF Form
  <1>3. 0 \in 0 .. n
    OBVIOUS
  <1> QED
    BY <1>1, <1>2, <1>3 DEF Packet, Sysex7, Message

-----------------------------------------------------------------------------
(* What a byte does to the SysEx being gathered, and the packet, if any,   *)
(* that it sends.                                                          *)
Turn(b, i, first) ==
  \/ /\ b \notin {"data", "realtime"}
     /\ sysex_buf' = <<>> /\ sysex_started' = FALSE /\ in_sysex' = (b = "F0")
     /\ \/ in_sysex /\ first = <<Packet(sysex_buf, TRUE)>>
        \/ sysex_buf = <<>> /\ ~ sysex_started /\ first = <<>>
  \/ /\ b = "realtime" /\ in_sysex /\ sysex_buf # <<>>
     /\ first = <<Packet(sysex_buf, FALSE)>>
     /\ sysex_buf' = <<>> /\ sysex_started' = TRUE /\ in_sysex' = TRUE
  \/ /\ b = "data" /\ in_sysex /\ in_sysex' = TRUE
     /\ \/ /\ Len(Append(sysex_buf, i)) = PacketSize
           /\ first = <<Packet(Append(sysex_buf, i), FALSE)>>
           /\ sysex_buf' = <<>> /\ sysex_started' = TRUE
        \/ /\ Len(Append(sysex_buf, i)) # PacketSize
           /\ first = <<>>
           /\ sysex_buf' = Append(sysex_buf, i) /\ sysex_started' = sysex_started
  \/ /\ (b = "realtime" /\ sysex_buf = <<>>) \/ (b = "data" /\ ~ in_sysex)
     /\ first = <<>> /\ UNCHANGED sysexVars

(* What a byte completes, beside that.                                     *)
Held(i) == [data EXCEPT ![data_pos + 1] = i]

Says(b, i, word) ==
  \/ b \in {"realtime", "common0"} /\ word = <<System(i, <<>>)>>
  \/ /\ b = "data" /\ ~ in_sysex /\ running_status # 0
     /\ data_pos + 1 >= data_byte_count /\ word = <<ChannelMsg(Held(i))>>
  \/ /\ \/ b \notin {"realtime", "common0", "data"}
        \/ b = "data" /\ (in_sysex \/ running_status = 0 \/ ~ (data_pos + 1 >= data_byte_count))
     /\ word = <<>>

LEMMA ChannelMsgType ==
  ASSUME TypeInv, NEW i \in Nat, i = Len(bytes) + 1, running_status # 0
  PROVE  /\ ChannelMsg(Held(i)) \in Message(i)
         /\ ChannelMsg(Held(i)).type # "sysex7"
         /\ Held(i) \in [1 .. 2 -> 0 .. i]
  <1>1. /\ Len(bytes) \in Nat /\ running_status \in 0 .. Len(bytes) /\ data \in [1 .. 2 -> 0 .. Len(bytes)]
        /\ data_pos \in 0 .. 1 /\ data_byte_count \in 0 .. 2
    BY LenProperties DEF TypeInv, TypeOK
  <1>2. Held(i) \in [1 .. 2 -> 0 .. i]
    <2>1. data_pos + 1 \in 1 .. 2
      BY <1>1
    <2>2. i \in 0 .. i /\ 0 .. Len(bytes) \subseteq 0 .. i
      BY <1>1
    <2> QED
      BY <1>1, <2>1, <2>2 DEF Held
  <1> DEFINE d == Held(i)
  <1> HIDE DEF d
  <1>3. d \in Seq(0 .. i)
    <2>1. d \in [1 .. 2 -> 0 .. i] /\ 2 \in Nat
      BY <1>2 DEF d
    <2>2. Seq(0 .. i) = UNION {[1 .. n -> 0 .. i] : n \in Nat}
      BY SeqDef
    <2> QED
      BY <2>1, <2>2, Zenon
  <1>4. running_status \in 0 .. i
    BY <1>1
  <1>5. VoiceMsg(running_status, d) \in Message(i) /\ VoiceMsg(running_status, d).type = "voice"
    BY <1>3, <1>4 DEF VoiceMsg, Message
  <1>6. SubSeq(d, 1, data_byte_count) \in Seq(0 .. i)
    <2>1. \A x \in 1 .. data_byte_count : d[x] \in 0 .. i
      BY <1>1, <1>2 DEF d
    <2>2. data_byte_count \in Int /\ 1 \in Int
      BY <1>1
    <2> QED
      BY <2>1, <2>2, SubSeqProperties
  <1>7. /\ System(running_status, SubSeq(d, 1, data_byte_count)) \in Message(i)
        /\ System(running_status, SubSeq(d, 1, data_byte_count)).type = "system"
    BY <1>4, <1>6 DEF System, Message
  <1> QED
    BY <1>2, <1>5, <1>7 DEF ChannelMsg, d

LEMMA FirstType ==
  ASSUME TypeInv, NEW i \in Nat, i = Len(bytes) + 1, NEW b \in Bytes, NEW first, Turn(b, i, first)
  PROVE  first = <<>> \/ \E m \in Message(i) : first = <<m>>
  <1>1. /\ Len(bytes) \in Nat /\ sysex_buf \in Seq(1 .. Len(bytes))
    BY LenProperties DEF TypeInv, TypeOK
  <1>2. 1 .. Len(bytes) \subseteq 1 .. i /\ i \in 1 .. i
    BY <1>1
  <1>3. sysex_buf \in Seq(1 .. i)
    BY <1>1, <1>2, SeqMonotonic
  <1>4. Append(sysex_buf, i) \in Seq(1 .. i)
    BY <1>2, <1>3, AppendProperties
  <1>5. \A is_end \in BOOLEAN : /\ Packet(sysex_buf, is_end) \in Message(i)
                                /\ Packet(Append(sysex_buf, i), is_end) \in Message(i)
    BY <1>3, <1>4, PacketType
  <1> QED
    BY <1>5 DEF Turn

LEMMA WordType ==
  ASSUME TypeInv, NEW i \in Nat, i = Len(bytes) + 1, NEW b \in Bytes, NEW word, Says(b, i, word)
  PROVE  word = <<>> \/ \E m \in Message(i) : word = <<m>> /\ m.type # "sysex7"
  <1>1. Len(bytes) \in Nat
    BY LenProperties DEF TypeInv, TypeOK
  <1>2. System(i, <<>>) \in Message(i) /\ System(i, <<>>).type = "system"
    <2>1. i \in 1 .. i
      BY <1>1
    <2>2. System(i, <<>>) \in Single(i)
      BY <2>1 DEF Single
    <2> QED
      BY <2>2, LongerStream DEF System
  <1>3. CASE b \in {"realtime", "common0"} /\ word = <<System(i, <<>>)>>
    BY <1>2, <1>3
  <1>4. CASE running_status # 0 /\ word = <<ChannelMsg(Held(i))>>
    BY <1>4, ChannelMsgType
  <1> QED
    BY <1>3, <1>4 DEF Says

(* Every Feed says the packet first and then the word; what of it does not *)
(* go to the caller at once waits in pending.                              *)
LEMMA FeedSays ==
  ASSUME TypeInv, NEW b \in Bytes, Feed(b)
  PROVE  \E first, word :
           /\ Turn(b, Len(bytes) + 1, first) /\ Says(b, Len(bytes) + 1, word)
           /\ \/ out' = (out \o first) \o word /\ pending' = <<>>
              \/ out' = out \o first /\ pending' = word /\ word = <<System(Len(bytes) + 1, <<>>)>>
  <1> DEFINE i == Len(bytes) + 1
             Done(first, word) ==
               /\ Turn(b, i, first) /\ Says(b, i, word)
               /\ \/ out' = (out \o first) \o word /\ pending' = <<>>
                  \/ out' = out \o first /\ pending' = word /\ word = <<System(i, <<>>)>>
  <1>1. /\ out \in Seq(Message(Len(bytes))) /\ sysex_buf \in Seq(1 .. Len(bytes)) /\ Len(bytes) \in Nat
        /\ in_sysex \in BOOLEAN /\ sysex_started \in BOOLEAN /\ SysexInv
    BY LenProperties DEF TypeInv, TypeOK
  <1>2. /\ out \o <<>> = out /\ \A s \in Seq(Message(Len(bytes))) : s \o <<>> = s
        /\ \A m : out \o <<m>> = Append(out, m)
    <2>1. ASSUME NEW m PROVE out \o <<m>> = Append(out, m)
      <3> DEFINE M == Message(Len(bytes)) \union {m}
      <3>1. out \in Seq(M) /\ m \in M
        <4>1. Message(Len(bytes)) \subseteq M /\ m \in M
          OBVIOUS
        <4> QED
          BY <1>1, <4>1, SeqMonotonic
      <3> QED
        BY <3>1, AppendIsConcat
    <2> QED
      BY <1>1, <2>1, ConcatEmptySeq
  <1>3. CASE b = "realtime" /\ FeedRealTime(i)
    <2>1. Says(b, i, <<System(i, <<>>)>>)
      BY <1>3 DEF Says
    <2>2. CASE in_sysex /\ sysex_buf # <<>>
      <3>1. Turn(b, i, <<Packet(sysex_buf, FALSE)>>)
        BY <1>3, <2>2 DEF Turn, FeedRealTime, AfterPacket
      <3>2. out' = out \o <<Packet(sysex_buf, FALSE)>> /\ pending' = <<System(i, <<>>)>>
        BY <1>2, <1>3, <2>2 DEF FeedRealTime
      <3>3. Done(<<Packet(sysex_buf, FALSE)>>, <<System(i, <<>>)>>)
        BY <2>1, <3>1, <3>2
      <3> HIDE DEF Done
      <3> QED
        BY <3>3 DEF Done
    <2>3. CASE ~ (in_sysex /\ sysex_buf # <<>>)
      <3>0. sysex_buf = <<>> /\ UNCHANGED sysexVars
        BY <1>1, <1>3, <2>3 DEF FeedRealTime, SysexInv
      <3>1. Turn(b, i, <<>>)
        BY <1>3, <3>0 DEF Turn
      <3>2. out' = (out \o <<>>) \o <<System(i, <<>>)>> /\ pending' = <<>>
        BY <1>2, <1>3, <2>3 DEF FeedRealTime
      <3>3. Done(<<>>, <<System(i, <<>>)>>)
        BY <2>1, <3>1, <3>2
      <3> HIDE DEF Done
      <3> QED
        BY <3>3 DEF Done
    <2> QED
      BY <2>2, <2>3
  <1>4. CASE b = "F0" /\ FeedStart
    <2>1. Says(b, i, <<>>)
      BY <1>4 DEF Says
    <2>2. CASE MustClose
      <3>1. Turn(b, i, <<Packet(sysex_buf, TRUE)>>)
        BY <1>4, <2>2 DEF Turn, FeedStart, MustClose
      <3>2. out' = Append(out, Packet(sysex_buf, TRUE)) /\ pending' = <<>>
        BY <1>4, <2>2 DEF FeedStart
      <3>3. out' = (out \o <<Packet(sysex_buf, TRUE)>>) \o <<>>
        <4>1. Append(out, Packet(sysex_buf, TRUE)) \in Seq(Message(Len(bytes)))
          BY <1>1, PacketType, AppendProperties
        <4> QED
          BY <1>2, <3>2, <4>1
      <3>4. Done(<<Packet(sysex_buf, TRUE)>>, <<>>)
        BY <2>1, <3>1, <3>2, <3>3
      <3> HIDE DEF Done
      <3> QED
        BY <3>4 DEF Done
    <2>3. CASE ~ MustClose
      <3>1. Turn(b, i, <<>>)
        BY <1>1, <1>4, <2>3 DEF Turn, FeedStart, MustClose, SysexInv
      <3>2. out' = (out \o <<>>) \o <<>> /\ pending' = <<>>
        BY <1>2, <1>4, <2>3 DEF FeedStart
      <3>3. Done(<<>>, <<>>)
        BY <2>1, <3>1, <3>2
      <3> HIDE DEF Done
      <3> QED
        BY <3>3 DEF Done
    <2> QED
      BY <2>2, <2>3
  <1>5. CASE b = "F7" /\ FeedEnd
    <2>1. Says(b, i, <<>>)
      BY <1>5 DEF Says
    <2>2. CASE in_sysex
      <3>1. Turn(b, i, <<Packet(sysex_buf, TRUE)>>)
        BY <1>5, <2>2 DEF Turn, FeedEnd, AfterPacket
      <3>2. out' = Append(out, Packet(sysex_buf, TRUE)) /\ pending' = <<>>
        BY <1>5, <2>2 DEF FeedEnd
      <3>3. out' = (out \o <<Packet(sysex_buf, TRUE)>>) \o <<>>
        <4>1. Append(out, Packet(sysex_buf, TRUE)) \in Seq(Message(Len(bytes)))
          BY <1>1, PacketType, AppendProperties
        <4> QED
          BY <1>2, <3>2, <4>1
      <3>4. Done(<<Packet(sysex_buf, TRUE)>>, <<>>)
        BY <2>1, <3>1, <3>2, <3>3
      <3> HIDE DEF Done
      <3> QED
        BY <3>4 DEF Done
    <2>3. CASE ~ in_sysex
      <3>1. Turn(b, i, <<>>)
        BY <1>1, <1>5, <2>3 DEF Turn, FeedEnd, SysexInv, sysexVars
      <3>2. out' = (out \o <<>>) \o <<>> /\ pending' = <<>>
        BY <1>2, <1>5, <2>3 DEF FeedEnd
      <3>3. Done(<<>>, <<>>)
        BY <2>1, <3>1, <3>2
      <3> HIDE DEF Done
      <3> QED
        BY <3>3 DEF Done
    <2> QED
      BY <2>2, <2>3
  <1>6. CASE b \in Voice \union Common /\ FeedStatus(b, i)
    <2> DEFINE word == IF expected_data_bytes(b) = 0 THEN <<System(i, <<>>)>> ELSE <<>>
    <2>1. b \notin {"data", "realtime", "F0", "F7"}
      BY <1>6 DEF Voice, Common
    <2>2. Says(b, i, word) /\ (word = <<>> \/ word = <<System(i, <<>>)>>)
      <3>1. CASE b = "common0"
        BY <3>1, Expected DEF Says
      <3>2. CASE b # "common0"
        <4>1. expected_data_bytes(b) # 0
          BY <1>6, <3>2, Expected DEF Common
        <4> QED
          BY <2>1, <3>2, <4>1 DEF Says
      <3> QED
        BY <3>1, <3>2
    <2>3. IF MustClose
          THEN out' = Append(out, Packet(sysex_buf, TRUE)) /\ pending' = word /\ AfterPacket(TRUE)
          ELSE out' = out \o word /\ pending' = <<>> /\ in_sysex' = FALSE
               /\ UNCHANGED <<sysex_buf, sysex_started>>
      BY <1>6 DEF FeedStatus
    <2> HIDE DEF word
    <2>4. CASE MustClose
      <3> DEFINE pack == Packet(sysex_buf, TRUE)
      <3>1. Turn(b, i, <<pack>>)
        BY <2>1, <2>3, <2>4 DEF Turn, MustClose, AfterPacket
      <3>2. out' = out \o <<pack>> /\ pending' = word
        BY <1>2, <2>3, <2>4
      <3>3. CASE word = <<>>
        <4>1. Append(out, pack) \in Seq(Message(Len(bytes)))
          BY <1>1, PacketType, AppendProperties
        <4> HIDE DEF pack
        <4>2. out' = (out \o <<pack>>) \o word /\ pending' = <<>>
          BY <1>2, <3>2, <3>3, <4>1
        <4>3. Done(<<pack>>, word)
          BY <2>2, <3>1, <4>2
        <4> HIDE DEF Done
        <4> QED
          BY <4>3 DEF Done
      <3>4. CASE word = <<System(i, <<>>)>>
        <4> HIDE DEF pack
        <4>1. Done(<<pack>>, word)
          BY <2>2, <3>1, <3>2, <3>4
        <4> HIDE DEF Done
        <4> QED
          BY <4>1 DEF Done
      <3> QED
        BY <2>2, <3>3, <3>4
    <2>5. CASE ~ MustClose
      <3>1. Turn(b, i, <<>>)
        BY <1>1, <2>1, <2>3, <2>5 DEF Turn, MustClose, SysexInv
      <3>2. Done(<<>>, word)
        BY <1>2, <2>2, <2>3, <2>5, <3>1
      <3> HIDE DEF Done
      <3> QED
        BY <3>2 DEF Done
    <2> QED
      BY <2>4, <2>5
  <1>7. CASE b = "data" /\ in_sysex /\ FeedSysexData(i)
    <2>1. Says(b, i, <<>>)
      BY <1>7 DEF Says
    <2> DEFINE bs == Append(sysex_buf, i)
    <2>2. CASE Len(bs) = PacketSize
      <3> DEFINE pack == Packet(bs, FALSE)
      <3>1. Turn(b, i, <<pack>>)
        BY <1>1, <1>7, <2>2 DEF Turn, FeedSysexData, AfterPacket
      <3>2. out' = Append(out, pack) /\ pending' = <<>>
        BY <1>7, <2>2 DEF FeedSysexData
      <3>3. out' = (out \o <<pack>>) \o <<>>
        <4> DEFINE M == Message(Len(bytes)) \union {pack}
        <4>1. out \in Seq(M) /\ pack \in M
          <5>1. Message(Len(bytes)) \subseteq M /\ pack \in M
            OBVIOUS
          <5> QED
            BY <1>1, <5>1, SeqMonotonic
        <4> HIDE DEF M, pack
        <4>2. Append(out, pack) \in Seq(M)
          BY <4>1, AppendProperties
        <4> QED
          BY <1>2, <3>2, <4>2, ConcatEmptySeq
      <3>4. Done(<<pack>>, <<>>)
        BY <2>1, <3>1, <3>2, <3>3
      <3> HIDE DEF Done
      <3> QED
        BY <3>4 DEF Done
    <2>3. CASE Len(bs) # PacketSize
      <3>1. Turn(b, i, <<>>)
        BY <1>1, <1>7, <2>3 DEF Turn, FeedSysexData
      <3>2. out' = (out \o <<>>) \o <<>> /\ pending' = <<>>
        BY <1>2, <1>7, <2>3 DEF FeedSysexData
      <3>3. Done(<<>>, <<>>)
        BY <2>1, <3>1, <3>2
      <3> HIDE DEF Done
      <3> QED
        BY <3>3 DEF Done
    <2> QED
      BY <2>2, <2>3
  <1>8. CASE b = "data" /\ ~ in_sysex /\ FeedData(i)
    <2>1. Turn(b, i, <<>>) /\ running_status # 0 /\ pending' = <<>>
      BY <1>8 DEF Turn, FeedData
    <2>2. CASE data_pos + 1 >= data_byte_count
      <3>1. Says(b, i, <<ChannelMsg(Held(i))>>)
        BY <1>8, <2>1, <2>2 DEF Says
      <3>2. out' = (out \o <<>>) \o <<ChannelMsg(Held(i))>>
        BY <1>2, <1>8, <2>2 DEF FeedData, Held
      <3>3. Done(<<>>, <<ChannelMsg(Held(i))>>)
        BY <2>1, <3>1, <3>2
      <3> HIDE DEF Done
      <3> QED
        BY <3>3 DEF Done
    <2>3. CASE ~ (data_pos + 1 >= data_byte_count)
      <3>1. Says(b, i, <<>>)
        BY <1>8, <2>3 DEF Says
      <3>2. out' = (out \o <<>>) \o <<>>
        BY <1>2, <1>8, <2>3 DEF FeedData
      <3>3. Done(<<>>, <<>>)
        BY <2>1, <3>1, <3>2
      <3> HIDE DEF Done
      <3> QED
        BY <3>3 DEF Done
    <2> QED
      BY <2>2, <2>3
  <1>9. CASE b = "data" /\ ~ in_sysex /\ FeedOrphan
    <2>1. Turn(b, i, <<>>) /\ Says(b, i, <<>>)
      BY <1>9 DEF Turn, Says, FeedOrphan
    <2>2. out' = (out \o <<>>) \o <<>> /\ pending' = <<>>
      BY <1>2, <1>9 DEF FeedOrphan
    <2>3. Done(<<>>, <<>>)
      BY <2>1, <2>2
    <2> HIDE DEF Done
    <2> QED
      BY <2>3 DEF Done
  <1> QED
    BY <1>3, <1>4, <1>5, <1>6, <1>7, <1>8, <1>9, Zenon DEF Feed

(* What a byte does to the status in force.                                *)
StatusMoves(b, i) ==
  \/ /\ b \in {"realtime", "F7"} \/ (b = "data" /\ (in_sysex \/ running_status = 0))
     /\ UNCHANGED statusVars
  \/ b = "F0" /\ running_status' = 0 /\ UNCHANGED <<data_byte_count, data_pos, data>>
  \/ b \in Voice \union Common /\ TakeStatus(b, i)
  \/ /\ b = "data" /\ ~ in_sysex /\ running_status # 0 /\ data_byte_count' = data_byte_count
     /\ \/ /\ data_pos + 1 >= data_byte_count /\ data' = <<0, 0>> /\ data_pos' = 0
           /\ running_status' = IF bytes[running_status] \in Voice THEN running_status ELSE 0
        \/ /\ ~ (data_pos + 1 >= data_byte_count) /\ data' = Held(i) /\ data_pos' = data_pos + 1
           /\ running_status' = running_status

LEMMA FeedMoves ==
  ASSUME NEW b \in Bytes, Feed(b)
  PROVE  StatusMoves(b, Len(bytes) + 1) /\ bytes' = Append(bytes, b)
         /\ dropped' = dropped \union Elems(pending) /\ Len(bytes) < MaxBytes
  <1> DEFINE i == Len(bytes) + 1
  <1>1. ASSUME b = "realtime", FeedRealTime(i) PROVE StatusMoves(b, i)
    BY <1>1 DEF FeedRealTime, StatusMoves
  <1>2. ASSUME b = "F0", FeedStart PROVE StatusMoves(b, i)
    BY <1>2 DEF FeedStart, StatusMoves
  <1>3. ASSUME b = "F7", FeedEnd PROVE StatusMoves(b, i)
    BY <1>3 DEF FeedEnd, StatusMoves
  <1>4. ASSUME b \in Voice \union Common, FeedStatus(b, i) PROVE StatusMoves(b, i)
    BY <1>4 DEF FeedStatus, StatusMoves
  <1>5. ASSUME b = "data", in_sysex, FeedSysexData(i) PROVE StatusMoves(b, i)
    BY <1>5 DEF FeedSysexData, StatusMoves
  <1>6. ASSUME b = "data", ~ in_sysex, FeedData(i) PROVE StatusMoves(b, i)
    BY <1>6, Zenon DEF FeedData, StatusMoves, Held
  <1>7. ASSUME b = "data", ~ in_sysex, FeedOrphan PROVE StatusMoves(b, i)
    BY <1>7 DEF FeedOrphan, StatusMoves
  <1>8. StatusMoves(b, i)
    BY <1>1, <1>2, <1>3, <1>4, <1>5, <1>6, <1>7, Zenon DEF Feed
  <1> QED
    BY <1>8 DEF Feed

-----------------------------------------------------------------------------
(* Type correctness. *)

LEMMA StatusType ==
  ASSUME TypeInv, NEW b \in Bytes, NEW i \in Nat, i = Len(bytes) + 1, StatusMoves(b, i)
  PROVE  /\ running_status' \in 0 .. i /\ data_byte_count' \in 0 .. 2 /\ data_pos' \in 0 .. 1
         /\ data' \in [1 .. 2 -> 0 .. i]
  <1>1. /\ Len(bytes) \in Nat /\ running_status \in 0 .. Len(bytes) /\ data \in [1 .. 2 -> 0 .. Len(bytes)]
        /\ data_pos \in 0 .. 1 /\ data_byte_count \in 0 .. 2 /\ StatusInv
    BY LenProperties DEF TypeInv, TypeOK
  <1>2. 0 .. Len(bytes) \subseteq 0 .. i /\ i \in 0 .. i /\ 0 \in 0 .. i
    BY <1>1
  <1>3. data \in [1 .. 2 -> 0 .. i] /\ running_status \in 0 .. i
    BY <1>1, <1>2
  <1>4. <<0, 0>> \in [1 .. 2 -> 0 .. i]
    BY <1>2
  <1>5. CASE UNCHANGED statusVars
    BY <1>1, <1>3, <1>5 DEF statusVars
  <1>6. CASE running_status' = 0 /\ UNCHANGED <<data_byte_count, data_pos, data>>
    BY <1>1, <1>2, <1>3, <1>6
  <1>7. CASE b \in Voice \union Common /\ TakeStatus(b, i)
    <2>1. expected_data_bytes(b) \in 0 .. 2
      BY <1>7, Expected DEF Voice, Common
    <2> QED
      BY <1>2, <1>3, <1>4, <1>7, <2>1 DEF TakeStatus
  <1>8. CASE /\ b = "data" /\ ~ in_sysex /\ running_status # 0 /\ data_byte_count' = data_byte_count
             /\ data_pos + 1 >= data_byte_count /\ data' = <<0, 0>> /\ data_pos' = 0
             /\ running_status' = IF bytes[running_status] \in Voice THEN running_status ELSE 0
    BY <1>1, <1>2, <1>3, <1>4, <1>8
  <1>9. CASE /\ b = "data" /\ ~ in_sysex /\ running_status # 0 /\ data_byte_count' = data_byte_count
             /\ ~ (data_pos + 1 >= data_byte_count) /\ data' = Held(i) /\ data_pos' = data_pos + 1
             /\ running_status' = running_status
    <2>1. Held(i) \in [1 .. 2 -> 0 .. i]
      BY <1>9, ChannelMsgType
    <2>2. data_pos + 1 \in 0 .. 1
      BY <1>1, <1>9
    <2> QED
      BY <1>1, <1>3, <1>9, <2>1, <2>2
  <1> QED
    BY <1>5, <1>6, <1>7, <1>8, <1>9 DEF StatusMoves

LEMMA SysexType ==
  ASSUME TypeInv, NEW b \in Bytes, NEW i \in Nat, i = Len(bytes) + 1, NEW first, Turn(b, i, first)
  PROVE  /\ sysex_buf' \in Seq(1 .. i) /\ Len(sysex_buf') < PacketSize
         /\ in_sysex' \in BOOLEAN /\ sysex_started' \in BOOLEAN
         /\ SysexInv'
  <1>1. /\ Len(bytes) \in Nat /\ sysex_buf \in Seq(1 .. Len(bytes)) /\ Len(sysex_buf) < PacketSize
        /\ in_sysex \in BOOLEAN /\ sysex_started \in BOOLEAN /\ SysexInv /\ PacketSize \in Nat \ {0}
    BY LenProperties, ConvAssumption DEF TypeInv, TypeOK
  <1>2. <<>> \in Seq(1 .. i) /\ Len(<<>>) < PacketSize
    BY <1>1, EmptySeq
  <1>3. sysex_buf \in Seq(1 .. i) /\ i \in 1 .. i
    <2>1. 1 .. Len(bytes) \subseteq 1 .. i /\ i \in 1 .. i
      BY <1>1
    <2> QED
      BY <1>1, <2>1, SeqMonotonic
  <1>4. Append(sysex_buf, i) \in Seq(1 .. i) /\ Len(Append(sysex_buf, i)) = Len(sysex_buf) + 1
        /\ Len(sysex_buf) \in Nat
    BY <1>3, AppendProperties, LenProperties
  <1>5. Len(Append(sysex_buf, i)) # PacketSize => Len(Append(sysex_buf, i)) < PacketSize
    BY <1>1, <1>4
  <1> DEFINE s == Append(sysex_buf, i)
  <1> HIDE DEF s
  <1>6. CASE b \notin {"data", "realtime"} /\ sysex_buf' = <<>> /\ sysex_started' = FALSE /\ in_sysex' = (b = "F0")
    BY <1>2, <1>6 DEF SysexInv
  <1>7. CASE sysex_buf' = <<>> /\ sysex_started' = TRUE /\ in_sysex' = TRUE
    BY <1>2, <1>7 DEF SysexInv
  <1>8. CASE in_sysex' = TRUE /\ Len(s) # PacketSize /\ sysex_buf' = s /\ sysex_started' = sysex_started
    BY <1>1, <1>4, <1>5, <1>8 DEF SysexInv, s
  <1>9. CASE UNCHANGED sysexVars
    BY <1>1, <1>3, <1>9 DEF SysexInv, sysexVars
  <1> QED
    BY <1>6, <1>7, <1>8, <1>9 DEF Turn, s

LEMMA StatusInvStep ==
  ASSUME TypeInv, NEW b \in Bytes, NEW first, Turn(b, Len(bytes) + 1, first), bytes' = Append(bytes, b),
         StatusMoves(b, Len(bytes) + 1)
  PROVE  StatusInv'
  <1> DEFINE i == Len(bytes) + 1
  <1>1. /\ Len(bytes) \in Nat /\ running_status \in 0 .. Len(bytes)
        /\ data_pos \in 0 .. 1 /\ data_byte_count \in 0 .. 2 /\ StatusInv /\ SysexInv
        /\ bytes \in Seq(Bytes)
    BY LenProperties DEF TypeInv, TypeOK
  <1>2. /\ bytes'[i] = b /\ running_status # 0 => bytes'[running_status] = bytes[running_status]
    BY <1>1, OneMoreByte
  <1>3. b \in {"realtime", "F7"} \union Voice \union Common => in_sysex' = in_sysex \/ in_sysex' = FALSE
    BY DEF Turn, sysexVars, Voice, Common
  <1>4. b = "data" => in_sysex' = in_sysex
    BY DEF Turn, sysexVars
  <1>5. CASE b \in {"realtime", "F7"} \/ (b = "data" /\ (in_sysex \/ running_status = 0))
    <2>1. UNCHANGED statusVars
      BY <1>5 DEF StatusMoves, Voice, Common
    <2> QED
      BY <1>1, <1>2, <1>3, <1>4, <1>5, <2>1 DEF StatusInv, statusVars
  <1>6. CASE running_status' = 0
    BY <1>6 DEF StatusInv
  <1>7. CASE b \in Voice \union Common /\ TakeStatus(b, i)
    <2>1. in_sysex' = FALSE
      BY <1>7 DEF Turn, Voice, Common
    <2>2. CASE expected_data_bytes(b) = 0
      BY <2>2, <1>7 DEF TakeStatus, StatusInv
    <2>3. CASE expected_data_bytes(b) # 0
      <3>1. b \in Voice \union {"common1", "common2"} /\ expected_data_bytes(b) \in {1, 2}
        BY <1>7, <2>3, Expected DEF Common
      <3>2. running_status' = i /\ data_byte_count' = expected_data_bytes(b) /\ data_pos' = 0
        BY <1>7, <2>3 DEF TakeStatus
      <3> QED
        BY <1>2, <2>1, <3>1, <3>2 DEF StatusInv
    <2> QED
      BY <2>2, <2>3
  <1>8. CASE /\ b = "data" /\ ~ in_sysex /\ running_status # 0 /\ data_byte_count' = data_byte_count
             /\ data_pos' = 0 /\ running_status' = running_status
    BY <1>1, <1>2, <1>4, <1>8 DEF StatusInv
  <1>9. CASE /\ b = "data" /\ ~ in_sysex /\ running_status # 0 /\ data_byte_count' = data_byte_count
             /\ ~ (data_pos + 1 >= data_byte_count) /\ data_pos' = data_pos + 1
             /\ running_status' = running_status
    BY <1>1, <1>2, <1>4, <1>9 DEF StatusInv
  <1> QED
    BY <1>5, <1>6, <1>7, <1>8, <1>9, Zenon DEF StatusMoves

LEMMA OutType ==
  ASSUME TypeInv, NEW b \in Bytes, Feed(b), NEW i \in Nat, i = Len(bytes) + 1
  PROVE  out' \in Seq(Message(i)) /\ pending' \in Seq(Single(i)) /\ Len(pending') <= 1
  <1>1. Len(bytes) \in Nat /\ out \in Seq(Message(Len(bytes)))
    BY LenProperties DEF TypeInv, TypeOK
  <1>2. PICK first, word :
           /\ Turn(b, i, first) /\ Says(b, i, word)
           /\ \/ out' = (out \o first) \o word /\ pending' = <<>>
              \/ out' = out \o first /\ pending' = word /\ word = <<System(i, <<>>)>>
    BY FeedSays
  <1> DEFINE M == Message(i)
  <1>3. out \in Seq(M)
    BY <1>1, LongerStream, SeqMonotonic
  <1>4. first = <<>> \/ \E m \in M : first = <<m>>
    BY <1>2, FirstType
  <1>5. word = <<>> \/ \E m \in M : word = <<m>>
    BY <1>2, WordType
  <1>6. System(i, <<>>) \in Single(i)
    <2>1. i \in 1 .. i
      BY <1>1
    <2> QED
      BY <2>1 DEF Single
  <1> HIDE DEF M
  <1>7. first \in Seq(M) /\ word \in Seq(M)
    <2>1. <<>> \in Seq(M) /\ \A m \in M : <<m>> \in Seq(M)
      BY EmptySeq
    <2> QED
      BY <1>4, <1>5, <2>1
  <1>8. out \o first \in Seq(M) /\ (out \o first) \o word \in Seq(M)
    <2>1. out \o first \in Seq(M)
      BY <1>3, <1>7, ConcatProperties
    <2> QED
      BY <1>7, <2>1, ConcatProperties
  <1> DEFINE e == System(i, <<>>)
  <1> HIDE DEF e
  <1>9. <<e>> \in Seq(Single(i)) /\ Len(<<e>>) = 1 /\ <<>> \in Seq(Single(i)) /\ Len(<<>>) = 0
    BY <1>6, EmptySeq DEF e
  <1>10. out' = (out \o first) \o word \/ out' = out \o first
    BY <1>2
  <1>11. pending' = <<>> \/ pending' = <<e>>
    BY <1>2 DEF e
  <1>12. pending' \in Seq(Single(i)) /\ Len(pending') <= 1
    <2>1. CASE pending' = <<>>
      BY <1>9, <2>1
    <2>2. CASE pending' = <<e>>
      <3> DEFINE s == <<e>>
      <3>1. s \in Seq(Single(i)) /\ Len(s) = 1 /\ pending' = s
        BY <1>9, <2>2
      <3> HIDE DEF s
      <3>2. Len(pending') = 1
        BY <3>1
      <3>3. pending' \in Seq(Single(i))
        BY <3>1
      <3>4. Len(pending') <= 1
        BY <3>2
      <3> QED
        BY <3>3, <3>4
    <2> QED
      BY <1>11, <2>1, <2>2
  <1>13. out' \in Seq(M)
    BY <1>8, <1>10
  <1> QED
    BY <1>12, <1>13 DEF M

LEMMA TypeFeed ==
  ASSUME TypeInv, NEW b \in Bytes, Feed(b)
  PROVE  TypeInv'
  <1> DEFINE i == Len(bytes) + 1
  <1>1. bytes \in Seq(Bytes) /\ bytes' = Append(bytes, b) /\ StatusMoves(b, i)
    BY FeedMoves DEF TypeInv, TypeOK
  <1>2. Len(bytes') = i /\ bytes' \in Seq(Bytes) /\ i \in Nat
    BY <1>1, OneMoreByte
  <1>3. PICK first, word : Turn(b, i, first) /\ Says(b, i, word)
    BY FeedSays
  <1>4. /\ running_status' \in 0 .. i /\ data_byte_count' \in 0 .. 2 /\ data_pos' \in 0 .. 1
        /\ data' \in [1 .. 2 -> 0 .. i]
    BY <1>1, <1>2, StatusType
  <1>5. /\ sysex_buf' \in Seq(1 .. i) /\ Len(sysex_buf') < PacketSize
        /\ in_sysex' \in BOOLEAN /\ sysex_started' \in BOOLEAN /\ SysexInv'
    BY <1>2, <1>3, SysexType
  <1>6. out' \in Seq(Message(i)) /\ pending' \in Seq(Single(i)) /\ Len(pending') <= 1
    BY <1>2, OutType
  <1>7. StatusInv'
    BY <1>1, <1>3, StatusInvStep
  <1> HIDE DEF i
  <1> QED
    BY <1>2, <1>4, <1>5, <1>6, <1>7 DEF TypeInv, TypeOK

LEMMA TypeDrain ==
  ASSUME TypeInv, DrainPending
  PROVE  TypeInv'
  <1> DEFINE n == Len(bytes)
  <1>1. UNCHANGED <<statusVars, sysexVars, bytes>> /\ pending' = <<>> /\ out' = out \o pending
    BY DEF DrainPending
  <1>2. n \in Nat /\ out \in Seq(Message(n)) /\ pending \in Seq(Single(n))
    BY LenProperties DEF TypeInv, TypeOK
  <1>3. pending \in Seq(Message(n))
    BY <1>2, LongerStream, SeqMonotonic
  <1>4. out \o pending \in Seq(Message(n))
    BY <1>2, <1>3, ConcatProperties
  <1>5. <<>> \in Seq(Single(n)) /\ Len(<<>>) <= 1
    BY EmptySeq
  <1> QED
    BY <1>1, <1>4, <1>5 DEF TypeInv, TypeOK, StatusInv, SysexInv, statusVars, sysexVars

LEMMA TypeInit == Init => TypeInv
  <1> SUFFICES ASSUME Init PROVE TypeInv
    OBVIOUS
  <1>1. /\ running_status = 0 /\ data_byte_count = 0 /\ data_pos = 0 /\ data = <<0, 0>>
        /\ sysex_buf = <<>> /\ in_sysex = FALSE /\ sysex_started = FALSE /\ pending = <<>> /\ out = <<>>
        /\ bytes = <<>>
    BY DEF Init
  <1>2. \A S : <<>> \in Seq(S) /\ Len(<<>>) = 0
    BY EmptySeq
  <1>3. PacketSize \in Nat \ {0}
    BY ConvAssumption
  <1>4. <<0, 0>> \in [1 .. 2 -> 0 .. 0]
    OBVIOUS
  <1>5. TypeOK
    <2>1. Len(bytes) = 0 /\ Len(pending) <= 1 /\ Len(sysex_buf) < PacketSize
      BY <1>1, <1>2, <1>3
    <2>2. bytes \in Seq(Bytes) /\ sysex_buf \in Seq(1 .. Len(bytes))
      BY <1>1, <1>2
    <2>3. data \in [1 .. 2 -> 0 .. Len(bytes)] /\ running_status \in 0 .. Len(bytes)
      BY <1>1, <1>4, <2>1
    <2>4. /\ data_byte_count \in 0 .. 2 /\ data_pos \in 0 .. 1
      BY <1>1
    <2>5. in_sysex \in BOOLEAN /\ sysex_started \in BOOLEAN
      BY <1>1
    <2> QED
      BY <2>1, <2>2, <2>3, <2>4, <2>5 DEF TypeOK
  <1> QED
    BY <1>1, <1>2, <1>5 DEF TypeInv, StatusInv, SysexInv

LEMMA TypeInvariant == Spec => []TypeInv
  <1>1. TypeInv /\ [Next]_vars => TypeInv'
    <2> SUFFICES ASSUME TypeInv, [Next]_vars PROVE TypeInv'
      OBVIOUS
    <2>1. CASE UNCHANGED vars
      BY <2>1 DEF vars, statusVars, sysexVars, TypeInv, TypeOK, StatusInv, SysexInv
    <2> QED
      BY <2>1, TypeFeed, TypeDrain DEF Next
  <1> QED
    BY <1>1, TypeInit, PTL DEF Spec

(* Every index of the converter stays inside its array, and the SysEx      *)
(* buffer is emptied before it is full: for any stream and any packet size.*)
THEOREM TypeCorrect == Spec => []TypeOK
  <1>1. TypeInv => TypeOK
    BY DEF TypeInv
  <1> QED
    BY <1>1, TypeInvariant, PTL

-----------------------------------------------------------------------------
(* The order on the wire. *)

PlacedOf(s) == {p \in 1 .. Len(s) : s[p].type # "sysex7" \/ s[p].data # <<>>}

(* The messages of s come in the order of their bytes, all before limit.   *)
Chain(s, limit) ==
  \A p \in PlacedOf(s) :
    /\ EndsAt(s[p]) < limit
    /\ \A q \in PlacedOf(s) : p < q => EndsAt(s[p]) < BeginsAt(s[q])

LEMMA EndsAtLast ==
  ASSUME NEW n \in Nat, NEW m \in Message(n)
  PROVE  /\ EndsAt(m) \in 0 .. n /\ m.status <= EndsAt(m)
         /\ \A x \in 1 .. Len(m.data) : m.data[x] <= EndsAt(m) /\ m.data[x] \in 0 .. n
         /\ EndsAt(m) = m.status \/ \E x \in 1 .. Len(m.data) : EndsAt(m) = m.data[x]
  <1> DEFINE ps == {m.status} \union {m.data[x] : x \in 1 .. Len(m.data)}
             P(i) == \A j \in ps : j <= i
  <1>1. m.status \in 0 .. n /\ m.data \in Seq(0 .. n)
    BY DEF Message
  <1>2. \A x \in 1 .. Len(m.data) : m.data[x] \in 0 .. n
    BY <1>1, ElementOfSeq
  <1>3. ps \subseteq 0 .. n /\ ps # {} /\ m.status \in ps
        /\ (\A x \in 1 .. Len(m.data) : m.data[x] \in ps)
        /\ \A y \in ps : y = m.status \/ \E x \in 1 .. Len(m.data) : y = m.data[x]
    BY <1>1, <1>2
  <1>4. EndsAt(m) = CHOOSE i \in ps : P(i)
    BY DEF EndsAt
  <1> HIDE DEF ps
  <1>5. \E i \in ps : P(i)
    BY <1>3, GreatestElement
  <1> HIDE DEF P
  <1>6. EndsAt(m) \in ps /\ P(EndsAt(m))
    BY <1>4, <1>5
  <1> QED
    BY <1>2, <1>3, <1>6 DEF P

LEMMA ChainMembers ==
  ASSUME NEW n \in Nat, NEW s \in Seq(Message(n)), NEW limit, Chain(s, limit)
  PROVE  \A p \in PlacedOf(s) : EndsAt(s[p]) \in 0 .. n /\ s[p] \in Message(n)
  <1>1. ASSUME NEW p \in PlacedOf(s) PROVE s[p] \in Message(n)
    <2>1. p \in 1 .. Len(s)
      BY DEF PlacedOf
    <2> QED
      BY <2>1, ElementOfSeq
  <1> QED
    BY <1>1, EndsAtLast

LEMMA ChainGrows ==
  ASSUME NEW n \in Nat, NEW s \in Seq(Message(n)), NEW K \in Int, NEW L \in Int, K <= L, Chain(s, K)
  PROVE  Chain(s, L)
  <1>1. \A p \in PlacedOf(s) : EndsAt(s[p]) \in 0 .. n /\ EndsAt(s[p]) < K
    BY ChainMembers DEF Chain
  <1>2. \A p \in PlacedOf(s) : EndsAt(s[p]) < L
    BY <1>1
  <1> QED
    BY <1>2 DEF Chain

LEMMA ChainPrefix ==
  ASSUME NEW M, NEW s \in Seq(M), NEW t \in Seq(M), NEW limit, Chain(s \o t, limit)
  PROVE  Chain(s, limit)
  <1> DEFINE u == s \o t
  <1>1. Len(s) \in Nat /\ Len(t) \in Nat
    BY LenProperties
  <1>2. /\ Len(u) = Len(s) + Len(t)
        /\ \A i \in 1 .. Len(s) + Len(t) : u[i] = IF i <= Len(s) THEN s[i] ELSE t[i - Len(s)]
    BY ConcatProperties
  <1> HIDE DEF u
  <1>3. \A i \in 1 .. Len(s) : i \in 1 .. Len(u) /\ u[i] = s[i]
    BY <1>1, <1>2
  <1>4. \A p \in PlacedOf(s) : p \in PlacedOf(u) /\ u[p] = s[p]
    BY <1>3 DEF PlacedOf
  <1> QED
    BY <1>4 DEF Chain, u

LEMMA ChainAppend ==
  ASSUME NEW n \in Nat, NEW s \in Seq(Message(n)), NEW m \in Message(n),
         NEW K \in Int, NEW L \in Int, K <= L, Chain(s, K),
         m.type # "sysex7" \/ m.data # <<>> => K <= BeginsAt(m) /\ BeginsAt(m) \in Int /\ EndsAt(m) < L
  PROVE  Chain(Append(s, m), L)
  <1> DEFINE u == Append(s, m)
             k == Len(s) + 1
  <1>1. /\ Len(s) \in Nat /\ Len(u) = k /\ u[k] = m
        /\ \A i \in 1 .. Len(s) : u[i] = s[i]
    BY AppendProperties, LenProperties
  <1> HIDE DEF u
  <1>2. ASSUME NEW p \in PlacedOf(u)
        PROVE  \/ p \in PlacedOf(s) /\ u[p] = s[p] /\ p < k
               \/ p = k /\ u[p] = m /\ (m.type # "sysex7" \/ m.data # <<>>)
    <2>1. p \in 1 .. k /\ (u[p].type # "sysex7" \/ u[p].data # <<>>)
      BY <1>1 DEF PlacedOf
    <2>2. CASE p = k
      BY <1>1, <2>1, <2>2
    <2>3. CASE p # k
      <3>1. p \in 1 .. Len(s) /\ p < k
        BY <1>1, <2>1, <2>3
      <3>2. u[p] = s[p]
        BY <1>1, <3>1
      <3>3. p \in PlacedOf(s)
        BY <2>1, <3>1, <3>2 DEF PlacedOf
      <3> QED
        BY <3>1, <3>2, <3>3
    <2> QED
      BY <2>2, <2>3
  <1>3. \A p \in PlacedOf(s) : EndsAt(s[p]) \in 0 .. n /\ EndsAt(s[p]) < K
    BY ChainMembers DEF Chain
  <1>4. ASSUME NEW p \in PlacedOf(u) PROVE EndsAt(u[p]) < L
    BY <1>2, <1>3
  <1>5. ASSUME NEW p \in PlacedOf(u), NEW q \in PlacedOf(u), p < q
        PROVE  EndsAt(u[p]) < BeginsAt(u[q])
    <2>1. p \in PlacedOf(s) /\ u[p] = s[p]
      <3>1. p \in 1 .. k /\ q \in 1 .. k
        BY <1>1 DEF PlacedOf
      <3>2. p # k
        BY <1>1, <1>5, <3>1
      <3> QED
        BY <1>2, <3>2
    <2>2. CASE q \in PlacedOf(s) /\ u[q] = s[q]
      BY <1>5, <2>1, <2>2 DEF Chain
    <2>3. CASE q = k /\ u[q] = m /\ (m.type # "sysex7" \/ m.data # <<>>)
      <3>1. EndsAt(s[p]) \in 0 .. n /\ EndsAt(s[p]) < K
        BY <1>3, <2>1
      <3>2. K <= BeginsAt(m) /\ BeginsAt(m) \in Int
        BY <2>3
      <3>3. EndsAt(s[p]) < BeginsAt(m)
        BY <3>1, <3>2
      <3> QED
        BY <2>1, <2>3, <3>3
    <2> QED
      BY <1>2, <2>2, <2>3
  <1> QED
    BY <1>4, <1>5 DEF Chain, u

(* Whatever the next byte completes ends at that byte.                     *)
LEMMA WordEndsHere ==
  ASSUME TypeInv, NEW b \in Bytes, NEW word, Says(b, Len(bytes) + 1, word)
  PROVE  word = <<>> \/ \E m \in Message(Len(bytes) + 1) :
           word = <<m>> /\ m.type # "sysex7" /\ EndsAt(m) = Len(bytes) + 1
  <1> DEFINE i == Len(bytes) + 1
  <1>1. /\ Len(bytes) \in Nat /\ i \in Nat /\ running_status \in 0 .. Len(bytes)
        /\ data \in [1 .. 2 -> 0 .. Len(bytes)]
        /\ data_pos \in 0 .. 1 /\ data_byte_count \in 0 .. 2 /\ StatusInv
    BY LenProperties DEF TypeInv, TypeOK
  <1>2. CASE word = <<System(i, <<>>)>>
    <2> DEFINE m == System(i, <<>>)
    <2>1. m \in Message(i)
      <3>1. i \in 1 .. i
        BY <1>1
      <3>2. m \in Single(i)
        BY <3>1 DEF Single
      <3> QED
        BY <1>1, <3>2, LongerStream
    <2>2. m.type = "system" /\ m.status = i /\ m.data = <<>>
      BY DEF System
    <2> HIDE DEF m
    <2>3. EndsAt(m) \in 0 .. i /\ i <= EndsAt(m)
      BY <1>1, <2>1, <2>2, EndsAtLast
    <2>4. EndsAt(m) = i
      BY <1>1, <2>3
    <2> QED
      BY <1>2, <2>1, <2>2, <2>4 DEF m
  <1>3. CASE running_status # 0 /\ word = <<ChannelMsg(Held(i))>>
    <2> DEFINE d == Held(i)
               m == ChannelMsg(d)
    <2>1. m \in Message(i) /\ m.type # "sysex7" /\ d \in [1 .. 2 -> 0 .. i]
      BY <1>1, <1>3, ChannelMsgType
    <2>2. d[data_pos + 1] = i /\ data_pos + 1 \in 1 .. data_byte_count /\ data_byte_count \in 1 .. 2
      <3>1. data_pos + 1 \in 1 .. 2
        BY <1>1
      <3>2. d[data_pos + 1] = i
        BY <1>1, <3>1 DEF Held
      <3>3. data_pos < data_byte_count
        BY <1>1, <1>3 DEF StatusInv
      <3> QED
        BY <1>1, <3>2, <3>3
    <2>3. m = VoiceMsg(running_status, d) \/ m = System(running_status, SubSeq(d, 1, data_byte_count))
      BY DEF ChannelMsg
    <2> HIDE DEF d, m
    <2>4. d \in Seq(0 .. i) /\ Len(d) = 2
      <3>1. Seq(0 .. i) = UNION {[1 .. k -> 0 .. i] : k \in Nat} /\ 2 \in Nat
        BY SeqDef
      <3>2. d \in Seq(0 .. i)
        BY <2>1, <3>1, Zenon
      <3>3. DOMAIN d = 1 .. 2 /\ DOMAIN d = 1 .. Len(d) /\ Len(d) \in Nat
        BY <2>1, <3>2, LenProperties
      <3> QED
        BY <3>2, <3>3
    <2>5. \E x \in 1 .. Len(m.data) : m.data[x] = i
      <3>1. CASE m = VoiceMsg(running_status, d)
        <4>1. m.data = d
          BY <3>1 DEF VoiceMsg
        <4>2. data_pos + 1 \in 1 .. 2
          BY <1>1
        <4> QED
          BY <2>2, <2>4, <4>1, <4>2
      <3>2. CASE m = System(running_status, SubSeq(d, 1, data_byte_count))
        <4> DEFINE e == SubSeq(d, 1, data_byte_count)
        <4>1. m.data = e
          BY <3>2 DEF System
        <4>2. /\ Len(e) = IF 1 <= data_byte_count THEN data_byte_count - 1 + 1 ELSE 0
              /\ \A x \in 1 .. data_byte_count - 1 + 1 : e[x] = d[1 + x - 1]
          <5>1. \A x \in 1 .. data_byte_count : d[x] \in 0 .. i
            BY <2>1, <2>2
          <5>2. data_byte_count \in Int /\ 1 \in Int
            BY <1>1
          <5> QED
            BY <5>1, <5>2, SubSeqProperties
        <4> HIDE DEF e
        <4>3. data_byte_count - 1 + 1 = data_byte_count /\ 1 <= data_byte_count
          BY <2>2
        <4>4. Len(e) = data_byte_count
          BY <4>2, <4>3
        <4>5. data_pos + 1 \in 1 .. data_byte_count - 1 + 1 /\ 1 + (data_pos + 1) - 1 = data_pos + 1
          BY <1>1, <2>2, <4>3
        <4>6. e[data_pos + 1] = i
          BY <2>2, <4>2, <4>5
        <4> QED
          BY <2>2, <4>1, <4>4, <4>6
      <3> QED
        BY <2>3, <3>1, <3>2
    <2>6. EndsAt(m) \in 0 .. i /\ i <= EndsAt(m)
      BY <1>1, <2>1, <2>5, EndsAtLast
    <2>7. EndsAt(m) = i
      BY <1>1, <2>6
    <2> QED
      BY <1>3, <2>1, <2>7 DEF m, d
  <1> QED
    BY <1>2, <1>3 DEF Says

(* Where the earliest byte not yet handed over stands, or the next one.    *)
Front == IF sysex_buf = <<>> THEN Len(bytes) + 1 ELSE sysex_buf[1]

Ordered == Chain(Said, Front) /\ Ascending(sysex_buf)

LEMMA SaidType ==
  ASSUME TypeInv
  PROVE  /\ Len(bytes) \in Nat /\ out \in Seq(Message(Len(bytes)))
         /\ pending \in Seq(Message(Len(bytes))) /\ Said \in Seq(Message(Len(bytes)))
  <1>1. /\ Len(bytes) \in Nat /\ out \in Seq(Message(Len(bytes))) /\ pending \in Seq(Single(Len(bytes)))
    BY LenProperties DEF TypeInv, TypeOK
  <1>2. pending \in Seq(Message(Len(bytes)))
    BY <1>1, LongerStream, SeqMonotonic
  <1> QED
    BY <1>1, <1>2, ConcatProperties DEF Said

LEMMA FrontType ==
  ASSUME TypeInv
  PROVE  /\ Len(bytes) \in Nat /\ Front \in 1 .. Len(bytes) + 1
         /\ sysex_buf # <<>> => Front \in 1 .. Len(bytes) /\ Front = sysex_buf[1] /\ 1 \in 1 .. Len(sysex_buf)
         /\ \A x \in 1 .. Len(sysex_buf) : sysex_buf[x] \in 1 .. Len(bytes)
  <1>1. Len(bytes) \in Nat /\ sysex_buf \in Seq(1 .. Len(bytes)) /\ Len(sysex_buf) \in Nat
    BY LenProperties DEF TypeInv, TypeOK
  <1>2. \A x \in 1 .. Len(sysex_buf) : sysex_buf[x] \in 1 .. Len(bytes)
    BY <1>1, ElementOfSeq
  <1>3. sysex_buf # <<>> => 1 \in 1 .. Len(sysex_buf)
    <2>1. sysex_buf # <<>> => Len(sysex_buf) # 0
      BY <1>1, EmptySeq
    <2> QED
      BY <1>1, <2>1
  <1> QED
    BY <1>1, <1>2, <1>3 DEF Front

(* Said after a Feed: what the caller did not drain is gone.               *)
LEMMA FeedSaid ==
  ASSUME TypeInv, NEW b \in Bytes, Feed(b)
  PROVE  \E first, word :
           /\ Turn(b, Len(bytes) + 1, first) /\ Says(b, Len(bytes) + 1, word)
           /\ Said' = (out \o first) \o word
           /\ out' \o <<>> = out'
  <1> DEFINE i == Len(bytes) + 1
  <1>1. PICK first, word :
           /\ Turn(b, i, first) /\ Says(b, i, word)
           /\ \/ out' = (out \o first) \o word /\ pending' = <<>>
              \/ out' = out \o first /\ pending' = word /\ word = <<System(i, <<>>)>>
    BY FeedSays
  <1>2. Said' = out' \o pending'
    BY DEF Said
  <1>3. i \in Nat
    BY SaidType
  <1>4. out' \in Seq(Message(i))
    BY <1>3, OutType
  <1>5. out' \o <<>> = out'
    BY <1>4, ConcatEmptySeq
  <1>6. Said' = (out \o first) \o word
    BY <1>1, <1>2, <1>5
  <1> QED
    BY <1>1, <1>5, <1>6

(* What a packet adds to the order.                                        *)
LEMMA PacketPlace ==
  ASSUME NEW n \in Nat, NEW bs \in Seq(1 .. n), bs # <<>>, NEW is_end \in BOOLEAN
  PROVE  /\ BeginsAt(Packet(bs, is_end)) = bs[1] /\ bs[1] \in 1 .. n
         /\ EndsAt(Packet(bs, is_end)) <= n
  <1> DEFINE m == Packet(bs, is_end)
  <1>1. m \in Message(n) /\ m.type = "sysex7" /\ m.data = bs
    BY PacketType DEF Packet, Sysex7
  <1>2. BeginsAt(m) = bs[1]
    BY <1>1 DEF BeginsAt
  <1>3. 1 \in 1 .. Len(bs)
    <2>1. Len(bs) \in Nat /\ Len(bs) # 0
      BY LenProperties, EmptySeq
    <2> QED
      BY <2>1
  <1>4. bs[1] \in 1 .. n
    BY <1>3, ElementOfSeq
  <1> HIDE DEF m
  <1>5. EndsAt(m) \in 0 .. n
    BY <1>1, EndsAtLast
  <1> QED
    BY <1>2, <1>4, <1>5 DEF m

LEMMA FirstInOrder ==
  ASSUME TypeInv, NEW i \in Nat, i = Len(bytes) + 1, NEW b \in Bytes, NEW first, Turn(b, i, first),
         Chain(out, Front)
  PROVE  /\ Chain(out \o first, IF b = "data" THEN i + 1 ELSE i) \/ sysex_buf' = Append(sysex_buf, i)
         /\ out \o first \in Seq(Message(i))
  <1>1. /\ Len(bytes) \in Nat /\ out \in Seq(Message(Len(bytes))) /\ sysex_buf \in Seq(1 .. Len(bytes))
    BY LenProperties DEF TypeInv, TypeOK
  <1>2. out \in Seq(Message(i))
    BY <1>1, LongerStream, SeqMonotonic
  <1>3. Front \in 1 .. i /\ (sysex_buf = <<>> => Front = i)
    BY FrontType DEF Front
  <1>4. Chain(out, i) /\ Chain(out, i + 1)
    <2>1. Front \in Int /\ i \in Int /\ i + 1 \in Int /\ Front <= i /\ Front <= i + 1
      BY <1>3
    <2> QED
      BY <1>2, <2>1, ChainGrows
  <1>5. CASE first = <<>>
    <2>1. out \o first = out
      BY <1>2, <1>5, ConcatEmptySeq
    <2> QED
      BY <1>2, <1>4, <2>1
  <1>6. ASSUME NEW m \in Message(i), first = <<m>>
        PROVE  out \o first = Append(out, m) /\ Append(out, m) \in Seq(Message(i))
    BY <1>2, <1>6, AppendIsConcat, AppendProperties
  <1>7. CASE \E is_end \in BOOLEAN : first = <<Packet(sysex_buf, is_end)>> /\ b # "data"
    <2>1. PICK is_end \in BOOLEAN : first = <<Packet(sysex_buf, is_end)>>
      BY <1>7
    <2> DEFINE m == Packet(sysex_buf, is_end)
    <2>2. m \in Message(Len(bytes)) /\ m.type = "sysex7" /\ m.data = sysex_buf
      BY <1>1, PacketType DEF Packet, Sysex7
    <2>3. m \in Message(i)
      BY <1>1, <2>2, LongerStream
    <2>4. m.data # <<>> => Front <= BeginsAt(m) /\ BeginsAt(m) \in Int /\ EndsAt(m) < i
      <3> SUFFICES ASSUME sysex_buf # <<>>
                   PROVE  Front <= BeginsAt(m) /\ BeginsAt(m) \in Int /\ EndsAt(m) < i
        BY <2>2
      <3>1. BeginsAt(m) = sysex_buf[1] /\ sysex_buf[1] \in 1 .. Len(bytes) /\ EndsAt(m) <= Len(bytes)
        BY <1>1, PacketPlace
      <3>2. Front = sysex_buf[1]
        BY DEF Front
      <3>3. EndsAt(m) \in 0 .. Len(bytes)
        BY <1>1, <2>2, EndsAtLast
      <3> QED
        BY <1>1, <3>1, <3>2, <3>3
    <2> HIDE DEF m
    <2>5. Chain(Append(out, m), i)
      <3>1. Front \in Int /\ i \in Int /\ Front <= i
        BY <1>3
      <3> QED
        BY <1>2, <2>2, <2>3, <2>4, <3>1, ChainAppend
    <2> QED
      BY <1>6, <1>7, <2>1, <2>3, <2>5 DEF m
  <1>8. CASE b = "data" /\ first = <<Packet(Append(sysex_buf, i), FALSE)>>
    <2> DEFINE bs == Append(sysex_buf, i)
               m == Packet(bs, FALSE)
    <2>1. bs \in Seq(1 .. i) /\ bs # <<>> /\ bs[1] = Front
      <3>1. 1 .. Len(bytes) \subseteq 1 .. i /\ i \in 1 .. i
        BY <1>1
      <3>2. sysex_buf \in Seq(1 .. i)
        BY <1>1, <3>1, SeqMonotonic
      <3>3. /\ bs \in Seq(1 .. i) /\ Len(bs) = Len(sysex_buf) + 1 /\ Len(sysex_buf) \in Nat
            /\ \A x \in 1 .. Len(sysex_buf) : bs[x] = sysex_buf[x]
            /\ bs[Len(sysex_buf) + 1] = i
        BY <3>1, <3>2, AppendProperties, LenProperties
      <3>4. bs # <<>>
        BY <3>3, EmptySeq
      <3>5. CASE sysex_buf = <<>>
        <4>1. Len(sysex_buf) = 0
          BY <3>5, EmptySeq
        <4>2. bs[1] = i
          BY <3>3, <4>1
        <4> QED
          BY <1>3, <3>3, <3>4, <3>5, <4>2
      <3>6. CASE sysex_buf # <<>>
        BY <3>3, <3>4, <3>6, FrontType
      <3> QED
        BY <3>5, <3>6
    <2>2. m \in Message(i) /\ m.type = "sysex7"
      BY <2>1, PacketType DEF Packet, Sysex7
    <2>3. BeginsAt(m) = Front /\ EndsAt(m) <= i /\ EndsAt(m) \in 0 .. i
      BY <2>1, <2>2, PacketPlace, EndsAtLast
    <2> HIDE DEF bs, m
    <2>4. Chain(Append(out, m), i + 1)
      <3>1. Front \in Int /\ i + 1 \in Int /\ Front <= i + 1 /\ EndsAt(m) < i + 1 /\ Front <= BeginsAt(m)
        BY <1>3, <2>3
      <3> QED
        BY <1>2, <2>2, <2>3, <3>1, ChainAppend
    <2> QED
      BY <1>6, <1>8, <2>2, <2>4 DEF m, bs
  <1> QED
    BY <1>5, <1>7, <1>8 DEF Turn

LEMMA AscendingAppend ==
  ASSUME TypeInv, Ascending(sysex_buf), NEW i \in Nat, i = Len(bytes) + 1
  PROVE  Ascending(Append(sysex_buf, i))
  <1> DEFINE k == Len(sysex_buf)
             s == Append(sysex_buf, i)
  <1>1. /\ Len(bytes) \in Nat /\ sysex_buf \in Seq(1 .. Len(bytes)) /\ k \in Nat
        /\ \A x \in 1 .. k : sysex_buf[x] \in 1 .. Len(bytes)
    BY FrontType, LenProperties DEF TypeInv, TypeOK
  <1>2. /\ Len(s) = k + 1 /\ s[k + 1] = i /\ \A x \in 1 .. k : s[x] = sysex_buf[x]
    <2>1. 1 .. Len(bytes) \subseteq 1 .. i /\ i \in 1 .. i
      BY <1>1
    <2>2. sysex_buf \in Seq(1 .. i)
      BY <1>1, <2>1, SeqMonotonic
    <2> QED
      BY <2>1, <2>2, AppendProperties
  <1> HIDE DEF s
  <1>3. ASSUME NEW x \in 1 .. Len(s), NEW y \in 1 .. Len(s), x < y
        PROVE  s[x] < s[y]
    <2>1. x \in 1 .. k /\ s[x] = sysex_buf[x] /\ sysex_buf[x] \in 1 .. Len(bytes)
      BY <1>1, <1>2, <1>3
    <2>2. CASE y = k + 1
      BY <1>1, <1>2, <2>1, <2>2
    <2>3. CASE y # k + 1
      <3>1. y \in 1 .. k
        BY <1>1, <1>2, <2>3
      <3>2. s[y] = sysex_buf[y] /\ sysex_buf[x] < sysex_buf[y]
        BY <1>2, <1>3, <2>1, <3>1 DEF Ascending
      <3> QED
        BY <2>1, <3>2
    <2> QED
      BY <2>2, <2>3
  <1> QED
    BY <1>3 DEF Ascending, s

LEMMA OrderFeed ==
  ASSUME TypeInv, Ordered, NEW b \in Bytes, Feed(b)
  PROVE  Ordered'
  <1> DEFINE i == Len(bytes) + 1
  <1>1. PICK first, word :
           Turn(b, i, first) /\ Says(b, i, word) /\ Said' = (out \o first) \o word
    BY FeedSaid
  <1>2. /\ Len(bytes) \in Nat /\ i \in Nat /\ bytes \in Seq(Bytes)
    BY SaidType DEF TypeInv, TypeOK
  <1>3. Len(bytes') = i
    BY <1>2, FeedMoves, OneMoreByte
  <1>4. Chain(out, Front)
    BY SaidType, ChainPrefix DEF Ordered, Said
  <1> DEFINE s == out \o first
  <1>5. /\ Chain(s, IF b = "data" THEN i + 1 ELSE i) \/ sysex_buf' = Append(sysex_buf, i)
        /\ s \in Seq(Message(i))
    BY <1>1, <1>2, <1>4, FirstInOrder
  <1>6. CASE sysex_buf' = <<>>
    <2>1. Front' = i + 1 /\ Ascending(sysex_buf')
      <3>1. Len(<<>>) = 0 /\ Len(sysex_buf') = 0
        BY <1>6, EmptySeq
      <3>2. \A x, y \in 1 .. 0 : x < y => sysex_buf'[x] < sysex_buf'[y]
        OBVIOUS
      <3>3. Ascending(sysex_buf')
        BY <3>1, <3>2 DEF Ascending
      <3> QED
        BY <1>3, <1>6, <3>3 DEF Front
    <2>2. Append(sysex_buf, i) # <<>>
      <3>1. sysex_buf \in Seq(1 .. Len(bytes)) /\ 1 .. Len(bytes) \subseteq 1 .. i /\ i \in 1 .. i
        BY <1>2 DEF TypeInv, TypeOK
      <3>2. sysex_buf \in Seq(1 .. i)
        BY <3>1, SeqMonotonic
      <3> QED
        BY <3>1, <3>2, AppendProperties
    <2>3. Chain(s, IF b = "data" THEN i + 1 ELSE i)
      BY <1>5, <1>6, <2>2
    <2> HIDE DEF s, i
    <2>4. CASE word = <<>>
      <3>1. s \o word = s
        BY <1>5, <2>4, ConcatEmptySeq
      <3>2. Chain(s, i + 1)
        <4>1. i \in Int /\ i + 1 \in Int /\ i <= i + 1
          BY <1>2
        <4> QED
          BY <1>2, <1>5, <2>3, <4>1, ChainGrows
      <3> QED
        BY <1>1, <2>1, <3>1, <3>2 DEF Ordered, s
    <2>5. CASE word # <<>>
      <3>1. PICK m \in Message(i) : word = <<m>> /\ m.type # "sysex7" /\ EndsAt(m) = i
        BY <1>1, <2>5, WordEndsHere DEF i
      <3>2. Chain(s, i)
        <4>1. CASE b = "data"
          <5>1. ~ in_sysex
            BY <1>1, <2>5, <4>1 DEF Says
          <5>2. first = <<>>
            BY <1>1, <4>1, <5>1 DEF Turn
          <5>3. out \in Seq(Message(Len(bytes))) /\ s = out
            BY <5>2, SaidType, ConcatEmptySeq DEF s
          <5>4. Front \in Int /\ i \in Int /\ Front <= i
            BY <1>2, FrontType DEF i
          <5> QED
            BY <1>2, <1>4, <5>3, <5>4, ChainGrows
        <4> QED
          BY <2>3, <4>1
      <3>3. m.type # "sysex7" \/ m.data # <<>> => i <= BeginsAt(m) /\ BeginsAt(m) \in Int /\ EndsAt(m) < i + 1
        <4>1. BeginsAt(m) = i
          BY <3>1 DEF BeginsAt
        <4> QED
          BY <1>2, <3>1, <4>1
      <3>4. s \o word = Append(s, m)
        BY <1>5, <3>1, AppendIsConcat
      <3>5. Chain(Append(s, m), i + 1)
        <4>1. i \in Int /\ i + 1 \in Int /\ i <= i + 1
          BY <1>2
        <4> QED
          BY <1>2, <1>5, <3>1, <3>2, <3>3, <4>1, ChainAppend
      <3> QED
        BY <1>1, <2>1, <3>4, <3>5 DEF Ordered, s
    <2> QED
      BY <2>4, <2>5
  <1>7. CASE sysex_buf' # <<>>
    <2>1. b = "data" /\ in_sysex /\ first = <<>> /\ sysex_buf' = Append(sysex_buf, i)
      <3>1. SysexInv
        BY DEF TypeInv
      <3> QED
        BY <1>1, <1>7, <3>1 DEF Turn, sysexVars, SysexInv
    <2>2. word = <<>>
      BY <1>1, <2>1 DEF Says
    <2>3. Said' = out
      <3>1. out \in Seq(Message(Len(bytes)))
        BY SaidType
      <3> QED
        BY <1>1, <2>1, <2>2, <3>1, ConcatEmptySeq
    <2>4. Front' = Front
      <3>1. /\ Len(sysex_buf) \in Nat /\ \A x \in 1 .. Len(sysex_buf) : sysex_buf'[x] = sysex_buf[x]
            /\ sysex_buf'[Len(sysex_buf) + 1] = i
        <4>1. sysex_buf \in Seq(1 .. Len(bytes)) /\ 1 .. Len(bytes) \subseteq 1 .. i /\ i \in 1 .. i
          BY <1>2 DEF TypeInv, TypeOK
        <4>2. sysex_buf \in Seq(1 .. i)
          BY <4>1, SeqMonotonic
        <4> QED
          BY <2>1, <4>1, <4>2, AppendProperties, LenProperties
      <3>2. Front' = sysex_buf'[1]
        BY <1>7 DEF Front
      <3>3. CASE sysex_buf = <<>>
        <4>1. Len(sysex_buf) = 0
          BY <3>3, EmptySeq
        <4> QED
          BY <3>1, <3>2, <3>3, <4>1 DEF Front
      <3>4. CASE sysex_buf # <<>>
        BY <3>1, <3>2, <3>4, FrontType
      <3> QED
        BY <3>3, <3>4
    <2>5. Ascending(sysex_buf')
      BY <1>2, <2>1, AscendingAppend DEF Ordered
    <2> QED
      BY <1>4, <2>3, <2>4, <2>5 DEF Ordered
  <1> QED
    BY <1>6, <1>7

LEMMA DrainSaid ==
  ASSUME TypeInv, DrainPending
  PROVE  Said' = Said /\ UNCHANGED <<statusVars, sysexVars, bytes, dropped>>
  <1>1. out' = Said /\ pending' = <<>>
    BY DEF DrainPending, Said
  <1>2. Said \o <<>> = Said
    BY SaidType, ConcatEmptySeq
  <1> QED
    BY <1>1, <1>2 DEF DrainPending, Said

LEMMA OrderStep ==
  ASSUME TypeInv, Ordered, [Next]_vars
  PROVE  Ordered'
  <1>1. CASE DrainPending
    BY <1>1, DrainSaid DEF Ordered, Front, sysexVars
  <1>2. CASE UNCHANGED vars
    BY <1>2 DEF Ordered, Front, Said, vars, sysexVars
  <1> QED
    BY <1>1, <1>2, OrderFeed DEF Next

LEMMA OrderInit == Init => Ordered
  <1> SUFFICES ASSUME Init PROVE Ordered
    OBVIOUS
  <1>1. out = <<>> /\ pending = <<>> /\ sysex_buf = <<>>
    BY DEF Init
  <1>2. Said = <<>> /\ Len(<<>>) = 0
    BY <1>1, EmptySeq, ConcatEmptySeq DEF Said
  <1>3. PlacedOf(Said) = {}
    BY <1>2 DEF PlacedOf
  <1> QED
    BY <1>1, <1>2, <1>3 DEF Ordered, Chain, Ascending

LEMMA OrderInvariant == Spec => [](TypeInv /\ Ordered)
  <1>1. Init => Ordered
    BY OrderInit
  <1>2. TypeInv /\ Ordered /\ [Next]_vars => Ordered'
    BY OrderStep
  <1> QED
    BY <1>1, <1>2, TypeInvariant, PTL DEF Spec

(* Every message keeps its position on the wire: a SysEx packet that waits *)
(* for more bytes lets no later message overtake it, for any stream, any   *)
(* packet size and any caller (midi2_conv_feed_inner).                     *)
THEOREM WireOrder == Spec => []WireOrderKept
  <1>1. Ordered => WireOrderKept
    BY DEF Ordered, Chain, WireOrderKept, Placed, PlacedOf
  <1> QED
    BY <1>1, OrderInvariant, PTL

-----------------------------------------------------------------------------
(* The bytes of a SysEx. *)

PacketsOf(s) == {p \in 1 .. Len(s) : s[p].type = "sysex7"}

LEMMA PacketsWithin ==
  ASSUME NEW M, NEW s \in Seq(M), NEW t \in Seq(M), \A x \in 1 .. Len(t) : t[x].type # "sysex7"
  PROVE  PacketsOf(s \o t) = PacketsOf(s) /\ \A p \in PacketsOf(s) : (s \o t)[p] = s[p]
  <1> DEFINE u == s \o t
  <1>1. Len(s) \in Nat /\ Len(t) \in Nat
    BY LenProperties
  <1>2. /\ Len(u) = Len(s) + Len(t)
        /\ \A x \in 1 .. Len(s) + Len(t) : u[x] = IF x <= Len(s) THEN s[x] ELSE t[x - Len(s)]
    BY ConcatProperties
  <1> HIDE DEF u
  <1>3. \A x \in 1 .. Len(s) : x \in 1 .. Len(u) /\ u[x] = s[x]
    BY <1>1, <1>2
  <1>4. ASSUME NEW x \in 1 .. Len(u), u[x].type = "sysex7" PROVE x \in 1 .. Len(s)
    <2> SUFFICES ASSUME ~ (x <= Len(s)) PROVE FALSE
      BY <1>1, <1>2
    <2>1. x - Len(s) \in 1 .. Len(t) /\ u[x] = t[x - Len(s)]
      BY <1>1, <1>2
    <2> QED
      BY <1>4, <2>1
  <1> QED
    BY <1>3, <1>4 DEF PacketsOf, u

(* What waits is never a packet: the packets are the ones handed over.     *)
LEMMA PacketsAreOut ==
  ASSUME TypeInv
  PROVE  Packets = PacketsOf(out) /\ \A p \in PacketsOf(out) : Said[p] = out[p]
  <1>1. \A x \in 1 .. Len(pending) : pending[x].type # "sysex7"
    <2>1. pending \in Seq(Single(Len(bytes)))
      BY DEF TypeInv
    <2>2. \A m \in Single(Len(bytes)) : m.type # "sysex7"
      BY DEF Single, System
    <2> QED
      BY <2>1, <2>2, ElementOfSeq
  <1>2. PacketsOf(out \o pending) = PacketsOf(out) /\ \A p \in PacketsOf(out) : (out \o pending)[p] = out[p]
    BY <1>1, SaidType, PacketsWithin
  <1> QED
    BY <1>2 DEF Packets, PacketsOf, Said

Sent(first) ==
  /\ \A p \in PacketsOf(out) : out'[p] = out[p]
  /\ \/ first = <<>> /\ PacketsOf(out') = PacketsOf(out)
     \/ \E m : /\ first = <<m>> /\ PacketsOf(out') = PacketsOf(out) \union {Len(out) + 1}
               /\ out'[Len(out) + 1] = m

LEMMA FirstIsPacket ==
  ASSUME NEW b, NEW i, NEW first, Turn(b, i, first)
  PROVE  first = <<>> \/ \E m : first = <<m>> /\ m.type = "sysex7"
  <1>1. \A bs, e : Packet(bs, e).type = "sysex7"
    BY DEF Packet, Sysex7
  <1> QED
    BY <1>1 DEF Turn

(* A Feed adds at most one packet, at the end.                             *)
LEMMA FeedPackets ==
  ASSUME TypeInv, NEW b \in Bytes, Feed(b)
  PROVE  \E first : Turn(b, Len(bytes) + 1, first) /\ Sent(first)
  <1> DEFINE i == Len(bytes) + 1
             M == Message(i)
  <1>1. PICK first, word :
           /\ Turn(b, i, first) /\ Says(b, i, word)
           /\ \/ out' = (out \o first) \o word /\ pending' = <<>>
              \/ out' = out \o first /\ pending' = word /\ word = <<System(i, <<>>)>>
    BY FeedSays
  <1>2. Len(bytes) \in Nat /\ i \in Nat /\ out \in Seq(Message(Len(bytes)))
    BY SaidType
  <1>3. out \in Seq(M)
    BY <1>2, LongerStream, SeqMonotonic
  <1>4. first = <<>> \/ \E m \in M : first = <<m>>
    BY <1>1, <1>2, FirstType
  <1>5. word = <<>> \/ \E m \in M : word = <<m>> /\ m.type # "sysex7"
    BY <1>1, <1>2, WordType
  <1> HIDE DEF M
  <1>6. first \in Seq(M) /\ word \in Seq(M) /\ \A x \in 1 .. Len(word) : word[x].type # "sysex7"
    <2>1. <<>> \in Seq(M) /\ Len(<<>>) = 0 /\ \A m \in M : <<m>> \in Seq(M) /\ Len(<<m>>) = 1 /\ <<m>>[1] = m
      BY EmptySeq
    <2>2. first \in Seq(M) /\ word \in Seq(M)
      BY <1>4, <1>5, <2>1
    <2>3. CASE word = <<>>
      BY <2>1, <2>2, <2>3
    <2>4. ASSUME NEW m \in M, word = <<m>>, m.type # "sysex7"
          PROVE  \A x \in 1 .. Len(word) : word[x].type # "sysex7"
      BY <2>4
    <2> QED
      BY <1>5, <2>2, <2>3, <2>4
  <1> DEFINE s == out \o first
  <1>7. s \in Seq(M)
    BY <1>3, <1>6, ConcatProperties
  <1>8. PacketsOf(out') = PacketsOf(s) /\ \A p \in PacketsOf(s) : out'[p] = s[p]
    <2> HIDE DEF s
    <2>1. CASE out' = s
      BY <2>1
    <2>2. CASE out' = s \o word
      BY <1>6, <1>7, <2>2, PacketsWithin
    <2> QED
      BY <1>1, <2>1, <2>2 DEF s
  <1>9. Sent(first)
    <2>1. CASE first = <<>>
      <3>1. s = out
        BY <1>3, <2>1, ConcatEmptySeq
      <3> QED
        BY <1>8, <2>1, <3>1 DEF Sent
    <2>2. CASE first # <<>>
      <3>1. PICK m \in M : first = <<m>> /\ m.type = "sysex7"
        BY <1>1, <1>4, <2>2, FirstIsPacket
      <3> DEFINE k == Len(out) + 1
      <3>2. /\ s = Append(out, m) /\ Len(s) = k /\ s[k] = m /\ Len(out) \in Nat
            /\ \A x \in 1 .. Len(out) : s[x] = out[x]
        BY <1>3, <3>1, AppendIsConcat, AppendProperties, LenProperties
      <3> HIDE DEF s
      <3>3. 1 .. k = 1 .. Len(out) \union {k} /\ k \notin 1 .. Len(out)
        BY <3>2
      <3>4. PacketsOf(s) = PacketsOf(out) \union {k} /\ \A p \in PacketsOf(out) : s[p] = out[p]
        BY <3>1, <3>2, <3>3 DEF PacketsOf
      <3> QED
        BY <1>8, <3>1, <3>2, <3>4 DEF Sent
    <2> QED
      BY <2>1, <2>2
  <1> QED
    BY <1>1, <1>9

LEMMA DrainPackets ==
  ASSUME TypeInv, DrainPending
  PROVE  PacketsOf(out') = PacketsOf(out) /\ \A p \in PacketsOf(out) : out'[p] = out[p]
  <1>1. out' = Said
    BY DEF DrainPending, Said
  <1>2. Packets = PacketsOf(Said)
    BY DEF Packets, PacketsOf
  <1> QED
    BY <1>1, <1>2, PacketsAreOut

LEMMA ElemsAppend ==
  /\ Elems(<<>>) = {}
  /\ \A S : \A s \in Seq(S), e \in S : Elems(Append(s, e)) = Elems(s) \union {e}
  <1>1. Elems(<<>>) = {}
    BY EmptySeq DEF Elems
  <1>2. ASSUME NEW S, NEW s \in Seq(S), NEW e \in S
        PROVE  Elems(Append(s, e)) = Elems(s) \union {e}
    <2> DEFINE u == Append(s, e)
               k == Len(s) + 1
    <2>1. /\ Len(u) = k /\ u[k] = e /\ Len(s) \in Nat
          /\ \A x \in 1 .. Len(s) : u[x] = s[x]
      BY AppendProperties, LenProperties
    <2> HIDE DEF u
    <2>2. 1 .. k = 1 .. Len(s) \union {k}
      BY <2>1
    <2> QED
      BY <2>1, <2>2 DEF Elems, u
  <1> QED
    BY <1>1, <1>2

(* The stream is only ever continued: what a place follows stays.          *)
LEMMA StartOfStays ==
  ASSUME bytes \in Seq(Bytes), NEW b \in Bytes, bytes' = Append(bytes, b), NEW i \in Nat, i = Len(bytes) + 1
  PROVE  /\ \A j \in 1 .. i : StartOf(j)' = StartOf(j)
         /\ StartOf(i + 1)' = IF b \in {"data", "realtime"} THEN StartOf(i)
                              ELSE IF b = "F0" THEN {i} ELSE {}
  <1>1. /\ Len(bytes) \in Nat /\ bytes'[i] = b /\ \A j \in 1 .. Len(bytes) : bytes'[j] = bytes[j]
    BY OneMoreByte
  <1>2. ASSUME NEW j \in 1 .. i PROVE StartOf(j)' = StartOf(j)
    <2>1. \A x \in 1 .. j - 1 : bytes'[x] = bytes[x]
      BY <1>1
    <2>2. \A x \in 1 .. j - 1 : \A k \in x + 1 .. j - 1 : bytes'[k] = bytes[k]
      BY <1>1
    <2> QED
      BY <2>1, <2>2 DEF StartOf
  <1>3. StartOf(i + 1)' = {j \in 1 .. i : /\ bytes'[j] = "F0"
                                          /\ \A k \in j + 1 .. i : bytes'[k] \in {"data", "realtime"}}
    <2>1. (i + 1) - 1 = i
      OBVIOUS
    <2> QED
      BY <2>1 DEF StartOf
  <1>4. StartOf(i) = {j \in 1 .. i - 1 : /\ bytes'[j] = "F0"
                                         /\ \A k \in j + 1 .. i - 1 : bytes'[k] \in {"data", "realtime"}}
    <2>1. \A x \in 1 .. i - 1 : bytes'[x] = bytes[x]
      BY <1>1
    <2>2. \A x \in 1 .. i - 1 : \A k \in x + 1 .. i - 1 : bytes'[k] = bytes[k]
      BY <1>1
    <2> QED
      BY <2>1, <2>2 DEF StartOf
  <1>5. CASE b \in {"data", "realtime"}
    <2>1. \A j \in 1 .. i : bytes'[j] = "F0" => j \in 1 .. i - 1
      BY <1>1, <1>5
    <2>2. \A j \in 1 .. i - 1 : (\A k \in j + 1 .. i : bytes'[k] \in {"data", "realtime"})
                             <=> (\A k \in j + 1 .. i - 1 : bytes'[k] \in {"data", "realtime"})
      <3>1. ASSUME NEW j \in 1 .. i - 1, NEW k \in j + 1 .. i
            PROVE  k = i \/ k \in j + 1 .. i - 1
        OBVIOUS
      <3>2. \A j \in 1 .. i - 1 : \A k \in j + 1 .. i - 1 : k \in j + 1 .. i
        OBVIOUS
      <3> QED
        BY <1>1, <1>5, <3>1, <3>2
    <2>3. 1 .. i - 1 \subseteq 1 .. i
      OBVIOUS
    <2>4. StartOf(i + 1)' = StartOf(i)
      <3>1. \A j \in 1 .. i - 1 : j \in StartOf(i) <=> j \in StartOf(i + 1)'
        BY <1>1, <1>3, <1>4, <2>2, <2>3
      <3>2. StartOf(i) \subseteq 1 .. i - 1
        BY <1>4
      <3>3. StartOf(i + 1)' \subseteq 1 .. i - 1
        BY <1>3, <2>1
      <3> QED
        BY <3>1, <3>2, <3>3
    <2> QED
      BY <1>2, <1>5, <2>4
  <1>6. CASE b \notin {"data", "realtime"}
    <2>1. \A j \in 1 .. i - 1 : i \in j + 1 .. i
      OBVIOUS
    <2>2. \A j \in StartOf(i + 1)' : j = i
      BY <1>1, <1>3, <1>6, <2>1
    <2>3. i \in 1 .. i /\ \A k \in i + 1 .. i : FALSE
      BY <1>1
    <2>4. i \in StartOf(i + 1)' <=> b = "F0"
      BY <1>1, <1>3, <2>3
    <2> QED
      BY <1>2, <1>6, <2>2, <2>4
  <1> QED
    BY <1>5, <1>6

DataOf == UNION {Elems(out[p].data) : p \in PacketsOf(out)}

Kept ==
  /\ in_sysex <=> InSysex(Len(bytes) + 1)
  /\ \A p \in PacketsOf(out) : Ascending(out[p].data)
  /\ DataOf \union Elems(sysex_buf) = SysexPlaces

LEMMA PlacesFeed ==
  ASSUME TypeInv, Kept, NEW b \in Bytes, bytes' = Append(bytes, b), NEW i \in Nat, i = Len(bytes) + 1,
         NEW first, Turn(b, i, first)
  PROVE  /\ in_sysex' <=> InSysex(Len(bytes) + 1)'
         /\ SysexPlaces' = SysexPlaces \union (IF b = "data" /\ in_sysex THEN {i} ELSE {})
  <1>1. bytes \in Seq(Bytes) /\ in_sysex \in BOOLEAN
    BY DEF TypeInv, TypeOK
  <1>2. /\ Len(bytes) \in Nat /\ Len(bytes') = i /\ bytes'[i] = b
        /\ \A j \in 1 .. Len(bytes) : bytes'[j] = bytes[j]
    BY <1>1, OneMoreByte
  <1>3. /\ \A j \in 1 .. i : StartOf(j)' = StartOf(j)
        /\ StartOf(i + 1)' = IF b \in {"data", "realtime"} THEN StartOf(i)
                             ELSE IF b = "F0" THEN {i} ELSE {}
    BY <1>1, StartOfStays
  <1>4. in_sysex <=> StartOf(i) # {}
    BY DEF Kept, InSysex
  <1>5. InSysex(Len(bytes) + 1)' <=> StartOf(i + 1)' # {}
    BY <1>2 DEF InSysex
  <1>6. in_sysex' <=> InSysex(Len(bytes) + 1)'
    <2>1. CASE b \notin {"data", "realtime"}
      <3>1. in_sysex' = (b = "F0")
        BY <2>1 DEF Turn
      <3> QED
        BY <1>3, <1>5, <2>1, <3>1
    <2>2. CASE b \in {"data", "realtime"}
      <3>1. in_sysex' = in_sysex
        BY <1>1, <2>2 DEF Turn, sysexVars
      <3> QED
        BY <1>3, <1>4, <1>5, <2>2, <3>1
    <2> QED
      BY <2>1, <2>2
  <1>7. SysexPlaces' = {j \in 1 .. i : bytes'[j] = "data" /\ StartOf(j) # {}}
    <2>1. SysexPlaces' = {j \in 1 .. Len(bytes') : bytes'[j] = "data" /\ StartOf(j)' # {}}
      BY DEF SysexPlaces, Places, InSysex
    <2> QED
      BY <1>2, <1>3, <2>1
  <1>8. SysexPlaces = {j \in 1 .. Len(bytes) : bytes'[j] = "data" /\ StartOf(j) # {}}
    <2>1. SysexPlaces = {j \in 1 .. Len(bytes) : bytes[j] = "data" /\ StartOf(j) # {}}
      BY DEF SysexPlaces, Places, InSysex
    <2> QED
      BY <1>2, <2>1
  <1>9. 1 .. i = 1 .. Len(bytes) \union {i}
    BY <1>2
  <1> QED
    BY <1>2, <1>4, <1>6, <1>7, <1>8, <1>9

LEMMA KeptFeed ==
  ASSUME TypeInv, Ordered, Kept, NEW b \in Bytes, Feed(b)
  PROVE  Kept'
  <1> DEFINE i == Len(bytes) + 1
  <1>1. PICK first : Turn(b, i, first) /\ Sent(first)
    BY FeedPackets
  <1>2. bytes' = Append(bytes, b) /\ i \in Nat /\ Len(bytes) \in Nat /\ sysex_buf \in Seq(1 .. Len(bytes))
    BY FeedMoves, SaidType DEF TypeInv, TypeOK
  <1>3. /\ in_sysex' <=> InSysex(Len(bytes) + 1)'
        /\ SysexPlaces' = SysexPlaces \union (IF b = "data" /\ in_sysex THEN {i} ELSE {})
    BY <1>1, <1>2, PlacesFeed
  <1>4. Elems(Append(sysex_buf, i)) = Elems(sysex_buf) \union {i} /\ Elems(<<>>) = {}
    <2>1. 1 .. Len(bytes) \subseteq 1 .. i /\ i \in 1 .. i
      BY <1>2
    <2>2. sysex_buf \in Seq(1 .. i)
      BY <1>2, <2>1, SeqMonotonic
    <2> QED
      BY <2>1, <2>2, ElemsAppend
  <1>5. Ascending(sysex_buf) /\ Ascending(Append(sysex_buf, i))
    BY <1>2, AscendingAppend DEF Ordered
  <1>6. CASE first = <<>>
    <2>1. PacketsOf(out') = PacketsOf(out) /\ \A p \in PacketsOf(out) : out'[p] = out[p]
      BY <1>1, <1>6 DEF Sent
    <2>2. DataOf' = DataOf /\ \A p \in PacketsOf(out') : Ascending(out'[p].data)
      BY <2>1 DEF DataOf, Kept
    <2>3. Elems(sysex_buf') = Elems(sysex_buf) \union (IF b = "data" /\ in_sysex THEN {i} ELSE {})
      BY <1>1, <1>4, <1>6 DEF Turn, sysexVars
    <2> QED
      BY <1>3, <2>2, <2>3 DEF Kept
  <1>7. CASE first # <<>>
    <2>1. PICK m : first = <<m>> /\ PacketsOf(out') = PacketsOf(out) \union {Len(out) + 1}
                   /\ out'[Len(out) + 1] = m /\ \A p \in PacketsOf(out) : out'[p] = out[p]
      BY <1>1, <1>7 DEF Sent
    <2>2. /\ sysex_buf' = <<>>
          /\ \/ m.data = sysex_buf /\ b # "data"
             \/ m.data = Append(sysex_buf, i) /\ b = "data" /\ in_sysex
      <3>1. \A x : <<m>> = <<x>> => m = x
        OBVIOUS
      <3>2. \A bs, e : Packet(bs, e).data = bs
        BY DEF Packet, Sysex7
      <3>3. CASE b # "data"
        <4>1. sysex_buf' = <<>> /\ \E e : first = <<Packet(sysex_buf, e)>>
          BY <1>1, <1>7, <3>3 DEF Turn
        <4> QED
          BY <2>1, <3>1, <3>2, <3>3, <4>1
      <3>4. CASE b = "data"
        <4>1. sysex_buf' = <<>> /\ first = <<Packet(Append(sysex_buf, i), FALSE)>> /\ in_sysex
          BY <1>1, <1>7, <3>4 DEF Turn
        <4> QED
          BY <2>1, <3>1, <3>2, <3>4, <4>1, ZenonT(30)
      <3> QED
        BY <3>3, <3>4
    <2>3. Ascending(m.data)
      BY <1>5, <2>2
    <2>4. Elems(m.data) \union Elems(sysex_buf')
            = Elems(sysex_buf) \union (IF b = "data" /\ in_sysex THEN {i} ELSE {})
      BY <1>4, <2>2
    <2>5. DataOf' = DataOf \union Elems(m.data) /\ \A p \in PacketsOf(out') : Ascending(out'[p].data)
      BY <2>1, <2>3 DEF DataOf, Kept
    <2> QED
      BY <1>3, <2>4, <2>5 DEF Kept
  <1> QED
    BY <1>6, <1>7

LEMMA KeptDrain ==
  ASSUME TypeInv, Kept, DrainPending
  PROVE  Kept'
  <1>1. PacketsOf(out') = PacketsOf(out) /\ \A p \in PacketsOf(out) : out'[p] = out[p]
    BY DrainPackets
  <1>2. UNCHANGED <<sysexVars, bytes>>
    BY DrainSaid
  <1>3. DataOf' = DataOf /\ \A p \in PacketsOf(out') : Ascending(out'[p].data)
    BY <1>1 DEF DataOf, Kept
  <1>4. UNCHANGED <<SysexPlaces, InSysex(Len(bytes) + 1), in_sysex, Elems(sysex_buf)>>
    BY <1>2 DEF sysexVars, SysexPlaces, Places, InSysex, StartOf
  <1> QED
    BY <1>3, <1>4 DEF Kept

LEMMA KeptInit == Init => Kept
  <1> SUFFICES ASSUME Init PROVE Kept
    OBVIOUS
  <1>1. out = <<>> /\ sysex_buf = <<>> /\ bytes = <<>> /\ in_sysex = FALSE /\ Len(<<>>) = 0
    BY EmptySeq DEF Init
  <1>2. PacketsOf(out) = {} /\ Places = {} /\ Elems(sysex_buf) = {}
    BY <1>1 DEF PacketsOf, Places, Elems
  <1>3. StartOf(Len(bytes) + 1) = {}
    BY <1>1 DEF StartOf
  <1> QED
    BY <1>1, <1>2, <1>3 DEF Kept, DataOf, SysexPlaces, InSysex

LEMMA KeptInvariant == Spec => [](TypeInv /\ Ordered /\ Kept)
  <1>1. ASSUME TypeInv, Kept, UNCHANGED vars PROVE Kept'
    <2>1. UNCHANGED <<in_sysex, sysex_buf, out, bytes>>
      BY <1>1 DEF vars, sysexVars
    <2>2. InSysex(Len(bytes) + 1)' <=> InSysex(Len(bytes) + 1)
      BY <2>1 DEF InSysex, StartOf
    <2>3. SysexPlaces' = SysexPlaces
      BY <2>1 DEF SysexPlaces, InSysex, StartOf, Places
    <2>4. DataOf' = DataOf
      BY <2>1 DEF DataOf
    <2> QED
      BY <1>1, <2>1, <2>2, <2>3, <2>4 DEF Kept
  <1>2. TypeInv /\ Ordered /\ Kept /\ [Next]_vars => Kept'
    BY <1>1, KeptFeed, KeptDrain DEF Next
  <1> QED
    BY <1>2, KeptInit, OrderInvariant, PTL DEF Spec

LEMMA FirstIsLeast ==
  ASSUME NEW n \in Nat, NEW q \in Seq(0 .. n), Ascending(q)
  PROVE  \A j \in Elems(q) : q # <<>> /\ 1 \in 1 .. Len(q) /\ q[1] <= j /\ q[1] \in 0 .. n /\ j \in 0 .. n
  <1> TAKE j \in Elems(q)
  <1>1. PICK x \in 1 .. Len(q) : j = q[x]
    BY DEF Elems
  <1>2. Len(q) \in Nat /\ 1 \in 1 .. Len(q) /\ q # <<>>
    <2>1. Len(q) \in Nat
      BY LenProperties
    <2>2. Len(q) # 0
      BY <2>1
    <2> QED
      BY <2>1, <2>2, EmptySeq
  <1>3. q[1] \in 0 .. n /\ q[x] \in 0 .. n
    BY <1>2, ElementOfSeq
  <1>4. q[1] <= q[x]
    <2>1. CASE x = 1
      BY <1>3, <2>1
    <2>2. CASE x # 1
      <3>1. 1 < x
        BY <1>2, <2>2
      <3> QED
        BY <1>2, <1>3, <3>1 DEF Ascending
    <2> QED
      BY <2>1, <2>2
  <1> QED
    BY <1>1, <1>2, <1>3, <1>4

(* The bytes of a message, when it is a packet, lie between the place it   *)
(* begins at and the place it ends at.                                     *)
LEMMA PacketSpan ==
  ASSUME TypeInv, Kept, NEW p \in PacketsOf(out)
  PROVE  /\ out[p] \in Message(Len(bytes)) /\ out[p].data \in Seq(0 .. Len(bytes))
         /\ \A j \in Elems(out[p].data) :
              /\ j \in 0 .. Len(bytes) /\ p \in PlacedOf(out)
              /\ BeginsAt(out[p]) <= j /\ BeginsAt(out[p]) \in Nat
              /\ j <= EndsAt(out[p]) /\ EndsAt(out[p]) \in Nat
  <1> DEFINE n == Len(bytes)
             m == out[p]
  <1>1. n \in Nat /\ p \in 1 .. Len(out) /\ m.type = "sysex7"
    BY SaidType DEF PacketsOf
  <1>2. m \in Message(n) /\ m.data \in Seq(0 .. n)
    <2>1. out \in Seq(Message(n))
      BY SaidType
    <2>2. m \in Message(n)
      BY <1>1, <2>1, ElementOfSeq
    <2> HIDE DEF m
    <2> QED
      BY <2>2 DEF Message
  <1>3. Ascending(m.data)
    BY DEF Kept
  <1>4. ASSUME NEW j \in Elems(m.data)
        PROVE  /\ j \in 0 .. n /\ p \in PlacedOf(out)
               /\ BeginsAt(m) <= j /\ BeginsAt(m) \in Nat /\ j <= EndsAt(m) /\ EndsAt(m) \in Nat
    <2>1. m.data # <<>> /\ m.data[1] <= j /\ m.data[1] \in 0 .. n /\ j \in 0 .. n
      BY <1>1, <1>2, <1>3, <1>4, FirstIsLeast
    <2>2. BeginsAt(m) = m.data[1]
      BY <1>1 DEF BeginsAt
    <2>3. p \in PlacedOf(out)
      BY <1>1, <2>1 DEF PlacedOf
    <2>4. EndsAt(m) \in 0 .. n /\ j <= EndsAt(m)
      BY <1>1, <1>2, <1>4, EndsAtLast DEF Elems
    <2> QED
      BY <1>1, <2>1, <2>2, <2>3, <2>4
  <1> QED
    BY <1>2, <1>4

(* Packets and the buffer hold the bytes of the stream in its own order.   *)
LEMMA Between ==
  ASSUME TypeInv, Ordered, Kept
  PROVE  /\ \A p, q \in PacketsOf(out) : p < q =>
              \A i \in Elems(out[p].data), j \in Elems(out[q].data) : i < j
         /\ \A p \in PacketsOf(out) : \A i \in Elems(out[p].data) : i < Front
         /\ \A j \in Elems(sysex_buf) : Front <= j /\ j \in 1 .. Len(bytes)
  <1>1. Chain(out, Front)
    BY SaidType, ChainPrefix DEF Ordered, Said
  <1>2. Front \in Nat /\ Len(bytes) \in Nat
    BY FrontType
  <1>3. ASSUME NEW p \in PacketsOf(out), NEW q \in PacketsOf(out), p < q,
               NEW i \in Elems(out[p].data), NEW j \in Elems(out[q].data)
        PROVE  i < j
    <2>1. /\ p \in PlacedOf(out) /\ i <= EndsAt(out[p]) /\ EndsAt(out[p]) \in Nat /\ i \in 0 .. Len(bytes)
      BY PacketSpan
    <2>2. /\ q \in PlacedOf(out) /\ BeginsAt(out[q]) <= j /\ BeginsAt(out[q]) \in Nat /\ j \in 0 .. Len(bytes)
      BY PacketSpan
    <2>3. EndsAt(out[p]) < BeginsAt(out[q])
      BY <1>1, <1>3, <2>1, <2>2 DEF Chain
    <2> QED
      BY <2>1, <2>2, <2>3
  <1>4. ASSUME NEW p \in PacketsOf(out), NEW i \in Elems(out[p].data) PROVE i < Front
    <2>1. /\ p \in PlacedOf(out) /\ i <= EndsAt(out[p]) /\ EndsAt(out[p]) \in Nat /\ i \in 0 .. Len(bytes)
      BY PacketSpan
    <2>2. EndsAt(out[p]) < Front
      BY <1>1, <2>1 DEF Chain
    <2> QED
      BY <1>2, <2>1, <2>2
  <1>5. ASSUME NEW j \in Elems(sysex_buf) PROVE Front <= j /\ j \in 1 .. Len(bytes)
    <2>1. sysex_buf \in Seq(0 .. Len(bytes)) /\ j \in 1 .. Len(bytes)
      <3>1. sysex_buf \in Seq(1 .. Len(bytes)) /\ 1 .. Len(bytes) \subseteq 0 .. Len(bytes)
        BY <1>2 DEF TypeInv, TypeOK
      <3>2. j \in 1 .. Len(bytes)
        BY FrontType DEF Elems
      <3> QED
        BY <3>1, <3>2, SeqMonotonic
    <2>2. sysex_buf # <<>> /\ sysex_buf[1] <= j
      BY <1>2, <2>1, FirstIsLeast DEF Ordered
    <2> QED
      BY <2>1, <2>2 DEF Front
  <1> QED
    BY <1>3, <1>4, <1>5

LEMMA KeptGives == TypeInv /\ Ordered /\ Kept => SysexBytesKept
  <1> SUFFICES ASSUME TypeInv, Ordered, Kept PROVE SysexBytesKept
    OBVIOUS
  <1> DEFINE held == {Said[p].data : p \in Packets} \union {sysex_buf}
  <1>1. Packets = PacketsOf(out) /\ \A p \in PacketsOf(out) : Said[p] = out[p]
    BY PacketsAreOut
  <1>2. UNION {Elems(q) : q \in held} = DataOf \union Elems(sysex_buf)
    BY <1>1 DEF DataOf
  <1>3. \A q \in held : Ascending(q)
    BY <1>1 DEF Kept, Ordered
  <1>4. \A p, q \in Packets : p < q =>
          \A i \in Elems(Said[p].data), j \in Elems(Said[q].data) : i < j
    BY <1>1, Between
  <1>5. \A p \in Packets : \A i \in Elems(Said[p].data), j \in Elems(sysex_buf) : i < j
    <2>1. TAKE p \in Packets
    <2>2. TAKE i \in Elems(Said[p].data), j \in Elems(sysex_buf)
    <2>3. i \in 0 .. Len(bytes) /\ i < Front /\ Front <= j /\ j \in 1 .. Len(bytes)
      BY <1>1, Between, PacketSpan
    <2> QED
      BY <2>3, FrontType
  <1> HIDE DEF held
  <1>6. UNION {Elems(q) : q \in held} = SysexPlaces
    BY <1>2 DEF Kept
  <1> QED
    BY <1>3, <1>4, <1>5, <1>6 DEF SysexBytesKept, held

(* No byte of a SysEx is lost, invented, repeated or reordered, whatever   *)
(* interrupts it (midi2_conv_feed, emit_sysex_packet), for any stream.     *)
THEOREM SysexIsKept == Spec => []SysexBytesKept
  BY KeptInvariant, KeptGives, PTL

-----------------------------------------------------------------------------
(* The framing of the packets. *)

Here       == StartOf(Len(bytes) + 1)
IsFirst(p) == \A q \in PacketsOf(out) : p <= q
IsLast(p)  == \A q \in PacketsOf(out) : q <= p
NextTo(p, q) == p < q /\ \A r \in PacketsOf(out) : r <= p \/ q <= r

Framing(m, n) ==
  /\ Closes(m) <=> Opens(n)
  /\ m.data # <<>> /\ n.data # <<>> => (Opens(n) <=> ~ OneStart(m.data \o n.data))

(* Beside the framing itself: what the flags of the open SysEx say of the  *)
(* last packet, and whose bytes it and the buffer hold.                    *)
Framed ==
  /\ \A p \in PacketsOf(out) : /\ OneStart(out[p].data)
                               /\ IsFirst(p) => Opens(out[p])
                               /\ IsLast(p) => (Closes(out[p]) <=> ~ sysex_started)
  /\ sysex_started => PacketsOf(out) # {}
  /\ \A p, q \in PacketsOf(out) : NextTo(p, q) => Framing(out[p], out[q])
  /\ in_sysex => \A x \in Elems(sysex_buf) : StartOf(x) = Here
  /\ in_sysex => \A p \in PacketsOf(out) : \A x \in Elems(out[p].data) :
       /\ sysex_started /\ IsLast(p) => StartOf(x) = Here
       /\ ~ sysex_started => StartOf(x) # Here

(* The byte b at place i sends the packet m, the last of its SysEx or not. *)
Sends(b, i, m, is_end) ==
  /\ in_sysex /\ sysex_buf' = <<>>
  /\ Opens(m) <=> ~ sysex_started
  /\ Closes(m) <=> is_end = TRUE
  /\ sysex_started' <=> is_end = FALSE
  /\ m.data = sysex_buf \/ (b = "data" /\ m.data = Append(sysex_buf, i))
  /\ is_end \in BOOLEAN
  /\ is_end = TRUE <=> b \notin {"data", "realtime"}
  /\ is_end = FALSE => in_sysex'

LEMMA TurnSends ==
  ASSUME TypeInv, NEW b, NEW i, NEW first, Turn(b, i, first), first # <<>>
  PROVE  \E m, is_end : first = <<m>> /\ Sends(b, i, m, is_end)
  <1>1. ASSUME NEW bs, NEW e \in BOOLEAN
        PROVE  /\ Packet(bs, e).data = bs
               /\ Opens(Packet(bs, e)) <=> ~ sysex_started
               /\ Closes(Packet(bs, e)) <=> e = TRUE
    BY DEF Packet, Sysex7, Form, Opens, Closes
  <1> DEFINE Good(m, e) == first = <<m>> /\ Sends(b, i, m, e)
  <1>2. CASE b \notin {"data", "realtime"}
    <2>1. first = <<Packet(sysex_buf, TRUE)>> /\ in_sysex /\ sysex_buf' = <<>> /\ sysex_started' = FALSE
      BY <1>2 DEF Turn
    <2>2. Good(Packet(sysex_buf, TRUE), TRUE)
      BY <1>1, <1>2, <2>1 DEF Sends
    <2> HIDE DEF Good
    <2> QED
      BY <2>2 DEF Good
  <1>3. CASE b = "realtime"
    <2>1. first = <<Packet(sysex_buf, FALSE)>> /\ in_sysex /\ sysex_buf' = <<>> /\ sysex_started' = TRUE
          /\ in_sysex' = TRUE
      BY <1>3 DEF Turn
    <2>2. Good(Packet(sysex_buf, FALSE), FALSE)
      BY <1>1, <1>3, <2>1 DEF Sends
    <2> HIDE DEF Good
    <2> QED
      BY <2>2 DEF Good
  <1>4. CASE b = "data"
    <2>1. first = <<Packet(Append(sysex_buf, i), FALSE)>> /\ in_sysex /\ sysex_buf' = <<>>
          /\ sysex_started' = TRUE /\ in_sysex' = TRUE
      BY <1>4 DEF Turn
    <2>2. Good(Packet(Append(sysex_buf, i), FALSE), FALSE)
      BY <1>1, <1>4, <2>1 DEF Sends
    <2> HIDE DEF Good
    <2> QED
      BY <2>2 DEF Good
  <1> QED
    BY <1>2, <1>3, <1>4

LEMMA TurnQuiet ==
  ASSUME TypeInv, NEW b, NEW i, NEW first, Turn(b, i, first), first = <<>>
  PROVE  \/ /\ b \notin {"data", "realtime"} /\ ~ sysex_started /\ sysex_started' = FALSE
            /\ sysex_buf' = <<>> /\ (in_sysex' <=> b = "F0")
         \/ /\ b \in {"data", "realtime"} /\ sysex_started' = sysex_started /\ in_sysex' = in_sysex
            /\ \/ sysex_buf' = sysex_buf
               \/ b = "data" /\ in_sysex /\ sysex_buf' = Append(sysex_buf, i)
  <1>1. in_sysex \in BOOLEAN
    BY DEF TypeInv, TypeOK
  <1>2. first # <<Packet(sysex_buf, TRUE)>> /\ first # <<Packet(sysex_buf, FALSE)>>
        /\ first # <<Packet(Append(sysex_buf, i), FALSE)>>
    <2>1. \A x : <<>> # <<x>>
      OBVIOUS
    <2> QED
      BY <2>1
  <1> QED
    BY <1>1, <1>2 DEF Turn, sysexVars

LEMMA ElemsConcat ==
  ASSUME NEW S, NEW s \in Seq(S), NEW t \in Seq(S)
  PROVE  Elems(s \o t) = Elems(s) \union Elems(t)
  <1> DEFINE u == s \o t
  <1>1. Len(s) \in Nat /\ Len(t) \in Nat
    BY LenProperties
  <1>2. /\ Len(u) = Len(s) + Len(t)
        /\ \A x \in 1 .. Len(s) + Len(t) : u[x] = IF x <= Len(s) THEN s[x] ELSE t[x - Len(s)]
    BY ConcatProperties
  <1> HIDE DEF u
  <1>3. ASSUME NEW x \in 1 .. Len(u) PROVE u[x] \in Elems(s) \union Elems(t)
    <2>1. CASE x <= Len(s)
      BY <1>1, <1>2, <2>1 DEF Elems
    <2>2. CASE ~ (x <= Len(s))
      <3>1. x - Len(s) \in 1 .. Len(t) /\ u[x] = t[x - Len(s)]
        BY <1>1, <1>2, <2>2
      <3> QED
        BY <3>1 DEF Elems
    <2> QED
      BY <2>1, <2>2
  <1>4. ASSUME NEW x \in 1 .. Len(s) PROVE s[x] \in Elems(u)
    <2>1. x \in 1 .. Len(u) /\ u[x] = s[x]
      BY <1>1, <1>2
    <2> QED
      BY <2>1 DEF Elems
  <1>5. ASSUME NEW x \in 1 .. Len(t) PROVE t[x] \in Elems(u)
    <2>1. x + Len(s) \in 1 .. Len(u) /\ u[x + Len(s)] = t[x]
      BY <1>1, <1>2
    <2> QED
      BY <2>1 DEF Elems
  <1> QED
    BY <1>3, <1>4, <1>5 DEF Elems, u

(* The bytes packed so far keep their start; the one to come has its own.  *)
LEMMA StartsFeed ==
  ASSUME TypeInv, Kept, NEW b \in Bytes, bytes' = Append(bytes, b), NEW i \in Nat, i = Len(bytes) + 1
  PROVE  /\ \A x \in 1 .. i : StartOf(x)' = StartOf(x)
         /\ Here' = IF b \in {"data", "realtime"} THEN Here ELSE IF b = "F0" THEN {i} ELSE {}
         /\ Here = StartOf(i)
         /\ \A p \in PacketsOf(out) : Elems(out[p].data) \subseteq 1 .. Len(bytes)
         /\ Elems(sysex_buf) \subseteq 1 .. Len(bytes)
         /\ Len(bytes) \in Nat
         /\ \A x \in 1 .. Len(bytes) : StartOf(x) # {i}
  <1>1. bytes \in Seq(Bytes) /\ Len(bytes) \in Nat
    BY SaidType DEF TypeInv, TypeOK
  <1>2. Len(bytes') = i
    BY <1>1, OneMoreByte
  <1>3. SysexPlaces \subseteq 1 .. Len(bytes)
    BY DEF SysexPlaces, Places
  <1>4. ASSUME NEW p \in PacketsOf(out) PROVE Elems(out[p].data) \subseteq 1 .. Len(bytes)
    BY <1>3 DEF Kept, DataOf
  <1>5. Elems(sysex_buf) \subseteq 1 .. Len(bytes)
    BY <1>3 DEF Kept
  <1>6. ASSUME NEW x \in 1 .. Len(bytes) PROVE StartOf(x) # {i}
    <2>1. StartOf(x) \subseteq 1 .. x - 1
      BY DEF StartOf
    <2>2. i \notin 1 .. x - 1
      BY <1>1
    <2> QED
      BY <2>1, <2>2
  <1> QED
    BY <1>1, <1>2, <1>4, <1>5, <1>6, StartOfStays DEF Here

LEMMA OneStartStays ==
  ASSUME TypeInv, Kept, NEW b \in Bytes, bytes' = Append(bytes, b), NEW q, Elems(q) \subseteq 1 .. Len(bytes) + 1
  PROVE  OneStart(q)' <=> OneStart(q)
  <1> DEFINE i == Len(bytes) + 1
  <1>1. i \in Nat
    BY SaidType
  <1>2. \A x \in 1 .. i : StartOf(x)' = StartOf(x)
    BY <1>1, StartsFeed
  <1>3. OneStart(q)' <=> \A x, y \in Elems(q) : StartOf(x)' = StartOf(y)'
    BY DEF OneStart, Elems
  <1>4. \A x \in Elems(q) : StartOf(x)' = StartOf(x)
    BY <1>2
  <1> QED
    BY <1>3, <1>4 DEF OneStart

(* What has been sent is framed after the byte as it was before.           *)
LEMMA OldPackets ==
  ASSUME TypeInv, Kept, NEW b \in Bytes, bytes' = Append(bytes, b),
         NEW i \in Nat, i = Len(bytes) + 1,
         \A p \in PacketsOf(out) : out'[p] = out[p]
  PROVE  /\ \A p \in PacketsOf(out) :
              /\ OneStart(out[p].data)' <=> OneStart(out[p].data)
              /\ Closes(out[p])' <=> Closes(out[p])
              /\ Opens(out[p])' <=> Opens(out[p])
              /\ Elems(out[p].data)' = Elems(out[p].data)
         /\ \A p, q \in PacketsOf(out) : Framing(out[p], out[q])' <=> Framing(out[p], out[q])
  <1>1. /\ \A x \in 1 .. i : StartOf(x)' = StartOf(x)
        /\ \A p \in PacketsOf(out) : Elems(out[p].data) \subseteq 1 .. Len(bytes)
        /\ Len(bytes) \in Nat
    BY StartsFeed
  <1>2. 1 .. Len(bytes) \subseteq 1 .. i /\ i \in 1 .. i
    BY <1>1
  <1>3. ASSUME NEW p \in PacketsOf(out) PROVE OneStart(out[p].data)' <=> OneStart(out[p].data)
    <2>1. Elems(out[p].data) \subseteq 1 .. Len(bytes) + 1
      BY <1>1, <1>2
    <2> DEFINE q == out[p].data
    <2>2. out'[p].data = q
      OBVIOUS
    <2>3. OneStart(out[p].data)' <=> \A x, y \in Elems(q) : StartOf(x)' = StartOf(y)'
      BY <2>2 DEF OneStart, Elems
    <2>4. \A x \in Elems(q) : StartOf(x)' = StartOf(x)
      BY <1>1, <1>2
    <2> QED
      BY <2>3, <2>4 DEF OneStart
  <1>4. ASSUME NEW p \in PacketsOf(out), NEW q \in PacketsOf(out)
        PROVE  Framing(out[p], out[q])' <=> Framing(out[p], out[q])
    <2> DEFINE s == out[p].data \o out[q].data
    <2>1. Elems(s) \subseteq 1 .. Len(bytes)
      <3>1. out[p].data \in Seq(0 .. Len(bytes)) /\ out[q].data \in Seq(0 .. Len(bytes))
        BY PacketSpan
      <3> QED
        BY <1>1, <3>1, ElemsConcat
    <2>2. (out[p].data \o out[q].data)' = s
      OBVIOUS
    <2>3. OneStart(out[p].data \o out[q].data)' <=> \A x, y \in Elems(s) : StartOf(x)' = StartOf(y)'
      BY <2>2 DEF OneStart, Elems
    <2>4. \A x \in Elems(s) : StartOf(x)' = StartOf(x)
      BY <1>1, <1>2, <2>1
    <2>5. OneStart(out[p].data \o out[q].data)' <=> OneStart(s)
      BY <2>3, <2>4 DEF OneStart
    <2> HIDE DEF s
    <2>6. out'[p] = out[p] /\ out'[q] = out[q]
      OBVIOUS
    <2>7. (Closes(out[p])' <=> Closes(out[p])) /\ (Opens(out[q])' <=> Opens(out[q]))
      BY <2>6 DEF Closes, Opens
    <2> QED
      BY <2>5, <2>6, <2>7 DEF Framing, s
  <1>5. \A p \in PacketsOf(out) : (Closes(out[p])' <=> Closes(out[p])) /\ (Opens(out[p])' <=> Opens(out[p]))
    BY DEF Closes, Opens
  <1>6. \A p \in PacketsOf(out) : Elems(out[p].data)' = Elems(out[p].data)
    BY DEF Elems
  <1> QED
    BY <1>3, <1>4, <1>5, <1>6

LEMMA FrameQuiet ==
  ASSUME TypeInv, Ordered, Kept, Framed, NEW b \in Bytes, bytes' = Append(bytes, b),
         NEW i \in Nat, i = Len(bytes) + 1, Turn(b, i, <<>>),
         PacketsOf(out') = PacketsOf(out), \A p \in PacketsOf(out) : out'[p] = out[p]
  PROVE  Framed'
  <1>1. /\ \A x \in 1 .. i : StartOf(x)' = StartOf(x)
        /\ Here' = IF b \in {"data", "realtime"} THEN Here ELSE IF b = "F0" THEN {i} ELSE {}
        /\ Here = StartOf(i)
        /\ \A p \in PacketsOf(out) : Elems(out[p].data) \subseteq 1 .. Len(bytes)
        /\ Elems(sysex_buf) \subseteq 1 .. Len(bytes)
        /\ Len(bytes) \in Nat
        /\ \A x \in 1 .. Len(bytes) : StartOf(x) # {i}
    BY StartsFeed
  <1>2. 1 .. Len(bytes) \subseteq 1 .. i /\ i \in 1 .. i
    BY <1>1
  <1>3. PacketsOf(out)' = PacketsOf(out)
    BY DEF PacketsOf
  <1>4. \A p \in PacketsOf(out) : (IsFirst(p)' <=> IsFirst(p)) /\ (IsLast(p)' <=> IsLast(p))
    BY <1>3 DEF IsFirst, IsLast
  <1>5. \A p, q \in PacketsOf(out) : NextTo(p, q)' <=> NextTo(p, q)
    BY <1>3 DEF NextTo
  <1>6. \A p \in PacketsOf(out) :
          /\ OneStart(out[p].data)' <=> OneStart(out[p].data)
          /\ Closes(out[p])' <=> Closes(out[p])
          /\ Opens(out[p])' <=> Opens(out[p])
          /\ Elems(out[p].data)' = Elems(out[p].data)
    BY OldPackets
  <1>7. \A p, q \in PacketsOf(out) : Framing(out[p], out[q])' <=> Framing(out[p], out[q])
    BY OldPackets
  <1>8. /\ \A p \in PacketsOf(out) : \A x \in Elems(out[p].data) : StartOf(x)' = StartOf(x) /\ StartOf(x) # {i}
        /\ \A x \in Elems(sysex_buf) : StartOf(x)' = StartOf(x)
    BY <1>1, <1>2
  <1>9. Elems(<<>>) = {} /\ Elems(Append(sysex_buf, i)) = Elems(sysex_buf) \union {i}
    <2>1. sysex_buf \in Seq(1 .. Len(bytes))
      BY DEF TypeInv, TypeOK
    <2>2. sysex_buf \in Seq(1 .. i)
      BY <1>2, <2>1, SeqMonotonic
    <2> QED
      BY <1>2, <2>2, ElemsAppend
  <1>10. CASE /\ b \notin {"data", "realtime"} /\ ~ sysex_started /\ sysex_started' = FALSE
              /\ sysex_buf' = <<>> /\ (in_sysex' <=> b = "F0")
    <2>1. Elems(sysex_buf)' = {}
      BY <1>9, <1>10 DEF Elems
    <2>2. in_sysex' => Here' = {i}
      BY <1>1, <1>10
    <2>3. \A p \in PacketsOf(out)' : /\ OneStart(out[p].data)'
                                     /\ IsFirst(p)' => Opens(out[p])'
                                     /\ IsLast(p)' => (Closes(out[p])' <=> ~ sysex_started')
      BY <1>3, <1>4, <1>6, <1>10 DEF Framed
    <2>4. \A p, q \in PacketsOf(out)' : NextTo(p, q)' => Framing(out[p], out[q])'
      BY <1>3, <1>5, <1>7 DEF Framed
    <2>5. in_sysex' => \A p \in PacketsOf(out)' : \A x \in Elems(out[p].data)' :
            /\ sysex_started' /\ IsLast(p)' => StartOf(x)' = Here'
            /\ ~ sysex_started' => StartOf(x)' # Here'
      BY <1>3, <1>6, <1>8, <1>10, <2>2
    <2> QED
      BY <1>10, <2>1, <2>3, <2>4, <2>5 DEF Framed
  <1>11. CASE /\ b \in {"data", "realtime"} /\ sysex_started' = sysex_started /\ in_sysex' = in_sysex
              /\ \/ sysex_buf' = sysex_buf
                 \/ b = "data" /\ in_sysex /\ sysex_buf' = Append(sysex_buf, i)
    <2>1. Here' = Here /\ Here = StartOf(i) /\ StartOf(i)' = StartOf(i)
      BY <1>1, <1>2, <1>11
    <2>2. \A x \in Elems(sysex_buf)' : x \in Elems(sysex_buf) \/ x = i
      <3>1. Elems(sysex_buf)' = Elems(sysex_buf')
        BY DEF Elems
      <3> QED
        BY <1>9, <1>11, <3>1
    <2>3. \A p \in PacketsOf(out)' : /\ OneStart(out[p].data)'
                                     /\ IsFirst(p)' => Opens(out[p])'
                                     /\ IsLast(p)' => (Closes(out[p])' <=> ~ sysex_started')
      BY <1>3, <1>4, <1>6, <1>11 DEF Framed
    <2>4. \A p, q \in PacketsOf(out)' : NextTo(p, q)' => Framing(out[p], out[q])'
      BY <1>3, <1>5, <1>7 DEF Framed
    <2>5. in_sysex' => \A x \in Elems(sysex_buf)' : StartOf(x)' = Here'
      <3>1. ASSUME in_sysex', NEW x \in Elems(sysex_buf)' PROVE StartOf(x)' = Here'
        <4>1. in_sysex => \A y \in Elems(sysex_buf) : StartOf(y) = Here
          BY DEF Framed
        <4>2. CASE x \in Elems(sysex_buf)
          BY <1>8, <1>11, <2>1, <3>1, <4>1, <4>2
        <4>3. CASE x = i
          BY <2>1, <4>3
        <4> QED
          BY <2>2, <4>2, <4>3
      <3> QED
        BY <3>1
    <2>6. in_sysex' => \A p \in PacketsOf(out)' : \A x \in Elems(out[p].data)' :
            /\ sysex_started' /\ IsLast(p)' => StartOf(x)' = Here'
            /\ ~ sysex_started' => StartOf(x)' # Here'
      BY <1>3, <1>4, <1>6, <1>8, <1>11, <2>1 DEF Framed
    <2>7. sysex_started' => PacketsOf(out)' # {}
      BY <1>3, <1>11 DEF Framed
    <2> QED
      BY <2>3, <2>4, <2>5, <2>6, <2>7 DEF Framed
  <1> QED
    BY <1>10, <1>11, TurnQuiet

LEMMA FrameSend ==
  ASSUME TypeInv, Ordered, Kept, Framed, NEW b \in Bytes, bytes' = Append(bytes, b),
         NEW i \in Nat, i = Len(bytes) + 1, NEW m, Turn(b, i, <<m>>), NEW k, k = Len(out) + 1,
         PacketsOf(out') = PacketsOf(out) \union {k}, out'[k] = m,
         \A p \in PacketsOf(out) : out'[p] = out[p]
  PROVE  Framed'
  <1>1. /\ \A x \in 1 .. i : StartOf(x)' = StartOf(x)
        /\ Here' = IF b \in {"data", "realtime"} THEN Here ELSE IF b = "F0" THEN {i} ELSE {}
        /\ Here = StartOf(i)
        /\ \A p \in PacketsOf(out) : Elems(out[p].data) \subseteq 1 .. Len(bytes)
        /\ Elems(sysex_buf) \subseteq 1 .. Len(bytes)
        /\ Len(bytes) \in Nat
        /\ \A x \in 1 .. Len(bytes) : StartOf(x) # {i}
    BY StartsFeed
  <1>2. 1 .. Len(bytes) \subseteq 1 .. i /\ i \in 1 .. i
    BY <1>1
  <1>3. PICK e :
          /\ in_sysex /\ sysex_buf' = <<>>
          /\ Opens(m) <=> ~ sysex_started
          /\ Closes(m) <=> e = TRUE
          /\ sysex_started' <=> e = FALSE
          /\ m.data = sysex_buf \/ (b = "data" /\ m.data = Append(sysex_buf, i))
          /\ e \in BOOLEAN
          /\ e = TRUE <=> b \notin {"data", "realtime"}
          /\ e = FALSE => in_sysex'
    <2>1. <<m>> # <<>> /\ \A n : <<m>> = <<n>> => n = m
      OBVIOUS
    <2>2. PICK n, e : <<m>> = <<n>> /\ Sends(b, i, n, e)
      BY <2>1, TurnSends
    <2>3. Sends(b, i, m, e)
      BY <2>1, <2>2
    <2> QED
      BY <2>3 DEF Sends
  <1>4. PacketsOf(out)' = PacketsOf(out) \union {k}
    BY DEF PacketsOf
  <1>5. /\ \A p \in PacketsOf(out) : p < k /\ p \in Nat
        /\ k \in Nat
    <2>1. Len(out) \in Nat
      BY SaidType, LenProperties
    <2> QED
      BY <2>1 DEF PacketsOf
  <1>6. \A p \in PacketsOf(out) : (IsFirst(p)' <=> IsFirst(p)) /\ ~ IsLast(p)'
    BY <1>4, <1>5 DEF IsFirst, IsLast
  <1>7. IsFirst(k)' => PacketsOf(out) = {}
    BY <1>4, <1>5 DEF IsFirst
  <1>8. \A p, q \in PacketsOf(out) : NextTo(p, q)' => NextTo(p, q)
    BY <1>4, <1>5 DEF NextTo
  <1>9. \A p \in PacketsOf(out)' : ~ NextTo(k, p)' /\ (NextTo(p, k)' => p \in PacketsOf(out) /\ IsLast(p))
    <2>1. ASSUME NEW p \in PacketsOf(out)' PROVE ~ NextTo(k, p)'
      BY <1>4, <1>5 DEF NextTo
    <2>2. ASSUME NEW p \in PacketsOf(out)', NextTo(p, k)' PROVE p \in PacketsOf(out) /\ IsLast(p)
      <3>1. p < k /\ \A r \in PacketsOf(out) : r <= p \/ k <= r
        BY <1>4, <2>2 DEF NextTo
      <3>2. p # k
        BY <1>5, <3>1
      <3>3. \A r \in PacketsOf(out) : r <= p
        BY <1>5, <3>1
      <3> QED
        BY <1>4, <3>2, <3>3 DEF IsLast
    <2> QED
      BY <2>1, <2>2
  <1>10. \A p \in PacketsOf(out) :
          /\ OneStart(out[p].data)' <=> OneStart(out[p].data)
          /\ Closes(out[p])' <=> Closes(out[p])
          /\ Opens(out[p])' <=> Opens(out[p])
          /\ Elems(out[p].data)' = Elems(out[p].data)
    BY OldPackets
  <1>11. \A p, q \in PacketsOf(out) : Framing(out[p], out[q])' <=> Framing(out[p], out[q])
    BY OldPackets
  <1>12. Elems(<<>>) = {} /\ Elems(Append(sysex_buf, i)) = Elems(sysex_buf) \union {i}
         /\ m.data \in Seq(0 .. i)
    <2>1. sysex_buf \in Seq(1 .. Len(bytes))
      BY DEF TypeInv, TypeOK
    <2>2. sysex_buf \in Seq(1 .. i)
      BY <1>2, <2>1, SeqMonotonic
    <2>3. Append(sysex_buf, i) \in Seq(1 .. i)
      BY <1>2, <2>2, AppendProperties
    <2>4. m.data \in Seq(1 .. i)
      BY <1>3, <2>2, <2>3
    <2>5. 1 .. i \subseteq 0 .. i
      OBVIOUS
    <2>6. m.data \in Seq(0 .. i)
      BY <2>4, <2>5, SeqMonotonic
    <2>7. Elems(Append(sysex_buf, i)) = Elems(sysex_buf) \union {i}
      BY <1>2, <2>2, ElemsAppend
    <2> QED
      BY <2>6, <2>7, ElemsAppend
  <1>13. /\ Elems(m.data) \subseteq 1 .. i
         /\ \A x \in Elems(m.data) : StartOf(x)' = Here /\ StartOf(x) = Here
         /\ b # "data" => Elems(m.data) \subseteq 1 .. Len(bytes)
    <2>1. \A x \in Elems(m.data) : x \in Elems(sysex_buf) \/ (x = i /\ b = "data")
      BY <1>3, <1>12
    <2>2. \A x \in Elems(sysex_buf) : StartOf(x) = Here /\ x \in 1 .. Len(bytes)
      BY <1>1, <1>3 DEF Framed
    <2> QED
      BY <1>1, <1>2, <2>1, <2>2
  <1>14. OneStart(m.data)
    BY <1>13 DEF OneStart
  <1>15. OneStart(out[k].data)' /\ (Closes(out[k])' <=> ~ sysex_started') /\ (Opens(out[k])' <=> ~ sysex_started)
         /\ Elems(out[k].data)' = Elems(m.data)
    <2>1. (out[k])' = m
      OBVIOUS
    <2>2. (Closes(out[k])' <=> Closes(m)) /\ (Opens(out[k])' <=> Opens(m)) /\ Elems(out[k].data)' = Elems(m.data)
      BY <2>1 DEF Closes, Opens, Elems
    <2>3. OneStart(out[k].data)' <=> \A x, y \in Elems(m.data) : StartOf(x)' = StartOf(y)'
      BY <2>1 DEF OneStart, Elems
    <2> QED
      BY <1>3, <1>13, <2>2, <2>3
  <1>16. ASSUME NEW p \in PacketsOf(out), IsLast(p) PROVE Framing(out[p], out[k])'
    <2>1. out'[p] = out[p] /\ out'[k] = m
      OBVIOUS
    <2>2. Closes(out[p])' <=> Opens(out[k])'
      BY <1>10, <1>15, <1>16 DEF Framed
    <2> DEFINE s == out[p].data \o m.data
    <2>3. Elems(s) = Elems(out[p].data) \union Elems(m.data)
      <3>1. out[p].data \in Seq(0 .. i)
        <4>1. out[p].data \in Seq(0 .. Len(bytes)) /\ 0 .. Len(bytes) \subseteq 0 .. i
          BY <1>1, PacketSpan
        <4> QED
          BY <4>1, SeqMonotonic
      <3> QED
        BY <1>12, <3>1, ElemsConcat
    <2>4. Elems(s) \subseteq 1 .. i
      BY <1>1, <1>2, <1>13, <2>3
    <2>5. OneStart(out[p].data \o out[k].data)' <=> \A x, y \in Elems(s) : StartOf(x)' = StartOf(y)'
      BY <2>1 DEF OneStart, Elems
    <2> HIDE DEF s
    <2>6. \A x \in Elems(s) : StartOf(x)' = StartOf(x)
      BY <1>1, <2>4
    <2>7. ASSUME out[p].data # <<>>, m.data # <<>>
          PROVE  Opens(out[k])' <=> ~ OneStart(out[p].data \o out[k].data)'
      <3>1. PICK x \in Elems(out[p].data) : TRUE
        <4>1. out[p].data \in Seq(0 .. Len(bytes))
          BY PacketSpan
        <4>2. Len(out[p].data) \in Nat /\ Len(out[p].data) # 0
          BY <2>7, <4>1, LenProperties, EmptySeq
        <4>3. 1 \in 1 .. Len(out[p].data)
          BY <4>2
        <4> QED
          BY <4>3 DEF Elems
      <3>2. PICK y \in Elems(m.data) : TRUE
        <4>1. Len(m.data) \in Nat /\ Len(m.data) # 0
          BY <1>12, <2>7, LenProperties, EmptySeq
        <4>2. 1 \in 1 .. Len(m.data)
          BY <4>1
        <4>3. m.data[1] \in Elems(m.data)
          BY <4>2 DEF Elems
        <4> QED
          BY <4>3
      <3>3. CASE sysex_started
        <4>1. \A z \in Elems(out[p].data) : StartOf(z) = Here
          BY <1>3, <1>16, <3>3 DEF Framed
        <4>2. \A z \in Elems(s) : StartOf(z)' = Here
          BY <1>13, <2>3, <2>6, <4>1
        <4> QED
          BY <1>15, <2>5, <3>3, <4>2
      <3>4. CASE ~ sysex_started
        <4>1. StartOf(x) # Here /\ StartOf(y) = Here
          BY <1>3, <1>13, <3>1, <3>2, <3>4 DEF Framed
        <4>2. x \in Elems(s) /\ y \in Elems(s) /\ StartOf(x)' # StartOf(y)'
          BY <2>3, <2>6, <3>1, <3>2, <4>1
        <4> QED
          BY <1>15, <2>5, <3>4, <4>2
      <3> QED
        BY <3>3, <3>4
    <2> QED
      BY <2>1, <2>2, <2>7 DEF Framing
  <1>17. \A p \in PacketsOf(out)' : /\ OneStart(out[p].data)'
                                    /\ IsFirst(p)' => Opens(out[p])'
                                    /\ IsLast(p)' => (Closes(out[p])' <=> ~ sysex_started')
    <2>1. ASSUME NEW p \in PacketsOf(out)
          PROVE  /\ OneStart(out[p].data)'
                 /\ IsFirst(p)' => Opens(out[p])'
                 /\ IsLast(p)' => (Closes(out[p])' <=> ~ sysex_started')
      BY <1>6, <1>10 DEF Framed
    <2>2. IsFirst(k)' => Opens(out[k])'
      BY <1>7, <1>15 DEF Framed
    <2> QED
      BY <1>4, <1>15, <2>1, <2>2
  <1>18. \A p, q \in PacketsOf(out)' : NextTo(p, q)' => Framing(out[p], out[q])'
    <2>1. ASSUME NEW p \in PacketsOf(out), NEW q \in PacketsOf(out), NextTo(p, q)'
          PROVE  Framing(out[p], out[q])'
      BY <1>8, <1>11, <2>1 DEF Framed
    <2>2. ASSUME NEW p \in PacketsOf(out)', NextTo(p, k)' PROVE Framing(out[p], out[k])'
      BY <1>9, <1>16, <2>2
    <2> QED
      BY <1>4, <1>9, <2>1, <2>2
  <1>19. Elems(sysex_buf)' = {}
    BY <1>3, <1>12 DEF Elems
  <1>20. in_sysex' => \A p \in PacketsOf(out)' : \A x \in Elems(out[p].data)' :
           /\ sysex_started' /\ IsLast(p)' => StartOf(x)' = Here'
           /\ ~ sysex_started' => StartOf(x)' # Here'
    <2>1. CASE e = TRUE
      <3>1. b \notin {"data", "realtime"} /\ (in_sysex' <=> b = "F0") /\ ~ sysex_started'
        BY <1>3, <2>1 DEF Turn
      <3>2. in_sysex' => Here' = {i}
        BY <1>1, <3>1
      <3>3. \A p \in PacketsOf(out)' : Elems(out[p].data)' \subseteq 1 .. Len(bytes)
        BY <1>1, <1>4, <1>10, <1>13, <1>15, <3>1
      <3>4. \A x \in 1 .. Len(bytes) : StartOf(x)' # {i}
        BY <1>1, <1>2
      <3> QED
        BY <3>1, <3>2, <3>3, <3>4
    <2>2. CASE e = FALSE
      <3>1. sysex_started' /\ Here' = Here
        BY <1>1, <1>3, <2>2
      <3>2. \A p \in PacketsOf(out)' : IsLast(p)' => p = k
        BY <1>4, <1>6
      <3> QED
        BY <1>13, <1>15, <3>1, <3>2
    <2> QED
      BY <1>3, <2>1, <2>2
  <1>21. PacketsOf(out)' # {}
    BY <1>4
  <1> QED
    BY <1>17, <1>18, <1>19, <1>20, <1>21 DEF Framed

LEMMA FrameFeed ==
  ASSUME TypeInv, Ordered, Kept, Framed, NEW b \in Bytes, Feed(b)
  PROVE  Framed'
  <1> DEFINE i == Len(bytes) + 1
  <1>1. PICK first : Turn(b, i, first) /\ Sent(first)
    BY FeedPackets
  <1>2. bytes' = Append(bytes, b) /\ i \in Nat
    BY FeedMoves, SaidType
  <1>3. \A p \in PacketsOf(out) : out'[p] = out[p]
    BY <1>1 DEF Sent
  <1>4. CASE first = <<>> /\ PacketsOf(out') = PacketsOf(out)
    BY <1>1, <1>2, <1>3, <1>4, FrameQuiet
  <1>5. ASSUME NEW m, first = <<m>>, PacketsOf(out') = PacketsOf(out) \union {Len(out) + 1},
               out'[Len(out) + 1] = m
        PROVE  Framed'
    BY <1>1, <1>2, <1>3, <1>5, FrameSend
  <1> QED
    BY <1>1, <1>4, <1>5 DEF Sent

LEMMA FrameSame ==
  ASSUME Framed, UNCHANGED <<in_sysex, sysex_started, sysex_buf, bytes>>,
         PacketsOf(out') = PacketsOf(out), \A p \in PacketsOf(out) : out'[p] = out[p]
  PROVE  Framed'
  <1>1. PacketsOf(out') = PacketsOf(out) /\ \A p \in PacketsOf(out) : out'[p] = out[p]
    OBVIOUS
  <1>2. UNCHANGED <<in_sysex, sysex_started, sysex_buf, bytes>>
    OBVIOUS
  <1>3. PacketsOf(out)' = PacketsOf(out)
    BY <1>1 DEF PacketsOf
  <1>4. /\ \A p \in PacketsOf(out) : (IsFirst(p)' <=> IsFirst(p)) /\ (IsLast(p)' <=> IsLast(p))
        /\ \A p, q \in PacketsOf(out) : NextTo(p, q)' <=> NextTo(p, q)
    BY <1>3 DEF IsFirst, IsLast, NextTo
  <1>5. /\ \A x : StartOf(x)' = StartOf(x)
        /\ \A q : OneStart(q)' <=> OneStart(q)
        /\ Here' = Here
    BY <1>2 DEF StartOf, OneStart, Elems, Here
  <1>6. ASSUME NEW p \in PacketsOf(out)
        PROVE  /\ OneStart(out[p].data)' <=> OneStart(out[p].data)
               /\ Closes(out[p])' <=> Closes(out[p])
               /\ Opens(out[p])' <=> Opens(out[p])
               /\ Elems(out[p].data)' = Elems(out[p].data)
    <2>1. (out[p])' = out[p]
      BY <1>1
    <2> QED
      BY <1>2, <2>1 DEF OneStart, StartOf, Elems, Closes, Opens
  <1>7. ASSUME NEW p \in PacketsOf(out), NEW q \in PacketsOf(out)
        PROVE  Framing(out[p], out[q])' <=> Framing(out[p], out[q])
    <2>1. (out[p])' = out[p] /\ (out[q])' = out[q]
      BY <1>1
    <2> QED
      BY <1>2, <2>1 DEF Framing, OneStart, StartOf, Elems, Closes, Opens
  <1>8. Elems(sysex_buf)' = Elems(sysex_buf)
    BY <1>2 DEF Elems
  <1>9. \A p \in PacketsOf(out)' : /\ OneStart(out[p].data)'
                                   /\ IsFirst(p)' => Opens(out[p])'
                                   /\ IsLast(p)' => (Closes(out[p])' <=> ~ sysex_started')
    BY <1>2, <1>3, <1>4, <1>6 DEF Framed
  <1>10. \A p, q \in PacketsOf(out)' : NextTo(p, q)' => Framing(out[p], out[q])'
    BY <1>3, <1>4, <1>7 DEF Framed
  <1>11. in_sysex' => \A x \in Elems(sysex_buf)' : StartOf(x)' = Here'
    BY <1>2, <1>5, <1>8 DEF Framed
  <1>12. in_sysex' => \A p \in PacketsOf(out)' : \A x \in Elems(out[p].data)' :
           /\ sysex_started' /\ IsLast(p)' => StartOf(x)' = Here'
           /\ ~ sysex_started' => StartOf(x)' # Here'
    BY <1>2, <1>3, <1>4, <1>5, <1>6 DEF Framed
  <1>13. sysex_started' => PacketsOf(out)' # {}
    BY <1>2, <1>3 DEF Framed
  <1> QED
    BY <1>9, <1>10, <1>11, <1>12, <1>13 DEF Framed

LEMMA FrameDrain ==
  ASSUME TypeInv, Framed, DrainPending
  PROVE  Framed'
  <1>1. UNCHANGED <<in_sysex, sysex_started, sysex_buf, bytes>>
    BY DrainSaid DEF sysexVars
  <1> QED
    BY <1>1, DrainPackets, FrameSame

LEMMA FrameStutter ==
  ASSUME Framed, UNCHANGED vars
  PROVE  Framed'
  <1>1. UNCHANGED <<in_sysex, sysex_started, sysex_buf, bytes, out>>
    BY DEF vars, sysexVars
  <1> QED
    BY <1>1, FrameSame

LEMMA FrameInit == Init => Framed
  <1> SUFFICES ASSUME Init PROVE Framed
    OBVIOUS
  <1>1. out = <<>> /\ in_sysex = FALSE /\ sysex_started = FALSE /\ Len(<<>>) = 0
    BY EmptySeq DEF Init
  <1>2. PacketsOf(out) = {}
    BY <1>1 DEF PacketsOf
  <1> QED
    BY <1>1, <1>2 DEF Framed

LEMMA FrameInvariant == Spec => [](TypeInv /\ Ordered /\ Kept /\ Framed)
  <1>1. TypeInv /\ Ordered /\ Kept /\ Framed /\ [Next]_vars => Framed'
    BY FrameFeed, FrameDrain, FrameStutter DEF Next
  <1> QED
    BY <1>1, FrameInit, KeptInvariant, PTL DEF Spec

LEMMA FramedGives == TypeInv /\ Framed => PacketsFramed
  <1> SUFFICES ASSUME TypeInv, Framed PROVE PacketsFramed
    OBVIOUS
  <1>1. Packets = PacketsOf(out) /\ \A p \in PacketsOf(out) : Said[p] = out[p]
    BY PacketsAreOut
  <1>2. ~ in_sysex => ~ sysex_started
    BY DEF TypeInv, SysexInv
  <1>3. ASSUME NEW p \in Packets
        PROVE  /\ (\A q \in Packets : p <= q) => Opens(Said[p])
               /\ (\A q \in Packets : q <= p) /\ ~ in_sysex => Closes(Said[p])
               /\ OneStart(Said[p].data)
    BY <1>1, <1>2 DEF Framed, IsFirst, IsLast
  <1>4. ASSUME NEW p \in Packets, NEW q \in Packets, Adjacent(p, q)
        PROVE  /\ Closes(Said[p]) <=> Opens(Said[q])
               /\ Said[p].data # <<>> /\ Said[q].data # <<>> =>
                    (Opens(Said[q]) <=> ~ OneStart(Said[p].data \o Said[q].data))
    <2>1. NextTo(p, q)
      BY <1>1, <1>4 DEF NextTo, Adjacent
    <2>2. Framing(Said[p], Said[q])
      BY <1>1, <2>1 DEF Framed
    <2> QED
      BY <2>2 DEF Framing
  <1> QED
    BY <1>3, <1>4 DEF PacketsFramed

(* The packets of every SysEx are framed as one message, START to END,     *)
(* however it is interrupted, and no START is left dangling once no SysEx  *)
(* is open (midi2_conv.c:196, emit_sysex_packet).                          *)
THEOREM FramingIsSound == Spec => []PacketsFramed
  BY FrameInvariant, FramedGives, PTL

-----------------------------------------------------------------------------
(* The messages the bytes mean. *)

LEMMA EffectFeed ==
  ASSUME TypeInv, Kept, NEW b \in Bytes, bytes' = Append(bytes, b), NEW i \in Nat, i = Len(bytes) + 1
  PROVE  /\ \A j \in 1 .. Len(bytes) : TakesEffect(j)' <=> TakesEffect(j)
         /\ TakesEffect(i)' <=> b \notin {"data", "realtime"} /\ (b = "F7" => in_sysex)
         /\ \A s, j \in 1 .. i : InForce(s, j)' <=> InForce(s, j)
         /\ \A s \in 1 .. i : InForce(s, i + 1)' <=>
              \/ s = i /\ TakesEffect(i)'
              \/ s # i /\ ~ TakesEffect(i)' /\ InForce(s, i)
  <1>1. bytes \in Seq(Bytes)
    BY DEF TypeInv, TypeOK
  <1>2. /\ Len(bytes) \in Nat /\ bytes'[i] = b /\ \A j \in 1 .. Len(bytes) : bytes'[j] = bytes[j]
    BY <1>1, OneMoreByte
  <1>3. \A j \in 1 .. i : InSysex(j)' <=> InSysex(j)
    BY <1>1, StartOfStays DEF InSysex
  <1>4. 1 .. Len(bytes) \subseteq 1 .. i /\ i \in 1 .. i
    BY <1>2
  <1>5. ASSUME NEW j \in 1 .. Len(bytes) PROVE TakesEffect(j)' <=> TakesEffect(j)
    <2>1. bytes'[j] = bytes[j] /\ (InSysex(j)' <=> InSysex(j))
      BY <1>2, <1>3, <1>4
    <2> QED
      BY <2>1 DEF TakesEffect
  <1>6. TakesEffect(i)' <=> b \notin {"data", "realtime"} /\ (b = "F7" => in_sysex)
    <2>1. in_sysex <=> InSysex(i)
      BY DEF Kept
    <2>2. InSysex(i)' <=> InSysex(i)
      BY <1>3, <1>4
    <2> QED
      BY <1>2, <2>1, <2>2 DEF TakesEffect
  <1>7. ASSUME NEW s \in 1 .. i, NEW j \in 1 .. i PROVE InForce(s, j)' <=> InForce(s, j)
    <2>1. CASE s \notin 1 .. j - 1
      BY <2>1 DEF InForce
    <2>2. CASE s \in 1 .. j - 1
      <3>1. s \in 1 .. Len(bytes) /\ \A x \in s + 1 .. j - 1 : x \in 1 .. Len(bytes)
        BY <1>2, <2>2
      <3> QED
        BY <1>5, <3>1 DEF InForce
    <2> QED
      BY <2>1, <2>2
  <1>8. ASSUME NEW s \in 1 .. i
        PROVE  InForce(s, i + 1)' <=> \/ s = i /\ TakesEffect(i)'
                                      \/ s # i /\ ~ TakesEffect(i)' /\ InForce(s, i)
    <2>1. InForce(s, i + 1)' <=> s \in 1 .. i /\ TakesEffect(s)' /\ \A x \in s + 1 .. i : ~ TakesEffect(x)'
      <3>1. (i + 1) - 1 = i
        OBVIOUS
      <3> QED
        BY <3>1 DEF InForce
    <2>2. CASE s = i
      <3>1. i + 1 .. i = {}
        OBVIOUS
      <3> QED
        BY <2>1, <2>2, <3>1
    <2>3. CASE s # i
      <3>1. s \in 1 .. i - 1 /\ s \in 1 .. Len(bytes) /\ s + 1 .. i = s + 1 .. i - 1 \union {i}
        BY <1>2, <2>3
      <3>2. \A x \in s + 1 .. i - 1 : x \in 1 .. Len(bytes)
        BY <1>2
      <3>3. InForce(s, i) <=> TakesEffect(s) /\ \A x \in s + 1 .. i - 1 : ~ TakesEffect(x)
        BY <3>1 DEF InForce
      <3>4. (TakesEffect(s)' <=> TakesEffect(s)) /\ \A x \in s + 1 .. i - 1 : TakesEffect(x)' <=> TakesEffect(x)
        BY <1>5, <3>1, <3>2
      <3>5. (\A x \in s + 1 .. i : ~ TakesEffect(x)')
              <=> (~ TakesEffect(i)' /\ \A x \in s + 1 .. i - 1 : ~ TakesEffect(x)')
        BY <3>1
      <3> QED
        BY <2>1, <2>3, <3>3, <3>4, <3>5
    <2> QED
      BY <2>2, <2>3
  <1> QED
    BY <1>5, <1>6, <1>7, <1>8

(* At most one status is in force at a place.                              *)
LEMMA OneInForce ==
  ASSUME NEW i \in Nat, NEW s, NEW t, InForce(s, i), InForce(t, i)
  PROVE  s = t
  <1>1. s \in 1 .. i - 1 /\ t \in 1 .. i - 1
    BY DEF InForce
  <1>2. ~ (s < t)
    <2> SUFFICES ASSUME s < t PROVE FALSE
      OBVIOUS
    <2>1. t \in s + 1 .. i - 1
      BY <1>1
    <2> QED
      BY <2>1 DEF InForce
  <1>3. ~ (t < s)
    <2> SUFFICES ASSUME t < s PROVE FALSE
      OBVIOUS
    <2>1. s \in t + 1 .. i - 1
      BY <1>1
    <2> QED
      BY <2>1 DEF InForce
  <1> QED
    BY <1>1, <1>2, <1>3

LEMMA ArgumentsFeed ==
  ASSUME TypeInv, NEW b \in Bytes, bytes' = Append(bytes, b), NEW i \in Nat, i = Len(bytes) + 1
  PROVE  /\ \A s, j \in 1 .. Len(bytes) : Arguments(s, j)' = Arguments(s, j)
         /\ \A s \in 1 .. Len(bytes) :
              Arguments(s, i)' = Arguments(s, Len(bytes)) \union (IF b = "data" THEN {i} ELSE {})
         /\ Arguments(i, i)' = {}
         /\ \A s \in 1 .. Len(bytes) :
              /\ IsFiniteSet(Arguments(s, Len(bytes))) /\ Cardinality(Arguments(s, Len(bytes))) \in Nat
              /\ i \notin Arguments(s, Len(bytes)) /\ Arguments(s, Len(bytes)) \subseteq 1 .. Len(bytes)
              /\ Cardinality(Arguments(s, Len(bytes)) \union {i}) = Cardinality(Arguments(s, Len(bytes))) + 1
  <1>1. bytes \in Seq(Bytes)
    BY DEF TypeInv, TypeOK
  <1>2. /\ Len(bytes) \in Nat /\ bytes'[i] = b /\ \A j \in 1 .. Len(bytes) : bytes'[j] = bytes[j]
    BY <1>1, OneMoreByte
  <1>3. ASSUME NEW s \in 1 .. Len(bytes), NEW j \in 1 .. Len(bytes) PROVE Arguments(s, j)' = Arguments(s, j)
    <2>1. \A x \in s + 1 .. j : x \in 1 .. Len(bytes)
      BY <1>2
    <2>2. \A x \in s + 1 .. j : bytes'[x] = bytes[x]
      BY <1>2, <2>1
    <2> QED
      BY <2>2 DEF Arguments
  <1>4. ASSUME NEW s \in 1 .. Len(bytes)
        PROVE  Arguments(s, i)' = Arguments(s, Len(bytes)) \union (IF b = "data" THEN {i} ELSE {})
    <2>1. s + 1 .. i = s + 1 .. Len(bytes) \union {i} /\ \A x \in s + 1 .. Len(bytes) : x \in 1 .. Len(bytes)
      BY <1>2
    <2>2. \A x \in s + 1 .. Len(bytes) : bytes'[x] = bytes[x]
      BY <1>2, <2>1
    <2> QED
      BY <1>2, <2>1, <2>2 DEF Arguments
  <1>5. Arguments(i, i)' = {}
    <2>1. i + 1 .. i = {}
      OBVIOUS
    <2> QED
      BY <2>1 DEF Arguments
  <1>6. ASSUME NEW s \in 1 .. Len(bytes)
        PROVE  /\ IsFiniteSet(Arguments(s, Len(bytes))) /\ Cardinality(Arguments(s, Len(bytes))) \in Nat
               /\ i \notin Arguments(s, Len(bytes)) /\ Arguments(s, Len(bytes)) \subseteq 1 .. Len(bytes)
               /\ Cardinality(Arguments(s, Len(bytes)) \union {i}) = Cardinality(Arguments(s, Len(bytes))) + 1
    <2> DEFINE A == Arguments(s, Len(bytes))
    <2>1. A \subseteq 1 .. Len(bytes)
      BY <1>2 DEF Arguments
    <2> HIDE DEF A
    <2>2. i \notin A
      BY <1>2, <2>1
    <2>3. IsFiniteSet(1 .. Len(bytes))
      BY <1>2, FS_Interval
    <2>4. IsFiniteSet(A)
      BY <2>1, <2>3, FS_Subset
    <2>5. Cardinality(A) \in Nat
      BY <2>4, FS_CardinalityType
    <2>6. Cardinality(A \union {i}) = Cardinality(A) + 1
      BY <2>2, <2>4, FS_AddElement
    <2> QED
      BY <2>1, <2>2, <2>4, <2>5, <2>6 DEF A
  <1> QED
    BY <1>3, <1>4, <1>5, <1>6

LEMMA TurnsOfTwo ==
  \A a \in Nat : /\ a % 1 = 0 /\ a % 2 \in 0 .. 1
                 /\ a % 2 = 0 => (a + 1) % 2 = 1
                 /\ a % 2 = 1 => (a + 1) % 2 = 0
  OBVIOUS

(* The status in force, and how many of its data bytes have come.          *)
Counted(s) == Cardinality(Arguments(s, Len(bytes)))

Served ==
  \A s \in Places : s = running_status =>
    /\ InForce(s, Len(bytes) + 1)
    /\ bytes[s] \in Voice => /\ data[2] = 0 /\ (data_pos = 0 => data[1] = 0)
                             /\ Counted(s) % data_byte_count = data_pos
    /\ bytes[s] \in Common => Counted(s) = data_pos
    /\ data_pos = 1 => /\ data[1] \in Arguments(s, Len(bytes))
                       /\ \A j \in Arguments(s, Len(bytes)) : j <= data[1]

(* Where no status is in force none waits for a data byte.                 *)
NoneWaits ==
  running_status = 0 =>
    \A s \in Places : InForce(s, Len(bytes) + 1) =>
      /\ bytes[s] \notin Voice
      /\ bytes[s] \in Common => Counted(s) >= expected_data_bytes(bytes[s])

(* A byte that is no data byte and takes no effect changes neither.        *)
LEMMA ServedIdle ==
  ASSUME TypeInv, Kept, Served, NoneWaits, NEW b \in Bytes, bytes' = Append(bytes, b),
         NEW i \in Nat, i = Len(bytes) + 1, UNCHANGED statusVars,
         b = "realtime" \/ (b = "F7" /\ ~ in_sysex)
  PROVE  Served' /\ NoneWaits'
  <1>1. bytes \in Seq(Bytes) /\ UNCHANGED <<running_status, data_byte_count, data_pos, data>>
    BY DEF TypeInv, TypeOK, statusVars
  <1>2. /\ Len(bytes) \in Nat /\ Len(bytes') = i /\ bytes'[i] = b
        /\ \A j \in 1 .. Len(bytes) : bytes'[j] = bytes[j]
    BY <1>1, OneMoreByte
  <1>3. ~ TakesEffect(i)' /\ \A s \in 1 .. i : InForce(s, i + 1)' => s # i /\ InForce(s, i)
    BY EffectFeed
  <1>4. \A s \in 1 .. i : s # i /\ InForce(s, i) => InForce(s, i + 1)'
    BY <1>3, EffectFeed
  <1>5. \A s : InForce(s, Len(bytes) + 1)' <=> InForce(s, i + 1)'
    BY <1>2 DEF InForce
  <1>6. \A s \in 1 .. Len(bytes) : Arguments(s, Len(bytes))' = Arguments(s, Len(bytes))
    <2>1. \A s : Arguments(s, Len(bytes))' = Arguments(s, i)'
      BY <1>2 DEF Arguments
    <2>2. ASSUME NEW s \in 1 .. Len(bytes) PROVE Arguments(s, i)' = Arguments(s, Len(bytes))
      <3>1. Arguments(s, i)' = Arguments(s, Len(bytes)) \union (IF b = "data" THEN {i} ELSE {})
        BY ArgumentsFeed
      <3>2. b # "data"
        OBVIOUS
      <3> QED
        BY <3>1, <3>2
    <2> QED
      BY <2>1, <2>2
  <1>7. \A s \in 1 .. Len(bytes) : Counted(s)' = Counted(s)
    BY <1>6 DEF Counted
  <1>8. 1 .. i = 1 .. Len(bytes) \union {i} /\ Places = 1 .. Len(bytes) /\ Places' = 1 .. i
    BY <1>2 DEF Places
  <1>9. running_status \in 0 .. Len(bytes)
    BY DEF TypeInv, TypeOK
  <1>10. ASSUME NEW s \in 1 .. i, s = running_status'
         PROVE  /\ InForce(s, Len(bytes) + 1)'
                /\ bytes'[s] \in Voice => /\ data'[2] = 0 /\ (data_pos' = 0 => data'[1] = 0)
                                          /\ Counted(s)' % data_byte_count' = data_pos'
                /\ bytes'[s] \in Common => Counted(s)' = data_pos'
                /\ data_pos' = 1 => /\ data'[1] \in Arguments(s, Len(bytes))'
                                    /\ \A j \in Arguments(s, Len(bytes))' : j <= data'[1]
    <2>1. s \in 1 .. Len(bytes) /\ s # i /\ s = running_status
      BY <1>1, <1>2, <1>9, <1>10
    <2>2. /\ InForce(s, Len(bytes) + 1)
          /\ bytes[s] \in Voice => /\ data[2] = 0 /\ (data_pos = 0 => data[1] = 0)
                                   /\ Counted(s) % data_byte_count = data_pos
          /\ bytes[s] \in Common => Counted(s) = data_pos
          /\ data_pos = 1 => /\ data[1] \in Arguments(s, Len(bytes))
                             /\ \A j \in Arguments(s, Len(bytes)) : j <= data[1]
      BY <1>8, <2>1 DEF Served
    <2>3. InForce(s, Len(bytes) + 1)'
      BY <1>4, <1>5, <2>1, <2>2
    <2> QED
      BY <1>1, <1>2, <1>6, <1>7, <2>1, <2>2, <2>3
  <1>11. Served'
    BY <1>8, <1>10 DEF Served
  <1>12. ASSUME running_status' = 0, NEW s \in 1 .. i, InForce(s, Len(bytes) + 1)'
         PROVE  /\ bytes'[s] \notin Voice
                /\ bytes'[s] \in Common => Counted(s)' >= expected_data_bytes(bytes'[s])
    <2>1. s \in 1 .. Len(bytes) /\ InForce(s, Len(bytes) + 1)
      BY <1>3, <1>5, <1>8, <1>12
    <2> QED
      BY <1>1, <1>2, <1>7, <1>8, <1>12, <2>1 DEF NoneWaits
  <1>13. NoneWaits'
    BY <1>8, <1>12 DEF NoneWaits
  <1> QED
    BY <1>11, <1>13

(* A status byte that waits for nothing more.                              *)
LEMMA ServedNone ==
  ASSUME TypeInv, Kept, NEW b \in Bytes, bytes' = Append(bytes, b),
         NEW i \in Nat, i = Len(bytes) + 1, running_status' = 0,
         b \notin {"data", "realtime"}, b = "F7" => in_sysex, b \notin Voice, expected_data_bytes(b) = 0
  PROVE  Served' /\ NoneWaits'
  <1>1. bytes \in Seq(Bytes)
    BY DEF TypeInv, TypeOK
  <1>2. /\ Len(bytes) \in Nat /\ Len(bytes') = i /\ bytes'[i] = b
    BY <1>1, OneMoreByte
  <1>3. \A s \in 1 .. i : InForce(s, i + 1)' => s = i
    BY EffectFeed
  <1>4. \A s : InForce(s, Len(bytes) + 1)' <=> InForce(s, i + 1)'
    BY <1>2 DEF InForce
  <1>5. Counted(i)' = 0
    <2>1. Arguments(i, Len(bytes))' = Arguments(i, i)'
      BY <1>2 DEF Arguments
    <2>2. Arguments(i, Len(bytes))' = {}
      BY <2>1, ArgumentsFeed
    <2> QED
      BY <2>2, FS_EmptySet DEF Counted
  <1>6. Places' = 1 .. i
    BY <1>2 DEF Places
  <1>7. Served'
    BY <1>6 DEF Served
  <1>8. ASSUME NEW s \in 1 .. i, InForce(s, Len(bytes) + 1)'
        PROVE  /\ bytes'[s] \notin Voice
               /\ bytes'[s] \in Common => Counted(s)' >= expected_data_bytes(bytes'[s])
    <2>1. s = i
      BY <1>3, <1>4, <1>8
    <2> QED
      BY <1>2, <1>5, <2>1
  <1> QED
    BY <1>6, <1>7, <1>8 DEF NoneWaits

(* A status byte that waits for data bytes.                                *)
LEMMA ServedNew ==
  ASSUME TypeInv, Kept, NEW b \in Bytes, bytes' = Append(bytes, b),
         NEW i \in Nat, i = Len(bytes) + 1, TakeStatus(b, i),
         b \in Voice \union {"common1", "common2"}
  PROVE  Served' /\ NoneWaits'
  <1>1. bytes \in Seq(Bytes)
    BY DEF TypeInv, TypeOK
  <1>2. /\ Len(bytes) \in Nat /\ Len(bytes') = i /\ bytes'[i] = b
    BY <1>1, OneMoreByte
  <1>3. /\ expected_data_bytes(b) \in {1, 2}
        /\ running_status' = i /\ data_byte_count' = expected_data_bytes(b) /\ data_pos' = 0
        /\ b \in Voice => data' = <<0, 0>>
    <2>1. expected_data_bytes(b) \in {1, 2}
      BY Expected
    <2> QED
      BY <2>1 DEF TakeStatus
  <1>4. b \notin {"data", "realtime", "F7"}
    BY DEF Voice
  <1>5. InForce(i, Len(bytes) + 1)'
    <2>1. i \in 1 .. i
      BY <1>2
    <2>2. InForce(i, i + 1)'
      BY <1>4, <2>1, EffectFeed
    <2> QED
      BY <1>2, <2>2 DEF InForce
  <1>6. Counted(i)' = 0
    <2>1. Arguments(i, Len(bytes))' = Arguments(i, i)'
      BY <1>2 DEF Arguments
    <2>2. Arguments(i, Len(bytes))' = {}
      BY <2>1, ArgumentsFeed
    <2> QED
      BY <2>2, FS_EmptySet DEF Counted
  <1>7. 0 % 1 = 0 /\ 0 % 2 = 0
    OBVIOUS
  <1>8. Counted(i)' % data_byte_count' = data_pos' /\ Counted(i)' = data_pos' /\ data_pos' # 1
    BY <1>3, <1>6, <1>7
  <1>9. bytes'[i] \in Voice => data'[1] = 0 /\ data'[2] = 0
    BY <1>2, <1>3
  <1>10. \A s \in Places' : s = running_status' => s = i
    BY <1>3
  <1>11. Served'
    BY <1>5, <1>8, <1>9, <1>10 DEF Served
  <1>12. running_status' # 0
    BY <1>2, <1>3
  <1> QED
    BY <1>11, <1>12 DEF NoneWaits

(* What a data byte adds to the count of every status before it.           *)
LEMMA DataCounts ==
  ASSUME TypeInv, Kept, NEW b \in Bytes, bytes' = Append(bytes, b), b = "data",
         NEW i \in Nat, i = Len(bytes) + 1
  PROVE  /\ Len(bytes) \in Nat /\ Places = 1 .. Len(bytes) /\ Places' = 1 .. i /\ bytes'[i] = b
         /\ \A s \in 1 .. Len(bytes) :
              /\ bytes'[s] = bytes[s]
              /\ InForce(s, Len(bytes) + 1)' <=> InForce(s, Len(bytes) + 1)
              /\ Arguments(s, Len(bytes))' = Arguments(s, Len(bytes)) \union {i}
              /\ Arguments(s, i)' = Arguments(s, Len(bytes)) \union {i}
              /\ Counted(s) \in Nat /\ Counted(s)' = Counted(s) + 1
              /\ Cardinality(Arguments(s, i))' = Counted(s) + 1
              /\ Arguments(s, Len(bytes)) \subseteq 1 .. Len(bytes)
         /\ ~ InForce(i, Len(bytes) + 1)' /\ ~ InForce(i, i)'
         /\ \A s \in 1 .. Len(bytes) : InForce(s, i)' <=> InForce(s, Len(bytes) + 1)
  <1>1. bytes \in Seq(Bytes)
    BY DEF TypeInv, TypeOK
  <1>2. /\ Len(bytes) \in Nat /\ Len(bytes') = i /\ bytes'[i] = b
        /\ \A j \in 1 .. Len(bytes) : bytes'[j] = bytes[j]
    BY <1>1, OneMoreByte
  <1>3. \A s : InForce(s, Len(bytes) + 1)' <=> InForce(s, i + 1)'
    BY <1>2 DEF InForce
  <1>4. Places = 1 .. Len(bytes) /\ Places' = 1 .. i
    BY <1>2 DEF Places
  <1>5. ~ TakesEffect(i)'
    BY EffectFeed
  <1>6. ~ InForce(i, i + 1)'
    <2>1. i \in 1 .. i
      BY <1>2
    <2> QED
      BY <1>5, <2>1, EffectFeed
  <1>7. ~ InForce(i, i)'
    <2>1. i \notin 1 .. i - 1
      OBVIOUS
    <2> QED
      BY <2>1 DEF InForce
  <1>8. ASSUME NEW s \in 1 .. Len(bytes)
        PROVE  /\ InForce(s, Len(bytes) + 1)' <=> InForce(s, Len(bytes) + 1)
               /\ Arguments(s, Len(bytes))' = Arguments(s, Len(bytes)) \union {i}
               /\ Arguments(s, i)' = Arguments(s, Len(bytes)) \union {i}
               /\ Counted(s) \in Nat /\ Counted(s)' = Counted(s) + 1
               /\ Cardinality(Arguments(s, i))' = Counted(s) + 1
               /\ Arguments(s, Len(bytes)) \subseteq 1 .. Len(bytes)
               /\ InForce(s, i)' <=> InForce(s, Len(bytes) + 1)
    <2>1. s \in 1 .. i /\ s # i /\ i \in 1 .. i
      BY <1>2
    <2>2. InForce(s, i + 1)' <=> InForce(s, i)
      BY <1>5, <2>1, EffectFeed
    <2>3. InForce(s, i)' <=> InForce(s, i)
      BY <2>1, EffectFeed
    <2>4. Arguments(s, i)' = Arguments(s, Len(bytes)) \union {i}
      <3>1. Arguments(s, i)' = Arguments(s, Len(bytes)) \union (IF b = "data" THEN {i} ELSE {})
        BY ArgumentsFeed
      <3> QED
        BY <3>1
    <2>5. Arguments(s, Len(bytes))' = Arguments(s, i)'
      BY <1>2 DEF Arguments
    <2>6. /\ Cardinality(Arguments(s, Len(bytes))) \in Nat /\ Arguments(s, Len(bytes)) \subseteq 1 .. Len(bytes)
          /\ Cardinality(Arguments(s, Len(bytes)) \union {i}) = Cardinality(Arguments(s, Len(bytes))) + 1
      BY ArgumentsFeed
    <2>7. Counted(s)' = Cardinality(Arguments(s, Len(bytes))') /\ Counted(s) = Cardinality(Arguments(s, Len(bytes)))
      BY DEF Counted
    <2>8. Cardinality(Arguments(s, i))' = Counted(s) + 1
      BY <2>4, <2>6, <2>7
    <2>9. Counted(s)' = Counted(s) + 1
      BY <2>4, <2>5, <2>6, <2>7
    <2> QED
      BY <1>3, <2>2, <2>3, <2>4, <2>5, <2>6, <2>7, <2>8, <2>9
  <1> QED
    BY <1>2, <1>3, <1>4, <1>6, <1>7, <1>8

LEMMA ServedData ==
  ASSUME TypeInv, Kept, Served, NoneWaits, NEW b \in Bytes, bytes' = Append(bytes, b), b = "data",
         NEW i \in Nat, i = Len(bytes) + 1, StatusMoves(b, i)
  PROVE  Served' /\ NoneWaits'
  <1>1. /\ Len(bytes) \in Nat /\ Places = 1 .. Len(bytes) /\ Places' = 1 .. i /\ bytes'[i] = b
        /\ ~ InForce(i, Len(bytes) + 1)'
        /\ \A s \in 1 .. Len(bytes) :
              /\ bytes'[s] = bytes[s]
              /\ InForce(s, Len(bytes) + 1)' <=> InForce(s, Len(bytes) + 1)
              /\ Arguments(s, Len(bytes))' = Arguments(s, Len(bytes)) \union {i}
              /\ Counted(s) \in Nat /\ Counted(s)' = Counted(s) + 1
              /\ Arguments(s, Len(bytes)) \subseteq 1 .. Len(bytes)
    BY DataCounts
  <1>2. 1 .. i = 1 .. Len(bytes) \union {i} /\ i \notin 1 .. Len(bytes)
    BY <1>1
  <1>3. /\ running_status \in 0 .. Len(bytes) /\ StatusInv /\ data \in [1 .. 2 -> 0 .. Len(bytes)]
        /\ data_pos \in 0 .. 1 /\ data_byte_count \in 0 .. 2
    BY DEF TypeInv, TypeOK
  <1>4. CASE running_status = 0
    <2>1. running_status' = 0
      BY <1>4 DEF StatusMoves, statusVars, Voice, Common
    <2>2. Served'
      BY <1>1, <2>1 DEF Served
    <2>3. ASSUME NEW s \in 1 .. i, InForce(s, Len(bytes) + 1)'
          PROVE  /\ bytes'[s] \notin Voice
                 /\ bytes'[s] \in Common => Counted(s)' >= expected_data_bytes(bytes'[s])
      <3>1. s \in 1 .. Len(bytes) /\ InForce(s, Len(bytes) + 1)
        BY <1>1, <1>2, <2>3
      <3>2. bytes[s] \notin Voice /\ (bytes[s] \in Common => Counted(s) >= expected_data_bytes(bytes[s]))
        BY <1>1, <1>4, <3>1 DEF NoneWaits
      <3>3. bytes[s] \in Common => expected_data_bytes(bytes[s]) \in 0 .. 2
        BY Expected DEF Common
      <3> QED
        BY <1>1, <3>1, <3>2, <3>3
    <2> QED
      BY <1>1, <2>2, <2>3 DEF NoneWaits
  <1>5. CASE running_status # 0
    <2> DEFINE r == running_status
    <2>1. /\ r \in 1 .. Len(bytes) /\ ~ in_sysex /\ bytes[r] \in Voice \union {"common1", "common2"}
          /\ data_byte_count = expected_data_bytes(bytes[r]) /\ data_pos < data_byte_count
          /\ data_byte_count \in {1, 2}
      BY <1>1, <1>3, <1>5, Expected DEF StatusInv
    <2>2. /\ InForce(r, Len(bytes) + 1)
          /\ bytes[r] \in Voice => /\ data[2] = 0 /\ (data_pos = 0 => data[1] = 0)
                                   /\ Counted(r) % data_byte_count = data_pos
          /\ bytes[r] \in Common => Counted(r) = data_pos
          /\ data_pos = 1 => /\ data[1] \in Arguments(r, Len(bytes))
                             /\ \A j \in Arguments(r, Len(bytes)) : j <= data[1]
      BY <1>1, <2>1 DEF Served
    <2>3. \A a \in Nat : /\ a % 1 = 0 /\ a % 2 \in 0 .. 1
                         /\ a % 2 = 0 => (a + 1) % 2 = 1
                         /\ a % 2 = 1 => (a + 1) % 2 = 0
      BY TurnsOfTwo
    <2>4. \A s \in 1 .. i : InForce(s, Len(bytes) + 1)' => s = r
      <3>1. ASSUME NEW s \in 1 .. i, InForce(s, Len(bytes) + 1)' PROVE s = r
        <4>1. s \in 1 .. Len(bytes) /\ InForce(s, i)
          BY <1>1, <1>2, <3>1
        <4> QED
          BY <2>2, <4>1, OneInForce
      <3> QED
        BY <3>1
    <2>5. (bytes[r] \in Voice) <=> ~ (bytes[r] \in Common)
      BY <2>1 DEF Voice, Common
    <2>6. CASE data_pos + 1 >= data_byte_count
      <3>1. /\ data_byte_count' = data_byte_count /\ data' = <<0, 0>> /\ data_pos' = 0
            /\ running_status' = IF bytes[r] \in Voice THEN r ELSE 0
        BY <1>5, <2>1, <2>6 DEF StatusMoves, Voice, Common
      <3>2. data_pos + 1 = data_byte_count
        BY <1>3, <2>1, <2>6
      <3>3. CASE bytes[r] \in Voice
        <4>1. (Counted(r) + 1) % data_byte_count = 0
          <5>1. Counted(r) \in Nat /\ Counted(r) + 1 \in Nat /\ Counted(r) % data_byte_count = data_pos
            BY <1>1, <2>1, <2>2, <3>3
          <5>2. CASE data_byte_count = 1
            BY <2>3, <5>1, <5>2
          <5>3. CASE data_byte_count = 2
            <6>1. 1 + 1 = 2 /\ \A x \in 0 .. 1 : x + 1 = 2 => x = 1
              OBVIOUS
            <6>2. data_pos = 1
              BY <1>3, <3>2, <5>3, <6>1
            <6>3. Counted(r) % 2 = 1
              BY <5>1, <5>3, <6>2
            <6>4. (Counted(r) + 1) % 2 = 0
              BY <2>3, <5>1, <6>3, Zenon
            <6> QED
              BY <5>3, <6>4
          <5> QED
            BY <2>1, <5>2, <5>3
        <4>2. \A s \in 1 .. i : s = running_status' => s = r
          BY <3>1, <3>3
        <4>3. /\ InForce(r, Len(bytes) + 1) /\ bytes'[r] = bytes[r] /\ bytes'[r] \notin Common
              /\ Counted(r) + 1 \in Nat
          <5>1. InForce(r, Len(bytes) + 1) /\ bytes[r] \notin Common
            BY <2>2, <2>5, <3>3
          <5>2. bytes'[r] = bytes[r] /\ Counted(r) \in Nat
            BY <1>1, <2>1
          <5>3. bytes'[r] \notin Common
            BY <5>1, <5>2
          <5>4. Counted(r) + 1 \in Nat
            BY <5>2
          <5> QED
            BY <5>1, <5>2, <5>3, <5>4
        <4> DEFINE One(s) == /\ InForce(s, Len(bytes) + 1)'
                             /\ bytes'[s] \in Voice => /\ data'[2] = 0 /\ (data_pos' = 0 => data'[1] = 0)
                                                       /\ Counted(s)' % data_byte_count' = data_pos'
                             /\ bytes'[s] \in Common => Counted(s)' = data_pos'
                             /\ data_pos' = 1 => /\ data'[1] \in Arguments(s, Len(bytes))'
                                                 /\ \A j \in Arguments(s, Len(bytes))' : j <= data'[1]
        <4>4. ASSUME NEW s \in 1 .. Len(bytes), s = r PROVE One(s)
          BY <1>1, <3>1, <4>1, <4>3, <4>4
        <4>5. Served'
          BY <1>1, <2>1, <4>2, <4>4 DEF Served
        <4>6. running_status' # 0
          BY <2>1, <3>1, <3>3
        <4> QED
          BY <4>5, <4>6 DEF NoneWaits
      <3>4. CASE bytes[r] \notin Voice
        <4>1. running_status' = 0
          BY <3>1, <3>4
        <4>2. Served'
          BY <1>1, <4>1 DEF Served
        <4>3. ASSUME NEW s \in 1 .. i, InForce(s, Len(bytes) + 1)'
              PROVE  /\ bytes'[s] \notin Voice
                     /\ bytes'[s] \in Common => Counted(s)' >= expected_data_bytes(bytes'[s])
          <5>1. s = r /\ s \in 1 .. Len(bytes)
            BY <2>1, <2>4, <4>3
          <5>2. Counted(s)' = data_pos + 1 /\ bytes'[s] = bytes[s]
            BY <1>1, <2>2, <2>5, <3>4, <5>1
          <5>3. data_pos + 1 >= expected_data_bytes(bytes[s])
            BY <2>1, <2>6, <5>1
          <5> QED
            BY <3>4, <5>1, <5>2, <5>3
        <4> QED
          BY <1>1, <4>2, <4>3 DEF NoneWaits
      <3> QED
        BY <3>3, <3>4
    <2>7. CASE ~ (data_pos + 1 >= data_byte_count)
      <3>1. /\ data_byte_count' = data_byte_count /\ data' = Held(i) /\ data_pos' = data_pos + 1
            /\ running_status' = r
        BY <1>5, <2>1, <2>7 DEF StatusMoves, Voice, Common
      <3>2. data_pos = 0 /\ data_byte_count = 2
        BY <1>3, <2>1, <2>7
      <3>3. data'[1] = i /\ data'[2] = data[2]
        <4>1. data' = [data EXCEPT ![1] = i]
          <5>1. 0 + 1 = 1
            OBVIOUS
          <5> QED
            BY <3>1, <3>2, <5>1 DEF Held
        <4> QED
          BY <1>3, <4>1
      <3>4. Counted(r) \in Nat /\ (bytes[r] \in Voice => (Counted(r) + 1) % 2 = 1)
            /\ (bytes[r] \in Common => Counted(r) + 1 = 1)
        <4>1. Counted(r) \in Nat
          BY <1>1, <2>1
        <4>2. ASSUME bytes[r] \in Voice PROVE (Counted(r) + 1) % 2 = 1
          <5>1. Counted(r) % 2 = 0
            BY <2>2, <3>2, <4>2
          <5> QED
            BY <2>3, <4>1, <5>1, Zenon
        <4>3. ASSUME bytes[r] \in Common PROVE Counted(r) + 1 = 1
          BY <2>2, <3>2, <4>3
        <4> QED
          BY <4>1, <4>2, <4>3
      <3>5. Arguments(r, Len(bytes)) \subseteq 1 .. Len(bytes)
        BY <1>1, <2>1
      <3>6. \A j \in 1 .. Len(bytes) : j <= i
        BY <1>1
      <3> DEFINE One(s) == /\ InForce(s, Len(bytes) + 1)'
                           /\ bytes'[s] \in Voice => /\ data'[2] = 0 /\ (data_pos' = 0 => data'[1] = 0)
                                                     /\ Counted(s)' % data_byte_count' = data_pos'
                           /\ bytes'[s] \in Common => Counted(s)' = data_pos'
                           /\ data_pos' = 1 => /\ data'[1] \in Arguments(s, Len(bytes))'
                                               /\ \A j \in Arguments(s, Len(bytes))' : j <= data'[1]
      <3>7. ASSUME NEW s \in 1 .. Len(bytes), s = r PROVE One(s)
        <4>1. InForce(s, Len(bytes) + 1)' /\ bytes'[s] = bytes[s] /\ Counted(s)' = Counted(s) + 1
              /\ Arguments(s, Len(bytes))' = Arguments(s, Len(bytes)) \union {i}
          BY <1>1, <2>2, <3>7
        <4>2. data_pos' = 1 /\ data_byte_count' = 2
          BY <3>1, <3>2
        <4>3. \A j \in Arguments(s, Len(bytes))' : j <= data'[1]
          BY <3>3, <3>5, <3>6, <3>7, <4>1
        <4>4. data'[1] \in Arguments(s, Len(bytes))'
          BY <3>3, <4>1
        <4>5. bytes'[s] \in Voice => /\ data'[2] = 0 /\ (data_pos' = 0 => data'[1] = 0)
                                    /\ Counted(s)' % data_byte_count' = data_pos'
          BY <2>2, <3>3, <3>4, <3>7, <4>1, <4>2
        <4>6. bytes'[s] \in Common => Counted(s)' = data_pos'
          BY <3>4, <3>7, <4>1, <4>2
        <4> QED
          BY <4>1, <4>2, <4>3, <4>4, <4>5, <4>6
      <3>8. Served'
        BY <1>1, <2>1, <3>1, <3>7 DEF Served
      <3>9. running_status' # 0
        BY <1>5, <3>1
      <3> QED
        BY <3>8, <3>9 DEF NoneWaits
    <2> QED
      BY <2>6, <2>7
  <1> QED
    BY <1>4, <1>5

LEMMA ServedFeed ==
  ASSUME TypeInv, Kept, Served, NoneWaits, NEW b \in Bytes, Feed(b)
  PROVE  Served' /\ NoneWaits'
  <1> DEFINE i == Len(bytes) + 1
  <1>1. bytes' = Append(bytes, b) /\ StatusMoves(b, i) /\ i \in Nat
    BY FeedMoves, SaidType
  <1>2. in_sysex => running_status = 0
    BY DEF TypeInv, StatusInv
  <1>3. b \in Classes
    BY ConvAssumption
  <1>4. CASE b = "realtime" \/ (b = "F7" /\ ~ in_sysex)
    <2>1. UNCHANGED statusVars
      BY <1>1, <1>4 DEF StatusMoves, Voice, Common
    <2> QED
      BY <1>1, <1>4, <2>1, ServedIdle
  <1>5. CASE b = "F0" \/ (b = "F7" /\ in_sysex)
    <2>1. running_status' = 0
      BY <1>1, <1>2, <1>5 DEF StatusMoves, statusVars, Voice, Common
    <2>2. b \notin {"data", "realtime"} /\ b \notin Voice /\ expected_data_bytes(b) = 0 /\ (b = "F7" => in_sysex)
      BY <1>5, Expected DEF Voice
    <2> QED
      BY <1>1, <2>1, <2>2, ServedNone
  <1>6. CASE b \in Voice \union {"common1", "common2"}
    <2>1. TakeStatus(b, i)
      BY <1>1, <1>6 DEF StatusMoves, Voice, Common
    <2> QED
      BY <1>1, <1>6, <2>1, ServedNew
  <1>7. CASE b = "common0"
    <2>1. TakeStatus(b, i) /\ expected_data_bytes(b) = 0
      BY <1>1, <1>7, Expected DEF StatusMoves, Common
    <2>2. running_status' = 0 /\ b \notin {"data", "realtime", "F7"} /\ b \notin Voice
      BY <1>7, <2>1 DEF TakeStatus, Voice
    <2> QED
      BY <1>1, <2>1, <2>2, ServedNone
  <1>8. CASE b = "data"
    BY <1>1, <1>8, ServedData
  <1> QED
    BY <1>3, <1>4, <1>5, <1>6, <1>7, <1>8 DEF Classes, Common

(* What was completed stays completed, and means the same.                 *)
LEMMA CompletesStays ==
  ASSUME TypeInv, Kept, NEW b \in Bytes, bytes' = Append(bytes, b), NEW i \in Nat, i = Len(bytes) + 1,
         NEW s \in 1 .. i, NEW j \in 1 .. Len(bytes)
  PROVE  /\ s = i => ~ Completes(s, j)'
         /\ s # i => (Completes(s, j)' <=> Completes(s, j)) /\ Meaning(s, j)' = Meaning(s, j)
  <1>1. bytes \in Seq(Bytes)
    BY DEF TypeInv, TypeOK
  <1>2. /\ Len(bytes) \in Nat /\ Len(bytes') = i /\ bytes'[i] = b
        /\ \A x \in 1 .. Len(bytes) : bytes'[x] = bytes[x]
    BY <1>1, OneMoreByte
  <1>3. j \in 1 .. i /\ j # i
    BY <1>2
  <1>4. ASSUME s = i PROVE ~ Completes(s, j)'
    <2>1. ~ InForce(s, j)'
      <3>1. s \notin 1 .. j - 1
        BY <1>2, <1>4
      <3> QED
        BY <3>1 DEF InForce
    <2> QED
      BY <1>3, <1>4, <2>1 DEF Completes
  <1>5. ASSUME s # i
        PROVE  (Completes(s, j)' <=> Completes(s, j)) /\ Meaning(s, j)' = Meaning(s, j)
    <2>1. s \in 1 .. Len(bytes)
      BY <1>2, <1>5
    <2>2. bytes'[s] = bytes[s] /\ bytes'[j] = bytes[j]
      BY <1>2, <2>1
    <2>3. InForce(s, j)' <=> InForce(s, j)
      BY <1>3, EffectFeed
    <2>4. Arguments(s, j)' = Arguments(s, j)
      BY <2>1, ArgumentsFeed
    <2>5. Completes(s, j)' <=> Completes(s, j)
      BY <2>2, <2>3, <2>4 DEF Completes
    <2>6. Meaning(s, j)' = Meaning(s, j)
      BY <2>2, <2>4 DEF Meaning
    <2> QED
      BY <2>5, <2>6
  <1> QED
    BY <1>4, <1>5

(* What the byte at place i completes, and what that means.                *)
CompletedAt(i) == {Meaning(s, i) : s \in {t \in 1 .. i : Completes(t, i)}}

LEMMA ParsedMembers ==
  /\ \A s, j \in Places : Completes(s, j) => Meaning(s, j) \in Parsed
  /\ \A m \in Parsed : \E s, j \in Places : Completes(s, j) /\ m = Meaning(s, j)
  <1>1. ASSUME NEW s \in Places, NEW j \in Places, Completes(s, j) PROVE Meaning(s, j) \in Parsed
    <2>1. <<s, j>> \in {y \in Places \X Places : Completes(y[1], y[2])}
      BY <1>1
    <2> QED
      BY <2>1 DEF Parsed
  <1>2. ASSUME NEW m \in Parsed PROVE \E s, j \in Places : Completes(s, j) /\ m = Meaning(s, j)
    BY DEF Parsed
  <1> QED
    BY <1>1, <1>2

LEMMA ParsedFeed ==
  ASSUME TypeInv, Kept, NEW b \in Bytes, bytes' = Append(bytes, b), NEW i \in Nat, i = Len(bytes) + 1
  PROVE  Parsed' = Parsed \union CompletedAt(i)'
  <1>1. bytes \in Seq(Bytes)
    BY DEF TypeInv, TypeOK
  <1>2. Len(bytes) \in Nat /\ Len(bytes') = i
    BY <1>1, OneMoreByte
  <1>3. Places = 1 .. Len(bytes) /\ Places' = 1 .. i /\ 1 .. i = 1 .. Len(bytes) \union {i}
    BY <1>2 DEF Places
  <1>4. /\ \A s, j \in Places' : Completes(s, j)' => Meaning(s, j)' \in Parsed'
        /\ \A m \in Parsed' : \E s, j \in Places' : Completes(s, j)' /\ m = Meaning(s, j)'
    <2>1. ASSUME NEW s \in Places', NEW j \in Places', Completes(s, j)' PROVE Meaning(s, j)' \in Parsed'
      <3>1. <<s, j>> \in {y \in Places' \X Places' : Completes(y[1], y[2])'}
        BY <2>1
      <3> QED
        BY <3>1 DEF Parsed
    <2>2. ASSUME NEW m \in Parsed' PROVE \E s, j \in Places' : Completes(s, j)' /\ m = Meaning(s, j)'
      BY DEF Parsed
    <2> QED
      BY <2>1, <2>2
  <1>5. /\ \A s, j \in Places : Completes(s, j) => Meaning(s, j) \in Parsed
        /\ \A m \in Parsed : \E s, j \in Places : Completes(s, j) /\ m = Meaning(s, j)
    BY ParsedMembers
  <1>6. /\ \A s \in 1 .. i : Completes(s, i)' => Meaning(s, i)' \in CompletedAt(i)'
        /\ \A m \in CompletedAt(i)' : \E s \in 1 .. i : Completes(s, i)' /\ m = Meaning(s, i)'
    BY DEF CompletedAt
  <1>7. ASSUME NEW m \in Parsed' PROVE m \in Parsed \union CompletedAt(i)'
    <2>1. PICK s \in 1 .. i, j \in 1 .. i : Completes(s, j)' /\ m = Meaning(s, j)'
      BY <1>3, <1>4
    <2>2. CASE j = i
      BY <1>6, <2>1, <2>2
    <2>3. CASE j # i
      <3>1. j \in 1 .. Len(bytes)
        BY <1>3, <2>3
      <3>2. s # i
        BY <2>1, <3>1, CompletesStays
      <3>3. Completes(s, j) /\ m = Meaning(s, j)
        BY <2>1, <3>1, <3>2, CompletesStays
      <3>4. s \in 1 .. Len(bytes)
        BY <1>3, <3>2
      <3> QED
        BY <1>3, <1>5, <3>1, <3>3, <3>4
    <2> QED
      BY <2>2, <2>3
  <1>8. ASSUME NEW m \in Parsed PROVE m \in Parsed'
    <2>1. PICK s \in 1 .. Len(bytes), j \in 1 .. Len(bytes) : Completes(s, j) /\ m = Meaning(s, j)
      BY <1>3, <1>5
    <2>2. s \in 1 .. i /\ s # i /\ j \in 1 .. i
      BY <1>2
    <2>3. Completes(s, j)' /\ m = Meaning(s, j)'
      BY <2>1, <2>2, CompletesStays
    <2> QED
      BY <1>3, <1>4, <2>2, <2>3
  <1>9. ASSUME NEW m \in CompletedAt(i)' PROVE m \in Parsed'
    <2>1. PICK s \in 1 .. i : Completes(s, i)' /\ m = Meaning(s, i)'
      BY <1>6
    <2> QED
      BY <1>3, <1>4, <2>1
  <1> QED
    BY <1>7, <1>8, <1>9

(* A data byte completes the message of the status in force, if its last.  *)
LEMMA DataCompletes ==
  ASSUME TypeInv, Kept, Served, NoneWaits, NEW b \in Bytes, bytes' = Append(bytes, b), b = "data",
         NEW i \in Nat, i = Len(bytes) + 1, NEW s \in 1 .. i
  PROVE  Completes(s, i)' <=> s = running_status /\ data_pos + 1 >= data_byte_count
  <1>1. /\ Len(bytes) \in Nat /\ Places = 1 .. Len(bytes) /\ Places' = 1 .. i /\ bytes'[i] = b
        /\ ~ InForce(i, i)'
        /\ \A t \in 1 .. Len(bytes) :
              /\ bytes'[t] = bytes[t]
              /\ InForce(t, i)' <=> InForce(t, Len(bytes) + 1)
              /\ Counted(t) \in Nat
              /\ Cardinality(Arguments(t, i))' = Counted(t) + 1
    BY DataCounts
  <1>2. /\ running_status \in 0 .. Len(bytes) /\ StatusInv
        /\ data_pos \in 0 .. 1 /\ data_byte_count \in 0 .. 2
    BY DEF TypeInv, TypeOK
  <1>3. Completes(s, i)' <=>
          /\ InForce(s, i)'
          /\ CASE bytes'[s] \in Voice -> Cardinality(Arguments(s, i))' % expected_data_bytes(bytes'[s]) = 0
               [] bytes'[s] \in Common -> Cardinality(Arguments(s, i))' = expected_data_bytes(bytes'[s])
               [] OTHER -> FALSE
    BY <1>1 DEF Completes
  <1>4. CASE s = i
    <2>1. s # running_status
      BY <1>1, <1>2, <1>4
    <2> QED
      BY <1>1, <1>3, <1>4, <2>1
  <1>5. CASE s # i
    <2>1. s \in 1 .. Len(bytes)
      BY <1>1, <1>5
    <2> DEFINE e == expected_data_bytes(bytes[s])
    <2>0. Completes(s, i)' <=>
          /\ InForce(s, Len(bytes) + 1)
          /\ CASE bytes[s] \in Voice -> (Counted(s) + 1) % e = 0
               [] bytes[s] \in Common -> Counted(s) + 1 = e
               [] OTHER -> FALSE
      BY <1>1, <1>3, <2>1
    <2>2. Completes(s, i)' <=>
          /\ InForce(s, Len(bytes) + 1)
          /\ \/ bytes[s] \in Voice /\ (Counted(s) + 1) % e = 0
             \/ bytes[s] \in Common /\ Counted(s) + 1 = e
      <3>1. ~ (bytes[s] \in Voice /\ bytes[s] \in Common)
        BY DEF Voice, Common
      <3> HIDE DEF e
      <3> QED
        BY <2>0, <3>1, Zenon
    <2>3. /\ bytes[s] \in Voice => ~ (bytes[s] \in Common)
          /\ bytes[s] \in Voice \union Common => e \in 0 .. 2
      BY Expected DEF Voice, Common
    <2>4. Counted(s) \in Nat
      BY <1>1, <2>1
    <2> HIDE DEF e
    <2>5. CASE running_status = 0
      <3>1. s # running_status
        BY <2>1, <2>5
      <3>2. InForce(s, Len(bytes) + 1) => bytes[s] \notin Voice /\ (bytes[s] \in Common => Counted(s) >= e)
        BY <1>1, <2>1, <2>5 DEF NoneWaits, e
      <3>3. ASSUME InForce(s, Len(bytes) + 1), bytes[s] \in Common PROVE Counted(s) + 1 # e
        BY <2>3, <2>4, <3>2, <3>3
      <3> QED
        BY <2>2, <3>1, <3>2, <3>3
    <2>6. CASE running_status # 0 /\ s # running_status
      <3>1. running_status \in Places
        BY <1>1, <1>2, <2>6
      <3>2. InForce(running_status, i)
        BY <3>1 DEF Served
      <3>3. ~ InForce(s, i)
        BY <2>6, <3>2, OneInForce
      <3> QED
        BY <2>2, <2>6, <3>3
    <2>7. CASE running_status # 0 /\ s = running_status
      <3>1. /\ bytes[s] \in Voice \union {"common1", "common2"}
            /\ data_byte_count = e /\ data_pos < e /\ e \in {1, 2}
        BY <2>7, Expected DEF StatusInv, TypeInv, e
      <3>2. /\ InForce(s, Len(bytes) + 1)
            /\ bytes[s] \in Voice => Counted(s) % e = data_pos
            /\ bytes[s] \in Common => Counted(s) = data_pos
        BY <1>1, <2>1, <2>7, <3>1 DEF Served
      <3>3. \A a \in Nat : /\ a % 1 = 0 /\ a % 2 \in 0 .. 1
                           /\ a % 2 = 0 => (a + 1) % 2 = 1
                           /\ a % 2 = 1 => (a + 1) % 2 = 0
        BY TurnsOfTwo
      <3>4. CASE bytes[s] \in Voice
        <4>1. (Counted(s) + 1) % e = 0 <=> data_pos + 1 >= e
          <5>0. Counted(s) + 1 \in Nat
            BY <2>4
          <5>1. CASE e = 1
            <6>1. (Counted(s) + 1) % 1 = 0
              BY <3>3, <5>0, Zenon
            <6> QED
              BY <1>2, <5>1, <6>1
          <5>2. CASE e = 2 /\ data_pos = 1
            <6>1. Counted(s) % 2 = 1
              BY <3>2, <3>4, <5>2
            <6>2. (Counted(s) + 1) % 2 = 0
              BY <2>4, <3>3, <6>1, Zenon
            <6> QED
              BY <5>2, <6>2
          <5>3. CASE e = 2 /\ data_pos = 0
            <6>1. Counted(s) % 2 = 0
              BY <3>2, <3>4, <5>3
            <6>2. (Counted(s) + 1) % 2 = 1
              BY <2>4, <3>3, <6>1, Zenon
            <6> QED
              BY <5>3, <6>2
          <5> QED
            BY <1>2, <3>1, <5>1, <5>2, <5>3
        <4> QED
          <5>1. Completes(s, i)' <=> (Counted(s) + 1) % e = 0
            BY <2>2, <2>3, <3>2, <3>4
          <5>2. data_byte_count = e /\ s = running_status
            BY <2>7, <3>1
          <5> QED
            BY <4>1, <5>1, <5>2, Zenon
      <3>5. CASE bytes[s] \notin Voice
        <4>1. bytes[s] \in Common
          BY <3>1, <3>5 DEF Common
        <4>2. Counted(s) + 1 = e <=> data_pos + 1 >= e
          BY <1>2, <3>1, <3>2, <4>1
        <4> QED
          BY <2>2, <2>7, <3>1, <3>2, <3>5, <4>1, <4>2
      <3> QED
        BY <3>4, <3>5
    <2> QED
      BY <2>5, <2>6, <2>7
  <1> QED
    BY <1>4, <1>5

LEMMA FirstOfTwo ==
  ASSUME NEW n \in Nat, NEW a \in 0 .. n, NEW b \in 0 .. n
  PROVE  SubSeq(<<a, b>>, 1, 2) = <<a, b>> /\ SubSeq(<<a, b>>, 1, 1) = <<a>>
  <1> DEFINE d == <<a, b>>
             S == 0 .. n
  <1>1. d \in Seq(S) /\ Len(d) = 2 /\ d[1] = a /\ d[2] = b /\ <<a>> \in Seq(S) /\ Len(<<a>>) = 1 /\ <<a>>[1] = a
    OBVIOUS
  <1> HIDE DEF d, S
  <1>2. ASSUME NEW k \in 1 .. 2
        PROVE  /\ SubSeq(d, 1, k) \in Seq(S) /\ Len(SubSeq(d, 1, k)) = k
               /\ \A x \in 1 .. k : SubSeq(d, 1, k)[x] = d[x]
    <2>1. \A x \in 1 .. k : d[x] \in S
      <3>1. d[1] \in S /\ d[2] \in S
        BY <1>1 DEF S
      <3> QED
        BY <3>1
    <2>2. /\ SubSeq(d, 1, k) \in Seq(S)
          /\ Len(SubSeq(d, 1, k)) = IF 1 <= k THEN k - 1 + 1 ELSE 0
          /\ \A x \in 1 .. k - 1 + 1 : SubSeq(d, 1, k)[x] = d[1 + x - 1]
      <3>1. 1 \in Int /\ k \in Int
        OBVIOUS
      <3> QED
        BY <2>1, <3>1, SubSeqProperties
    <2>3. k - 1 + 1 = k /\ 1 <= k /\ \A x \in 1 .. k : 1 + x - 1 = x
      OBVIOUS
    <2> QED
      BY <2>2, <2>3
  <1>3. SubSeq(d, 1, 2) = d
    <2>1. 2 \in 1 .. 2
      OBVIOUS
    <2> DEFINE q == SubSeq(d, 1, 2)
    <2>2. q \in Seq(S) /\ Len(q) = 2 /\ \A x \in 1 .. 2 : q[x] = d[x]
      BY <1>2, <2>1
    <2> HIDE DEF q
    <2> QED
      BY <1>1, <2>2, SeqEqual DEF q
  <1>4. SubSeq(d, 1, 1) = <<a>>
    <2>1. 1 \in 1 .. 2
      OBVIOUS
    <2> DEFINE q == SubSeq(d, 1, 1)
               r == <<a>>
    <2>2. q \in Seq(S) /\ Len(q) = 1 /\ \A x \in 1 .. 1 : q[x] = d[x]
      BY <1>2, <2>1
    <2>3. r \in Seq(S) /\ Len(r) = 1 /\ r[1] = a
      BY <1>1
    <2> HIDE DEF q, r
    <2>4. \A x \in 1 .. 1 : q[x] = r[x]
      BY <1>1, <2>2, <2>3
    <2> QED
      BY <2>2, <2>3, <2>4, SeqEqual DEF q, r
  <1> QED
    BY <1>3, <1>4 DEF d

(* And what it means is what the converter says.                           *)
LEMMA DataMeans ==
  ASSUME TypeInv, Kept, Served, NEW b \in Bytes, bytes' = Append(bytes, b), b = "data",
         NEW i \in Nat, i = Len(bytes) + 1, NEW s \in 1 .. i, s = running_status,
         data_pos + 1 >= data_byte_count
  PROVE  Meaning(s, i)' = ChannelMsg(Held(i))
  <1>1. /\ Len(bytes) \in Nat /\ Places = 1 .. Len(bytes)
        /\ \A t \in 1 .. Len(bytes) :
              /\ bytes'[t] = bytes[t]
              /\ Arguments(t, i)' = Arguments(t, Len(bytes)) \union {i}
              /\ Arguments(t, Len(bytes)) \subseteq 1 .. Len(bytes)
    BY DataCounts
  <1>2. /\ running_status \in 0 .. Len(bytes) /\ StatusInv /\ data \in [1 .. 2 -> 0 .. Len(bytes)]
        /\ data_pos \in 0 .. 1 /\ data_byte_count \in 0 .. 2
    BY DEF TypeInv, TypeOK
  <1>3. s \in 1 .. Len(bytes) /\ s # i /\ running_status # 0 /\ i \notin 1 .. Len(bytes) /\ s \in Places
    BY <1>1, <1>2
  <1> DEFINE e    == expected_data_bytes(bytes[s])
             A    == Arguments(s, Len(bytes))
             prev == IF A \union {i} = {i} \/ s = i THEN 0
                     ELSE CHOOSE j \in (A \union {i}) \ {i} : \A k \in (A \union {i}) \ {i} : k <= j
  <1>4. Meaning(s, i)' =
          CASE e = 0 -> System(s, <<>>)
            [] bytes[s] = "voice2" -> VoiceMsg(s, <<prev, i>>)
            [] bytes[s] = "voice1" -> VoiceMsg(s, <<i, 0>>)
            [] bytes[s] = "common2" -> System(s, <<prev, i>>)
            [] bytes[s] = "common1" -> System(s, <<i>>)
    <2>1. bytes'[s] = bytes[s] /\ Arguments(s, i)' = A \union {i}
      BY <1>1, <1>3
    <2> DEFINE Sense(args, c) ==
                 LET p == IF args = {i} \/ s = i THEN 0
                          ELSE CHOOSE j \in args \ {i} : \A k \in args \ {i} : k <= j
                 IN  CASE expected_data_bytes(c) = 0 -> System(s, <<>>)
                       [] c = "voice2" -> VoiceMsg(s, <<p, i>>)
                       [] c = "voice1" -> VoiceMsg(s, <<i, 0>>)
                       [] c = "common2" -> System(s, <<p, i>>)
                       [] c = "common1" -> System(s, <<i>>)
    <2>2. Meaning(s, i)' = Sense(Arguments(s, i)', bytes'[s])
      BY DEF Meaning
    <2> HIDE DEF Sense
    <2>3. Meaning(s, i)' = Sense(A \union {i}, bytes[s])
      BY <2>1, <2>2
    <2> QED
      BY <2>3 DEF Sense
  <1>5. /\ bytes[s] \in Voice \union {"common1", "common2"}
        /\ data_byte_count = e /\ data_pos < e /\ e \in {1, 2}
    BY <1>3, Expected DEF StatusInv, TypeInv
  <1>6. /\ bytes[s] \in Voice => data[2] = 0
        /\ data_pos = 1 => data[1] \in A /\ \A j \in A : j <= data[1]
    BY <1>3 DEF Served
  <1>7. A \subseteq 1 .. Len(bytes) /\ (A \union {i}) \ {i} = A
    BY <1>1, <1>3
  <1> HIDE DEF A
  <1>8. data_pos = 1 => prev = data[1]
    <2> SUFFICES ASSUME data_pos = 1 PROVE prev = data[1]
      OBVIOUS
    <2>1. data[1] \in A /\ \A j \in A : j <= data[1]
      BY <1>6
    <2>2. A \union {i} # {i}
      BY <1>3, <1>7, <2>1
    <2> DEFINE P(j) == \A k \in A : k <= j
               g    == CHOOSE j \in A : P(j)
    <2>3. prev = g
      BY <1>3, <1>7, <2>2
    <2>4. P(data[1])
      BY <2>1
    <2> HIDE DEF P
    <2>5. g \in A /\ P(g)
      BY <2>1, <2>4
    <2> HIDE DEF g, prev
    <2>6. g \in 1 .. Len(bytes) /\ data[1] \in 1 .. Len(bytes)
      BY <1>7, <2>1, <2>5
    <2>7. g <= data[1] /\ data[1] <= g
      BY <2>1, <2>5 DEF P
    <2>8. g = data[1]
      BY <1>1, <2>6, <2>7
    <2> QED
      BY <2>3, <2>8
  <1> HIDE DEF prev
  <1>9. CASE bytes[s] = "voice2"
    <2>1. e = 2
      BY <1>9 DEF expected_data_bytes
    <2>2. data_pos = 1
      BY <1>2, <1>5, <2>1
    <2>3. Held(i) = <<data[1], i>>
      <3>1. data_pos + 1 = 2
        BY <2>2
      <3> QED
        BY <1>2, <3>1 DEF Held
    <2>4. ChannelMsg(Held(i)) = VoiceMsg(s, Held(i))
      BY <1>9 DEF ChannelMsg, Voice
    <2>5. Meaning(s, i)' = VoiceMsg(s, <<prev, i>>)
      <3> HIDE DEF e
      <3> QED
        BY <1>4, <1>9, <2>1
    <2> QED
      BY <1>8, <2>2, <2>3, <2>4, <2>5
  <1>10. CASE bytes[s] = "voice1"
    <2>1. e = 1
      BY <1>10 DEF expected_data_bytes
    <2>2. data_pos = 0
      BY <1>2, <1>5, <2>1
    <2>3. Held(i) = <<i, 0>>
      <3>1. data_pos + 1 = 1 /\ data[2] = 0
        BY <1>6, <1>10, <2>2 DEF Voice
      <3> QED
        BY <1>2, <3>1 DEF Held
    <2>4. ChannelMsg(Held(i)) = VoiceMsg(s, Held(i))
      BY <1>10 DEF ChannelMsg, Voice
    <2>5. Meaning(s, i)' = VoiceMsg(s, <<i, 0>>)
      <3> HIDE DEF e
      <3> QED
        BY <1>4, <1>10, <2>1
    <2> QED
      BY <2>3, <2>4, <2>5
  <1>11. CASE bytes[s] = "common2"
    <2>1. e = 2
      BY <1>11 DEF expected_data_bytes, Voice
    <2>2. data_pos = 1
      BY <1>2, <1>5, <2>1
    <2>3. Held(i) = <<data[1], i>>
      <3>1. data_pos + 1 = 2
        BY <2>2
      <3> QED
        BY <1>2, <3>1 DEF Held
    <2>4. ChannelMsg(Held(i)) = System(s, SubSeq(Held(i), 1, 2))
      BY <1>5, <1>11, <2>1 DEF ChannelMsg, Voice
    <2>5. SubSeq(<<data[1], i>>, 1, 2) = <<data[1], i>>
      <3>1. data[1] \in 0 .. i /\ i \in 0 .. i
        BY <1>1, <1>2
      <3> QED
        BY <3>1, FirstOfTwo
    <2>6. Meaning(s, i)' = System(s, <<prev, i>>)
      <3> HIDE DEF e
      <3> QED
        BY <1>4, <1>11, <2>1
    <2> QED
      BY <1>8, <2>2, <2>3, <2>4, <2>5, <2>6
  <1>12. CASE bytes[s] = "common1"
    <2>1. e = 1
      BY <1>12 DEF expected_data_bytes, Voice
    <2>2. data_pos = 0
      BY <1>2, <1>5, <2>1
    <2>3. Held(i) = <<i, data[2]>>
      <3>1. data_pos + 1 = 1
        BY <2>2
      <3> QED
        BY <1>2, <3>1 DEF Held
    <2>4. ChannelMsg(Held(i)) = System(s, SubSeq(Held(i), 1, 1))
      BY <1>5, <1>12, <2>1 DEF ChannelMsg, Voice
    <2>5. SubSeq(<<i, data[2]>>, 1, 1) = <<i>>
      <3>1. data[2] \in 0 .. i /\ i \in 0 .. i
        BY <1>1, <1>2
      <3> QED
        BY <3>1, FirstOfTwo
    <2>6. Meaning(s, i)' = System(s, <<i>>)
      <3> HIDE DEF e
      <3> QED
        BY <1>4, <1>12, <2>1
    <2> QED
      BY <2>3, <2>4, <2>5, <2>6
  <1> QED
    BY <1>5, <1>9, <1>10, <1>11, <1>12 DEF Voice

(* The byte completes exactly the word the converter says.                 *)
LEMMA HereCompletes ==
  ASSUME TypeInv, Kept, Served, NoneWaits, NEW b \in Bytes, bytes' = Append(bytes, b),
         NEW i \in Nat, i = Len(bytes) + 1, NEW word, Says(b, i, word)
  PROVE  CompletedAt(i)' = Elems(word)
  <1>1. bytes \in Seq(Bytes)
    BY DEF TypeInv, TypeOK
  <1>2. /\ Len(bytes) \in Nat /\ Len(bytes') = i /\ bytes'[i] = b /\ i \in 1 .. i
    BY <1>1, OneMoreByte
  <1>3. CompletedAt(i)' = {Meaning(s, i)' : s \in {t \in 1 .. i : Completes(t, i)'}}
    BY DEF CompletedAt
  <1>4. ASSUME NEW x, {t \in 1 .. i : Completes(t, i)'} = {x}
         PROVE  CompletedAt(i)' = {Meaning(x, i)'}
    <2>1. CompletedAt(i)' = {Meaning(s, i)' : s \in {x}}
      BY <1>3, <1>4
    <2>2. {Meaning(s, i)' : s \in {x}} = {Meaning(x, i)'}
      OBVIOUS
    <2> QED
      BY <2>1, <2>2
  <1>5. \A m : Elems(<<m>>) = {m}
    <2>1. TAKE m
    <2>2. Len(<<m>>) = 1 /\ <<m>>[1] = m
      OBVIOUS
    <2>3. 1 .. 1 = {1}
      OBVIOUS
    <2> QED
      BY <2>2, <2>3 DEF Elems
  <1>6. in_sysex => running_status = 0
    BY DEF TypeInv, StatusInv
  <1>7. Elems(<<>>) = {}
    BY ElemsAppend
  <1>8. CASE b \in {"realtime", "common0"}
    <2>1. word = <<System(i, <<>>)>>
      BY <1>8 DEF Says
    <2>2. \A s \in 1 .. i : Completes(s, i)' <=> s = i
      BY <1>2, <1>8 DEF Completes
    <2>3. Meaning(i, i)' = System(i, <<>>)
      <3>1. expected_data_bytes(bytes'[i]) = 0
        BY <1>2, <1>8, Expected
      <3> DEFINE Sense(e) ==
                   LET args == Arguments(i, i)'
                       p == IF args = {i} \/ i = i THEN 0
                            ELSE CHOOSE j \in args \ {i} : \A k \in args \ {i} : k <= j
                   IN  CASE e = 0 -> System(i, <<>>)
                         [] bytes'[i] = "voice2" -> VoiceMsg(i, <<p, i>>)
                         [] bytes'[i] = "voice1" -> VoiceMsg(i, <<i, 0>>)
                         [] bytes'[i] = "common2" -> System(i, <<p, i>>)
                         [] bytes'[i] = "common1" -> System(i, <<i>>)
      <3>2. Meaning(i, i)' = Sense(expected_data_bytes(bytes'[i]))
        BY DEF Meaning
      <3>3. bytes'[i] \notin {"voice2", "voice1", "common2", "common1"}
        BY <1>2, <1>8
      <3>4. Sense(0) = System(i, <<>>)
        BY <3>3
      <3> HIDE DEF Sense
      <3> QED
        BY <3>1, <3>2, <3>4
    <2>4. {t \in 1 .. i : Completes(t, i)'} = {i}
      BY <1>2, <2>2
    <2>5. CompletedAt(i)' = {Meaning(i, i)'}
      BY <1>4, <2>4
    <2> QED
      BY <1>5, <2>1, <2>3, <2>5
  <1>9. CASE b \notin {"realtime", "common0", "data"}
    <2>1. word = <<>>
      BY <1>9 DEF Says
    <2>2. \A s \in 1 .. i : ~ Completes(s, i)'
      BY <1>2, <1>9 DEF Completes
    <2> QED
      BY <1>3, <1>7, <2>1, <2>2
  <1>10. CASE b = "data"
    <2>1. \A s \in 1 .. i : Completes(s, i)' <=> s = running_status /\ data_pos + 1 >= data_byte_count
      BY <1>10, DataCompletes
    <2>2. CASE running_status # 0 /\ data_pos + 1 >= data_byte_count
      <3>1. ~ in_sysex /\ word = <<ChannelMsg(Held(i))>>
        BY <1>6, <1>10, <2>2 DEF Says
      <3>2. running_status \in 1 .. i
        BY <1>2, <2>2 DEF TypeInv, TypeOK
      <3>3. PICK r \in 1 .. i : r = running_status
        BY <3>2
      <3>4. {t \in 1 .. i : Completes(t, i)'} = {r}
        BY <2>1, <2>2, <3>3
      <3>5. Meaning(r, i)' = ChannelMsg(Held(i))
        BY <1>10, <2>2, <3>3, DataMeans
      <3>6. CompletedAt(i)' = {Meaning(r, i)'}
        BY <1>4, <3>4
      <3> QED
        BY <1>5, <3>1, <3>5, <3>6
    <2>3. CASE ~ (running_status # 0 /\ data_pos + 1 >= data_byte_count)
      <3>1. word = <<>>
        BY <1>10, <2>3 DEF Says
      <3>2. \A s \in 1 .. i : ~ Completes(s, i)'
        BY <2>1, <2>3
      <3> QED
        BY <1>3, <1>7, <3>1, <3>2
    <2> QED
      BY <2>2, <2>3
  <1> QED
    BY <1>8, <1>9, <1>10

Words(s) == {s[p] : p \in {q \in 1 .. Len(s) : s[q].type # "sysex7"}}

(* Every message the bytes mean was handed over, waits, or was dropped.    *)
Account ==
  /\ Words(Said) \union dropped = Parsed
  /\ \A m \in dropped : m \notin Words(Said)
  /\ dropped \subseteq Single(Len(bytes))

LEMMA WordsConcat ==
  ASSUME NEW S, NEW s \in Seq(S), NEW t \in Seq(S)
  PROVE  Words(s \o t) = Words(s) \union Words(t)
  <1> DEFINE u == s \o t
  <1>1. Len(s) \in Nat /\ Len(t) \in Nat
    BY LenProperties
  <1>2. /\ Len(u) = Len(s) + Len(t)
        /\ \A x \in 1 .. Len(s) + Len(t) : u[x] = IF x <= Len(s) THEN s[x] ELSE t[x - Len(s)]
    BY ConcatProperties
  <1> HIDE DEF u
  <1>3. ASSUME NEW x \in 1 .. Len(u), u[x].type # "sysex7" PROVE u[x] \in Words(s) \union Words(t)
    <2>1. CASE x <= Len(s)
      BY <1>1, <1>2, <1>3, <2>1 DEF Words
    <2>2. CASE ~ (x <= Len(s))
      <3>1. x - Len(s) \in 1 .. Len(t) /\ u[x] = t[x - Len(s)]
        BY <1>1, <1>2, <2>2
      <3> QED
        BY <1>3, <3>1 DEF Words
    <2> QED
      BY <2>1, <2>2
  <1>4. ASSUME NEW x \in 1 .. Len(s), s[x].type # "sysex7" PROVE s[x] \in Words(u)
    <2>1. x \in 1 .. Len(u) /\ u[x] = s[x]
      BY <1>1, <1>2
    <2> QED
      BY <1>4, <2>1 DEF Words
  <1>5. ASSUME NEW x \in 1 .. Len(t), t[x].type # "sysex7" PROVE t[x] \in Words(u)
    <2>1. x + Len(s) \in 1 .. Len(u) /\ u[x + Len(s)] = t[x]
      BY <1>1, <1>2
    <2> QED
      BY <1>5, <2>1 DEF Words
  <1>6. Words(u) \subseteq Words(s) \union Words(t)
    BY <1>3 DEF Words
  <1>7. Words(s) \subseteq Words(u) /\ Words(t) \subseteq Words(u)
    BY <1>4, <1>5 DEF Words
  <1> QED
    BY <1>6, <1>7 DEF u

LEMMA WordsOf ==
  /\ Words(<<>>) = {}
  /\ \A m : Words(<<m>>) = IF m.type # "sysex7" THEN {m} ELSE {}
  <1>1. Words(<<>>) = {}
    BY EmptySeq DEF Words
  <1>2. ASSUME NEW m PROVE Words(<<m>>) = IF m.type # "sysex7" THEN {m} ELSE {}
    <2>1. Len(<<m>>) = 1 /\ <<m>>[1] = m /\ 1 .. 1 = {1}
      OBVIOUS
    <2> QED
      BY <2>1 DEF Words
  <1> QED
    BY <1>1, <1>2

(* A message that waits is none of those handed over.                      *)
LEMMA PendingIsNew ==
  ASSUME TypeInv, Ordered
  PROVE  /\ Words(Said) = Words(out) \union Elems(pending)
         /\ \A m \in Elems(pending) : m \notin Words(out) /\ m \in Single(Len(bytes))
  <1>1. /\ Len(bytes) \in Nat /\ out \in Seq(Message(Len(bytes))) /\ pending \in Seq(Single(Len(bytes)))
        /\ pending \in Seq(Message(Len(bytes)))
    BY SaidType DEF TypeInv, TypeOK
  <1>2. \A x \in 1 .. Len(pending) : pending[x] \in Single(Len(bytes)) /\ pending[x].type # "sysex7"
    <2>1. \A m \in Single(Len(bytes)) : m.type # "sysex7"
      BY DEF Single, System
    <2> QED
      BY <1>1, <2>1, ElementOfSeq
  <1>3. Words(pending) = Elems(pending)
    BY <1>2 DEF Words, Elems
  <1>4. Words(Said) = Words(out) \union Elems(pending)
    BY <1>1, <1>3, WordsConcat DEF Said
  <1>5. ASSUME NEW x \in 1 .. Len(pending), NEW p \in 1 .. Len(out), out[p].type # "sysex7"
        PROVE  pending[x] # out[p]
    <2> DEFINE q == Len(out) + x
    <2>1. Len(out) \in Nat /\ Len(pending) \in Nat
      BY <1>1, LenProperties
    <2>2. /\ Len(Said) = Len(out) + Len(pending)
          /\ \A y \in 1 .. Len(out) + Len(pending) : Said[y] = IF y <= Len(out) THEN out[y] ELSE pending[y - Len(out)]
      BY <1>1, ConcatProperties DEF Said
    <2>3. q \in 1 .. Len(Said) /\ p \in 1 .. Len(Said) /\ p < q /\ ~ (q <= Len(out)) /\ q - Len(out) = x
      BY <2>1, <2>2
    <2>4. Said[q] = pending[x] /\ Said[p] = out[p]
      BY <2>1, <2>2, <2>3
    <2>5. q \in PlacedOf(Said) /\ p \in PlacedOf(Said)
      BY <1>2, <1>5, <2>3, <2>4 DEF PlacedOf
    <2>6. EndsAt(out[p]) < BeginsAt(pending[x])
      BY <2>3, <2>4, <2>5 DEF Ordered, Chain
    <2>7. BeginsAt(pending[x]) = EndsAt(pending[x])
      BY <1>2 DEF BeginsAt
    <2>8. EndsAt(out[p]) \in 0 .. Len(bytes)
      <3>1. out[p] \in Message(Len(bytes))
        BY <1>1, ElementOfSeq
      <3> QED
        BY <1>1, <3>1, EndsAtLast
    <2>9. EndsAt(out[p]) # EndsAt(pending[x])
      BY <1>1, <2>6, <2>7, <2>8
    <2> QED
      BY <2>9
  <1>6. \A m \in Elems(pending) : m \notin Words(out) /\ m \in Single(Len(bytes))
    BY <1>2, <1>5 DEF Elems, Words
  <1> QED
    BY <1>4, <1>6

LEMMA AccountFeed ==
  ASSUME TypeInv, Ordered, Kept, Served, NoneWaits, Account, NEW b \in Bytes, Feed(b)
  PROVE  Account'
  <1> DEFINE i == Len(bytes) + 1
  <1>1. PICK first, word :
           Turn(b, i, first) /\ Says(b, i, word) /\ Said' = (out \o first) \o word
    BY FeedSaid
  <1>2. /\ bytes' = Append(bytes, b) /\ i \in Nat /\ Len(bytes) \in Nat /\ bytes \in Seq(Bytes)
        /\ dropped' = dropped \union Elems(pending)
    BY FeedMoves, SaidType DEF TypeInv, TypeOK
  <1>3. Len(bytes') = i
    BY <1>2, OneMoreByte
  <1>4. Parsed' = Parsed \union Elems(word)
    BY <1>1, <1>2, ParsedFeed, HereCompletes
  <1>5. Words(Said)' = Words(out) \union Elems(word)
    <2> DEFINE M == Message(i)
    <2>1. out \in Seq(M)
      <3>1. out \in Seq(Message(Len(bytes)))
        BY SaidType
      <3> QED
        BY <1>2, <3>1, LongerStream, SeqMonotonic
    <2>2. first = <<>> \/ \E m \in M : first = <<m>> /\ m.type = "sysex7"
      <3>1. first = <<>> \/ \E m \in M : first = <<m>>
        BY <1>1, <1>2, FirstType
      <3>2. \A m : first = <<m>> => m.type = "sysex7"
        <4>1. first = <<>> \/ \E m : first = <<m>> /\ m.type = "sysex7"
          BY <1>1, FirstIsPacket
        <4>2. \A m, n : <<m>> = <<n>> => m = n
          OBVIOUS
        <4>3. \A m : <<m>> # <<>>
          OBVIOUS
        <4> QED
          BY <4>1, <4>2, <4>3
      <3> QED
        BY <3>1, <3>2
    <2>3. word = <<>> \/ \E m \in M : word = <<m>> /\ m.type # "sysex7"
      BY <1>1, <1>2, WordType
    <2> HIDE DEF M
    <2>4. first \in Seq(M) /\ word \in Seq(M)
      <3>1. <<>> \in Seq(M) /\ \A m \in M : <<m>> \in Seq(M)
        BY EmptySeq
      <3> QED
        BY <2>2, <2>3, <3>1
    <2>5. Words(first) = {}
      BY <2>2, WordsOf
    <2>6. Words(word) = Elems(word)
      <3>1. \A m : Elems(<<m>>) = {m}
        <4>1. TAKE m
        <4>2. Len(<<m>>) = 1 /\ <<m>>[1] = m /\ 1 .. 1 = {1}
          OBVIOUS
        <4> QED
          BY <4>2 DEF Elems
      <3>2. Elems(<<>>) = {}
        BY ElemsAppend
      <3> QED
        BY <2>3, <3>1, <3>2, WordsOf
    <2>7. out \o first \in Seq(M)
      BY <2>1, <2>4, ConcatProperties
    <2>8. Words((out \o first) \o word) = Words(out \o first) \union Words(word)
      BY <2>4, <2>7, WordsConcat, ZenonT(30)
    <2>9. Words(out \o first) = Words(out) \union Words(first)
      BY <2>1, <2>4, WordsConcat
    <2>10. Words(Said)' = Words(Said')
      BY DEF Words
    <2> QED
      BY <1>1, <2>5, <2>6, <2>8, <2>9, <2>10
  <1>6. /\ Words(Said) = Words(out) \union Elems(pending)
        /\ \A m \in Elems(pending) : m \notin Words(out) /\ m \in Single(Len(bytes))
    BY PendingIsNew
  <1>7. \A m \in Single(Len(bytes)) : m \notin Elems(word)
    <2>1. word = <<>> \/ \E m \in Message(i) : word = <<m>> /\ m.type # "sysex7" /\ EndsAt(m) = i
      BY <1>1, WordEndsHere
    <2>2. ASSUME NEW m \in Single(Len(bytes)) PROVE EndsAt(m) # i
      <3>1. m \in Message(Len(bytes))
        BY <1>2, LongerStream
      <3>2. EndsAt(m) \in 0 .. Len(bytes)
        BY <1>2, <3>1, EndsAtLast
      <3> QED
        BY <1>2, <3>2
    <2>3. ASSUME NEW m, word = <<m>>, NEW n \in Elems(word) PROVE n = m
      <3>1. Len(<<m>>) = 1 /\ <<m>>[1] = m /\ 1 .. 1 = {1}
        OBVIOUS
      <3> QED
        BY <2>3, <3>1 DEF Elems
    <2>4. Elems(<<>>) = {}
      BY ElemsAppend
    <2> QED
      BY <2>1, <2>2, <2>3, <2>4
  <1>8. Single(Len(bytes)) \subseteq Single(i)
    BY <1>2, LongerStream
  <1>9. dropped' \subseteq Single(i)
    BY <1>2, <1>6, <1>8 DEF Account
  <1>10. Words(Said)' \union dropped' = Parsed'
    BY <1>2, <1>4, <1>5, <1>6 DEF Account
  <1>11. ASSUME NEW m \in dropped' PROVE m \notin Words(Said)'
    <2>1. m \in dropped \/ m \in Elems(pending)
      BY <1>2
    <2>2. m \in Single(Len(bytes)) /\ m \notin Words(out)
      BY <1>6, <2>1 DEF Account
    <2> QED
      BY <1>5, <1>7, <2>2
  <1>12. Single(Len(bytes))' = Single(i)
    BY <1>3 DEF Single
  <1> QED
    BY <1>9, <1>10, <1>11, <1>12 DEF Account

(* What the bytes mean does not change when no byte arrives.               *)
LEMMA SameBytes ==
  ASSUME bytes' = bytes
  PROVE  /\ Places' = Places /\ Parsed' = Parsed
         /\ \A s, k : InForce(s, k)' <=> InForce(s, k)
         /\ \A s, k : Arguments(s, k)' = Arguments(s, k)
         /\ \A s : Counted(s)' = Counted(s)
  <1>1. Places' = Places
    BY DEF Places
  <1>2. \A k : InSysex(k)' <=> InSysex(k)
    BY DEF InSysex, StartOf
  <1>3. \A k : TakesEffect(k)' <=> TakesEffect(k)
    BY <1>2 DEF TakesEffect
  <1>4. \A s, k : InForce(s, k)' <=> InForce(s, k)
    BY <1>3 DEF InForce
  <1>5. \A s, k : Arguments(s, k)' = Arguments(s, k)
    BY DEF Arguments
  <1>6. \A s : Counted(s)' = Counted(s)
    BY <1>5 DEF Counted
  <1>7. \A s, k : Completes(s, k)' <=> Completes(s, k)
    BY <1>4, <1>5 DEF Completes
  <1>8. \A s, k : Meaning(s, k)' = Meaning(s, k)
    BY <1>5 DEF Meaning
  <1>9. Parsed' = Parsed
    BY <1>1, <1>7, <1>8 DEF Parsed
  <1> QED
    BY <1>1, <1>4, <1>5, <1>6, <1>9

Parsing == Served /\ NoneWaits /\ Account

(* Draining moves the pending message to the wire; nothing else changes.   *)
LEMMA ParsingSame ==
  ASSUME TypeInv, Parsing, Said' = Said, UNCHANGED <<statusVars, bytes, dropped>>
  PROVE  Parsing'
  <1>1. /\ bytes' = bytes /\ dropped' = dropped /\ running_status' = running_status
        /\ data_byte_count' = data_byte_count /\ data_pos' = data_pos /\ data' = data
    BY DEF statusVars
  <1>2. /\ Places' = Places /\ Parsed' = Parsed
        /\ \A s, k : InForce(s, k)' <=> InForce(s, k)
        /\ \A s, k : Arguments(s, k)' = Arguments(s, k)
        /\ \A s : Counted(s)' = Counted(s)
    BY <1>1, SameBytes
  <1>3. Served'
    BY <1>1, <1>2 DEF Parsing, Served
  <1>4. NoneWaits'
    BY <1>1, <1>2 DEF Parsing, NoneWaits
  <1>5. Words(Said)' = Words(Said)
    BY DEF Words
  <1>6. Single(Len(bytes))' = Single(Len(bytes))
    BY <1>1 DEF Single
  <1>7. Account'
    BY <1>1, <1>2, <1>5, <1>6 DEF Parsing, Account
  <1> QED
    BY <1>3, <1>4, <1>7 DEF Parsing

LEMMA ParsingInit == Init => Parsing
  <1> SUFFICES ASSUME Init PROVE Parsing
    OBVIOUS
  <1>1. /\ bytes = <<>> /\ running_status = 0 /\ dropped = {} /\ out = <<>> /\ pending = <<>>
        /\ Len(<<>>) = 0
    BY EmptySeq DEF Init
  <1>2. Places = {} /\ 1 .. 0 = {}
    BY <1>1 DEF Places
  <1>3. Parsed = {}
    BY <1>2, ParsedMembers
  <1>4. Words(Said) = {}
    <2>1. Said = <<>>
      BY <1>1, ConcatEmptySeq, EmptySeq DEF Said
    <2> QED
      BY <2>1, WordsOf
  <1>5. Account
    BY <1>1, <1>3, <1>4 DEF Account
  <1> QED
    BY <1>1, <1>2, <1>5 DEF Parsing, Served, NoneWaits

LEMMA ParsingInvariant == Spec => [](TypeInv /\ Ordered /\ Kept /\ Parsing)
  <1>1. TypeInv /\ Ordered /\ Kept /\ Parsing /\ [Next]_vars => Parsing'
    <2> SUFFICES ASSUME TypeInv, Ordered, Kept, Parsing, [Next]_vars PROVE Parsing'
      OBVIOUS
    <2>1. CASE DrainPending
      BY <2>1, DrainSaid, ParsingSame DEF statusVars
    <2>2. CASE UNCHANGED vars
      BY <2>2, ParsingSame DEF vars, Said
    <2>3. ASSUME NEW b \in Bytes, Feed(b) PROVE Parsing'
      BY <2>3, ServedFeed, AccountFeed DEF Parsing
    <2> QED
      BY <2>1, <2>2, <2>3 DEF Next
  <1> QED
    BY <1>1, ParsingInit, KeptInvariant, PTL DEF Spec

LEMMA ParsingGives == Parsing => MessagesAreParsed
  <1> SUFFICES ASSUME Parsing PROVE MessagesAreParsed
    OBVIOUS
  <1> DEFINE said == {m \in Emitted : m.type # "sysex7"}
  <1>1. said = Words(Said)
    BY DEF Emitted, Words
  <1>2. \A m \in dropped : m.data = <<>>
    BY DEF Parsing, Account, Single, System
  <1>3. said \subseteq Parsed /\ Parsed \ said = dropped
    BY <1>1 DEF Parsing, Account
  <1> QED
    BY <1>2, <1>3 DEF MessagesAreParsed

(* The messages the converter says, and the single byte ones its caller    *)
(* overran, are exactly the ones the bytes mean, whatever the stream:      *)
(* Running Status, its two argument counts, System Common that cancels it, *)
(* Real-Time in between (midi2_conv_feed_inner, emit_channel_msg).         *)
THEOREM MessagesAreExact == Spec => []MessagesAreParsed
  BY ParsingInvariant, ParsingGives, PTL
=============================================================================
