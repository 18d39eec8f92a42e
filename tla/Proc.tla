-------------------------------- MODULE Proc --------------------------------
(***************************************************************************)
(* The receive pipeline of midi2_proc.c: midi2_proc_feed takes one UMP at  *)
(* a time, reassembles SysEx7 and SysEx8 packets in one buffer each,       *)
(* filters the other messages by group and calls the application back.     *)
(*                                                                         *)
(* The code never looks at a payload byte, so a byte is its provenance:    *)
(* <<i, j>> is the j-th data byte of the i-th packet ever fed.  What the   *)
(* application receives then says where each of its bytes came from.       *)
(*                                                                         *)
(* An operator named Bug_... is a mistake the code could have made in the  *)
(* definition that follows it; nothing uses it.                            *)
(***************************************************************************)
EXTENDS Naturals, Sequences

CONSTANTS
  Packets,    (* the UMPs the transport may feed                            *)
  Groups,     (* the groups in use; the C field is 4 bits                   *)
  Masks,      (* the group masks the application may set                    *)
  Buffers,    (* the kinds of SysEx whose buffer is not NULL                *)
  Callbacks,  (* the callbacks that are not NULL                            *)
  BufSize,    (* sysex_buf_size and sysex8_buf_size                         *)
  MaxData,    (* data bytes one packet can hold: 6 and 13 in the code       *)
  MaxFed      (* bound on the packets fed; names the checking bound only    *)

(* "other" is any status nibble above 3: reserved for SysEx7, the Mixed Data *)
(* Set header and payload (8 and 9) for the 128-bit type SysEx8 shares.     *)
Kinds    == {"sysex7", "sysex8"}
Statuses == {"complete", "start", "continue", "end", "other"}
Types    == Kinds \union {"utility", "stream", "voice"}
Callback == {"on_ump", "on_sysex7", "on_sysex8"}

Packet == [mt: Types, group: Groups, stream: Nat, status: Statuses,
           num_bytes: Nat, truncated: BOOLEAN]

ASSUME ProcAssumption ==
  /\ Packets \subseteq Packet
  /\ Masks \subseteq SUBSET Groups
  /\ Buffers \subseteq Kinds
  /\ Callbacks \subseteq Callback
  /\ BufSize \in [Kinds -> Nat]
  /\ MaxData \in [Kinds -> Nat]
  /\ MaxFed \in Nat

VARIABLES
  asm,         (* per kind: the (group) or (group, stream id) whose message *)
               (* is in progress, and the bytes gathered so far             *)
  group_mask,  (* the groups on_ump is called for                           *)
  up,          (* the upcall made by the last feed                          *)
  fed          (* history: every packet fed                                 *)

vars == <<asm, group_mask, up, fed>>

-----------------------------------------------------------------------------
(* sysex_group = 0xFF.  SysEx8 keeps its stale stream id next to 0xFF: no  *)
(* 4-bit group equals 0xFF, so that pair matches no packet either.         *)
NoKey    == <<>>
NoUpcall == [cb |-> "none", key |-> NoKey, data |-> <<>>]

Key(p) == IF p.mt = "sysex8" THEN <<p.group, p.stream>> ELSE <<p.group>>

Smaller(m, n) == IF m < n THEN m ELSE n

Bug_Count(p) ==
  IF p.mt = "sysex8"
  THEN IF p.num_bytes > 1 THEN p.num_bytes - 1 ELSE 0
  ELSE Smaller(p.num_bytes, MaxData["sysex7"])

(* Data bytes the code extracts; SysEx8 counts the stream id in num_bytes. *)
Count(p) ==
  IF p.mt = "sysex8"
  THEN Smaller(IF p.num_bytes > 1 THEN p.num_bytes - 1 ELSE 0, MaxData[p.mt])
  ELSE Smaller(p.num_bytes, MaxData["sysex7"])

(* The bytes of packet p when it is the i-th fed. *)
Data(p, i) == [j \in 1 .. Count(p) |-> <<i, j>>]

Bug_FillUnbounded(buf, data, size) == buf \o data

(* Append as much as fits; the rest is dropped without a trace. *)
Fill(buf, data, size) ==
  buf \o SubSeq(data, 1, Smaller(Len(data), size - Len(buf)))

Idle == [key |-> NoKey, buf |-> <<>>]

(* A packet that continues nothing: same kind, another key in progress. *)
Foreign(a, p) == p.status # "start" /\ Key(p) # a.key

Bug_ForeignKeeps(a, p) == IF p.status = "start" THEN <<>> ELSE a.buf

(* A Start, and a packet under another key, first empty the buffer. *)
Kept(a, p) == IF p.status = "start" \/ Foreign(a, p) THEN <<>> ELSE a.buf

Gathered(a, p, data) == Fill(Kept(a, p), data, BufSize[p.mt])

Bug_CompleteResets(a, p, data) ==
  CASE p.status \in {"complete", "end"} -> Idle
    [] p.status = "continue" /\ Foreign(a, p) -> [key |-> Key(p), buf |-> <<>>]
    [] OTHER -> [key |-> Key(p), buf |-> Gathered(a, p, data)]

Reassembled(a, p, data) ==
  CASE p.status = "complete" -> a
    [] p.status = "continue" /\ Foreign(a, p) -> [key |-> Key(p), buf |-> <<>>]
    [] p.status = "end" -> Idle
    [] OTHER -> [key |-> Key(p), buf |-> Gathered(a, p, data)]

Upcall(cb, p, data) ==
  IF cb \in Callbacks THEN [cb |-> cb, key |-> Key(p), data |-> data]
  ELSE NoUpcall

SysexUpcall(a, p, data) ==
  LET cb == IF p.mt = "sysex7" THEN "on_sysex7" ELSE "on_sysex8"
  IN  CASE p.status = "complete" -> Upcall(cb, p, data)
        [] p.status = "end" -> Upcall(cb, p, Gathered(a, p, data))
        [] OTHER -> NoUpcall

(* Utility and Stream messages have no group; the rest obey the mask. *)
PassesFilter(p) == p.mt \in {"utility", "stream"} \/ p.group \in group_mask

-----------------------------------------------------------------------------
Init ==
  /\ asm = [k \in Kinds |-> Idle]
  /\ group_mask = Groups
  /\ up = NoUpcall
  /\ fed = <<>>

(* word_count is smaller than the message type needs: dropped whole. *)
FeedTruncated(p) ==
  /\ p.truncated
  /\ up' = NoUpcall
  /\ UNCHANGED asm

Bug_FeedSysexFiltered(p) ==
  /\ ~p.truncated
  /\ p.mt \in Kinds
  /\ IF p.mt \in Buffers /\ PassesFilter(p)
     THEN LET data == Data(p, Len(fed) + 1)
          IN  /\ asm' = [asm EXCEPT ![p.mt] = Reassembled(@, p, data)]
              /\ up' = SysexUpcall(asm[p.mt], p, data)
     ELSE up' = NoUpcall /\ UNCHANGED asm

(* SysEx is reassembled before, and whatever, the group filter says. *)
FeedSysex(p) ==
  /\ ~p.truncated
  /\ p.mt \in Kinds
  /\ IF p.mt \in Buffers
     THEN LET data == Data(p, Len(fed) + 1)
          IN  /\ asm' = [asm EXCEPT ![p.mt] = Reassembled(@, p, data)]
              /\ up' = SysexUpcall(asm[p.mt], p, data)
     ELSE up' = NoUpcall /\ UNCHANGED asm

FeedOther(p) ==
  /\ ~p.truncated
  /\ p.mt \notin Kinds
  /\ up' = IF PassesFilter(p) THEN Upcall("on_ump", p, <<>>) ELSE NoUpcall
  /\ UNCHANGED asm

Feed(p) ==
  /\ Len(fed) < MaxFed
  /\ fed' = Append(fed, p)
  /\ FeedTruncated(p) \/ FeedSysex(p) \/ FeedOther(p)
  /\ UNCHANGED group_mask

(* The application owns the state struct and writes its mask directly. *)
SetGroupMask(m) ==
  /\ group_mask' = m
  /\ UNCHANGED <<asm, up, fed>>

Next == (\E p \in Packets : Feed(p)) \/ (\E m \in Masks : SetGroupMask(m))

Spec == Init /\ [][Next]_vars

-----------------------------------------------------------------------------
(* Properties.  A packet takes part in the reassembly of kind k when it    *)
(* reaches the code after the COMPLETE return.                             *)
TakesPart(p, k) == p.mt = k /\ ~p.truncated /\ p.status # "complete"

Origin(byte) == fed[byte[1]]

Before(b, c) == b[1] < c[1] \/ (b[1] = c[1] /\ b[2] < c[2])

(* The bytes packet number i of history h carries: those it has room for   *)
(* and its byte count covers, which in SysEx8 counts the stream id first.  *)
Covered(p) ==
  {j \in 1 .. MaxData[p.mt] :
     j + (IF p.mt = "sysex8" THEN 1 ELSE 0) <= p.num_bytes}
BytesOf(h, i) == {<<i, j>> : j \in Covered(h[i])}

Elems(s) == {s[i] : i \in 1 .. Len(s)}

(* Type correctness, with the buffer never longer than the caller's.       *)
TypeOK ==
  /\ fed \in Seq(Packets)
  /\ group_mask \subseteq Groups
  /\ asm \in [Kinds -> [key: Seq(Groups \union Nat), buf: Seq(Nat \X Nat)]]
  /\ \A k \in Kinds : Len(asm[k].buf) <= BufSize[k]
  /\ up \in [cb: Callbacks \union {"none"}, key: Seq(Groups \union Nat),
             data: Seq(Nat \X Nat)]

(* The bytes g, gathered under a key by the end of history h, are of one   *)
(* run of packets: in the order fed, all of that key, no packet of another *)
(* key nor a second Start took part since the first byte, no End did up to *)
(* packet number last, and unless g fills the buffer no byte is missing.   *)
(* A run is one message, with what else the code appends to it: packets of *)
(* another whose Start was lost, and for SysEx8 the Mixed Data Set packets *)
(* (status "other") under its group and stream id.                         *)
OneRun(h, g, key, k, last) ==
  /\ \A x, y \in 1 .. Len(g) : x < y => Before(g[x], g[y])
  /\ \A b \in Elems(g) :
       /\ b[1] \in 1 .. Len(h)
       /\ b \in BytesOf(h, b[1])
       /\ \A t \in b[1] .. Len(h) : TakesPart(h[t], k) =>
            /\ Key(h[t]) = key
            /\ t > b[1] => h[t].status # "start"
            /\ t <= last => h[t].status # "end"
            /\ BytesOf(h, t) \subseteq Elems(g) \/ Len(g) = BufSize[k]

(* Whatever arrives, a reassembly buffer holds bytes of one run: two       *)
(* messages that each have their Start, or differ in group or stream, never *)
(* mix.  Mixed Data Set packets do mix with a SysEx8 message.              *)
BuffersHoldOneRun ==
  \A k \in Kinds : OneRun(fed, asm[k].buf, asm[k].key, k, Len(fed))

(* A SysEx callback hands over exactly the bytes of a COMPLETE packet, in  *)
(* order, or what an End closed, and that is of one run by the same rule.  *)
(* So on_sysex8, "called when a complete SysEx8 message has been           *)
(* reassembled" (midi2_proc.h:56), is also called with the bytes of Mixed  *)
(* Data Set packets among the message's.                                   *)
DeliveriesHoldOneRun ==
  up.cb \in {"on_sysex7", "on_sysex8"} =>
    LET n == Len(fed)
        p == fed[n]
    IN  /\ Key(p) = up.key
        /\ \/ /\ p.status = "complete" /\ Elems(up.data) = BytesOf(fed, n)
              /\ \A x, y \in 1 .. Len(up.data) : x < y => Before(up.data[x], up.data[y])
           \/ p.status = "end" /\ OneRun(fed, up.data, up.key, p.mt, n - 1)

(* Packet s starts a message of kind k that nothing has disturbed since:   *)
(* only Continues of its own key took part after it.                       *)
OpenRun(h, s, last, k) ==
  /\ s \in 1 .. last
  /\ TakesPart(h[s], k)
  /\ h[s].status = "start"
  /\ \A t \in s + 1 .. last : TakesPart(h[t], k) =>
       h[t].status = "continue" /\ Key(h[t]) = Key(h[s])

(* The bytes of all the packets of kind k numbered s to e. *)
RunBytes(h, s, e, k) ==
  UNION {BytesOf(h, t) : t \in {u \in s .. e : TakesPart(h[u], k)}}

(* An undisturbed message is held whole, from its Start on, whatever other *)
(* traffic, COMPLETE packets, truncated packets or mask changes come in    *)
(* between: its bytes and no others, or a full buffer of them.             *)
HeldWhole(k) ==
  \A s \in 1 .. Len(fed) : OpenRun(fed, s, Len(fed), k) /\ k \in Buffers =>
    /\ asm[k].key = Key(fed[s])
    /\ Elems(asm[k].buf) \subseteq RunBytes(fed, s, Len(fed), k)
    /\ \/ RunBytes(fed, s, Len(fed), k) \subseteq Elems(asm[k].buf)
       \/ Len(asm[k].buf) = BufSize[k]

OpenRunsHeldWhole == \A k \in Kinds : HeldWhole(k)

(* A message whose packets all arrived undisturbed is delivered by its End *)
(* whole (up to the buffer's size), whatever the group mask: "MIDI-CI must *)
(* work regardless of group filter settings" (midi2_proc.c:210).           *)
IntactRunIsDelivered ==
  \A s \in 1 .. Len(fed) :
    LET n  == Len(fed)
        p  == fed[n]
        cb == IF p.mt = "sysex7" THEN "on_sysex7" ELSE "on_sysex8"
    IN  /\ p.mt \in Buffers /\ cb \in Callbacks
        /\ TakesPart(p, p.mt) /\ p.status = "end"
        /\ OpenRun(fed, s, n - 1, p.mt) /\ Key(p) = Key(fed[s])
        => /\ up.cb = cb
           /\ up.key = Key(p)
           /\ Elems(up.data) \subseteq RunBytes(fed, s, n, p.mt)
           /\ \/ RunBytes(fed, s, n, p.mt) \subseteq Elems(up.data)
              \/ Len(up.data) = BufSize[p.mt]
=============================================================================
