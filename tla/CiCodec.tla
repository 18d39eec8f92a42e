------------------------------- MODULE CiCodec ------------------------------
(***************************************************************************)
(* One MIDI-CI message on its way from a builder of midi2_ci_msg.h to a    *)
(* callback of midi2_ci_dispatch: whole, cut short, or with a byte that is *)
(* not the one its builder wrote.                                          *)
(***************************************************************************)
EXTENDS CiDispatch

CONSTANTS
  BuiltMessages,  (* the built messages: [kind, args, blocks]               *)
  Damaged,        (* messages over a transport that may cut or garble them  *)
  CutTo,          (* the lengths they are cut to                            *)
  Bytes,          (* the halves of the lengths put in the place of others   *)
  SubIds          (* headers without anything after them                    *)

ASSUME CiCodecAssumption ==
  /\ CutTo \subseteq Nat /\ Bytes \subseteq SUBSET (0 .. 7)
  /\ \A m \in BuiltMessages \union Damaged :
       /\ m.kind \in CiKinds /\ Num(m.args.version) \in {1, 2}
       /\ \A b \in CellArgs(CellsOf(m.kind, m.args.version), "bytes") : m.blocks[b] \in Seq(SUBSET (0 .. 7))
  /\ SubIds \subseteq 0 .. 255

VARIABLES
  message,     (* history: the message                                      *)
  damage,      (* history: what may happen or has happened to it            *)
  data,        (* the payload                                               *)
  registered,  (* are the typed callbacks set                               *)
  heard        (* what the dispatcher did with it                           *)

ciCodecVars == <<message, damage, data, registered, heard>>

Foreign == [kind |-> "raw", args |-> None, blocks |-> None]
NotYet == [Nobody(FALSE) EXCEPT !.name = "not yet"]

CiCodecInit == message = Foreign /\ damage = "never" /\ data = <<>> /\ registered = FALSE /\ heard = NotYet

Send(m, d) ==
  /\ data = <<>>
  /\ message' = m /\ data' = Encoded(m) /\ damage' = d
  /\ UNCHANGED <<registered, heard>>
SendHeader(sub_id) ==
  /\ data = <<>>
  /\ data' = <<Bits(\h7E), {}, Bits(\h0D), Bits(sub_id)>> \o [i \in 1 .. 9 |-> {}]
  /\ UNCHANGED <<message, damage, registered, heard>>

Cut(n) ==
  /\ damage = "not yet" /\ n < Len(data) /\ heard = NotYet
  /\ data' = SubSeq(data, 1, n) /\ damage' = "cut"
  /\ UNCHANGED <<message, registered, heard>>
Misstate(at, lo, hi) ==
  /\ damage = "not yet" /\ at + 2 <= Len(data) /\ heard = NotYet
  /\ data' = [data EXCEPT ![at + 1] = lo, ![at + 2] = hi] /\ damage' = "misstated"
  /\ UNCHANGED <<message, registered, heard>>

Feed ==
  /\ data # <<>> /\ heard = NotYet
  /\ registered' \in BOOLEAN
  /\ heard' = midi2_ci_dispatch_feed(data, registered', {})
  /\ UNCHANGED <<message, damage, data>>

CiCodecNext ==
  \/ \E m \in BuiltMessages : Send(m, "never")
  \/ \E m \in Damaged : Send(m, "not yet")
  \/ \E s \in SubIds : SendHeader(s)
  \/ \E n \in CutTo : Cut(n)
  \/ \E at \in 13 .. 21, lo, hi \in Bytes : Misstate(at, lo, hi)
  \/ Feed

CiCodecSpec == CiCodecInit /\ [][CiCodecNext]_ciCodecVars

-----------------------------------------------------------------------------
Whole == message # Foreign /\ damage \in {"never", "not yet"}
Fed   == heard # NotYet
Cells == CellsOf(message.kind, message.args.version)

(* No byte above 127 unless the caller's one-byte arguments have one.      *)
OneByte == {a \in CellArgs(Cells, "arg") : \E i \in DOMAIN Cells : Cells[i].arg = a /\ Cells[i].width = 8
                                                                /\ Cells[i].of = "arg"}
SevenBits ==
  (\A a \in OneByte : \A b \in message.args[a] : b % 8 # 7) => \A i \in DOMAIN data : data[i] \subseteq 0 .. 6

(* What the callback is told of argument a: the bits its cells have room   *)
(* for, or what the builder or an older version leaves it at.              *)
Expected(a) ==
  LET room == UNION {c.from .. c.from + c.width - 1 : c \in {d \in ToSet(Cells) : d.of = "arg" /\ d.arg = a}}
  IN  CASE a \in CellArgs(Cells, "arg")       -> message.args[a] \intersect room
        [] a = "device_id"                    -> 0 .. 6
        [] a = "dst_muid"                     -> Broadcast
        [] a = "function_block"               -> 0 .. 6
        [] a \in {"num_chunks", "this_chunk"} -> {0}
        [] a = "details"                      -> Null
        [] OTHER                              -> {}

(* A pointer the callback is given is to the block that was sent. *)
SameBlock(name) ==
  LET span  == heard.data[name]
      block == IF name \in CellArgs(Cells, "bytes") THEN message.blocks[name] ELSE <<>>
  IN  span.len = Len(block) /\ (block # <<>> => SubSeq(data, span.at + 1, span.at + span.len) = block)

(* Every message a builder makes, of either version, reaches its callback, *)
(* which is told the header, the arguments and the blocks it was built     *)
(* from; and identifiers, MUIDs and lengths of any value travel as bytes   *)
(* that a SysEx may hold.                                                  *)
CiBuiltIsHeard ==
  Fed /\ Whole /\ registered =>
    /\ heard.name = CiLayouts[message.kind].calls /\ heard.result
    /\ \A a \in DOMAIN heard.args : heard.args[a] = Expected(a)
    /\ \A a \in DOMAIN heard.hdr : heard.hdr[a] = Expected(a)
    /\ \A name \in DOMAIN heard.data : SameBlock(name)
    /\ SevenBits

(* Whatever its length, no byte past its end changes what a payload is     *)
(* taken for.                                                              *)
NothingPastTheEnd ==
  Fed => midi2_ci_dispatch_feed(data, registered, 0 .. 7) = heard

(* A callback is never given a block that does not lie inside the payload, *)
(* however it was cut and whatever its lengths say. The profile lists of   *)
(* an Inquiry Reply are the exception: the second is never checked, and    *)
(* the length of the first is reduced to 16 bits before it is.             *)
BlocksLieInside ==
  Fed /\ heard.name # "on_profile_inquiry_reply" =>
    \A name \in DOMAIN heard.data :
      heard.data[name].at # Absent => heard.data[name].at + heard.data[name].len <= Len(data)

(* A message cut short is heard as what is left of it: its header is the   *)
(* one that was sent; an argument is the one that was sent or the          *)
(* callback's default, and a block is as much of the one that was sent as  *)
(* its span says, never made up of another's bytes. The profile lists are  *)
(* the exception, as in BlocksLieInside.                                   *)
Absentee(a) == IF a = "function_block" THEN 0 .. 6 ELSE IF a = "details" THEN Null ELSE {}
StartOfBlock(name) ==
  LET span  == heard.data[name]
      block == IF name \in CellArgs(Cells, "bytes") THEN message.blocks[name] ELSE <<>>
  IN  span.at # Absent =>
        /\ span.len <= Len(block)
        /\ SubSeq(data, span.at + 1, span.at + span.len) = SubSeq(block, 1, span.len)
CutIsHeardInPart ==
  Fed /\ damage = "cut" /\ heard.name \notin {"nobody", "on_unknown"} =>
    /\ heard.name = CiLayouts[message.kind].calls
    /\ \A a \in DOMAIN heard.hdr : heard.hdr[a] = Expected(a)
    /\ \A a \in DOMAIN heard.args : heard.args[a] \in {Expected(a), Absentee(a)}
    /\ heard.name # "on_profile_inquiry_reply" =>
         \A name \in DOMAIN heard.data : StartOfBlock(name)
=============================================================================
