------------------------------ MODULE MCCiCodec -----------------------------
(* A one walked through every bit of every argument of every message, in   *)
(* both versions, and blocks of no, one, two and 130 entries.              *)
EXTENDS CiCodec

Args(kind) == CellArgs(CiLayouts[kind].cells \o CiLayouts[kind].tail, "arg") \ {"version"}
Blocks(kind) == CellArgs(CiLayouts[kind].cells \o CiLayouts[kind].tail, "bytes")
(* Widths of the C types. *)
TypeBits(a) ==
  CASE a \in {"src_muid", "dst_muid", "target_muid", "mfr_id", "sw_rev", "max_sysex"} -> 32
    [] a \in {"family", "model", "num_channels", "num_chunks", "this_chunk"} -> 16
    [] a \in {"profile_id", "details"} -> 40
    [] OTHER -> 8

Unit(name) == IF name \in {"enabled", "disabled"} THEN 5 ELSE 1
Entries(kind, n) == [b \in Blocks(kind) |-> [i \in 1 .. n * Unit(b) |-> {i % 7}]]
Msg(kind, v, args, n) ==
  [kind |-> kind, args |-> args @@ [version |-> Bits(v)], blocks |-> Entries(kind, n)]

LowArgs(kind)  == [a \in Args(kind) |-> {}]
HighArgs(kind) == [a \in Args(kind) |-> 0 .. TypeBits(a) - 1]
(* The widest values of which every byte fits a SysEx. *)
CleanArgs(kind) == [a \in Args(kind) |-> {b \in 0 .. TypeBits(a) - 1 : b % 8 # 7}]
Walked(kind) == UNION {{[LowArgs(kind) EXCEPT ![a] = {b}] : b \in 0 .. TypeBits(a) - 1} : a \in Args(kind)}

Corners == UNION {{Msg(k, v, HighArgs(k), 1), Msg(k, v, CleanArgs(k), 2)} : k \in CiKinds, v \in {1, 2}}
AllMessages ==
  UNION {{Msg(k, v, args, 0) : args \in Walked(k) \union {LowArgs(k)}} : k \in CiKinds, v \in {1, 2}}
  \union {Msg(k, 2, CleanArgs(k), 130) : k \in {j \in CiKinds : Blocks(j) # {}}}

Lengths     == 1 .. 40
LengthBytes == {{}, {2, 4, 5}, {1, 2, 5, 6}}
AllSubIds   == 0 .. 127
=============================================================================
