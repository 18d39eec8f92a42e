----------------------------- MODULE MCUmpCodec -----------------------------
(* Every bit of every argument: a builder and a callback treat an argument *)
(* bit by bit, so a one walked through all the bits of all    *)
(* the arguments, out-of-range bits included, shows where each of them     *)
(* goes.                                                                   *)
EXTENDS UmpCodec

(* Width of an argument's C type: bool, uint8_t, uint16_t or uint32_t. *)
TypeBits(fields, a) ==
  LET top == Max(RangeOf(fields, a)) + 1
  IN  CASE top = 1 -> 1 [] top \in 2 .. 8 -> 8 [] top \in 9 .. 16 -> 16 [] OTHER -> 32

(* What an argument may be: all of its type, but for the arguments callers *)
(* take from a fixed set (SysEx statuses, the banks of Flex text, and the   *)
(* channel nibble of a MIDI 1.0 status byte).                               *)
High(kind, a) ==
  CASE kind = "flex_text" /\ a = "bank" -> {1}
    [] a = "status" /\ kind \in {"sysex7_packet", "sysex8_packet"} -> {4, 5}
    [] kind \in DOMAIN from_midi1 /\ a = "channel" -> 0 .. 3
    [] OTHER -> 0 .. TypeBits(Layouts[kind].fields, a) - 1
Low(kind, a) == IF kind = "flex_text" /\ a = "bank" THEN {0} ELSE {}

(* A one walked over zeros, one argument full or empty, all full, none.    *)
Walks(kind) ==
  LET args    == ArgsOf(Layouts[kind].fields)
      low     == [a \in args |-> Low(kind, a)]
      high    == [a \in args |-> High(kind, a)]
      walked  == {a \in args : ~ (kind = "flex_text" /\ a = "bank")}
  IN  {low, high}
      \union UNION {{[low EXCEPT ![a] = {b}] : b \in High(kind, a)} : a \in walked}
      \union {[low EXCEPT ![a] = High(kind, a)] : a \in args}
      \union {[high EXCEPT ![a] = Low(kind, a)] : a \in args}

(* Byte strings of every length, one more than there is room for included, *)
(* full, empty at the end, and a one walked through every place.           *)
Ff == 0 .. 7
ByteStrings(room) ==
  {[i \in 1 .. n |-> Ff] : n \in 0 .. room + 1}
  \union {[i \in 1 .. room |-> IF i = j THEN {b} ELSE {}] : j \in 1 .. room, b \in {0, 3, 7}}
  \union {[i \in 1 .. room |-> IF i = room THEN {} ELSE Ff]}

Of(kind) ==
  LET L == Layouts[kind]
  IN  IF L.room = 0 THEN {[kind |-> kind, args |-> a, data |-> <<>>] : a \in Walks(kind)}
      ELSE {[kind |-> kind, args |-> a, data |-> [i \in 1 .. L.room |-> Ff]] : a \in Walks(kind)}
           \union {[kind |-> kind, args |-> [a \in ArgsOf(L.fields) |-> Low(kind, a)], data |-> d] :
                     d \in ByteStrings(L.room)}
AllMessages == UNION {Of(kind) : kind \in UmpKinds}

(* Every message type with every status nibble over zeros and ones, the    *)
(* banks and statuses of Flex Data and Stream messages past the defined    *)
(* ones, and each of their high bits.                                      *)
RawHeaders ==
  {Put(Bits(mt), 28) \union Put(Bits(s), 20) \union rest :
     mt \in 0 .. 15, s \in 0 .. 15, rest \in {{}, 0 .. 19}}
  \union {MT(13) \union Put(Bits(bank), 8) \union Bits(s) : bank \in 0 .. 3, s \in 0 .. 8}
  \union {MT(15) \union Put(Bits(s), 16) : s \in (0 .. \h23) \union {2 ^ n : n \in 6 .. 9}}
Headers == {[NoWords EXCEPT ![0] = h] : h \in RawHeaders}

(* MTC quarter frame, song position and song select, by their CIN, with a  *)
(* one walked through their data bytes.                                    *)
SystemEvents ==
  {Bits(c[1]) \union Put(Bits(c[2]), 8) \union data :
     c \in {<<2, \hF1>>, <<3, \hF2>>, <<2, \hF3>>},
     data \in {{}, 16 .. 31} \union {{i} : i \in 16 .. 31}}

SomeGroups == {{0, 2, 5, 7}}
MidiOne    == DOMAIN from_midi1
=============================================================================
