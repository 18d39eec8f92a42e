----------------------------- MODULE MCSysExLink ----------------------------
(* Small instances of SysExLink: up to three senders and a short wire. *)
EXTENDS SysExLink

Sender(mt, g, st) == [mt |-> mt, group |-> g, stream |-> st]

(* Two groups of SysEx7, one stream of SysEx8. *)
ThreeSenders == {Sender("sysex7", 0, 0), Sender("sysex7", 1, 0), Sender("sysex8", 0, 1)}
OneSender    == {Sender("sysex7", 0, 0)}

(* One packet, and three packets that hold more than the buffer does. *)
Lengths15  == {1, 5}
Groups01   == 0 .. 1
Size4      == [k \in {"sysex7", "sysex8"} |-> 4]
Data2      == [k \in {"sysex7", "sysex8"} |-> 2]
=============================================================================
