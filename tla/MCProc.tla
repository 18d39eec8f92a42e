------------------------------- MODULE MCProc -------------------------------
(* Small instances of Proc: what is fed, and how large the buffers are. *)
EXTENDS Proc

Pkt(mt, g, s, st, n) ==
  [mt |-> mt, group |-> g, stream |-> s, status |-> st, num_bytes |-> n,
   truncated |-> FALSE]

(* SysEx7 on two groups, in every status; Starts and Continues of one byte or
   two, so that a message may end before, at and past the buffer's size. *)
Sysex7Packets ==
  {Pkt("sysex7", g, 0, st, n) : g \in 0 .. 1, st \in {"start", "continue"}, n \in 1 .. 2}
  \union {Pkt("sysex7", g, 0, st, 1) : g \in 0 .. 1, st \in {"complete", "end"}}

(* SysEx8 packets under three (group, stream id) pairs, among them Mixed Data
   Set ones, packets that say they are empty and that say they hold more than
   a packet can; num_bytes counts the stream id. *)
Sysex8Packets ==
  {Pkt("sysex8", 0, 0, "start", 2), Pkt("sysex8", 0, 0, "continue", 9),
   Pkt("sysex8", 0, 0, "end", 0), Pkt("sysex8", 0, 0, "other", 2)}
  \union {Pkt("sysex8", 0, 1, st, 2) : st \in {"start", "continue", "complete"}}
  \union {Pkt("sysex8", 1, 0, "end", 2)}

(* Both kinds, other message types and truncated feeds. *)
MixedPackets ==
  Sysex7Packets \union Sysex8Packets
  \union {Pkt("voice", 0, 0, "other", 0), Pkt("utility", 0, 0, "other", 0),
          Pkt("sysex7", 0, 0, "continue", 0)}
  \union {[Pkt("sysex7", 0, 0, "continue", 1) EXCEPT !.truncated = TRUE]}

Groups01  == 0 .. 1
AllMasks  == {{0, 1}, {1}}
Both      == {"sysex7", "sysex8"}
AllCalls  == {"on_ump", "on_sysex7", "on_sysex8"}
Size3     == [k \in Kinds |-> 3]
Data2     == [k \in Kinds |-> 2]
=============================================================================
