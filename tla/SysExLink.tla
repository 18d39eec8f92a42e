------------------------------ MODULE SysExLink -----------------------------
(***************************************************************************)
(* midi2_proc_send_sysex7 and midi2_proc_send_sysex8 fragmenting messages  *)
(* into a sink of bounded size (the write_fn), and a receiver running Proc *)
(* on what comes out.  Each call of write_fn is one step, so other tasks   *)
(* may send between two packets of a message.                              *)
(***************************************************************************)
EXTENDS Naturals, Sequences, FiniteSets

CONSTANTS
  Senders,    (* tasks that send: the mt, group and stream they send with   *)
  Lengths,    (* lengths of the messages they send, in bytes                *)
  Silent,     (* TRUE: write_fn reports success for a packet it dropped     *)
  WireSize,   (* packets the sink can hold                                  *)
  MaxMessages,(* bound on the messages sent; names the checking bound only  *)
  MaxFed,     (* bound on the packets fed, above what MaxMessages allows    *)
  Groups, BufSize, MaxData

Kinds == {"sysex7", "sysex8"}

(* A packet carries at least one byte, a buffer holds at least one.        *)
ASSUME LinkAssumption ==
  /\ Senders \subseteq [mt: Kinds, group: Groups, stream: Nat]
  /\ Lengths \subseteq Nat \ {0}
  /\ MaxData \in [Kinds -> Nat \ {0}] /\ BufSize \in [Kinds -> Nat \ {0}]
  /\ Silent \in BOOLEAN /\ {WireSize, MaxMessages, MaxFed} \subseteq Nat

VARIABLES
  tx,         (* per sender: the message in progress (0: none), the offset  *)
  log,        (* history: the messages begun, and what became of them       *)
  wire,       (* packets accepted and not yet fed to the receiver           *)
  source,     (* history: the message and offset of each packet fed         *)
  delivered,  (* history: what on_sysex7 and on_sysex8 received             *)
  asm, group_mask, up, fed

procVars == <<asm, group_mask, up, fed>>
linkVars == <<tx, log, wire, source, delivered, asm, group_mask, up, fed>>

Receiver == INSTANCE Proc WITH
  Packets <- {}, Masks <- {}, Buffers <- Kinds,
  Callbacks <- {"on_ump", "on_sysex7", "on_sysex8"}

-----------------------------------------------------------------------------
Smaller(m, n) == IF m < n THEN m ELSE n

Bug_Form(first, last) ==
  IF first THEN IF last THEN "complete" ELSE "start" ELSE "continue"

(* midi2_proc_stream_form; send_sysex7 takes the same decision by offset. *)
Form(first, last) ==
  IF first THEN IF last THEN "complete" ELSE "start"
           ELSE IF last THEN "end" ELSE "continue"

(* The bytes of the message the next packet carries. *)
Chunk(s, offset, len) == Smaller(MaxData[s.mt], len - offset)

(* The packet send_sysex7 or send_sysex8 builds at an offset. *)
PacketAt(s, offset, len) ==
  LET n == Chunk(s, offset, len)
  IN  [mt |-> s.mt, group |-> s.group, stream |-> s.stream,
       status |-> Form(offset = 0, offset + n = len),
       num_bytes |-> IF s.mt = "sysex8" THEN n + 1 ELSE n,
       truncated |-> FALSE]

Quiet == [msg |-> 0, offset |-> 0]

Init ==
  /\ Receiver!Init
  /\ tx = [s \in Senders |-> Quiet]
  /\ log = <<>>
  /\ wire = <<>>
  /\ source = <<>>
  /\ delivered = <<>>

(* A task calls the sender with a message of len > 0 bytes.  The caller    *)
(* keeps messages of one kind apart, as the examples do by sending from    *)
(* one task or under a lock (pipeline.c:2, Zephyr's main.c:173).           *)
Begin(s, len) ==
  /\ tx[s] = Quiet
  /\ Len(log) < MaxMessages
  /\ \A q \in Senders : q.mt = s.mt => tx[q] = Quiet
  /\ log' = Append(log, [sender |-> s, len |-> len, fate |-> "sending"])
  /\ tx' = [tx EXCEPT ![s] = [msg |-> Len(log) + 1, offset |-> 0]]
  /\ UNCHANGED <<wire, source, delivered, procVars>>

Bug_Stops(taken) == FALSE

(* write_fn returned less than the packet's words: the sender gives up. *)
Stops(taken) == ~taken /\ ~Silent

(* One call of write_fn.  The sender stops at a packet reported short, and *)
(* after the last packet, whose result it does not look at.                *)
Write(s) ==
  LET m      == tx[s].msg
      offset == tx[s].offset
      len    == log[m].len
      n      == Chunk(s, offset, len)
      taken  == Len(wire) < WireSize
      short  == Stops(taken)
      last   == offset + n = len
  IN  /\ tx[s] # Quiet
      /\ wire' = IF taken THEN Append(wire, [packet |-> PacketAt(s, offset, len),
                                             from |-> <<m, offset>>])
                 ELSE wire
      /\ IF short \/ last
         THEN /\ tx' = [tx EXCEPT ![s] = Quiet]
              /\ log' = [log EXCEPT ![m].fate = IF short THEN "refused" ELSE "sent"]
         ELSE /\ tx' = [tx EXCEPT ![s].offset = offset + n]
              /\ UNCHANGED log
      /\ UNCHANGED <<source, delivered, procVars>>

(* The receiver takes a packet off the wire and feeds it; what a callback  *)
(* hands over is recorded as the message and index of every byte.          *)
Receive ==
  /\ wire # <<>>
  /\ Receiver!Feed(Head(wire).packet)
  /\ wire' = Tail(wire)
  /\ source' = Append(source, Head(wire).from)
  /\ delivered' =
       IF up'.cb = "none" THEN delivered
       ELSE Append(delivered,
              [lane |-> Head(wire).packet.mt, key |-> up'.key,
               bytes |-> [x \in 1 .. Len(up'.data) |->
                            LET from == source'[up'.data[x][1]]
                            IN  <<from[1], from[2] + up'.data[x][2]>>]])
  /\ UNCHANGED <<tx, log>>

Next ==
  \/ \E s \in Senders : Write(s) \/ \E len \in Lengths : Begin(s, len)
  \/ Receive

Fairness == WF_linkVars(Receive) /\ \A s \in Senders : WF_linkVars(Write(s))

Spec == Init /\ [][Next]_linkVars /\ Fairness

-----------------------------------------------------------------------------
(* What the receiver's callback should be given for message m: all of it,  *)
(* or as much as the reassembly buffer holds.                              *)
Content(m) ==
  LET s == log[m].sender
      n == IF log[m].len <= MaxData[s.mt] THEN log[m].len
           ELSE Smaller(log[m].len, BufSize[s.mt])
  IN  [lane |-> s.mt, key |-> Receiver!Key(s), bytes |-> [x \in 1 .. n |-> <<m, x>>]]

(* Every message delivered is one that was sent, whole: packets refused by *)
(* the sink, and the messages abandoned then, leave no gap and no debris   *)
(* in a later message (midi2_proc.c:267).                                  *)
DeliveredWereSent ==
  \A i \in DOMAIN delivered :
    \E m \in DOMAIN log : delivered[i] = Content(m)

(* Every message begun ends: it is refused by the sink or delivered whole,  *)
(* given only that the sender runs on and the receiver drains the wire.    *)
Settled(m) ==
  \/ log[m].fate = "refused"
  \/ \E i \in DOMAIN delivered : delivered[i] = Content(m)

EveryMessageSettles ==
  \A m \in 1 .. MaxMessages : m \in DOMAIN log ~> (m \in DOMAIN log /\ Settled(m))

-----------------------------------------------------------------------------
(* The refinement mapping to MessageLanes: a message is pending on its     *)
(* lane from the call on until it is delivered or a packet is refused.     *)
Identity(d) ==
  IF \E m \in DOMAIN log : d = Content(m)
  THEN CHOOSE m \in DOMAIN log : d = Content(m) ELSE 0

InTransit(l) ==
  {m \in DOMAIN log : /\ log[m].sender.mt = l
                      /\ log[m].fate # "refused"
                      /\ \A i \in DOMAIN delivered : delivered[i] # Content(m)}

Lanes == INSTANCE MessageLanes WITH
  Lanes <- Kinds, Messages <- 1 .. MaxMessages,
  pending <- [l \in Kinds |-> InTransit(l)],
  received <- [i \in DOMAIN delivered |-> Identity(delivered[i])]

(* The link keeps the promise of MessageLanes: per kind of SysEx, whatever *)
(* the sink refuses, messages come out whole, once and in the order sent.  *)
ImplementsLanes == Lanes!Spec
=============================================================================
