---------------------------- MODULE RtosPipeline ----------------------------
(***************************************************************************)
(* The two tasks of examples/rp2350-device-freertos/src/pipeline.c.        *)
(* midi_task takes inbound messages off rx_queue, or times out and emits   *)
(* the next catalog entry; what it emits goes to tx_queue one message at a *)
(* time.  usb_task, which preempts it at any point, moves rx_fifo to       *)
(* rx_queue and tx_queue to tx_fifo, holding a message the endpoint        *)
(* refuses.  The endpoint's FIFOs and the host are TinyUSB's side.         *)
(***************************************************************************)
EXTENDS Naturals, Sequences

CONSTANTS
  Catalog,         (* what midi2_catalog_build makes: [kind, words], in order *)
  Reply,           (* the SysEx7 packets of a MIDI-CI reply                 *)
  Inbound,         (* what the host may send: [kind, index, words]          *)
  QueueDepth,      (* PIPE_QUEUE_DEPTH                                      *)
  FifoWords,       (* CFG_TUD_MIDI2_RX_BUFSIZE, _TX_BUFSIZE in words        *)
  HeartbeatTicks,  (* HEARTBEAT_TICKS                                       *)
  MaxUnplugs,      (* bound on how often the cable is pulled; likewise      *)
  MaxPasses,       (* bound on what midi_task emits; for checking only      *)
  MaxInbound       (* bound on what the host sends; for checking only       *)

Message == [kind: {"other", "complete", "start", "continue", "end"}, words: 1 .. 4]

ASSUME RtosAssumption ==
  /\ Catalog \in Seq(Message) /\ Catalog # <<>>
  /\ (\E i \in 1 .. Len(Catalog) : Catalog[i].kind = "start") =>
       \E i \in 1 .. Len(Catalog) : Catalog[i].kind = "end"
  /\ Reply \in Seq(Message)
  /\ Reply # <<>> => Reply[Len(Reply)].kind \in {"complete", "end"}
  /\ Inbound \subseteq [kind: {"request", "trigger", "pause", "resume", "other"},
                        index: Nat, words: 1 .. 4]
  /\ {QueueDepth, FifoWords, HeartbeatTicks} \subseteq Nat \ {0}
  /\ {MaxPasses, MaxInbound, MaxUnplugs} \subseteq Nat

VARIABLES
  rx_fifo, tx_fifo,     (* the endpoint's FIFOs, in messages                *)
  rx_queue, tx_queue,
  held,                 (* s_tx_held: <<>>, or the message to write again   *)
  todo,                 (* what midi_task still has to enqueue in this pass *)
  cycle,                (* s_cycle_idx, s_cycle_paused, tick                *)
  mounted,
  unplugged,            (* how often the cable was pulled                   *)
  passes, inbound,      (* passes of midi_task that emit; messages: sent by *)
                        (* the host, taken by midi_task, and s_rx_drops     *)
  tx_drops,             (* s_tx_drops                                       *)
  accepted, host        (* history: what entered tx_queue and what the host *)
                        (* received, since the device was mounted           *)

midiVars == <<todo, cycle, passes>>
usbVars  == <<rx_fifo, tx_fifo, held>>
vars == <<midiVars, usbVars, rx_queue, tx_queue, mounted, unplugged, inbound, tx_drops,
          accepted, host>>

-----------------------------------------------------------------------------
At(i) == ((i - 1) % Len(Catalog)) + 1

Bug_RunLength(i) == 1

(* emit_catalog sends entry i, and when it is a Start all up to the End.   *)
RunLength(i) ==
  IF Catalog[i].kind # "start" THEN 1
  ELSE CHOOSE n \in 2 .. Len(Catalog) :
         /\ Catalog[At(i + n - 1)].kind = "end"
         /\ \A k \in 2 .. n - 1 : Catalog[At(i + k - 1)].kind # "end"

(* The messages of one run, marked with the pass that emits it.            *)
Marked(messages) ==
  [k \in 1 .. Len(messages) |-> [kind |-> messages[k].kind, words |-> messages[k].words,
                                 run |-> passes + 1]]

Run(i) == Marked([k \in 1 .. RunLength(i) |-> Catalog[At(i + k - 1)]])

Heartbeat == [kind |-> "other", words |-> 1, run |-> 0]

Words(messages) ==
  LET sum[n \in 0 .. Len(messages)] == IF n = 0 THEN 0 ELSE sum[n - 1] + messages[n].words
  IN  sum[Len(messages)]

Init ==
  /\ rx_fifo = <<>> /\ tx_fifo = <<>>
  /\ rx_queue = <<>> /\ tx_queue = <<>>
  /\ held = <<>> /\ todo = <<>>
  /\ cycle = [idx |-> 1, paused |-> FALSE, tick |-> 0]
  /\ mounted = TRUE /\ unplugged = 0
  /\ passes = 0 /\ tx_drops = 0
  /\ inbound = [sent |-> 0, taken |-> 0, drops |-> 0]
  /\ accepted = <<>> /\ host = <<>>

-----------------------------------------------------------------------------
(* midi_task. *)

(* A message off rx_queue: midi2_proc_feed, and what its callbacks emit.   *)
Handle ==
  /\ todo = <<>> /\ rx_queue # <<>> /\ passes < MaxPasses
  /\ LET m == Head(rx_queue)
     IN  /\ todo' = CASE m.kind = "request" -> Marked(Reply)
                      [] m.kind = "trigger" -> Run(At(m.index + 1))
                      [] OTHER -> <<>>
         /\ passes' = IF todo' = <<>> THEN passes ELSE passes + 1
         /\ cycle' = [cycle EXCEPT !.paused = CASE m.kind = "pause" -> TRUE
                                                [] m.kind = "resume" -> FALSE
                                                [] OTHER -> @]
  /\ rx_queue' = Tail(rx_queue)
  /\ inbound' = [inbound EXCEPT !.taken = @ + 1]
  /\ UNCHANGED <<usbVars, tx_queue, mounted, unplugged, tx_drops, accepted, host>>

(* xQueueReceive timed out: the heartbeat when it is due, and the next run. *)
Timeout ==
  /\ todo = <<>> /\ rx_queue = <<>> /\ passes < MaxPasses
  /\ ~cycle.paused /\ mounted
  /\ LET due == cycle.tick + 1 >= HeartbeatTicks
         i   == cycle.idx
     IN  /\ todo' = IF due THEN <<Heartbeat>> \o Run(i) ELSE Run(i)
         /\ cycle' = [cycle EXCEPT !.tick = IF due THEN 0 ELSE @ + 1,
                                   !.idx = At(i + RunLength(i))]
  /\ passes' = passes + 1
  /\ UNCHANGED <<usbVars, rx_queue, tx_queue, mounted, unplugged, inbound, tx_drops, accepted, host>>

Bug_Accepts == Len(tx_queue) <= QueueDepth

Accepts == Len(tx_queue) < QueueDepth

(* pipeline_tx: without waiting; a message that does not fit is counted.   *)
Enqueue ==
  /\ todo # <<>>
  /\ todo' = Tail(todo)
  /\ IF Accepts
     THEN /\ tx_queue' = Append(tx_queue, Head(todo))
          /\ accepted' = Append(accepted, Head(todo))
          /\ UNCHANGED tx_drops
     ELSE tx_drops' = tx_drops + 1 /\ UNCHANGED <<tx_queue, accepted>>
  /\ UNCHANGED <<usbVars, cycle, passes, rx_queue, mounted, unplugged, inbound, host>>

-----------------------------------------------------------------------------
(* usb_task. *)

Bug_Readable(n) == Words(SubSeq(rx_fifo, 1, n)) <= 1

(* tud_midi2_n_ump_read gives whole packets, up to the four words of buf.  *)
Readable(n) == Words(SubSeq(rx_fifo, 1, n)) <= 4

(* One turn of the loop of tud_midi2_rx_cb: what is read is reframed into  *)
(* messages and queued, as many as fit.                                    *)
Read ==
  \E n \in 1 .. Len(rx_fifo) :
    /\ Readable(n)
    /\ n < Len(rx_fifo) => ~Readable(n + 1)
    /\ LET room == QueueDepth - Len(rx_queue)
           kept == IF n < room THEN n ELSE room
       IN  /\ rx_queue' = rx_queue \o SubSeq(rx_fifo, 1, kept)
           /\ inbound' = [inbound EXCEPT !.drops = @ + (n - kept)]
    /\ rx_fifo' = SubSeq(rx_fifo, n + 1, Len(rx_fifo))
    /\ UNCHANGED <<midiVars, tx_fifo, held, tx_queue, mounted, unplugged, tx_drops, accepted, host>>

(* The next message to write, when none is held. *)
Take ==
  /\ held = <<>> /\ tx_queue # <<>>
  /\ held' = <<Head(tx_queue)>>
  /\ tx_queue' = Tail(tx_queue)
  /\ UNCHANGED <<midiVars, rx_fifo, tx_fifo, rx_queue, mounted, unplugged, inbound, tx_drops, accepted, host>>

(* tud_midi2_n_ump_write takes a packet whole or not at all. *)
Fits == mounted /\ Words(tx_fifo \o held) <= FifoWords

Bug_Write ==
  /\ held # <<>>
  /\ tx_fifo' = IF Fits THEN tx_fifo \o held ELSE tx_fifo
  /\ held' = <<>>
  /\ UNCHANGED <<midiVars, rx_fifo, rx_queue, tx_queue, mounted, unplugged, inbound, tx_drops, accepted, host>>

(* A short write leaves the message held, to be written in a later pass.   *)
Write ==
  /\ held # <<>> /\ Fits
  /\ tx_fifo' = tx_fifo \o held
  /\ held' = <<>>
  /\ UNCHANGED <<midiVars, rx_fifo, rx_queue, tx_queue, mounted, unplugged, inbound, tx_drops, accepted, host>>

-----------------------------------------------------------------------------
(* The host. *)

HostReads ==
  /\ mounted /\ tx_fifo # <<>>
  /\ host' = Append(host, Head(tx_fifo))
  /\ tx_fifo' = Tail(tx_fifo)
  /\ UNCHANGED <<midiVars, rx_fifo, held, rx_queue, tx_queue, mounted, unplugged, inbound, tx_drops, accepted>>

HostSends(m) ==
  /\ mounted /\ inbound.sent < MaxInbound
  /\ Words(Append(rx_fifo, m)) <= FifoWords
  /\ rx_fifo' = Append(rx_fifo, m)
  /\ inbound' = [inbound EXCEPT !.sent = @ + 1]
  /\ UNCHANGED <<midiVars, tx_fifo, held, rx_queue, tx_queue, mounted, unplugged, tx_drops, accepted, host>>

(* Pulling the cable empties the FIFOs; the queues and held stay.          *)
Unplug ==
  /\ mounted /\ unplugged < MaxUnplugs
  /\ unplugged' = unplugged + 1
  /\ mounted' = FALSE
  /\ rx_fifo' = <<>> /\ tx_fifo' = <<>> /\ host' = <<>>
  /\ accepted' = held \o tx_queue
  /\ inbound' = [inbound EXCEPT !.sent = @ - Len(rx_fifo)]
  /\ UNCHANGED <<midiVars, held, rx_queue, tx_queue, tx_drops>>

Plug ==
  /\ ~mounted
  /\ mounted' = TRUE
  /\ UNCHANGED <<midiVars, usbVars, rx_queue, tx_queue, unplugged, inbound, tx_drops, accepted, host>>

MidiTask == Handle \/ Timeout \/ Enqueue
UsbTask  == Read \/ Take \/ Write
Host     == HostReads \/ (\E m \in Inbound : HostSends(m)) \/ Unplug \/ Plug

Next == MidiTask \/ UsbTask \/ Host

(* Both tasks loop for ever and the host reads what the endpoint offers.   *)
Fairness ==
  /\ WF_vars(MidiTask)
  /\ WF_vars(Read) /\ WF_vars(Take) /\ WF_vars(Write)
  /\ WF_vars(HostReads)

Spec == Init /\ [][Next]_vars /\ Fairness

-----------------------------------------------------------------------------
Sent == [kind: {"other", "complete", "start", "continue", "end"}, words: 1 .. 4,
         run: 0 .. MaxPasses]

(* Type correctness: queues and FIFOs within their sizes, nothing inbound  *)
(* unaccounted for.                                                        *)
TypeOK ==
  /\ \A s \in {tx_fifo, tx_queue, held, todo, accepted, host} : s \in Seq(Sent)
  /\ \A s \in {rx_fifo, rx_queue} : s \in Seq(Inbound)
  /\ Len(rx_queue) <= QueueDepth /\ Len(tx_queue) <= QueueDepth /\ Len(held) <= 1
  /\ Words(rx_fifo) <= FifoWords /\ Words(tx_fifo) <= FifoWords
  /\ cycle \in [idx: 1 .. Len(Catalog), paused: BOOLEAN, tick: 0 .. HeartbeatTicks - 1]
  /\ mounted \in BOOLEAN /\ passes \in 0 .. MaxPasses /\ tx_drops \in Nat
  /\ inbound.sent = inbound.taken + inbound.drops + Len(rx_queue) + Len(rx_fifo)

(* What entered tx_queue reaches the host in that order, each message once *)
(* and none lost: whatever the endpoint refuses, however often it is tried *)
(* again, "keeping every packet" (pipeline.c:115).                         *)
InOrderOnce == host \o tx_fifo \o held \o tx_queue = accepted

(* Once a Start is in tx_queue, only its own run follows until the End.    *)
Uninterrupted ==
  \A i \in 1 .. Len(accepted) - 1 :
    /\ accepted[i].kind \in {"start", "continue"}
    /\ \E j \in 1 .. i : accepted[j].run = accepted[i].run /\ accepted[j].kind = "start"
    => accepted[i + 1].run = accepted[i].run

(* Heartbeats, triggers and MIDI-CI replies never interrupt a SysEx7 run   *)
(* (pipeline.c:73), as long as the queue has not overflowed.               *)
RunsUninterrupted == tx_drops = 0 => Uninterrupted

(* Every message that entered tx_queue reaches the host, unless the cable  *)
(* is pulled first.                                                        *)
EveryMessageArrives ==
  \A n \in 1 .. MaxPasses * Len(Catalog) : Len(accepted) >= n ~> (Len(host) >= n \/ ~mounted)

(* No inbound packet, of one word or of four, wedges the receive FIFO      *)
(* (pipeline.c:140): each is handled, or counted as dropped.               *)
EveryPacketIsRead ==
  \A n \in 1 .. MaxInbound :
    inbound.sent >= n ~> (Len(rx_queue) + inbound.taken + inbound.drops >= n \/ ~mounted)
=============================================================================
