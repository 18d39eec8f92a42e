------------------------------- MODULE AvrLoop -------------------------------
(***************************************************************************)
(* The super-loop of examples/atmega32u4-device-baremetal on alternate     *)
(* setting 1: midi2lufa_task moves words between the rings and the USB     *)
(* endpoints, ump_task assembles and handles what was received,            *)
(* catalog_task sends the next catalog entries.  A write takes a message   *)
(* whole, or not at all when the transmit ring is full.                    *)
(***************************************************************************)
EXTENDS Naturals, Sequences

CONSTANTS
  Catalog,      (* what midi2_catalog_build makes: [kind, words], in order  *)
  AvrReply,     (* what answers a request, by the request's kind            *)
  Inbound,      (* what the host may send: [kind, words, value]             *)
  TxWords,      (* size of the transmit ring, in words                      *)
  RxWords,      (* size of the receive ring                                 *)
  MaxTries,     (* of a reply's packet: 1000                                *)
  Period        (* the host's messages are numbered modulo this, so that    *)
                (* one that sends for ever has finitely many states         *)

Forms   == {"other", "complete", "start", "continue", "end"}
AvrMessage == [kind: Forms, words: 1 .. 4]

Controls == {"echo", "entry", "pause", "resume", "burst"}

(* Every Start goes on to its End: catalog.c:68, and what                  *)
(* midi2_proc_send_sysex7 makes of a reply.                                *)
WholeRuns(messages) ==
  \A i \in 1 .. Len(messages) : messages[i].kind = "start" =>
    \E e \in i + 1 .. Len(messages) :
      /\ messages[e].kind = "end"
      /\ \A k \in i + 1 .. e - 1 : messages[k].kind = "continue"

ASSUME AvrAssumption ==
  /\ Catalog \in Seq(AvrMessage) /\ Catalog # <<>> /\ WholeRuns(Catalog)
  /\ \A k \in DOMAIN AvrReply : AvrReply[k] \in Seq(AvrMessage) /\ WholeRuns(AvrReply[k])
  /\ DOMAIN AvrReply \intersect Controls = {}
  /\ Inbound \subseteq [kind: Controls \union DOMAIN AvrReply, words: 1 .. 4, value: 0 .. 127]
  /\ {TxWords, RxWords, MaxTries} \subseteq Nat \ {0} /\ Period \in Nat \ {0, 1}

VARIABLES
  pc,               (* the task the loop is in                              *)
  incoming, rx,     (* words on the bus, words in the receive ring          *)
  msg,              (* msg[0 .. have-1] of ump_task                         *)
  reply, tries,     (* what is still to be answered; tries for the next packet *)
  tx,               (* the transmit ring: the words of each message         *)
  cat_idx, cat_paused, burst_sweeps,
  received,         (* the number of the last message the host has sent     *)
  open,             (* history: whose SysEx7 run has no End in tx yet       *)
  interrupted,      (* history: something was written inside a run          *)
  excused           (* history: a burst was asked for, or the ring was full *)
                    (* in the middle of a run                               *)

answer  == <<reply, tries>>
catalog == <<cat_idx, cat_paused, burst_sweeps>>
ghosts  == <<open, interrupted, excused>>
avrVars == <<pc, incoming, rx, msg, answer, tx, catalog, received, ghosts>>

AvrInit ==
  /\ pc = "usb" /\ incoming = <<>> /\ rx = <<>> /\ msg = <<>> /\ reply = <<>> /\ tries = 0
  /\ tx = <<>> /\ cat_idx = 0 /\ cat_paused = FALSE /\ burst_sweeps = 0 /\ received = 0
  /\ open = "nobody" /\ interrupted = FALSE /\ excused = FALSE

-----------------------------------------------------------------------------
(* The rings. *)

Sizes(messages) == [i \in 1 .. Len(messages) |-> messages[i].words]
Total(sizes) ==
  LET sum[n \in 0 .. Len(sizes)] == IF n = 0 THEN 0 ELSE sum[n - 1] + sizes[n]
  IN  sum[Len(sizes)]

Fits(messages) == Total(tx \o Sizes(messages)) <= TxWords

(* What the receiver of tx sees of runs, after messages of one writer.     *)
OpenAfter(by, messages) ==
  LET after[n \in 0 .. Len(messages)] ==
        IF n = 0 THEN open
        ELSE CASE messages[n].kind = "start" -> by
               [] messages[n].kind = "end"   -> "nobody"
               [] OTHER                      -> after[n - 1]
  IN  after
Intrudes(by, messages) ==
  \E n \in 1 .. Len(messages) :
    /\ OpenAfter(by, messages)[n - 1] # "nobody"
    /\ OpenAfter(by, messages)[n - 1] # by \/ messages[n].kind \notin {"continue", "end"}

Written(by, messages) ==
  /\ tx' = tx \o Sizes(messages)
  /\ open' = OpenAfter(by, messages)[Len(messages)]
  /\ interrupted' = (interrupted \/ Intrudes(by, messages))

(* midi2lufa_task: the host reads some of what is there, some of what it   *)
(* sends fits.                                                             *)
Usb ==
  /\ \E n \in 0 .. Len(tx) : tx' = SubSeq(tx, n + 1, Len(tx))
  /\ \E k \in 0 .. Len(incoming) :
       /\ Len(rx) + k <= RxWords
       /\ rx' = rx \o SubSeq(incoming, 1, k)
       /\ incoming' = SubSeq(incoming, k + 1, Len(incoming))

midi2lufa_task ==
  /\ pc = "usb" /\ pc' = "ump" /\ Usb
  /\ UNCHANGED <<msg, answer, catalog, received, ghosts>>

Successor(no) == (no + 1) % Period

(* The host sends what it likes and when it likes, for as long as it likes. *)
HostSends(m) ==
  /\ incoming = <<>>
  /\ received' = Successor(received)
  /\ incoming' = [i \in 1 .. m.words |-> [of |-> m, no |-> received', at |-> i]]
  /\ UNCHANGED <<pc, rx, msg, answer, tx, catalog, ghosts>>

-----------------------------------------------------------------------------
(* The catalog. *)

At(i) == Catalog[(i % Len(Catalog)) + 1]

Bug_RunLength(i) == 1

(* catalog_emit goes on to the End when entry i is a Start.                *)
RunLength(i) ==
  IF At(i).kind # "start" THEN 1
  ELSE CHOOSE n \in 2 .. Len(Catalog) :
         At(i + n - 1).kind = "end" /\ \A k \in 1 .. n - 2 : At(i + k).kind # "end"

(* It stops at the first entry the ring has no room for, and reports that  *)
(* entry as the last one emitted.                                          *)
Run(i, n) == [k \in 1 .. n |-> At(i + k - 1)]
Emitted(i) ==
  LET fit == {n \in 0 .. RunLength(i) : Fits(Run(i, n))}
  IN  CHOOSE n \in fit : \A k \in fit : k <= n
catalog_emit(i) ==
  /\ Written("catalog", Run(i, Emitted(i)))
  /\ excused' = (excused \/ Emitted(i) \in 1 .. RunLength(i) - 1)
LastEmitted(i) == IF Emitted(i) = RunLength(i) THEN i + Emitted(i) - 1 ELSE i + Emitted(i)

(* A burst writes entry by entry, until the ring is full.                  *)
Burst ==
  /\ pc = "catalog" /\ burst_sweeps > 0
  /\ IF Fits(<<At(cat_idx)>>)
     THEN /\ Written("catalog", <<At(cat_idx)>>)
          /\ cat_idx' = (cat_idx + 1) % Len(Catalog)
          /\ burst_sweeps' = IF cat_idx' = 0 THEN burst_sweeps - 1 ELSE burst_sweeps
          /\ UNCHANGED <<pc, excused>>
     ELSE pc' = "usb" /\ UNCHANGED <<tx, cat_idx, burst_sweeps, ghosts>>
  /\ UNCHANGED <<incoming, rx, msg, answer, cat_paused, received>>

(* The cycle is due every 500 ms, unless it is paused.                     *)
Cycle ==
  /\ pc = "catalog" /\ burst_sweeps = 0 /\ pc' = "usb"
  /\ \/ /\ ~ cat_paused
        /\ catalog_emit(cat_idx)
        /\ cat_idx' = (LastEmitted(cat_idx) + 1) % Len(Catalog)
     \/ UNCHANGED <<tx, cat_idx, ghosts>>
  /\ UNCHANGED <<incoming, rx, msg, answer, cat_paused, burst_sweeps, received>>

-----------------------------------------------------------------------------
(* ump_task. *)

(* on_ump, on_sysex7 and the raw echo of Data128.                          *)
Echo(m) ==
  /\ LET back == <<[kind |-> "other", words |-> m.words]>>
     IN  Written("echo", IF Fits(back) THEN back ELSE <<>>)
  /\ UNCHANGED <<pc, answer, catalog, excused>>

control_surface(m) ==
  /\ CASE m.kind = "entry" -> catalog_emit(m.value % Len(Catalog))
       [] m.kind = "burst" -> excused' = TRUE /\ UNCHANGED <<tx, open, interrupted>>
       [] OTHER            -> UNCHANGED <<tx, ghosts>>
  /\ cat_paused' = CASE m.kind = "pause" -> TRUE [] m.kind = "resume" -> FALSE [] OTHER -> cat_paused
  /\ burst_sweeps' = IF m.kind = "burst" THEN m.value + 1 ELSE burst_sweeps
  /\ UNCHANGED <<pc, answer, cat_idx>>

Request(m) ==
  /\ reply' = AvrReply[m.kind] /\ tries' = 0
  /\ pc' = IF reply' = <<>> THEN "ump" ELSE "reply"
  /\ UNCHANGED <<tx, catalog, ghosts>>

Handle(m) ==
  CASE m.kind = "echo"          -> Echo(m)
    [] m.kind \in DOMAIN AvrReply  -> Request(m)
    [] OTHER                    -> control_surface(m)

(* The words so far of the message being assembled. *)
Available == msg \o rx

Complete ==
  /\ pc = "ump" /\ Available # <<>>
  /\ LET m == Available[1].of
     IN  /\ m.words <= Len(Available)
         /\ rx' = SubSeq(Available, m.words + 1, Len(Available))
         /\ msg' = <<>>
         /\ Handle(m)
  /\ UNCHANGED <<incoming, received>>

Bug_Incomplete ==
  /\ pc = "ump"
  /\ Available # <<>> => Len(Available) < Available[1].of.words
  /\ msg' = <<>> /\ rx' = <<>> /\ pc' = "catalog"
  /\ UNCHANGED <<incoming, answer, tx, catalog, received, ghosts>>

(* The rest of the message comes in a later round.                         *)
Incomplete ==
  /\ pc = "ump"
  /\ Available # <<>> => Len(Available) < Available[1].of.words
  /\ msg' = Available /\ rx' = <<>> /\ pc' = "catalog"
  /\ UNCHANGED <<incoming, answer, tx, catalog, received, ghosts>>

(* send4 and ci_write_fn: each packet is tried again, moving the rings in  *)
(* between, and then given up.  A SysEx7 frame stops there, and the reply  *)
(* goes on with its next one.                                              *)
Answered(rest) ==
  /\ reply' = rest /\ tries' = 0
  /\ pc' = IF rest = <<>> THEN "ump" ELSE "reply"
SendPacket ==
  /\ pc = "reply" /\ tries < MaxTries /\ Fits(<<Head(reply)>>)
  /\ Written("reply", <<Head(reply)>>) /\ Answered(Tail(reply))
  /\ UNCHANGED <<incoming, rx, msg, catalog, received, excused>>

Bug_GiveUp ==
  /\ pc = "reply" /\ tries = MaxTries
  /\ Usb /\ tries' = 0
  /\ UNCHANGED <<pc, msg, reply, catalog, received, ghosts>>

FrameEnds(messages, n) ==
  /\ messages[n].kind \notin {"start", "continue"} \/ n = Len(messages)
  /\ \A k \in 1 .. n - 1 : messages[k].kind \in {"start", "continue"}

GiveUp ==
  /\ pc = "reply" /\ tries = MaxTries
  /\ \E n \in 1 .. Len(reply) :
       FrameEnds(reply, n) /\ Answered(SubSeq(reply, n + 1, Len(reply)))
  /\ excused' = (excused \/ open = "reply")
  /\ UNCHANGED <<incoming, rx, msg, tx, catalog, received, open, interrupted>>

Wait ==
  /\ pc = "reply" /\ ~ Fits(<<Head(reply)>>) /\ tries < MaxTries
  /\ Usb /\ tries' = tries + 1
  /\ UNCHANGED <<pc, msg, reply, catalog, received, ghosts>>

ump_task == Complete \/ Incomplete \/ SendPacket \/ Wait \/ GiveUp
Loop == midi2lufa_task \/ ump_task \/ Burst \/ Cycle
AvrNext == Loop \/ \E m \in Inbound : HostSends(m)

(* The loop runs for ever; nothing is assumed of the host.                 *)
AvrFairness == WF_avrVars(Loop)

AvrSpec == AvrInit /\ [][AvrNext]_avrVars /\ AvrFairness

-----------------------------------------------------------------------------
(* Whatever round its words arrive in, the words ump_task has gathered are *)
(* the first words of one message, and those in the ring go on from there: *)
(* framing never slips.                                                    *)
MessagesFramed ==
  LET stream == msg \o rx \o incoming
  IN  /\ stream # <<>> => stream[1].at = 1 /\ Len(msg) < stream[1].of.words
      /\ \A i \in 1 .. Len(stream) - 1 :
           \/ stream[i + 1].no = stream[i].no /\ stream[i + 1].at = stream[i].at + 1
           \/ stream[i + 1].no = Successor(stream[i].no) /\ stream[i + 1].at = 1
              /\ stream[i].at = stream[i].of.words

(* "A SysEx7 run leaves in one pass, so nothing lands between its Start    *)
(* and End" (README.md:47): echoes, triggered entries, replies and the     *)
(* catalog cycle never fall inside a run, as long as no burst is asked for *)
(* and the ring has room for the run.                                      *)
LeavesInOnePass == interrupted => excused

(* "A host that stops reading cannot hang the loop" (stream_responder.c:15): *)
(* a reply to a host that does not read ends, and so does every round of   *)
(* the loop, unless the host goes on sending for ever: the retries of a    *)
(* reply fetch the next requests, and ump_task returns only when there is  *)
(* nothing left to take.                                                   *)
EveryRoundEnds ==
  /\ []<>(pc # "reply")
  /\ []<><<\E m \in Inbound : HostSends(m)>>_avrVars \/ []<>(pc = "usb")
=============================================================================
