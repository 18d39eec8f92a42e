---------------------------- MODULE ZephyrDevice ----------------------------
(***************************************************************************)
(* examples/rpi-pico-device-zephyr/src/main.c: the scene loop (main), the  *)
(* thread that handles what was received (rx) and the system work queue    *)
(* that sends the heartbeat (work) share one transmit gate, send_ump, whose*)
(* recursive mutex is kept across the calls that make up a SysEx7 run.     *)
(* The USB class may refuse any packet, and the host may go at any time.   *)
(***************************************************************************)
EXTENDS ZephyrShow, FiniteSets

CONSTANTS
  Reply,         (* what rx sends for each kind of packet it may receive    *)
  RxDepth,       (* of g_rx_msgq: 64                                        *)
  MaxAttempts,   (* of one packet: 50                                       *)
  WakeTimes,     (* the times in the cycle at which main may wake           *)
  MaxLateMs,     (* how late main may pass a wake time while the host is there *)
  MaxFaults,     (* bound on how often the host goes or stalls; likewise    *)
  MaxReceived,   (* bound on what the host sends; for checking only         *)
  NoThread       (* the owner of a free mutex                               *)

(* What rx sends has no notes, and every run of it has its End.            *)
Silent == {m \in Message : m.kind \notin {"on", "off"}}
EndsRuns(messages) ==
  \A i \in 1 .. Len(messages) : messages[i].kind # "other" =>
    \E j \in i .. Len(messages) : messages[j].kind = "end"

ASSUME ZephyrAssumption ==
  /\ \A m \in DOMAIN Reply : Reply[m] \in Seq(Silent) /\ EndsRuns(Reply[m])
  /\ {RxDepth, MaxAttempts, MaxLateMs, MaxFaults, MaxReceived} \subseteq Nat /\ RxDepth > 0
  /\ WakeTimes \subseteq 1 .. kCycleMs - 1

(* main, which sleeps 10 ms between passes, wakes often enough for each    *)
(* note of the walk, and once more before the cycle ends for what is left. *)
Timetable(w) ==
  /\ w[1] >= kC_StartMs
  /\ \A i \in 1 .. kC_Count : w[i + 1] >= w[i] + kC_StepMs + MaxLateMs
  /\ w[kC_Count + 1] >= kC_EndMs /\ w[kC_Count + 1] + MaxLateMs < kCycleMs
  /\ \A scene \in DOMAIN Once : Once[scene].at <= w[kC_Count + 1]

ASSUME WakeAssumption == \E w \in [1 .. kC_Count + 1 -> WakeTimes] : Timetable(w)

Threads == {"main", "rx", "work"}
ASSUME NoThreadAssumption == NoThread \notin Threads

VARIABLES
  show, clock,             (* struct showcase and the time of main's last pass *)
  g_midi_ready,
  away,                    (* the host went since main's last pass          *)
  g_rx_msgq,
  bounds,                  (* how often the host went or stalled, and what it sent *)
  todo,                    (* what each thread has still to pass to send_ump *)
  mutex,                   (* tx_lock: owner and lock_count                 *)
  tx_run_held,
  trying, attempt,         (* the thread in the retry loop, and its attempt *)
  sounding,                (* history: the notes the host has been told of  *)
  wire,                    (* history: the senders since the open run's     *)
                           (* Start, if a run is open and not given up      *)
  undisturbed              (* history: in this cycle the host was there and *)
                           (* took whatever main sent                       *)

showVars == <<show, clock, away>>
gate     == <<mutex, tx_run_held, trying, attempt, sounding, wire>>
vars == <<showVars, gate, g_midi_ready, g_rx_msgq, bounds, todo, undisturbed>>

NoShow == [done |-> {}, c_idx |-> 0, c_last |-> kCycleMs]

Init ==
  /\ show = NoShow /\ clock = 0 /\ away = FALSE
  /\ g_midi_ready = FALSE /\ g_rx_msgq = <<>>
  /\ bounds = [faults |-> 0, received |-> 0]
  /\ todo = [t \in Threads |-> <<>>]
  /\ mutex = [owner |-> NoThread, count |-> 0] /\ tx_run_held = FALSE
  /\ trying = NoThread /\ attempt = 0
  /\ sounding = {} /\ wire = <<>> /\ undisturbed = FALSE

-----------------------------------------------------------------------------
(* main, every 10 ms: it passes no wake time by more than MaxLateMs, unless *)
(* the host was away.                                                      *)
Wakes(to) ==
  /\ to > clock
  /\ away \/ \A t \in WakeTimes : clock < t /\ t < to => to - t <= MaxLateMs

Step ==
  /\ todo["main"] = <<>> /\ g_midi_ready
  /\ \/ /\ show = NoShow \/ Wakes(kCycleMs)
        /\ clock' = 0 /\ show' = After(Fresh, 0) /\ undisturbed' = TRUE
        /\ todo' = [todo EXCEPT !["main"] = Sent(Fresh, 0)]
     \/ \E to \in WakeTimes :
          /\ show # NoShow /\ Wakes(to)
          /\ clock' = to /\ show' = After(show, to) /\ UNCHANGED undisturbed
          /\ todo' = [todo EXCEPT !["main"] = Sent(show, to)]
  /\ away' = FALSE
  /\ UNCHANGED <<gate, g_midi_ready, g_rx_msgq, bounds>>

(* rx_packet_cb, on the USB stack's thread: never waits; a packet that     *)
(* does not fit is dropped.                                                *)
rx_packet_cb(m) ==
  /\ g_midi_ready /\ Len(g_rx_msgq) < RxDepth /\ bounds.received < MaxReceived
  /\ bounds' = [bounds EXCEPT !.received = @ + 1]
  /\ g_rx_msgq' = Append(g_rx_msgq, m)
  /\ UNCHANGED <<showVars, gate, g_midi_ready, todo, undisturbed>>

rx_proc_thread ==
  /\ todo["rx"] = <<>> /\ g_rx_msgq # <<>>
  /\ todo' = [todo EXCEPT !["rx"] = Reply[Head(g_rx_msgq)]]
  /\ g_rx_msgq' = Tail(g_rx_msgq)
  /\ UNCHANGED <<showVars, gate, g_midi_ready, bounds, undisturbed>>

(* Every 500 ms the timer's interrupt leaves the sending to the system work *)
(* queue; submitted again before it has run, the work runs once.           *)
jr_heartbeat ==
  /\ todo["work"] = <<>> /\ g_midi_ready
  /\ todo' = [todo EXCEPT !["work"] = <<Other>>]
  /\ UNCHANGED <<showVars, gate, g_midi_ready, g_rx_msgq, bounds, undisturbed>>

midi_ready_cb ==
  /\ g_midi_ready => bounds.faults < MaxFaults
  /\ g_midi_ready' = ~ g_midi_ready
  /\ bounds' = [bounds EXCEPT !.faults = IF g_midi_ready THEN @ + 1 ELSE @]
  /\ away' = (away \/ g_midi_ready)
  /\ undisturbed' = (undisturbed /\ ~ g_midi_ready)
  /\ UNCHANGED <<show, clock, gate, g_rx_msgq, todo>>

-----------------------------------------------------------------------------
(* send_ump. *)

(* A Start opens the run before it is sent, an End closes it.  So does a   *)
(* complete packet, which nothing in the example sends: its MIDI-CI        *)
(* replies and its scene take several packets each.                        *)
RunOpen(m) ==
  CASE m.kind = "start" -> TRUE
    [] m.kind = "end"   -> FALSE
    [] OTHER            -> tx_run_held

Bug_Unlocks(run_open) == IF run_open /\ ~ tx_run_held THEN 0 ELSE 1

(* How often this call unlocks the mutex on its way out: not at all when   *)
(* its run has just begun, once more for the run it ends.                  *)
Unlocks(run_open) ==
  CASE run_open /\ ~ tx_run_held -> 0
    [] ~ run_open /\ tx_run_held -> 2
    [] OTHER                     -> 1

Bug_Leave(t, count, run_open) ==
  /\ mutex' = [owner |-> IF count = 1 THEN NoThread ELSE t, count |-> count - 1]
  /\ tx_run_held' = run_open
  /\ trying' = NoThread /\ attempt' = 0

Leave(t, count, run_open) ==
  LET left == count - Unlocks(run_open)
  IN  /\ mutex' = [owner |-> IF left = 0 THEN NoThread ELSE t, count |-> left]
      /\ tx_run_held' = run_open
      /\ trying' = NoThread /\ attempt' = 0

(* A scene and the Discovery responder go on with the next packet whatever *)
(* became of this one; a MIDI-CI reply stops at the first short write.     *)
AfterFailure(t) ==
  LET m    == Head(todo[t])
      ends == {i \in 1 .. Len(todo[t]) : todo[t][i].kind = "end"}
      rest == IF t = "rx" /\ m.kind # "other"
              THEN SubSeq(todo[t], 1 + CHOOSE i \in ends : \A j \in ends : i <= j, Len(todo[t]))
              ELSE Tail(todo[t])
  IN  todo' = [todo EXCEPT ![t] = rest]

Given(t) ==
  /\ AfterFailure(t)
  /\ wire' = IF wire # <<>> /\ Head(wire) = t THEN <<>> ELSE wire
  /\ undisturbed' = (undisturbed /\ t # "main")
  /\ UNCHANGED sounding

(* The call locks the mutex, and returns at once when the host is gone.    *)
Enter(t) ==
  /\ todo[t] # <<>> /\ trying # t
  /\ mutex.owner \in {NoThread, t}
  /\ IF g_midi_ready
     THEN /\ trying' = t /\ attempt' = 0
          /\ mutex' = [owner |-> t, count |-> mutex.count + 1]
          /\ UNCHANGED <<tx_run_held, todo, wire, sounding, undisturbed>>
     ELSE Leave(t, mutex.count + 1, FALSE) /\ Given(t)
  /\ UNCHANGED <<showVars, g_midi_ready, g_rx_msgq, bounds>>

Accepted(t) ==
  LET m == Head(todo[t]) IN
  /\ g_midi_ready
  /\ Leave(t, mutex.count, RunOpen(m))
  /\ todo' = [todo EXCEPT ![t] = Tail(@)]
  /\ sounding' = CASE m.kind = "on"  -> sounding \union {m.note}
                   [] m.kind = "off" -> sounding \ {m.note}
                   [] OTHER          -> sounding
  /\ wire' = CASE wire = <<>> /\ m.kind # "start" -> <<>>
               [] wire # <<>> /\ Head(wire) = t /\ m.kind = "end" -> <<>>
               [] OTHER -> Append(wire, t)
  /\ UNCHANGED undisturbed

Bug_Retried == UNCHANGED <<attempt, mutex, tx_run_held, trying, todo, sounding, wire, undisturbed>>

Retried == attempt < MaxAttempts /\ attempt' = attempt + 1
           /\ UNCHANGED <<mutex, tx_run_held, trying, todo, sounding, wire, undisturbed>>

GivenUp(t) ==
  /\ attempt = MaxAttempts
  /\ g_midi_ready => bounds.faults < MaxFaults
  /\ bounds' = [bounds EXCEPT !.faults = IF g_midi_ready THEN @ + 1 ELSE @]
  /\ Leave(t, mutex.count, FALSE) /\ Given(t)

(* usbd_midi_send: takes the packet, or refuses it because its queue is    *)
(* full or the host has gone; then the thread sleeps and tries again.      *)
Try(t) ==
  /\ trying = t
  /\ ((Accepted(t) \/ Retried) /\ UNCHANGED bounds) \/ GivenUp(t)
  /\ UNCHANGED <<showVars, g_midi_ready, g_rx_msgq>>

Next ==
  \/ Step
  \/ \E m \in DOMAIN Reply : rx_packet_cb(m)
  \/ rx_proc_thread
  \/ jr_heartbeat
  \/ midi_ready_cb
  \/ \E t \in Threads : Enter(t) \/ Try(t)

(* The scheduler runs every thread that can run, and the mutex goes to the *)
(* waiting threads in turn. Nothing is assumed of the host.                *)
Fairness ==
  /\ WF_vars(Step) /\ WF_vars(rx_proc_thread)
  /\ \A t \in Threads : SF_vars(Enter(t)) /\ WF_vars(Try(t))

Spec == Init /\ [][Next]_vars /\ Fairness

-----------------------------------------------------------------------------
Locks == (IF trying = NoThread THEN 0 ELSE 1) + (IF tx_run_held THEN 1 ELSE 0)

(* The gate: the mutex is locked once for the call in progress and once    *)
(* for the run that is held, never for anything else; only the owner is in *)
(* the retry loop.                                                         *)
GateOK ==
  /\ mutex \in [owner : Threads \union {NoThread}, count : 0 .. 2]
  /\ tx_run_held \in BOOLEAN
  /\ attempt \in 0 .. MaxAttempts
  /\ mutex.count = Locks
  /\ mutex.owner = NoThread <=> mutex.count = 0
  /\ trying \in {NoThread, mutex.owner}

(* Types, and the lock accounting of the gate.                             *)
TypeOK ==
  /\ show.done \subseteq DOMAIN Once \union {"c"} /\ show.c_idx \in 0 .. kC_Count
  /\ clock \in WakeTimes \union {0}
  /\ {g_midi_ready, away, undisturbed} \subseteq BOOLEAN
  /\ g_rx_msgq \in Seq(DOMAIN Reply) /\ Len(g_rx_msgq) <= RxDepth
  /\ \A t \in Threads : todo[t] \in Seq(Message)
  /\ GateOK

(* "The CI reply thread and the scene loop can never interleave packets    *)
(* inside each other's runs" (main.c:170), nor can the heartbeat or the    *)
(* Discovery responder: between a Start and its End only the run's own     *)
(* sender is heard, unless the run was given up.                           *)
RunsUninterrupted == \A i \in 1 .. Len(wire) : wire[i] = wire[1]

(* "Never strand the lock" (main.c:178): whatever the host does, and       *)
(* whether or not it ever reads, every sender gets through the gate.       *)
EverySendReturns == \A t \in Threads : todo[t] # <<>> ~> todo[t] = <<>>

(* A cycle in which the host was there and took every message leaves no    *)
(* scene out, and no note sounding, neither its own nor one that an        *)
(* earlier, disturbed cycle left behind.                                   *)
CycleIsWhole ==
  [][clock' = 0 /\ clock # 0 /\ undisturbed =>
       show.done = DOMAIN Once \union {"c"} /\ sounding = {}]_vars
=============================================================================
