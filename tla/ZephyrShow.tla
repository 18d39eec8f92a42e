----------------------------- MODULE ZephyrShow -----------------------------
(***************************************************************************)
(* The scene cycle of examples/rpi-pico-device-zephyr/src/main.c: what one *)
(* pass of showcase_step sends, and the flags it leaves, from the flags it *)
(* finds and the time in the cycle.  Times are in milliseconds.            *)
(***************************************************************************)
EXTENDS Naturals, SequencesExt

CONSTANTS
  kC_Count,    (* notes of the chromatic walk: 8                            *)
  MaxBurst     (* bound on messages of no note and no run in a row: 10 at most *)

(* The walk begins at kC_BaseNote, 72, and stays among the 128 notes.     *)
ASSUME ShowAssumption == {kC_Count, MaxBurst} \subseteq Nat \ {0} /\ kC_Count <= 56

(* A message is what the host can tell apart: a note begins or ends, a     *)
(* packet of a SysEx7 run, anything else.                                  *)
Message == [kind: {"other", "on", "off", "start", "continue", "end"}, note: 0 .. 127]

Other     == [kind |-> "other", note |-> 0]
On(note)  == [kind |-> "on", note |-> note]
Off(note) == [kind |-> "off", note |-> note]
Packet(form) == [kind |-> form, note |-> 0]
Others(n) == [i \in 1 .. (IF n < MaxBurst THEN n ELSE MaxBurst) |-> Other]

kB_Note     == 60
kF_Note     == 64
kC_BaseNote == 72
kC_StartMs  == 7000
kC_StepMs   == 500
kC_EndMs    == kC_StartMs + kC_Count * kC_StepMs
kCycleMs    == 28500

(* What each scene does once in a cycle, at the first pass after its time. *)
scene_a_flex     == [a |-> [at |-> 0, sends |-> Others(6)]]
PerNote == [
  b_on   |-> [at |->  400, sends |-> <<On(kB_Note)>>],
  b_reg  |-> [at |-> 1500, sends |-> <<Other>>],
  b_asn  |-> [at |-> 3000, sends |-> <<Other>>],
  b_mgmt |-> [at |-> 6200, sends |-> <<Other>>],
  b_off  |-> [at |-> 6500, sends |-> <<Other, Off(kB_Note)>>]]
scene_d_program  == [d |-> [at |-> 11500, sends |-> <<Other>>]]
scene_e_rpn_nrpn == [
  e_rpn     |-> [at |-> 12500, sends |-> <<Other>>],
  e_nrpn    |-> [at |-> 13000, sends |-> <<Other>>],
  e_relrpn  |-> [at |-> 13500, sends |-> <<Other>>],
  e_relnrpn |-> [at |-> 14000, sends |-> <<Other>>]]
scene_f_attribute == [
  f_on  |-> [at |-> 14800, sends |-> <<On(kF_Note)>>],
  f_off |-> [at |-> 16500, sends |-> <<Off(kF_Note)>>]]
scene_g_sysex7 == [
  g |-> [at |-> 17200, sends |-> <<Packet("start"), Packet("end"), Packet("start"),
                                   Packet("continue"), Packet("end")>>]]
scene_h_dctpq     == [h |-> [at |-> 17700, sends |-> Others(2)]]
(* There is no subscriber array, so nobody is notified. *)
scene_i_pe_notify == [i |-> [at |-> 18500, sends |-> <<>>]]
scene_j_clip_end  == [j |-> [at |-> 19500, sends |-> <<Other>>]]
scene_k_midi1_cv  == [k |-> [at |-> 20500, sends |-> <<On(60), Off(60)>> \o Others(3)]]
scene_l_system    == [l |-> [at |-> 22500, sends |-> Others(10)]]
scene_m_metadata  == [m |-> [at |-> 25000, sends |-> Others(2)]]
scene_n_utility   == [n |-> [at |-> 26500, sends |-> Others(2)]]

Scenes == {scene_a_flex, PerNote, scene_d_program, scene_e_rpn_nrpn, scene_f_attribute,
           scene_g_sysex7, scene_h_dctpq, scene_i_pe_notify, scene_j_clip_end,
           scene_k_midi1_cv, scene_l_system, scene_m_metadata, scene_n_utility}
Once == [name \in UNION {DOMAIN scene : scene \in Scenes} |->
          (CHOOSE scene \in Scenes : name \in DOMAIN scene)[name]]

(* struct showcase: the flags that are set, and the walk.                  *)
Fresh == [done |-> {}, c_idx |-> 0, c_last |-> 0]

Fires(scene, s, t) == scene \notin s.done /\ t >= Once[scene].at
Sends(scenes, s, t) ==
  FlattenSeq([i \in 1 .. Len(scenes) |->
               IF Fires(scenes[i], s, t) THEN Once[scenes[i]].sends ELSE <<>>])

(* scene_b_per_note: the sustained note, with vibrato while it sounds. Its *)
(* passes are further apart here than kB_VibUpdMs, so one is always due.   *)
scene_b_per_note(s, t) ==
  LET sounds  == t >= Once.b_on.at /\ "b_off" \notin s.done /\ t < Once.b_off.at
      vibrato == IF sounds THEN <<Other>> ELSE <<>>
  IN  Sends(<<"b_on">>, s, t) \o vibrato \o Sends(<<"b_reg", "b_asn", "b_mgmt", "b_off">>, s, t)

(* scene_c_walk: a note every kC_StepMs, each releasing the one before.    *)
Walks(s, t) ==
  /\ s.c_idx < kC_Count /\ t >= kC_StartMs
  /\ s.c_idx = 0 \/ t - s.c_last >= kC_StepMs
Walked(s, t) == IF Walks(s, t) THEN s.c_idx + 1 ELSE s.c_idx
Released(s, t) == "c" \notin s.done /\ Walked(s, t) = kC_Count /\ t >= kC_EndMs

Bug_scene_c_walk(s, t) ==
  (IF Walks(s, t)
   THEN <<On(kC_BaseNote + s.c_idx)>> \o Others(3)
   ELSE <<>>)
  \o (IF Released(s, t) THEN <<Off(kC_BaseNote + kC_Count - 1), Other>> ELSE <<>>)

scene_c_walk(s, t) ==
  (IF Walks(s, t)
   THEN (IF s.c_idx > 0 THEN <<Off(kC_BaseNote + s.c_idx - 1)>> ELSE <<>>)
        \o <<On(kC_BaseNote + s.c_idx)>> \o Others(3)
   ELSE <<>>)
  \o (IF Released(s, t) THEN <<Off(kC_BaseNote + kC_Count - 1), Other>> ELSE <<>>)

(* showcase_step: all the scenes, in their order.                          *)
Sent(s, t) ==
  Sends(<<"a">>, s, t) \o scene_b_per_note(s, t) \o scene_c_walk(s, t)
  \o Sends(<<"d", "e_rpn", "e_nrpn", "e_relrpn", "e_relnrpn", "f_on", "f_off",
             "g", "h", "i", "j", "k", "l", "m", "n">>, s, t)

After(s, t) ==
  [done   |-> s.done \union {scene \in DOMAIN Once : Fires(scene, s, t)}
                     \union (IF Released(s, t) THEN {"c"} ELSE {}),
   c_idx  |-> Walked(s, t),
   c_last |-> IF Walks(s, t) THEN t ELSE s.c_last]
=============================================================================
