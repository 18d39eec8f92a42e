----------------------------- MODULE UmpDispatch ----------------------------
(***************************************************************************)
(* The typed dispatcher of midi2_dispatch.c (which callback a message      *)
(* reaches, and which bits of it each argument is read from), with the     *)
(* protocol translation of midi2_msg.h. Every callback is set.             *)
(***************************************************************************)
EXTENDS UmpMessages

Nobody == [name |-> "nobody", args |-> None, data |-> <<>>]
(* A switch: pairs of a value and the callback it selects. *)
At(table, b) ==
  IF \E c \in table : c[1] = Num(b) THEN (CHOOSE c \in table : c[1] = Num(b))[2] ELSE "on_unknown"

-----------------------------------------------------------------------------
(* Where each callback's arguments are read from. *)
UtilityArgs == [
  on_noop         |-> {},
  on_jr_clock     |-> {F("timestamp", 16, 0, 0)},
  on_jr_timestamp |-> {F("timestamp", 16, 0, 0)},
  on_dctpq        |-> {F("tpq", 16, 0, 0)},
  on_dc           |-> {F("ticks", 20, 0, 0)}]

SystemArgs == [on_system |-> {Group, F("status", 8, 0, 16), F("data1", 8, 0, 8), F("data2", 8, 0, 0)}]

GroupChannel == {Group, F("channel", 4, 0, 16)}
Cv1Two == GroupChannel \union {F("data1", 7, 0, 8), F("data2", 7, 0, 0)}
Cv1One == GroupChannel \union {F("data1", 7, 0, 8)}
Cv1Args == [
  on_cv1_note_off      |-> Cv1Two,
  on_cv1_note_on       |-> Cv1Two,
  on_cv1_poly_pressure |-> Cv1Two,
  on_cv1_cc            |-> Cv1Two,
  on_cv1_program       |-> Cv1One,
  on_cv1_chan_pressure |-> Cv1One,
  on_cv1_pitch_bend    |-> GroupChannel \union {Piece("value", 7, 7, 0, 0), Piece("value", 0, 7, 0, 8)}]

Byte3(arg) == F(arg, 7, 0, 8)
Word1      == F("value", 32, 1, 0)
Cv2Note    == GroupChannel \union {Byte3("note"), F("velocity", 16, 1, 16), F("attr_type", 8, 0, 0),
                                   F("attr_data", 16, 1, 0)}
Cv2PerNote == GroupChannel \union {Byte3("note"), F("index", 8, 0, 0), Word1}
Cv2Bank    == GroupChannel \union {Byte3("bank"), F("index", 7, 0, 0), Word1}
Cv2Args == [
  on_note_on       |-> Cv2Note,
  on_note_off      |-> Cv2Note,
  on_poly_pressure |-> GroupChannel \union {Byte3("note"), Word1},
  on_cc            |-> GroupChannel \union {Byte3("index"), Word1},
  on_program       |-> GroupChannel \union {F("bank_valid", 1, 0, 0), F("program", 7, 1, 24),
                                            F("bank_msb", 7, 1, 8), F("bank_lsb", 7, 1, 0)},
  on_chan_pressure |-> GroupChannel \union {Word1},
  on_pitch_bend    |-> GroupChannel \union {Word1},
  on_per_note_pb   |-> GroupChannel \union {Byte3("note"), Word1},
  on_reg_per_note  |-> Cv2PerNote,
  on_asn_per_note  |-> Cv2PerNote,
  on_rpn           |-> Cv2Bank,
  on_nrpn          |-> Cv2Bank,
  on_rel_rpn       |-> Cv2Bank,
  on_rel_nrpn      |-> Cv2Bank,
  on_per_note_mgmt |-> GroupChannel \union {Byte3("note"), F("detach", 1, 0, 1), F("reset", 1, 0, 0)}]

DataArgs == [
  on_sysex7      |-> {Group, Piece("status", 4, 4, 0, 20)},
  on_sysex8      |-> {Group, Piece("status", 4, 4, 0, 20), F("stream_id", 8, 0, 8)},
  on_mds_header  |-> {Group, F("mds_id", 4, 0, 16), F("num_bytes", 16, 0, 0), F("num_chunks", 16, 1, 16),
                      F("this_chunk", 16, 1, 0), F("mfr_id", 16, 2, 16), F("device_id", 16, 2, 0),
                      F("sub_id1", 16, 3, 16), F("sub_id2", 16, 3, 0)},
  on_mds_payload |-> {Group, F("mds_id", 4, 0, 16)}]

FlexArgs == [
  on_tempo     |-> {Group, F("ten_ns_per_qn", 32, 1, 0)},
  on_time_sig  |-> {Group, F("numerator", 8, 1, 24), F("denominator", 8, 1, 16), F("num_32nd_notes", 8, 1, 8)},
  on_metronome |-> {Group, F("primary_clicks", 8, 1, 24), F("accent_1", 8, 1, 16), F("accent_2", 8, 1, 8),
                    F("accent_3", 8, 1, 0), F("subdiv_1", 8, 2, 24), F("subdiv_2", 8, 2, 16)},
  on_key_sig   |-> FlexAddress \union {Group, F("sharps_flats", 4, 1, 28), F("tonic", 4, 1, 24),
                                       F("key_type", 2, 1, 22)},
  on_chord     |-> FlexAddress \union {Group,
    F("tonic_sf", 4, 1, 28), F("tonic_note", 4, 1, 24), F("chord_type", 8, 1, 16),
    F("alt1_type", 4, 1, 12), F("alt1_deg", 4, 1, 8), F("alt2_type", 4, 1, 4), F("alt2_deg", 4, 1, 0),
    F("alt3_type", 4, 2, 28), F("alt3_deg", 4, 2, 24), F("alt4_type", 4, 2, 20), F("alt4_deg", 4, 2, 16),
    F("bass_sf", 4, 3, 28), F("bass_note", 4, 3, 24), F("bass_type", 8, 3, 16),
    F("bass_alt1_type", 4, 3, 12), F("bass_alt1_deg", 4, 3, 8),
    F("bass_alt2_type", 4, 3, 4), F("bass_alt2_deg", 4, 3, 0)},
  on_flex_text |-> FlexAddress \union {Group, F("format", 2, 0, 22), F("bank", 8, 0, 8), F("status", 8, 0, 0)}]

StreamArgs == [
  on_endpoint_discovery |-> {F("ump_ver_major", 8, 0, 8), F("ump_ver_minor", 8, 0, 0), F("filter", 8, 1, 0)},
  on_endpoint_info      |-> {F("ump_ver_major", 8, 0, 8), F("ump_ver_minor", 8, 0, 0),
                             F("static_fb", 1, 1, 31), F("num_fb", 7, 1, 24), F("midi2_proto", 1, 1, 9),
                             F("midi1_proto", 1, 1, 8), F("rx_jr", 1, 1, 1), F("tx_jr", 1, 1, 0)},
  on_device_identity    |-> {F("manufacturer_id", 7, 1, 0), Piece("manufacturer_id", 8, 7, 1, 8),
                             Piece("manufacturer_id", 16, 7, 1, 16),
                             F("family_id", 7, 2, 24), Piece("family_id", 7, 7, 2, 16),
                             F("model_id", 7, 2, 8), Piece("model_id", 7, 7, 2, 0)}
                            \union {Piece("version_id", b, 7, 3, b) : b \in {0, 8, 16, 24}},
  on_stream_text        |-> {F("status", 10, 0, 16), F("format", 2, 0, 26)},
  on_fb_name            |-> {F("format", 2, 0, 26), F("fb_num", 8, 0, 8)},
  on_config_request     |-> {F("protocol", 8, 0, 8), F("rx_jr", 1, 0, 1), F("tx_jr", 1, 0, 0)},
  on_config_notify      |-> {F("protocol", 8, 0, 8), F("rx_jr", 1, 0, 1), F("tx_jr", 1, 0, 0)},
  on_fb_discovery       |-> {F("fb_num", 8, 0, 8), F("filter", 8, 0, 0)},
  on_fb_info            |-> {F("active", 1, 0, 15), F("fb_num", 7, 0, 8), F("ui_hint", 2, 0, 4),
                             F("direction", 2, 0, 0), F("first_group", 8, 1, 24), F("num_groups", 8, 1, 16),
                             F("midi_ci_ver", 8, 1, 8), F("max_sysex8_streams", 8, 1, 0)}]

(* on_unknown takes no field of the message, on_clip none as it is. *)
Extract == Merged({UtilityArgs, SystemArgs, Cv1Args, Cv2Args, DataArgs, FlexArgs, StreamArgs,
                   [on_unknown |-> {}]})

(* int8_t arguments of four bits: midi2_dispatch_sign_extend_4. *)
Signed == {"sharps_flats", "tonic_sf", "bass_sf"}
sign_extend_4(v) == IF 3 \in v THEN v \union 4 .. 7 ELSE v

-----------------------------------------------------------------------------
(* The bytes of a message: how many there are room for, and how many the   *)
(* callback is told of.                                                    *)
Payload == [on_sysex7 |-> <<16, 6>>, on_sysex8 |-> <<24, 13>>, on_mds_payload |-> <<16, 14>>,
            on_flex_text |-> <<32, 12>>, on_stream_text |-> <<16, 14>>, on_fb_name |-> <<24, 13>>]
AllBytes(name, w) ==
  LET at == Payload[name][1]
  IN  [i \in 1 .. Payload[name][2] |-> Take(w[ByteWord(at, i)], ByteLo(at, i), 8)]

(* Text is trimmed of its trailing zeros in complete and end packets only. *)
Text(bytes, format) == IF Num(format) \in {0, 3} THEN Trimmed(bytes) ELSE bytes

Bytes(name, w) ==
  LET num == Num(Take(w[0], 16, 4))
      all == AllBytes(name, w)
  IN  CASE name = "on_sysex7"      -> SubSeq(all, 1, Min({num, 6}))
        [] name = "on_sysex8"      -> SubSeq(all, 1, Min({IF num > 1 THEN num - 1 ELSE 0, 13}))
        [] name = "on_mds_payload" -> all
        [] name = "on_flex_text"   -> Text(all, Take(w[0], 22, 2))
        [] OTHER                   -> Text(all, Take(w[0], 26, 2))

Read(fields, w) ==
  [a \in ArgsOf(fields) |->
     LET v == Unpacked(fields, w, a) IN IF a \in Signed THEN sign_extend_4(v) ELSE v]
ClipArgs(w) == [start |-> IF Num(Take(w[0], 16, 10)) = \h20 THEN {0} ELSE {}]

Call(name, w) ==
  [name |-> name,
   args |-> IF name = "on_clip" THEN ClipArgs(w) ELSE Read(Extract[name], w),
   data |-> IF name \in DOMAIN Payload THEN Bytes(name, w) ELSE <<>>]

-----------------------------------------------------------------------------
(* One operator per dispatch_* function: the callback for the words. *)
UtilityCalls == {<<0, "on_noop">>, <<1, "on_jr_clock">>, <<2, "on_jr_timestamp">>, <<3, "on_dctpq">>,
                 <<4, "on_dc">>}
dispatch_utility(w) == At(UtilityCalls, Take(w[0], 20, 4))

dispatch_system(w) == "on_system"
dispatch_sysex7(w) == "on_sysex7"

Cv1Calls == {<<8, "on_cv1_note_off">>, <<9, "on_cv1_note_on">>, <<10, "on_cv1_poly_pressure">>,
             <<11, "on_cv1_cc">>, <<12, "on_cv1_program">>, <<13, "on_cv1_chan_pressure">>,
             <<14, "on_cv1_pitch_bend">>}
dispatch_cv1(w) == At(Cv1Calls, Take(w[0], 20, 4))

Cv2Calls == {<<0, "on_reg_per_note">>, <<1, "on_asn_per_note">>, <<2, "on_rpn">>, <<3, "on_nrpn">>,
             <<4, "on_rel_rpn">>, <<5, "on_rel_nrpn">>, <<6, "on_per_note_pb">>, <<8, "on_note_off">>,
             <<9, "on_note_on">>, <<10, "on_poly_pressure">>, <<11, "on_cc">>, <<12, "on_program">>,
             <<13, "on_chan_pressure">>, <<14, "on_pitch_bend">>, <<15, "on_per_note_mgmt">>}
dispatch_cv2(w) == At(Cv2Calls, Take(w[0], 20, 4))

(* A status that is neither of the Mixed Data Set's is SysEx8. *)
dispatch_data128(w) ==
  LET status == Num(Take(w[0], 20, 4))
  IN  CASE status = 8 -> "on_mds_header" [] status = 9 -> "on_mds_payload" [] OTHER -> "on_sysex8"

SetupCalls == {<<0, "on_tempo">>, <<1, "on_time_sig">>, <<2, "on_metronome">>, <<5, "on_key_sig">>,
               <<6, "on_chord">>}
dispatch_flex(w) ==
  LET bank == Num(Take(w[0], 8, 8))
  IN  CASE bank = 0         -> At(SetupCalls, Take(w[0], 0, 8))
        [] bank \in {1, 2}  -> "on_flex_text"
        [] OTHER            -> "on_unknown"

StreamCalls == {<<0, "on_endpoint_discovery">>, <<1, "on_endpoint_info">>, <<2, "on_device_identity">>,
                <<3, "on_stream_text">>, <<4, "on_stream_text">>, <<5, "on_config_request">>,
                <<6, "on_config_notify">>, <<\h10, "on_fb_discovery">>, <<\h11, "on_fb_info">>,
                <<\h12, "on_fb_name">>, <<\h20, "on_clip">>, <<\h21, "on_clip">>}
dispatch_stream(w) == At(StreamCalls, Take(w[0], 16, 10))

-----------------------------------------------------------------------------
(* Protocol translation. Scaling up repeats the value's bits downwards,    *)
(* scaling down takes the most significant ones.                           *)
scale_up_7to16(v)  == Put(v, 9) \union Put(v, 2) \union Take(v, 5, 2)
scale_up_7to32(v)  == Put(v, 25) \union Put(v, 18) \union Put(v, 11) \union Put(v, 4) \union Take(v, 3, 4)
scale_up_14to32(v) == Put(v, 18) \union Put(v, 4) \union Take(v, 10, 4)
Bug_scale_down_16to7(v) == Take(v, 8, 7)
scale_down_16to7(v)  == Take(v, 9, 7)
scale_down_32to7(v)  == Take(v, 25, 7)
scale_down_32to14(v) == Take(v, 18, 14)

Plain(kind, args) == {[kind |-> kind, args |-> args, data |-> <<>>]}

Bug_Join14(d1, d2) == Put(d1, 7) \union d2
Join14(d1, d2)     == Put(d2, 7) \union d1

(* The MIDI 2.0 message that a MIDI 1.0 one means: one, or none. *)
Raised(w0) ==
  LET g == Take(w0, 24, 4)  c == Take(w0, 16, 4)  d1 == Take(w0, 8, 7)  d2 == Take(w0, 0, 7)
      status == Num(Take(w0, 20, 4))
      Voice(args)   == Merged({[group |-> g, channel |-> c], args})
      NoteMsg(k, v) == Plain(k, Voice([note |-> d1, velocity |-> scale_up_7to16(v),
                                       attr_type |-> {}, attr_data |-> {}]))
  IN  CASE Num(Take(w0, 28, 4)) # 2 -> {}
        [] status = 9 /\ d2 = {} -> NoteMsg("note_off", {6})
        [] status = 9 /\ d2 # {} -> NoteMsg("note_on", d2)
        [] status = 8  -> NoteMsg("note_off", d2)
        [] status = 11 -> Plain("cc", Voice([index |-> d1, value |-> scale_up_7to32(d2)]))
        [] status = 12 -> Plain("program", Voice([program |-> d1, bank_valid |-> {},
                                                  bank_msb |-> {}, bank_lsb |-> {}]))
        [] status = 13 -> Plain("chan_pressure", Voice([value |-> scale_up_7to32(d1)]))
        [] status = 14 -> Plain("pitch_bend", Voice([value |-> scale_up_14to32(Join14(d1, d2))]))
        [] status = 10 -> Plain("poly_pressure", Voice([note |-> d1, value |-> scale_up_7to32(d2)]))
        [] OTHER -> {}
mt2_to_mt4(w0) == {Build(m) : m \in Raised(w0)}

mt4_to_mt2(w) ==
  LET status == Num(Take(w[0], 20, 4))
      Word(d1, d2) == {MT(2) \union Put(Take(w[0], 16, 12), 16) \union Put(d1, 8) \union d2}
      byte3 == Take(w[0], 8, 7)
      v7    == scale_down_32to7(w[1])
      pb14  == scale_down_32to14(w[1])
  IN  IF Num(Take(w[0], 28, 4)) # 4 THEN {}
      ELSE CASE status \in {8, 9}   -> Word(byte3, scale_down_16to7(Take(w[1], 16, 16)))
             [] status \in {10, 11} -> Word(byte3, v7)
             [] status = 12 -> Word(Take(w[1], 24, 7), {})
             [] status = 13 -> Word(v7, {})
             [] status = 14 -> Word(Take(pb14, 0, 7), Take(pb14, 7, 7))
             [] OTHER -> {}

(* A 4-byte USB-MIDI 1.0 event, least significant byte first. *)
cable_event_to_ump(event, group) ==
  IF Num(Take(event, 0, 4)) \in {2, 3} \union 8 .. 14
  THEN {MT(2) \union Put(group \intersect 0 .. 3, 24) \union Put(Take(event, 8, 8), 16)
        \union Put(Take(event, 16, 7), 8) \union Take(event, 24, 7)}
  ELSE {}

(* midi2_msg_set_group, and midi2_proc_remap_group with the mapped group. *)
Regrouped(w, group) == [w EXCEPT ![0] = (@ \ (24 .. 27)) \union Put(group \intersect 0 .. 3, 24)]
Bug_set_group(w, group) == Regrouped(w, group)
set_group(w, group) ==
  IF Num(Take(w[0], 28, 4)) \in 2 .. 5 THEN Regrouped(w, group) ELSE w
remap_group(w, group) ==
  IF Num(Take(w[0], 28, 4)) \notin {0, 15} THEN Regrouped(w, group) ELSE w

-----------------------------------------------------------------------------
(* midi2_dispatch_feed *)
Bug_TooShort(mt, count) == FALSE
TooShort(mt, count) == mt \in {3, 4, 5, 13, 15} /\ count < midi2_msg_word_count[mt]

CallbackOf(w) ==
  LET mt == Num(Take(w[0], 28, 4))
  IN  CASE mt = 0  -> dispatch_utility(w)
        [] mt = 1  -> dispatch_system(w)
        [] mt = 2  -> dispatch_cv1(w)
        [] mt = 3  -> dispatch_sysex7(w)
        [] mt = 4  -> dispatch_cv2(w)
        [] mt = 5  -> dispatch_data128(w)
        [] mt = 13 -> dispatch_flex(w)
        [] mt = 15 -> dispatch_stream(w)
        [] OTHER   -> "on_unknown"

(* With upscale_mt2 a MIDI 1.0 message is translated first; what cannot    *)
(* be translated reaches nobody.                                           *)
midi2_dispatch_feed(w, count, upscale_mt2) ==
  LET mt == Num(Take(w[0], 28, 4))
      calls == {Call(CallbackOf(v), v) :
                  v \in IF mt = 2 /\ upscale_mt2 THEN mt2_to_mt4(w[0]) ELSE {w}}
  IN  IF TooShort(mt, count) \/ calls = {} THEN Nobody ELSE CHOOSE c \in calls : TRUE
=============================================================================
