----------------------------- MODULE UmpMessages ----------------------------
(***************************************************************************)
(* The UMP builders of midi2_msg.h, as layouts: which constant bits a      *)
(* message has, in which word and at which bit each argument goes, and     *)
(* where its bytes are packed. Arguments carry the names the typed         *)
(* dispatcher's callbacks use for them.                                    *)
(***************************************************************************)
EXTENDS BitFields

(* calls: the callback meant to receive the message; mask, const: the      *)
(* header's constant bits; says: the arguments of the callback that the    *)
(* builder fixes; at, room, counts: its bytes, from bit `at' of the        *)
(* message on, and whether the header counts them.                         *)
None == [x \in {} |-> {}]
Msg(calls, mask, const, fields, says) ==
  [calls |-> calls, mask |-> mask, const |-> const, fields |-> fields, says |-> says,
   at |-> 0, room |-> 0, counts |-> "no"]
WithBytes(m, at, room, counts) == [m EXCEPT !.at = at, !.room = room, !.counts = counts]

MT(n)  == Put(Bits(n), 28)
MTBits == 28 .. 31
Group  == F("group", 4, 0, 24)

midi2_msg_word_count == [mt \in 0 .. 15 |->
  <<1, 1, 1, 2, 2, 4, 1, 1, 2, 2, 2, 3, 3, 4, 4, 4>>[mt + 1]]

-----------------------------------------------------------------------------
(* MIDI 2.0 Channel Voice *)
build_cv2_w0(calls, status, fields) ==
  Msg(calls, MTBits \union 20 .. 23, MT(4) \union Put(Bits(status), 16),
      fields \union {Group, F("channel", 4, 0, 16)}, None)

Value     == F("value", 32, 1, 0)
Note      == F("note", 7, 0, 8)
NoteArgs  == {Note, F("attr_type", 8, 0, 0), F("velocity", 16, 1, 16), F("attr_data", 16, 1, 0)}
BankIndex == {F("bank", 7, 0, 8), F("index", 7, 0, 0), Value}
PerNote   == {Note, F("index", 8, 0, 0), Value}

VoiceLayouts == [
  note_on       |-> build_cv2_w0("on_note_on",       \h90, NoteArgs),
  note_off      |-> build_cv2_w0("on_note_off",      \h80, NoteArgs),
  cc            |-> build_cv2_w0("on_cc",            \hB0, {F("index", 7, 0, 8), Value}),
  pitch_bend    |-> build_cv2_w0("on_pitch_bend",    \hE0, {Value}),
  chan_pressure |-> build_cv2_w0("on_chan_pressure", \hD0, {Value}),
  poly_pressure |-> build_cv2_w0("on_poly_pressure", \hA0, {Note, Value}),
  rpn           |-> build_cv2_w0("on_rpn",           \h20, BankIndex),
  nrpn          |-> build_cv2_w0("on_nrpn",          \h30, BankIndex)]

ProgramLayout == [
  program |-> build_cv2_w0("on_program", \hC0,
                {F("program", 7, 1, 24), F("bank_valid", 1, 0, 0),
                 F("bank_msb", 7, 1, 8), F("bank_lsb", 7, 1, 0)})]

PerNoteLayouts == [
  per_note_pb       |-> build_cv2_w0("on_per_note_pb",   \h60, {Note, Value}),
  per_note_cc       |-> build_cv2_w0("on_asn_per_note",  \h10, PerNote),
  per_note_mgmt     |-> build_cv2_w0("on_per_note_mgmt", \hF0,
                          {Note, F("detach", 1, 0, 1), F("reset", 1, 0, 0)}),
  reg_per_note_ctrl |-> build_cv2_w0("on_reg_per_note",  \h00, PerNote),
  asn_per_note_ctrl |-> build_cv2_w0("on_asn_per_note",  \h10, PerNote),
  rel_rpn           |-> build_cv2_w0("on_rel_rpn",       \h40, BankIndex),
  rel_nrpn          |-> build_cv2_w0("on_rel_nrpn",      \h50, BankIndex)]

-----------------------------------------------------------------------------
(* System and MIDI 1.0 Channel Voice. The generic system builders take the *)
(* status from the caller; from_midi1 is given status | channel.           *)
Data1(k) == F("data1", k, 0, 8)
Data2(k) == F("data2", k, 0, 0)
AnySystem(fields) ==
  Msg("on_system", MTBits, MT(1), fields \union {Group, F("status", 8, 0, 16)}, None)
System(status, fields) ==
  Msg("on_system", MTBits \union 16 .. 23, MT(1) \union Put(Bits(status), 16),
      fields \union {Group}, [status |-> Bits(status)])

SystemLayouts == [
  system                |-> AnySystem({}),
  system_2byte          |-> AnySystem({Data1(8)}),
  system_3byte          |-> AnySystem({Data1(8), Data2(8)}),
  system_tune_request   |-> System(\hF6, {}),
  system_timing_clock   |-> System(\hF8, {}),
  system_start          |-> System(\hFA, {}),
  system_continue       |-> System(\hFB, {}),
  system_stop           |-> System(\hFC, {}),
  system_active_sensing |-> System(\hFE, {}),
  system_reset          |-> System(\hFF, {}),
  system_mtc            |-> System(\hF1, {Data1(7)}),
  system_song_select    |-> System(\hF3, {Data1(7)}),
  system_song_position  |-> System(\hF2, {Piece("position", 0, 7, 0, 8),
                                          Piece("position", 7, 7, 0, 0)})]

Cv1(calls, status, fields) ==
  Msg(calls, MTBits \union 20 .. 23, MT(2) \union Put(Bits(status), 16),
      fields \union {Group, F("channel", 4, 0, 16)}, None)
from_midi1 == [
  cv1_note_off      |-> Cv1("on_cv1_note_off",      \h80, {Data1(7), Data2(7)}),
  cv1_note_on       |-> Cv1("on_cv1_note_on",       \h90, {Data1(7), Data2(7)}),
  cv1_poly_pressure |-> Cv1("on_cv1_poly_pressure", \hA0, {Data1(7), Data2(7)}),
  cv1_cc            |-> Cv1("on_cv1_cc",            \hB0, {Data1(7), Data2(7)}),
  cv1_program       |-> Cv1("on_cv1_program",       \hC0, {Data1(7)}),
  cv1_chan_pressure |-> Cv1("on_cv1_chan_pressure", \hD0, {Data1(7)}),
  cv1_pitch_bend    |-> Cv1("on_cv1_pitch_bend",    \hE0, {Data1(7), Data2(7)})]

-----------------------------------------------------------------------------
(* Utility *)
Utility(calls, status, fields) ==
  Msg(calls, MTBits \union 20 .. 23, MT(0) \union Put(Bits(status), 20), fields, None)
UtilityLayouts == [
  noop             |-> Utility("on_noop", 0, {}),
  jr_clock         |-> Utility("on_jr_clock", 1, {F("timestamp", 16, 0, 0)}),
  jr_timestamp     |-> Utility("on_jr_timestamp", 2, {F("timestamp", 16, 0, 0)}),
  dctpq            |-> Utility("on_dctpq", 3, {F("tpq", 16, 0, 0)}),
  delta_clockstamp |-> Utility("on_dc", 4, {F("ticks", 20, 0, 0)})]

(* Flex Data: the setup bank at group level, or addressed by the caller *)
FlexAddress == {F("address", 2, 0, 20), F("channel", 4, 0, 16)}
build_flex_w0_full(calls, status, fields) ==
  Msg(calls, MTBits \union 0 .. 15, MT(13) \union Bits(status), fields \union {Group}, None)
build_flex_w0(calls, status, fields) ==
  LET m == build_flex_w0_full(calls, status, fields)
  IN  [m EXCEPT !.const = @ \union {20}, !.says = [address |-> {0}]]

FlexLayouts == [
  tempo     |-> build_flex_w0("on_tempo", 0, {F("ten_ns_per_qn", 32, 1, 0)}),
  time_sig  |-> build_flex_w0("on_time_sig", 1,
                  {F("numerator", 8, 1, 24), F("denominator", 8, 1, 16), F("num_32nd_notes", 8, 1, 8)}),
  key_sig   |-> build_flex_w0("on_key_sig", 5,
                  {F("sharps_flats", 4, 1, 28), F("key_type", 1, 1, 22)}),
  key_sig_full |-> build_flex_w0_full("on_key_sig", 5, FlexAddress \union
                  {F("sharps_flats", 4, 1, 28), F("tonic", 4, 1, 24), F("key_type", 2, 1, 22)}),
  metronome |-> build_flex_w0("on_metronome", 2,
                  {F("primary_clicks", 8, 1, 24), F("accent_1", 8, 1, 16), F("accent_2", 8, 1, 8),
                   F("accent_3", 8, 1, 0), F("subdiv_1", 8, 2, 24), F("subdiv_2", 8, 2, 16)})]

ChordLayout == [
  chord_name |-> build_flex_w0_full("on_chord", 6, FlexAddress \union
    {F("tonic_sf", 4, 1, 28), F("tonic_note", 4, 1, 24), F("chord_type", 8, 1, 16),
     F("alt1_type", 4, 1, 12), F("alt1_deg", 4, 1, 8), F("alt2_type", 4, 1, 4), F("alt2_deg", 4, 1, 0),
     F("alt3_type", 4, 2, 28), F("alt3_deg", 4, 2, 24), F("alt4_type", 4, 2, 20), F("alt4_deg", 4, 2, 16),
     F("bass_sf", 4, 3, 28), F("bass_note", 4, 3, 24), F("bass_type", 8, 3, 16),
     F("bass_alt1_type", 4, 3, 12), F("bass_alt1_deg", 4, 3, 8),
     F("bass_alt2_type", 4, 3, 4), F("bass_alt2_deg", 4, 3, 0)})]

FlexTextLayout == [
  flex_text |-> WithBytes(Msg("on_flex_text", MTBits, MT(13),
                  FlexAddress \union {Group, F("format", 2, 0, 22), F("bank", 8, 0, 8), F("status", 8, 0, 0)},
                  None), 32, 12, "no")]

-----------------------------------------------------------------------------
(* UMP Stream *)
build_stream_w0(calls, status, fields) ==
  Msg(calls, MTBits \union 16 .. 25, MT(15) \union Put(Bits(status), 16), fields, None)
Version == {F("ump_ver_major", 8, 0, 8), F("ump_ver_minor", 8, 0, 0)}
Config  == {F("protocol", 8, 0, 8), F("rx_jr", 1, 0, 1), F("tx_jr", 1, 0, 0)}
Sevens(arg, places) ==
  {Piece(arg, places[i][1], 7, places[i][2], places[i][3]) : i \in DOMAIN places}

EndpointLayouts == [
  stream_endpoint_discovery |-> build_stream_w0("on_endpoint_discovery", 0,
                                  Version \union {F("filter", 8, 1, 0)}),
  stream_endpoint_info      |-> build_stream_w0("on_endpoint_info", 1, Version \union
                                  {F("static_fb", 1, 1, 31), F("num_fb", 7, 1, 24), F("midi2_proto", 1, 1, 9),
                                   F("midi1_proto", 1, 1, 8), F("rx_jr", 1, 1, 1), F("tx_jr", 1, 1, 0)}),
  stream_device_identity    |-> build_stream_w0("on_device_identity", 2,
    Sevens("manufacturer_id", <<<<0, 1, 0>>, <<8, 1, 8>>, <<16, 1, 16>>>>)
    \union Sevens("family_id", <<<<0, 2, 24>>, <<7, 2, 16>>>>)
    \union Sevens("model_id", <<<<0, 2, 8>>, <<7, 2, 0>>>>)
    \union Sevens("version_id", <<<<24, 3, 24>>, <<16, 3, 16>>, <<8, 3, 8>>, <<0, 3, 0>>>>))]

BlockLayouts == [
  stream_config_request |-> build_stream_w0("on_config_request", 5, Config),
  stream_config_notify  |-> build_stream_w0("on_config_notify", 6, Config),
  stream_fb_discovery   |-> build_stream_w0("on_fb_discovery", \h10,
                              {F("fb_num", 8, 0, 8), F("filter", 8, 0, 0)}),
  stream_fb_info        |-> build_stream_w0("on_fb_info", \h11,
    {F("active", 1, 0, 15), F("fb_num", 7, 0, 8), F("ui_hint", 2, 0, 4), F("direction", 2, 0, 0),
     F("first_group", 8, 1, 24), F("num_groups", 8, 1, 16), F("midi_ci_ver", 8, 1, 8),
     F("max_sysex8_streams", 8, 1, 0)})]

Says(m, args) == [m EXCEPT !.says = args]
Format == F("format", 2, 0, 26)
StreamTextLayouts == [
  stream_endpoint_name |-> WithBytes(Says(build_stream_w0("on_stream_text", 3, {Format}),
                                          [status |-> Bits(3)]), 16, 14, "no"),
  stream_product_id    |-> WithBytes(Says(build_stream_w0("on_stream_text", 4, {Format}),
                                          [status |-> Bits(4)]), 16, 14, "no"),
  stream_fb_name       |-> WithBytes(build_stream_w0("on_fb_name", \h12, {Format, F("fb_num", 8, 0, 8)}),
                                     24, 13, "no"),
  stream_start_of_clip |-> Says(build_stream_w0("on_clip", \h20, {}), [start |-> {0}]),
  stream_end_of_clip   |-> build_stream_w0("on_clip", \h21, {})]

-----------------------------------------------------------------------------
(* SysEx7, SysEx8 and Mixed Data Set packets. A SysEx status is one of the *)
(* four constants, whose low nibble is 0 (the count is ORed into it).      *)
Status == Piece("status", 4, 4, 0, 20)
Data128(calls, mask, const, fields) ==
  Msg(calls, MTBits \union mask, MT(5) \union const, fields \union {Group}, None)
MdsId  == F("mds_id", 4, 0, 16)

DataLayouts == [
  sysex7_packet |-> WithBytes(Msg("on_sysex7", MTBits, MT(3), {Group, Status}, None), 16, 6, "bytes"),
  sysex8_packet |-> WithBytes(Data128("on_sysex8", {}, {}, {Status, F("stream_id", 8, 0, 8)}),
                              24, 13, "bytes and stream_id"),
  mds_header    |-> Data128("on_mds_header", 20 .. 23, Put(Bits(\h80), 16),
    {MdsId, F("num_bytes", 16, 0, 0), F("num_chunks", 16, 1, 16), F("this_chunk", 16, 1, 0),
     F("mfr_id", 16, 2, 16), F("device_id", 16, 2, 0), F("sub_id1", 16, 3, 16), F("sub_id2", 16, 3, 0)}),
  mds_payload   |-> WithBytes(Data128("on_mds_payload", 20 .. 23, Put(Bits(\h90), 16), {MdsId}),
                              16, 14, "no")]

Layouts == Merged({VoiceLayouts, ProgramLayout, PerNoteLayouts, SystemLayouts, from_midi1, UtilityLayouts,
                   FlexLayouts, ChordLayout, FlexTextLayout, EndpointLayouts, BlockLayouts,
                   StreamTextLayouts, DataLayouts})
UmpKinds == DOMAIN Layouts

-----------------------------------------------------------------------------
(* A message is its kind, its arguments and its bytes. *)
ByteWord(at, i) == (at + 8 * (i - 1)) \div 32
ByteLo(at, i)   == 24 - ((at + 8 * (i - 1)) % 32)

Fitting(L, data) == SubSeq(data, 1, Min({Len(data), L.room}))
CountBits(L, data) ==
  CASE L.counts = "bytes"               -> Put(Bits(Len(Fitting(L, data))), 16)
    [] L.counts = "bytes and stream_id" -> Put(Bits(Len(Fitting(L, data)) + 1), 16)
    [] OTHER                            -> {}

(* midi2_msg_program writes the bank only when bank_valid. *)
Bug_Written(kind, args) == Layouts[kind].fields
Written(kind, args) ==
  IF kind = "program" /\ args.bank_valid = {}
  THEN {f \in Layouts[kind].fields : f.arg \notin {"bank_msb", "bank_lsb"}}
  ELSE Layouts[kind].fields

Build(m) ==
  LET L    == Layouts[m.kind]
      kept == Fitting(L, m.data)
  IN  [w \in 0 .. 3 |->
         (IF w = 0 THEN L.const \union CountBits(L, m.data) ELSE {})
         \union Packed(Written(m.kind, m.args), m.args, w)
         \union UNION {Put(kept[i], ByteLo(L.at, i)) : i \in {j \in DOMAIN kept : ByteWord(L.at, j) = w}}]
=============================================================================
