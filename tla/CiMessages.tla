----------------------------- MODULE CiMessages -----------------------------
(***************************************************************************)
(* The MIDI-CI message builders of midi2_ci_msg.h, as layouts: a message   *)
(* is a sequence of cells, one per byte but for the variable blocks.       *)
(***************************************************************************)
EXTENDS BitFields, SequencesExt

None == [x \in {} |-> {}]
(* A cell is bits from .. from + width - 1 of an argument, seven bits of   *)
(* the number of entries of a block, a block, or a constant.               *)
Cell(of, arg, from, width) == [of |-> of, arg |-> arg, from |-> from, width |-> width]
Fixed(n)      == <<Cell("fixed", "", n, 8)>>
Raw(arg, n)   == [i \in 1 .. n |-> Cell("arg", arg, 8 * (i - 1), 8)]
Sevens(arg, froms) == [i \in DOMAIN froms |-> Cell("arg", arg, froms[i], 7)]
Bug_write_14(arg)  == Sevens(arg, <<7, 0>>)
write_14(arg)      == Sevens(arg, <<0, 7>>)
write_muid(arg)    == Sevens(arg, <<0, 7, 14, 21>>)
write_bytes4(arg)  == Sevens(arg, <<24, 16, 8, 0>>)
(* A block of entries of `unit' bytes, after its number of entries. *)
Counted(arg, froms, unit) ==
  [i \in DOMAIN froms |-> Cell("count", arg, froms[i], unit)] \o <<Cell("bytes", arg, 0, 8)>>
Block(arg) == Counted(arg, <<0, 7>>, 1)

Broadcast == 0 .. 27
(* given: which of device_id and dst_muid the caller chooses. *)
build_header(sub_id, given) ==
  Fixed(\h7E) \o (IF "device_id" \in given THEN Raw("device_id", 1) ELSE Fixed(\h7F))
  \o Fixed(\h0D) \o Fixed(sub_id) \o Raw("version", 1) \o write_muid("src_muid")
  \o (IF "dst_muid" \in given THEN write_muid("dst_muid")
      ELSE Fixed(\h7F) \o Fixed(\h7F) \o Fixed(\h7F) \o Fixed(\h7F))

(* tail: what version 2 adds; calls: the callback it is for. *)
Ci(calls, sub_id, given, cells, tail) ==
  [calls |-> calls, cells |-> build_header(sub_id, given) \o cells, tail |-> tail]
Device == {"device_id"}
Peer   == {"dst_muid"}

Identity == Sevens("mfr_id", <<16, 8, 0>>) \o write_14("family") \o write_14("model")
            \o write_bytes4("sw_rev") \o Raw("ci_category", 1) \o write_muid("max_sysex")
Report == Raw("orig_sub_id", 1) \o Raw("status_code", 1) \o Raw("status_data", 1)
          \o Raw("details", 5) \o Block("msg_text")
ManagementLayouts == [
  discovery           |-> Ci("on_discovery", \h70, {}, Identity, Raw("output_path_id", 1)),
  discovery_reply     |-> Ci("on_discovery_reply", \h71, Peer, Identity,
                             Raw("output_path_id", 1) \o Raw("function_block", 1)),
  endpoint_info       |-> Ci("on_endpoint_info", \h72, Peer, Raw("status", 1), <<>>),
  endpoint_info_reply |-> Ci("on_endpoint_info_reply", \h73, Peer, Raw("status", 1) \o Block("info_data"), <<>>),
  invalidate_muid     |-> Ci("on_invalidate_muid", \h7E, {}, write_muid("target_muid"), <<>>),
  ack                 |-> Ci("on_ack", \h7D, Peer \union Device, Report, <<>>),
  nak                 |-> Ci("on_nak", \h7F, Peer \union Device, <<>>, Report)]

Profile  == Raw("profile_id", 5)
Channels == write_14("num_channels")
ProfileLayouts == [
  profile_inquiry       |-> Ci("on_profile_inquiry", \h20, Peer \union Device, <<>>, <<>>),
  profile_inquiry_reply |-> Ci("on_profile_inquiry_reply", \h21, Peer \union Device,
                               Counted("enabled", <<0, 7>>, 5) \o Counted("disabled", <<0, 7>>, 5), <<>>),
  set_profile_on        |-> Ci("on_set_profile_on", \h22, Peer \union Device, Profile, Channels),
  set_profile_off       |-> Ci("on_set_profile_off", \h23, Peer \union Device, Profile, Fixed(0) \o Fixed(0)),
  profile_enabled       |-> Ci("on_profile_enabled", \h24, Device, Profile, Channels),
  profile_disabled      |-> Ci("on_profile_disabled", \h25, Device, Profile, Channels),
  profile_added         |-> Ci("on_profile_added", \h26, Device, Profile, <<>>),
  profile_removed       |-> Ci("on_profile_removed", \h27, Device, Profile, <<>>),
  profile_details       |-> Ci("on_profile_details", \h28, Peer \union Device,
                               Profile \o Raw("inquiry_target", 1), <<>>),
  profile_details_reply |-> Ci("on_profile_details_reply", \h29, Peer \union Device,
                               Profile \o Raw("inquiry_target", 1) \o Block("data"), <<>>),
  profile_specific_data |-> Ci("on_profile_specific_data", \h2F, Peer \union Device,
                               Profile \o Counted("data", <<0, 7, 14, 21>>, 1), <<>>)]

build_pe_data(calls, sub_id) ==
  Ci(calls, sub_id, Peer, Raw("request_id", 1) \o Block("header") \o write_14("num_chunks")
     \o write_14("this_chunk") \o Block("body"), <<>>)
OnlyHeader(calls, sub_id) ==
  Ci(calls, sub_id, Peer, Raw("request_id", 1) \o Block("header") \o Fixed(1) \o Fixed(0) \o Fixed(1)
     \o Fixed(0) \o Fixed(0) \o Fixed(0), <<>>)
PeLayouts == [
  pe_get             |-> OnlyHeader("on_pe_get", \h34),
  pe_get_reply       |-> build_pe_data("on_pe_get_reply", \h35),
  pe_set             |-> build_pe_data("on_pe_set", \h36),
  pe_set_reply       |-> OnlyHeader("on_pe_set_reply", \h37),
  pe_subscribe       |-> build_pe_data("on_pe_subscribe", \h38),
  pe_subscribe_reply |-> build_pe_data("on_pe_subscribe_reply", \h39),
  pe_notify          |-> build_pe_data("on_pe_notify", \h3F)]

Caps == Raw("pe_ver_major", 1) \o Raw("pe_ver_minor", 1)
PeCapabilityLayouts == [
  pe_capability       |-> Ci("on_pe_capability", \h30, Peer, Raw("max_simultaneous", 1), Caps),
  pe_capability_reply |-> Ci("on_pe_capability_reply", \h31, Peer, Raw("max_simultaneous", 1), Caps)]

Bitmaps == Raw("system_bitmap", 1) \o Raw("reserved", 1) \o Raw("channel_ctrl_bitmap", 1)
           \o Raw("note_data_bitmap", 1)
PiLayouts == [
  pi_capability        |-> Ci("on_pi_capability", \h40, Peer, <<>>, <<>>),
  pi_capability_reply  |-> Ci("on_pi_capability_reply", \h41, Peer, Raw("supported_features", 1), <<>>),
  pi_midi_report       |-> Ci("on_pi_midi_report", \h42, Peer \union Device,
                              Raw("msg_data_control", 1) \o Bitmaps, <<>>),
  pi_midi_report_reply |-> Ci("on_pi_midi_report_reply", \h43, Peer \union Device, Bitmaps, <<>>),
  pi_midi_report_end   |-> Ci("on_pi_midi_report_end", \h44, Peer \union Device, <<>>, <<>>)]

CiLayouts == Merged({ManagementLayouts, ProfileLayouts, PeLayouts, PeCapabilityLayouts, PiLayouts})
CiKinds   == DOMAIN CiLayouts

-----------------------------------------------------------------------------
(* A message: its kind, its arguments and its blocks. *)
CellsOf(kind, version) ==
  CiLayouts[kind].cells \o (IF Num(version) >= 2 THEN CiLayouts[kind].tail ELSE <<>>)
CellArgs(cells, of) == {cells[i].arg : i \in {j \in DOMAIN cells : cells[j].of = of}}
CellBytes(c, m) ==
  CASE c.of = "fixed" -> <<Bits(c.from)>>
    [] c.of = "arg"   -> <<Take(m.args[c.arg], c.from, c.width)>>
    [] c.of = "count" -> <<Take(Bits(Len(m.blocks[c.arg]) \div c.width), c.from, 7)>>
    [] c.of = "bytes" -> m.blocks[c.arg]
Encoded(m) ==
  LET cells == CellsOf(m.kind, m.args.version)
  IN  FlattenSeq([i \in DOMAIN cells |-> CellBytes(cells[i], m)])
=============================================================================
