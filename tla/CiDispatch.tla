----------------------------- MODULE CiDispatch -----------------------------
(***************************************************************************)
(* midi2_ci_dispatch.c: a MIDI-CI payload is read byte by byte, whatever   *)
(* its length says it holds, and handed to the callback of its sub-id.     *)
(***************************************************************************)
EXTENDS CiMessages

(* Arguments at a byte offset: one byte, n raw bytes, seven bits a byte. *)
Byte(arg, at)       == {F(arg, 8, at, 0)}
Five(arg, at)       == {Piece(arg, 8 * i, 8, at + i, 0) : i \in 0 .. 4}
Read(arg, at, froms) == {Piece(arg, froms[i], 7, at + i - 1, 0) : i \in DOMAIN froms}
read_14(arg, at)     == Read(arg, at, <<0, 7>>)
read_muid(arg, at)   == Read(arg, at, <<0, 7, 14, 21>>)

(* What each sub-id's callback takes: from messages of at least `min'      *)
(* bytes, and from ones of at least `more' bytes (and of version 2, if     *)
(* versioned) the `extra' ones; otherwise those are as in `else'. A block  *)
(* of `data' has its length at `len' and its bytes at `at'.                *)
Call(sub_id, name, min, fields) ==
  [sub_id |-> sub_id, name |-> name, min |-> min, fields |-> fields, more |-> 0, versioned |-> FALSE,
   extra |-> {}, else |-> None, block |-> "", len |-> {}, at |-> 0]
Bug_Tail2(call, more, extra, else) ==
  [call EXCEPT !.versioned = TRUE, !.extra = extra, !.else = else]
Tail2(call, more, extra, else) ==
  [call EXCEPT !.more = more, !.versioned = TRUE, !.extra = extra, !.else = else]
WithBlock(call, block, len, at) == [call EXCEPT !.block = block, !.len = len, !.at = at]

Null == {-1}
(* As midi2_ci_get_mfr_id and the getters after it. *)
DiscoveryFields ==
  {Piece("mfr_id", 16, 8, 13, 0), Piece("mfr_id", 8, 8, 14, 0), Piece("mfr_id", 0, 8, 15, 0)}
  \union read_14("family", 16) \union read_14("model", 18) \union Read("sw_rev", 20, <<24, 16, 8, 0>>)
  \union Byte("ci_category", 24) \union read_muid("max_sysex", 25)
ReportFields == Byte("orig_sub_id", 13) \union Byte("status_code", 14) \union Byte("status_data", 15)
                \union Five("details", 16)
NoReport == [orig_sub_id |-> {}, status_code |-> {}, status_data |-> {}, details |-> Null]
ReportCall(sub_id, name) ==
  WithBlock(Tail2(Call(sub_id, name, 13, {}), 23, ReportFields, NoReport), "msg_text", read_14("n", 21), 23)

ManagementCalls == {
  Tail2(Call(\h70, "on_discovery", 29, DiscoveryFields), 30,
        Byte("output_path_id", 29), [output_path_id |-> {}]),
  Tail2(Call(\h71, "on_discovery_reply", 29, DiscoveryFields), 31,
        Byte("output_path_id", 29) \union Byte("function_block", 30),
        [output_path_id |-> {}, function_block |-> Bits(\h7F)]),
  Call(\h72, "on_endpoint_info", 14, Byte("status", 13)),
  WithBlock(Call(\h73, "on_endpoint_info_reply", 16, Byte("status", 13)), "info_data", read_14("n", 14), 16),
  Call(\h7E, "on_invalidate_muid", 17, read_muid("target_muid", 13)),
  [ReportCall(\h7D, "on_ack") EXCEPT !.versioned = FALSE],
  ReportCall(\h7F, "on_nak")}

ProfileId == Five("profile_id", 13)
PerChannels(sub_id, name) ==
  Tail2(Call(sub_id, name, 18, ProfileId), 20, read_14("num_channels", 18), [num_channels |-> {}])
ProfileCalls == {
  Call(\h20, "on_profile_inquiry", 13, {}),
  PerChannels(\h22, "on_set_profile_on"),
  Call(\h23, "on_set_profile_off", 18, ProfileId),
  PerChannels(\h24, "on_profile_enabled"),
  PerChannels(\h25, "on_profile_disabled"),
  Call(\h26, "on_profile_added", 18, ProfileId),
  Call(\h27, "on_profile_removed", 18, ProfileId),
  Call(\h28, "on_profile_details", 19, ProfileId \union Byte("inquiry_target", 18)),
  WithBlock(Call(\h29, "on_profile_details_reply", 21, ProfileId \union Byte("inquiry_target", 18)),
            "data", read_14("n", 19), 21),
  WithBlock(Call(\h2F, "on_profile_specific_data", 22, ProfileId), "data", read_muid("n", 18), 22)}

CapabilityCall(sub_id, name) ==
  Tail2(Call(sub_id, name, 14, Byte("max_simultaneous", 13)), 16,
        Byte("pe_ver_major", 14) \union Byte("pe_ver_minor", 15), [pe_ver_major |-> {}, pe_ver_minor |-> {}])
InquiryCalls == {
  CapabilityCall(\h30, "on_pe_capability"),
  CapabilityCall(\h31, "on_pe_capability_reply"),
  Call(\h40, "on_pi_capability", 13, {}),
  Call(\h41, "on_pi_capability_reply", 14, Byte("supported_features", 13)),
  Call(\h42, "on_pi_midi_report", 18,
       Byte("msg_data_control", 13) \union Byte("system_bitmap", 14)
       \union Byte("channel_ctrl_bitmap", 16) \union Byte("note_data_bitmap", 17)),
  Call(\h43, "on_pi_midi_report_reply", 17,
       Byte("system_bitmap", 13) \union Byte("channel_ctrl_bitmap", 15) \union Byte("note_data_bitmap", 16)),
  Call(\h44, "on_pi_midi_report_end", 13, {})}
Calls == ManagementCalls \union ProfileCalls \union InquiryCalls

(* Property Exchange data: to dispatch_pe_data. *)
PeCall(sub_id, name) == [sub_id |-> sub_id, name |-> name]
PeCalls == {
  PeCall(\h34, "on_pe_get"), PeCall(\h35, "on_pe_get_reply"), PeCall(\h36, "on_pe_set"),
  PeCall(\h37, "on_pe_set_reply"), PeCall(\h38, "on_pe_subscribe"),
  PeCall(\h39, "on_pe_subscribe_reply"), PeCall(\h3F, "on_pe_notify")}

Has(calls, sub_id)     == \E c \in calls : c.sub_id = sub_id
CallFor(calls, sub_id) == CHOOSE c \in calls : c.sub_id = sub_id

-----------------------------------------------------------------------------
(* The payload as memory: past its end lies junk. *)
Memory(d, junk) == [i \in 0 .. Len(d) + 31 |-> IF i < Len(d) THEN d[i + 1] ELSE junk]
Values(mem, fields) == [a \in ArgsOf(fields) |-> Unpacked(fields, mem, a)]

make_hdr(mem) ==
  Values(mem, Byte("device_id", 1) \union Byte("version", 4) \union read_muid("src_muid", 5)
              \union read_muid("dst_muid", 9))

(* A pointer into the payload, Absent for NULL. *)
Absent == -1
Span(at, n) == [at |-> at, len |-> n]
Bug_Inside(at, n, length) == IF n > 0 THEN Span(at, n) ELSE Span(Absent, n)
Inside(at, n, length) == IF n > 0 /\ at + n <= length THEN Span(at, n) ELSE Span(Absent, n)

Heard(name, hdr, args, data) ==
  [name |-> name, hdr |-> hdr, args |-> args, data |-> data, result |-> TRUE]
Nobody(result)     == [Heard("nobody", None, None, None) EXCEPT !.result = result]
Unknown(hdr)       == [Heard("on_unknown", hdr, None, None) EXCEPT !.result = FALSE]

(* Management, Profile, capability and Process Inquiry messages. *)
Typed(call, mem, length) ==
  LET hdr  == make_hdr(mem)
      full == length >= call.more /\ (call.versioned => Num(hdr.version) >= 2)
      n    == IF full THEN Num(Values(mem, call.len).n) ELSE 0
  IN  Heard(call.name, hdr,
            Merged({Values(mem, call.fields), IF full THEN Values(mem, call.extra) ELSE call.else}),
            [b \in {call.block} \ {""} |-> Inside(call.at, n, length)])

(* dispatch_pe_data: each length is read only where it still fits. *)
Checked14(mem, p, length) == IF p + 2 <= length THEN Values(mem, read_14("n", p)).n ELSE {}
Past(p, length)     == IF p + 2 <= length THEN p + 2 ELSE p
ChunksAt(mem, length)  == Past(14, length) + Num(Checked14(mem, 14, length))
ThisAt(mem, length)    == Past(ChunksAt(mem, length), length)
BodyLenAt(mem, length) == Past(ThisAt(mem, length), length)
dispatch_pe_data(name, mem, length) ==
  Heard(name, make_hdr(mem),
        [request_id |-> mem[13],
         num_chunks |-> Checked14(mem, ChunksAt(mem, length), length),
         this_chunk |-> Checked14(mem, ThisAt(mem, length), length)],
        [header |-> Inside(Past(14, length), Num(Checked14(mem, 14, length)), length),
         body   |-> Inside(Past(BodyLenAt(mem, length), length),
                           Num(Checked14(mem, BodyLenAt(mem, length), length)), length)])

(* Profile Inquiry Reply: the number of bytes of the enabled profiles is   *)
(* held in 16 bits, and only that list is checked.                         *)
ListFits(mem, length) ==
  length >= 15 /\ 17 + ((Num(Values(mem, read_14("n", 13)).n) * 5) % 65536) <= length
ProfileLists(mem, length) ==
  LET Get(p)   == Num(Values(mem, read_14("n", p)).n)
      en_count == Get(13)
      dis_off  == 15 + ((en_count * 5) % 65536)
  IN  Heard("on_profile_inquiry_reply", make_hdr(mem), None,
            [enabled |-> Span(15, en_count * 5), disabled |-> Span(dis_off + 2, Get(dis_off) * 5)])

is_ci(d) == Len(d) >= 13 /\ d[1] = Bits(\h7E) /\ d[3] = Bits(\h0D)

(* midi2_ci_dispatch_feed; with no typed callback registered messages are  *)
(* for on_unknown, but for Property Exchange data.                         *)
Bug_LongEnough(call, length) == TRUE
LongEnough(call, length) == length >= call.min
midi2_ci_dispatch_feed(d, registered, junk) ==
  LET length  == Len(d)
      mem     == Memory(d, junk)
      sub_id  == Num(d[4])
      unknown == Unknown(make_hdr(mem))
  IN  IF ~ is_ci(d) THEN Nobody(FALSE)
      ELSE CASE Has(PeCalls, sub_id) ->
                  IF registered /\ length >= 14
                  THEN dispatch_pe_data(CallFor(PeCalls, sub_id).name, mem, length) ELSE Nobody(registered)
             [] sub_id = \h21 ->
                  IF registered /\ ListFits(mem, length)
                  THEN ProfileLists(mem, length) ELSE unknown
             [] Has(Calls, sub_id) ->
                  IF registered /\ LongEnough(CallFor(Calls, sub_id), length)
                  THEN Typed(CallFor(Calls, sub_id), mem, length) ELSE unknown
             [] OTHER -> unknown
=============================================================================
