---------------------------- MODULE CiResponder -----------------------------
(***************************************************************************)
(* The MIDI-CI convenience responder of midi2_ci.c: its registries, its    *)
(* MUID, and midi2_ci_process_sysex, which answers one inbound message.    *)
(*                                                                         *)
(* A frame is one call of ci_send.  A MUID on the wire is 28 bits; the     *)
(* state field that holds one is 32 bits wide.                             *)
(***************************************************************************)
EXTENDS Naturals, Sequences, FiniteSets

CONSTANTS
  Names,       (* property names; "ResourceList" may be one of them         *)
  ProfileIds,
  Callers,     (* the MUIDs the application subscribes                      *)
  Messages,    (* the inbound MIDI-CI messages                              *)
  Options,     (* the settings the application may make: <<field, value>>   *)
  Seeds,       (* values of muid_seed & 0x0FFFFFFF                          *)
  Capacity,    (* of the caller's profiles, properties, subscribers arrays  *)
  ProfileRoom, (* the profiles a Profile Inquiry Reply has room for: 47, in *)
               (* the 256 bytes of midi2_ci.c:419                           *)
  MuidSpace,   (* 2^28 in the code; the last value is the broadcast MUID    *)
  Fallback     (* 0x12345678 in the code                                    *)

ASSUME CiAssumption ==
  /\ MuidSpace \in Nat \ {0, 1, 2}
  /\ Fallback \in Nat
  /\ Seeds \subseteq 0 .. MuidSpace - 1
  /\ Callers \subseteq 0 .. MuidSpace - 1
  /\ Capacity \in [{"profiles", "properties", "subscribers"} -> Nat]
  /\ ProfileRoom \in Nat
  /\ Options \subseteq {"rng", "write_fn", "nak_on_unknown",
                        "auto_invalidate_on_collision", "identity"} \X BOOLEAN

VARIABLES
  ci,          (* the midi2_ci_state: settings, MUID and registries         *)
  last,        (* history: the last call, with the result it gave           *)
  sent,        (* history: the frames the last call sent                    *)
  subscribed   (* history: <<caller, name>> the API said are subscribed     *)

vars == <<ci, last, sent, subscribed>>

-----------------------------------------------------------------------------
Reserved == {0, MuidSpace - 1}

(* midi2_ci_write_muid keeps the low 28 bits. *)
Wire(muid) == muid % MuidSpace

Frame(sub, src, dst, arg) == [sub |-> sub, src |-> Wire(src), dst |-> dst, arg |-> arg]

(* ci_send without a write_fn sends nothing. *)
Written(frames) == IF ci.write_fn THEN frames ELSE <<>>

FreeSlot == [in_use |-> FALSE, caller_muid |-> 0, name |-> ""]

Slots == 1 .. Capacity["subscribers"]

Least(S) == CHOOSE i \in S : \A j \in S : i <= j

(* find_property_idx and ci_pe_find_property: the first of that name, or 0. *)
Find(properties, name) ==
  LET found == {i \in 1 .. Len(properties) : properties[i].name = name}
  IN  IF found = {} THEN 0 ELSE Least(found)

Bug_Subscribers(name) == {i \in Slots : ci.subscribers[i].in_use}

Subscribers(name) ==
  {i \in Slots : ci.subscribers[i].in_use /\ ci.subscribers[i].name = name}

(* find_subscriber_idx. *)
SlotsOf(caller, name) ==
  {i \in Subscribers(name) : ci.subscribers[i].caller_muid = caller}

Without(s, i) == [j \in 1 .. Len(s) - 1 |-> IF j < i THEN s[j] ELSE s[j + 1]]

(* midi2_ci_new_muid: what the RNG draws, or the fallback after nine       *)
(* reserved draws; without an RNG the old MUID, perturbed.                 *)
NewMuids(c) ==
  LET perturbed == (c.muid * (1103515245 % MuidSpace) + 12345) % MuidSpace
  IN  IF c.rng THEN (1 .. MuidSpace - 2) \union {Fallback}
      ELSE {IF perturbed \in Reserved THEN Fallback ELSE perturbed}

-----------------------------------------------------------------------------
(* midi2_ci_init_ex. *)
Init ==
  /\ \E seed \in Seeds :
       ci = [rng |-> FALSE, write_fn |-> FALSE, nak_on_unknown |-> FALSE,
             auto_invalidate_on_collision |-> TRUE, identity |-> FALSE,
             muid |-> seed, profiles |-> <<>>, properties |-> <<>>,
             subscribers |-> [i \in Slots |-> FreeSlot], subscriber_count |-> 0]
  /\ last = [call |-> "init", ok |-> TRUE]
  /\ sent = <<>>
  /\ subscribed = {}

(* A call that sends nothing and leaves the subscriptions alone. *)
Quiet(call, ok) ==
  /\ last' = [call |-> call, ok |-> ok]
  /\ sent' = <<>>
  /\ UNCHANGED subscribed

(* midi2_ci_set_identity, _write_fn, _rng, _nak_on_unknown, _auto_...  *)
SetOption(field, value) ==
  /\ ci' = [ci EXCEPT ![field] = value]
  /\ Quiet("set", TRUE)

NewMuid ==
  /\ \E m \in NewMuids(ci) : ci' = [ci EXCEPT !.muid = m]
  /\ Quiet("new_muid", TRUE)

AddProfile(id) ==
  LET ok == Len(ci.profiles) < Capacity["profiles"]
  IN  /\ ci' = IF ok THEN [ci EXCEPT !.profiles = Append(@, id)] ELSE ci
      /\ Quiet("add_profile", ok)

RemoveProfile(id) ==
  LET found == {i \in 1 .. Len(ci.profiles) : ci.profiles[i] = id}
  IN  /\ ci' = IF found = {} THEN ci
               ELSE [ci EXCEPT !.profiles = Without(@, Least(found))]
      /\ Quiet("remove_profile", found # {})

ResetProfiles == ci' = [ci EXCEPT !.profiles = <<>>] /\ Quiet("reset", TRUE)

Bug_AddProperty(name, getter, setter) ==
  LET ok == Len(ci.properties) <= Capacity["properties"]
      p  == [name |-> name, getter |-> getter, setter |-> setter,
             subscribable |-> FALSE]
  IN  /\ ci' = IF ok THEN [ci EXCEPT !.properties = Append(@, p)] ELSE ci
      /\ Quiet("add_property", ok)

(* midi2_ci_add_property_static and _dynamic: no check for duplicates. *)
AddProperty(name, getter, setter) ==
  LET ok == Len(ci.properties) < Capacity["properties"]
      p  == [name |-> name, getter |-> getter, setter |-> setter,
             subscribable |-> FALSE]
  IN  /\ ci' = IF ok THEN [ci EXCEPT !.properties = Append(@, p)] ELSE ci
      /\ Quiet("add_property", ok)

(* The subscribers of a removed property stay in their slots. *)
RemoveProperty(name) ==
  LET i == Find(ci.properties, name)
  IN  /\ ci' = IF i = 0 THEN ci ELSE [ci EXCEPT !.properties = Without(@, i)]
      /\ Quiet("remove_property", i # 0)

ResetProperties == ci' = [ci EXCEPT !.properties = <<>>] /\ Quiet("reset", TRUE)

SetSubscribable(name, value) ==
  LET i == Find(ci.properties, name)
  IN  /\ ci' = IF i = 0 THEN ci ELSE [ci EXCEPT !.properties[i].subscribable = value]
      /\ Quiet("pe_set_subscribable", i # 0)

Bug_FreeSlots(caller, name) == {i \in Slots : ~ci.subscribers[i].in_use}

(* The slots a subscription may take: none when it has one already.        *)
FreeSlots(caller, name) ==
  IF SlotsOf(caller, name) # {} THEN {} ELSE {i \in Slots : ~ci.subscribers[i].in_use}

SubscribeAdd(caller, name) ==
  LET i    == Find(ci.properties, name)
      free == FreeSlots(caller, name)
      may  == i # 0 /\ ci.properties[i].subscribable
      new  == may /\ free # {}
      ok   == new \/ (may /\ SlotsOf(caller, name) # {})
  IN  /\ ci' = IF new
               THEN [ci EXCEPT !.subscribers[Least(free)] =
                       [in_use |-> TRUE, caller_muid |-> caller, name |-> name],
                               !.subscriber_count = @ + 1]
               ELSE ci
      /\ subscribed' = IF ok THEN subscribed \union {<<caller, name>>} ELSE subscribed
      /\ last' = [call |-> "subscribe_add", ok |-> ok]
      /\ sent' = <<>>

SubscribeRemove(caller, name) ==
  LET found == SlotsOf(caller, name)
  IN  /\ ci' = IF found = {} THEN ci
               ELSE [ci EXCEPT !.subscribers[Least(found)] = FreeSlot,
                               !.subscriber_count = @ - 1]
      /\ subscribed' = IF found = {} THEN subscribed ELSE subscribed \ {<<caller, name>>}
      /\ last' = [call |-> "subscribe_remove", ok |-> found # {}]
      /\ sent' = <<>>

(* midi2_ci_notify_property_changed: one frame per slot, in slot order.    *)
Notify(name) ==
  LET known == Find(ci.properties, name) # 0
      slots == Subscribers(name)
      nth   == [n \in 1 .. Cardinality(slots) |->
                  CHOOSE i \in slots : Cardinality({j \in slots : j < i}) = n - 1]
  IN  /\ sent' = IF known
                 THEN Written([n \in DOMAIN nth |->
                        Frame("pe_notify", ci.muid, ci.subscribers[nth[n]].caller_muid, name)])
                 ELSE <<>>
      /\ last' = [call |-> "notify", ok |-> known, name |-> name]
      /\ UNCHANGED <<ci, subscribed>>

-----------------------------------------------------------------------------
(* midi2_ci_process_sysex.  m.short: the message ends before the fields    *)
(* its handler reads.  outcome is what the code leaves to others: what the *)
(* property's getter or setter says, and what comes of a reply written     *)
(* past the end of its buffer.                                             *)
Collides(c, m) == c.rng /\ m.src = c.muid

Discovery(muid) == Frame("discovery", muid, MuidSpace - 1, "none")

Bug_CollisionFrames(c, new) ==
  IF c.auto_invalidate_on_collision
  THEN <<Frame("invalidate_muid", new, MuidSpace - 1, Wire(c.muid))>>
  ELSE <<>>

(* ci_check_muid_collision: what is sent once the MUID is new. *)
CollisionFrames(c, new) ==
  IF c.auto_invalidate_on_collision
  THEN <<Frame("invalidate_muid", new, MuidSpace - 1, Wire(c.muid)), Discovery(new)>>
  ELSE <<>>

Invalidated(c, m) ==
  m.sub = "invalidate_muid" /\ ~m.short /\ c.rng /\ m.target = c.muid

(* ci_handle_pe_get: the value of the first property of that name, a list  *)
(* of the properties, or 404, also when the property has no value now.     *)
GetStatus(c, m, outcome) ==
  LET i == Find(c.properties, m.resource)
      found == IF i # 0 THEN c.properties[i].getter = "static" \/ outcome
               ELSE m.resource = "ResourceList"
  IN  IF found THEN 200 ELSE 404

(* ci_handle_pe_set: 404 also for a property that cannot be set. *)
SetStatus(c, m, outcome) ==
  LET i == Find(c.properties, m.resource)
  IN  IF i = 0 \/ ~c.properties[i].setter THEN 404 ELSE IF outcome THEN 200 ELSE 400

Bug_To(c, m, sub, arg) == Frame(sub, ci.muid, m.src, arg)

(* A reply to m under the MUID in force after the collision check.         *)
To(c, m, sub, arg) == Frame(sub, c.muid, m.src, arg)

Nak(c, m) == To(c, m, "nak", m.sub)

Bug_PeReply(c, m, outcome) ==
  IF m.short \/ c.properties = <<>> THEN <<>>
  ELSE IF m.sub = "pe_get"
       THEN <<To(c, m, "pe_get_reply", <<GetStatus(c, m, outcome), m.resource>>)>>
       ELSE <<To(c, m, "pe_set_reply", <<SetStatus(c, m, outcome), m.resource>>)>>

PeReply(c, m, outcome) ==
  IF m.short THEN <<>>
  ELSE IF m.sub = "pe_get"
       THEN <<To(c, m, "pe_get_reply", <<GetStatus(c, m, outcome), m.resource>>)>>
       ELSE <<To(c, m, "pe_set_reply", <<SetStatus(c, m, outcome), m.resource>>)>>

(* A published profile is always on: Set On and Set Off report it enabled. *)
SetProfileReply(c, m) ==
  IF m.short THEN <<>>
  ELSE IF m.profile \in {c.profiles[i] : i \in 1 .. Len(c.profiles)}
       THEN <<Frame("profile_enabled", c.muid, MuidSpace - 1, m.profile)>>
       ELSE <<Nak(c, m)>>

(* A single channel other than the first is not in use. *)
MidiReportReply(c, m) ==
  IF m.short THEN <<>>
  ELSE IF m.device \in 1 .. 15 THEN <<Nak(c, m)>>
       ELSE <<To(c, m, "pi_midi_report_reply", "none"), To(c, m, "pi_midi_report_end", "none")>>

(* Without a manufacturer id the responder does not show itself.           *)
DiscoveryReply(c, m) ==
  IF c.identity THEN <<To(c, m, "discovery_reply", "none")>> ELSE <<>>

(* More profiles than the buffer holds are written past its end all the    *)
(* same: undefined, taken as a reply or none.                              *)
Overruns(c, m) == m.sub = "profile_inquiry" /\ Len(c.profiles) > ProfileRoom

ProfileInquiryReply(c, m, outcome) ==
  IF Overruns(c, m) /\ ~outcome THEN <<>>
  ELSE <<To(c, m, "profile_inquiry_reply", c.profiles)>>

PeCapabilityReply(c, m) == <<To(c, m, "pe_capability_reply", "none")>>

(* The handlers, by sub-id. *)
Reply(c, m, outcome) ==
  CASE m.sub = "discovery" -> DiscoveryReply(c, m)
    [] m.sub = "invalidate_muid" -> <<>>
    [] m.sub = "profile_inquiry" -> ProfileInquiryReply(c, m, outcome)
    [] m.sub \in {"set_profile_on", "set_profile_off"} -> SetProfileReply(c, m)
    [] m.sub = "pe_capability" -> PeCapabilityReply(c, m)
    [] m.sub \in {"pe_get", "pe_set"} -> PeReply(c, m, outcome)
    [] m.sub = "pi_capability" -> <<To(c, m, "pi_capability_reply", "none")>>
    [] m.sub = "pi_midi_report" -> MidiReportReply(c, m)
    [] OTHER -> IF c.nak_on_unknown THEN <<Nak(c, m)>> ELSE <<>>

Inquiries == {"profile_inquiry", "set_profile_on", "set_profile_off",
              "pe_capability", "pe_get", "pe_set", "pi_capability", "pi_midi_report"}

Handled(c, m) ==
  CASE m.sub = "discovery" -> c.identity
    [] m.sub \in Inquiries \union {"invalidate_muid"} -> TRUE
    [] OTHER -> c.nak_on_unknown

ProcessSysex(m) ==
  \E outcome \in BOOLEAN, new \in IF Collides(ci, m) THEN NewMuids(ci) ELSE {ci.muid} :
    LET c     == [ci EXCEPT !.muid = new]
        first == IF Collides(ci, m) THEN CollisionFrames(ci, new) ELSE <<>>
    IN  /\ IF Invalidated(c, m)
           THEN \E newer \in NewMuids(c) :
                  /\ ci' = [c EXCEPT !.muid = newer]
                  /\ sent' = Written(Append(first, Discovery(newer)))
           ELSE /\ ci' = c
                /\ sent' = Written(first \o Reply(c, m, outcome))
        /\ last' = [call |-> "process_sysex", ok |-> Handled(c, m), msg |-> m]
        /\ UNCHANGED subscribed

Next ==
  \/ \E o \in Options : SetOption(o[1], o[2])
  \/ NewMuid \/ ResetProfiles \/ ResetProperties
  \/ \E id \in ProfileIds : AddProfile(id) \/ RemoveProfile(id)
  \/ \E n \in Names :
       \/ \E g \in {"static", "dynamic"}, w \in BOOLEAN : AddProperty(n, g, w)
       \/ RemoveProperty(n)
       \/ \E v \in BOOLEAN : SetSubscribable(n, v)
       \/ \E c \in Callers : SubscribeAdd(c, n) \/ SubscribeRemove(c, n)
       \/ Notify(n)
  \/ \E m \in Messages : ProcessSysex(m)

Spec == Init /\ [][Next]_vars

-----------------------------------------------------------------------------
InUse == {i \in Slots : ci.subscribers[i].in_use}

Flags == {"rng", "write_fn", "nak_on_unknown", "auto_invalidate_on_collision", "identity"}

(* Type correctness: the registries never outgrow the caller's arrays.     *)
TypeOK ==
  /\ \A f \in Flags : ci[f] \in BOOLEAN
  /\ ci.muid \in (0 .. MuidSpace - 1) \union {Fallback}
  /\ ci.profiles \in Seq(ProfileIds)
  /\ Len(ci.profiles) <= Capacity["profiles"]
  /\ ci.properties \in Seq([name: Names, getter: {"static", "dynamic"},
                            setter: BOOLEAN, subscribable: BOOLEAN])
  /\ Len(ci.properties) <= Capacity["properties"]
  /\ ci.subscribers \in [Slots -> [in_use: BOOLEAN, caller_muid: Callers \union {0},
                                   name: Names \union {""}]]
  /\ ci.subscriber_count \in 0 .. Capacity["subscribers"]
  /\ subscribed \subseteq Callers \X Names

(* The slots hold exactly the subscriptions the API has confirmed, each    *)
(* once, and the counter agrees: through any order of adding, removing and *)
(* re-adding, of a full registry and of properties that come and go.       *)
SubscribersExact ==
  /\ subscribed = {<<ci.subscribers[i].caller_muid, ci.subscribers[i].name>> : i \in InUse}
  /\ ci.subscriber_count = Cardinality(InUse)
  /\ Cardinality(InUse) = Cardinality(subscribed)

(* A change is told to every subscriber of the property and to no other,   *)
(* once each.                                                              *)
NotifyReachesSubscribers ==
  last.call = "notify" /\ last.ok /\ ci.write_fn =>
    LET due == {s \in subscribed : s[2] = last.name}
    IN  /\ Len(sent) = Cardinality(due)
        /\ {sent[i].dst : i \in 1 .. Len(sent)} = {s[1] : s \in due}

(* A reply carries the MUID in force when the call returns and goes to who *)
(* asked (or to all), even when the request itself collided with our MUID  *)
(* (midi2_ci.c:935).                                                       *)
Announcements == {"invalidate_muid", "discovery"}

RepliesCarryMuid ==
  last.call = "process_sysex" =>
    \A i \in 1 .. Len(sent) : sent[i].sub \notin Announcements =>
      /\ sent[i].src = Wire(ci.muid)
      /\ sent[i].dst \in {last.msg.src, MuidSpace - 1}

(* "The responder advertises PE, so it must always answer" (midi2_ci.c:609) *)
(* and the same of every other inquiry: one that is long enough gets an    *)
(* answer, whatever is registered and whatever the MUID went through, but  *)
(* for a Profile Inquiry when the profiles outgrow the reply's buffer.     *)
InquiriesAnswered ==
  last.call = "process_sysex" /\ ci.write_fn =>
    LET m       == last.msg
        answers == {i \in 1 .. Len(sent) : sent[i].sub \notin Announcements}
    IN  /\ m.sub \in Inquiries /\ ~m.short /\ ~Overruns(ci, m) => answers # {}
        /\ m.sub = "pe_get" /\ ~m.short =>
             \A i \in answers : sent[i].sub = "pe_get_reply" /\ sent[i].arg[2] = m.resource

(* A MUID that changes under the initiator's feet is announced with a new  *)
(* Discovery: "Silence here strands every open transaction on a dead MUID" *)
(* (midi2_ci.c:763).                                                       *)
NewMuidAnnounced ==
  [][last'.call = "process_sysex" /\ ci.write_fn /\ ci'.muid # ci.muid =>
       \E i \in 1 .. Len(sent') : /\ sent'[i].sub = "discovery"
                                  /\ sent'[i].src = Wire(ci'.muid)]_vars
=============================================================================
