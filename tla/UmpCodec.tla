------------------------------ MODULE UmpCodec ------------------------------
(***************************************************************************)
(* One UMP message on its way from a builder of midi2_msg.h to a callback  *)
(* of the typed dispatcher: it may be re-stamped with another group, cut   *)
(* short, translated down to MIDI 1.0 or arrive as a USB-MIDI 1.0 event.   *)
(***************************************************************************)
EXTENDS UmpDispatch

CONSTANTS
  Messages,    (* the built messages: [kind, args, data]                    *)
  RawWords,    (* four words no builder made                                *)
  NewGroups,   (* groups to re-stamp with: uint8_t                          *)
  CableKinds,  (* the kinds that also arrive as a cable event               *)
  CommonEvents (* cable events of System Common messages                    *)

(* Two arguments callers take from a fixed set: Flex text has two banks    *)
(* (0 is the setup bank), and a SysEx status is one of the four constants. *)
OfFixedSet(m) ==
  /\ m.kind = "flex_text" => Num(m.args.bank \intersect 0 .. 7) \in {1, 2}
  /\ m.kind \in {"sysex7_packet", "sysex8_packet"} => m.args.status \subseteq 4 .. 5

ASSUME UmpAssumption ==
  /\ \A m \in Messages : /\ m.kind \in UmpKinds /\ m.data \in Seq(SUBSET (0 .. 7))
                         /\ \A f \in Layouts[m.kind].fields : m.args[f.arg] \subseteq 0 .. 31
                         /\ OfFixedSet(m)
  /\ RawWords \subseteq [0 .. 3 -> SUBSET (0 .. 31)]
  /\ NewGroups \subseteq SUBSET (0 .. 7)
  /\ CableKinds \subseteq DOMAIN from_midi1
  /\ CommonEvents \subseteq SUBSET (0 .. 31)

VARIABLES
  path,     (* what has happened to the message                             *)
  sent,     (* history: the message, or Raw                                 *)
  group,    (* history: the group it was re-stamped with                    *)
  words, count, upscale_mt2,
  heard     (* what the dispatcher called; NotYet before it is fed          *)

umpVars == <<path, sent, group, words, count, upscale_mt2, heard>>

Raw    == [kind |-> "raw", args |-> None, data |-> <<>>]
NotYet == [name |-> "not yet", args |-> None, data |-> <<>>]
NoWords == [w \in 0 .. 3 |-> {}]
Needed(w) == midi2_msg_word_count[Num(Take(w[0], 28, 4))]
Ones == 0 .. 31

UmpInit ==
  /\ path = "idle" /\ sent = Raw /\ group = {} /\ words = NoWords /\ count = 0
  /\ upscale_mt2 = FALSE /\ heard = NotYet

OnWire(m) ==
  /\ path' = "wire" /\ sent' = m /\ count' = Needed(words')
  /\ UNCHANGED <<group, upscale_mt2, heard>>

SendBuilt(m) == path = "idle" /\ words' = Build(m) /\ OnWire(m)
SendRaw(w)   == path = "idle" /\ words' = w /\ OnWire(Raw)

(* The USB-MIDI 1.0 event that carries a MIDI 1.0 message. *)
CableEvent(m) ==
  LET w == Build(m)[0]
  IN  Take(w, 20, 4) \union Put(Take(w, 24, 4), 4) \union Put(Take(w, 16, 8), 8)
      \union Put(Take(w, 8, 8), 16) \union Put(Take(w, 0, 8), 24)
SendCable(m) ==
  /\ path = "idle" /\ m.kind \in CableKinds
  /\ \E w \in cable_event_to_ump(CableEvent(m), m.args.group) : words' = [NoWords EXCEPT ![0] = w]
  /\ OnWire(m)
SendCommon(e, g) ==
  /\ path = "idle"
  /\ \E w \in cable_event_to_ump(e, g) : words' = [NoWords EXCEPT ![0] = w]
  /\ OnWire(Raw)

Becomes(p) ==
  /\ path = "wire" /\ heard = NotYet
  /\ path' = p
  /\ UNCHANGED <<sent, upscale_mt2, heard>>

SetGroup(g) ==
  /\ Becomes("set_group")
  /\ words' = set_group(words, g) /\ group' = g /\ UNCHANGED count
RemapGroup(g) ==
  /\ Becomes("remap_group")
  /\ words' = remap_group(words, g) /\ group' = g /\ UNCHANGED count

(* The caller has fewer words than the type needs. *)
Cut(n) ==
  /\ n < count
  /\ Becomes("cut")
  /\ count' = n /\ UNCHANGED <<words, group>>

Lower ==
  /\ Becomes("lowered")
  /\ \E w \in mt4_to_mt2(words) : words' = [NoWords EXCEPT ![0] = w]
  /\ count' = 1 /\ UNCHANGED group

FeedWords ==
  /\ path # "idle" /\ heard = NotYet
  /\ upscale_mt2' \in BOOLEAN
  /\ heard' = midi2_dispatch_feed(words, count, upscale_mt2')
  /\ UNCHANGED <<path, sent, group, words, count>>

UmpNext ==
  \/ \E m \in Messages : SendBuilt(m) \/ SendCable(m)
  \/ \E w \in RawWords : SendRaw(w)
  \/ \E e \in CommonEvents, g \in NewGroups : SendCommon(e, g)
  \/ \E g \in NewGroups : SetGroup(g) \/ RemapGroup(g)
  \/ \E n \in 1 .. 3 : Cut(n)
  \/ Lower
  \/ FeedWords

UmpSpec == UmpInit /\ [][UmpNext]_umpVars

-----------------------------------------------------------------------------
Fed(p)   == path = p /\ heard # NotYet
Built    == sent.kind \in UmpKinds
Layout   == Layouts[sent.kind]
(* With upscale_mt2 a MIDI 1.0 message is not heard as itself. *)
AsItself(w) == ~ (upscale_mt2 /\ Num(Take(w[0], 28, 4)) = 2)

(* What the callback is told of argument a: its value cut to the field, or *)
(* what the builder fixes. Song position and MIDI 1.0 pitch bend are split *)
(* by one side only; a bank that is not valid is not sent.                 *)
Expected(a) ==
  LET fields == Layout.fields
      v == sent.args[a] \intersect RangeOf(fields, a)
  IN  CASE sent.kind = "system_song_position" /\ a = "data1" -> Take(sent.args.position, 0, 7)
        [] sent.kind = "system_song_position" /\ a = "data2" -> Take(sent.args.position, 7, 7)
        [] sent.kind = "cv1_pitch_bend" /\ a = "value" ->
             Take(sent.args.data1, 0, 7) \union Put(Take(sent.args.data2, 0, 7), 7)
        [] sent.kind = "program" /\ a \in {"bank_msb", "bank_lsb"} ->
             IF sent.args.bank_valid = {} THEN {} ELSE v
        [] OTHER -> IF a \notin ArgsOf(fields) THEN (IF a \in DOMAIN Layout.says THEN Layout.says[a] ELSE {})
                    ELSE IF a \in Signed THEN sign_extend_4(v) ELSE v

(* SysEx bytes arrive exactly; text and MDS payloads up to trailing zeros, *)
(* which a packet cannot tell from padding.                                *)
SameBytes(got) ==
  LET fit == SubSeq(sent.data, 1, Min({Len(sent.data), Layout.room}))
  IN  IF Layout.calls \in {"on_sysex7", "on_sysex8"} THEN got = fit ELSE Trimmed(got) = Trimmed(fit)

(* The dispatcher never looks past word_count: what it calls, and with     *)
(* what, is the same whatever lies behind the words it was given.          *)
Junked(w, n, junk) == [i \in 0 .. 3 |-> IF i < n THEN w[i] ELSE junk]
ReadsNothingPastCount ==
  heard # NotYet => \A junk \in {{}, Ones} :
    midi2_dispatch_feed(Junked(words, count, junk), count, upscale_mt2) = heard

(* A header the builder of this kind may make; text only has two banks,   *)
(* SysEx four statuses.                                                    *)
Fits(kind) ==
  LET L == Layouts[kind] IN
  /\ words[0] \intersect L.mask = L.const \intersect L.mask
  /\ kind = "flex_text" => Num(Take(words[0], 8, 8)) \in {1, 2}
  /\ kind \in {"sysex7_packet", "sysex8_packet"} => Num(Take(words[0], 20, 4)) \in 0 .. 3

(* Every message a builder makes, or a cable event of a channel voice      *)
(* message carries, reaches the callback for it, which is told the         *)
(* arguments and the bytes that were given: builders and dispatcher agree  *)
(* on every bit of every message. Other words reach a typed callback       *)
(* exactly when a builder has their header, and that builder's callback;   *)
(* SysEx packets of a reserved status are the exception, delivered as      *)
(* SysEx. The words made of a System Common cable event have a type no     *)
(* builder of such a message uses (it is MT 2, not 1): nobody but          *)
(* on_unknown hears them.                                                  *)
HeardAsTheyAre ==
  Fed("wire") /\ AsItself(words) =>
    IF Built
    THEN /\ heard.name = Layout.calls
         /\ \A a \in DOMAIN heard.args : heard.args[a] = Expected(a)
         /\ SameBytes(heard.data)
    ELSE LET calls == {Layouts[k].calls : k \in {j \in UmpKinds : Fits(j)}}
         IN  IF calls # {} THEN calls = {heard.name}
             ELSE heard.name \in {"on_unknown"} \union
                  (CASE Num(Take(words[0], 28, 4)) = 3 -> {"on_sysex7"}
                     [] Num(Take(words[0], 28, 4)) = 5 -> {"on_sysex8"}
                     [] OTHER -> {})

(* A re-stamped message is heard as it was sent but for its group:         *)
(* set_group moves MT 2 to 5 only, remap_group everything but Utility and  *)
(* Stream messages; and it keeps the length its type says.                 *)
RestampMovesGroupOnly ==
  path \in {"set_group", "remap_group"} /\ heard # NotYet /\ Built /\ AsItself(words) =>
    LET mt    == Num(Take(Layout.const, 28, 4))
        moves == mt \in (IF path = "set_group" THEN 2 .. 5 ELSE (0 .. 15) \ {0, 15})
    IN  /\ heard.name = Layout.calls /\ count = Needed(words)
        /\ \A a \in DOMAIN heard.args :
             heard.args[a] = IF a = "group" /\ moves THEN group \intersect 0 .. 3 ELSE Expected(a)
        /\ SameBytes(heard.data)

(* A MIDI 1.0 message comes back the same from MIDI 2.0 and back: scaling  *)
(* down undoes scaling up for every value, and only a Note On of velocity  *)
(* 0 changes, into the Note Off of velocity 64 that it means.              *)
TranslationRoundTrip ==
  path = "wire" /\ sent.kind \in DOMAIN from_midi1 =>
    LET silent == sent.kind = "cv1_note_on" /\ Take(words[0], 0, 7) = {}
        same   == IF silent THEN (words[0] \ {20}) \union {6} ELSE words[0]
    IN  \E up \in mt2_to_mt4(words[0]) : mt4_to_mt2(up) = {same}

TopBits(a) == CASE a = "velocity" -> Take(sent.args[a], 9, 7) [] OTHER -> Take(sent.args[a], 25, 7)
LoweredValue ==
  CASE sent.kind \in {"note_on", "note_off"} -> <<Take(sent.args.note, 0, 7), TopBits("velocity")>>
    [] sent.kind = "poly_pressure" -> <<Take(sent.args.note, 0, 7), TopBits("value")>>
    [] sent.kind = "cc"            -> <<Take(sent.args.index, 0, 7), TopBits("value")>>
    [] sent.kind = "program"       -> <<Take(sent.args.program, 0, 7), {}>>
    [] sent.kind = "chan_pressure" -> <<TopBits("value"), {}>>
    [] sent.kind = "pitch_bend"    -> <<Take(sent.args.value, 18, 7), Take(sent.args.value, 25, 7)>>
HeardAsMidiOne ==
  /\ heard.name = At(Cv1Calls, Take(Layout.const, 20, 4))
  /\ heard.args.group = Take(sent.args.group, 0, 4) /\ heard.args.channel = Take(sent.args.channel, 0, 4)
  /\ LET d == LoweredValue IN
     IF sent.kind = "pitch_bend" THEN heard.args.value = d[1] \union Put(d[2], 7)
     ELSE /\ heard.args.data1 = d[1]
          /\ sent.kind \notin {"program", "chan_pressure"} => heard.args.data2 = d[2]

(* A Note On whose velocity is less than 512: MIDI 1.0 has no such note.   *)
Silenced == sent.kind = "note_on" /\ TopBits("velocity") = {}
HeardRaised ==
  /\ heard.name = IF Silenced THEN "on_note_off" ELSE Layout.calls
  /\ \A a \in DOMAIN heard.args :
       CASE a \in {"group", "channel"}         -> heard.args[a] = Take(sent.args[a], 0, 4)
         [] a \in {"note", "index", "program"} -> heard.args[a] = Take(sent.args[a], 0, 7)
         [] a = "velocity" -> Take(heard.args[a], 9, 7) = IF Silenced THEN {6} ELSE TopBits(a)
         [] a = "value"    -> LET top == IF sent.kind = "pitch_bend" THEN 14 ELSE 7
                              IN  Take(heard.args[a], 32 - top, top) = Take(sent.args[a], 32 - top, top)
         [] OTHER          -> heard.args[a] = {}

(* A MIDI 2.0 message translated down is heard for the same group, channel *)
(* and note or index with the most significant bits of its value: by its   *)
(* MIDI 1.0 callback, or upscaled again by its own, without attribute or   *)
(* bank. The exception is a Note On softer than MIDI 1.0 can say: upscaled *)
(* it is the Note Off of velocity 64 that a MIDI 1.0 velocity of 0 means.  *)
LoweredIsHeard ==
  Fed("lowered") /\ Built => IF upscale_mt2 THEN HeardRaised ELSE HeardAsMidiOne
=============================================================================
