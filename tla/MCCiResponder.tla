---------------------------- MODULE MCCiResponder ---------------------------
(* Small instances of CiResponder: a MUID of two or three bits, two slots. *)
EXTENDS CiResponder

Msg(sub, src, target, device, profile, resource, short) ==
  [sub |-> sub, src |-> src, target |-> target, device |-> device,
   profile |-> profile, resource |-> resource, short |-> short]

Plain(sub, src, short) == Msg(sub, src, 0, 0, "p", "a", short)

None        == {}
WriteOnly   == {<<"write_fn", TRUE>>}
MuidOptions == {<<"write_fn", TRUE>>, <<"rng", TRUE>>, <<"identity", TRUE>>,
                <<"nak_on_unknown", TRUE>>}
AnyOptions  == MuidOptions \union {<<"auto_invalidate_on_collision", FALSE>>}

(* Discovery, replies of other devices, Invalidate for any MUID. *)
MuidMessages ==
  {Plain(sub, src, FALSE) : sub \in {"discovery", "discovery_reply", "pi_capability"},
                            src \in 0 .. 3}
  \union {Msg("invalidate_muid", src, t, 0, "p", "a", short) :
            src \in 1 .. 2, t \in 1 .. 2, short \in BOOLEAN}

(* Every inquiry, from one caller and from a caller that collides. *)
InquiryMessages ==
  {Plain(sub, src, FALSE) : sub \in {"profile_inquiry", "pe_capability", "other"},
                            src \in 1 .. 2}
  \union {Msg(sub, src, 0, 0, p, "a", short) :
            sub \in {"set_profile_on", "set_profile_off"}, src \in 1 .. 2,
            p \in {"p", "q"}, short \in BOOLEAN}
  \union {Msg("pi_midi_report", src, 0, d, "p", "a", FALSE) : src \in 1 .. 2, d \in {0, 1, 127}}
  \union {Msg(sub, src, 0, 0, "p", n, short) :
            sub \in {"pe_get", "pe_set"}, src \in 1 .. 2,
            n \in {"a", "ResourceList"}, short \in BOOLEAN}

AllMessages == MuidMessages \union InquiryMessages

NamesAB   == {"a", "b"}
NamesA    == {"a"}
ProfileP  == {"p"}
Callers12 == 1 .. 2
Seeds1    == {1}
Caps(p, q, s) == [profiles |-> p, properties |-> q, subscribers |-> s]
Caps022   == Caps(0, 2, 2)
Caps000   == Caps(0, 0, 0)
Caps210   == Caps(2, 1, 0)
=============================================================================
