------------------------------ MODULE CiProofs ------------------------------
(***************************************************************************)
(* What the MIDI-CI responder keeps for any property names, profiles,      *)
(* callers, messages and sizes of the caller's arrays, and any MUID space; *)
(* then what the typed dispatcher keeps for any messages, cuts and damage. *)
(***************************************************************************)
EXTENDS CiResponder, CiCodec, DataLemmas

Muids    == (0 .. MuidSpace - 1) \union {Fallback}
Property == [name: Names, getter: {"static", "dynamic"}, setter: BOOLEAN, subscribable: BOOLEAN]
Slot     == [in_use: BOOLEAN, caller_muid: Callers \union {0}, name: Names \union {""}]

State ==
  [rng: BOOLEAN, write_fn: BOOLEAN, nak_on_unknown: BOOLEAN,
   auto_invalidate_on_collision: BOOLEAN, identity: BOOLEAN,
   muid: Muids, profiles: Seq(ProfileIds), properties: Seq(Property),
   subscribers: [Slots -> Slot], subscriber_count: Nat]

TypeInv ==
  /\ ci \in State
  /\ Len(ci.profiles) <= Capacity["profiles"] /\ Len(ci.properties) <= Capacity["properties"]
  /\ subscribed \subseteq Callers \X Names

(* No two slots hold the same subscription: what lets each of them be told *)
(* from the others, and counted.                                           *)
Registry ==
  /\ subscribed = {<<ci.subscribers[i].caller_muid, ci.subscribers[i].name>> : i \in InUse}
  /\ ci.subscriber_count = Cardinality(InUse)
  /\ \A i, j \in InUse : /\ ci.subscribers[i].caller_muid = ci.subscribers[j].caller_muid
                         /\ ci.subscribers[i].name = ci.subscribers[j].name
                         => i = j

LEMMA Constants ==
  /\ MuidSpace \in Nat \ {0, 1, 2} /\ Fallback \in Nat
  /\ Seeds \subseteq 0 .. MuidSpace - 1 /\ Callers \subseteq 0 .. MuidSpace - 1
  /\ Capacity["profiles"] \in Nat /\ Capacity["properties"] \in Nat
  /\ Capacity["subscribers"] \in Nat
  BY CiAssumption

LEMMA LeastOf ==
  ASSUME NEW S, S \subseteq Nat, S # {}
  PROVE  Least(S) \in S /\ \A j \in S : Least(S) <= j
  <1> DEFINE P(i) == \A j \in S : i <= j
  <1>1. \E i \in S : P(i)
    BY LeastElement
  <1>2. Least(S) = CHOOSE i \in S : P(i)
    BY DEF Least
  <1> HIDE DEF P
  <1>3. Least(S) \in S /\ P(Least(S))
    BY <1>1, <1>2
  <1> QED
    BY <1>3 DEF P

LEMMA FindFinds ==
  ASSUME NEW properties \in Seq(Property), NEW name
  PROVE  /\ Find(properties, name) \in 0 .. Len(properties)
         /\ Find(properties, name) # 0 => properties[Find(properties, name)].name = name
  <1> DEFINE found == {i \in 1 .. Len(properties) : properties[i].name = name}
  <1>1. Len(properties) \in Nat
    BY LenProperties
  <1>2. found \subseteq 1 .. Len(properties) /\ found \subseteq Nat
        /\ \A i \in found : properties[i].name = name
    OBVIOUS
  <1>3. Find(properties, name) = IF found = {} THEN 0 ELSE Least(found)
    BY DEF Find
  <1> HIDE DEF found
  <1>4. CASE found = {}
    BY <1>1, <1>3, <1>4
  <1>5. CASE found # {}
    <2>1. Least(found) \in found
      BY <1>2, <1>5, LeastOf
    <2>2. Find(properties, name) = Least(found)
      BY <1>3, <1>5
    <2>3. Find(properties, name) \in 1 .. Len(properties)
      BY <1>2, <2>1, <2>2
    <2> QED
      BY <1>1, <1>2, <2>1, <2>2, <2>3
  <1> QED
    BY <1>4, <1>5

(* Taking entry i out of an array moves the later ones down.               *)
LEMMA WithoutOne ==
  ASSUME NEW S, NEW s \in Seq(S), NEW i \in 1 .. Len(s)
  PROVE  Without(s, i) \in Seq(S) /\ Len(Without(s, i)) = Len(s) - 1
  <1> DEFINE entry(j) == IF j < i THEN s[j] ELSE s[j + 1]
  <1>1. Len(s) \in Nat /\ Len(s) - 1 \in Nat
    BY LenProperties
  <1>2. ASSUME NEW j \in 1 .. Len(s) - 1 PROVE entry(j) \in S
    <2>1. j \in 1 .. Len(s) /\ j + 1 \in 1 .. Len(s)
      BY <1>1
    <2> QED
      BY <2>1, ElementOfSeq
  <1>3. Without(s, i) = [j \in 1 .. Len(s) - 1 |-> entry(j)]
    BY DEF Without
  <1> HIDE DEF entry
  <1> QED
    BY <1>1, <1>2, <1>3

LEMMA NewMuidsAreMuids == ASSUME NEW c, c.muid \in Muids PROVE NewMuids(c) \subseteq Muids
  <1> DEFINE k == 1103515245 % MuidSpace
             perturbed == (c.muid * k + 12345) % MuidSpace
  <1>1. MuidSpace \in Nat \ {0} /\ Fallback \in Nat
    BY Constants
  <1>2. c.muid \in Nat
    BY <1>1 DEF Muids
  <1>3. k \in Nat
    BY <1>1, Remainder
  <1> HIDE DEF k
  <1>4. PICK draw \in Nat : draw = c.muid * k + 12345
    BY <1>2, <1>3
  <1>5. perturbed \in 0 .. MuidSpace - 1
    <2>1. draw % MuidSpace \in 0 .. MuidSpace - 1
      BY <1>1, Remainder
    <2> QED
      BY <1>4, <2>1
  <1> HIDE DEF perturbed
  <1>6. 1 .. MuidSpace - 2 \subseteq Muids /\ Fallback \in Muids /\ perturbed \in Muids
    BY <1>1, <1>5 DEF Muids
  <1> QED
    BY <1>6 DEF NewMuids, k, perturbed

-----------------------------------------------------------------------------
(* Type correctness. *)

LEMMA TypeInit == Init => TypeInv
  <1> SUFFICES ASSUME Init PROVE TypeInv
    OBVIOUS
  <1>1. PICK seed \in Seeds :
          ci = [rng |-> FALSE, write_fn |-> FALSE, nak_on_unknown |-> FALSE,
                auto_invalidate_on_collision |-> TRUE, identity |-> FALSE,
                muid |-> seed, profiles |-> <<>>, properties |-> <<>>,
                subscribers |-> [i \in Slots |-> FreeSlot], subscriber_count |-> 0]
    BY DEF Init
  <1>2. seed \in Muids
    BY Constants DEF Muids
  <1>3. FreeSlot \in Slot
    BY DEF FreeSlot, Slot
  <1>4. [i \in Slots |-> FreeSlot] \in [Slots -> Slot]
    BY <1>3
  <1>5. ci \in State
    BY <1>1, <1>2, <1>4 DEF State
  <1>6. Len(ci.profiles) = 0 /\ Len(ci.properties) = 0
    BY <1>1
  <1> QED
    BY <1>5, <1>6, Constants DEF TypeInv, Init

LEMMA TypeSettings ==
  ASSUME TypeInv, \/ \E o \in Options : SetOption(o[1], o[2])
                  \/ NewMuid
  PROVE  TypeInv' /\ UNCHANGED <<ci.subscribers, ci.subscriber_count, subscribed>>
  <1>1. ci \in State
    BY DEF TypeInv
  <1>2. CASE \E o \in Options : SetOption(o[1], o[2])
    <2>1. PICK o \in Options : SetOption(o[1], o[2])
      BY <1>2
    <2>2. o[1] \in {"rng", "write_fn", "nak_on_unknown",
                    "auto_invalidate_on_collision", "identity"} /\ o[2] \in BOOLEAN
      BY CiAssumption
    <2>3. ci' = [ci EXCEPT ![o[1]] = o[2]] /\ subscribed' = subscribed
      BY <2>1 DEF SetOption, Quiet
    <2>4. ci' \in State /\ UNCHANGED <<ci.profiles, ci.properties, ci.subscribers,
                                       ci.subscriber_count>>
      BY <1>1, <2>2, <2>3 DEF State
    <2> QED
      BY <2>3, <2>4 DEF TypeInv
  <1>3. CASE NewMuid
    <2>1. PICK m \in NewMuids(ci) : ci' = [ci EXCEPT !.muid = m]
      BY <1>3 DEF NewMuid
    <2>2. subscribed' = subscribed
      BY <1>3 DEF NewMuid, Quiet
    <2>3. m \in Muids
      BY <1>1, NewMuidsAreMuids DEF State
    <2>4. ci' \in State /\ UNCHANGED <<ci.profiles, ci.properties, ci.subscribers,
                                       ci.subscriber_count>>
      BY <1>1, <2>1, <2>3 DEF State
    <2> QED
      BY <2>2, <2>4 DEF TypeInv
  <1> QED
    BY <1>2, <1>3

LEMMA TypeProfiles ==
  ASSUME TypeInv, \/ ResetProfiles
                  \/ \E id \in ProfileIds : AddProfile(id) \/ RemoveProfile(id)
  PROVE  TypeInv' /\ UNCHANGED <<ci.subscribers, ci.subscriber_count, subscribed>>
  <1> DEFINE Fine(ps) == /\ ps \in Seq(ProfileIds) /\ ci' = [ci EXCEPT !.profiles = ps]
                         /\ Len(ps) <= Capacity["profiles"]
             s == ci.profiles
  <1>1. ci \in State /\ s \in Seq(ProfileIds) /\ Len(s) \in Nat
        /\ Len(s) <= Capacity["profiles"] /\ Capacity["profiles"] \in Nat
    <2>1. ci \in State /\ Len(s) <= Capacity["profiles"]
      BY DEF TypeInv
    <2>2. s \in Seq(ProfileIds)
      BY <2>1 DEF State
    <2> QED
      BY <2>1, <2>2, LenProperties, Constants
  <1>2. ASSUME ci' = ci PROVE Fine(s)
    BY <1>1, <1>2 DEF State
  <1>3. \E ps : Fine(ps)
    <2>1. CASE ResetProfiles
      <3>1. ci' = [ci EXCEPT !.profiles = <<>>]
        BY <2>1 DEF ResetProfiles
      <3>2. <<>> \in Seq(ProfileIds) /\ Len(<<>>) = 0
        BY EmptySeq
      <3>3. Len(<<>>) <= Capacity["profiles"]
        BY <1>1, <3>2
      <3>4. Fine(<<>>)
        BY <3>1, <3>2, <3>3
      <3> HIDE DEF Fine
      <3> QED
        BY <3>4
    <2>2. ASSUME NEW id \in ProfileIds, AddProfile(id) PROVE \E ps : Fine(ps)
      <3>1. Append(s, id) \in Seq(ProfileIds) /\ Len(Append(s, id)) = Len(s) + 1
        BY <1>1, AppendProperties
      <3>2. CASE Len(s) < Capacity["profiles"]
        <4>1. ci' = [ci EXCEPT !.profiles = Append(s, id)]
          BY <2>2, <3>2 DEF AddProfile
        <4>2. Len(Append(s, id)) <= Capacity["profiles"]
          BY <1>1, <3>1, <3>2
        <4>3. Fine(Append(s, id))
          BY <3>1, <4>1, <4>2
        <4> HIDE DEF Fine
        <4> QED
          BY <4>3
      <3>3. CASE ~ (Len(s) < Capacity["profiles"])
        <4>1. ci' = ci
          BY <2>2, <3>3 DEF AddProfile
        <4> HIDE DEF Fine
        <4> QED
          BY <1>2, <4>1
      <3> QED
        BY <3>2, <3>3
    <2>3. ASSUME NEW id \in ProfileIds, RemoveProfile(id) PROVE \E ps : Fine(ps)
      <3> DEFINE found == {i \in 1 .. Len(s) : s[i] = id}
      <3>1. ci' = IF found = {} THEN ci ELSE [ci EXCEPT !.profiles = Without(s, Least(found))]
        BY <2>3 DEF RemoveProfile
      <3>2. found \subseteq 1 .. Len(s) /\ found \subseteq Nat
        OBVIOUS
      <3> HIDE DEF found
      <3>3. CASE found = {}
        <4>1. ci' = ci
          BY <3>1, <3>3
        <4> HIDE DEF Fine
        <4> QED
          BY <1>2, <4>1
      <3>4. CASE found # {}
        <4> DEFINE rest == Without(s, Least(found))
        <4>1. Least(found) \in 1 .. Len(s)
          BY <3>2, <3>4, LeastOf
        <4>2. rest \in Seq(ProfileIds) /\ Len(rest) = Len(s) - 1
          BY <1>1, <4>1, WithoutOne
        <4>3. ci' = [ci EXCEPT !.profiles = rest]
          BY <3>1, <3>4
        <4> HIDE DEF rest
        <4>4. Len(rest) <= Capacity["profiles"]
          BY <1>1, <4>2
        <4>5. Fine(rest)
          BY <4>2, <4>3, <4>4
        <4> HIDE DEF Fine
        <4> QED
          BY <4>5
      <3> QED
        BY <3>3, <3>4
    <2> HIDE DEF Fine
    <2> QED
      BY <2>1, <2>2, <2>3
  <1>4. PICK ps : Fine(ps)
    <2> HIDE DEF Fine
    <2> QED
      BY <1>3
  <1>5. ci' \in State /\ ci'.profiles = ps
        /\ UNCHANGED <<ci.properties, ci.subscribers, ci.subscriber_count>>
    BY <1>1, <1>4 DEF State
  <1>6. subscribed' = subscribed
    BY DEF ResetProfiles, AddProfile, RemoveProfile, Quiet
  <1> QED
    BY <1>4, <1>5, <1>6 DEF TypeInv

LEMMA TypeProperties ==
  ASSUME TypeInv,
         \/ ResetProperties
         \/ \E n \in Names :
              \/ \E g \in {"static", "dynamic"}, w \in BOOLEAN : AddProperty(n, g, w)
              \/ RemoveProperty(n)
              \/ \E v \in BOOLEAN : SetSubscribable(n, v)
  PROVE  TypeInv' /\ UNCHANGED <<ci.subscribers, ci.subscriber_count, subscribed>>
  <1> DEFINE Fine(ps) == /\ ps \in Seq(Property) /\ ci' = [ci EXCEPT !.properties = ps]
                         /\ Len(ps) <= Capacity["properties"]
             s == ci.properties
  <1>1. ci \in State /\ s \in Seq(Property) /\ Len(s) \in Nat
        /\ Len(s) <= Capacity["properties"] /\ Capacity["properties"] \in Nat
    <2>1. ci \in State /\ Len(s) <= Capacity["properties"]
      BY DEF TypeInv
    <2>2. s \in Seq(Property)
      BY <2>1 DEF State
    <2> QED
      BY <2>1, <2>2, LenProperties, Constants
  <1>2. ASSUME ci' = ci PROVE Fine(s)
    BY <1>1, <1>2 DEF State
  <1>3. \E ps : Fine(ps)
    <2>1. CASE ResetProperties
      <3>1. Fine(<<>>)
        BY <1>1, <2>1, EmptySeq DEF ResetProperties
      <3> HIDE DEF Fine
      <3> QED
        BY <3>1
    <2>2. ASSUME NEW n \in Names, NEW g \in {"static", "dynamic"}, NEW w \in BOOLEAN,
                 AddProperty(n, g, w)
          PROVE  \E ps : Fine(ps)
      <3> DEFINE p == [name |-> n, getter |-> g, setter |-> w, subscribable |-> FALSE]
      <3>1. p \in Property
        BY DEF Property
      <3>2. ci' = IF Len(s) < Capacity["properties"] THEN [ci EXCEPT !.properties = Append(s, p)] ELSE ci
        BY <2>2 DEF AddProperty
      <3> HIDE DEF p
      <3>3. Append(s, p) \in Seq(Property) /\ Len(Append(s, p)) = Len(s) + 1
        BY <1>1, <3>1, AppendProperties
      <3>4. CASE Len(s) < Capacity["properties"]
        <4>1. Fine(Append(s, p))
          BY <1>1, <3>2, <3>3, <3>4
        <4> HIDE DEF Fine
        <4> QED
          BY <4>1
      <3>5. CASE ~ (Len(s) < Capacity["properties"])
        <4> HIDE DEF Fine
        <4> QED
          BY <1>2, <3>2, <3>5
      <3> QED
        BY <3>4, <3>5
    <2>3. ASSUME NEW n \in Names, RemoveProperty(n) PROVE \E ps : Fine(ps)
      <3>1. CASE Find(s, n) = 0
        <4>1. ci' = ci
          BY <2>3, <3>1 DEF RemoveProperty
        <4> HIDE DEF Fine
        <4> QED
          BY <1>2, <4>1
      <3>2. CASE Find(s, n) # 0
        <4>1. Find(s, n) \in 1 .. Len(s)
          <5>1. Find(s, n) \in 0 .. Len(s)
            BY <1>1, FindFinds
          <5> QED
            BY <3>2, <5>1
        <4>2. Without(s, Find(s, n)) \in Seq(Property) /\ Len(Without(s, Find(s, n))) = Len(s) - 1
          BY <1>1, <4>1, WithoutOne
        <4>3. ci' = [ci EXCEPT !.properties = Without(s, Find(s, n))]
          BY <2>3, <3>2 DEF RemoveProperty
        <4> DEFINE rest == Without(s, Find(s, n))
        <4>4. rest \in Seq(Property) /\ Len(rest) = Len(s) - 1 /\ ci' = [ci EXCEPT !.properties = rest]
          BY <4>2, <4>3
        <4> HIDE DEF rest
        <4>5. Len(rest) <= Capacity["properties"]
          BY <1>1, <4>4
        <4>6. Fine(rest)
          BY <4>4, <4>5
        <4> HIDE DEF Fine
        <4> QED
          BY <4>6
      <3> QED
        BY <3>1, <3>2
    <2>4. ASSUME NEW n \in Names, NEW v \in BOOLEAN, SetSubscribable(n, v) PROVE \E ps : Fine(ps)
      <3> DEFINE i == Find(s, n)
      <3>1. CASE i = 0
        <4>1. ci' = ci
          BY <2>4, <3>1 DEF SetSubscribable
        <4> HIDE DEF Fine
        <4> QED
          BY <1>2, <4>1
      <3>2. CASE i # 0
        <4>1. i \in 1 .. Len(s)
          <5>1. i \in 0 .. Len(s)
            BY <1>1, FindFinds
          <5> QED
            BY <3>2, <5>1
        <4>2. ci' = [ci EXCEPT !.properties[i].subscribable = v]
          BY <2>4, <3>2 DEF SetSubscribable
        <4> HIDE DEF i
        <4> DEFINE q == [s[i] EXCEPT !.subscribable = v]
        <4>3. q \in Property
          <5>1. s[i] \in Property
            BY <1>1, <4>1, ElementOfSeq
          <5> QED
            BY <5>1 DEF Property
        <4>4. ci' = [ci EXCEPT !.properties = [s EXCEPT ![i] = q]]
          BY <1>1, <4>2 DEF State
        <4> HIDE DEF q
        <4>5. [s EXCEPT ![i] = q] \in Seq(Property) /\ Len([s EXCEPT ![i] = q]) = Len(s)
          BY <1>1, <4>1, <4>3, ExceptSeq
        <4>6. Fine([s EXCEPT ![i] = q])
          BY <1>1, <4>4, <4>5
        <4> HIDE DEF Fine
        <4> QED
          BY <4>6
      <3> QED
        BY <3>1, <3>2
    <2> HIDE DEF Fine
    <2> QED
      BY <2>1, <2>2, <2>3, <2>4
  <1>4. PICK ps : Fine(ps)
    <2> HIDE DEF Fine
    <2> QED
      BY <1>3
  <1>5. ci' \in State /\ ci'.properties = ps
        /\ UNCHANGED <<ci.profiles, ci.subscribers, ci.subscriber_count>>
    BY <1>1, <1>4 DEF State
  <1>6. subscribed' = subscribed
    BY DEF ResetProperties, AddProperty, RemoveProperty, SetSubscribable, Quiet
  <1> QED
    BY <1>4, <1>5, <1>6 DEF TypeInv

-----------------------------------------------------------------------------
(* The subscriptions. *)

LEMMA SlotsAreFinite ==
  /\ Slots \subseteq Nat /\ IsFiniteSet(Slots) /\ Cardinality(Slots) = Capacity["subscribers"]
  <1>1. Capacity["subscribers"] \in Nat
    BY Constants
  <1>2. \A K \in Nat : 1 .. K \subseteq Nat /\ IsFiniteSet(1 .. K) /\ Cardinality(1 .. K) = K
    BY FS_Interval
  <1> QED
    BY <1>1, <1>2 DEF Slots

LEMMA InUseIsFinite ==
  IsFiniteSet(InUse) /\ Cardinality(InUse) \in Nat /\ Cardinality(InUse) <= Capacity["subscribers"]
  <1>1. InUse \in SUBSET Slots
    BY DEF InUse
  <1>2. IsFiniteSet(InUse) /\ Cardinality(InUse) <= Cardinality(Slots)
    BY <1>1, SlotsAreFinite, FS_Subset
  <1> QED
    BY <1>2, SlotsAreFinite, FS_CardinalityType

(* Where nothing touches the slots, the registry stays as it is.           *)
LEMMA RegistryKept ==
  ASSUME Registry, UNCHANGED <<ci.subscribers, ci.subscriber_count, subscribed>>
  PROVE  Registry'
  BY DEF Registry, InUse, Slots

LEMMA Added ==
  ASSUME TypeInv, Registry, NEW c \in Callers, NEW n \in Names, SubscribeAdd(c, n)
  PROVE  TypeInv' /\ Registry'
  <1> DEFINE sub  == ci.subscribers
             free == FreeSlots(c, n)
             i    == Find(ci.properties, n)
             may  == i # 0 /\ ci.properties[i].subscribable
             k    == Least(free)
             slot == [in_use |-> TRUE, caller_muid |-> c, name |-> n]
  <1>1. ci \in State /\ sub \in [Slots -> Slot] /\ ci.subscriber_count \in Nat
        /\ subscribed \subseteq Callers \X Names
    BY DEF TypeInv, State
  <1>2. <<c, n>> \in Callers \X Names
    OBVIOUS
  <1>3. CASE may /\ free # {}
    <2>1. SlotsOf(c, n) = {} /\ free = {j \in Slots : ~ sub[j].in_use}
      BY <1>3 DEF FreeSlots
    <2>2. ci' = [ci EXCEPT !.subscribers[k] = slot, !.subscriber_count = @ + 1]
          /\ subscribed' = subscribed \union {<<c, n>>}
      BY <1>3 DEF SubscribeAdd
    <2>3. k \in free
      BY <1>3, <2>1, SlotsAreFinite, LeastOf
    <2>4. k \in Slots /\ k \notin InUse
      BY <2>1, <2>3 DEF InUse
    <2> HIDE DEF i, free, k
    <2>5. slot \in Slot
      BY DEF Slot
    <2>6. ci'.subscribers = [sub EXCEPT ![k] = slot] /\ ci'.subscriber_count = ci.subscriber_count + 1
          /\ UNCHANGED <<ci.profiles, ci.properties>>
      BY <1>1, <2>2 DEF State
    <2>7. ci' \in State
      <3> HIDE DEF sub, slot
      <3>1. [sub EXCEPT ![k] = slot] \in [Slots -> Slot]
        BY <1>1, <2>5
      <3>3. ci.subscriber_count + 1 \in Nat
        BY <1>1
      <3>2. ci' = [ci EXCEPT !.subscribers = [sub EXCEPT ![k] = slot],
                             !.subscriber_count = ci.subscriber_count + 1]
        BY <1>1, <2>2 DEF State, sub
      <3> QED
        BY <1>1, <3>1, <3>2, <3>3 DEF State
    <2>8. TypeInv'
      BY <1>1, <1>2, <2>2, <2>6, <2>7 DEF TypeInv
    <2>9. /\ \A j \in Slots : j # k => ci'.subscribers[j] = sub[j]
          /\ ci'.subscribers[k] = slot /\ slot.in_use /\ slot.caller_muid = c /\ slot.name = n
      BY <1>1, <2>4, <2>6
    <2> HIDE DEF sub, slot
    <2>10. InUse' = InUse \union {k}
      BY <2>4, <2>9 DEF InUse, Slots, sub
    <2>11. \A j \in InUse : /\ ci'.subscribers[j] = ci.subscribers[j]
                            /\ ~ (ci.subscribers[j].caller_muid = c /\ ci.subscribers[j].name = n)
      BY <2>1, <2>4, <2>9 DEF InUse, SlotsOf, Subscribers, sub
    <2>12. subscribed' = {<<ci'.subscribers[j].caller_muid, ci'.subscribers[j].name>> : j \in InUse'}
      BY <2>2, <2>9, <2>10, <2>11 DEF Registry
    <2>13. ci'.subscriber_count = Cardinality(InUse')
      <3>1. Cardinality(InUse \union {k}) = Cardinality(InUse) + 1
        BY <2>4, InUseIsFinite, FS_AddElement
      <3> QED
        BY <2>6, <2>10, <3>1 DEF Registry
    <2>14. \A a, b \in InUse' : /\ ci'.subscribers[a].caller_muid = ci'.subscribers[b].caller_muid
                                /\ ci'.subscribers[a].name = ci'.subscribers[b].name
                                => a = b
      BY <2>9, <2>10, <2>11 DEF Registry
    <2>15. Registry'
      BY <2>12, <2>13, <2>14 DEF Registry
    <2> QED
      BY <2>8, <2>15
  <1>4. CASE ~ (may /\ free # {})
    <2>1. ci' = ci
      BY <1>4 DEF SubscribeAdd
    <2>2. subscribed' = subscribed
      <3>1. CASE may /\ SlotsOf(c, n) # {}
        <4>1. PICK j \in InUse : ci.subscribers[j].caller_muid = c /\ ci.subscribers[j].name = n
          BY <3>1 DEF InUse, SlotsOf, Subscribers
        <4>2. <<c, n>> \in subscribed
          BY <4>1 DEF Registry
        <4> QED
          BY <4>2 DEF SubscribeAdd
      <3>2. CASE ~ (may /\ SlotsOf(c, n) # {})
        BY <1>4, <3>2 DEF SubscribeAdd
      <3> QED
        BY <3>1, <3>2
    <2>3. TypeInv'
      BY <2>1, <2>2 DEF TypeInv, State, Slots, Slot, Muids, Property
    <2> QED
      BY <2>1, <2>2, <2>3, RegistryKept
  <1> QED
    BY <1>3, <1>4

LEMMA Removed ==
  ASSUME TypeInv, Registry, NEW c \in Callers, NEW n \in Names, SubscribeRemove(c, n)
  PROVE  TypeInv' /\ Registry'
  <1> DEFINE sub   == ci.subscribers
             found == SlotsOf(c, n)
             k     == Least(found)
  <1>1. ci \in State /\ sub \in [Slots -> Slot] /\ ci.subscriber_count \in Nat
        /\ subscribed \subseteq Callers \X Names
    BY DEF TypeInv, State
  <1>2. CASE found # {}
    <2>1. /\ ci' = [ci EXCEPT !.subscribers[k] = FreeSlot, !.subscriber_count = @ - 1]
          /\ subscribed' = subscribed \ {<<c, n>>}
      BY <1>2 DEF SubscribeRemove
    <2>2. found \subseteq InUse /\ found \subseteq Slots
          /\ \A j \in found : sub[j].caller_muid = c /\ sub[j].name = n
      BY DEF InUse, SlotsOf, Subscribers
    <2>3. k \in found
      <3>1. found \subseteq Nat
        BY <2>2, SlotsAreFinite
      <3> HIDE DEF found
      <3> QED
        BY <1>2, <3>1, LeastOf
    <2>4. k \in Slots /\ k \in InUse /\ sub[k].caller_muid = c /\ sub[k].name = n
      BY <2>2, <2>3
    <2> HIDE DEF found, k
    <2>5. FreeSlot \in Slot /\ FreeSlot.in_use = FALSE
      BY DEF Slot, FreeSlot
    <2>6. ci'.subscribers = [sub EXCEPT ![k] = FreeSlot] /\ ci'.subscriber_count = ci.subscriber_count - 1
          /\ UNCHANGED <<ci.profiles, ci.properties>>
      BY <1>1, <2>1 DEF State
    <2>7. Cardinality(InUse \ {k}) = Cardinality(InUse) - 1 /\ Cardinality(InUse \ {k}) \in Nat
      <3>1. IsFiniteSet(InUse \ {k}) /\ Cardinality(InUse \ {k}) = Cardinality(InUse) - 1
        BY <2>4, InUseIsFinite, FS_RemoveElement
      <3> QED
        BY <3>1, FS_CardinalityType
    <2>8. ci.subscriber_count - 1 \in Nat
      BY <2>7 DEF Registry
    <2>9. ci' \in State
      <3>1. [sub EXCEPT ![k] = FreeSlot] \in [Slots -> Slot]
        BY <1>1, <2>5
      <3>2. ci' = [ci EXCEPT !.subscribers = [sub EXCEPT ![k] = FreeSlot],
                             !.subscriber_count = ci.subscriber_count - 1]
        BY <1>1, <2>1 DEF State
      <3> QED
        BY <1>1, <2>8, <3>1, <3>2 DEF State
    <2>10. TypeInv'
      BY <1>1, <2>1, <2>6, <2>9 DEF TypeInv
    <2>11. /\ \A j \in Slots : j # k => ci'.subscribers[j] = sub[j]
           /\ ci'.subscribers[k] = FreeSlot
      BY <1>1, <2>4, <2>6
    <2> HIDE DEF sub
    <2>12. InUse' = InUse \ {k}
      BY <2>4, <2>5, <2>11 DEF InUse, Slots, sub
    <2>13. \A j \in InUse' : /\ j \in InUse /\ ci'.subscribers[j] = ci.subscribers[j]
                             /\ ~ (ci.subscribers[j].caller_muid = c /\ ci.subscribers[j].name = n)
      <3>1. ASSUME NEW j \in InUse \ {k} PROVE j \in Slots
        BY DEF InUse
      <3> QED
        BY <2>4, <2>11, <2>12, <3>1 DEF Registry, sub
    <2>14. \A j \in InUse : j \in InUse' \/ j = k
      BY <2>12
    <2>15. subscribed' = {<<ci'.subscribers[j].caller_muid, ci'.subscribers[j].name>> : j \in InUse'}
      BY <2>1, <2>4, <2>13, <2>14 DEF Registry, sub
    <2>16. ci'.subscriber_count = Cardinality(InUse')
      BY <2>6, <2>7, <2>12 DEF Registry
    <2>17. \A a, b \in InUse' : /\ ci'.subscribers[a].caller_muid = ci'.subscribers[b].caller_muid
                                /\ ci'.subscribers[a].name = ci'.subscribers[b].name
                                => a = b
      BY <2>13 DEF Registry
    <2>18. Registry'
      BY <2>15, <2>16, <2>17 DEF Registry
    <2> QED
      BY <2>10, <2>18
  <1>3. CASE found = {}
    <2>1. ci' = ci /\ subscribed' = subscribed
      BY <1>3 DEF SubscribeRemove
    <2>2. TypeInv'
      BY <2>1 DEF TypeInv, State, Slots, Slot, Muids, Property
    <2> QED
      BY <2>1, <2>2, RegistryKept
  <1> QED
    BY <1>2, <1>3

-----------------------------------------------------------------------------
(* Messages and notifications touch nothing but the MUID. *)

LEMMA MuidAlone ==
  ASSUME TypeInv, NEW m, ProcessSysex(m)
  PROVE  /\ \E muid \in Muids : ci' = [ci EXCEPT !.muid = muid]
         /\ subscribed' = subscribed
  <1>1. ci \in State /\ ci.muid \in Muids
    BY DEF TypeInv, State
  <1>2. PICK said \in BOOLEAN, new \in IF Collides(ci, m) THEN NewMuids(ci) ELSE {ci.muid} :
          \/ ci' = [ci EXCEPT !.muid = new]
          \/ \E newer \in NewMuids([ci EXCEPT !.muid = new]) :
               ci' = [[ci EXCEPT !.muid = new] EXCEPT !.muid = newer]
    BY Zenon DEF ProcessSysex
  <1>3. new \in Muids
    BY <1>1, NewMuidsAreMuids
  <1>4. CASE ci' = [ci EXCEPT !.muid = new]
    BY <1>3, <1>4 DEF ProcessSysex
  <1>5. CASE \E newer \in NewMuids([ci EXCEPT !.muid = new]) :
               ci' = [[ci EXCEPT !.muid = new] EXCEPT !.muid = newer]
    <2> DEFINE c == [ci EXCEPT !.muid = new]
    <2>1. PICK newer \in NewMuids(c) : ci' = [c EXCEPT !.muid = newer]
      BY <1>5
    <2>2. c.muid \in Muids
      BY <1>1, <1>3 DEF State
    <2>3. [c EXCEPT !.muid = newer] = [ci EXCEPT !.muid = newer]
      BY <1>1 DEF State
    <2> HIDE DEF c
    <2>4. newer \in Muids
      BY <2>2, NewMuidsAreMuids
    <2> QED
      BY <2>1, <2>3, <2>4 DEF ProcessSysex
  <1> QED
    BY <1>2, <1>4, <1>5

LEMMA TypeMessages ==
  ASSUME TypeInv, \/ \E n \in Names : Notify(n)
                  \/ \E m \in Messages : ProcessSysex(m)
  PROVE  TypeInv' /\ UNCHANGED <<ci.subscribers, ci.subscriber_count, subscribed>>
  <1>1. ci \in State
    BY DEF TypeInv
  <1>2. CASE \E n \in Names : Notify(n)
    <2>1. ci' = ci /\ subscribed' = subscribed
      BY <1>2 DEF Notify
    <2> QED
      BY <2>1 DEF TypeInv, State, Slots, Slot, Muids, Property
  <1>3. CASE \E m \in Messages : ProcessSysex(m)
    <2>1. PICK muid \in Muids : ci' = [ci EXCEPT !.muid = muid]
      BY <1>3, MuidAlone
    <2>2. subscribed' = subscribed
      BY <1>3, MuidAlone
    <2>3. ci' \in State /\ UNCHANGED <<ci.profiles, ci.properties, ci.subscribers,
                                       ci.subscriber_count>>
      BY <1>1, <2>1 DEF State
    <2> QED
      BY <2>2, <2>3 DEF TypeInv
  <1> QED
    BY <1>2, <1>3

LEMMA RegistryInit == Init => Registry
  <1> SUFFICES ASSUME Init PROVE Registry
    OBVIOUS
  <1>1. ci.subscribers = [i \in Slots |-> FreeSlot] /\ ci.subscriber_count = 0 /\ subscribed = {}
    BY DEF Init
  <1>2. FreeSlot.in_use = FALSE
    BY DEF FreeSlot
  <1>3. InUse = {}
    BY <1>1, <1>2 DEF InUse
  <1>4. Cardinality({}) = 0
    BY FS_EmptySet
  <1> QED
    BY <1>1, <1>3, <1>4 DEF Registry

Inv == TypeInv /\ Registry

LEMMA InvStep == ASSUME Inv, [Next]_vars PROVE Inv'
  <1> USE DEF Inv
  <1>1. CASE \/ \E o \in Options : SetOption(o[1], o[2])
             \/ NewMuid
    BY <1>1, TypeSettings, RegistryKept
  <1>2. CASE \/ ResetProfiles
             \/ \E id \in ProfileIds : AddProfile(id) \/ RemoveProfile(id)
    BY <1>2, TypeProfiles, RegistryKept
  <1>3. CASE \/ ResetProperties
             \/ \E n \in Names :
                  \/ \E g \in {"static", "dynamic"}, w \in BOOLEAN : AddProperty(n, g, w)
                  \/ RemoveProperty(n)
                  \/ \E v \in BOOLEAN : SetSubscribable(n, v)
    BY <1>3, TypeProperties, RegistryKept
  <1>4. CASE \E n \in Names : \E c \in Callers : SubscribeAdd(c, n) \/ SubscribeRemove(c, n)
    BY <1>4, Added, Removed
  <1>5. CASE \/ \E n \in Names : Notify(n)
             \/ \E m \in Messages : ProcessSysex(m)
    BY <1>5, TypeMessages, RegistryKept
  <1>6. CASE UNCHANGED vars
    <2>1. ci' = ci /\ subscribed' = subscribed
      BY <1>6 DEF vars
    <2>2. TypeInv'
      BY <2>1 DEF TypeInv, State, Slots, Slot, Muids, Property
    <2> QED
      BY <2>1, <2>2, RegistryKept
  <1> QED
    BY <1>1, <1>2, <1>3, <1>4, <1>5, <1>6, Zenon DEF Next

LEMMA Invariant == Spec => []Inv
  <1>1. Init => Inv
    BY TypeInit, RegistryInit DEF Inv
  <1>2. Inv /\ [Next]_vars => Inv'
    BY InvStep
  <1> QED
    BY <1>1, <1>2, PTL DEF Spec

(* In every state of midi2_ci each field has its type, and none of the     *)
(* caller's three arrays is ever written past its capacity.                *)
THEOREM TypeCorrect == Spec => []TypeOK
  <1>1. Inv => TypeOK
    <2> SUFFICES ASSUME Inv PROVE TypeOK
      OBVIOUS
    <2>1. ci \in State
      BY DEF Inv, TypeInv
    <2>2. \A f \in Flags : ci[f] \in BOOLEAN
      BY <2>1 DEF State, Flags
    <2>3. ci.subscriber_count \in 0 .. Capacity["subscribers"]
      BY InUseIsFinite, Constants DEF Inv, Registry
    <2> QED
      BY <2>1, <2>2, <2>3 DEF TypeOK, Inv, TypeInv, State, Muids, Property, Slot
  <1> QED
    BY <1>1, Invariant, PTL

(* The slots hold exactly the subscriptions the API confirmed, each once,  *)
(* and the counter is their number: after any calls of the application and *)
(* any messages, for arrays of any size.                                   *)
THEOREM SubscribersAreExact == Spec => []SubscribersExact
  <1>1. Inv => SubscribersExact
    <2> SUFFICES ASSUME Inv PROVE SubscribersExact
      OBVIOUS
    <2> DEFINE f == [i \in InUse |-> <<ci.subscribers[i].caller_muid, ci.subscribers[i].name>>]
    <2>1. Registry
      BY DEF Inv
    <2>2. f \in [InUse -> subscribed]
      BY <2>1 DEF Registry
    <2>3. \A a, b \in InUse : f[a] = f[b] => a = b
      BY <2>1 DEF Registry
    <2>4. \A s \in subscribed : \E i \in InUse : f[i] = s
      BY <2>1 DEF Registry
    <2> HIDE DEF f
    <2>5. Cardinality(subscribed) = Cardinality(InUse)
      BY <2>2, <2>3, <2>4, InUseIsFinite, OneToOne
    <2> QED
      BY <2>1, <2>5 DEF SubscribersExact, Registry
  <1> QED
    BY <1>1, Invariant, PTL

-----------------------------------------------------------------------------
(* What a call says and sends. *)

(* Each of these calls says which it is: none passes for another.          *)
LEMMA CallsSayWhichTheyAre ==
  ASSUME Next
  PROVE  \/ last'.call \notin {"process_sysex", "notify"}
         \/ /\ last'.call = "process_sysex"
            /\ \E m \in Messages : ProcessSysex(m)
         \/ /\ last'.call = "notify"
            /\ \E n \in Names : Notify(n)
  <1> DEFINE Performed == {"set", "new_muid", "reset", "add_profile", "remove_profile",
                       "add_property", "remove_property", "pe_set_subscribable"}
             Silent == \E call \in Performed : \E ok : Quiet(call, ok)
  <1>1. \A call \in Performed : \A ok : Quiet(call, ok) => Silent
    BY Zenon
  <1>2. Silent => last'.call \notin {"process_sysex", "notify"}
    BY DEF Quiet
  <1>3. /\ "set" \in Performed /\ "new_muid" \in Performed /\ "reset" \in Performed /\ "add_profile" \in Performed
        /\ "remove_profile" \in Performed /\ "add_property" \in Performed /\ "remove_property" \in Performed
        /\ "pe_set_subscribable" \in Performed
    OBVIOUS
  <1> HIDE DEF Silent, Performed
  <1>4. CASE \/ \E o \in Options : SetOption(o[1], o[2])
             \/ NewMuid \/ ResetProfiles \/ ResetProperties
             \/ \E id \in ProfileIds : AddProfile(id) \/ RemoveProfile(id)
    BY <1>1, <1>2, <1>3, <1>4, Zenon
    DEF SetOption, NewMuid, ResetProfiles, ResetProperties, AddProfile, RemoveProfile
  <1>5. ASSUME NEW n \in Names,
               \/ \E g \in {"static", "dynamic"}, w \in BOOLEAN : AddProperty(n, g, w)
               \/ RemoveProperty(n)
               \/ \E v \in BOOLEAN : SetSubscribable(n, v)
        PROVE  last'.call \notin {"process_sysex", "notify"}
    BY <1>1, <1>2, <1>3, <1>5, Zenon DEF AddProperty, RemoveProperty, SetSubscribable
  <1>6. ASSUME NEW n \in Names, NEW c \in Callers, SubscribeAdd(c, n) \/ SubscribeRemove(c, n)
        PROVE  last'.call \notin {"process_sysex", "notify"}
    <2>1. \E ok : \/ last' = [call |-> "subscribe_add", ok |-> ok]
                  \/ last' = [call |-> "subscribe_remove", ok |-> ok]
      BY <1>6, Zenon DEF SubscribeAdd, SubscribeRemove
    <2> QED
      BY <2>1
  <1>7. ASSUME NEW n \in Names, Notify(n) PROVE last'.call = "notify"
    <2>1. \E ok : last' = [call |-> "notify", ok |-> ok, name |-> n]
      BY <1>7, Zenon DEF Notify
    <2> QED
      BY <2>1
  <1>8. ASSUME NEW m \in Messages, ProcessSysex(m) PROVE last'.call = "process_sysex"
    <2>1. \E ok : last' = [call |-> "process_sysex", ok |-> ok, msg |-> m]
      BY <1>8, Zenon DEF ProcessSysex
    <2> QED
      BY <2>1
  <1> QED
    BY <1>4, <1>5, <1>6, <1>7, <1>8, Zenon DEF Next

(* How ProcessSysex comes to what it sends: the frames of the collision    *)
(* first, then a Discovery if the message takes our MUID away, else the    *)
(* reply of the handler.                                                   *)
Collided(m, new, first) ==
  \/ Collides(ci, m) /\ new \in NewMuids(ci) /\ first = CollisionFrames(ci, new)
  \/ ~ Collides(ci, m) /\ new = ci.muid /\ first = <<>>

LEMMA HowItAnswers ==
  ASSUME TypeInv, NEW m, ProcessSysex(m)
  PROVE  \E said, new, first :
           /\ said \in BOOLEAN /\ new \in Muids
           /\ Collided(m, new, first)
           /\ last'.call = "process_sysex" /\ last'.msg = m
           /\ \/ /\ Invalidated([ci EXCEPT !.muid = new], m)
                 /\ \E newer \in Muids :
                      /\ ci' = [ci EXCEPT !.muid = newer]
                      /\ sent' = Written(Append(first, Discovery(newer)))
              \/ /\ ~ Invalidated([ci EXCEPT !.muid = new], m)
                 /\ ci' = [ci EXCEPT !.muid = new]
                 /\ sent' = Written(first \o Reply([ci EXCEPT !.muid = new], m, said))
  <1>1. ci \in State /\ ci.muid \in Muids
    BY DEF TypeInv, State
  <1> DEFINE c(new) == [ci EXCEPT !.muid = new]
             f(new) == IF Collides(ci, m) THEN CollisionFrames(ci, new) ELSE <<>>
  <1>2. PICK said \in BOOLEAN, new \in IF Collides(ci, m) THEN NewMuids(ci) ELSE {ci.muid} :
          /\ IF Invalidated(c(new), m)
             THEN \E newer \in NewMuids(c(new)) :
                    /\ ci' = [c(new) EXCEPT !.muid = newer]
                    /\ sent' = Written(Append(f(new), Discovery(newer)))
             ELSE /\ ci' = c(new)
                  /\ sent' = Written(f(new) \o Reply(c(new), m, said))
          /\ last' = [call |-> "process_sysex", ok |-> Handled(c(new), m), msg |-> m]
    BY Zenon DEF ProcessSysex
  <1>3. new \in Muids
    BY <1>1, NewMuidsAreMuids
  <1>4. Collided(m, new, f(new))
    BY DEF Collided
  <1>5. last'.call = "process_sysex" /\ last'.msg = m
    BY <1>2
  <1>6. ASSUME NEW newer \in NewMuids(c(new))
        PROVE  newer \in Muids /\ [c(new) EXCEPT !.muid = newer] = [ci EXCEPT !.muid = newer]
    <2>1. c(new).muid \in Muids /\ [c(new) EXCEPT !.muid = newer] = [ci EXCEPT !.muid = newer]
      BY <1>1, <1>3 DEF State
    <2> HIDE DEF c
    <2> QED
      BY <2>1, NewMuidsAreMuids
  <1> HIDE DEF f, c
  <1>7. CASE Invalidated(c(new), m)
    <2>1. PICK newer \in NewMuids(c(new)) :
             /\ ci' = [c(new) EXCEPT !.muid = newer]
             /\ sent' = Written(Append(f(new), Discovery(newer)))
      BY <1>2, <1>7
    <2>2. newer \in Muids /\ ci' = [ci EXCEPT !.muid = newer]
      BY <1>6, <2>1
    <2> QED
      BY <1>3, <1>4, <1>5, <1>7, <2>1, <2>2, Zenon DEF c
  <1>8. CASE ~ Invalidated(c(new), m)
    <2>1. ci' = c(new) /\ sent' = Written(f(new) \o Reply(c(new), m, said))
      BY <1>2, <1>8
    <2> QED
      BY <1>3, <1>4, <1>5, <1>8, <2>1, Zenon DEF c
  <1> QED
    BY <1>7, <1>8

(* The frames that announce a new MUID, and those that answer.             *)
Heralds(new) == {Frame("invalidate_muid", new, MuidSpace - 1, Wire(ci.muid)), Discovery(new)}

AnswerSubs ==
  {"discovery_reply", "profile_inquiry_reply", "profile_enabled", "nak", "pe_capability_reply",
   "pe_get_reply", "pe_set_reply", "pi_capability_reply", "pi_midi_report_reply",
   "pi_midi_report_end"}

AnswerArgs(m) ==
  {"none", m.sub, m.profile} \union Seq(ProfileIds) \union ({200, 400, 404} \X {m.resource})

Answers(muid, m) ==
  {Frame(sub, muid, dst, arg) :
     sub \in AnswerSubs, dst \in {m.src, MuidSpace - 1}, arg \in AnswerArgs(m)}

LEMMA HeraldsAnnounce ==
  ASSUME NEW new, NEW f \in Heralds(new)
  PROVE  f.sub \in Announcements
  BY DEF Heralds, Discovery, Frame, Announcements

LEMMA AnswersCarryMuid ==
  ASSUME NEW muid, NEW m, NEW f \in Answers(muid, m)
  PROVE  /\ f.sub \notin Announcements
         /\ f.src = Wire(muid) /\ f.dst \in {m.src, MuidSpace - 1}
  BY DEF Answers, AnswerSubs, Frame, Announcements

LEMMA CollisionIsAnnounced ==
  ASSUME NEW m, NEW new, NEW first, Collided(m, new, first)
  PROVE  first \in Seq(Heralds(new))
  <1>1. <<>> \in Seq(Heralds(new))
    BY EmptySeq
  <1> DEFINE a == Frame("invalidate_muid", new, MuidSpace - 1, Wire(ci.muid))
             b == Discovery(new)
  <1>2. a \in Heralds(new) /\ b \in Heralds(new)
    BY DEF Heralds
  <1>3. first = <<>> \/ first = <<a>> \/ first = <<a, b>>
    BY DEF Collided, CollisionFrames
  <1> HIDE DEF a, b
  <1>4. <<a>> \in Seq(Heralds(new)) /\ <<a, b>> \in Seq(Heralds(new))
    BY <1>2
  <1> QED
    BY <1>1, <1>3, <1>4

(* A handler sends nothing but answers, and an inquiry that is long enough *)
(* gets one, unless it is for more profiles than the reply has room for: a *)
(* Get gets the value of what it asked for, or its status.                 *)
LEMMA Answered ==
  ASSUME NEW c, c.profiles \in Seq(ProfileIds), NEW m, NEW said \in BOOLEAN
  PROVE  /\ Reply(c, m, said) \in Seq(Answers(c.muid, m))
         /\ m.sub \in Inquiries /\ ~ m.short /\ ~ Overruns(c, m) => Reply(c, m, said) # <<>>
         /\ m.sub = "pe_get" /\ ~ m.short =>
              \E arg : /\ Reply(c, m, said) = <<To(c, m, "pe_get_reply", arg)>>
                       /\ arg[2] = m.resource
  <1> DEFINE S == Answers(c.muid, m)
             Good(r) == r \in Seq(S) /\ r # <<>>
             everyone == MuidSpace - 1
  <1>1. \A sub \in AnswerSubs, dst \in {m.src, everyone}, arg \in AnswerArgs(m) :
          Frame(sub, c.muid, dst, arg) \in S
    BY DEF Answers
  <1>2. /\ \A sub \in AnswerSubs, arg \in AnswerArgs(m) : To(c, m, sub, arg) \in S
        /\ \A arg \in AnswerArgs(m) : Frame("profile_enabled", c.muid, everyone, arg) \in S
    <2>1. m.src \in {m.src, everyone} /\ everyone \in {m.src, everyone}
          /\ "profile_enabled" \in AnswerSubs
      BY DEF AnswerSubs
    <2> QED
      BY <1>1, <2>1, Zenon DEF To
  <1> HIDE DEF S
  <1>3. <<>> \in Seq(S) /\ \A a \in S : Good(<<a>>)
    BY EmptySeq
  <1>4. \A a \in S, b \in S : Good(<<a, b>>)
    OBVIOUS
  <1>5. /\ "none" \in AnswerArgs(m) /\ m.sub \in AnswerArgs(m) /\ m.profile \in AnswerArgs(m)
        /\ c.profiles \in AnswerArgs(m)
        /\ \A status \in {200, 400, 404} : <<status, m.resource>> \in AnswerArgs(m)
    BY DEF AnswerArgs
  <1>6. \A sub \in AnswerSubs, arg \in AnswerArgs(m) : Good(<<To(c, m, sub, arg)>>)
    <2> HIDE DEF Good
    <2> QED
      BY <1>2, <1>3
  <1>7. /\ "discovery_reply" \in AnswerSubs /\ "profile_inquiry_reply" \in AnswerSubs
        /\ "nak" \in AnswerSubs /\ "pe_capability_reply" \in AnswerSubs
        /\ "pe_get_reply" \in AnswerSubs /\ "pe_set_reply" \in AnswerSubs
        /\ "pi_capability_reply" \in AnswerSubs /\ "pi_midi_report_reply" \in AnswerSubs
        /\ "pi_midi_report_end" \in AnswerSubs
    BY DEF AnswerSubs
  <1>8. Good(<<Nak(c, m)>>)
    <2> HIDE DEF Good
    <2> QED
      BY <1>5, <1>6, <1>7, Zenon DEF Nak
  <1>9. Good(<<To(c, m, "discovery_reply", "none")>>)
        /\ Good(<<To(c, m, "profile_inquiry_reply", c.profiles)>>)
        /\ Good(PeCapabilityReply(c, m)) /\ Good(<<To(c, m, "pi_capability_reply", "none")>>)
    <2> HIDE DEF Good
    <2> QED
      BY <1>5, <1>6, <1>7, ZenonT(60) DEF PeCapabilityReply
  <1> DEFINE listed == ProfileInquiryReply(c, m, said)
  <1>19. listed \in Seq(S) /\ (~ Overruns(c, m) => Good(listed))
    BY <1>3, <1>9 DEF ProfileInquiryReply
  <1>10. DiscoveryReply(c, m) \in Seq(S)
    BY <1>3, <1>9 DEF DiscoveryReply
  <1>11. IF m.short THEN SetProfileReply(c, m) = <<>> ELSE Good(SetProfileReply(c, m))
    <2>1. Good(<<Frame("profile_enabled", c.muid, MuidSpace - 1, m.profile)>>)
      <3>1. Frame("profile_enabled", c.muid, MuidSpace - 1, m.profile) \in S
        BY <1>2, <1>5
      <3> HIDE DEF Good
      <3> QED
        BY <1>3, <3>1
    <2> HIDE DEF Good
    <2> QED
      BY <1>8, <2>1, Zenon DEF SetProfileReply
  <1>12. IF m.short THEN MidiReportReply(c, m) = <<>> ELSE Good(MidiReportReply(c, m))
    <2>1. To(c, m, "pi_midi_report_reply", "none") \in S /\ To(c, m, "pi_midi_report_end", "none") \in S
      BY <1>2, <1>5, <1>7
    <2> HIDE DEF Good
    <2>2. Good(<<To(c, m, "pi_midi_report_reply", "none"), To(c, m, "pi_midi_report_end", "none")>>)
      BY <1>4, <2>1
    <2> QED
      BY <1>8, <2>2, Zenon DEF MidiReportReply
  <1> DEFINE get == <<To(c, m, "pe_get_reply", <<GetStatus(c, m, said), m.resource>>)>>
             set == <<To(c, m, "pe_set_reply", <<SetStatus(c, m, said), m.resource>>)>>
  <1>13. Good(get) /\ Good(set)
    <2>1. GetStatus(c, m, said) \in {200, 400, 404} /\ SetStatus(c, m, said) \in {200, 400, 404}
      BY DEF GetStatus, SetStatus
    <2> HIDE DEF Good
    <2> QED
      BY <1>5, <1>6, <1>7, <2>1
  <1>14. PeReply(c, m, said) = IF m.short THEN <<>> ELSE IF m.sub = "pe_get" THEN get ELSE set
    BY DEF PeReply
  <1> HIDE DEF get, set
  <1>15. IF m.short THEN PeReply(c, m, said) = <<>> ELSE Good(PeReply(c, m, said))
    <2> HIDE DEF Good
    <2> QED
      BY <1>13, <1>14
  <1>16. Reply(c, m, said) \in Seq(S)
    BY <1>3, <1>8, <1>9, <1>10, <1>11, <1>12, <1>15, <1>19 DEF Reply
  <1>17. ASSUME m.sub \in Inquiries, ~ m.short, ~ Overruns(c, m) PROVE Good(Reply(c, m, said))
    <2> HIDE DEF Good
    <2> QED
      BY <1>9, <1>11, <1>12, <1>15, <1>17, <1>19 DEF Reply, Inquiries
  <1>18. ASSUME m.sub = "pe_get", ~ m.short
         PROVE  \E arg : /\ Reply(c, m, said) = <<To(c, m, "pe_get_reply", arg)>>
                         /\ arg[2] = m.resource
    <2>1. Reply(c, m, said) = get
      BY <1>14, <1>18 DEF Reply
    <2> DEFINE a == <<GetStatus(c, m, said), m.resource>>
    <2>2. a[2] = m.resource /\ get = <<To(c, m, "pe_get_reply", a)>>
      BY DEF get
    <2> QED
      BY <2>1, <2>2, Zenon
  <1> QED
    BY <1>16, <1>17, <1>18 DEF S

(* What follows the announcements of a collision is the reply.             *)
LEMMA InThatOrder ==
  ASSUME NEW U, NEW V, NEW u \in Seq(U), NEW v \in Seq(V)
  PROVE  /\ Len(u \o v) = Len(u) + Len(v) /\ Len(u) \in Nat /\ Len(v) \in Nat
         /\ \A i \in 1 .. Len(u \o v) : (u \o v)[i] \in U \/ (u \o v)[i] \in V
         /\ \A i \in 1 .. Len(u) : (u \o v)[i] = u[i]
         /\ \A i \in 1 .. Len(v) : (u \o v)[Len(u) + i] = v[i]
  <1> DEFINE W == U \union V
  <1>1. u \in Seq(W) /\ v \in Seq(W) /\ Len(u) \in Nat /\ Len(v) \in Nat
    BY LenProperties
  <1>2. /\ Len(u \o v) = Len(u) + Len(v)
        /\ \A i \in 1 .. Len(u) + Len(v) : (u \o v)[i] = IF i <= Len(u) THEN u[i] ELSE v[i - Len(u)]
    <2> HIDE DEF W
    <2> QED
      BY <1>1, ConcatProperties
  <1> DEFINE w == u \o v
  <1> HIDE DEF w, W
  <1>3. ASSUME NEW i \in 1 .. Len(w) PROVE w[i] \in U \/ w[i] \in V
    <2>1. CASE i <= Len(u)
      <3>1. i \in 1 .. Len(u) /\ w[i] = u[i]
        BY <1>1, <1>2, <2>1 DEF w
      <3> QED
        BY <3>1, ElementOfSeq
    <2>2. CASE ~ (i <= Len(u))
      <3>1. i - Len(u) \in 1 .. Len(v) /\ w[i] = v[i - Len(u)]
        BY <1>1, <1>2, <2>2 DEF w
      <3> QED
        BY <3>1, ElementOfSeq
    <2> QED
      BY <2>1, <2>2
  <1>4. ASSUME NEW i \in 1 .. Len(u) PROVE w[i] = u[i]
    BY <1>1, <1>2 DEF w
  <1>5. ASSUME NEW i \in 1 .. Len(v) PROVE w[Len(u) + i] = v[i]
    <2>1. Len(u) + i \in 1 .. Len(u) + Len(v) /\ ~ (Len(u) + i <= Len(u)) /\ (Len(u) + i) - Len(u) = i
      BY <1>1
    <2> QED
      BY <1>2, <2>1 DEF w
  <1> QED
    BY <1>1, <1>2, <1>3, <1>4, <1>5 DEF w

(* The frames of a call, as what they are: announcements, then answers     *)
(* under the MUID in force when the call returns.                          *)
LEMMA FramesOfACall ==
  ASSUME TypeInv, NEW m, ProcessSysex(m)
  PROVE  /\ last'.call = "process_sysex" /\ last'.msg = m /\ ci'.write_fn = ci.write_fn
         /\ \A i \in 1 .. Len(sent') : \/ sent'[i].sub \in Announcements
                                       \/ sent'[i] \in Answers(ci'.muid, m)
         /\ ci.write_fn /\ m.sub \in Inquiries /\ ~ m.short /\ ~ Overruns(ci', m) =>
              \E i \in 1 .. Len(sent') : sent'[i] \in Answers(ci'.muid, m)
         /\ ci.write_fn /\ m.sub = "pe_get" /\ ~ m.short =>
              \A i \in 1 .. Len(sent') : sent'[i].sub \notin Announcements =>
                /\ sent'[i].sub = "pe_get_reply" /\ sent'[i].arg[2] = m.resource
         /\ ci.write_fn /\ ci.auto_invalidate_on_collision /\ ci'.muid # ci.muid =>
              \E i \in 1 .. Len(sent') : sent'[i] = Discovery(ci'.muid)
  <1>1. ci \in State
    BY DEF TypeInv
  <1>2. PICK said, new, first :
           /\ said \in BOOLEAN /\ new \in Muids
           /\ Collided(m, new, first)
           /\ last'.call = "process_sysex" /\ last'.msg = m
           /\ \/ /\ Invalidated([ci EXCEPT !.muid = new], m)
                 /\ \E newer \in Muids :
                      /\ ci' = [ci EXCEPT !.muid = newer]
                      /\ sent' = Written(Append(first, Discovery(newer)))
              \/ /\ ~ Invalidated([ci EXCEPT !.muid = new], m)
                 /\ ci' = [ci EXCEPT !.muid = new]
                 /\ sent' = Written(first \o Reply([ci EXCEPT !.muid = new], m, said))
    BY HowItAnswers
  <1>3. /\ said \in BOOLEAN
        /\ first \in Seq(Heralds(new)) /\ \A f \in Heralds(new) : f.sub \in Announcements
    BY <1>2, CollisionIsAnnounced, HeraldsAnnounce
  <1>4. \A i \in 1 .. Len(<<>>) : FALSE
    BY EmptySeq
  <1>5. CASE /\ Invalidated([ci EXCEPT !.muid = new], m)
             /\ \E newer \in Muids :
                  /\ ci' = [ci EXCEPT !.muid = newer]
                  /\ sent' = Written(Append(first, Discovery(newer)))
    <2>1. PICK newer \in Muids : /\ ci' = [ci EXCEPT !.muid = newer]
                                 /\ sent' = Written(Append(first, Discovery(newer)))
      BY <1>5
    <2>2. ci'.muid = newer /\ ci'.write_fn = ci.write_fn
      BY <1>1, <2>1 DEF State
    <2>3. m.sub = "invalidate_muid"
      BY <1>5 DEF Invalidated
    <2>4. m.sub \notin Inquiries /\ m.sub # "pe_get"
      BY <2>3 DEF Inquiries
    <2> DEFINE d == Discovery(newer)
               w == Append(first, d)
    <2>5. d \in Heralds(newer) /\ d.sub \in Announcements
      BY HeraldsAnnounce DEF Heralds
    <2> HIDE DEF d
    <2>6. w = first \o <<d>> /\ <<d>> \in Seq({d}) /\ Len(<<d>>) = 1 /\ <<d>>[1] = d
      BY <1>3, AppendIsConcat
    <2> HIDE DEF w
    <2>7. /\ Len(w) = Len(first) + 1 /\ Len(first) \in Nat
          /\ \A i \in 1 .. Len(w) : w[i] \in Heralds(new) \/ w[i] \in {d}
          /\ w[Len(first) + 1] = d
      <3>1. 1 \in 1 .. Len(<<d>>)
        BY <2>6
      <3> QED
        BY <1>3, <2>6, <3>1, InThatOrder
    <2>8. Len(first) + 1 \in 1 .. Len(w)
      BY <2>7
    <2>9. \A i \in 1 .. Len(w) : w[i].sub \in Announcements
      BY <1>3, <2>5, <2>7
    <2>10. sent' = IF ci.write_fn THEN w ELSE <<>>
      BY <2>1 DEF Written, w, d
    <2>11. \A i \in 1 .. Len(sent') : sent'[i].sub \in Announcements
      BY <1>4, <2>9, <2>10
    <2>12. ci.write_fn => \E i \in 1 .. Len(sent') : sent'[i] = Discovery(ci'.muid)
      BY <2>2, <2>7, <2>8, <2>10 DEF d
    <2> QED
      BY <1>2, <2>2, <2>4, <2>11, <2>12
  <1>6. CASE /\ ~ Invalidated([ci EXCEPT !.muid = new], m)
             /\ ci' = [ci EXCEPT !.muid = new]
             /\ sent' = Written(first \o Reply([ci EXCEPT !.muid = new], m, said))
    <2> DEFINE c == [ci EXCEPT !.muid = new]
               r == Reply(c, m, said)
               w == first \o r
               A == Answers(new, m)
    <2>1. c.muid = new /\ c.profiles \in Seq(ProfileIds) /\ c.write_fn = ci.write_fn /\ ci' = c
      BY <1>1, <1>6 DEF State
    <2> HIDE DEF c
    <2>2. /\ r \in Seq(A)
          /\ m.sub \in Inquiries /\ ~ m.short /\ ~ Overruns(c, m) => r # <<>>
          /\ m.sub = "pe_get" /\ ~ m.short =>
               \E arg : r = <<To(c, m, "pe_get_reply", arg)>> /\ arg[2] = m.resource
      BY <1>3, <2>1, Answered
    <2>3. sent' = IF ci.write_fn THEN w ELSE <<>>
      BY <1>6 DEF Written, c
    <2> HIDE DEF r, A
    <2>4. /\ Len(w) = Len(first) + Len(r) /\ Len(first) \in Nat /\ Len(r) \in Nat
          /\ \A i \in 1 .. Len(w) : w[i] \in Heralds(new) \/ w[i] \in A
          /\ \A i \in 1 .. Len(first) : w[i] = first[i]
          /\ \A i \in 1 .. Len(r) : w[Len(first) + i] = r[i]
      BY <1>3, <2>2, InThatOrder
    <2> HIDE DEF w
    <2>5. \A i \in 1 .. Len(sent') : sent'[i].sub \in Announcements \/ sent'[i] \in A
      BY <1>3, <1>4, <2>3, <2>4
    <2>6. ASSUME ci.write_fn, m.sub \in Inquiries, ~ m.short, ~ Overruns(c, m)
          PROVE  \E i \in 1 .. Len(sent') : sent'[i] \in A
      <3>1. r # <<>>
        BY <2>2, <2>6
      <3>2. Len(r) # 0 /\ 1 \in 1 .. Len(r)
        BY <2>2, <2>4, <3>1, EmptySeq
      <3>3. r[1] \in A
        BY <2>2, <3>2, ElementOfSeq
      <3>4. w[Len(first) + 1] = r[1]
        BY <2>4, <3>2
      <3>5. Len(first) + 1 \in 1 .. Len(w)
        BY <2>4, <3>2
      <3> QED
        BY <2>3, <2>6, <3>3, <3>4, <3>5
    <2>7. ASSUME ci.write_fn, m.sub = "pe_get", ~ m.short, NEW i \in 1 .. Len(sent'),
                 sent'[i].sub \notin Announcements
          PROVE  sent'[i].sub = "pe_get_reply" /\ sent'[i].arg[2] = m.resource
      <3>1. PICK arg : r = <<To(c, m, "pe_get_reply", arg)>> /\ arg[2] = m.resource
        BY <2>2, <2>7
      <3> DEFINE t == To(c, m, "pe_get_reply", arg)
      <3>2. t.sub = "pe_get_reply" /\ t.arg = arg
        BY DEF To, Frame
      <3> HIDE DEF t
      <3>3. r \in Seq({t})
        BY <3>1 DEF t
      <3>4. \A k \in 1 .. Len(w) : w[k] \in Heralds(new) \/ w[k] \in {t}
        BY <1>3, <3>3, InThatOrder DEF w
      <3>5. sent' = w
        BY <2>3, <2>7
      <3>6. w[i] = t
        BY <1>3, <2>7, <3>4, <3>5
      <3> QED
        BY <3>1, <3>2, <3>5, <3>6
    <2>8. ASSUME ci.write_fn, ci.auto_invalidate_on_collision, ci'.muid # ci.muid
          PROVE  \E i \in 1 .. Len(sent') : sent'[i] = Discovery(ci'.muid)
      <3>1. Collides(ci, m) /\ first = CollisionFrames(ci, new)
        BY <1>2, <2>1, <2>8 DEF Collided
      <3> DEFINE f == Frame("invalidate_muid", new, MuidSpace - 1, Wire(ci.muid))
                 d == Discovery(new)
      <3>2. first = <<f, d>>
        BY <2>8, <3>1 DEF CollisionFrames
      <3> HIDE DEF f, d
      <3>3. Len(first) = 2 /\ first[2] = d
        BY <3>2
      <3>4. 2 \in 1 .. Len(w) /\ w[2] = d
        BY <2>4, <3>3
      <3> QED
        BY <2>1, <2>3, <2>8, <3>4 DEF d
    <2> QED
      BY <1>2, <2>1, <2>5, <2>6, <2>7, <2>8 DEF A
  <1> QED
    BY <1>2, <1>5, <1>6

LEMMA NotYetCalled == Init => last.call # "process_sysex"
  <1> SUFFICES ASSUME Init PROVE last.call # "process_sysex"
    OBVIOUS
  <1>1. last = [call |-> "init", ok |-> TRUE]
    BY DEF Init
  <1> QED
    BY <1>1

(* Every answer goes out under the MUID in force when the call returns,    *)
(* though the very message it answers may have changed that MUID, and goes *)
(* to who asked or to all.                                                 *)
THEOREM RepliesUnderOurMuid == Spec => []RepliesCarryMuid
  <1>1. Init => RepliesCarryMuid
    BY NotYetCalled DEF RepliesCarryMuid
  <1>2. Inv /\ RepliesCarryMuid /\ [Next]_vars => RepliesCarryMuid'
    <2> SUFFICES ASSUME Inv, RepliesCarryMuid, [Next]_vars PROVE RepliesCarryMuid'
      OBVIOUS
    <2>1. TypeInv
      BY DEF Inv
    <2>2. ASSUME NEW m \in Messages, ProcessSysex(m) PROVE RepliesCarryMuid'
      <3>1. /\ last'.msg = m
            /\ \A i \in 1 .. Len(sent') : \/ sent'[i].sub \in Announcements
                                          \/ sent'[i] \in Answers(ci'.muid, m)
        BY <2>1, <2>2, FramesOfACall
      <3>2. ASSUME NEW i \in 1 .. Len(sent'), sent'[i].sub \notin Announcements
            PROVE  sent'[i].src = Wire(ci'.muid) /\ sent'[i].dst \in {m.src, MuidSpace - 1}
        BY <3>1, <3>2, AnswersCarryMuid
      <3> QED
        BY <3>1, <3>2 DEF RepliesCarryMuid
    <2>3. CASE UNCHANGED vars
      BY <2>3 DEF vars, RepliesCarryMuid
    <2>4. CASE last'.call # "process_sysex"
      BY <2>4 DEF RepliesCarryMuid
    <2> QED
      BY <2>2, <2>3, <2>4, CallsSayWhichTheyAre
  <1> QED
    BY <1>1, <1>2, Invariant, PTL DEF Spec

(* Every inquiry long enough to be read is answered, but for a Profile     *)
(* Inquiry when more profiles are registered than its reply has room for,  *)
(* and a Get by a Get Reply about the resource it asked for.               *)
THEOREM EveryInquiryIsAnswered == Spec => []InquiriesAnswered
  <1>1. Init => InquiriesAnswered
    BY NotYetCalled DEF InquiriesAnswered
  <1>2. Inv /\ InquiriesAnswered /\ [Next]_vars => InquiriesAnswered'
    <2> SUFFICES ASSUME Inv, InquiriesAnswered, [Next]_vars PROVE InquiriesAnswered'
      OBVIOUS
    <2>1. TypeInv
      BY DEF Inv
    <2>2. ASSUME NEW m \in Messages, ProcessSysex(m), ci'.write_fn PROVE InquiriesAnswered'
      <3>1. /\ last'.msg = m /\ ci.write_fn
            /\ m.sub \in Inquiries /\ ~ m.short /\ ~ Overruns(ci', m) =>
                 \E i \in 1 .. Len(sent') : sent'[i] \in Answers(ci'.muid, m)
            /\ m.sub = "pe_get" /\ ~ m.short =>
                 \A i \in 1 .. Len(sent') : sent'[i].sub \notin Announcements =>
                   /\ sent'[i].sub = "pe_get_reply" /\ sent'[i].arg[2] = m.resource
        BY <2>1, <2>2, FramesOfACall
      <3>2. ASSUME m.sub \in Inquiries, ~ m.short, ~ Overruns(ci', m)
            PROVE  \E i \in 1 .. Len(sent') : sent'[i].sub \notin Announcements
        BY <3>1, <3>2, AnswersCarryMuid
      <3> QED
        BY <3>1, <3>2 DEF InquiriesAnswered
    <2>3. CASE UNCHANGED vars
      BY <2>3 DEF vars, InquiriesAnswered
    <2>4. CASE last'.call # "process_sysex" \/ ~ ci'.write_fn
      BY <2>4 DEF InquiriesAnswered
    <2> QED
      BY <2>2, <2>3, <2>4, CallsSayWhichTheyAre
  <1> QED
    BY <1>1, <1>2, Invariant, PTL DEF Spec

(* Unless the application turns auto_invalidate_on_collision off, no MUID  *)
(* changes under the initiator's feet in silence: the call that changes it *)
(* announces the new one with a Discovery.                                 *)
THEOREM NoSilentRegeneration ==
  ASSUME <<"auto_invalidate_on_collision", FALSE>> \notin Options
  PROVE  Spec => NewMuidAnnounced
  <1> DEFINE Enabled == ci.auto_invalidate_on_collision = TRUE
             A == last'.call = "process_sysex" /\ ci.write_fn /\ ci'.muid # ci.muid =>
                    \E i \in 1 .. Len(sent') : /\ sent'[i].sub = "discovery"
                                               /\ sent'[i].src = Wire(ci'.muid)
  <1>1. Init => Enabled
    <2> SUFFICES ASSUME Init PROVE Enabled
      OBVIOUS
    <2>1. PICK seed \in Seeds :
            ci = [rng |-> FALSE, write_fn |-> FALSE, nak_on_unknown |-> FALSE,
                  auto_invalidate_on_collision |-> TRUE, identity |-> FALSE,
                  muid |-> seed, profiles |-> <<>>, properties |-> <<>>,
                  subscribers |-> [i \in Slots |-> FreeSlot], subscriber_count |-> 0]
      BY DEF Init
    <2> QED
      BY <2>1
  <1>2. Inv /\ Enabled /\ [Next]_vars => Enabled'
    <2> SUFFICES ASSUME Inv, Enabled, [Next]_vars PROVE Enabled'
      OBVIOUS
    <2>1. TypeInv /\ ci \in State
      BY DEF Inv, TypeInv
    <2>2. ASSUME NEW o \in Options, SetOption(o[1], o[2]) PROVE Enabled'
      <3>1. o \in {"rng", "write_fn", "nak_on_unknown", "auto_invalidate_on_collision", "identity"} \X BOOLEAN
        BY CiAssumption
      <3>2. PICK f, v : o = <<f, v>> /\ v \in BOOLEAN
        BY <3>1
      <3>3. ci' = [ci EXCEPT ![f] = v]
        BY <2>2, <3>2 DEF SetOption
      <3>4. CASE f = "auto_invalidate_on_collision"
        <4>1. v = TRUE
          BY <3>2, <3>4
        <4> QED
          BY <2>1, <3>3, <3>4, <4>1 DEF State
      <3>5. CASE f # "auto_invalidate_on_collision"
        BY <2>1, <3>3, <3>5 DEF State
      <3> QED
        BY <3>4, <3>5
    <2>3. ASSUME NEW m, ProcessSysex(m) PROVE Enabled'
      <3>1. PICK muid : ci' = [ci EXCEPT !.muid = muid]
        BY <2>1, <2>3, MuidAlone
      <3> QED
        BY <2>1, <3>1 DEF State
    <2>4. CASE NewMuid \/ ResetProfiles \/ ResetProperties
      <3>1. \/ \E x : ci' = [ci EXCEPT !.muid = x]
            \/ \E x : ci' = [ci EXCEPT !.profiles = x]
            \/ \E x : ci' = [ci EXCEPT !.properties = x]
        BY <2>4, Zenon DEF NewMuid, ResetProfiles, ResetProperties
      <3> QED
        BY <2>1, <3>1 DEF State
    <2>5. ASSUME NEW id \in ProfileIds, AddProfile(id) \/ RemoveProfile(id) PROVE Enabled'
      <3>1. ci' = ci \/ \E x : ci' = [ci EXCEPT !.profiles = x]
        BY <2>5, Zenon DEF AddProfile, RemoveProfile
      <3> QED
        BY <2>1, <3>1 DEF State
    <2>6. ASSUME NEW n \in Names,
                 \/ \E g \in {"static", "dynamic"}, w \in BOOLEAN : AddProperty(n, g, w)
                 \/ RemoveProperty(n)
                 \/ \E v \in BOOLEAN : SetSubscribable(n, v)
          PROVE  Enabled'
      <3>1. ci' = ci \/ \E x : ci' = [ci EXCEPT !.properties = x]
        <4>1. CASE \E g \in {"static", "dynamic"}, w \in BOOLEAN : AddProperty(n, g, w)
          BY <4>1, Zenon DEF AddProperty
        <4>2. CASE RemoveProperty(n)
          BY <4>2, Zenon DEF RemoveProperty
        <4>3. CASE \E v \in BOOLEAN : SetSubscribable(n, v)
          <5>1. PICK v, i : ci' = ci \/ ci' = [ci EXCEPT !.properties[i].subscribable = v]
            BY <4>3, Zenon DEF SetSubscribable
          <5>2. [ci EXCEPT !.properties[i].subscribable = v]
                = [ci EXCEPT !.properties = [ci.properties EXCEPT ![i].subscribable = v]]
            BY <2>1 DEF State
          <5> QED
            BY <5>1, <5>2
        <4> QED
          BY <2>6, <4>1, <4>2, <4>3
      <3> QED
        BY <2>1, <3>1 DEF State
    <2>7. ASSUME NEW n \in Names, NEW c \in Callers, SubscribeAdd(c, n) \/ SubscribeRemove(c, n)
          PROVE  Enabled'
      <3>1. \/ ci' = ci
            \/ \E i, s, k : ci' = [ci EXCEPT !.subscribers[i] = s, !.subscriber_count = k]
        <4>1. CASE SubscribeAdd(c, n)
          BY <4>1, Zenon DEF SubscribeAdd
        <4>2. CASE SubscribeRemove(c, n)
          BY <4>2, Zenon DEF SubscribeRemove
        <4> QED
          BY <2>7, <4>1, <4>2
      <3> QED
        BY <2>1, <3>1 DEF State
    <2>8. CASE (\E n \in Names : Notify(n)) \/ UNCHANGED vars
      BY <2>8 DEF Notify, vars
    <2> QED
      BY <2>2, <2>3, <2>4, <2>5, <2>6, <2>7, <2>8, Zenon DEF Next
  <1>3. Inv /\ Enabled /\ [Next]_vars => [A]_vars
    <2> SUFFICES ASSUME Inv, Enabled, Next PROVE A
      OBVIOUS
    <2>1. ASSUME NEW m \in Messages, ProcessSysex(m) PROVE A
      <3>1. ci.write_fn /\ ci'.muid # ci.muid => \E i \in 1 .. Len(sent') : sent'[i] = Discovery(ci'.muid)
        BY <2>1, FramesOfACall DEF Inv
      <3>2. Discovery(ci'.muid).sub = "discovery" /\ Discovery(ci'.muid).src = Wire(ci'.muid)
        BY DEF Discovery, Frame
      <3> QED
        BY <3>1, <3>2
    <2> QED
      BY <2>1, CallsSayWhichTheyAre
  <1>4. Spec => [][A]_vars
    <2> HIDE DEF Enabled, A
    <2> QED
      BY <1>1, <1>2, <1>3, Invariant, PTL DEF Spec
  <1> QED
    BY <1>4 DEF NewMuidAnnounced

-----------------------------------------------------------------------------
(* Notifications. *)

(* The slots that a notification goes through, in order, and who they tell *)
LEMMA Told ==
  ASSUME Inv, NEW name \in Names, Notify(name), Find(ci.properties, name) # 0, ci.write_fn
  PROVE  LET due == {s \in subscribed : s[2] = name}
         IN  /\ Len(sent') = Cardinality(due)
             /\ {sent'[i].dst : i \in 1 .. Len(sent')} = {s[1] : s \in due}
  <1> DEFINE slots == Subscribers(name)
             due   == {s \in subscribed : s[2] = name}
             K     == Cardinality(slots)
             below(i) == Cardinality({j \in slots : j < i})
             nth   == [n \in 1 .. K |-> CHOOSE i \in slots : below(i) = n - 1]
             frame(n) == Frame("pe_notify", ci.muid, ci.subscribers[nth[n]].caller_muid, name)
             caller(i) == ci.subscribers[i].caller_muid
  <1>1. Registry
    BY DEF Inv
  <1>2. slots \subseteq Slots /\ slots \subseteq Nat /\ slots \subseteq InUse
        /\ \A i \in InUse : i \in slots <=> ci.subscribers[i].name = name
    BY SlotsAreFinite DEF Subscribers, InUse
  <1>3. IsFiniteSet(slots)
    BY <1>2, SlotsAreFinite, FS_Subset
  <1>4. sent' = [n \in DOMAIN nth |-> frame(n)]
    BY DEF Notify, Written
  <1> HIDE DEF slots
  <1>5. /\ K \in Nat
        /\ \A i \in slots : below(i) + 1 \in 1 .. K
        /\ \A n \in 1 .. K : \E i \in slots : below(i) = n - 1
        /\ \A i, k \in slots : below(i) = below(k) => i = k
    BY <1>2, <1>3, Ranks
  <1>6. \A i \in slots : below(i) \in Nat
    <2>1. ASSUME NEW i \in slots PROVE IsFiniteSet({j \in slots : j < i})
      BY <1>3, FS_Subset
    <2> QED
      BY <2>1, FS_CardinalityType
  <1> HIDE DEF below, K
  <1>7. \A n \in 1 .. K : nth[n] \in slots /\ below(nth[n]) = n - 1
    <2>1. ASSUME NEW n \in 1 .. K PROVE nth[n] \in slots /\ below(nth[n]) = n - 1
      <3> DEFINE P(i) == below(i) = n - 1
      <3>1. \E i \in slots : P(i)
        BY <1>5
      <3>2. nth[n] = CHOOSE i \in slots : P(i)
        OBVIOUS
      <3> HIDE DEF P, nth
      <3>3. nth[n] \in slots /\ P(nth[n])
        BY <3>1, <3>2
      <3> QED
        BY <3>3 DEF P
    <2> QED
      BY <2>1
  <1>8. \A i \in slots : nth[below(i) + 1] = i
    <2>1. ASSUME NEW i \in slots PROVE nth[below(i) + 1] = i
      <3>1. below(i) + 1 \in 1 .. K /\ below(i) \in Nat
        BY <1>5, <1>6
      <3>2. (below(i) + 1) - 1 = below(i)
        BY <3>1
      <3> HIDE DEF nth
      <3>3. nth[below(i) + 1] \in slots /\ below(nth[below(i) + 1]) = below(i)
        BY <1>7, <3>1, <3>2
      <3> QED
        BY <1>5, <3>3
    <2> QED
      BY <2>1
  <1>9. DOMAIN nth = 1 .. K
    OBVIOUS
  <1> HIDE DEF nth
  <1>10. sent' = [n \in 1 .. K |-> frame(n)]
    BY <1>4, <1>9
  <1>11. \A n \in 1 .. K : frame(n).dst = caller(nth[n])
    BY DEF Frame
  <1> HIDE DEF frame
  <1>12. Len(sent') = K /\ \A n \in 1 .. K : sent'[n].dst = caller(nth[n])
    BY <1>5, <1>10, <1>11
  (* Each of those slots is the subscription of one caller, and each       *)
  (* subscription of that property is in one of them.                      *)
  <1> DEFINE pair == [i \in slots |-> <<caller(i), ci.subscribers[i].name>>]
  <1>13. \A i \in slots : pair[i] = <<caller(i), name>>
    BY <1>2
  <1>14. pair \in [slots -> due]
    <2>1. ASSUME NEW i \in slots PROVE pair[i] \in due
      <3>1. pair[i] \in subscribed
        BY <1>1, <1>2 DEF Registry
      <3> QED
        BY <1>13, <3>1
    <2> QED
      BY <2>1
  <1>15. \A a, b \in slots : pair[a] = pair[b] => a = b
    BY <1>1, <1>2 DEF Registry
  <1>16. \A s \in due : \E i \in slots : pair[i] = s
    <2>1. ASSUME NEW s \in due PROVE \E i \in slots : pair[i] = s
      <3>1. PICK i \in InUse : s = <<caller(i), ci.subscribers[i].name>>
        BY <1>1 DEF Registry
      <3>2. i \in slots
        BY <1>2, <3>1
      <3> QED
        BY <3>1, <3>2
    <2> QED
      BY <2>1
  <1> HIDE DEF pair, due
  <1>17. Cardinality(due) = K
    BY <1>3, <1>14, <1>15, <1>16, OneToOne DEF K
  <1>18. \A i \in slots : <<caller(i), name>> \in due
    BY <1>13, <1>14
  <1>19. \A s \in due : \E i \in slots : s[1] = caller(i)
    BY <1>13, <1>16
  <1> HIDE DEF caller
  <1>20. \A n \in 1 .. Len(sent') : \E s \in due : s[1] = sent'[n].dst
    BY <1>7, <1>12, <1>18
  <1>21. \A s \in due : \E n \in 1 .. Len(sent') : s[1] = sent'[n].dst
    <2>1. ASSUME NEW s \in due PROVE \E n \in 1 .. Len(sent') : s[1] = sent'[n].dst
      <3>1. PICK i \in slots : s[1] = caller(i)
        BY <1>19
      <3>2. below(i) + 1 \in 1 .. K /\ nth[below(i) + 1] = i
        BY <1>5, <1>8
      <3> QED
        BY <1>12, <3>1, <3>2
    <2> QED
      BY <2>1
  <1>22. {sent'[i].dst : i \in 1 .. Len(sent')} = {s[1] : s \in due}
    BY <1>20, <1>21
  <1> QED
    BY <1>12, <1>17, <1>22 DEF due

(* A change is told to every subscriber of the property and to no other,   *)
(* once each, through any history of the registry.                         *)
THEOREM EverySubscriberIsTold == Spec => []NotifyReachesSubscribers
  <1>1. Init => NotifyReachesSubscribers
    <2> SUFFICES ASSUME Init PROVE NotifyReachesSubscribers
      OBVIOUS
    <2>1. last = [call |-> "init", ok |-> TRUE]
      BY DEF Init
    <2>2. last.call = "init"
      BY <2>1
    <2> QED
      BY <2>2 DEF NotifyReachesSubscribers
  <1>2. Inv /\ NotifyReachesSubscribers /\ [Next]_vars => NotifyReachesSubscribers'
    <2> SUFFICES ASSUME Inv, NotifyReachesSubscribers, [Next]_vars PROVE NotifyReachesSubscribers'
      OBVIOUS
    <2>1. CASE UNCHANGED vars
      BY <2>1, SMTT(30) DEF vars, NotifyReachesSubscribers
    <2>2. CASE last'.call # "notify"
      BY <2>2 DEF NotifyReachesSubscribers
    <2>3. ASSUME NEW n \in Names, Notify(n) PROVE NotifyReachesSubscribers'
      <3> DEFINE known == Find(ci.properties, n) # 0
      <3>1. last' = [call |-> "notify", ok |-> known, name |-> n] /\ ci' = ci /\ subscribed' = subscribed
        BY <2>3 DEF Notify
      <3>2. last'.name = n /\ (last'.ok <=> known)
        <4> HIDE DEF known
        <4> QED
          BY <3>1
      <3>3. CASE known /\ ci.write_fn
        BY <2>3, <3>1, <3>2, <3>3, Told DEF NotifyReachesSubscribers
      <3>4. CASE ~ (known /\ ci.write_fn)
        BY <3>1, <3>2, <3>4 DEF NotifyReachesSubscribers
      <3> QED
        BY <3>3, <3>4
    <2> QED
      BY <2>1, <2>2, <2>3, CallsSayWhichTheyAre
  <1> QED
    BY <1>1, <1>2, Invariant, PTL DEF Spec
-----------------------------------------------------------------------------
(* The typed messages and their dispatcher, CiCodec. *)

(* Every field lies in the first n bytes.                                  *)
Below(fields, n) == \A f \in fields : f.word \in 0 .. n - 1
(* A call of the table: its optional fields and its block's length lie in  *)
(* the bytes that it makes sure of before it reads them.                   *)
Fits(c) ==
  /\ c = [x \in {"sub_id", "name", "min", "fields", "more", "versioned", "extra", "else", "block", "len",
                 "at"} |-> c[x]]
  /\ c.min \in Nat /\ c.min >= 13 /\ c.more \in Nat
  /\ Below(c.fields, c.min) /\ Below(c.extra, c.more)
  /\ Below(c.len, c.min) \/ Below(c.len, c.more)

(* Values that are read from the same bytes are the same.                  *)
LEMMA ValuesAgree ==
  ASSUME NEW mem, NEW mem2, NEW fields, \A f \in fields : mem[f.word] = mem2[f.word]
  PROVE  Values(mem, fields) = Values(mem2, fields)
  <1>1. ASSUME NEW a PROVE Unpacked(fields, mem, a) = Unpacked(fields, mem2, a)
    <2>1. \A f \in Pieces(fields, a) : mem[f.word] = mem2[f.word]
      BY DEF Pieces
    <2> QED
      BY <2>1 DEF Unpacked
  <1> QED
    BY <1>1 DEF Values

(* A number is not negative, whatever bits it is read from.                *)
LEMMA NumType ==
  ASSUME NEW b
  PROVE  Num(b) \in Nat
  BY BitsRead DEF Num

(* In front of its end the memory is the payload.                          *)
LEMMA MemoryInside ==
  ASSUME NEW S, NEW d \in Seq(S), NEW junk, NEW junk2, NEW i \in 0 .. Len(d) - 1
  PROVE  Memory(d, junk)[i] = Memory(d, junk2)[i]
  BY DEF Memory

(* A call's values are the same whatever lies behind the payload, when its *)
(* fields end before it does.                                              *)
LEMMA SameValues ==
  ASSUME NEW S, NEW d \in Seq(S), NEW junk, NEW junk2, NEW fields, NEW n \in Nat, n <= Len(d),
         Below(fields, n)
  PROVE  Values(Memory(d, junk), fields) = Values(Memory(d, junk2), fields)
  <1>1. Len(d) \in Nat
    OBVIOUS
  <1>2. ASSUME NEW f \in fields PROVE f.word \in 0 .. Len(d) - 1
    BY <1>1 DEF Below
  <1>3. \A i \in 0 .. Len(d) - 1 : Memory(d, junk)[i] = Memory(d, junk2)[i]
    BY MemoryInside
  <1> QED
    BY <1>2, <1>3, ValuesAgree

(* The offsets that the readers of one byte, of five, of two and of four   *)
(* look at.                                                                *)
LEMMA ReadersBelow ==
  ASSUME NEW arg, NEW at \in Nat, NEW n \in Nat
  PROVE  /\ at + 1 <= n => Below(Byte(arg, at), n)
         /\ at + 2 <= n => Below(read_14(arg, at), n)
         /\ at + 4 <= n => Below(read_muid(arg, at), n)
         /\ at + 5 <= n => Below(Five(arg, at), n)
  <1>1. at + 1 <= n => Below(Byte(arg, at), n)
    BY DEF Below, Byte, F, Piece
  <1>2. at + 5 <= n => Below(Five(arg, at), n)
    BY DEF Below, Five, Piece
  <1>3. at + 2 <= n => Below(read_14(arg, at), n)
    BY DEF Below, read_14, Read, Piece
  <1>4. at + 4 <= n => Below(read_muid(arg, at), n)
    BY DEF Below, read_muid, Read, Piece
  <1> QED
    BY <1>1, <1>2, <1>3, <1>4

(* How a call of the table is made up.                                     *)
LEMMA CallFits ==
  ASSUME NEW s, NEW name, NEW min \in Nat, min >= 13, NEW fields, Below(fields, min)
  PROVE  /\ Fits(Call(s, name, min, fields))
         /\ Call(s, name, min, fields).min = min
         /\ Call(s, name, min, fields).len = {}
  BY DEF Fits, Below, Call

(* The tail of a Common Rules version 2 message is looked at only when its *)
(* own bytes are there.                                                    *)
LEMMA Tail2Fits ==
  ASSUME NEW c, Fits(c), c.len = {}, NEW more \in Nat, NEW extra, Below(extra, more), NEW else
  PROVE  /\ Fits(Tail2(c, more, extra, else))
         /\ Tail2(c, more, extra, else).more = more
  BY DEF Fits, Below, Tail2

(* ... and so is the length of a block, with either of the two.            *)
LEMMA WithBlockFits ==
  ASSUME NEW c, Fits(c), NEW block, NEW len, Below(len, c.min) \/ Below(len, c.more), NEW at
  PROVE  Fits(WithBlock(c, block, len, at))
  BY DEF Fits, WithBlock

(* The callbacks that report on a MUID, an endpoint or a profile.          *)
LEMMA ReportFits ==
  ASSUME NEW s, NEW name
  PROVE  /\ Fits(ReportCall(s, name))
         /\ Fits([ReportCall(s, name) EXCEPT !.versioned = FALSE])
  <1> DEFINE c == Call(s, name, 13, {})
             t == Tail2(c, 23, ReportFields, NoReport)
             r == WithBlock(t, "msg_text", read_14("n", 21), 23)
  <1>1. Below(ReportFields, 23) /\ Below(read_14("n", 21), 23)
    <2>1. /\ Below(Byte("orig_sub_id", 13), 23) /\ Below(Byte("status_code", 14), 23)
          /\ Below(Byte("status_data", 15), 23) /\ Below(Five("details", 16), 23)
          /\ Below(read_14("n", 21), 23)
      BY ReadersBelow
    <2> QED
      BY <2>1 DEF Below, ReportFields
  <1>2. Fits(c) /\ c.len = {}
    BY CallFits DEF Below
  <1> HIDE DEF c
  <1>3. Fits(t) /\ t.more = 23
    BY <1>1, <1>2, Tail2Fits
  <1> HIDE DEF t
  <1>4. Fits(r)
    BY <1>1, <1>3, WithBlockFits
  <1>5. ReportCall(s, name) = r
    BY DEF c, t, ReportCall
  <1> HIDE DEF r
  <1>6. Fits([r EXCEPT !.versioned = FALSE])
    BY <1>4 DEF Fits
  <1> QED
    BY <1>4, <1>5, <1>6

(* Every case of the management switch checks the bytes that it reads.     *)
LEMMA ManagementFits == \A c \in ManagementCalls : Fits(c)
  <1> DEFINE d == Call(\h70, "on_discovery", 29, DiscoveryFields)
             r == Call(\h71, "on_discovery_reply", 29, DiscoveryFields)
             e == Call(\h73, "on_endpoint_info_reply", 16, Byte("status", 13))
  <1>1. Below(DiscoveryFields, 29)
    <2>1. /\ Below(read_14("family", 16), 29) /\ Below(read_14("model", 18), 29)
          /\ Below(Byte("ci_category", 24), 29) /\ Below(read_muid("max_sysex", 25), 29)
      BY ReadersBelow
    <2>2. Below(Read("sw_rev", 20, <<24, 16, 8, 0>>), 29)
      BY DEF Below, Read, Piece
    <2> QED
      BY <2>1, <2>2 DEF Below, DiscoveryFields, Piece
  <1>2. /\ Below(Byte("output_path_id", 29), 30)
        /\ Below(Byte("output_path_id", 29), 31) /\ Below(Byte("function_block", 30), 31)
        /\ Below(Byte("status", 13), 14) /\ Below(Byte("status", 13), 16)
        /\ Below(read_14("n", 14), 16) /\ Below(read_muid("target_muid", 13), 17)
    BY ReadersBelow
  <1>3. Below(Byte("output_path_id", 29) \union Byte("function_block", 30), 31)
    BY <1>2 DEF Below
  <1>4. Fits(d) /\ d.len = {}
    BY <1>1, CallFits
  <1>5. Fits(r) /\ r.len = {}
    BY <1>1, CallFits
  <1>6. Fits(e) /\ e.min = 16
    BY <1>2, CallFits, SMTT(30)
  <1>7. Fits(Call(\h72, "on_endpoint_info", 14, Byte("status", 13)))
    BY <1>2, CallFits, SMTT(30)
  <1>8. Fits(Call(\h7E, "on_invalidate_muid", 17, read_muid("target_muid", 13)))
    BY <1>2, CallFits, SMTT(30)
  <1> HIDE DEF d, r, e
  <1>9. Fits(Tail2(d, 30, Byte("output_path_id", 29), [output_path_id |-> {}]))
    BY <1>2, <1>4, Tail2Fits
  <1>10. Fits(Tail2(r, 31, Byte("output_path_id", 29) \union Byte("function_block", 30),
                          [output_path_id |-> {}, function_block |-> Bits(\h7F)]))
    BY <1>3, <1>5, Tail2Fits
  <1>11. Fits(WithBlock(e, "info_data", read_14("n", 14), 16))
    BY <1>2, <1>6, WithBlockFits
  <1> QED
    <2>1. /\ Fits(ReportCall(\h7F, "on_nak"))
          /\ Fits([ReportCall(\h7D, "on_ack") EXCEPT !.versioned = FALSE])
      BY ReportFits
    <2> QED
      BY <1>7, <1>8, <1>9, <1>10, <1>11, <2>1, ZenonT(30) DEF d, r, e, ManagementCalls

(* Every case of the Profile Configuration switch does.                    *)
LEMMA ProfileFits == \A c \in ProfileCalls : Fits(c)
  <1> DEFINE p == ProfileId
             t == ProfileId \union Byte("inquiry_target", 18)
             r == Call(\h29, "on_profile_details_reply", 21, t)
             s == Call(\h2F, "on_profile_specific_data", 22, p)
  <1>1. /\ Below(p, 18) /\ Below(p, 19) /\ Below(p, 21) /\ Below(p, 22)
        /\ Below(Byte("inquiry_target", 18), 19) /\ Below(Byte("inquiry_target", 18), 21)
        /\ Below(read_14("num_channels", 18), 20)
        /\ Below(read_14("n", 19), 21) /\ Below(read_muid("n", 18), 22)
    BY ReadersBelow DEF ProfileId
  <1>2. Below(t, 19) /\ Below(t, 21)
    BY <1>1 DEF Below
  <1>3. ASSUME NEW n, NEW name PROVE Fits(PerChannels(n, name))
    <2> DEFINE c == Call(n, name, 18, p)
    <2>1. Fits(c) /\ c.len = {}
      BY <1>1, CallFits
    <2> HIDE DEF c
    <2>2. Fits(Tail2(c, 20, read_14("num_channels", 18), [num_channels |-> {}]))
      BY <1>1, <2>1, Tail2Fits
    <2> QED
      BY <2>2 DEF c, PerChannels
  <1> HIDE DEF p, t
  <1>4. Fits(r) /\ r.min = 21
    BY <1>2, CallFits
  <1>5. Fits(s) /\ s.min = 22
    <2>1. Below(p, 22)
      BY <1>1
    <2> QED
      BY <2>1, CallFits
  <1>6. ASSUME NEW n, NEW name PROVE Fits(Call(n, name, 18, p))
    <2>1. Below(p, 18) /\ 18 \in Nat /\ 18 >= 13
      BY <1>1
    <2> QED
      BY <2>1, CallFits, Zenon
  <1>7. Fits(Call(\h28, "on_profile_details", 19, t))
    BY <1>2, CallFits
  <1>8. Fits(Call(\h20, "on_profile_inquiry", 13, {}))
    BY CallFits DEF Below
  <1> HIDE DEF r, s
  <1>9. /\ Fits(WithBlock(r, "data", read_14("n", 19), 21))
        /\ Fits(WithBlock(s, "data", read_muid("n", 18), 22))
    BY <1>1, <1>4, <1>5, WithBlockFits
  <1> QED
    BY <1>3, <1>6, <1>7, <1>8, <1>9 DEF p, t, r, s, ProfileCalls

(* Every case of the Process Inquiry switch does.                          *)
LEMMA InquiryFits == \A c \in InquiryCalls : Fits(c)
  <1> DEFINE v    == Byte("pe_ver_major", 14) \union Byte("pe_ver_minor", 15)
             ask  == Byte("msg_data_control", 13) \union Byte("system_bitmap", 14)
                     \union Byte("channel_ctrl_bitmap", 16) \union Byte("note_data_bitmap", 17)
             tell == Byte("system_bitmap", 13) \union Byte("channel_ctrl_bitmap", 15)
                     \union Byte("note_data_bitmap", 16)
  <1>1. ASSUME NEW arg, NEW at \in Nat, NEW n \in Nat, at < n PROVE Below(Byte(arg, at), n)
    BY <1>1, ReadersBelow
  <1>2. /\ Below(Byte("max_simultaneous", 13), 14) /\ Below(Byte("supported_features", 13), 14)
        /\ Below(v, 16) /\ Below(ask, 18) /\ Below(tell, 17) /\ Below({}, 13)
    <2>1. /\ Below(Byte("pe_ver_major", 14), 16) /\ Below(Byte("pe_ver_minor", 15), 16)
      BY <1>1
    <2>2. /\ Below(Byte("msg_data_control", 13), 18) /\ Below(Byte("system_bitmap", 14), 18)
          /\ Below(Byte("channel_ctrl_bitmap", 16), 18) /\ Below(Byte("note_data_bitmap", 17), 18)
      BY <1>1
    <2>3. /\ Below(Byte("system_bitmap", 13), 17) /\ Below(Byte("channel_ctrl_bitmap", 15), 17)
          /\ Below(Byte("note_data_bitmap", 16), 17)
      BY <1>1
    <2>4. Below(v, 16) /\ Below(ask, 18) /\ Below(tell, 17) /\ Below({}, 13)
      BY <2>1, <2>2, <2>3 DEF Below
    <2> QED
      BY <1>1, <2>4
  <1>3. ASSUME NEW n, NEW name PROVE Fits(CapabilityCall(n, name))
    <2> DEFINE c == Call(n, name, 14, Byte("max_simultaneous", 13))
    <2>1. Fits(c) /\ c.len = {}
      BY <1>2, CallFits
    <2> HIDE DEF c, v
    <2>2. Fits(Tail2(c, 16, v, [pe_ver_major |-> {}, pe_ver_minor |-> {}]))
      BY <1>2, <2>1, Tail2Fits
    <2> QED
      BY <2>2 DEF c, v, CapabilityCall
  <1> HIDE DEF ask, tell
  <1>4. ASSUME NEW n, NEW name PROVE Fits(Call(n, name, 13, {}))
    <2>1. Below({}, 13) /\ 13 \in Nat /\ 13 >= 13
      BY <1>2
    <2> QED
      BY <2>1, CallFits, ZenonT(30)
  <1>5. Fits(Call(\h41, "on_pi_capability_reply", 14, Byte("supported_features", 13)))
    <2>1. Below(Byte("supported_features", 13), 14) /\ 14 \in Nat /\ 14 >= 13
      BY <1>2
    <2> QED
      BY <2>1, CallFits, Zenon
  <1>6. Fits(Call(\h42, "on_pi_midi_report", 18, ask))
    <2>1. Below(ask, 18) /\ 18 \in Nat /\ 18 >= 13
      BY <1>2
    <2> QED
      BY <2>1, CallFits, ZenonT(30)
  <1>7. Fits(Call(\h43, "on_pi_midi_report_reply", 17, tell))
    <2>1. Below(tell, 17) /\ 17 \in Nat /\ 17 >= 13
      BY <1>2
    <2> QED
      BY <2>1, CallFits, ZenonT(30)
  <1> QED
    BY <1>3, <1>4, <1>5, <1>6, <1>7 DEF ask, tell, InquiryCalls

(* Every case of the dispatcher does.                                      *)
LEMMA TableFits == \A c \in Calls : Fits(c)
  BY ManagementFits, ProfileFits, InquiryFits DEF Calls

-----------------------------------------------------------------------------
(* What a payload is taken for does not depend on what lies behind it.     *)

(* The header, 13 bytes, is read of a payload that has them.               *)
LEMMA HeaderInside ==
  ASSUME NEW S, NEW d \in Seq(S), Len(d) >= 13, NEW junk, NEW junk2
  PROVE  make_hdr(Memory(d, junk)) = make_hdr(Memory(d, junk2))
  <1> DEFINE fields == Byte("device_id", 1) \union Byte("version", 4)
                       \union read_muid("src_muid", 5) \union read_muid("dst_muid", 9)
  <1>1. Below(fields, 13)
    <2>1. /\ Below(Byte("device_id", 1), 13) /\ Below(Byte("version", 4), 13)
          /\ Below(read_muid("src_muid", 5), 13) /\ Below(read_muid("dst_muid", 9), 13)
      BY ReadersBelow
    <2> QED
      BY <2>1 DEF Below
  <1>2. make_hdr(Memory(d, junk)) = Values(Memory(d, junk), fields)
        /\ make_hdr(Memory(d, junk2)) = Values(Memory(d, junk2), fields)
    BY DEF make_hdr
  <1> HIDE DEF fields
  <1> QED
    BY <1>1, <1>2, SameValues

(* A typed callback gets the same from a payload, whatever lies behind it. *)
LEMMA TypedInside ==
  ASSUME NEW S, NEW d \in Seq(S), NEW junk, NEW junk2, NEW c, Fits(c), c.min <= Len(d)
  PROVE  Typed(c, Memory(d, junk), Len(d)) = Typed(c, Memory(d, junk2), Len(d))
  <1> DEFINE M == Memory(d, junk)
             W == Memory(d, junk2)
             full == Len(d) >= c.more /\ (c.versioned => Num(make_hdr(M).version) >= 2)
  <1>1. Len(d) \in Nat /\ Len(d) >= 13 /\ c.min \in Nat /\ c.more \in Nat
    BY DEF Fits
  <1>2. make_hdr(M) = make_hdr(W)
    BY <1>1, HeaderInside
  <1>3. Values(M, c.fields) = Values(W, c.fields)
    BY <1>1, SameValues DEF Fits
  <1>4. ASSUME full PROVE Values(M, c.extra) = Values(W, c.extra)
    <2>1. c.more <= Len(d)
      BY <1>1, <1>4
    <2> QED
      BY <1>1, <2>1, SameValues DEF Fits
  <1>5. ASSUME full PROVE Values(M, c.len) = Values(W, c.len)
    <2>1. c.more <= Len(d)
      BY <1>1, <1>5
    <2>2. CASE Below(c.len, c.min)
      BY <1>1, <2>2, SameValues
    <2>3. CASE Below(c.len, c.more)
      BY <1>1, <2>1, <2>3, SameValues
    <2> QED
      BY <2>2, <2>3 DEF Fits
  <1> HIDE DEF M, W
  <1>6. Typed(c, M, Len(d)) = Typed(c, W, Len(d))
    <2>1. CASE full
      BY <1>2, <1>3, <1>4, <1>5, <2>1, Zenon DEF Typed
    <2>2. CASE ~ full
      BY <1>2, <1>3, <2>2, Zenon DEF Typed
    <2> QED
      BY <2>1, <2>2
  <1> QED
    BY <1>6 DEF M, W

(* Two bytes at p are read only where they both lie inside.                *)
LEMMA CheckedInside ==
  ASSUME NEW S, NEW d \in Seq(S), NEW junk, NEW junk2, NEW p \in Nat
  PROVE  /\ Checked14(Memory(d, junk), p, Len(d))
              = Checked14(Memory(d, junk2), p, Len(d))
         /\ Past(p, Len(d)) \in Nat
  <1>1. Len(d) \in Nat
    OBVIOUS
  <1>2. ASSUME p + 2 <= Len(d)
        PROVE  Values(Memory(d, junk), read_14("n", p))
                 = Values(Memory(d, junk2), read_14("n", p))
    <2>1. Below(read_14("n", p), p + 2) /\ p + 2 \in Nat
      BY ReadersBelow
    <2> QED
      BY <1>1, <1>2, <2>1, SameValues
  <1> QED
    BY <1>1, <1>2 DEF Checked14, Past

(* So does a Property Exchange callback, whose chunk numbers come behind a *)
(* header of a length it reads.                                            *)
LEMMA PeDataInside ==
  ASSUME NEW S, NEW d \in Seq(S), Len(d) >= 14, NEW junk, NEW junk2, NEW name
  PROVE  dispatch_pe_data(name, Memory(d, junk), Len(d))
           = dispatch_pe_data(name, Memory(d, junk2), Len(d))
  <1> DEFINE M == Memory(d, junk)
             W == Memory(d, junk2)
             n == Len(d)
  <1>1. \A p \in Nat : /\ Checked14(M, p, n) = Checked14(W, p, n)
                       /\ Past(p, n) \in Nat
    BY CheckedInside
  <1>2. make_hdr(M) = make_hdr(W) /\ M[13] = W[13]
    <2>1. Len(d) \in Nat /\ Len(d) >= 13 /\ 13 \in 0 .. Len(d) - 1
      OBVIOUS
    <2> QED
      BY <2>1, HeaderInside, MemoryInside
  <1> HIDE DEF M, W, n
  <1>3. Checked14(M, 14, n) = Checked14(W, 14, n) /\ Past(14, n) \in Nat
    BY <1>1
  <1>4. ChunksAt(M, n) = ChunksAt(W, n) /\ ChunksAt(M, n) \in Nat
    BY <1>3, NumType DEF ChunksAt
  <1>5. ThisAt(M, n) = ThisAt(W, n) /\ ThisAt(M, n) \in Nat
    BY <1>1, <1>4 DEF ThisAt
  <1>6. BodyLenAt(M, n) = BodyLenAt(W, n) /\ BodyLenAt(M, n) \in Nat
    BY <1>1, <1>5 DEF BodyLenAt
  <1>7. /\ Checked14(M, ChunksAt(M, n), n) = Checked14(W, ChunksAt(W, n), n)
        /\ Checked14(M, ThisAt(M, n), n) = Checked14(W, ThisAt(W, n), n)
        /\ Checked14(M, BodyLenAt(M, n), n) = Checked14(W, BodyLenAt(W, n), n)
    BY <1>1, <1>4, <1>5, <1>6
  <1>8. dispatch_pe_data(name, M, n) = dispatch_pe_data(name, W, n)
    BY <1>2, <1>3, <1>6, <1>7, Zenon DEF dispatch_pe_data
  <1> QED
    BY <1>8 DEF M, W, n

(* The two lists of profiles: the check of the first makes the number of   *)
(* the second readable too.                                                *)
LEMMA ListsInside ==
  ASSUME NEW S, NEW d \in Seq(S), NEW junk, NEW junk2
  PROVE  /\ ListFits(Memory(d, junk), Len(d)) = ListFits(Memory(d, junk2), Len(d))
         /\ ListFits(Memory(d, junk), Len(d)) =>
              ProfileLists(Memory(d, junk), Len(d))
                = ProfileLists(Memory(d, junk2), Len(d))
  <1> DEFINE M == Memory(d, junk)
             W == Memory(d, junk2)
             At(mem, p) == Num(Values(mem, read_14("n", p)).n)
             off == 15 + ((At(M, 13) * 5) % 65536)
  <1>1. ASSUME NEW p \in Nat, p + 2 <= Len(d) PROVE At(M, p) = At(W, p)
    <2>1. Below(read_14("n", p), p + 2) /\ p + 2 \in Nat /\ Len(d) \in Nat
      BY ReadersBelow
    <2>2. Values(M, read_14("n", p)) = Values(W, read_14("n", p))
      BY <1>1, <2>1, SameValues
    <2> QED
      BY <2>2
  <1>2. Len(d) \in Nat /\ Len(d) >= 15 => At(M, 13) = At(W, 13)
    BY <1>1
  <1>3. ListFits(M, Len(d)) = ListFits(W, Len(d))
    <2>1. CASE Len(d) >= 15
      <3>1. Num(Values(M, read_14("n", 13)).n)
              = Num(Values(W, read_14("n", 13)).n)
        BY <1>2, <2>1
      <3> HIDE DEF M, W
      <3> QED
        BY <3>1 DEF ListFits
    <2>2. CASE ~ (Len(d) >= 15)
      BY <2>2 DEF ListFits
    <2> QED
      BY <2>1, <2>2
  <1>4. ASSUME ListFits(M, Len(d))
        PROVE  ProfileLists(M, Len(d)) = ProfileLists(W, Len(d))
    <2>1. Len(d) \in Nat /\ Len(d) >= 15 /\ 17 + ((At(M, 13) * 5) % 65536) <= Len(d)
      BY <1>4 DEF ListFits
    <2>2. At(M, 13) \in Nat
      BY NumType
    <2>3. off \in Nat /\ off + 2 <= Len(d)
      <3> HIDE DEF At
      <3>1. (At(M, 13) * 5) % 65536 \in Nat
        BY <2>2
      <3> QED
        BY <2>1, <3>1
    <2>4. At(M, off) = At(W, off) /\ At(M, 13) = At(W, 13)
      <3> HIDE DEF At, off
      <3> QED
        BY <1>1, <1>2, <2>1, <2>3
    <2>5. make_hdr(M) = make_hdr(W)
      BY <2>1, HeaderInside
    <2>6. ASSUME NEW mem
          PROVE  ProfileLists(mem, Len(d)) =
                   Heard("on_profile_inquiry_reply", make_hdr(mem), None,
                     [enabled  |-> Span(15, At(mem, 13) * 5),
                      disabled |-> Span(15 + ((At(mem, 13) * 5) % 65536) + 2,
                                              At(mem, 15 + ((At(mem, 13) * 5) % 65536)) * 5)])
      BY DEF ProfileLists
    <2> HIDE DEF M, W, At
    <2>7. 15 + ((At(W, 13) * 5) % 65536) = off
      BY <2>4
    <2> HIDE DEF off
    <2>8. ProfileLists(M, Len(d)) =
            Heard("on_profile_inquiry_reply", make_hdr(M), None,
              [enabled  |-> Span(15, At(M, 13) * 5),
               disabled |-> Span(off + 2, At(M, off) * 5)])
      BY <2>6 DEF off
    <2>9. ProfileLists(W, Len(d)) =
            Heard("on_profile_inquiry_reply", make_hdr(W), None,
              [enabled  |-> Span(15, At(W, 13) * 5),
               disabled |-> Span(off + 2, At(W, off) * 5)])
      BY <2>6, <2>7
    <2> QED
      BY <2>4, <2>5, <2>8, <2>9
  <1> QED
    BY <1>3, <1>4

(* What a payload of any bytes and any length is taken for is the same     *)
(* whatever lies behind it: no byte past its end is read.                  *)
LEMMA FeedInside ==
  ASSUME NEW S, NEW d \in Seq(S), NEW reg, NEW junk, NEW junk2
  PROVE  midi2_ci_dispatch_feed(d, reg, junk) = midi2_ci_dispatch_feed(d, reg, junk2)
  <1> DEFINE M == Memory(d, junk)
             W == Memory(d, junk2)
             n == Len(d)
             sub == Num(d[4])
             pe  == CallFor(PeCalls, sub)
             c   == CallFor(Calls, sub)
  <1>1. CASE ~ is_ci(d)
    BY <1>1 DEF midi2_ci_dispatch_feed
  <1>2. CASE is_ci(d)
    <2>1. n \in Nat /\ n >= 13
      BY <1>2 DEF is_ci
    <2>2. make_hdr(M) = make_hdr(W)
      BY <2>1, HeaderInside
    <2>3. n >= 14 => dispatch_pe_data(pe.name, M, n) = dispatch_pe_data(pe.name, W, n)
      BY PeDataInside
    <2>4. /\ ListFits(M, n) = ListFits(W, n)
          /\ ListFits(M, n) => ProfileLists(M, n) = ProfileLists(W, n)
      BY ListsInside
    <2>5. Has(Calls, sub) /\ LongEnough(c, n) => Typed(c, M, n) = Typed(c, W, n)
      <3>1. ASSUME Has(Calls, sub) PROVE Fits(c)
        <4>1. c \in Calls
          BY <3>1 DEF Has, CallFor
        <4> QED
          BY <4>1, TableFits
      <3>2. ASSUME LongEnough(c, n), Fits(c) PROVE Typed(c, M, n) = Typed(c, W, n)
        <4>1. c.min <= n
          BY <2>1, <3>2 DEF LongEnough, Fits
        <4> HIDE DEF c
        <4> QED
          BY <3>2, <4>1, TypedInside
      <3> QED
        BY <3>1, <3>2
    <2>6. ASSUME NEW r
          PROVE  midi2_ci_dispatch_feed(d, reg, r) =
                   CASE Has(PeCalls, sub) ->
                          IF reg /\ n >= 14 THEN dispatch_pe_data(pe.name, Memory(d, r), n)
                          ELSE Nobody(reg)
                     [] sub = \h21 ->
                          IF reg /\ ListFits(Memory(d, r), n)
                          THEN ProfileLists(Memory(d, r), n)
                          ELSE Unknown(make_hdr(Memory(d, r)))
                     [] Has(Calls, sub) ->
                          IF reg /\ LongEnough(c, n)
                          THEN Typed(c, Memory(d, r), n)
                          ELSE Unknown(make_hdr(Memory(d, r)))
                     [] OTHER -> Unknown(make_hdr(Memory(d, r)))
      BY <1>2 DEF midi2_ci_dispatch_feed
    <2>7. /\ midi2_ci_dispatch_feed(d, reg, junk)  = midi2_ci_dispatch_feed(d, reg, junk)
      OBVIOUS
    <2> HIDE DEF n, sub, pe, c
    <2> QED
      BY <2>2, <2>3, <2>4, <2>5, <2>6
  <1> QED
    BY <1>1, <1>2

-----------------------------------------------------------------------------
(* What the builders write are bytes: a payload is a sequence of them.     *)

Bytes8  == SUBSET Nat
ArgNames ==
  {"", "device_id", "version", "src_muid", "dst_muid", "mfr_id", "family", "model", "sw_rev", "ci_category",
   "max_sysex", "orig_sub_id", "status_code", "status_data", "details", "msg_text", "output_path_id",
   "function_block", "status", "info_data", "target_muid", "profile_id", "num_channels", "enabled", "disabled",
   "inquiry_target", "data", "request_id", "header", "num_chunks", "this_chunk", "body", "pe_ver_major",
   "pe_ver_minor", "max_simultaneous", "system_bitmap", "reserved", "channel_ctrl_bitmap",
   "note_data_bitmap", "msg_data_control", "supported_features"}
CellSet == [of: {"fixed", "arg", "count", "bytes"}, arg: ArgNames, from: Nat, width: Nat]
Laid(layout) == layout.cells \in Seq(CellSet) /\ layout.tail \in Seq(CellSet)

(* Two sequences of a set make a sequence of it.                           *)
LEMMA Appended ==
  ASSUME NEW S, NEW s \in Seq(S), NEW t \in Seq(S)
  PROVE  s \o t \in Seq(S)
  BY ConcatProperties

(* Bytes that a builder writes as they are make cells.                     *)
LEMMA FixedLaid ==
  ASSUME NEW n \in Nat
  PROVE  Fixed(n) \in Seq(CellSet)
  <1>1. "" \in ArgNames
    BY DEF ArgNames
  <1>2. Cell("fixed", "", n, 8) \in CellSet
    BY <1>1 DEF Cell, CellSet
  <1> QED
    <2> DEFINE c == Cell("fixed", "", n, 8)
    <2>1. c \in CellSet /\ Fixed(n) = <<c>>
      BY <1>2 DEF Fixed
    <2> HIDE DEF c
    <2> QED
      BY <2>1

(* Whole bytes of an argument do.                                          *)
LEMMA RawLaid ==
  ASSUME NEW arg \in ArgNames, NEW n \in Nat
  PROVE  Raw(arg, n) \in Seq(CellSet)
  <1>1. \A i \in 1 .. n : Cell("arg", arg, 8 * (i - 1), 8) \in CellSet
    BY DEF Cell, CellSet
  <1> QED
    BY <1>1, IsASeq DEF Raw

(* The seven-bit parts of a number do.                                     *)
LEMMA SevensLaid ==
  ASSUME NEW arg \in ArgNames, NEW froms \in Seq(Nat)
  PROVE  Sevens(arg, froms) \in Seq(CellSet)
  <1>1. \A i \in 1 .. Len(froms) : Cell("arg", arg, froms[i], 7) \in CellSet
    BY DEF Cell, CellSet
  <1> QED
    BY <1>1, IsASeq DEF Sevens

(* The writers of 14 and 28 bits and of four bytes do.                     *)
LEMMA WritersLaid ==
  ASSUME NEW arg \in ArgNames
  PROVE  /\ write_14(arg) \in Seq(CellSet) /\ write_muid(arg) \in Seq(CellSet)
         /\ write_bytes4(arg) \in Seq(CellSet)
  <1>1. <<0, 7>> \in Seq(Nat) /\ <<0, 7, 14, 21>> \in Seq(Nat) /\ <<24, 16, 8, 0>> \in Seq(Nat)
    OBVIOUS
  <1> QED
    BY <1>1, SevensLaid DEF write_14, write_muid, write_bytes4

(* A length with the block it counts does.                                 *)
LEMMA CountedLaid ==
  ASSUME NEW arg \in ArgNames, NEW froms \in Seq(Nat), NEW unit \in Nat
  PROVE  Counted(arg, froms, unit) \in Seq(CellSet)
  <1> DEFINE s == [i \in DOMAIN froms |-> Cell("count", arg, froms[i], unit)]
  <1>1. \A i \in 1 .. Len(froms) : Cell("count", arg, froms[i], unit) \in CellSet
    BY DEF Cell, CellSet
  <1>2. s \in Seq(CellSet)
    BY <1>1, IsASeq
  <1>3. Cell("bytes", arg, 0, 8) \in CellSet
    BY DEF Cell, CellSet
  <1> HIDE DEF s
  <1>4. s \o <<Cell("bytes", arg, 0, 8)>> \in Seq(CellSet)
    BY <1>2, <1>3, Appended
  <1> QED
    BY <1>4 DEF s, Counted

(* A block alone does.                                                     *)
LEMMA BlockLaid ==
  ASSUME NEW arg \in ArgNames
  PROVE  Block(arg) \in Seq(CellSet)
  <1>1. <<0, 7>> \in Seq(Nat)
    OBVIOUS
  <1> QED
    BY <1>1, CountedLaid DEF Block

(* The common header does.                                                 *)
LEMMA HeaderLaid ==
  ASSUME NEW sub \in Nat, NEW given
  PROVE  build_header(sub, given) \in Seq(CellSet)
  <1> DEFINE a == IF "device_id" \in given THEN Raw("device_id", 1) ELSE Fixed(\h7F)
             b == IF "dst_muid" \in given THEN write_muid("dst_muid")
                  ELSE Fixed(\h7F) \o Fixed(\h7F) \o Fixed(\h7F) \o Fixed(\h7F)
  <1>1. /\ Fixed(\h7E) \in Seq(CellSet) /\ Fixed(\h0D) \in Seq(CellSet)
        /\ Fixed(\h7F) \in Seq(CellSet) /\ Fixed(sub) \in Seq(CellSet)
    BY FixedLaid
  <1>2. /\ Raw("version", 1) \in Seq(CellSet) /\ Raw("device_id", 1) \in Seq(CellSet)
    BY RawLaid DEF ArgNames
  <1>3. /\ write_muid("src_muid") \in Seq(CellSet) /\ write_muid("dst_muid") \in Seq(CellSet)
    BY WritersLaid DEF ArgNames
  <1>4. a \in Seq(CellSet)
    BY <1>1, <1>2
  <1>5. b \in Seq(CellSet)
    BY <1>1, <1>3, Appended
  <1>6. build_header(sub, given) =
          Fixed(\h7E) \o a \o Fixed(\h0D) \o Fixed(sub) \o Raw("version", 1)
          \o write_muid("src_muid") \o b
    BY DEF build_header
  <1> HIDE DEF a, b
  <1> QED
    BY <1>1, <1>2, <1>3, <1>4, <1>5, <1>6, Appended

(* A message is the header, what its builder writes and its tail.          *)
LEMMA CiLaid ==
  ASSUME NEW calls, NEW sub \in Nat, NEW given, NEW cells \in Seq(CellSet), NEW tail \in Seq(CellSet)
  PROVE  Laid(Ci(calls, sub, given, cells, tail))
  <1>1. build_header(sub, given) \in Seq(CellSet)
    BY HeaderLaid
  <1>2. build_header(sub, given) \o cells \in Seq(CellSet)
    BY <1>1, Appended
  <1> QED
    BY <1>2 DEF Laid, Ci

(* Every management message is laid out in cells.                          *)
LEMMA ManagementLaid == \A kind \in DOMAIN ManagementLayouts : Laid(ManagementLayouts[kind])
  <1> DEFINE L == ManagementLayouts
  <1>1. /\ <<>> \in Seq(CellSet) /\ Raw("output_path_id", 1) \in Seq(CellSet)
        /\ Raw("function_block", 1) \in Seq(CellSet) /\ Raw("status", 1) \in Seq(CellSet)
        /\ Raw("ci_category", 1) \in Seq(CellSet)
        /\ Raw("orig_sub_id", 1) \in Seq(CellSet) /\ Raw("status_code", 1) \in Seq(CellSet)
        /\ Raw("status_data", 1) \in Seq(CellSet) /\ Raw("details", 5) \in Seq(CellSet)
    BY RawLaid, EmptySeq DEF ArgNames
  <1>2. /\ Block("info_data") \in Seq(CellSet) /\ Block("msg_text") \in Seq(CellSet)
    BY BlockLaid DEF ArgNames
  <1>3. /\ write_muid("target_muid") \in Seq(CellSet) /\ write_muid("max_sysex") \in Seq(CellSet)
        /\ write_14("family") \in Seq(CellSet) /\ write_14("model") \in Seq(CellSet)
        /\ write_bytes4("sw_rev") \in Seq(CellSet)
    BY WritersLaid DEF ArgNames
  <1>4. Sevens("mfr_id", <<16, 8, 0>>) \in Seq(CellSet)
    <2>1. <<16, 8, 0>> \in Seq(Nat)
      OBVIOUS
    <2> QED
      BY <2>1, SevensLaid DEF ArgNames
  <1>5. Identity \in Seq(CellSet)
    BY <1>1, <1>3, <1>4, Appended DEF Identity
  <1>6. Report \in Seq(CellSet)
    BY <1>1, <1>2, Appended DEF Report
  <1>7. /\ Raw("output_path_id", 1) \o Raw("function_block", 1) \in Seq(CellSet)
        /\ Raw("status", 1) \o Block("info_data") \in Seq(CellSet)
    BY <1>1, <1>2, Appended
  <1>8. Laid(L.discovery) /\ Laid(L.discovery_reply)
    BY <1>1, <1>5, <1>7, CiLaid DEF ManagementLayouts
  <1>9. Laid(L.endpoint_info) /\ Laid(L.endpoint_info_reply)
    BY <1>1, <1>7, CiLaid DEF ManagementLayouts
  <1>10. Laid(L.invalidate_muid)
    BY <1>1, <1>3, CiLaid DEF ManagementLayouts
  <1>11. Laid(L.ack) /\ Laid(L.nak)
    BY <1>1, <1>6, CiLaid DEF ManagementLayouts
  <1> QED
    BY <1>8, <1>9, <1>10, <1>11 DEF ManagementLayouts

(* Every Profile Configuration message is.                                 *)
LEMMA ProfileLaid == \A kind \in DOMAIN ProfileLayouts : Laid(ProfileLayouts[kind])
  <1> DEFINE L == ProfileLayouts
             p == Profile
             c == Channels
             target == Raw("inquiry_target", 1)
  <1>1. /\ <<>> \in Seq(CellSet) /\ p \in Seq(CellSet) /\ target \in Seq(CellSet)
    BY RawLaid, EmptySeq DEF ArgNames, Profile
  <1>2. c \in Seq(CellSet)
    BY WritersLaid DEF ArgNames, Channels
  <1>3. Block("data") \in Seq(CellSet)
    BY BlockLaid DEF ArgNames
  <1>4. /\ Counted("enabled", <<0, 7>>, 5) \in Seq(CellSet)
        /\ Counted("disabled", <<0, 7>>, 5) \in Seq(CellSet)
        /\ Counted("data", <<0, 7, 14, 21>>, 1) \in Seq(CellSet)
    <2>1. <<0, 7>> \in Seq(Nat) /\ <<0, 7, 14, 21>> \in Seq(Nat)
      OBVIOUS
    <2> QED
      BY <2>1, CountedLaid DEF ArgNames
  <1>5. Fixed(0) \o Fixed(0) \in Seq(CellSet)
    BY FixedLaid, Appended
  <1> HIDE DEF p, c, target
  <1>6. /\ Counted("enabled", <<0, 7>>, 5) \o Counted("disabled", <<0, 7>>, 5) \in Seq(CellSet)
        /\ p \o target \in Seq(CellSet) /\ p \o target \o Block("data") \in Seq(CellSet)
        /\ p \o Counted("data", <<0, 7, 14, 21>>, 1) \in Seq(CellSet)
    BY <1>1, <1>3, <1>4, Appended
  <1>7. /\ Laid(L.profile_inquiry) /\ Laid(L.profile_inquiry_reply) /\ Laid(L.set_profile_on)
        /\ Laid(L.set_profile_off) /\ Laid(L.profile_enabled) /\ Laid(L.profile_disabled)
    BY <1>1, <1>2, <1>5, <1>6, CiLaid DEF p, c, ProfileLayouts
  <1>8. /\ Laid(L.profile_added) /\ Laid(L.profile_removed)
        /\ Laid(L.profile_details) /\ Laid(L.profile_details_reply) /\ Laid(L.profile_specific_data)
    BY <1>1, <1>6, CiLaid DEF p, target, ProfileLayouts
  <1> QED
    BY <1>7, <1>8 DEF ProfileLayouts

(* Every Property Exchange message is.                                     *)
LEMMA PeLaid == \A kind \in DOMAIN PeLayouts : Laid(PeLayouts[kind])
  <1> DEFINE L == PeLayouts
             id == Raw("request_id", 1)
             h == Block("header")
             b == Block("body")
             n == write_14("num_chunks")
             t == write_14("this_chunk")
  <1>1. /\ <<>> \in Seq(CellSet) /\ id \in Seq(CellSet)
    BY RawLaid, EmptySeq DEF ArgNames
  <1>2. n \in Seq(CellSet) /\ t \in Seq(CellSet)
    BY WritersLaid DEF ArgNames
  <1>3. h \in Seq(CellSet) /\ b \in Seq(CellSet)
    BY BlockLaid DEF ArgNames
  <1>4. Fixed(0) \in Seq(CellSet) /\ Fixed(1) \in Seq(CellSet)
    BY FixedLaid
  <1> HIDE DEF id, h, b, n, t
  <1>5. ASSUME NEW calls, NEW sub \in Nat PROVE Laid(build_pe_data(calls, sub))
    <2>1. id \o h \o n \o t \o b \in Seq(CellSet)
      BY <1>1, <1>2, <1>3, Appended
    <2> QED
      BY <1>1, <2>1, CiLaid DEF id, h, b, n, t, build_pe_data
  <1>6. ASSUME NEW calls, NEW sub \in Nat PROVE Laid(OnlyHeader(calls, sub))
    <2>1. id \o h \o Fixed(1) \o Fixed(0) \o Fixed(1) \o Fixed(0)
          \o Fixed(0) \o Fixed(0) \in Seq(CellSet)
      BY <1>1, <1>3, <1>4, Appended
    <2> QED
      BY <1>1, <2>1, CiLaid DEF id, h, OnlyHeader
  <1>7. /\ Laid(L.pe_get) /\ Laid(L.pe_get_reply) /\ Laid(L.pe_set) /\ Laid(L.pe_set_reply)
        /\ Laid(L.pe_subscribe) /\ Laid(L.pe_subscribe_reply) /\ Laid(L.pe_notify)
    BY <1>5, <1>6 DEF PeLayouts
  <1> QED
    BY <1>7 DEF PeLayouts

(* The capability inquiries and every Process Inquiry message are.         *)
LEMMA InquiryLaid ==
  /\ \A kind \in DOMAIN PeCapabilityLayouts : Laid(PeCapabilityLayouts[kind])
  /\ \A kind \in DOMAIN PiLayouts : Laid(PiLayouts[kind])
  <1> DEFINE C == PeCapabilityLayouts
             P == PiLayouts
  <1>1. <<>> \in Seq(CellSet)
    BY EmptySeq
  <1>2. /\ Raw("max_simultaneous", 1) \in Seq(CellSet)
        /\ Raw("pe_ver_major", 1) \in Seq(CellSet) /\ Raw("pe_ver_minor", 1) \in Seq(CellSet)
        /\ Raw("supported_features", 1) \in Seq(CellSet)
        /\ Raw("msg_data_control", 1) \in Seq(CellSet)
        /\ Raw("system_bitmap", 1) \in Seq(CellSet) /\ Raw("reserved", 1) \in Seq(CellSet)
        /\ Raw("channel_ctrl_bitmap", 1) \in Seq(CellSet)
        /\ Raw("note_data_bitmap", 1) \in Seq(CellSet)
    BY RawLaid DEF ArgNames
  <1>3. Caps \in Seq(CellSet)
    BY <1>2, Appended DEF Caps
  <1>4. Bitmaps \in Seq(CellSet)
    BY <1>2, Appended DEF Bitmaps
  <1>5. Raw("msg_data_control", 1) \o Bitmaps \in Seq(CellSet)
    BY <1>2, <1>4, Appended
  <1>6. Laid(C.pe_capability) /\ Laid(C.pe_capability_reply)
    BY <1>2, <1>3, CiLaid DEF PeCapabilityLayouts
  <1>7. /\ Laid(P.pi_capability) /\ Laid(P.pi_capability_reply) /\ Laid(P.pi_midi_report)
        /\ Laid(P.pi_midi_report_reply) /\ Laid(P.pi_midi_report_end)
    BY <1>1, <1>2, <1>4, <1>5, CiLaid DEF PiLayouts
  <1> QED
    BY <1>6, <1>7 DEF PeCapabilityLayouts, PiLayouts

(* Every message that a builder makes is.                                  *)
LEMMA LayoutsLaid == \A kind \in CiKinds : Laid(CiLayouts[kind])
  <1> DEFINE T == {ManagementLayouts, ProfileLayouts, PeLayouts,
                   PeCapabilityLayouts, PiLayouts}
  <1>1. \A t \in T : \A kind \in DOMAIN t : Laid(t[kind])
    BY ManagementLaid, ProfileLaid, PeLaid, InquiryLaid
  <1>2. CiLayouts = Merged(T)
    BY DEF CiLayouts
  <1> HIDE DEF T
  <1>3. ASSUME NEW kind \in DOMAIN Merged(T) PROVE Laid(Merged(T)[kind])
    <2> DEFINE t == CHOOSE u \in T : kind \in DOMAIN u
    <2>1. t \in T /\ kind \in DOMAIN t
      BY DEF Merged
    <2>2. Merged(T)[kind] = t[kind]
      BY DEF Merged
    <2> QED
      BY <1>1, <2>1, <2>2
  <1> QED
    BY <1>2, <1>3 DEF CiKinds

(* A message whose blocks are sequences of bytes.                          *)
Buildable(m) ==
  /\ m.kind \in CiKinds
  /\ \A b \in CellArgs(CellsOf(m.kind, m.args.version), "bytes") : m.blocks[b] \in Seq(Bytes8)

(* A cell becomes bytes, when the blocks of the message are made of bytes. *)
LEMMA CellIsBytes ==
  ASSUME NEW m, NEW c \in CellSet, c.of = "bytes" => m.blocks[c.arg] \in Seq(Bytes8)
  PROVE  CellBytes(c, m) \in Seq(Bytes8)
  <1>1. \A x, lo : \A k \in Nat : Take(x, lo, k) \in Bytes8
    BY DEF Take, Bytes8
  <1>2. \A k : Bits(k) \in Bytes8
    BY DEF Bits, Bytes8
  <1>3. \A b \in Bytes8 : <<b>> \in Seq(Bytes8)
    OBVIOUS
  <1>4. c.width \in Nat /\ 7 \in Nat /\ c.of \in {"fixed", "arg", "count", "bytes"}
    BY DEF CellSet
  <1>5. CASE c.of = "fixed"
    <2>1. CellBytes(c, m) = <<Bits(c.from)>>
      BY <1>5 DEF CellBytes
    <2> QED
      BY <1>2, <1>3, <2>1
  <1>6. CASE c.of = "arg"
    <2> DEFINE t == Take(m.args[c.arg], c.from, c.width)
    <2>1. CellBytes(c, m) = <<t>>
      BY <1>6 DEF CellBytes
    <2>2. t \in Bytes8
      BY <1>1, <1>4
    <2> QED
      BY <1>3, <2>1, <2>2
  <1>7. CASE c.of = "count"
    <2> DEFINE t == Take(Bits(Len(m.blocks[c.arg]) \div c.width), c.from, 7)
    <2>1. CellBytes(c, m) = <<t>>
      BY <1>7 DEF CellBytes
    <2>2. t \in Bytes8
      BY <1>1, <1>4
    <2> QED
      BY <1>3, <2>1, <2>2
  <1>8. CASE c.of = "bytes"
    BY <1>8 DEF CellBytes
  <1> QED
    BY <1>4, <1>5, <1>6, <1>7, <1>8

(* What a builder writes is a sequence of bytes.                           *)
LEMMA EncodedBytes ==
  ASSUME NEW m, Buildable(m)
  PROVE  Encoded(m) \in Seq(Bytes8)
  <1> DEFINE cells == CellsOf(m.kind, m.args.version)
             parts == [i \in DOMAIN cells |-> CellBytes(cells[i], m)]
  <1>1. cells \in Seq(CellSet)
    <2> DEFINE l == CiLayouts[m.kind]
    <2>1. l.cells \in Seq(CellSet) /\ l.tail \in Seq(CellSet)
      BY LayoutsLaid DEF Buildable, Laid
    <2>2. <<>> \in Seq(CellSet)
      BY EmptySeq
    <2>3. cells = l.cells \o (IF Num(m.args.version) >= 2 THEN l.tail ELSE <<>>)
      BY DEF CellsOf
    <2> HIDE DEF l, cells
    <2>4. CASE Num(m.args.version) >= 2
      BY <2>1, <2>3, <2>4, Appended
    <2>5. CASE ~ (Num(m.args.version) >= 2)
      BY <2>1, <2>2, <2>3, <2>5, Appended
    <2> QED
      BY <2>4, <2>5
  <1>2. \A i \in DOMAIN cells : cells[i].of = "bytes" => m.blocks[cells[i].arg] \in Seq(Bytes8)
    BY DEF Buildable, CellArgs
  <1>3. Encoded(m) = FlattenSeq(parts)
    BY DEF Encoded
  <1> HIDE DEF cells
  <1>4. ASSUME NEW i \in 1 .. Len(cells) PROVE CellBytes(cells[i], m) \in Seq(Bytes8)
    <2>1. cells[i] \in CellSet /\ (cells[i].of = "bytes" => m.blocks[cells[i].arg] \in Seq(Bytes8))
      BY <1>1, <1>2
    <2> QED
      BY <2>1, CellIsBytes
  <1>5. parts \in Seq(Seq(Bytes8))
    <2>1. parts = [i \in 1 .. Len(cells) |-> CellBytes(cells[i], m)]
      BY <1>1
    <2> QED
      BY <1>1, <1>4, <2>1, IsASeq
  <1> HIDE DEF parts
  <1>6. FlattenSeq(parts) \in Seq(Bytes8)
    <2>1. CASE parts = <<>>
      BY <2>1, EmptySeq DEF FlattenSeq
    <2>2. CASE parts # <<>>
      <3>1. PICK f \in [0 .. Len(parts) -> Seq(Bytes8)] :
                 f[Len(parts)] = (CHOOSE g : g = [i \in 1 .. Len(parts) |->
                                    IF i = 1 THEN parts[i] ELSE g[i - 1] \o parts[i]])[Len(parts)]
        BY <1>5, <2>2, PartsAppended
      <3>2. FlattenSeq(parts) = f[Len(parts)] /\ Len(parts) \in 0 .. Len(parts)
        BY <1>5, <2>2, <3>1 DEF FlattenSeq
      <3> QED
        BY <3>2
    <2> QED
      BY <2>1, <2>2
  <1> QED
    BY <1>3, <1>6

-----------------------------------------------------------------------------
(* What the dispatcher did is decided by the payload alone, and the        *)
(* payload is bytes: after it has been read it stays as it was.            *)
HeardFromData ==
  /\ data \in Seq(Bytes8)
  /\ heard # NotYet =>
       data # <<>> /\ heard = midi2_ci_dispatch_feed(data, registered, {})

(* The calls of a step are those of the payload that it leaves.            *)
LEMMA HeardFromDataInductive ==
  (CiCodecInit => HeardFromData) /\ (HeardFromData /\ [CiCodecNext]_(ciCodecVars) => HeardFromData')
  <1>1. CiCodecInit => HeardFromData
    BY EmptySeq DEF CiCodecInit, HeardFromData
  <1>2. ASSUME HeardFromData, [CiCodecNext]_(ciCodecVars) PROVE HeardFromData'
    <2>1. CASE UNCHANGED ciCodecVars
      BY <1>2, <2>1 DEF HeardFromData, ciCodecVars
    <2>2. ASSUME NEW m \in BuiltMessages \union Damaged, NEW d, Send(m, d) PROVE HeardFromData'
      <3>1. Buildable(m)
        <4>1. \A s : s \in Seq(SUBSET (0 .. 7)) => s \in Seq(Bytes8)
          BY DEF Bytes8
        <4>2. /\ m.kind \in CiKinds
              /\ \A b \in CellArgs(CellsOf(m.kind, m.args.version), "bytes") :
                   m.blocks[b] \in Seq(SUBSET (0 .. 7))
          BY CiCodecAssumption DEF CiCodecAssumption
        <4> QED
          BY <4>1, <4>2 DEF Buildable
      <3>2. data' \in Seq(Bytes8)
        BY <2>2, <3>1, EncodedBytes DEF Send
      <3> QED
        BY <1>2, <2>2, <3>2 DEF Send, HeardFromData
    <2>3. ASSUME NEW s \in SubIds, SendHeader(s) PROVE HeardFromData'
      <3>1. \A k : Bits(k) \in Bytes8
        BY DEF Bits, Bytes8
      <3>2. /\ <<Bits(\h7E), {}, Bits(\h0D), Bits(s)>> \in Seq(Bytes8)
            /\ [i \in 1 .. 9 |-> {}] \in Seq(Bytes8)
        <4>1. {} \in Bytes8
          BY DEF Bytes8
        <4> QED
          BY <3>1, <4>1
      <3>3. data' \in Seq(Bytes8)
        BY <2>3, <3>2, Appended DEF SendHeader
      <3> QED
        BY <1>2, <2>3, <3>3 DEF SendHeader, HeardFromData
    <2>4. ASSUME NEW n \in CutTo, Cut(n) PROVE HeardFromData'
      <3>1. n \in Nat /\ n < Len(data) /\ data \in Seq(Bytes8) /\ data' = SubSeq(data, 1, n)
        BY <1>2, <2>4, CiCodecAssumption DEF CiCodecAssumption, Cut, HeardFromData
      <3>2. data' \in Seq(Bytes8)
        BY <3>1, SubSeqProperties
      <3> QED
        BY <1>2, <2>4, <3>2 DEF Cut, HeardFromData
    <2>5. ASSUME NEW at \in 13 .. 21, NEW lo \in Bytes, NEW hi \in Bytes, Misstate(at, lo, hi)
          PROVE  HeardFromData'
      <3>1. lo \in Bytes8 /\ hi \in Bytes8
        BY CiCodecAssumption DEF CiCodecAssumption, Bytes8
      <3>2. /\ data \in Seq(Bytes8) /\ at + 2 <= Len(data)
            /\ data' = [data EXCEPT ![at + 1] = lo, ![at + 2] = hi]
        BY <1>2, <2>5 DEF Misstate, HeardFromData
      <3>3. data' \in Seq(Bytes8)
        BY <3>1, <3>2
      <3> QED
        BY <1>2, <2>5, <3>3 DEF Misstate, HeardFromData
    <2>6. CASE Feed
      <3>1. data' = data /\ data # <<>> /\ heard' = midi2_ci_dispatch_feed(data, registered', {})
        BY <2>6 DEF Feed
      <3>2. NotYet' = NotYet
        BY DEF NotYet
      <3> QED
        BY <1>2, <3>1, <3>2 DEF HeardFromData
    <2> QED
      BY <1>2, <2>1, <2>2, <2>3, <2>4, <2>5, <2>6 DEF CiCodecNext
  <1> QED
    BY <1>1, <1>2

(* Whatever its length and whatever the blocks it was built from, no byte  *)
(* behind the end of a payload changes what midi2_ci_dispatch_feed takes   *)
(* it for: every read is behind a check of the length.                     *)
THEOREM NothingIsReadPastTheEnd ==
  CiCodecSpec => []NothingPastTheEnd
  <1>1. HeardFromData => NothingPastTheEnd
    BY FeedInside DEF HeardFromData, NothingPastTheEnd, Fed
  <1>2. (CiCodecInit => HeardFromData) /\ (HeardFromData /\ [CiCodecNext]_(ciCodecVars) => HeardFromData')
    BY HeardFromDataInductive
  <1> QED
    BY <1>1, <1>2, PTL DEF CiCodecSpec

(* A block that a callback is given lies inside the payload, whatever the  *)
(* lengths in it say and wherever it was cut.                              *)
LEMMA InsideLies ==
  ASSUME NEW at, NEW n, NEW length
  PROVE  LET s == Inside(at, n, length) IN s.at # Absent => s.at + s.len <= length
  BY DEF Inside, Span

(* Every block that the dispatcher hands over (a header, a body, a list of *)
(* profiles, a report) ends inside the payload, whatever the lengths in it *)
(* say and wherever it was cut.                                            *)
THEOREM EveryBlockLiesInside ==
  CiCodecSpec => []BlocksLieInside
  <1> DEFINE Lies(h) == h.name # "on_profile_inquiry_reply" =>
                          \A name \in DOMAIN h.data :
                            h.data[name].at # Absent => h.data[name].at + h.data[name].len <= Len(data)
             M == Memory(data, {})
  <1>1. ASSUME NEW c PROVE Lies(Typed(c, M, Len(data)))
    <2> DEFINE t == Typed(c, M, Len(data))
    <2>1. PICK n : t.data = [b \in {c.block} \ {""} |-> Inside(c.at, n, Len(data))]
      BY DEF Typed, Heard
    <2> HIDE DEF t, M
    <2>2. \A b \in DOMAIN t.data : t.data[b] = Inside(c.at, n, Len(data))
      BY <2>1
    <2>3. \A b \in DOMAIN t.data :
            t.data[b].at # Absent => t.data[b].at + t.data[b].len <= Len(data)
      BY <2>2, InsideLies
    <2> QED
      BY <2>3 DEF t
  <1>2. ASSUME NEW name PROVE Lies(dispatch_pe_data(name, M, Len(data)))
    <2> DEFINE t == dispatch_pe_data(name, M, Len(data))
    <2>1. PICK a, b : t.data = [header |-> Inside(a.at, a.len, Len(data)),
                               body |-> Inside(b.at, b.len, Len(data))]
      <3> DEFINE a == [at |-> Past(14, Len(data)), len |-> Num(Checked14(M, 14, Len(data)))]
                 b == [at  |-> Past(BodyLenAt(M, Len(data)), Len(data)),
                       len |-> Num(Checked14(M, BodyLenAt(M, Len(data)), Len(data)))]
      <3>1. t.data = [header |-> Inside(a.at, a.len, Len(data)),
                      body |-> Inside(b.at, b.len, Len(data))]
        BY DEF dispatch_pe_data, Heard
      <3> HIDE DEF a, b, t
      <3> QED
        BY <3>1
    <2> HIDE DEF t, M
    <2>2. /\ t.data["header"] = Inside(a.at, a.len, Len(data))
          /\ t.data["body"] = Inside(b.at, b.len, Len(data))
          /\ DOMAIN t.data = {"header", "body"}
      BY <2>1
    <2>3. \A name2 \in DOMAIN t.data :
            t.data[name2].at # Absent => t.data[name2].at + t.data[name2].len <= Len(data)
      BY <2>2, InsideLies
    <2> QED
      BY <2>3 DEF t
  <1>3. Lies(ProfileLists(M, Len(data)))
    BY DEF ProfileLists, Heard
  <1>4. /\ \A r : Lies(Nobody(r))
        /\ \A h : Lies(Unknown(h))
    BY DEF Nobody, Unknown, Heard, None
  <1> HIDE DEF Lies, M
  <1>5. Lies(midi2_ci_dispatch_feed(data, registered, {}))
    BY <1>1, <1>2, <1>3, <1>4, Zenon DEF M, midi2_ci_dispatch_feed
  <1>6. HeardFromData => BlocksLieInside
    BY <1>5 DEF Lies, HeardFromData, BlocksLieInside, Fed
  <1>7. (CiCodecInit => HeardFromData) /\ (HeardFromData /\ [CiCodecNext]_(ciCodecVars) => HeardFromData')
    BY HeardFromDataInductive
  <1> QED
    BY <1>6, <1>7, PTL DEF CiCodecSpec

=============================================================================
