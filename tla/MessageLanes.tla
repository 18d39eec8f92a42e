---------------------------- MODULE MessageLanes ----------------------------
(***************************************************************************)
(* What a SysEx sender and a receiver promise each other: one lane per     *)
(* kind of SysEx, on which a message may be lost, but is otherwise         *)
(* received once and in the order sent.  Messages are numbered in that     *)
(* order, over all lanes.                                                  *)
(***************************************************************************)
EXTENDS Naturals, Sequences

CONSTANTS
  Lanes,     (* the kinds of SysEx                                          *)
  Messages   (* the numbers of the messages                                 *)

VARIABLES
  pending,   (* per lane: the messages sent, neither received nor lost      *)
  received   (* the messages received, over all lanes                       *)

laneVars == <<pending, received>>

Init ==
  /\ pending = [l \in Lanes |-> {}]
  /\ received = <<>>

Submit(l, m) ==
  /\ \A k \in Lanes : \A n \in pending[k] : n < m
  /\ \A i \in DOMAIN received : received[i] < m
  /\ pending' = [pending EXCEPT ![l] = @ \union {m}]
  /\ UNCHANGED received

Lose(l, m) ==
  /\ m \in pending[l]
  /\ pending' = [pending EXCEPT ![l] = @ \ {m}]
  /\ UNCHANGED received

Deliver(l, m) ==
  /\ m \in pending[l]
  /\ \A n \in pending[l] : m <= n
  /\ pending' = [pending EXCEPT ![l] = @ \ {m}]
  /\ received' = Append(received, m)

Next == \E l \in Lanes, m \in Messages : Submit(l, m) \/ Lose(l, m) \/ Deliver(l, m)

Spec == Init /\ [][Next]_laneVars
=============================================================================
