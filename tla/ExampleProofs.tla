--------------------------- MODULE ExampleProofs ---------------------------
(***************************************************************************)
(* Two of the example programs.  The transmit gate of the Zephyr example,  *)
(* for every show, every reply, every number of attempts and whatever the  *)
(* host does; then what is sent, and what a whole cycle of scenes leaves   *)
(* behind.  The super-loop of the ATmega example, for every catalog and    *)
(* reply made of whole runs, every size of the rings, any number of tries  *)
(* and whatever the host does.                                             *)
(***************************************************************************)
EXTENDS ZephyrDevice, AvrLoop, DataLemmas

(* What an open run on the wire says of the gate: the run is held, and by  *)
(* the thread that owns the mutex, the sender of all of it.                *)
WireOK ==
  /\ wire \in Seq(Threads)
  /\ wire # <<>> => tx_run_held /\ Head(wire) = mutex.owner
  /\ RunsUninterrupted

IInv == GateOK /\ WireOK

(* The gate starts free, with no run open.                                 *)
THEOREM InitInv == Init => IInv
  <1>1. MaxAttempts \in Nat
    BY ZephyrAssumption
  <1>2. Init => GateOK
    <2> SUFFICES ASSUME Init PROVE GateOK
      OBVIOUS
    <2>1. mutex = [owner |-> NoThread, count |-> 0]
      BY DEF Init
    <2>2. trying = NoThread /\ attempt = 0 /\ tx_run_held = FALSE
      BY DEF Init
    <2>3. Locks = 0
      BY <2>2 DEF Locks
    <2>4. mutex \in [owner : Threads \union {NoThread}, count : 0 .. 2]
      BY <2>1
    <2>5. attempt \in 0 .. MaxAttempts
      BY <1>1, <2>2
    <2>6. mutex.owner = NoThread /\ mutex.count = 0
      BY <2>1
    <2> QED
      BY <2>2, <2>3, <2>4, <2>5, <2>6 DEF GateOK
  <1>3. Init => WireOK
    BY DEF Init, WireOK, RunsUninterrupted
  <1> QED
    BY <1>2, <1>3 DEF IInv

(* A thread in the retry loop counts on the lock of its call and, when a   *)
(* run is held, on the run's; and an open run on the wire is its own.      *)
LEMMA Trying ==
  ASSUME IInv, NEW t \in Threads, trying = t
  PROVE  /\ mutex.owner = t /\ tx_run_held \in BOOLEAN
         /\ mutex.count = IF tx_run_held THEN 2 ELSE 1
         /\ wire \in Seq(Threads) /\ (wire # <<>> => tx_run_held /\ Head(wire) = t)
  BY NoThreadAssumption DEF IInv, GateOK, WireOK, Locks

(* And one at its door finds the mutex free, or held for its own run.      *)
LEMMA Entering ==
  ASSUME IInv, NEW t \in Threads, trying # t, mutex.owner \in {NoThread, t}
  PROVE  /\ trying = NoThread /\ tx_run_held \in BOOLEAN
         /\ mutex.count = IF tx_run_held THEN 1 ELSE 0
         /\ tx_run_held => mutex.owner = t
         /\ wire \in Seq(Threads) /\ (wire # <<>> => tx_run_held /\ Head(wire) = t)
  BY NoThreadAssumption DEF IInv, GateOK, WireOK, Locks

(* Giving up: the call that fails frees the gate entirely, and no run is   *)
(* open any more.                                                          *)
LEMMA FailureFrees ==
  ASSUME NEW t \in Threads, tx_run_held \in BOOLEAN,
         wire # <<>> => Head(wire) = t,
         Leave(t, IF tx_run_held THEN 2 ELSE 1, FALSE), Given(t)
  PROVE  IInv'
  <1>1. mutex' = [owner |-> NoThread, count |-> 0] /\ tx_run_held' = FALSE
        /\ trying' = NoThread /\ attempt' = 0
    BY DEF Leave, Unlocks
  <1>2. wire' = <<>>
    BY DEF Given
  <1>3. MaxAttempts \in Nat
    BY ZephyrAssumption
  <1>4. GateOK'
    <2>1. Locks' = 0
      BY <1>1 DEF Locks
    <2>2. mutex' \in [owner : Threads \union {NoThread}, count : 0 .. 2]
      BY <1>1
    <2>3. attempt' \in 0 .. MaxAttempts
      BY <1>1, <1>3
    <2>4. mutex'.owner = NoThread /\ mutex'.count = 0
      BY <1>1
    <2> QED
      BY <1>1, <2>1, <2>2, <2>3, <2>4 DEF GateOK
  <1>5. WireOK'
    BY <1>2 DEF WireOK, RunsUninterrupted
  <1> QED
    BY <1>4, <1>5 DEF IInv

(* A packet accepted by the USB class: its call's lock is released, except *)
(* that a Start keeps it for the run and an End releases that one too.     *)
LEMMA AcceptedKeeps ==
  ASSUME IInv, NEW t \in Threads, trying = t, Accepted(t)
  PROVE  IInv'
  <1> DEFINE m == Head(todo[t])
  <1>1. /\ mutex.owner = t /\ tx_run_held \in BOOLEAN
        /\ mutex.count = IF tx_run_held THEN 2 ELSE 1
        /\ wire \in Seq(Threads) /\ (wire # <<>> => tx_run_held /\ Head(wire) = t)
    BY Trying
  <1>2. Leave(t, mutex.count, RunOpen(m))
    BY DEF Accepted
  <1>3. RunOpen(m) \in BOOLEAN
    BY <1>1 DEF RunOpen
  <1>4. /\ tx_run_held' = RunOpen(m) /\ trying' = NoThread /\ attempt' = 0
        /\ mutex' = IF RunOpen(m) THEN [owner |-> t, count |-> 1]
                                  ELSE [owner |-> NoThread, count |-> 0]
    BY <1>1, <1>2, <1>3 DEF Leave, Unlocks
  <1>5. GateOK'
    <2>1. MaxAttempts \in Nat
      BY ZephyrAssumption
    <2> QED
      BY <1>3, <1>4, <2>1, NoThreadAssumption DEF GateOK, Locks
  <1>6. WireOK'
    <2>1. wire' = CASE wire = <<>> /\ m.kind # "start" -> <<>>
                    [] wire # <<>> /\ Head(wire) = t /\ m.kind = "end" -> <<>>
                    [] OTHER -> Append(wire, t)
      BY DEF Accepted
    <2>2. CASE wire' = <<>>
      BY <2>2 DEF WireOK, RunsUninterrupted
    <2>3. CASE wire' # <<>>
      <3>1. wire' = Append(wire, t) /\ RunOpen(m)
        <4>1. CASE wire = <<>>
          BY <2>1, <2>3, <4>1 DEF RunOpen
        <4>2. CASE wire # <<>>
          BY <1>1, <2>1, <2>3, <4>2 DEF RunOpen
        <4> QED
          BY <4>1, <4>2
      <3>2. \A i \in 1 .. Len(wire) : wire[i] = t
        BY <1>1 DEF IInv, WireOK, RunsUninterrupted
      <3>3. \A i \in 1 .. Len(wire') : wire'[i] = t
        BY <1>1, <3>1, <3>2
      <3>4. wire' \in Seq(Threads) /\ Head(wire') = t
        BY <1>1, <3>1, <3>3
      <3> QED
        BY <1>4, <3>1, <3>3, <3>4 DEF WireOK, RunsUninterrupted
    <2> QED
      BY <2>2, <2>3
  <1> QED
    BY <1>5, <1>6 DEF IInv

(* The call's first steps: it takes the lock, or fails at once.            *)
LEMMA EnterKeeps ==
  ASSUME IInv, NEW t \in Threads, Enter(t)
  PROVE  IInv'
  <1>1. /\ trying = NoThread /\ tx_run_held \in BOOLEAN
        /\ mutex.count = IF tx_run_held THEN 1 ELSE 0
        /\ tx_run_held => mutex.owner = t
        /\ wire \in Seq(Threads) /\ (wire # <<>> => tx_run_held /\ Head(wire) = t)
    BY Entering DEF Enter
  <1>2. CASE g_midi_ready
    <2>1. /\ mutex' = [owner |-> t, count |-> mutex.count + 1]
          /\ trying' = t /\ attempt' = 0
          /\ UNCHANGED <<tx_run_held, wire>>
      BY <1>2 DEF Enter
    <2>2. MaxAttempts \in Nat
      BY ZephyrAssumption
    <2>3. GateOK'
      BY <1>1, <2>1, <2>2, NoThreadAssumption DEF GateOK, Locks
    <2>4. WireOK'
      BY <1>1, <2>1 DEF IInv, WireOK, RunsUninterrupted
    <2> QED
      BY <2>3, <2>4 DEF IInv
  <1>3. CASE ~ g_midi_ready
    <2>1. Leave(t, mutex.count + 1, FALSE) /\ Given(t)
      BY <1>3 DEF Enter
    <2>2. mutex.count + 1 = IF tx_run_held THEN 2 ELSE 1
      BY <1>1
    <2> QED
      BY <1>1, <2>1, <2>2, FailureFrees
  <1> QED
    BY <1>2, <1>3

(* One round of the retry loop.                                            *)
LEMMA TryKeeps ==
  ASSUME IInv, NEW t \in Threads, Try(t)
  PROVE  IInv'
  <1>1. trying = t
    BY DEF Try
  <1>2. CASE Accepted(t)
    BY <1>1, <1>2, AcceptedKeeps
  <1>3. CASE Retried
    <2>1. attempt' \in 0 .. MaxAttempts
      BY <1>3, ZephyrAssumption DEF Retried, IInv, GateOK
    <2> QED
      BY <1>3, <2>1 DEF Retried, IInv, GateOK, WireOK, RunsUninterrupted, Locks
  <1>4. CASE GivenUp(t)
    BY <1>1, <1>4, Trying, FailureFrees DEF GivenUp
  <1> QED
    BY <1>2, <1>3, <1>4 DEF Try

(* Every other step leaves the gate and the wire alone.                    *)
LEMMA GateAlone ==
  ASSUME IInv, UNCHANGED gate
  PROVE  IInv'
  BY DEF gate, IInv, GateOK, WireOK, RunsUninterrupted, Locks

(* The invariant is inductive.                                             *)
THEOREM StepInv == IInv /\ [Next]_vars => IInv'
  <1> SUFFICES ASSUME IInv, [Next]_vars
               PROVE  IInv'
    OBVIOUS
  <1>1. CASE Step
    BY <1>1, GateAlone DEF Step
  <1>2. CASE \E m \in DOMAIN Reply : rx_packet_cb(m)
    BY <1>2, GateAlone DEF rx_packet_cb
  <1>3. CASE rx_proc_thread
    BY <1>3, GateAlone DEF rx_proc_thread
  <1>4. CASE jr_heartbeat
    BY <1>4, GateAlone DEF jr_heartbeat
  <1>5. CASE midi_ready_cb
    BY <1>5, GateAlone DEF midi_ready_cb
  <1>6. CASE \E t \in Threads : Enter(t) \/ Try(t)
    BY <1>6, EnterKeeps, TryKeeps
  <1>7. CASE UNCHANGED vars
    BY <1>7, GateAlone DEF vars
  <1> QED
    BY <1>1, <1>2, <1>3, <1>4, <1>5, <1>6, <1>7 DEF Next

(* The invariant of the gate holds in every state.                         *)
THEOREM Invariance == Spec => []IInv
  <1> QED
    BY InitInv, StepInv, PTL DEF Spec

(* However long the runs and however many attempts send_ump makes, the     *)
(* mutex is locked exactly once per call in progress and once for the run  *)
(* held: it is never left locked behind a run that was given up.           *)
THEOREM GateAccounts == Spec => []GateOK
  <1>1. IInv => GateOK
    BY DEF IInv
  <1> QED
    BY <1>1, Invariance, PTL

(* "The CI reply thread and the scene loop can never interleave packets    *)
(* inside each other's runs" (main.c:170), whatever each of them sends and *)
(* whenever the host refuses, goes or comes back.                          *)
THEOREM RunsAreUninterrupted == Spec => []RunsUninterrupted
  <1>1. IInv => RunsUninterrupted
    BY DEF IInv, WireOK
  <1> QED
    BY <1>1, Invariance, PTL

-----------------------------------------------------------------------------
(* What a list of scenes sends. *)

(* FlattenSeq appends one part after the other.                            *)
LEMMA Flattened ==
  ASSUME NEW S, NEW parts \in Seq(Seq(S)), parts # <<>>
  PROVE  \E f \in [0 .. Len(parts) -> Seq(S)] :
           /\ f[0] = <<>> /\ FlattenSeq(parts) = f[Len(parts)]
           /\ \A n \in 1 .. Len(parts) : f[n] = f[n - 1] \o parts[n]
  <1>1. Len(parts) # 0
    BY EmptySeq
  <1> QED
    BY <1>1, PartsAppended DEF FlattenSeq

(* A list of messages leaves a note on when nothing releases it after it   *)
(* was struck.                                                             *)
LeavesOn(q, n) ==
  \E i \in 1 .. Len(q) : /\ q[i].kind = "on" /\ q[i].note = n
                         /\ \A j \in i + 1 .. Len(q) : ~ (q[j].kind = "off" /\ q[j].note = n)
Releases(q, n) == \E i \in 1 .. Len(q) : q[i].kind = "off" /\ q[i].note = n

(* Joining two lists: the second may release what the first leaves on.     *)
LEMMA Joined ==
  ASSUME NEW S, NEW p \in Seq(S), NEW q \in Seq(S), NEW n
  PROVE  /\ p \o q \in Seq(S)
         /\ LeavesOn(p \o q, n) => LeavesOn(q, n) \/ (LeavesOn(p, n) /\ ~ Releases(q, n))
         /\ Releases(p, n) \/ Releases(q, n) => Releases(p \o q, n)
  <1> DEFINE u == p \o q
  <1>1. /\ u \in Seq(S) /\ Len(u) = Len(p) + Len(q)
        /\ \A i \in 1 .. Len(p) + Len(q) : u[i] = IF i <= Len(p) THEN p[i] ELSE q[i - Len(p)]
        /\ Len(p) \in Nat /\ Len(q) \in Nat
    BY ConcatProperties, LenProperties
  <1> HIDE DEF u
  <1>2. /\ \A i \in 1 .. Len(p) : i \in 1 .. Len(u) /\ u[i] = p[i]
        /\ \A i \in 1 .. Len(q) : i + Len(p) \in 1 .. Len(u) /\ u[i + Len(p)] = q[i]
    <2>1. ASSUME NEW i \in 1 .. Len(q) PROVE i + Len(p) \in 1 .. Len(u) /\ u[i + Len(p)] = q[i]
      <3>1. i + Len(p) \in 1 .. Len(p) + Len(q) /\ ~ (i + Len(p) <= Len(p)) /\ (i + Len(p)) - Len(p) = i
        BY <1>1
      <3> QED
        BY <1>1, <3>1
    <2> QED
      BY <1>1, <2>1
  <1>3. ASSUME LeavesOn(u, n) PROVE LeavesOn(q, n) \/ (LeavesOn(p, n) /\ ~ Releases(q, n))
    <2>1. PICK i \in 1 .. Len(u) :
            /\ u[i].kind = "on" /\ u[i].note = n
            /\ \A j \in i + 1 .. Len(u) : ~ (u[j].kind = "off" /\ u[j].note = n)
      BY <1>3 DEF LeavesOn
    <2>2. CASE i <= Len(p)
      <3>1. i \in 1 .. Len(p) /\ p[i].kind = "on" /\ p[i].note = n
        BY <1>1, <1>2, <2>1, <2>2
      <3>2. ASSUME NEW j \in i + 1 .. Len(p) PROVE ~ (p[j].kind = "off" /\ p[j].note = n)
        <4>1. j \in i + 1 .. Len(u) /\ j \in 1 .. Len(p)
          BY <1>1, <3>1
        <4> QED
          BY <1>2, <2>1, <4>1
      <3>3. ASSUME NEW j \in 1 .. Len(q) PROVE ~ (q[j].kind = "off" /\ q[j].note = n)
        <4>1. j + Len(p) \in i + 1 .. Len(u)
          BY <1>1, <3>1
        <4> QED
          BY <1>2, <2>1, <4>1
      <3> QED
        BY <3>1, <3>2, <3>3 DEF LeavesOn, Releases
    <2>3. CASE ~ (i <= Len(p))
      <3> DEFINE k == i - Len(p)
      <3>1. k \in 1 .. Len(q) /\ q[k].kind = "on" /\ q[k].note = n
        BY <1>1, <2>1, <2>3
      <3>2. ASSUME NEW j \in k + 1 .. Len(q) PROVE ~ (q[j].kind = "off" /\ q[j].note = n)
        <4>1. j + Len(p) \in i + 1 .. Len(u) /\ j \in 1 .. Len(q)
          BY <1>1, <3>1
        <4> QED
          BY <1>2, <2>1, <4>1
      <3> QED
        BY <3>1, <3>2 DEF LeavesOn
    <2> QED
      BY <2>2, <2>3
  <1>4. ASSUME Releases(p, n) \/ Releases(q, n) PROVE Releases(u, n)
    BY <1>2, <1>4 DEF Releases
  <1> QED
    BY <1>1, <1>3, <1>4 DEF u

(* The same for any number of lists.                                       *)
LEMMA FlattenedNotes ==
  ASSUME NEW S, NEW parts \in Seq(Seq(S)), NEW n
  PROVE  /\ FlattenSeq(parts) \in Seq(S)
         /\ LeavesOn(FlattenSeq(parts), n) =>
              \E i \in 1 .. Len(parts) : /\ LeavesOn(parts[i], n)
                                         /\ \A k \in i + 1 .. Len(parts) : ~ Releases(parts[k], n)
         /\ (\E i \in 1 .. Len(parts) : Releases(parts[i], n)) => Releases(FlattenSeq(parts), n)
  <1>1. CASE parts = <<>>
    <2>1. Len(parts) = 0 /\ 1 .. 0 = {}
      BY <1>1
    <2>2. FlattenSeq(parts) = <<>>
      BY <1>1, <2>1 DEF FlattenSeq
    <2>3. ~ LeavesOn(<<>>, n)
      BY DEF LeavesOn
    <2> QED
      BY <2>1, <2>2, <2>3, EmptySeq
  <1>2. CASE parts # <<>>
    <2> DEFINE N == Len(parts)
    <2>1. N \in Nat \ {0} /\ \A i \in 1 .. N : parts[i] \in Seq(S)
      BY <1>2, EmptySeq, ElementOfSeq
    <2>2. PICK f \in [0 .. N -> Seq(S)] :
            /\ f[0] = <<>> /\ FlattenSeq(parts) = f[N]
            /\ \A i \in 1 .. N : f[i] = f[i - 1] \o parts[i]
      BY <1>2, Flattened
    <2> DEFINE LastOn(k, i) == LeavesOn(parts[k], n) /\ \A l \in k + 1 .. i : ~ Releases(parts[l], n)
               Kept(i) == /\ LeavesOn(f[i], n) => \E k \in 1 .. i : LastOn(k, i)
                          /\ (\E k \in 1 .. i : Releases(parts[k], n)) => Releases(f[i], n)
               T == {i \in Nat : i <= N => Kept(i)}
    <2>3. 0 \in T
      <3>1. ~ LeavesOn(<<>>, n) /\ 1 .. 0 = {}
        BY DEF LeavesOn
      <3> QED
        BY <2>2, <3>1
    <2>4. ASSUME NEW i \in Nat, i \in T PROVE i + 1 \in T
      <3>1. ASSUME i + 1 <= N PROVE Kept(i + 1)
        <4> DEFINE j == i + 1
        <4>1. j \in 1 .. N /\ i \in 0 .. N /\ j - 1 = i /\ 1 .. j = (1 .. i) \union {j}
          BY <2>1, <3>1
        <4>2. Kept(i)
          BY <2>4, <4>1
        <4> HIDE DEF j
        <4>3. f[i] \in Seq(S) /\ parts[j] \in Seq(S) /\ f[j] = f[i] \o parts[j]
          BY <2>1, <2>2, <4>1
        <4>4. /\ LeavesOn(f[j], n) => \/ LeavesOn(parts[j], n)
                                      \/ LeavesOn(f[i], n) /\ ~ Releases(parts[j], n)
              /\ Releases(f[i], n) \/ Releases(parts[j], n) => Releases(f[j], n)
          <5> DEFINE a == f[i]
                     b == parts[j]
          <5>1. a \in Seq(S) /\ b \in Seq(S) /\ f[j] = a \o b
            BY <4>3
          <5> HIDE DEF a, b
          <5>2. /\ LeavesOn(a \o b, n) => \/ LeavesOn(b, n)
                                          \/ LeavesOn(a, n) /\ ~ Releases(b, n)
                /\ Releases(a, n) \/ Releases(b, n) => Releases(a \o b, n)
            BY <5>1, Joined
          <5>3. /\ LeavesOn(f[j], n) => \/ LeavesOn(b, n)
                                        \/ LeavesOn(a, n) /\ ~ Releases(b, n)
                /\ Releases(a, n) \/ Releases(b, n) => Releases(f[j], n)
            BY <5>1, <5>2, Zenon
          <5> QED
            BY <5>3 DEF a, b
        <4>5. ASSUME LeavesOn(f[j], n) PROVE \E k \in 1 .. j : LastOn(k, j)
          <5>1. CASE LeavesOn(parts[j], n)
            <6>1. j \in 1 .. j /\ j + 1 .. j = {}
              BY <4>1
            <6> QED
              BY <5>1, <6>1
          <5>2. CASE ~ LeavesOn(parts[j], n)
            <6>1. LeavesOn(f[i], n) /\ ~ Releases(parts[j], n)
              BY <4>4, <4>5, <5>2
            <6>2. PICK k \in 1 .. i : LastOn(k, i)
              BY <4>2, <6>1
            <6>3. k \in 1 .. j /\ k + 1 .. j = (k + 1 .. i) \union {j}
              BY <4>1, <6>2
            <6> QED
              BY <6>1, <6>2, <6>3
          <5> QED
            BY <5>1, <5>2
        <4>6. Kept(j)
          BY <4>1, <4>2, <4>4, <4>5, Zenon
        <4> QED
          BY <4>6 DEF j
      <3> QED
        BY <3>1
    <2>5. N \in T
      <3> HIDE DEF T
      <3>1. \A i \in Nat : i \in T
        BY <2>3, <2>4, Induction
      <3> QED
        BY <2>1, <3>1
    <2>6. Kept(N)
      BY <2>1, <2>5
    <2>7. f[N] \in Seq(S)
      <3>1. N \in 0 .. N
        BY <2>1
      <3> HIDE DEF N
      <3> QED
        BY <2>2, <3>1
    <2> QED
      BY <2>2, <2>6, <2>7
  <1> QED
    BY <1>1, <1>2

-----------------------------------------------------------------------------
(* The scenes. *)

(* The notes of the show, and what main may send.                          *)
kNotes == {kB_Note, kF_Note} \union {kC_BaseNote + i : i \in 0 .. kC_Count - 1}
Played == {m \in Message : m.kind = "on" => m.note \in kNotes}

(* Alone, two scenes leave a note on, each its own.                        *)
Strikes(scene, n) ==
  \/ scene = "b_on" /\ n = kB_Note
  \/ scene = "f_on" /\ n = kF_Note

Fair(scenes) ==
  \A x \in DOMAIN scenes : /\ scenes[x].sends \in Seq(Played)
                           /\ \A n : LeavesOn(scenes[x].sends, n) => Strikes(x, n)

(* The notes of the show are MIDI notes, and silence may always be played. *)
LEMMA Notes ==
  /\ kC_Count \in 1 .. 56 /\ MaxBurst \in Nat \ {0}
  /\ kNotes \subseteq 0 .. 127 /\ Silent \subseteq Played /\ Played \subseteq Message
  <1>1. kC_Count \in 1 .. 56 /\ MaxBurst \in Nat \ {0}
    BY ShowAssumption
  <1> QED
    BY <1>1 DEF kNotes, Played, Silent, kB_Note, kF_Note, kC_BaseNote

(* Messages that are no notes leave none on.                               *)
LEMMA SilentLeavesNone ==
  ASSUME NEW q \in Seq(Silent)
  PROVE  q \in Seq(Played) /\ \A n : ~ LeavesOn(q, n)
  <1>1. q \in Seq(Played)
    BY Notes, SeqMonotonic
  <1>2. \A i \in 1 .. Len(q) : q[i] \in Silent
    BY ElementOfSeq
  <1> QED
    BY <1>1, <1>2 DEF LeavesOn, Silent

(* A burst of other messages holds no note.                                *)
LEMMA OthersAreSilent == ASSUME NEW k \in Nat PROVE Others(k) \in Seq(Silent)
  <1> DEFINE b == IF k < MaxBurst THEN k ELSE MaxBurst
  <1>1. b \in Nat
    BY Notes
  <1>2. Other \in Silent
    BY DEF Silent, Other, Message
  <1> HIDE DEF b
  <1>3. [i \in 1 .. b |-> Other] \in Seq(Silent)
    BY <1>1, <1>2
  <1> QED
    BY <1>3 DEF Others, b

(* Every scene sends what main may send, and leaves no note on but its own.*)
LEMMA FairScenes == \A scene \in Scenes : Fair(scene)
  <1>1. \A k \in Nat : Others(k) \in Seq(Played) /\ \A n : ~ LeavesOn(Others(k), n)
    BY OthersAreSilent, SilentLeavesNone
  <1>2. <<Other>> \in Seq(Silent) /\ <<>> \in Seq(Silent)
    BY DEF Silent, Other, Message
  <1>3. /\ <<Other>> \in Seq(Played) /\ \A n : ~ LeavesOn(<<Other>>, n)
        /\ <<>> \in Seq(Played) /\ \A n : ~ LeavesOn(<<>>, n)
    BY <1>2, SilentLeavesNone
  <1>4. /\ On(kB_Note) \in Played /\ Off(kB_Note) \in Played
        /\ On(kF_Note) \in Played /\ Off(kF_Note) \in Played /\ Other \in Played
    BY DEF Played, kNotes, Message, On, Off, Other, kB_Note, kF_Note
  <1>5. /\ <<On(kB_Note)>> \in Seq(Played) /\ \A n : LeavesOn(<<On(kB_Note)>>, n) => n = kB_Note
        /\ <<On(kF_Note)>> \in Seq(Played) /\ \A n : LeavesOn(<<On(kF_Note)>>, n) => n = kF_Note
    BY <1>4 DEF LeavesOn, On
  <1>6. /\ <<Other, Off(kB_Note)>> \in Seq(Played) /\ \A n : ~ LeavesOn(<<Other, Off(kB_Note)>>, n)
        /\ <<Off(kF_Note)>> \in Seq(Played) /\ \A n : ~ LeavesOn(<<Off(kF_Note)>>, n)
    BY <1>4 DEF LeavesOn, Off, Other
  <1>7. Fair(scene_a_flex) /\ Fair(scene_h_dctpq) /\ Fair(scene_l_system) /\ Fair(scene_m_metadata)
        /\ Fair(scene_n_utility)
    BY <1>1 DEF Fair, scene_a_flex, scene_h_dctpq, scene_l_system, scene_m_metadata, scene_n_utility
  <1>8. Fair(scene_d_program) /\ Fair(scene_i_pe_notify) /\ Fair(scene_j_clip_end)
    <2>1. DOMAIN scene_d_program = {"d"} /\ scene_d_program["d"].sends = <<Other>>
      BY DEF scene_d_program
    <2>2. DOMAIN scene_i_pe_notify = {"i"} /\ scene_i_pe_notify["i"].sends = <<>>
      BY DEF scene_i_pe_notify
    <2>3. DOMAIN scene_j_clip_end = {"j"} /\ scene_j_clip_end["j"].sends = <<Other>>
      BY DEF scene_j_clip_end
    <2> QED
      BY <1>3, <2>1, <2>2, <2>3 DEF Fair
  <1>9. Fair(scene_e_rpn_nrpn)
    <2>1. \A x \in DOMAIN scene_e_rpn_nrpn : scene_e_rpn_nrpn[x].sends = <<Other>>
      BY DEF scene_e_rpn_nrpn
    <2> QED
      BY <1>3, <2>1 DEF Fair
  <1>10. Fair(PerNote)
    <2>1. /\ DOMAIN PerNote = {"b_on", "b_reg", "b_asn", "b_mgmt", "b_off"}
          /\ PerNote["b_on"].sends = <<On(kB_Note)>> /\ PerNote["b_reg"].sends = <<Other>>
          /\ PerNote["b_asn"].sends = <<Other>> /\ PerNote["b_mgmt"].sends = <<Other>>
          /\ PerNote["b_off"].sends = <<Other, Off(kB_Note)>>
      BY DEF PerNote
    <2> QED
      BY <1>3, <1>5, <1>6, <2>1 DEF Fair, Strikes
  <1>11. Fair(scene_f_attribute)
    <2>1. /\ DOMAIN scene_f_attribute = {"f_on", "f_off"}
          /\ scene_f_attribute["f_on"].sends = <<On(kF_Note)>>
          /\ scene_f_attribute["f_off"].sends = <<Off(kF_Note)>>
      BY DEF scene_f_attribute
    <2> QED
      BY <1>5, <1>6, <2>1 DEF Fair, Strikes
  <1>12. Fair(scene_g_sysex7)
    <2> DEFINE q == <<Packet("start"), Packet("end"), Packet("start"), Packet("continue"), Packet("end")>>
    <2>1. q \in Seq(Silent)
      BY DEF Silent, Packet, Message
    <2>2. DOMAIN scene_g_sysex7 = {"g"} /\ scene_g_sysex7["g"].sends = q
      BY DEF scene_g_sysex7
    <2> HIDE DEF q
    <2>3. q \in Seq(Played) /\ \A n : ~ LeavesOn(q, n)
      BY <2>1, SilentLeavesNone
    <2> QED
      BY <2>2, <2>3 DEF Fair
  <1>13. Fair(scene_k_midi1_cv)
    <2> DEFINE q == <<On(60), Off(60)>>
    <2>1. On(60) \in Played /\ Off(60) \in Played
      BY DEF Played, kNotes, Message, On, Off, kB_Note
    <2>2. q \in Seq(Played) /\ \A n : ~ LeavesOn(q, n)
      <3>1. q \in Seq(Played)
        BY <2>1
      <3>2. ASSUME NEW n, LeavesOn(q, n) PROVE FALSE
        <4>1. /\ Len(q) = 2 /\ q[1].kind = "on" /\ q[1].note = 60
              /\ q[2].kind = "off" /\ q[2].note = 60
          BY DEF On, Off
        <4>2. PICK i \in 1 .. Len(q) :
                /\ q[i].kind = "on" /\ q[i].note = n
                /\ \A j \in i + 1 .. Len(q) : ~ (q[j].kind = "off" /\ q[j].note = n)
          BY <3>2 DEF LeavesOn
        <4> HIDE DEF q
        <4>3. i = 1 /\ 2 \in 1 + 1 .. Len(q)
          BY <4>1, <4>2
        <4> QED
          BY <4>1, <4>2, <4>3
      <3> QED
        BY <3>1, <3>2
    <2>3. DOMAIN scene_k_midi1_cv = {"k"} /\ scene_k_midi1_cv["k"].sends = q \o Others(3)
      BY DEF scene_k_midi1_cv
    <2> HIDE DEF q
    <2>4. q \o Others(3) \in Seq(Played) /\ \A n : ~ LeavesOn(q \o Others(3), n)
      <3> DEFINE r == Others(3)
      <3>1. r \in Seq(Played) /\ \A n : ~ LeavesOn(r, n)
        BY <1>1
      <3> HIDE DEF r
      <3>2. ASSUME NEW n PROVE q \o r \in Seq(Played) /\ ~ LeavesOn(q \o r, n)
        BY <2>2, <3>1, Joined
      <3> QED
        BY <3>2 DEF r
    <2> QED
      BY <2>3, <2>4 DEF Fair
  <1> QED
    BY <1>7, <1>8, <1>9, <1>10, <1>11, <1>12, <1>13 DEF Scenes

(* The table of all scenes, and the entries that matter for a note.        *)
LEMMA SceneTable ==
  /\ Fair(Once)
  /\ {"b_on", "b_off", "f_on", "f_off"} \subseteq DOMAIN Once
  /\ Once["b_on"].at = 400 /\ Once["b_off"].at = 6500
  /\ Once["f_on"].at = 14800 /\ Once["f_off"].at = 16500
  /\ Releases(Once["b_off"].sends, kB_Note) /\ Releases(Once["f_off"].sends, kF_Note)
  <1>1. DOMAIN Once = UNION {DOMAIN scene : scene \in Scenes}
    BY DEF Once
  <1>2. ASSUME NEW x \in DOMAIN Once
        PROVE  \E scene \in Scenes : x \in DOMAIN scene /\ Once[x] = scene[x]
    <2> DEFINE p == CHOOSE scene \in Scenes : x \in DOMAIN scene
    <2>1. \E scene \in Scenes : x \in DOMAIN scene
      BY <1>1
    <2>2. p \in Scenes /\ x \in DOMAIN p
      BY <2>1
    <2>3. Once[x] = p[x]
      BY <1>1 DEF Once
    <2> QED
      BY <2>2, <2>3
  <1>3. Fair(Once)
    BY <1>2, FairScenes DEF Fair
  <1>4. /\ DOMAIN PerNote = {"b_on", "b_reg", "b_asn", "b_mgmt", "b_off"}
        /\ DOMAIN scene_f_attribute = {"f_on", "f_off"}
        /\ PerNote \in Scenes /\ scene_f_attribute \in Scenes
    BY DEF PerNote, scene_f_attribute, Scenes
  <1>5. ASSUME NEW scene \in Scenes, NEW x \in {"b_on", "b_off"}, x \in DOMAIN scene
        PROVE  scene = PerNote
    BY <1>5 DEF Scenes, scene_a_flex, scene_d_program, scene_e_rpn_nrpn, scene_f_attribute,
       scene_g_sysex7, scene_h_dctpq, scene_i_pe_notify, scene_j_clip_end, scene_k_midi1_cv,
       scene_l_system, scene_m_metadata, scene_n_utility
  <1>6. ASSUME NEW scene \in Scenes, NEW x \in {"f_on", "f_off"}, x \in DOMAIN scene
        PROVE  scene = scene_f_attribute
    BY <1>6 DEF Scenes, scene_a_flex, PerNote, scene_d_program, scene_e_rpn_nrpn,
       scene_g_sysex7, scene_h_dctpq, scene_i_pe_notify, scene_j_clip_end, scene_k_midi1_cv,
       scene_l_system, scene_m_metadata, scene_n_utility
  <1>7. /\ \A x \in {"b_on", "b_off"} : x \in DOMAIN Once /\ Once[x] = PerNote[x]
        /\ \A x \in {"f_on", "f_off"} : x \in DOMAIN Once /\ Once[x] = scene_f_attribute[x]
    BY <1>1, <1>2, <1>4, <1>5, <1>6
  <1>8. /\ PerNote["b_on"].at = 400 /\ PerNote["b_off"].at = 6500
        /\ PerNote["b_off"].sends = <<Other, Off(kB_Note)>>
        /\ scene_f_attribute["f_on"].at = 14800 /\ scene_f_attribute["f_off"].at = 16500
        /\ scene_f_attribute["f_off"].sends = <<Off(kF_Note)>>
    BY DEF PerNote, scene_f_attribute
  <1>9. Releases(<<Other, Off(kB_Note)>>, kB_Note) /\ Releases(<<Off(kF_Note)>>, kF_Note)
    BY DEF Releases, Off
  <1> QED
    BY <1>3, <1>7, <1>8, <1>9

(* The first scene plays in the first pass of every cycle.                 *)
LEMMA FirstScene == "a" \in DOMAIN Once /\ Once["a"].at = 0
  <1>1. DOMAIN Once = UNION {DOMAIN scene : scene \in Scenes}
    BY DEF Once
  <1>2. DOMAIN scene_a_flex = {"a"} /\ scene_a_flex["a"].at = 0 /\ scene_a_flex \in Scenes
    BY DEF scene_a_flex, Scenes
  <1>3. ASSUME NEW scene \in Scenes, "a" \in DOMAIN scene PROVE scene = scene_a_flex
    BY <1>3 DEF Scenes, PerNote, scene_d_program, scene_e_rpn_nrpn, scene_f_attribute,
       scene_g_sysex7, scene_h_dctpq, scene_i_pe_notify, scene_j_clip_end, scene_k_midi1_cv,
       scene_l_system, scene_m_metadata, scene_n_utility
  <1> DEFINE p == CHOOSE scene \in Scenes : "a" \in DOMAIN scene
  <1>4. "a" \in DOMAIN Once
    BY <1>1, <1>2
  <1>5. p \in Scenes /\ "a" \in DOMAIN p
    BY <1>2
  <1>6. Once["a"] = p["a"]
    BY <1>1, <1>4 DEF Once
  <1> HIDE DEF p
  <1>7. p = scene_a_flex
    BY <1>3, <1>5
  <1> QED
    BY <1>2, <1>4, <1>6, <1>7

(* Every scene by its name; the release of the walk is none of them.       *)
LEMMA SceneNames ==
  {"a", "b_on", "b_reg", "b_asn", "b_mgmt", "b_off", "d", "e_rpn", "e_nrpn", "e_relrpn",
   "e_relnrpn", "f_on", "f_off", "g", "h", "i", "j", "k", "l", "m", "n"} = DOMAIN Once
  <1>1. DOMAIN Once = UNION {DOMAIN scene : scene \in Scenes}
    BY DEF Once
  <1>2. /\ DOMAIN scene_a_flex = {"a"} /\ DOMAIN scene_d_program = {"d"}
        /\ DOMAIN PerNote = {"b_on", "b_reg", "b_asn", "b_mgmt", "b_off"}
        /\ DOMAIN scene_e_rpn_nrpn = {"e_rpn", "e_nrpn", "e_relrpn", "e_relnrpn"}
        /\ DOMAIN scene_f_attribute = {"f_on", "f_off"} /\ DOMAIN scene_g_sysex7 = {"g"}
        /\ DOMAIN scene_h_dctpq = {"h"} /\ DOMAIN scene_i_pe_notify = {"i"}
        /\ DOMAIN scene_j_clip_end = {"j"} /\ DOMAIN scene_k_midi1_cv = {"k"}
        /\ DOMAIN scene_l_system = {"l"} /\ DOMAIN scene_m_metadata = {"m"}
        /\ DOMAIN scene_n_utility = {"n"}
    BY DEF scene_a_flex, PerNote, scene_d_program, scene_e_rpn_nrpn, scene_f_attribute,
       scene_g_sysex7, scene_h_dctpq, scene_i_pe_notify, scene_j_clip_end, scene_k_midi1_cv,
       scene_l_system, scene_m_metadata, scene_n_utility
  <1> DEFINE names == {"a", "b_on", "b_reg", "b_asn", "b_mgmt", "b_off", "d", "e_rpn", "e_nrpn",
                       "e_relrpn", "e_relnrpn", "f_on", "f_off", "g", "h", "i", "j", "k", "l",
                       "m", "n"}
  <1>3. ASSUME NEW scene \in Scenes PROVE DOMAIN scene \subseteq names
    BY <1>2 DEF Scenes
  <1>4. /\ \A scene \in Scenes : DOMAIN scene \subseteq DOMAIN Once
        /\ {scene_a_flex, PerNote, scene_d_program, scene_e_rpn_nrpn, scene_f_attribute,
            scene_g_sysex7, scene_h_dctpq, scene_i_pe_notify, scene_j_clip_end,
            scene_k_midi1_cv, scene_l_system, scene_m_metadata, scene_n_utility} = Scenes
    BY <1>1 DEF Scenes
  <1>5. /\ DOMAIN scene_a_flex \subseteq DOMAIN Once /\ DOMAIN scene_d_program \subseteq DOMAIN Once
        /\ DOMAIN PerNote \subseteq DOMAIN Once /\ DOMAIN scene_e_rpn_nrpn \subseteq DOMAIN Once
        /\ DOMAIN scene_f_attribute \subseteq DOMAIN Once
        /\ DOMAIN scene_g_sysex7 \subseteq DOMAIN Once
        /\ DOMAIN scene_h_dctpq \subseteq DOMAIN Once
        /\ DOMAIN scene_i_pe_notify \subseteq DOMAIN Once
        /\ DOMAIN scene_j_clip_end \subseteq DOMAIN Once
        /\ DOMAIN scene_k_midi1_cv \subseteq DOMAIN Once
        /\ DOMAIN scene_l_system \subseteq DOMAIN Once
        /\ DOMAIN scene_m_metadata \subseteq DOMAIN Once
        /\ DOMAIN scene_n_utility \subseteq DOMAIN Once
    BY <1>4
  <1>6. names \subseteq DOMAIN Once
    BY <1>2, <1>5
  <1> QED
    BY <1>1, <1>3, <1>6

(* What a list of scenes leaves on is struck by a scene that fires; what   *)
(* a scene that fires releases, the list does.                             *)
LEMMA SendsNotes ==
  ASSUME NEW scenes \in Seq(DOMAIN Once), NEW s, NEW t, NEW n
  PROVE  /\ Sends(scenes, s, t) \in Seq(Played)
         /\ LeavesOn(Sends(scenes, s, t), n) =>
              \E i \in 1 .. Len(scenes) :
                /\ Fires(scenes[i], s, t) /\ Strikes(scenes[i], n)
                /\ \A k \in i + 1 .. Len(scenes) :
                     ~ (Fires(scenes[k], s, t) /\ Releases(Once[scenes[k]].sends, n))
         /\ \A i \in 1 .. Len(scenes) :
              Fires(scenes[i], s, t) /\ Releases(Once[scenes[i]].sends, n) =>
                Releases(Sends(scenes, s, t), n)
  <1> DEFINE N == Len(scenes)
             parts == [i \in 1 .. N |-> IF Fires(scenes[i], s, t) THEN Once[scenes[i]].sends ELSE <<>>]
  <1>1. N \in Nat /\ \A i \in 1 .. N : scenes[i] \in DOMAIN Once
    BY LenProperties, ElementOfSeq
  <1>2. /\ <<>> \in Seq(Played) /\ ~ LeavesOn(<<>>, n)
        /\ \A x \in DOMAIN Once : /\ Once[x].sends \in Seq(Played)
                                  /\ LeavesOn(Once[x].sends, n) => Strikes(x, n)
    BY SceneTable DEF Fair, LeavesOn
  <1>3. \A i \in 1 .. N :
          /\ parts[i] = IF Fires(scenes[i], s, t) THEN Once[scenes[i]].sends ELSE <<>>
          /\ parts[i] \in Seq(Played)
    BY <1>1, <1>2
  <1>4. parts \in Seq(Seq(Played)) /\ Len(parts) = N
    <2> HIDE DEF N
    <2> QED
      BY <1>1, <1>3
  <1>5. Sends(scenes, s, t) = FlattenSeq(parts)
    BY DEF Sends
  <1> HIDE DEF parts
  <1>6. /\ FlattenSeq(parts) \in Seq(Played)
        /\ LeavesOn(FlattenSeq(parts), n) =>
             \E i \in 1 .. Len(parts) : /\ LeavesOn(parts[i], n)
                                        /\ \A k \in i + 1 .. Len(parts) : ~ Releases(parts[k], n)
        /\ (\E i \in 1 .. Len(parts) : Releases(parts[i], n)) => Releases(FlattenSeq(parts), n)
    BY <1>4, FlattenedNotes
  <1>7. ASSUME LeavesOn(FlattenSeq(parts), n)
        PROVE  \E i \in 1 .. N :
                 /\ Fires(scenes[i], s, t) /\ Strikes(scenes[i], n)
                 /\ \A k \in i + 1 .. N : ~ (Fires(scenes[k], s, t) /\ Releases(Once[scenes[k]].sends, n))
    <2>1. PICK i \in 1 .. N : LeavesOn(parts[i], n) /\ \A k \in i + 1 .. N : ~ Releases(parts[k], n)
      BY <1>4, <1>6, <1>7
    <2>2. Fires(scenes[i], s, t) /\ Strikes(scenes[i], n)
      BY <1>1, <1>2, <1>3, <2>1
    <2>3. ASSUME NEW k \in i + 1 .. N, Fires(scenes[k], s, t)
          PROVE  ~ Releases(Once[scenes[k]].sends, n)
      <3>1. k \in 1 .. N
        BY <1>1
      <3> QED
        BY <1>3, <2>1, <2>3, <3>1
    <2> QED
      BY <2>2, <2>3
  <1>8. ASSUME NEW i \in 1 .. N, Fires(scenes[i], s, t), Releases(Once[scenes[i]].sends, n)
        PROVE  Releases(FlattenSeq(parts), n)
    BY <1>3, <1>4, <1>6, <1>8
  <1> QED
    BY <1>5, <1>6, <1>7, <1>8

(* The walk leaves on the note it has come to, unless it releases that too,*)
(* and releases the one before.                                            *)
LEMMA WalkNotes ==
  ASSUME NEW s, s.c_idx \in 0 .. kC_Count, NEW t, NEW n
  PROVE  /\ scene_c_walk(s, t) \in Seq(Played)
         /\ LeavesOn(scene_c_walk(s, t), n) =>
              Walks(s, t) /\ n = kC_BaseNote + s.c_idx /\ ~ (Released(s, t) /\ s.c_idx = kC_Count - 1)
         /\ Walks(s, t) /\ s.c_idx > 0 /\ n = kC_BaseNote + s.c_idx - 1 => Releases(scene_c_walk(s, t), n)
         /\ Released(s, t) /\ n = kC_BaseNote + kC_Count - 1 => Releases(scene_c_walk(s, t), n)
  <1> DEFINE p == IF s.c_idx > 0 THEN <<Off(kC_BaseNote + s.c_idx - 1)>> ELSE <<>>
             q == <<On(kC_BaseNote + s.c_idx)>>
             u == IF Walks(s, t) THEN p \o q \o Others(3) ELSE <<>>
             v == IF Released(s, t) THEN <<Off(kC_BaseNote + kC_Count - 1), Other>> ELSE <<>>
  <1>1. kC_Count \in 1 .. 56 /\ kC_BaseNote = 72
    BY Notes DEF kC_BaseNote
  <1>2. /\ Others(3) \in Seq(Played) /\ ~ LeavesOn(Others(3), n)
        /\ <<>> \in Seq(Played) /\ ~ LeavesOn(<<>>, n)
    <2>1. Others(3) \in Seq(Silent)
      BY OthersAreSilent
    <2>2. Others(3) \in Seq(Played) /\ ~ LeavesOn(Others(3), n)
      BY <2>1, SilentLeavesNone
    <2>3. <<>> \in Seq(Played) /\ ~ LeavesOn(<<>>, n)
      BY DEF LeavesOn
    <2> QED
      BY <2>2, <2>3
  <1>3. /\ p \in Seq(Played) /\ ~ LeavesOn(p, n)
        /\ s.c_idx > 0 /\ n = kC_BaseNote + s.c_idx - 1 => Releases(p, n)
    <2>1. CASE s.c_idx > 0
      <3> DEFINE e == kC_BaseNote + s.c_idx - 1
      <3>1. e \in 0 .. 127
        BY <1>1
      <3>2. p = <<Off(e)>>
        BY <2>1
      <3> HIDE DEF e
      <3>3. Off(e) \in Played
        BY <3>1 DEF Off, Played, Message
      <3>4. <<Off(e)>> \in Seq(Played) /\ ~ LeavesOn(<<Off(e)>>, n) /\ Releases(<<Off(e)>>, e)
        BY <3>3 DEF Off, LeavesOn, Releases
      <3> QED
        BY <3>2, <3>4 DEF e
    <2>2. CASE ~ (s.c_idx > 0)
      BY <1>2, <2>2
    <2> QED
      BY <2>1, <2>2
  <1>4. ASSUME s.c_idx < kC_Count
        PROVE  /\ q \in Seq(Played)
               /\ LeavesOn(q, n) => n = kC_BaseNote + s.c_idx
    <2> DEFINE e == kC_BaseNote + s.c_idx
    <2>1. e \in kNotes /\ e \in 0 .. 127
      BY <1>1, <1>4 DEF kNotes
    <2> HIDE DEF e
    <2>2. On(e) \in Played
      BY <2>1 DEF On, Played, Message
    <2>3. <<On(e)>> \in Seq(Played) /\ (LeavesOn(<<On(e)>>, n) => n = e)
      BY <2>2 DEF On, LeavesOn
    <2> QED
      BY <2>3 DEF e
  <1> HIDE DEF p, q
  <1>5. /\ u \in Seq(Played)
        /\ LeavesOn(u, n) => Walks(s, t) /\ n = kC_BaseNote + s.c_idx
        /\ Walks(s, t) /\ s.c_idx > 0 /\ n = kC_BaseNote + s.c_idx - 1 => Releases(u, n)
    <2>1. CASE Walks(s, t)
      <3>1. s.c_idx < kC_Count
        BY <2>1 DEF Walks
      <3>2. /\ p \o q \in Seq(Played) /\ (LeavesOn(p \o q, n) => n = kC_BaseNote + s.c_idx)
            /\ Releases(p, n) => Releases(p \o q, n)
        BY <1>3, <1>4, <3>1, Joined
      <3> DEFINE r == p \o q
                 o == Others(3)
      <3>3. r \in Seq(Played) /\ o \in Seq(Played) /\ ~ LeavesOn(o, n)
        BY <1>2, <3>2
      <3> HIDE DEF r, o
      <3>4. /\ r \o o \in Seq(Played) /\ (LeavesOn(r \o o, n) => LeavesOn(r, n))
            /\ Releases(r, n) => Releases(r \o o, n)
        BY <3>3, Joined
      <3>5. u = r \o o
        BY <2>1 DEF r, o
      <3> QED
        BY <1>3, <2>1, <3>2, <3>4, <3>5 DEF r
    <2>2. CASE ~ Walks(s, t)
      BY <1>2, <2>2
    <2> QED
      BY <2>1, <2>2
  <1>6. /\ v \in Seq(Played) /\ ~ LeavesOn(v, n)
        /\ Released(s, t) /\ n = kC_BaseNote + kC_Count - 1 => Releases(v, n)
    <2> DEFINE e == kC_BaseNote + kC_Count - 1
    <2>1. e \in 0 .. 127
      BY <1>1
    <2> HIDE DEF e
    <2>2. Off(e) \in Played /\ Other \in Played
      BY <2>1 DEF Off, Other, Played, Message
    <2>3. <<Off(e), Other>> \in Seq(Played) /\ ~ LeavesOn(<<Off(e), Other>>, n)
          /\ Releases(<<Off(e), Other>>, e)
      BY <2>2 DEF Off, Other, LeavesOn, Releases
    <2> QED
      BY <1>2, <2>3 DEF e
  <1> HIDE DEF u, v
  <1>7. /\ u \o v \in Seq(Played)
        /\ LeavesOn(u \o v, n) => LeavesOn(u, n) /\ ~ Releases(v, n)
        /\ Releases(u, n) \/ Releases(v, n) => Releases(u \o v, n)
    BY <1>5, <1>6, Joined
  <1>8. scene_c_walk(s, t) = u \o v
    BY DEF scene_c_walk, u, v, p, q
  <1> QED
    BY <1>1, <1>5, <1>6, <1>7, <1>8

(* What one pass sends: no note but those of the show, and of the notes it *)
(* leaves on none but its own; a scene's Off goes out with its scene.      *)
LEMMA SentNotes ==
  ASSUME NEW s, s.c_idx \in 0 .. kC_Count, NEW t, NEW n
  PROVE  /\ Sent(s, t) \in Seq(Played)
         /\ LeavesOn(Sent(s, t), n) =>
              \/ Fires("b_on", s, t) /\ n = kB_Note /\ ~ Fires("b_off", s, t)
              \/ Fires("f_on", s, t) /\ n = kF_Note /\ ~ Fires("f_off", s, t)
              \/ Walks(s, t) /\ n = kC_BaseNote + s.c_idx /\ ~ (Released(s, t) /\ s.c_idx = kC_Count - 1)
         /\ Fires("b_off", s, t) /\ n = kB_Note => Releases(Sent(s, t), n)
         /\ Fires("f_off", s, t) /\ n = kF_Note => Releases(Sent(s, t), n)
         /\ Walks(s, t) /\ s.c_idx > 0 /\ n = kC_BaseNote + s.c_idx - 1 => Releases(Sent(s, t), n)
         /\ Released(s, t) /\ n = kC_BaseNote + kC_Count - 1 => Releases(Sent(s, t), n)
  <1> DEFINE sa == <<"a">>
             sb == <<"b_on">>
             sc == <<"b_reg", "b_asn", "b_mgmt", "b_off">>
             sd == <<"d", "e_rpn", "e_nrpn", "e_relrpn", "e_relnrpn", "f_on", "f_off",
                     "g", "h", "i", "j", "k", "l", "m", "n">>
             a == Sends(sa, s, t)
             b == Sends(sb, s, t)
             v == IF t >= Once.b_on.at /\ "b_off" \notin s.done /\ t < Once.b_off.at
                  THEN <<Other>> ELSE <<>>
             c == Sends(sc, s, t)
             w == scene_c_walk(s, t)
             d == Sends(sd, s, t)
  <1>1. Sent(s, t) = a \o ((b \o v) \o c) \o w \o d
    BY DEF Sent, scene_b_per_note
  <1>2. /\ sa \in Seq(DOMAIN Once) /\ Len(sa) = 1 /\ sa[1] = "a"
        /\ sb \in Seq(DOMAIN Once) /\ Len(sb) = 1 /\ sb[1] = "b_on"
    <2> DEFINE D == DOMAIN Once
    <2>1. "a" \in D /\ "b_on" \in D
      BY SceneNames
    <2> HIDE DEF D
    <2> QED
      BY <2>1 DEF D
  <1>3. /\ sc \in Seq(DOMAIN Once) /\ Len(sc) = 4 /\ sc[4] = "b_off"
        /\ \A i \in 1 .. 4 : sc[i] \in {"b_reg", "b_asn", "b_mgmt", "b_off"}
    <2> DEFINE D == DOMAIN Once
    <2>1. {"b_reg", "b_asn", "b_mgmt", "b_off"} \subseteq D
      BY SceneNames
    <2> HIDE DEF D
    <2>2. sc \in Seq(D)
      BY <2>1
    <2> QED
      BY <2>2 DEF D
  <1>4. /\ sd \in Seq(DOMAIN Once) /\ Len(sd) = 15 /\ sd[6] = "f_on" /\ sd[7] = "f_off"
        /\ \A i \in 1 .. 15 : sd[i] # "b_on" /\ (sd[i] = "f_on" => i = 6)
    <2> DEFINE D == DOMAIN Once
    <2>1. {"d", "e_rpn", "e_nrpn", "e_relrpn", "e_relnrpn", "f_on", "f_off",
           "g", "h", "i", "j", "k", "l", "m", "n"} \subseteq D
      BY SceneNames
    <2> HIDE DEF D
    <2>2. sd \in Seq(D)
      BY <2>1
    <2> QED
      BY <2>2 DEF D
  <1> HIDE DEF sa, sb, sc, sd
  <1> DEFINE Held(q) ==
        /\ Sends(q, s, t) \in Seq(Played)
        /\ LeavesOn(Sends(q, s, t), n) =>
             \E i \in 1 .. Len(q) :
               /\ Fires(q[i], s, t) /\ Strikes(q[i], n)
               /\ \A k \in i + 1 .. Len(q) : ~ (Fires(q[k], s, t) /\ Releases(Once[q[k]].sends, n))
        /\ \A i \in 1 .. Len(q) :
             Fires(q[i], s, t) /\ Releases(Once[q[i]].sends, n) => Releases(Sends(q, s, t), n)
  <1>0. ASSUME NEW q \in Seq(DOMAIN Once) PROVE Held(q)
    BY SendsNotes
  <1>5. /\ a \in Seq(Played) /\ ~ LeavesOn(a, n)
        /\ b \in Seq(Played) /\ (LeavesOn(b, n) => Fires("b_on", s, t) /\ n = kB_Note)
    <2>1. Held(sa) /\ Held(sb)
      BY <1>0, <1>2
    <2>2. \A i \in 1 .. Len(sa) : ~ Strikes(sa[i], n)
      BY <1>2 DEF Strikes
    <2>3. \A i \in 1 .. Len(sb) : sb[i] = "b_on" /\ (Strikes(sb[i], n) => n = kB_Note)
      BY <1>2 DEF Strikes
    <2> QED
      BY <2>1, <2>2, <2>3
  <1>6. /\ c \in Seq(Played) /\ ~ LeavesOn(c, n)
        /\ Fires("b_off", s, t) /\ n = kB_Note => Releases(c, n)
    <2>1. /\ c \in Seq(Played)
          /\ LeavesOn(c, n) => \E i \in 1 .. 4 : Strikes(sc[i], n)
          /\ Fires("b_off", s, t) /\ Releases(Once["b_off"].sends, n) => Releases(c, n)
      <3>1. Held(sc)
        BY <1>0, <1>3
      <3>2. 4 \in 1 .. Len(sc) /\ Len(sc) = 4 /\ sc[4] = "b_off"
        BY <1>3
      <3> QED
        BY <3>1, <3>2
    <2>2. \A i \in 1 .. 4 : ~ Strikes(sc[i], n)
      BY <1>3 DEF Strikes
    <2> QED
      BY <2>1, <2>2, SceneTable
  <1>7. /\ d \in Seq(Played)
        /\ LeavesOn(d, n) => Fires("f_on", s, t) /\ n = kF_Note /\ ~ Fires("f_off", s, t)
        /\ Fires("f_off", s, t) /\ n = kF_Note => Releases(d, n)
    <2>1. /\ d \in Seq(Played)
          /\ LeavesOn(d, n) => \E i \in 1 .. 15 :
               /\ Fires(sd[i], s, t) /\ Strikes(sd[i], n)
               /\ \A k \in i + 1 .. 15 : ~ (Fires(sd[k], s, t) /\ Releases(Once[sd[k]].sends, n))
          /\ Fires("f_off", s, t) /\ Releases(Once["f_off"].sends, n) => Releases(d, n)
      <3>1. Held(sd)
        BY <1>0, <1>4
      <3>2. 7 \in 1 .. Len(sd) /\ Len(sd) = 15 /\ sd[7] = "f_off"
        BY <1>4
      <3> QED
        BY <3>1, <3>2
    <2>2. \A i \in 1 .. 15 : Strikes(sd[i], n) => i = 6 /\ n = kF_Note
      BY <1>4 DEF Strikes
    <2>3. 7 \in 6 + 1 .. 15
      OBVIOUS
    <2> QED
      BY <1>4, <2>1, <2>2, <2>3, SceneTable
  <1>8. v \in Seq(Played) /\ ~ LeavesOn(v, n)
    <2>1. Other \in Played
      BY DEF Other, Played, Message
    <2>2. <<Other>> \in Seq(Played) /\ ~ LeavesOn(<<Other>>, n)
          /\ <<>> \in Seq(Played) /\ ~ LeavesOn(<<>>, n)
      BY <2>1 DEF LeavesOn, Other
    <2> QED
      BY <2>2
  <1>9. /\ w \in Seq(Played)
        /\ LeavesOn(w, n) =>
             Walks(s, t) /\ n = kC_BaseNote + s.c_idx /\ ~ (Released(s, t) /\ s.c_idx = kC_Count - 1)
        /\ Walks(s, t) /\ s.c_idx > 0 /\ n = kC_BaseNote + s.c_idx - 1 => Releases(w, n)
        /\ Released(s, t) /\ n = kC_BaseNote + kC_Count - 1 => Releases(w, n)
    BY WalkNotes
  <1> HIDE DEF a, b, c, d, v, w
  <1> DEFINE x == b \o v
  <1>10. /\ x \in Seq(Played) /\ (LeavesOn(x, n) => LeavesOn(b, n))
    BY <1>5, <1>8, Joined
  <1> HIDE DEF x
  <1> DEFINE y == x \o c
  <1>11. /\ y \in Seq(Played) /\ (LeavesOn(y, n) => LeavesOn(x, n) /\ ~ Releases(c, n))
         /\ Releases(c, n) => Releases(y, n)
    BY <1>6, <1>10, Joined
  <1> HIDE DEF y
  <1> DEFINE z == a \o y
  <1>12. /\ z \in Seq(Played) /\ (LeavesOn(z, n) => LeavesOn(y, n))
         /\ Releases(y, n) => Releases(z, n)
    BY <1>5, <1>11, Joined
  <1> HIDE DEF z
  <1> DEFINE zw == z \o w
  <1>13. /\ zw \in Seq(Played) /\ (LeavesOn(zw, n) => LeavesOn(z, n) \/ LeavesOn(w, n))
         /\ Releases(z, n) \/ Releases(w, n) => Releases(zw, n)
    BY <1>9, <1>12, Joined
  <1> HIDE DEF zw
  <1>14. /\ zw \o d \in Seq(Played)
         /\ LeavesOn(zw \o d, n) => LeavesOn(zw, n) \/ LeavesOn(d, n)
         /\ Releases(zw, n) \/ Releases(d, n) => Releases(zw \o d, n)
    BY <1>7, <1>13, Joined
  <1>15. Sent(s, t) = zw \o d
    BY <1>1 DEF zw, z, y, x
  <1> QED
    BY <1>5, <1>6, <1>7, <1>9, <1>10, <1>11, <1>12, <1>13, <1>14, <1>15

-----------------------------------------------------------------------------
(* One cycle. *)

(* The notes whose last Off of the cycle has been sent.                    *)
Passed(s) == {j \in 0 .. kC_Count - 1 : "c" \in s.done \/ j < s.c_idx - 1}
Freed(s) ==
  (IF "b_off" \in s.done THEN {kB_Note} ELSE {})
  \union (IF "f_off" \in s.done THEN {kF_Note} ELSE {})
  \union {kC_BaseNote + j : j \in Passed(s)}

(* The scenes that have played are those whose time has come.              *)
InTime(s, now) ==
  /\ \A scene \in DOMAIN Once : scene \in s.done <=> Once[scene].at <= now
  /\ "c" \in s.done => s.c_idx = kC_Count

(* A pass sends the Off of every note it frees, and no On after it.        *)
LEMMA SentFrees ==
  ASSUME NEW s, s.c_idx \in 0 .. kC_Count, NEW now \in Nat, InTime(s, now),
         NEW t \in Nat, NEW n \in Freed(After(s, t))
  PROVE  /\ ~ LeavesOn(Sent(s, t), n)
         /\ n \in Freed(s) \/ Releases(Sent(s, t), n)
  <1> DEFINE u == After(s, t)
  <1>1. /\ kC_Count \in 1 .. 56 /\ kC_BaseNote = 72 /\ kB_Note = 60 /\ kF_Note = 64
    BY Notes DEF kC_BaseNote, kB_Note, kF_Note
  <1>2. /\ u.c_idx = IF Walks(s, t) THEN s.c_idx + 1 ELSE s.c_idx
        /\ Walks(s, t) => s.c_idx < kC_Count
        /\ \A scene \in DOMAIN Once : scene \in u.done =>
             scene \in s.done \/ Fires(scene, s, t) \/ scene = "c"
        /\ "c" \in u.done => "c" \in s.done \/ Released(s, t)
        /\ Released(s, t) => "c" \notin s.done /\ u.c_idx = kC_Count
    <2>1. "c" \notin DOMAIN Once
      BY SceneNames
    <2> QED
      BY <2>1 DEF After, Walked, Walks, Released
  <1>3. /\ LeavesOn(Sent(s, t), n) =>
             \/ Fires("b_on", s, t) /\ n = kB_Note /\ ~ Fires("b_off", s, t)
             \/ Fires("f_on", s, t) /\ n = kF_Note /\ ~ Fires("f_off", s, t)
             \/ Walks(s, t) /\ n = kC_BaseNote + s.c_idx /\ ~ (Released(s, t) /\ s.c_idx = kC_Count - 1)
        /\ Fires("b_off", s, t) /\ n = kB_Note => Releases(Sent(s, t), n)
        /\ Fires("f_off", s, t) /\ n = kF_Note => Releases(Sent(s, t), n)
        /\ Walks(s, t) /\ s.c_idx > 0 /\ n = kC_BaseNote + s.c_idx - 1 => Releases(Sent(s, t), n)
        /\ Released(s, t) /\ n = kC_BaseNote + kC_Count - 1 => Releases(Sent(s, t), n)
    BY SentNotes
  <1>4. /\ "b_off" \in s.done => "b_on" \in s.done
        /\ "f_off" \in s.done => "f_on" \in s.done
    BY SceneTable DEF InTime
  <1>5. /\ "b_on" \in s.done => ~ Fires("b_on", s, t)
        /\ "f_on" \in s.done => ~ Fires("f_on", s, t)
    BY DEF Fires
  <1>6. {"b_off", "f_off"} \subseteq DOMAIN Once
    BY SceneTable
  <1> HIDE DEF u
  <1>7. CASE n = kB_Note /\ "b_off" \in u.done
    <2>1. n \in Freed(s) \/ Fires("b_off", s, t)
      BY <1>2, <1>6, <1>7 DEF Freed
    <2>2. CASE Fires("b_off", s, t)
      BY <1>1, <1>3, <1>7, <2>2
    <2>3. CASE ~ Fires("b_off", s, t)
      <3>1. "b_off" \in s.done
        BY <1>2, <1>6, <1>7, <2>3
      <3> QED
        BY <1>1, <1>3, <1>4, <1>5, <1>7, <2>1, <2>3, <3>1
    <2> QED
      BY <2>2, <2>3
  <1>8. CASE n = kF_Note /\ "f_off" \in u.done
    <2>1. n \in Freed(s) \/ Fires("f_off", s, t)
      BY <1>2, <1>6, <1>8 DEF Freed
    <2>2. CASE Fires("f_off", s, t)
      BY <1>1, <1>3, <1>8, <2>2
    <2>3. CASE ~ Fires("f_off", s, t)
      <3>1. "f_off" \in s.done
        BY <1>2, <1>6, <1>8, <2>3
      <3> QED
        BY <1>1, <1>3, <1>4, <1>5, <1>8, <2>1, <2>3, <3>1
    <2> QED
      BY <2>2, <2>3
  <1>9. CASE \E j \in Passed(u) : n = kC_BaseNote + j
    <2>1. PICK j \in 0 .. kC_Count - 1 :
            n = kC_BaseNote + j /\ ("c" \in u.done \/ j < u.c_idx - 1)
      BY <1>9 DEF Passed
    <2>2. /\ n # kB_Note /\ n # kF_Note
          /\ "c" \in s.done \/ j < s.c_idx - 1 => n \in Freed(s)
      BY <1>1, <2>1 DEF Freed, Passed
    <2>3. CASE "c" \in s.done
      <3>1. ~ Walks(s, t)
        BY <2>3 DEF InTime, Walks
      <3> QED
        BY <1>3, <2>2, <2>3, <3>1
    <2>4. CASE "c" \notin s.done
      <3>1. (Released(s, t) /\ u.c_idx = kC_Count) \/ j < u.c_idx - 1
        BY <1>2, <2>1, <2>4
      <3>2. CASE Walks(s, t)
        <4>1. u.c_idx = s.c_idx + 1 /\ (n = kC_BaseNote + s.c_idx <=> j = s.c_idx)
          BY <1>1, <1>2, <2>1, <3>2
        <4>2. CASE j = kC_Count - 1 /\ Released(s, t)
          <5>1. n = kC_BaseNote + kC_Count - 1 /\ s.c_idx = kC_Count - 1
            BY <1>1, <1>2, <2>1, <4>1, <4>2
          <5> QED
            BY <1>3, <2>2, <4>2, <5>1
        <4>3. CASE ~ (j = kC_Count - 1 /\ Released(s, t))
          <5>1. j < s.c_idx
            BY <1>1, <2>1, <3>1, <4>1, <4>3
          <5>2. j < s.c_idx - 1 \/ (s.c_idx > 0 /\ n = kC_BaseNote + s.c_idx - 1)
            BY <1>1, <2>1, <5>1
          <5>3. n # kC_BaseNote + s.c_idx
            BY <4>1, <5>1
          <5> QED
            BY <1>3, <2>2, <3>2, <5>2, <5>3
        <4> QED
          BY <4>2, <4>3
      <3>3. CASE ~ Walks(s, t)
        <4>1. u.c_idx = s.c_idx
          BY <1>2, <3>3
        <4>2. (Released(s, t) /\ n = kC_BaseNote + kC_Count - 1) \/ j < s.c_idx - 1
          BY <1>1, <2>1, <3>1, <4>1
        <4> QED
          BY <1>3, <2>2, <3>3, <4>2
      <3> QED
        BY <3>2, <3>3
    <2> QED
      BY <2>3, <2>4
  <1>10. n \in Freed(u)
    BY DEF u
  <1> QED
    BY <1>7, <1>8, <1>9, <1>10 DEF Freed

-----------------------------------------------------------------------------
(* Types. *)

(* The flags of the show, the host's and the queue, part by part.          *)
ShowOK ==
  /\ show.done \subseteq DOMAIN Once \union {"c"} /\ show.c_idx \in 0 .. kC_Count
  /\ clock \in WakeTimes \union {0}
FlagsOK == {g_midi_ready, away, undisturbed} \subseteq BOOLEAN
QueueOK == g_rx_msgq \in Seq(DOMAIN Reply) /\ Len(g_rx_msgq) <= RxDepth

(* What rx still has to send can be cut at the end of the run it is in.    *)
TodoOK ==
  /\ todo \in [Threads -> Seq(Played)]
  /\ todo["rx"] \in Seq(Silent) /\ todo["work"] \in Seq(Silent)
  /\ EndsRuns(todo["rx"])
  /\ \A t \in Threads : trying = t => todo[t] # <<>>

(* A part cut off at the front leaves the runs behind it with their End.   *)
LEMMA RestOfRuns ==
  ASSUME NEW S, NEW q \in Seq(S), NEW k \in 0 .. Len(q)
  PROVE  /\ SubSeq(q, 1 + k, Len(q)) \in Seq(S)
         /\ EndsRuns(q) => EndsRuns(SubSeq(q, 1 + k, Len(q)))
  <1> DEFINE r == SubSeq(q, 1 + k, Len(q))
  <1>1. Len(q) \in Nat /\ \A i \in 1 .. Len(q) : q[i] \in S
    BY LenProperties, ElementOfSeq
  <1>2. r \in Seq(S) /\ Len(r) = Len(q) - k /\ \A i \in 1 .. Len(q) - k : r[i] = q[i + k]
    BY <1>1
  <1> HIDE DEF r
  <1>3. ASSUME EndsRuns(q), NEW i \in 1 .. Len(r), r[i].kind # "other"
        PROVE  \E j \in i .. Len(r) : r[j].kind = "end"
    <2>1. i + k \in 1 .. Len(q) /\ q[i + k].kind # "other"
      BY <1>1, <1>2, <1>3
    <2>2. PICK j \in i + k .. Len(q) : q[j].kind = "end"
      BY <1>3, <2>1 DEF EndsRuns
    <2>3. j - k \in i .. Len(r) /\ j - k \in 1 .. Len(q) - k /\ (j - k) + k = j
      BY <1>1, <1>2, <2>1, <2>2
    <2>4. r[j - k].kind = "end"
      BY <1>2, <2>2, <2>3
    <2> QED
      BY <2>3, <2>4
  <1> QED
    BY <1>2, <1>3 DEF EndsRuns, r

(* After each call, whatever became of its packet, what is left is the end *)
(* of what was there.                                                      *)
LEMMA TodoLeft ==
  ASSUME TodoOK, NEW t \in Threads, NEW k \in 0 .. Len(todo[t]), trying' = NoThread,
         todo' = [todo EXCEPT ![t] = SubSeq(todo[t], 1 + k, Len(todo[t]))]
  PROVE  TodoOK'
  <1> DEFINE r == SubSeq(todo[t], 1 + k, Len(todo[t]))
  <1>1. /\ todo \in [Threads -> Seq(Played)] /\ {"rx", "work"} \subseteq Threads
        /\ todo["rx"] \in Seq(Silent) /\ todo["work"] \in Seq(Silent) /\ EndsRuns(todo["rx"])
    BY DEF TodoOK, Threads
  <1>2. /\ r \in Seq(Played)
        /\ t \in {"rx", "work"} => r \in Seq(Silent)
        /\ t = "rx" => EndsRuns(r)
    BY <1>1, RestOfRuns
  <1>3. todo'[t] = r /\ \A u \in Threads : u # t => todo'[u] = todo[u]
    BY <1>1
  <1> HIDE DEF r
  <1>4. todo' \in [Threads -> Seq(Played)]
    BY <1>1, <1>2 DEF r
  <1>5. todo'["rx"] \in Seq(Silent) /\ todo'["work"] \in Seq(Silent) /\ EndsRuns(todo'["rx"])
    BY <1>1, <1>2, <1>3
  <1>6. \A u \in Threads : trying' # u
    BY NoThreadAssumption
  <1> QED
    BY <1>4, <1>5, <1>6 DEF TodoOK

(* A packet given up: a reply is taken up again behind the run it was in.  *)
LEMMA TodoFailure ==
  ASSUME TodoOK, NEW t \in Threads, todo[t] # <<>>, AfterFailure(t), trying' = NoThread
  PROVE  TodoOK'
  <1> DEFINE q    == todo[t]
             ends == {i \in 1 .. Len(q) : q[i].kind = "end"}
             e    == CHOOSE i \in ends : \A j \in ends : i <= j
  <1>1. /\ q \in Seq(Played) /\ Len(q) \in Nat \ {0} /\ Head(q) = q[1]
        /\ Tail(q) = SubSeq(q, 1 + 1, Len(q)) /\ 1 \in 0 .. Len(q)
    <2>1. q \in Seq(Played) /\ q # <<>>
      BY DEF TodoOK
    <2> HIDE DEF q
    <2>2. Len(q) \in Nat \ {0} /\ Head(q) = q[1] /\ Tail(q) = SubSeq(q, 2, Len(q))
      BY <2>1, EmptySeq, TailIsSubSeq
    <2> QED
      BY <2>1, <2>2
  <1>2. CASE t = "rx" /\ Head(q).kind # "other"
    <2>1. \E i \in 1 .. Len(q) : q[i].kind = "end"
      <3>1. EndsRuns(q) /\ 1 \in 1 .. Len(q) /\ q[1].kind # "other"
        BY <1>1, <1>2 DEF TodoOK
      <3> QED
        BY <1>1, <3>1 DEF EndsRuns
    <2>2. ends \subseteq Nat /\ ends # {}
      BY <1>1, <2>1
    <2>3. e \in ends
      <3> HIDE DEF ends
      <3>1. \E i \in ends : \A j \in ends : i <= j
        BY <2>2, LeastElement
      <3> QED
        BY <3>1
    <2>4. todo' = [todo EXCEPT ![t] = SubSeq(q, 1 + e, Len(q))]
      BY <1>2 DEF AfterFailure
    <2>5. e \in 0 .. Len(q)
      BY <1>1, <2>3
    <2> HIDE DEF e
    <2> QED
      BY <2>4, <2>5, TodoLeft
  <1>3. CASE ~ (t = "rx" /\ Head(q).kind # "other")
    <2>1. todo' = [todo EXCEPT ![t] = SubSeq(q, 1 + 1, Len(q))]
      BY <1>1, <1>3 DEF AfterFailure
    <2> QED
      BY <1>1, <2>1, TodoLeft
  <1> QED
    BY <1>2, <1>3

(* A step that sends nothing.                                              *)
LEMMA TodoSame == ASSUME TodoOK, UNCHANGED <<todo, trying>> PROVE TodoOK'
  BY DEF TodoOK, EndsRuns

(* A thread that had nothing left to send takes on something.              *)
LEMMA TodoTaken ==
  ASSUME TodoOK, NEW t \in Threads, todo[t] = <<>>, trying' = trying,
         NEW q \in Seq(Played), todo' = [todo EXCEPT ![t] = q],
         t \in {"rx", "work"} => q \in Seq(Silent), t = "rx" => EndsRuns(q)
  PROVE  TodoOK'
  <1>1. /\ todo \in [Threads -> Seq(Played)] /\ {"rx", "work"} \subseteq Threads
        /\ todo["rx"] \in Seq(Silent) /\ todo["work"] \in Seq(Silent) /\ EndsRuns(todo["rx"])
        /\ \A u \in Threads : trying = u => todo[u] # <<>>
    BY DEF TodoOK, Threads
  <1>2. todo'[t] = q /\ \A u \in Threads : u # t => todo'[u] = todo[u]
    BY <1>1
  <1>3. todo' \in [Threads -> Seq(Played)]
    BY <1>1
  <1>4. todo'["rx"] \in Seq(Silent) /\ todo'["work"] \in Seq(Silent) /\ EndsRuns(todo'["rx"])
    BY <1>1, <1>2
  <1>5. \A u \in Threads : trying' = u => todo'[u] # <<>>
    BY <1>1, <1>2
  <1> QED
    BY <1>3, <1>4, <1>5 DEF TodoOK

(* Every step keeps what is left to send well formed.                      *)
LEMMA TodoStep ==
  ASSUME TodoOK, ShowOK, QueueOK, [Next]_vars
  PROVE  TodoOK'
  <1> USE DEF Threads
  <1>1. CASE Step
    <2>1. Fresh.c_idx \in 0 .. kC_Count /\ show.c_idx \in 0 .. kC_Count
      BY Notes DEF Fresh, ShowOK
    <2>2. PICK s, t : s.c_idx \in 0 .. kC_Count /\ todo' = [todo EXCEPT !["main"] = Sent(s, t)]
      BY <1>1, <2>1 DEF Step
    <2>3. Sent(s, t) \in Seq(Played)
      BY <2>2, SentNotes
    <2>4. todo["main"] = <<>> /\ trying' = trying
      BY <1>1 DEF Step, gate
    <2> QED
      BY <2>2, <2>3, <2>4, TodoTaken
  <1>2. CASE \E m \in DOMAIN Reply : rx_packet_cb(m)
    BY <1>2, TodoSame DEF rx_packet_cb, gate
  <1>3. CASE rx_proc_thread
    <2> DEFINE m == Head(g_rx_msgq)
    <2>1. /\ todo["rx"] = <<>> /\ todo' = [todo EXCEPT !["rx"] = Reply[m]] /\ trying' = trying
          /\ m \in DOMAIN Reply
      BY <1>3, HeadTailProperties DEF rx_proc_thread, gate, QueueOK
    <2>2. Reply[m] \in Seq(Silent) /\ EndsRuns(Reply[m])
      BY <2>1, ZephyrAssumption
    <2> HIDE DEF m
    <2>3. Reply[m] \in Seq(Played)
      BY <2>2, SilentLeavesNone
    <2> QED
      BY <2>1, <2>2, <2>3, TodoTaken
  <1>4. CASE jr_heartbeat
    <2>1. todo["work"] = <<>> /\ todo' = [todo EXCEPT !["work"] = <<Other>>] /\ trying' = trying
      BY <1>4 DEF jr_heartbeat, gate
    <2>2. <<Other>> \in Seq(Silent)
      BY DEF Silent, Other, Message
    <2>3. <<Other>> \in Seq(Played)
      BY <2>2, SilentLeavesNone
    <2> QED
      BY <2>1, <2>2, <2>3, TodoTaken
  <1>5. CASE midi_ready_cb
    BY <1>5, TodoSame DEF midi_ready_cb, gate
  <1>6. ASSUME NEW t \in Threads, Enter(t) PROVE TodoOK'
    <2>1. CASE g_midi_ready
      <3>1. todo' = todo /\ trying' = t /\ todo[t] # <<>>
        BY <1>6, <2>1 DEF Enter
      <3> QED
        BY <3>1 DEF TodoOK, EndsRuns
    <2>2. CASE ~ g_midi_ready
      <3>1. todo[t] # <<>> /\ AfterFailure(t) /\ trying' = NoThread
        BY <1>6, <2>2 DEF Enter, Given, Leave
      <3> QED
        BY <3>1, TodoFailure
    <2> QED
      BY <2>1, <2>2
  <1>7. ASSUME NEW t \in Threads, Try(t) PROVE TodoOK'
    <2>1. todo[t] # <<>> /\ todo[t] \in Seq(Played)
      BY <1>7 DEF Try, TodoOK
    <2>2. CASE Accepted(t)
      <3>1. trying' = NoThread /\ todo' = [todo EXCEPT ![t] = Tail(todo[t])]
        BY <2>2 DEF Accepted, Leave
      <3>2. Tail(todo[t]) = SubSeq(todo[t], 1 + 1, Len(todo[t])) /\ 1 \in 0 .. Len(todo[t])
        BY <2>1, TailIsSubSeq, EmptySeq
      <3> QED
        BY <3>1, <3>2, TodoLeft
    <2>3. CASE Retried
      BY <2>3, TodoSame DEF Retried
    <2>4. CASE GivenUp(t)
      BY <2>1, <2>4, TodoFailure DEF GivenUp, Given, Leave
    <2> QED
      BY <1>7, <2>2, <2>3, <2>4 DEF Try
  <1>8. CASE UNCHANGED vars
    BY <1>8, TodoSame DEF vars, gate
  <1> QED
    BY <1>1, <1>2, <1>3, <1>4, <1>5, <1>6, <1>7, <1>8 DEF Next
(* The walk never goes past its last note, the scenes are those there are. *)
LEMMA ShowStep ==
  ASSUME ShowOK, [Next]_vars
  PROVE  ShowOK'
  <1>1. CASE UNCHANGED <<show, clock>>
    BY <1>1 DEF ShowOK
  <1>2. CASE Step
    <2>1. PICK s, t : /\ show' = After(s, t) /\ clock' = t /\ t \in WakeTimes \union {0}
                      /\ s \in {show, Fresh}
      BY <1>2 DEF Step
    <2>2. s.done \subseteq DOMAIN Once \union {"c"} /\ s.c_idx \in 0 .. kC_Count
      BY <2>1, Notes DEF ShowOK, Fresh
    <2>3. Walked(s, t) \in 0 .. kC_Count
      BY <2>2, Notes DEF Walked, Walks
    <2>4. /\ show'.c_idx = Walked(s, t)
          /\ show'.done \subseteq DOMAIN Once \union {"c"}
      BY <2>1, <2>2 DEF After
    <2> QED
      BY <2>1, <2>3, <2>4 DEF ShowOK
  <1> QED
    BY <1>1, <1>2 DEF Next, vars, showVars, rx_packet_cb, rx_proc_thread, jr_heartbeat,
       midi_ready_cb, Enter, Try

(* The flags stay flags.                                                   *)
LEMMA FlagsStep ==
  ASSUME FlagsOK, [Next]_vars
  PROVE  FlagsOK'
  <1>1. g_midi_ready' \in {g_midi_ready, ~ g_midi_ready}
    BY DEF Next, Step, vars, rx_packet_cb, rx_proc_thread, jr_heartbeat, midi_ready_cb, Enter, Try
  <1>2. away' \in {away, FALSE, away \/ g_midi_ready}
    BY DEF Next, Step, vars, showVars, rx_packet_cb, rx_proc_thread, jr_heartbeat, midi_ready_cb,
       Enter, Try
  <1>3. undisturbed' \in {undisturbed, TRUE} \union {undisturbed /\ t # "main" : t \in Threads}
                         \union {undisturbed /\ ~ g_midi_ready}
    BY DEF Next, Step, vars, rx_packet_cb, rx_proc_thread, jr_heartbeat, midi_ready_cb,
       Enter, Try, Given, Accepted, Retried, GivenUp
  <1> QED
    BY <1>1, <1>2, <1>3, Zenon DEF FlagsOK

(* The receive queue keeps its depth: what does not fit is dropped.        *)
LEMMA QueueStep ==
  ASSUME QueueOK, [Next]_vars
  PROVE  QueueOK'
  <1>1. CASE UNCHANGED g_rx_msgq
    BY <1>1 DEF QueueOK
  <1>2. CASE \E m \in DOMAIN Reply : rx_packet_cb(m)
    <2>1. PICK m \in DOMAIN Reply : g_rx_msgq' = Append(g_rx_msgq, m) /\ Len(g_rx_msgq) < RxDepth
      BY <1>2 DEF rx_packet_cb
    <2>2. RxDepth \in Nat /\ Len(g_rx_msgq) \in Nat
      BY ZephyrAssumption, LenProperties DEF QueueOK
    <2> QED
      BY <2>1, <2>2 DEF QueueOK
  <1>3. CASE rx_proc_thread
    <2>1. g_rx_msgq # <<>> /\ g_rx_msgq' = Tail(g_rx_msgq)
      BY <1>3 DEF rx_proc_thread
    <2>2. RxDepth \in Nat /\ Len(g_rx_msgq) \in Nat
      BY ZephyrAssumption, LenProperties DEF QueueOK
    <2>3. Tail(g_rx_msgq) \in Seq(DOMAIN Reply) /\ Len(Tail(g_rx_msgq)) = Len(g_rx_msgq) - 1
      BY <2>1, HeadTailProperties DEF QueueOK
    <2> QED
      BY <2>1, <2>2, <2>3 DEF QueueOK
  <1> QED
    BY <1>1, <1>2, <1>3 DEF Next, Step, vars, jr_heartbeat, midi_ready_cb, Enter, Try

TypeInv == IInv /\ ShowOK /\ FlagsOK /\ QueueOK /\ TodoOK

(* The invariant holds at power-on.                                        *)
LEMMA TypeStart == Init => TypeInv
  <1> SUFFICES ASSUME Init PROVE TypeInv
    OBVIOUS
  <1>1. IInv
    BY InitInv
  <1>2. ShowOK /\ FlagsOK
    <2>1. show = NoShow /\ clock = 0
      BY DEF Init
    <2>2. ShowOK
      BY <2>1, Notes DEF ShowOK, NoShow
    <2>3. g_midi_ready = FALSE /\ away = FALSE /\ undisturbed = FALSE
      BY DEF Init
    <2>4. FlagsOK
      BY <2>3, Zenon DEF FlagsOK
    <2> QED
      BY <2>2, <2>4
  <1>3. QueueOK
    BY ZephyrAssumption DEF Init, QueueOK
  <1>4. TodoOK
    BY NoThreadAssumption DEF Init, TodoOK, EndsRuns, Threads
  <1> QED
    BY <1>1, <1>2, <1>3, <1>4 DEF TypeInv

(* It is inductive,                                                        *)
LEMMA TypeStep == TypeInv /\ [Next]_vars => TypeInv'
  BY StepInv, ShowStep, FlagsStep, QueueStep, TodoStep DEF TypeInv

(* and so holds in every state.                                            *)
LEMMA TypeInvariance == Spec => []TypeInv
  BY TypeStart, TypeStep, PTL DEF Spec

(* Whatever is sent and refused, the gate's locks are accounted for, the   *)
(* receive queue keeps its depth, the walk its length, and a reply that is *)
(* given up is taken up again behind the End of the run it was in.         *)
THEOREM TypeCorrect == Spec => []TypeOK
  <1>1. TypeInv => TypeOK
    <2> SUFFICES ASSUME TypeInv PROVE TypeOK
      OBVIOUS
    <2>1. \A t \in Threads : todo[t] \in Seq(Message)
      <3>1. \A t \in Threads : todo[t] \in Seq(Played)
        BY DEF TypeInv, TodoOK
      <3> QED
        BY <3>1, Notes, SeqMonotonic
    <2> QED
      BY <2>1 DEF TypeInv, IInv, ShowOK, FlagsOK, QueueOK, TypeOK
  <1> QED
    BY <1>1, TypeInvariance, PTL

-----------------------------------------------------------------------------
(* A whole cycle. *)

(* The times of the scenes are milliseconds since the cycle began.         *)
LEMMA TimesAreNatural == \A x \in DOMAIN Once : Once[x].at \in Nat
  <1> DEFINE Timed(scenes) == \A x \in DOMAIN scenes : scenes[x].at \in Nat
  <1>1. /\ Timed(scene_a_flex) /\ Timed(scene_d_program) /\ Timed(scene_h_dctpq)
        /\ Timed(scene_i_pe_notify) /\ Timed(scene_j_clip_end) /\ Timed(scene_l_system)
        /\ Timed(scene_m_metadata) /\ Timed(scene_n_utility)
    BY DEF scene_a_flex, scene_d_program, scene_h_dctpq, scene_i_pe_notify, scene_j_clip_end,
       scene_l_system, scene_m_metadata, scene_n_utility
  <1>2. Timed(scene_g_sysex7) /\ Timed(scene_k_midi1_cv)
    BY DEF scene_g_sysex7, scene_k_midi1_cv
  <1>3. Timed(PerNote) /\ Timed(scene_e_rpn_nrpn) /\ Timed(scene_f_attribute)
    BY DEF PerNote, scene_e_rpn_nrpn, scene_f_attribute
  <1> HIDE DEF Timed
  <1>4. \A scene \in Scenes : Timed(scene)
    BY <1>1, <1>2, <1>3 DEF Scenes
  <1>5. ASSUME NEW x \in DOMAIN Once PROVE Once[x].at \in Nat
    <2> DEFINE p == CHOOSE scene \in Scenes : x \in DOMAIN scene
    <2>1. \E scene \in Scenes : x \in DOMAIN scene
      BY DEF Once
    <2>2. p \in Scenes /\ x \in DOMAIN p
      BY <2>1
    <2>3. Once[x] = p[x]
      BY DEF Once
    <2> HIDE DEF p
    <2> QED
      BY <1>4, <2>2, <2>3 DEF Timed
  <1> QED
    BY <1>5

(* The times at which the walk must go on, and the last one of the cycle.  *)
W == CHOOSE w \in [1 .. kC_Count + 1 -> WakeTimes] : Timetable(w)

(* While the host is there, the walk keeps to its timetable.               *)
Walking(s, now) ==
  /\ \A i \in 1 .. kC_Count : now >= W[i] => s.c_idx >= i
  /\ s.c_last \in Nat
  /\ s.c_idx > 0 => /\ s.c_last \in kC_StartMs .. now
                    /\ s.c_last <= W[s.c_idx] + MaxLateMs
  /\ now >= W[kC_Count + 1] => "c" \in s.done

(* main wakes inside the cycle, after its first pass.                      *)
LEMMA WakesAreNatural ==
  kCycleMs \in Nat /\ \A t \in WakeTimes : t \in Nat \ {0} /\ t < kCycleMs
  <1>1. WakeTimes \subseteq 1 .. kCycleMs - 1
    BY ZephyrAssumption
  <1>2. kCycleMs \in Nat
    BY DEF kCycleMs
  <1> QED
    BY <1>1, <1>2

(* The timetable that the assumption promises.                             *)
LEMMA Timing ==
  /\ Timetable(W) /\ \A i \in 1 .. kC_Count + 1 : W[i] \in WakeTimes /\ W[i] \in Nat \ {0}
  /\ MaxLateMs \in Nat /\ kC_Count \in 1 .. 56
  /\ kC_StartMs = 7000 /\ kC_StepMs = 500 /\ kC_EndMs \in Nat
  <1>1. W \in [1 .. kC_Count + 1 -> WakeTimes] /\ Timetable(W)
    <2> HIDE DEF W
    <2> QED
      BY WakeAssumption DEF W
  <1>2. MaxLateMs \in Nat /\ kC_Count \in 1 .. 56
    BY Notes, ZephyrAssumption
  <1>3. kC_StartMs = 7000 /\ kC_StepMs = 500
    BY DEF kC_StartMs, kC_StepMs
  <1>4. kC_EndMs \in Nat
    BY <1>2, <1>3 DEF kC_EndMs
  <1>5. WakeTimes \subseteq Nat \ {0}
    BY WakesAreNatural
  <1>6. \A i \in 1 .. kC_Count + 1 : W[i] \in WakeTimes /\ W[i] \in Nat \ {0}
    <2> HIDE DEF W
    <2> QED
      BY <1>1, <1>5
  <1> QED
    BY <1>1, <1>2, <1>3, <1>4, <1>6

(* How late main may be: past no wake time by more than MaxLateMs.         *)
Close(now, t) == \A x \in WakeTimes : now < x /\ x < t => t - x <= MaxLateMs

(* A pass plays the scenes that have become due.                           *)
LEMMA StillInTime ==
  ASSUME NEW s, NEW now \in Nat, InTime(s, now), NEW t \in Nat, t > now
  PROVE  InTime(After(s, t), t)
  <1> DEFINE u == After(s, t)
  <1>1. "c" \notin DOMAIN Once
    BY SceneNames
  <1>2. /\ \A scene \in DOMAIN Once : scene \in u.done <=> scene \in s.done \/ Fires(scene, s, t)
        /\ "c" \in u.done <=> "c" \in s.done \/ Released(s, t)
        /\ u.c_idx = Walked(s, t)
    BY <1>1 DEF After
  <1> HIDE DEF u
  <1>3. ASSUME NEW scene \in DOMAIN Once PROVE scene \in u.done <=> Once[scene].at <= t
    BY <1>2, TimesAreNatural DEF InTime, Fires
  <1>4. ASSUME "c" \in u.done PROVE u.c_idx = kC_Count
    <2>1. CASE Released(s, t)
      BY <1>2, <2>1 DEF Released
    <2>2. CASE "c" \in s.done
      <3>1. s.c_idx = kC_Count /\ kC_Count \in Nat
        BY <2>2, Notes DEF InTime
      <3> QED
        BY <1>2, <3>1 DEF Walked, Walks
    <2> QED
      BY <1>2, <1>4, <2>1, <2>2
  <1> QED
    BY <1>3, <1>4 DEF InTime, u

(* A note is due while the one before it was struck long enough ago.       *)
LEMMA StillWalking ==
  ASSUME NEW s, s.c_idx \in 0 .. kC_Count, NEW now \in Nat, Walking(s, now),
         NEW t \in Nat, t > now, Close(now, t)
  PROVE  Walking(After(s, t), t)
  <1> DEFINE u == After(s, t)
             k == s.c_idx
  <1>1. /\ u.c_idx = IF Walks(s, t) THEN k + 1 ELSE k
        /\ u.c_last = IF Walks(s, t) THEN t ELSE s.c_last
        /\ "c" \in u.done <=> "c" \in s.done \/ Released(s, t)
    <2>1. "c" \notin DOMAIN Once
      BY SceneNames
    <2> QED
      BY <2>1 DEF After, Walked
  <1>2. ASSUME NEW i \in 1 .. kC_Count + 1, t >= W[i]
        PROVE  now >= W[i] \/ t <= W[i] + MaxLateMs
    BY <1>2, Timing DEF Close
  <1>3. ASSUME NEW i \in 1 .. kC_Count PROVE W[i + 1] >= W[i] + kC_StepMs + MaxLateMs
    BY Timing DEF Timetable
  <1>4. k \in 0 .. kC_Count /\ k \in Nat /\ s.c_last \in Nat
    BY Timing DEF Walking
  <1> HIDE DEF u
  <1>5. ASSUME NEW i \in 1 .. kC_Count + 1, t >= W[i] PROVE k >= i - 1
    <2>1. CASE i = 1
      BY <1>4, <2>1
    <2>2. CASE i # 1
      <3> DEFINE j == i - 1
      <3>1. j \in 1 .. kC_Count /\ j + 1 = i /\ W[i] \in Nat /\ W[j] \in Nat
        BY <2>2, Timing
      <3> HIDE DEF j
      <3>2. W[i] >= W[j] + kC_StepMs + MaxLateMs
        BY <1>3, <3>1
      <3>3. t > W[j] + MaxLateMs /\ t >= W[j]
        BY <1>5, <3>1, <3>2, Timing
      <3>4. now >= W[j]
        <4>1. j \in 1 .. kC_Count + 1
          BY <3>1, Timing
        <4>2. now >= W[j] \/ t <= W[j] + MaxLateMs
          BY <1>2, <3>3, <4>1
        <4> QED
          BY <3>1, <3>3, <4>2, Timing
      <3> QED
        BY <3>1, <3>4 DEF Walking, j
    <2> QED
      BY <2>1, <2>2
  <1>6. ASSUME NEW i \in 1 .. kC_Count, t >= W[i] PROVE u.c_idx >= i
    <2>1. CASE k >= i
      BY <1>1, <1>4, <2>1
    <2>2. CASE ~ (k >= i)
      <3>1. i = k + 1 /\ k < kC_Count
        <4>1. i \in 1 .. kC_Count + 1 /\ i \in Nat
          BY Timing
        <4>2. k >= i - 1
          BY <1>5, <1>6, <4>1
        <4> QED
          BY <1>4, <2>2, <4>1, <4>2, Timing
      <3>2. Walks(s, t)
        <4>1. CASE k = 0
          <5>1. i = 1 /\ W[1] >= kC_StartMs /\ W[1] \in Nat
            BY <3>1, <4>1, Timing DEF Timetable
          <5>2. t >= kC_StartMs
            BY <1>6, <5>1, Timing
          <5> QED
            BY <3>1, <4>1, <5>2 DEF Walks
        <4>2. CASE k # 0
          <5>1. k \in 1 .. kC_Count /\ W[k] \in Nat /\ W[i] \in Nat
            BY <1>4, <3>1, <4>2, Timing
          <5>2. W[i] >= W[k] + kC_StepMs + MaxLateMs
            BY <1>3, <3>1, <5>1
          <5>3. s.c_last \in kC_StartMs .. now /\ s.c_last <= W[k] + MaxLateMs
            BY <5>1 DEF Walking
          <5>4. t - s.c_last >= kC_StepMs /\ t >= kC_StartMs
            BY <1>6, <5>1, <5>2, <5>3, Timing
          <5> QED
            BY <3>1, <5>4 DEF Walks
        <4> QED
          BY <4>1, <4>2
      <3> QED
        BY <1>1, <3>1, <3>2, <1>4
    <2> QED
      BY <2>1, <2>2
  <1>7. /\ u.c_last \in Nat
        /\ u.c_idx > 0 => u.c_last \in kC_StartMs .. t /\ u.c_last <= W[u.c_idx] + MaxLateMs
    <2>1. CASE Walks(s, t)
      <3>1. t >= kC_StartMs /\ k < kC_Count /\ u.c_last = t /\ u.c_idx = k + 1
        BY <1>1, <2>1 DEF Walks
      <3> DEFINE j == k + 1
      <3>2. j \in 1 .. kC_Count /\ j \in 1 .. kC_Count + 1 /\ W[j] \in Nat /\ ~ (k >= j)
        BY <1>4, <3>1, Timing
      <3> HIDE DEF j
      <3>3. ~ (now >= W[j])
        BY <3>2 DEF Walking
      <3>4. t <= W[j] + MaxLateMs
        <4>1. CASE t >= W[j]
          BY <1>2, <3>2, <3>3, <4>1
        <4>2. CASE ~ (t >= W[j])
          BY <3>2, <4>2, Timing
        <4> QED
          BY <4>1, <4>2
      <3>5. t \in kC_StartMs .. t
        BY <3>1, Timing
      <3> QED
        BY <3>1, <3>4, <3>5 DEF j
    <2>2. CASE ~ Walks(s, t)
      <3>1. u.c_last = s.c_last /\ u.c_idx = k
        BY <1>1, <2>2
      <3>2. k > 0 => s.c_last \in kC_StartMs .. now /\ s.c_last <= W[k] + MaxLateMs
        BY DEF Walking
      <3>3. k > 0 => s.c_last \in kC_StartMs .. t
        BY <3>2, Timing
      <3> QED
        BY <1>4, <3>1, <3>2, <3>3
    <2> QED
      BY <2>1, <2>2
  <1>8. ASSUME t >= W[kC_Count + 1] PROVE "c" \in u.done
    <2>1. kC_Count + 1 \in 1 .. kC_Count + 1 /\ (kC_Count + 1) - 1 = kC_Count
          /\ W[kC_Count + 1] \in Nat /\ W[kC_Count + 1] >= kC_EndMs
      BY Timing DEF Timetable
    <2>2. k >= kC_Count
      BY <1>5, <1>8, <2>1
    <2>3. k = kC_Count /\ Walked(s, t) = kC_Count
      BY <1>4, <2>2, Timing DEF Walked, Walks
    <2>4. t >= kC_EndMs
      BY <1>8, <2>1, Timing
    <2> QED
      BY <1>1, <2>3, <2>4 DEF Released
  <1> QED
    BY <1>6, <1>7, <1>8 DEF Walking, u

(* A list of messages whose first one has been sent.                       *)
LEMMA TailNotes ==
  ASSUME NEW S, NEW q \in Seq(S), q # <<>>, NEW n
  PROVE  /\ ~ LeavesOn(q, n) => ~ LeavesOn(Tail(q), n)
         /\ ~ LeavesOn(q, n) /\ Head(q).kind = "on" /\ Head(q).note = n => Releases(Tail(q), n)
         /\ Releases(q, n) /\ ~ (Head(q).kind = "off" /\ Head(q).note = n) => Releases(Tail(q), n)
  <1> DEFINE r == Tail(q)
  <1>1. /\ Len(q) \in Nat \ {0} /\ Len(r) = Len(q) - 1 /\ Head(q) = q[1]
        /\ \A i \in 1 .. Len(r) : r[i] = q[i + 1]
    <2>1. Len(q) \in Nat \ {0} /\ Head(q) = q[1]
      BY EmptySeq
    <2>2. Len(r) = Len(q) - 1 /\ \A i \in 1 .. Len(r) : r[i] = q[i + 1]
      BY HeadTailProperties
    <2> QED
      BY <2>1, <2>2
  <1> HIDE DEF r
  <1>2. \A i \in 2 .. Len(q) : i - 1 \in 1 .. Len(r) /\ r[i - 1] = q[i]
    <2>1. ASSUME NEW i \in 2 .. Len(q) PROVE i - 1 \in 1 .. Len(r) /\ (i - 1) + 1 = i
      BY <1>1
    <2> QED
      BY <1>1, <2>1
  <1>3. ASSUME ~ LeavesOn(q, n), LeavesOn(r, n) PROVE FALSE
    <2>1. PICK i \in 1 .. Len(r) :
            /\ r[i].kind = "on" /\ r[i].note = n
            /\ \A j \in i + 1 .. Len(r) : ~ (r[j].kind = "off" /\ r[j].note = n)
      BY <1>3 DEF LeavesOn
    <2>2. i + 1 \in 1 .. Len(q) /\ q[i + 1].kind = "on" /\ q[i + 1].note = n
      BY <1>1, <2>1
    <2>3. ASSUME NEW j \in (i + 1) + 1 .. Len(q) PROVE ~ (q[j].kind = "off" /\ q[j].note = n)
      <3>1. j \in 2 .. Len(q) /\ j - 1 \in i + 1 .. Len(r)
        BY <1>1, <2>2
      <3> QED
        BY <1>2, <2>1, <3>1
    <2> QED
      BY <1>3, <2>2, <2>3 DEF LeavesOn
  <1>4. ASSUME ~ LeavesOn(q, n), q[1].kind = "on", q[1].note = n PROVE Releases(r, n)
    <2>1. 1 \in 1 .. Len(q) /\ 1 + 1 = 2
      BY <1>1
    <2>2. PICK j \in 2 .. Len(q) : q[j].kind = "off" /\ q[j].note = n
      BY <1>4, <2>1 DEF LeavesOn
    <2> QED
      BY <1>2, <2>2 DEF Releases
  <1>5. ASSUME Releases(q, n), ~ (q[1].kind = "off" /\ q[1].note = n) PROVE Releases(r, n)
    <2>1. PICK i \in 1 .. Len(q) : q[i].kind = "off" /\ q[i].note = n
      BY <1>5 DEF Releases
    <2>2. i \in 2 .. Len(q)
      BY <1>1, <1>5, <2>1
    <2> QED
      BY <1>2, <2>1, <2>2 DEF Releases
  <1> QED
    BY <1>1, <1>3, <1>4, <1>5 DEF r

(* What main has still to send silences a note, if it sounds at all.       *)
Silences(n) ==
  /\ ~ LeavesOn(todo["main"], n)
  /\ n \in sounding => Releases(todo["main"], n)

(* While the host has been there and taken everything, the show is where   *)
(* its clock is, and whatever note has had its last Off is silent, or will *)
(* be when main has sent what it is sending.                               *)
CycleOK ==
  /\ sounding \subseteq kNotes
  /\ undisturbed => /\ ~ away
                    /\ InTime(show, clock) /\ Walking(show, clock)
                    /\ \A n \in Freed(show) : Silences(n)

(* A step that touches neither the show nor what main sends.               *)
LEMMA CycleSame ==
  ASSUME CycleOK, UNCHANGED <<show, clock, sounding>>, todo'["main"] = todo["main"],
         undisturbed' => undisturbed /\ away' = away
  PROVE  CycleOK'
  <1>1. sounding' \subseteq kNotes
    BY DEF CycleOK
  <1>2. ASSUME undisturbed'
        PROVE  /\ ~ away' /\ InTime(show', clock') /\ Walking(show', clock')
               /\ \A n \in Freed(show') : n \in Freed(show) /\ Silences(n)
    BY <1>2 DEF CycleOK
  <1>3. ASSUME NEW n, Silences(n) PROVE Silences(n)'
    BY <1>3 DEF Silences
  <1> QED
    BY <1>1, <1>2, <1>3 DEF CycleOK

(* The first pass of a cycle.                                              *)
LEMMA FreshIsInTime ==
  /\ InTime(After(Fresh, 0), 0) /\ Walking(After(Fresh, 0), 0)
  /\ Freed(After(Fresh, 0)) = {}
  <1> DEFINE u == After(Fresh, 0)
  <1>1. "c" \notin DOMAIN Once
    BY SceneNames
  <1>2. ~ Walks(Fresh, 0) /\ Walked(Fresh, 0) = 0 /\ ~ Released(Fresh, 0)
    BY Timing DEF Walks, Walked, Released, Fresh
  <1>3. /\ u.c_idx = 0 /\ u.c_last = 0 /\ "c" \notin u.done
        /\ \A scene \in DOMAIN Once : scene \in u.done <=> Fires(scene, Fresh, 0)
    BY <1>1, <1>2 DEF After, Fresh
  <1> HIDE DEF u
  <1>4. \A scene \in DOMAIN Once : Fires(scene, Fresh, 0) <=> Once[scene].at <= 0
    BY DEF Fires, Fresh
  <1>5. InTime(u, 0)
    BY <1>3, <1>4 DEF InTime
  <1>6. Walking(u, 0)
    <2>1. \A i \in 1 .. kC_Count : ~ (0 >= W[i])
      BY Timing
    <2>2. ~ (0 >= W[kC_Count + 1])
      BY Timing
    <2> QED
      BY <1>3, <2>1, <2>2 DEF Walking
  <1>7. Freed(u) = {}
    <2>1. "b_off" \notin u.done /\ "f_off" \notin u.done
      BY <1>5, SceneTable DEF InTime
    <2>2. Passed(u) = {}
      BY <1>3, Notes DEF Passed
    <2> QED
      BY <2>1, <2>2 DEF Freed
  <1> QED
    BY <1>5, <1>6, <1>7 DEF u

(* A pass of main, the first of a cycle or a later one.                    *)
LEMMA CycleOfMain ==
  ASSUME TypeInv, CycleOK, Step
  PROVE  CycleOK'
  <1>1. /\ todo["main"] = <<>> /\ UNCHANGED sounding /\ away' = FALSE
        /\ todo \in [Threads -> Seq(Played)] /\ "main" \in Threads
        /\ show.c_idx \in 0 .. kC_Count
    BY DEF TypeInv, TodoOK, ShowOK, Step, gate, Threads
  <1>2. clock \in Nat /\ WakeTimes \subseteq Nat
    <2>1. WakeTimes \subseteq Nat
      BY WakesAreNatural
    <2> QED
      BY <2>1 DEF TypeInv, ShowOK
  <1>3. sounding' \subseteq kNotes
    BY <1>1 DEF CycleOK
  <1>4. CASE clock' = 0 /\ show' = After(Fresh, 0)
    BY <1>1, <1>3, <1>4, FreshIsInTime DEF CycleOK
  <1>5. ASSUME NEW to \in WakeTimes, Wakes(to), clock' = to, show' = After(show, to),
               UNCHANGED undisturbed, todo' = [todo EXCEPT !["main"] = Sent(show, to)],
               undisturbed'
        PROVE  /\ ~ away' /\ InTime(show', clock') /\ Walking(show', clock')
               /\ \A n \in Freed(show') : Silences(n)'
    <2>1. /\ ~ away /\ InTime(show, clock) /\ Walking(show, clock)
          /\ \A n \in Freed(show) : Silences(n)
      BY <1>5 DEF CycleOK
    <2>2. to \in Nat /\ to > clock /\ Close(clock, to)
      BY <1>2, <1>5, <2>1 DEF Wakes, Close
    <2>3. InTime(show', clock')
      BY <1>2, <1>5, <2>1, <2>2, StillInTime
    <2>4. Walking(show', clock')
      BY <1>1, <1>2, <1>5, <2>1, <2>2, StillWalking
    <2>5. ASSUME NEW n \in Freed(show') PROVE Silences(n)'
      <3>1. ~ LeavesOn(Sent(show, to), n) /\ (n \in Freed(show) \/ Releases(Sent(show, to), n))
        BY <1>1, <1>2, <1>5, <2>1, <2>2, SentFrees
      <3>2. todo'["main"] = Sent(show, to)
        BY <1>1, <1>5
      <3>3. n \in Freed(show) => n \notin sounding
        <4>1. ~ Releases(<<>>, n)
          BY DEF Releases
        <4> QED
          BY <1>1, <2>1, <4>1 DEF Silences
      <3> QED
        BY <1>1, <3>1, <3>2, <3>3 DEF Silences
    <2> QED
      BY <1>1, <2>3, <2>4, <2>5
  <1>6. CASE \E to \in WakeTimes :
               /\ Wakes(to) /\ clock' = to /\ show' = After(show, to) /\ UNCHANGED undisturbed
               /\ todo' = [todo EXCEPT !["main"] = Sent(show, to)]
    <2>1. undisturbed' => /\ ~ away' /\ InTime(show', clock') /\ Walking(show', clock')
                          /\ \A n \in Freed(show') : Silences(n)'
      BY <1>5, <1>6
    <2> QED
      BY <1>3, <2>1 DEF CycleOK
  <1> QED
    BY <1>4, <1>6 DEF Step

(* A packet that is not sent disturbs the cycle if it is main's.           *)
LEMMA CycleOfGiven ==
  ASSUME TypeInv, CycleOK, NEW t \in Threads, Given(t), UNCHANGED showVars
  PROVE  CycleOK'
  <1>1. /\ UNCHANGED <<show, clock, away, sounding>>
        /\ todo \in [Threads -> Seq(Played)] /\ AfterFailure(t)
    BY DEF TypeInv, TodoOK, Given, showVars
  <1>2. CASE t = "main"
    <2>1. sounding' \subseteq kNotes /\ ~ undisturbed'
      BY <1>1, <1>2 DEF CycleOK, Given
    <2> QED
      BY <2>1 DEF CycleOK
  <1>3. CASE t # "main"
    <2>1. todo'["main"] = todo["main"]
      BY <1>1, <1>3 DEF AfterFailure, Threads
    <2>2. undisturbed' => undisturbed
      BY DEF Given
    <2> QED
      BY <1>1, <2>1, <2>2, CycleSame
  <1> QED
    BY <1>2, <1>3

(* A message the host takes: its On or Off is one less still to be sent.   *)
LEMMA CycleOfAccepted ==
  ASSUME TypeInv, CycleOK, NEW t \in Threads, Try(t), Accepted(t)
  PROVE  CycleOK'
  <1> DEFINE q == todo[t]
             m == Head(q)
  <1>1. /\ UNCHANGED <<show, clock, away, undisturbed>>
        /\ todo \in [Threads -> Seq(Played)] /\ todo' = [todo EXCEPT ![t] = Tail(q)]
        /\ sounding' = CASE m.kind = "on"  -> sounding \union {m.note}
                         [] m.kind = "off" -> sounding \ {m.note}
                         [] OTHER          -> sounding
        /\ q # <<>> /\ q \in Seq(Played)
    BY DEF TypeInv, TodoOK, Try, Accepted, showVars
  <1>2. m \in Played /\ (t # "main" => m \in Silent)
    <2>1. m \in Played
      BY <1>1, HeadTailProperties
    <2>2. t # "main" => q \in Seq(Silent)
      BY DEF TypeInv, TodoOK, Threads
    <2>3. t # "main" => m \in Silent
      BY <1>1, <2>2, HeadTailProperties
    <2> QED
      BY <2>1, <2>3
  <1> HIDE DEF m
  <1>3. sounding' \subseteq kNotes
    <2>1. m.kind = "on" => m.note \in kNotes
      BY <1>2 DEF Played
    <2> QED
      BY <1>1, <2>1 DEF CycleOK
  <1>4. CASE t # "main"
    <2>1. sounding' = sounding /\ todo'["main"] = todo["main"]
      BY <1>1, <1>2, <1>4 DEF Silent, Threads
    <2> QED
      BY <1>1, <2>1, CycleSame
  <1>5. CASE t = "main"
    <2>1. todo'["main"] = Tail(q) /\ q = todo["main"]
      BY <1>1, <1>5
    <2>2. ASSUME NEW n, Silences(n) PROVE Silences(n)'
      <3>1. /\ ~ LeavesOn(q, n) /\ (n \in sounding => Releases(q, n))
        BY <2>1, <2>2 DEF Silences
      <3>2. /\ ~ LeavesOn(Tail(q), n)
            /\ m.kind = "on" /\ m.note = n => Releases(Tail(q), n)
            /\ Releases(q, n) /\ ~ (m.kind = "off" /\ m.note = n) => Releases(Tail(q), n)
        <4> HIDE DEF q
        <4> QED
          BY <1>1, <3>1, TailNotes DEF m
      <3>3. n \in sounding' => \/ m.kind = "on" /\ m.note = n
                               \/ n \in sounding /\ ~ (m.kind = "off" /\ m.note = n)
        BY <1>1
      <3> QED
        BY <2>1, <3>1, <3>2, <3>3 DEF Silences
    <2>3. undisturbed' => /\ ~ away' /\ InTime(show', clock') /\ Walking(show', clock')
                          /\ \A n \in Freed(show') : Silences(n)'
      BY <1>1, <2>2 DEF CycleOK
    <2> QED
      BY <1>3, <2>3 DEF CycleOK
  <1> QED
    BY <1>4, <1>5

(* Every step keeps the invariant of the cycle.                            *)
LEMMA CycleStep ==
  ASSUME TypeInv, CycleOK, [Next]_vars
  PROVE  CycleOK'
  <1>1. CASE Step
    BY <1>1, CycleOfMain
  <1>2. CASE \E m \in DOMAIN Reply : rx_packet_cb(m)
    BY <1>2, CycleSame DEF rx_packet_cb, showVars, gate
  <1>3. ASSUME NEW t \in {"rx", "work"}, NEW q, todo' = [todo EXCEPT ![t] = q],
               UNCHANGED <<showVars, gate, undisturbed>>
        PROVE  CycleOK'
    <2>1. todo'["main"] = todo["main"]
      BY <1>3 DEF TypeInv, TodoOK, Threads
    <2> QED
      BY <1>3, <2>1, CycleSame DEF showVars, gate
  <1>4. CASE rx_proc_thread
    BY <1>3, <1>4 DEF rx_proc_thread
  <1>5. CASE jr_heartbeat
    BY <1>3, <1>5 DEF jr_heartbeat
  <1>6. CASE midi_ready_cb
    <2>1. UNCHANGED <<show, clock, sounding, todo>>
      BY <1>6 DEF midi_ready_cb, gate
    <2>2. undisturbed' => undisturbed /\ away' = away
      <3>1. undisturbed' = (undisturbed /\ ~ g_midi_ready) /\ away' = (away \/ g_midi_ready)
        BY <1>6 DEF midi_ready_cb
      <3>2. away \in BOOLEAN
        BY Zenon DEF TypeInv, FlagsOK
      <3> QED
        BY <3>1, <3>2
    <2> QED
      BY <2>1, <2>2, CycleSame
  <1>7. ASSUME NEW t \in Threads, Enter(t) PROVE CycleOK'
    <2>1. CASE g_midi_ready
      BY <1>7, <2>1, CycleSame DEF Enter, showVars
    <2>2. CASE ~ g_midi_ready
      BY <1>7, <2>2, CycleOfGiven DEF Enter
    <2> QED
      BY <2>1, <2>2
  <1>8. ASSUME NEW t \in Threads, Try(t) PROVE CycleOK'
    <2>1. CASE Accepted(t)
      BY <1>8, <2>1, CycleOfAccepted
    <2>2. CASE Retried
      BY <1>8, <2>2, CycleSame DEF Try, Retried, showVars
    <2>3. CASE GivenUp(t)
      BY <1>8, <2>3, CycleOfGiven DEF Try, GivenUp
    <2> QED
      BY <1>8, <2>1, <2>2, <2>3 DEF Try
  <1>9. CASE UNCHANGED vars
    BY <1>9, CycleSame DEF vars, showVars, gate
  <1> QED
    BY <1>1, <1>2, <1>4, <1>5, <1>6, <1>7, <1>8, <1>9 DEF Next

(* Before the first cycle nothing is promised.                             *)
LEMMA CycleStart == Init => CycleOK
  BY DEF Init, CycleOK

(* The end of a cycle: the last wake time is past, and with it the walk    *)
(* and every scene, so that each note of the show has had its last Off.    *)
LEMMA CycleEnds ==
  ASSUME TypeInv, CycleOK, [Next]_vars, clock' = 0, clock # 0, undisturbed
  PROVE  show.done = DOMAIN Once \union {"c"} /\ sounding = {}
  <1> DEFINE last == W[kC_Count + 1]
  <1>1. Step
    BY DEF Next, vars, showVars, rx_packet_cb, rx_proc_thread, jr_heartbeat, midi_ready_cb,
       Enter, Try
  <1>2. /\ ~ away /\ InTime(show, clock) /\ Walking(show, clock)
        /\ \A n \in Freed(show) : Silences(n)
    BY DEF CycleOK
  <1>3. clock \in Nat
    BY WakesAreNatural DEF TypeInv, ShowOK
  <1>4. show # NoShow
    <2>1. "a" \in show.done
      BY <1>2, <1>3, FirstScene DEF InTime
    <2> QED
      BY <2>1 DEF NoShow
  <1>5. Wakes(kCycleMs) /\ todo["main"] = <<>> /\ UNCHANGED sounding
    BY <1>1, <1>4, WakesAreNatural DEF Step, gate
  <1>6. clock >= last
    <2> HIDE DEF last
    <2>1. /\ last \in WakeTimes /\ last \in Nat /\ last + MaxLateMs < kCycleMs
          /\ kCycleMs \in Nat /\ MaxLateMs \in Nat
      BY Timing, WakesAreNatural DEF Timetable, last
    <2>2. clock < last /\ last < kCycleMs => kCycleMs - last <= MaxLateMs
      BY <1>2, <1>5, <2>1 DEF Wakes
    <2> QED
      BY <1>3, <2>1, <2>2
  <1>7. \A scene \in DOMAIN Once : scene \in show.done
    <2>1. ASSUME NEW scene \in DOMAIN Once PROVE Once[scene].at <= clock
      <3>1. Once[scene].at <= last /\ Once[scene].at \in Nat /\ last \in Nat
        BY Timing, TimesAreNatural DEF Timetable
      <3> QED
        BY <1>3, <1>6, <3>1
    <2> QED
      BY <1>2, <2>1 DEF InTime
  <1>8. "c" \in show.done
    BY <1>2, <1>6 DEF Walking
  <1>9. kNotes \subseteq Freed(show)
    <2>1. "b_off" \in show.done /\ "f_off" \in show.done
      BY <1>7, SceneTable
    <2>2. Passed(show) = 0 .. kC_Count - 1
      BY <1>8 DEF Passed
    <2> QED
      BY <2>1, <2>2 DEF Freed, kNotes
  <1>10. \A n \in sounding : n \in Freed(show) /\ Releases(<<>>, n)
    BY <1>2, <1>5, <1>9 DEF CycleOK, Silences
  <1> QED
    BY <1>7, <1>8, <1>10 DEF TypeInv, ShowOK, Releases

(* A cycle in which the host was there and took every message leaves no    *)
(* scene out and no note sounding, however long the walk, however many     *)
(* messages rx and the heartbeat send between, and whatever earlier,       *)
(* disturbed cycles left behind, if main wakes in time for the walk.       *)
THEOREM CycleLeavesNothing == Spec => CycleIsWhole
  <1>1. TypeInv /\ CycleOK /\ [Next]_vars =>
          [clock' = 0 /\ clock # 0 /\ undisturbed =>
             show.done = DOMAIN Once \union {"c"} /\ sounding = {}]_vars
    BY CycleEnds
  <1>2. TypeInv /\ CycleOK /\ [Next]_vars => CycleOK'
    BY CycleStep
  <1> QED
    BY <1>1, <1>2, CycleStart, TypeInvariance, PTL DEF Spec, CycleIsWhole

-----------------------------------------------------------------------------
(* The ATmega example.                                                     *)

(* The framing of what the host sends. *)

Word   == [of: Inbound, no: Nat, at: 1 .. 4]
Stream == msg \o rx \o incoming

(* Word w may come next after v.                                           *)
NextWord(v, w) ==
  \/ w.of = v.of /\ w.no = v.no /\ w.at = v.at + 1
  \/ w.no = Successor(v.no) /\ w.at = 1 /\ v.at = v.of.words

(* Words of whole messages, one after the other, the first from its start. *)
Framed(s) ==
  /\ s # <<>> => s[1].at = 1
  /\ \A i \in 1 .. Len(s) : s[i].at <= s[i].of.words
  /\ \A i \in 1 .. Len(s) - 1 : NextWord(s[i], s[i + 1])

(* The last of them ends the last message the host has sent.               *)
UpTo(s, last) == s # <<>> => s[Len(s)].no = last /\ s[Len(s)].at = s[Len(s)].of.words

WordsOK ==
  /\ msg \in Seq(Word) /\ rx \in Seq(Word) /\ incoming \in Seq(Word) /\ received \in Nat

FramedInv ==
  /\ WordsOK /\ Framed(Stream) /\ UpTo(Stream, received)
  /\ IF Stream = <<>> THEN msg = <<>> ELSE Len(msg) < Stream[1].of.words

(* The first message of s has k words, all of them there.                  *)
Whole(s, k) == k <= Len(s) /\ k = s[1].of.words

LEMMA MessageWords == \A m \in Inbound : m.words \in 1 .. 4 /\ m.value \in Nat
  <1>1. Inbound \subseteq [kind: Controls \union DOMAIN AvrReply, words: 1 .. 4, value: 0 .. 127]
    BY AvrAssumption
  <1>2. \A m \in Inbound : m.words \in 1 .. 4 /\ m.value \in 0 .. 127
    BY <1>1
  <1> QED
    BY <1>2

LEMMA Numbered == \A no \in Nat : Successor(no) \in Nat
  <1> SUFFICES ASSUME NEW no \in Nat PROVE Successor(no) \in Nat
    OBVIOUS
  <1>1. Period \in Nat \ {0} /\ no + 1 \in Nat
    BY AvrAssumption
  <1> DEFINE a == no + 1
  <1> HIDE DEF a
  <1>2. a % Period \in 0 .. Period - 1
    BY <1>1, Remainder DEF a
  <1> QED
    BY <1>2 DEF Successor, a

(* The words of the first message are numbered from 1.                     *)
LEMMA FirstMessage ==
  ASSUME NEW s \in Seq(Word), Framed(s), s # <<>>,
         NEW k \in 1 .. 4, Whole(s, k)
  PROVE  s[k].at = s[k].of.words
  <1>1. Len(s) \in Nat \ {0} /\ \A i \in 1 .. Len(s) : s[i] \in Word
    BY EmptySeq, ElementOfSeq
  <1>2. k \in 1 .. Len(s) /\ k = s[1].of.words
    BY <1>1 DEF Whole
  <1> DEFINE T == {n \in Nat : n + 1 <= k => s[n + 1].of = s[1].of /\ s[n + 1].at = n + 1}
  <1>3. 0 \in T
    BY <1>1, <1>2 DEF Framed
  <1>4. ASSUME NEW n \in Nat, n \in T PROVE n + 1 \in T
    <2> SUFFICES ASSUME n + 2 <= k
                 PROVE  s[n + 2].of = s[1].of /\ s[n + 2].at = n + 2
      OBVIOUS
    <2>1. n + 1 \in 1 .. Len(s) - 1 /\ (n + 1) + 1 = n + 2
      BY <1>1, <1>2
    <2>2. s[n + 1].of = s[1].of /\ s[n + 1].at = n + 1
      BY <1>1, <1>2, <1>4
    <2>3. NextWord(s[n + 1], s[n + 2])
      BY <2>1 DEF Framed
    <2>4. ~ (s[n + 1].at = s[n + 1].of.words)
      BY <1>2, <2>2
    <2> QED
      BY <2>2, <2>3, <2>4 DEF NextWord
  <1> HIDE DEF T
  <1>5. k - 1 \in T /\ k - 1 \in Nat
    <2>1. \A n \in Nat : n \in T
      BY <1>3, <1>4, Induction
    <2> QED
      BY <1>2, <2>1
  <1>6. (k - 1) + 1 = k /\ (k - 1) + 1 <= k
    OBVIOUS
  <1>7. s[(k - 1) + 1].of = s[1].of /\ s[(k - 1) + 1].at = (k - 1) + 1
    BY <1>5, <1>6 DEF T
  <1> QED
    BY <1>2, <1>6, <1>7

(* t is s without its first k words.                                       *)
Rest(t, s, k) == Len(t) = Len(s) - k /\ \A i \in 1 .. Len(t) : t[i] = s[i + k]

(* Without its first message the rest is framed again.                     *)
LEMMA FramedRest ==
  ASSUME NEW s \in Seq(Word), Framed(s), s # <<>>, NEW last, UpTo(s, last),
         NEW k \in 1 .. 4, Whole(s, k), NEW t \in Seq(Word), Rest(t, s, k)
  PROVE  Framed(t) /\ UpTo(t, last)
  <1>1. s[k].at = s[k].of.words
    BY FirstMessage
  <1>2. Len(s) \in Nat \ {0} /\ Len(t) \in Nat /\ (t # <<>> => Len(t) \in Nat \ {0})
        /\ Len(t) = Len(s) - k /\ k <= Len(s)
    BY EmptySeq, LenProperties DEF Rest, Whole
  <1>3. \A i \in 1 .. Len(s) : s[i] \in Word
    BY ElementOfSeq
  <1>4. ASSUME t # <<>> PROVE t[1].at = 1
    <2>1. k \in 1 .. Len(s) - 1 /\ k \in 1 .. Len(s) /\ 1 \in 1 .. Len(t) /\ 1 + k = k + 1
      BY <1>2, <1>4
    <2>2. NextWord(s[k], s[k + 1]) /\ t[1] = s[k + 1]
      BY <2>1 DEF Framed, Rest
    <2>3. s[k + 1].at <= s[k + 1].of.words
      <3>1. k + 1 \in 1 .. Len(s)
        BY <1>2, <2>1
      <3> QED
        BY <3>1 DEF Framed
    <2>4. s[k].at \in 1 .. 4 /\ s[k].of.words \in 1 .. 4
      BY <1>3, <2>1, MessageWords DEF Word
    <2>5. CASE s[k + 1].of = s[k].of /\ s[k + 1].at = s[k].at + 1
      <3>1. s[k].at + 1 <= s[k].of.words
        BY <2>3, <2>5
      <3> QED
        BY <1>1, <2>4, <3>1
    <2>6. CASE s[k + 1].at = 1
      BY <2>2, <2>6
    <2> QED
      BY <2>2, <2>5, <2>6 DEF NextWord
  <1>5. \A i \in 1 .. Len(t) : t[i].at <= t[i].of.words
    <2> SUFFICES ASSUME NEW i \in 1 .. Len(t) PROVE t[i].at <= t[i].of.words
      OBVIOUS
    <2>1. i + k \in 1 .. Len(s)
      BY <1>2
    <2> QED
      BY <2>1 DEF Framed, Rest
  <1>6. \A i \in 1 .. Len(t) - 1 : NextWord(t[i], t[i + 1])
    <2> SUFFICES ASSUME NEW i \in 1 .. Len(t) - 1 PROVE NextWord(t[i], t[i + 1])
      OBVIOUS
    <2>1. i + k \in 1 .. Len(s) - 1 /\ (i + k) + 1 = (i + 1) + k
          /\ i \in 1 .. Len(t) /\ i + 1 \in 1 .. Len(t)
      BY <1>2
    <2>2. NextWord(s[i + k], s[(i + k) + 1])
      BY <2>1 DEF Framed
    <2>3. t[i] = s[i + k] /\ t[i + 1] = s[(i + k) + 1]
      BY <2>1 DEF Rest
    <2> QED
      BY <2>2, <2>3
  <1>7. ASSUME t # <<>> PROVE t[Len(t)] = s[Len(s)]
    <2>1. Len(t) \in 1 .. Len(t) /\ Len(t) + k = Len(s)
      BY <1>2, <1>7
    <2> QED
      BY <2>1 DEF Rest
  <1>8. s # <<>> => s[Len(s)].no = last /\ s[Len(s)].at = s[Len(s)].of.words
    BY DEF UpTo
  <1> QED
    BY <1>4, <1>5, <1>6, <1>7, <1>8 DEF Framed, UpTo
(* t is the words of message m.                                            *)
Spells(t, m, no) == t = [i \in 1 .. m.words |-> [of |-> m, no |-> no, at |-> i]]

(* A whole message after whole messages.                                   *)
LEMMA MessageAdded ==
  ASSUME NEW s \in Seq(Word), Framed(s), NEW last \in Nat, UpTo(s, last), NEW m \in Inbound,
         NEW t, Spells(t, m, Successor(last))
  PROVE  /\ t \in Seq(Word) /\ Len(t) = m.words
         /\ Framed(s \o t) /\ UpTo(s \o t, Successor(last))
  <1> DEFINE n == m.words
             w == s \o t
  <1>1. n \in 1 .. 4 /\ Successor(last) \in Nat
    BY MessageWords, Numbered
  <1> DEFINE v(i) == [of |-> m, no |-> Successor(last), at |-> i]
  <1>2. ASSUME NEW i \in 1 .. n PROVE v(i) \in Word
    BY <1>1 DEF Word
  <1>3. /\ t = [i \in 1 .. n |-> v(i)]
         /\ \A i \in 1 .. n : v(i).of = m /\ v(i).no = Successor(last) /\ v(i).at = i
    BY DEF Spells
  <1> HIDE DEF v, n
  <1>4. ASSUME NEW i \in 1 .. n
        PROVE  /\ t[i] \in Word /\ t[i].of = m /\ t[i].no = Successor(last) /\ t[i].at = i
    BY <1>2, <1>3
  <1>5. t \in Seq(Word) /\ Len(t) = n
    BY <1>1, <1>2, <1>3
  <1>6. /\ w \in Seq(Word) /\ Len(w) = Len(s) + Len(t)
        /\ \A i \in 1 .. Len(s) + Len(t) : w[i] = IF i <= Len(s) THEN s[i] ELSE t[i - Len(s)]
    BY <1>5, ConcatProperties
  <1>7. Len(s) \in Nat /\ (s # <<>> <=> Len(s) # 0)
    BY LenProperties, EmptySeq
  <1>8. ASSUME NEW i \in 1 .. Len(s) PROVE w[i] = s[i]
    BY <1>1, <1>5, <1>6, <1>7
  <1>9. ASSUME NEW k \in 1 .. n PROVE w[Len(s) + k] = t[k]
    <2>1. Len(s) + k \in 1 .. Len(s) + Len(t) /\ ~ (Len(s) + k <= Len(s)) /\ Len(s) + k - Len(s) = k
      BY <1>1, <1>5, <1>7
    <2> QED
      BY <1>6, <2>1
  <1> HIDE DEF w
  <1>10. Len(w) = Len(s) + n /\ \A i \in 1 .. Len(w) : i \in 1 .. Len(s) \/ \E k \in 1 .. n : i = Len(s) + k
    <2> SUFFICES ASSUME NEW i \in 1 .. Len(w), ~ (i \in 1 .. Len(s))
                 PROVE  \E k \in 1 .. n : i = Len(s) + k
      BY <1>5, <1>6
    <2>1. i - Len(s) \in 1 .. n /\ i = Len(s) + (i - Len(s))
      BY <1>1, <1>5, <1>6, <1>7
    <2> QED
      BY <2>1
  <1>11. w # <<>> => w[1].at = 1
    <2>1. CASE Len(s) = 0
      <3>1. 1 \in 1 .. n /\ Len(s) + 1 = 1
        BY <1>1, <2>1
      <3>2. w[1] = t[1] /\ t[1].at = 1
        BY <1>4, <1>9, <3>1
      <3> QED
        BY <3>2
    <2>2. CASE Len(s) # 0
      <3>1. w[1] = s[1]
        BY <1>7, <1>8, <2>2
      <3> QED
        BY <1>7, <2>2, <3>1 DEF Framed
    <2> QED
      BY <2>1, <2>2
  <1>12. \A i \in 1 .. Len(w) : w[i].at <= w[i].of.words
    <2>1. ASSUME NEW i \in 1 .. Len(s) PROVE w[i].at <= w[i].of.words
      BY <1>8 DEF Framed
    <2>2. ASSUME NEW k \in 1 .. n PROVE w[Len(s) + k].at <= w[Len(s) + k].of.words
      <3>1. t[k].at = k /\ t[k].of = m /\ k <= n
        BY <1>1, <1>4
      <3>2. t[k].at <= t[k].of.words
        BY <3>1 DEF n
      <3> QED
        BY <1>9, <3>2
    <2> QED
      BY <1>10, <2>1, <2>2
  <1>13. ASSUME NEW i \in 1 .. Len(s), i < Len(s) PROVE NextWord(w[i], w[i + 1])
    <2>1. i \in 1 .. Len(s) - 1 /\ i + 1 \in 1 .. Len(s)
      BY <1>7, <1>13
    <2> QED
      BY <1>8, <2>1 DEF Framed
  <1>14. ASSUME Len(s) # 0 PROVE NextWord(w[Len(s)], w[Len(s) + 1])
    <2>1. 1 \in 1 .. n /\ Len(s) \in 1 .. Len(s)
      BY <1>1, <1>7, <1>14
    <2>2. w[Len(s) + 1].at = 1 /\ w[Len(s) + 1].no = Successor(last)
      BY <1>4, <1>9, <2>1
    <2>3. w[Len(s)].no = last /\ w[Len(s)].at = w[Len(s)].of.words
      BY <1>7, <1>8, <1>14, <2>1 DEF UpTo
    <2> QED
      BY <2>2, <2>3 DEF NextWord
  <1>15. ASSUME NEW k \in 1 .. n, k < n PROVE NextWord(w[Len(s) + k], w[(Len(s) + k) + 1])
    <2>1. k + 1 \in 1 .. n /\ (Len(s) + k) + 1 = Len(s) + (k + 1)
      BY <1>1, <1>7, <1>15
    <2>2. w[Len(s) + k] = t[k] /\ w[Len(s) + (k + 1)] = t[k + 1]
      BY <1>9, <2>1
    <2>3. NextWord(t[k], t[k + 1])
      BY <1>4, <2>1 DEF NextWord
    <2> QED
      BY <2>1, <2>2, <2>3
  <1>16. \A i \in 1 .. Len(w) - 1 : NextWord(w[i], w[i + 1])
    <2> SUFFICES ASSUME NEW i \in 1 .. Len(w) - 1 PROVE NextWord(w[i], w[i + 1])
      OBVIOUS
    <2>1. i \in 1 .. Len(w) /\ i < Len(w) /\ i \in Nat
      BY <1>1, <1>7, <1>10
    <2>2. CASE i \in 1 .. Len(s) /\ i < Len(s)
      BY <1>13, <2>2
    <2>3. CASE i \in 1 .. Len(s) /\ ~ (i < Len(s))
      <3>1. i = Len(s) /\ Len(s) # 0
        BY <1>7, <2>3
      <3> QED
        BY <1>14, <3>1
    <2>4. CASE ~ (i \in 1 .. Len(s))
      <3>1. PICK k \in 1 .. n : i = Len(s) + k
        BY <1>10, <2>1, <2>4
      <3>2. k < n
        BY <1>1, <1>7, <1>10, <2>1, <3>1
      <3> QED
        BY <1>15, <3>1, <3>2
    <2> QED
      BY <2>2, <2>3, <2>4
  <1>17. UpTo(w, Successor(last))
    <2>1. n \in 1 .. n /\ Len(w) = Len(s) + n
      BY <1>1, <1>10
    <2>2. t[n].no = Successor(last) /\ t[n].at = n /\ t[n].of = m
      BY <1>4, <2>1
    <2>3. t[n].at = t[n].of.words
      BY <2>2 DEF n
    <2> QED
      BY <1>9, <2>1, <2>2, <2>3 DEF UpTo
  <1> QED
    BY <1>5, <1>11, <1>12, <1>16, <1>17 DEF Framed, w, n
LEMMA SameStream ==
  ASSUME FramedInv, WordsOK', received' = received, Stream' = Stream,
         IF Stream = <<>> THEN msg' = <<>> ELSE Len(msg') < Stream[1].of.words
  PROVE  FramedInv'
  BY DEF FramedInv, Framed, UpTo, NextWord

(* Words the endpoint passes on to the ring keep their place.              *)
LEMMA FramedUsb ==
  ASSUME FramedInv, Usb, msg' = msg, received' = received
  PROVE  FramedInv'
  <1>1. msg \in Seq(Word) /\ rx \in Seq(Word) /\ incoming \in Seq(Word) /\ received \in Nat
    BY DEF FramedInv, WordsOK
  <1>2. PICK k \in 0 .. Len(incoming) :
          /\ rx' = rx \o SubSeq(incoming, 1, k)
          /\ incoming' = SubSeq(incoming, k + 1, Len(incoming))
    BY DEF Usb
  <1> DEFINE a == SubSeq(incoming, 1, k)
             b == SubSeq(incoming, k + 1, Len(incoming))
  <1>3. a \in Seq(Word) /\ b \in Seq(Word) /\ incoming = a \o b
    BY <1>1, Divided
  <1> HIDE DEF a, b
  <1>4. rx' \in Seq(Word) /\ incoming' \in Seq(Word) /\ rx' \o incoming' = rx \o incoming
    <2>1. rx' = rx \o a /\ incoming' = b
      BY <1>2 DEF a, b
    <2>2. (rx \o a) \in Seq(Word) /\ (rx \o a) \o b = rx \o (a \o b)
      <3>1. rx \in Seq(Word) /\ a \in Seq(Word) /\ b \in Seq(Word)
        BY <1>1, <1>3
      <3> HIDE DEF Word
      <3>2. (rx \o a) \in Seq(Word)
        BY <3>1, ConcatProperties
      <3>3. (rx \o a) \o b = rx \o (a \o b)
        BY <3>1, ConcatAssociative, SMTT(30)
      <3> QED
        BY <3>2, <3>3
    <2> QED
      BY <1>3, <2>1, <2>2
  <1>5. Stream' = Stream
    <2>1. Stream = msg \o (rx \o incoming)
      BY <1>1, ConcatAssociative, SMTT(30) DEF Stream
    <2>2. (msg \o rx') \o incoming' = msg \o (rx' \o incoming')
      <3>1. ASSUME NEW s \in Seq(Word), NEW t \in Seq(Word)
            PROVE  (msg \o s) \o t = msg \o (s \o t)
        <4>1. msg \in Seq(Word)
          BY <1>1
        <4> HIDE DEF Word
        <4> QED
          BY <4>1, ConcatAssociative, SMTT(30)
      <3> QED
        BY <1>4, <3>1
    <2>3. Stream' = (msg \o rx') \o incoming'
      BY DEF Stream
    <2> QED
      BY <1>4, <2>1, <2>2, <2>3
  <1>6. WordsOK'
    BY <1>1, <1>4 DEF WordsOK
  <1> QED
    BY <1>5, <1>6, SameStream DEF FramedInv

LEMMA FramedHostSends ==
  ASSUME FramedInv, NEW m \in Inbound, HostSends(m)
  PROVE  FramedInv'
  <1>1. msg \in Seq(Word) /\ rx \in Seq(Word) /\ incoming \in Seq(Word) /\ received \in Nat
        /\ Framed(Stream) /\ UpTo(Stream, received)
        /\ IF Stream = <<>> THEN msg = <<>> ELSE Len(msg) < Stream[1].of.words
    BY DEF FramedInv, WordsOK
  <1>2. /\ incoming = <<>> /\ received' = Successor(received) /\ msg' = msg /\ rx' = rx
        /\ Spells(incoming', m, Successor(received))
    BY DEF HostSends, Spells
  <1>3. Stream = msg \o rx /\ Stream \in Seq(Word)
    <2>1. msg \o rx \in Seq(Word)
      BY <1>1, ConcatProperties
    <2> QED
      BY <1>2, <2>1, ConcatEmptySeq DEF Stream
  <1> DEFINE s == Stream
             t == incoming'
  <1>4. Stream' = s \o t
    BY <1>2, <1>3 DEF Stream
  <1> HIDE DEF s
  <1>5. /\ t \in Seq(Word) /\ Len(t) = m.words
        /\ Framed(s \o t) /\ UpTo(s \o t, Successor(received))
    <2> HIDE DEF t
    <2> QED
      BY <1>1, <1>2, <1>3, MessageAdded DEF s, t
  <1> HIDE DEF t
  <1>6. m.words \in 1 .. 4
    BY MessageWords
  <1> DEFINE w == s \o t
  <1>7. /\ Len(w) = Len(s) + Len(t)
        /\ \A i \in 1 .. Len(s) + Len(t) : w[i] = IF i <= Len(s) THEN s[i] ELSE t[i - Len(s)]
        /\ Len(s) \in Nat /\ (s = <<>> <=> Len(s) = 0) /\ w \in Seq(Word)
    <2>1. s \in Seq(Word) /\ t \in Seq(Word)
      BY <1>3, <1>5 DEF s
    <2>2. /\ s \o t \in Seq(Word)
          /\ Len(s \o t) = Len(s) + Len(t)
          /\ \A i \in 1 .. Len(s) + Len(t) :
               (s \o t)[i] = IF i <= Len(s) THEN s[i] ELSE t[i - Len(s)]
      BY <2>1, ConcatProperties
    <2>3. Len(s) \in Nat /\ (s = <<>> <=> Len(s) = 0)
      BY <2>1, LenProperties, EmptySeq
    <2> QED
      BY <2>2, <2>3
  <1> HIDE DEF w
  <1>8. w # <<>>
    BY <1>5, <1>6, <1>7, EmptySeq
  <1>9. Len(msg) < w[1].of.words
    <2>1. CASE s = <<>>
      <3>1. w[1] = t[1] /\ 1 \in 1 .. m.words
        BY <1>5, <1>6, <1>7, <2>1
      <3>2. t[1].of = m
        BY <1>2, <3>1 DEF Spells, t
      <3>3. Len(msg) = 0
        BY <1>1, <2>1 DEF s
      <3> QED
        BY <1>6, <3>1, <3>2, <3>3
    <2>2. CASE s # <<>>
      <3>1. w[1] = s[1]
        BY <1>5, <1>6, <1>7, <2>2
      <3> QED
        BY <1>1, <2>2, <3>1 DEF s
    <2> QED
      BY <2>1, <2>2
  <1>10. WordsOK'
    BY <1>1, <1>2, <1>5, Numbered DEF WordsOK, t
  <1>11. Stream' = w
    BY <1>4 DEF w
  <1>12. Framed(w) /\ UpTo(w, received')
    BY <1>2, <1>5 DEF w
  <1> QED
    BY <1>2, <1>8, <1>9, <1>10, <1>11, <1>12 DEF FramedInv, Framed, UpTo, NextWord
(* ump_task keeps the first words of an unfinished message.                *)
LEMMA FramedIncomplete == ASSUME FramedInv, Incomplete PROVE FramedInv'
  <1>1. msg \in Seq(Word) /\ rx \in Seq(Word) /\ incoming \in Seq(Word) /\ received \in Nat
    BY DEF FramedInv, WordsOK
  <1>2. /\ msg' = msg \o rx /\ rx' = <<>> /\ incoming' = incoming /\ received' = received
        /\ msg \o rx # <<>> => Len(msg \o rx) < (msg \o rx)[1].of.words
    BY DEF Incomplete, Available
  <1>3. msg' \in Seq(Word) /\ rx' \in Seq(Word)
    BY <1>1, <1>2, ConcatProperties
  <1>4. Stream' = Stream
    <2>1. msg' \o rx' = msg \o rx
      BY <1>2, <1>3, ConcatEmptySeq
    <2>2. Stream' = (msg' \o rx') \o incoming'
      BY DEF Stream
    <2> QED
      BY <1>2, <2>1, <2>2 DEF Stream
  <1>5. WordsOK'
    BY <1>1, <1>2, <1>3 DEF WordsOK
  <1> DEFINE s == msg \o rx
  <1>6. /\ s \in Seq(Word) /\ Stream = s \o incoming
        /\ s # <<>> => Len(s) < s[1].of.words
    BY <1>1, <1>2, <1>3 DEF Stream
  <1> HIDE DEF s
  <1>7. /\ Len(Stream) = Len(s) + Len(incoming)
        /\ \A i \in 1 .. Len(s) + Len(incoming) :
             Stream[i] = IF i <= Len(s) THEN s[i] ELSE incoming[i - Len(s)]
        /\ Len(s) \in Nat /\ Len(incoming) \in Nat /\ (s = <<>> <=> Len(s) = 0)
        /\ Stream \in Seq(Word)
    BY <1>1, <1>6, ConcatProperties, EmptySeq, LenProperties
  <1>8. Stream = <<>> <=> Len(Stream) = 0
    BY <1>7, EmptySeq
  <1>9. IF Stream = <<>> THEN s = <<>> ELSE Len(s) < Stream[1].of.words
    <2>1. CASE s = <<>>
      <3>1. ASSUME Stream # <<>> PROVE Len(s) < Stream[1].of.words
        <4>1. Stream[1] \in Word
          BY <1>7, <1>8, <3>1, ElementOfSeq
        <4>2. Stream[1].of.words \in 1 .. 4
          BY <4>1, MessageWords DEF Word
        <4> QED
          BY <1>7, <2>1, <4>2
      <3> QED
        BY <2>1, <3>1
    <2>2. CASE s # <<>>
      <3>1. Stream[1] = s[1] /\ Stream # <<>>
        BY <1>7, <1>8, <2>2
      <3> QED
        BY <1>6, <2>2, <3>1
    <2> QED
      BY <2>1, <2>2
  <1>10. IF Stream = <<>> THEN msg' = <<>> ELSE Len(msg') < Stream[1].of.words
    BY <1>2, <1>9 DEF s
  <1> QED
    BY <1>2, <1>4, <1>5, <1>10, SameStream

(* A complete message leaves: what follows starts at its first word.       *)
LEMMA FramedComplete == ASSUME FramedInv, Complete PROVE FramedInv'
  <1> DEFINE s == msg \o rx
             k == s[1].of.words
             t == SubSeq(s, k + 1, Len(s))
  <1>1. msg \in Seq(Word) /\ rx \in Seq(Word) /\ incoming \in Seq(Word) /\ received \in Nat
        /\ Framed(Stream) /\ UpTo(Stream, received)
    BY DEF FramedInv, WordsOK
  <1>2. /\ s # <<>> /\ k <= Len(s)
        /\ rx' = t /\ msg' = <<>> /\ incoming' = incoming /\ received' = received
    BY DEF Complete, Available
  <1>3. s \in Seq(Word) /\ Stream = s \o incoming
    BY <1>1, ConcatProperties DEF Stream
  <1>4. s[1] \in Word /\ Len(s) \in Nat \ {0}
    <2> HIDE DEF s
    <2> QED
      BY <1>2, <1>3, EmptySeq, ElementOfSeq
  <1>5. k \in 1 .. 4
    BY <1>4, MessageWords DEF Word
  <1> HIDE DEF s, k
  <1>6. /\ t \in Seq(Word) /\ Len(t) = Len(s) - k
        /\ \A i \in 1 .. Len(t) : t[i] = s[i + k]
    <2>1. t \in Seq(Word)
      <3>1. k \in 0 .. Len(s)
        BY <1>2, <1>4, <1>5
      <3> QED
        BY <1>3, <3>1, Divided
    <2>2. Len(t) = Len(s) - k /\ \A i \in 1 .. Len(s) - k : t[i] = s[k + i]
      BY <1>2, <1>3, <1>4, <1>5
    <2> QED
      BY <1>2, <1>4, <1>5, <2>1, <2>2
  <1> HIDE DEF t
  <1> DEFINE w == t \o incoming
  <1>7. /\ Len(Stream) = Len(s) + Len(incoming) /\ Len(incoming) \in Nat
        /\ \A i \in 1 .. Len(s) + Len(incoming) :
             Stream[i] = IF i <= Len(s) THEN s[i] ELSE incoming[i - Len(s)]
        /\ Stream \in Seq(Word)
    BY <1>1, <1>3, ConcatProperties, LenProperties
  <1>8. /\ w \in Seq(Word) /\ Len(w) = Len(t) + Len(incoming)
        /\ \A i \in 1 .. Len(t) + Len(incoming) :
             w[i] = IF i <= Len(t) THEN t[i] ELSE incoming[i - Len(t)]
    BY <1>1, <1>6, ConcatProperties
  <1>9. Stream # <<>> /\ Whole(Stream, k)
    <2>1. Stream[1] = s[1] /\ Len(Stream) \in Nat \ {0}
      BY <1>4, <1>7
    <2>2. Stream # <<>> /\ k <= Len(Stream)
      BY <1>2, <1>4, <1>5, <1>7, <2>1, EmptySeq
    <2> QED
      BY <2>1, <2>2 DEF Whole, k
  <1> HIDE DEF w
  <1>10. Rest(w, Stream, k)
    <2>1. Len(w) = Len(Stream) - k
      BY <1>4, <1>5, <1>6, <1>7, <1>8
    <2>2. ASSUME NEW i \in 1 .. Len(w) PROVE w[i] = Stream[i + k]
      <3>1. CASE i <= Len(t)
        <4>1. i \in 1 .. Len(t) /\ i + k \in 1 .. Len(s) + Len(incoming) /\ i + k <= Len(s)
          BY <1>2, <1>4, <1>5, <1>6, <1>7, <1>8, <3>1
        <4> QED
          BY <1>6, <1>7, <1>8, <3>1, <4>1
      <3>2. CASE ~ (i <= Len(t))
        <4>1. /\ i + k \in 1 .. Len(s) + Len(incoming) /\ ~ (i + k <= Len(s))
              /\ i + k - Len(s) = i - Len(t)
          BY <1>2, <1>4, <1>5, <1>6, <1>7, <1>8, <3>2
        <4>2. w[i] = incoming[i - Len(t)]
          BY <1>8, <3>2
        <4>3. Stream[i + k] = incoming[i + k - Len(s)]
          BY <1>4, <1>5, <1>7, <4>1
        <4> QED
          BY <4>1, <4>2, <4>3
      <3> QED
        BY <3>1, <3>2
    <2> QED
      BY <2>1, <2>2 DEF Rest
  <1>11. Framed(w) /\ UpTo(w, received)
    BY <1>1, <1>5, <1>7, <1>8, <1>9, <1>10, FramedRest
  <1>12. msg' \o rx' = t
    BY <1>2, <1>6, ConcatEmptySeq DEF t
  <1>13. Stream' = w
    <2>1. Stream' = (msg' \o rx') \o incoming'
      BY DEF Stream
    <2> QED
      BY <1>2, <1>12, <2>1 DEF w
  <1>14. w # <<>> => Len(msg') < w[1].of.words
    <2> SUFFICES ASSUME w # <<>> PROVE 0 < w[1].of.words
      BY <1>2
    <2>1. w[1] \in Word
      BY <1>8, EmptySeq, ElementOfSeq
    <2> QED
      BY <2>1, MessageWords DEF Word
  <1>15. WordsOK'
    <2>1. <<>> \in Seq(Word) /\ rx' \in Seq(Word)
      BY <1>2, <1>6 DEF t
    <2> QED
      BY <1>1, <1>2, <2>1 DEF WordsOK
  <1> QED
    BY <1>2, <1>11, <1>13, <1>14, <1>15 DEF FramedInv, Framed, UpTo, NextWord

LEMMA FramedStep == ASSUME FramedInv, [AvrNext]_avrVars PROVE FramedInv'
  <1>1. CASE midi2lufa_task
    BY <1>1, FramedUsb DEF midi2lufa_task
  <1>2. CASE Complete
    BY <1>2, FramedComplete
  <1>3. CASE Incomplete
    BY <1>3, FramedIncomplete
  <1>4. CASE Wait
    BY <1>4, FramedUsb DEF Wait
  <1>5. CASE SendPacket \/ GiveUp \/ Burst \/ Cycle \/ UNCHANGED avrVars
    <2>1. /\ msg' = msg /\ rx' = rx /\ incoming' = incoming /\ received' = received
      BY <1>5 DEF SendPacket, GiveUp, Burst, Cycle, avrVars
    <2> QED
      BY <2>1 DEF FramedInv, WordsOK, Framed, UpTo, NextWord, Stream
  <1>6. ASSUME NEW m \in Inbound, HostSends(m) PROVE FramedInv'
    BY <1>6, FramedHostSends
  <1> QED
    BY <1>1, <1>2, <1>3, <1>4, <1>5, <1>6 DEF AvrNext, Loop, ump_task

LEMMA FramedStart == AvrInit => FramedInv
  <1> SUFFICES ASSUME AvrInit PROVE FramedInv
    OBVIOUS
  <1>1. msg = <<>> /\ rx = <<>> /\ incoming = <<>> /\ received = 0
    BY DEF AvrInit
  <1>2. Stream = <<>> /\ Len(<<>>) = 0
    BY <1>1, ConcatEmptySeq DEF Stream
  <1>3. <<>> \in Seq(Word) /\ 0 \in Nat
    OBVIOUS
  <1>4. WordsOK
    BY <1>1, <1>3 DEF WordsOK
  <1>5. Framed(<<>>) /\ UpTo(<<>>, 0)
    BY <1>2 DEF Framed, UpTo
  <1> QED
    BY <1>1, <1>2, <1>4, <1>5 DEF FramedInv

(* Whatever round the words arrive in, ump_task cuts the stream where the  *)
(* host's messages end (main.c, the assembly of msg[4]).                   *)
THEOREM FramingNeverSlips == AvrSpec => []MessagesFramed
  <1>1. AvrInit => FramedInv
    BY FramedStart
  <1>2. FramedInv /\ [AvrNext]_avrVars => FramedInv'
    BY FramedStep
  <1>3. FramedInv => MessagesFramed
    <2> SUFFICES ASSUME FramedInv PROVE MessagesFramed
      OBVIOUS
    <2>1. Framed(Stream) /\ (Stream # <<>> => Len(msg) < Stream[1].of.words)
      BY DEF FramedInv
    <2> QED
      BY <2>1 DEF Framed, NextWord, MessagesFramed, Stream
  <1> QED
    BY <1>1, <1>2, <1>3, PTL DEF AvrSpec

-----------------------------------------------------------------------------
(* The words in the transmit ring. *)

LEMMA RunningTotals ==
  ASSUME NEW s \in Seq(Nat)
  PROVE  \E f \in [0 .. Len(s) -> Nat] :
           /\ Total(s) = f[Len(s)] /\ f[0] = 0
           /\ \A n \in 1 .. Len(s) : f[n] = f[n - 1] + s[n]
  <1> DEFINE N == Len(s)
             Sums(f) == f = [n \in 0 .. N |-> IF n = 0 THEN 0 ELSE f[n - 1] + s[n]]
             sum == CHOOSE f : Sums(f)
             h == [n \in 1 .. N |-> [v \in Nat |-> v + s[n]]]
  <1>1. N \in Nat /\ \A n \in 1 .. N : s[n] \in Nat
    BY LenProperties, ElementOfSeq
  <1>2. PICK f : Follows(f, Nat, 0, N, h)
    <2>1. \A n \in 1 .. N, v \in Nat : h[n][v] \in Nat
      BY <1>1
    <2>2. 0 \in Nat /\ N \in Nat
      BY <1>1
    <2> HIDE DEF h, N
    <2> QED
      BY <2>1, <2>2, Recursion, Zenon
  <1>3. ASSUME NEW n \in 0 .. N
        PROVE  f[n] = IF n = 0 THEN 0 ELSE f[n - 1] + s[n]
    <2>1. CASE n = 0
      BY <1>2, <2>1 DEF Follows
    <2>2. CASE n \in 1 .. N
      <3>1. f[n - 1] \in Nat
        <4>1. n - 1 \in 0 .. N
          BY <1>1, <2>2
        <4> QED
          BY <1>2, <4>1 DEF Follows
      <3> QED
        BY <1>2, <2>2, <3>1 DEF Follows
    <2> QED
      BY <1>1, <2>1, <2>2
  <1>4. Sums(f)
    BY <1>2, <1>3 DEF Follows
  <1>5. Sums(sum)
    <2> HIDE DEF Sums
    <2> QED
      BY <1>4
  <1>6. Total(s) = sum[N]
    BY DEF Total
  <1> HIDE DEF sum
  <1>7. sum[0] = 0 /\ \A n \in 1 .. N : sum[n] = sum[n - 1] + s[n]
    BY <1>1, <1>5
  <1>8. \A n \in Nat : n <= N => sum[n] \in Nat
    <2>1. ASSUME NEW m \in Nat, m <= N => sum[m] \in Nat, m + 1 <= N
          PROVE  sum[m + 1] \in Nat
      <3>1. sum[m + 1] = sum[m] + s[m + 1]
        BY <1>1, <1>7, <2>1
      <3> QED
        BY <1>1, <2>1, <3>1
    <2> DEFINE T == {m \in Nat : m <= N => sum[m] \in Nat}
    <2>2. 0 \in T /\ \A n \in Nat : n \in T => n + 1 \in T
      BY <1>7, <2>1
    <2> HIDE DEF T
    <2>3. \A n \in Nat : n \in T
      BY <2>2, Induction
    <2> QED
      BY <2>3 DEF T
  <1>9. sum \in [0 .. N -> Nat]
    <2>1. DOMAIN sum = 0 .. N /\ sum = [n \in 0 .. N |-> sum[n]]
      BY <1>5
    <2> QED
      BY <1>1, <1>8, <2>1
  <1> QED
    BY <1>6, <1>7, <1>9

(* What the host leaves in the ring is no more than there was.             *)
LEMMA TotalOfRest ==
  ASSUME NEW s \in Seq(Nat), NEW k \in 0 .. Len(s)
  PROVE  /\ SubSeq(s, k + 1, Len(s)) \in Seq(Nat)
         /\ Total(SubSeq(s, k + 1, Len(s))) <= Total(s)
  <1> DEFINE t == SubSeq(s, k + 1, Len(s))
  <1>1. Len(s) \in Nat /\ \A i \in 1 .. Len(s) : s[i] \in Nat
    BY LenProperties, ElementOfSeq
  <1>2. /\ t \in Seq(Nat) /\ Len(t) = Len(s) - k
        /\ \A i \in 1 .. Len(s) - k : t[i] = s[k + i]
    <2>1. t \in Seq(Nat)
      BY Divided
    <2> QED
      BY <1>1, <2>1
  <1> HIDE DEF t
  <1>3. PICK f \in [0 .. Len(s) -> Nat] :
          /\ Total(s) = f[Len(s)] /\ f[0] = 0
          /\ \A n \in 1 .. Len(s) : f[n] = f[n - 1] + s[n]
    BY RunningTotals
  <1>4. PICK g \in [0 .. Len(t) -> Nat] :
          /\ Total(t) = g[Len(t)] /\ g[0] = 0
          /\ \A n \in 1 .. Len(t) : g[n] = g[n - 1] + t[n]
    BY <1>2, RunningTotals
  <1>5. Len(t) \in Nat
    BY <1>2, LenProperties
  <1> DEFINE T == {n \in Nat : n <= Len(t) => g[n] + f[k] = f[k + n]}
  <1>6. 0 \in T
    <2>1. f[k] \in Nat /\ g[0] = 0 /\ k + 0 = k
      BY <1>3, <1>4
    <2> QED
      BY <2>1, SMTT(30)
  <1>7. ASSUME NEW n \in Nat, n \in T, n + 1 <= Len(t) PROVE g[n + 1] + f[k] = f[k + (n + 1)]
    <2>1. /\ n + 1 \in 1 .. Len(t) /\ n + 1 \in 1 .. Len(s) - k /\ k + (n + 1) \in 1 .. Len(s)
          /\ n \in 0 .. Len(t) /\ k + n \in 0 .. Len(s)
          /\ (n + 1) - 1 = n /\ (k + (n + 1)) - 1 = k + n
      BY <1>1, <1>2, <1>5, <1>7
    <2>2. g[n + 1] = g[n] + t[n + 1]
      BY <1>4, <2>1
    <2>3. f[k + (n + 1)] = f[k + n] + s[k + (n + 1)]
      BY <1>3, <2>1
    <2>4. t[n + 1] = s[k + (n + 1)]
      BY <1>2, <2>1
    <2>5. g[n] + f[k] = f[k + n]
      BY <1>7, <2>1
    <2>6. g[n] \in Nat /\ f[k] \in Nat /\ f[k + n] \in Nat /\ s[k + (n + 1)] \in Nat
      BY <1>1, <2>1
    <2> QED
      BY <2>2, <2>3, <2>4, <2>5, <2>6, SMTT(30)
  <1>8. ASSUME NEW n \in Nat, n \in T PROVE n + 1 \in T
    BY <1>7, <1>8
  <1> HIDE DEF T
  <1>9. Len(t) \in T
    <2>1. \A n \in Nat : n \in T
      BY <1>6, <1>8, Induction
    <2> QED
      BY <1>5, <2>1
  <1>10. g[Len(t)] + f[k] = f[k + Len(t)] /\ k + Len(t) = Len(s)
    BY <1>1, <1>2, <1>5, <1>9 DEF T
  <1>11. g[Len(t)] \in Nat /\ f[k] \in Nat /\ f[Len(s)] \in Nat
    <2>1. Len(t) \in 0 .. Len(t) /\ Len(s) \in 0 .. Len(s)
      BY <1>1, <1>5
    <2> QED
      BY <2>1
  <1> QED
    BY <1>2, <1>3, <1>4, <1>10, <1>11 DEF t

LEMMA SizesType ==
  ASSUME NEW messages \in Seq(AvrMessage)
  PROVE  Sizes(messages) \in Seq(Nat)
  <1>1. Len(messages) \in Nat /\ \A i \in 1 .. Len(messages) : messages[i] \in AvrMessage
    BY LenProperties, ElementOfSeq
  <1>2. \A i \in 1 .. Len(messages) : messages[i].words \in Nat
    BY <1>1 DEF AvrMessage
  <1> QED
    BY <1>1, <1>2 DEF Sizes

-----------------------------------------------------------------------------
(* SysEx7 runs. *)

Writers == {"nobody", "catalog", "echo", "reply"}

LEMMA OpenAfterEach ==
  ASSUME open \in Writers, NEW by \in Writers, NEW messages \in Seq(AvrMessage)
  PROVE  /\ OpenAfter(by, messages)[0] = open
         /\ \A n \in 1 .. Len(messages) :
              OpenAfter(by, messages)[n] =
                IF messages[n].kind = "start" THEN by
                ELSE IF messages[n].kind = "end" THEN "nobody"
                ELSE OpenAfter(by, messages)[n - 1]
  <1> DEFINE N == Len(messages)
             Rule(v, m) == IF m.kind = "start" THEN by ELSE IF m.kind = "end" THEN "nobody" ELSE v
             Marks(f) == f = [n \in 0 .. N |->
                               IF n = 0 THEN open
                               ELSE CASE messages[n].kind = "start" -> by
                                      [] messages[n].kind = "end"   -> "nobody"
                                      [] OTHER                      -> f[n - 1]]
             after == CHOOSE f : Marks(f)
             h == [n \in 1 .. N |-> [v \in Writers |-> Rule(v, messages[n])]]
  <1>1. N \in Nat
    BY LenProperties
  <1>2. \A m, v : (CASE m.kind = "start" -> by [] m.kind = "end" -> "nobody" [] OTHER -> v)
                  = Rule(v, m)
    OBVIOUS
  <1>3. PICK f : Follows(f, Writers, open, N, h)
    <2>1. \A n \in 1 .. N, v \in Writers : h[n][v] \in Writers
      BY DEF Writers
    <2> HIDE DEF h, N
    <2> QED
      BY <1>1, <2>1, Recursion, Zenon
  <1>4. ASSUME NEW n \in 1 .. N PROVE f[n] = Rule(f[n - 1], messages[n])
    <2>1. f[n - 1] \in Writers
      BY <1>1, <1>3 DEF Follows
    <2> QED
      BY <1>3, <2>1 DEF Follows
  <1>5. Marks(f)
    <2>1. DOMAIN f = 0 .. N /\ f = [n \in 0 .. N |-> f[n]] /\ f[0] = open
      BY <1>3 DEF Follows
    <2>2. ASSUME NEW n \in 0 .. N
          PROVE  f[n] = IF n = 0 THEN open
                        ELSE CASE messages[n].kind = "start" -> by
                               [] messages[n].kind = "end"   -> "nobody"
                               [] OTHER                      -> f[n - 1]
      <3>1. CASE n = 0
        BY <2>1, <3>1
      <3>2. CASE n # 0
        <4>1. n \in 1 .. N
          BY <1>1, <3>2
        <4> QED
          BY <1>2, <1>4, <3>2, <4>1
      <3> QED
        BY <3>1, <3>2
    <2> QED
      BY <2>1, <2>2, Zenon
  <1>6. Marks(after)
    <2> HIDE DEF Marks
    <2> QED
      BY <1>5
  <1>7. OpenAfter(by, messages) = after
    BY DEF OpenAfter
  <1> HIDE DEF after
  <1>8. after[0] = open
    BY <1>1, <1>6
  <1>9. ASSUME NEW n \in 1 .. N PROVE after[n] = Rule(after[n - 1], messages[n])
    <2>1. n \in 0 .. N /\ n # 0
      BY <1>1
    <2> QED
      BY <1>2, <1>6, <2>1
  <1> QED
    BY <1>7, <1>8, <1>9

(* What is left of a run under way, up to its End.                         *)
Closing(messages) ==
  \E e \in 1 .. Len(messages) : /\ messages[e].kind = "end"
                                /\ \A k \in 1 .. e - 1 : messages[k].kind = "continue"

SendInv ==
  /\ tx \in Seq(Nat) /\ Total(tx) <= TxWords
  /\ reply \in Seq(AvrMessage) /\ (pc = "reply" => reply # <<>>)
  /\ cat_idx \in 0 .. Len(Catalog) - 1 /\ burst_sweeps \in Nat
  /\ burst_sweeps # 0 => excused

(* As long as nothing excuses it, a run is open only while a reply is      *)
(* sent, and what is left of the reply closes it.                          *)
Whose ==
  IF pc = "reply" THEN /\ open \in {"nobody", "reply"} /\ WholeRuns(reply)
                       /\ open = "reply" => Closing(reply)
                  ELSE open = "nobody"
RunsInv == SendInv /\ (excused \/ (~ interrupted /\ Whose))

LEMMA Constants ==
  /\ Catalog \in Seq(AvrMessage) /\ WholeRuns(Catalog) /\ Len(Catalog) \in Nat \ {0}
  /\ \A i \in 1 .. Len(Catalog) : Catalog[i] \in AvrMessage
  /\ TxWords \in Nat /\ MaxTries \in Nat
  <1>1. Catalog \in Seq(AvrMessage) /\ Catalog # <<>> /\ WholeRuns(Catalog)
    BY AvrAssumption
  <1>2. TxWords \in Nat /\ MaxTries \in Nat
    BY AvrAssumption
  <1>3. Len(Catalog) \in Nat \ {0} /\ \A i \in 1 .. Len(Catalog) : Catalog[i] \in AvrMessage
    BY <1>1, EmptySeq, ElementOfSeq
  <1> QED
    BY <1>1, <1>2, <1>3

LEMMA Entries ==
  /\ \A i \in Nat : At(i) \in AvrMessage
  /\ \A i \in 0 .. Len(Catalog) - 1 : At(i) = Catalog[i + 1]
  <1>1. ASSUME NEW i \in Nat PROVE At(i) \in AvrMessage
    <2>1. i % Len(Catalog) \in 0 .. Len(Catalog) - 1
      BY Constants, Remainder
    <2>2. (i % Len(Catalog)) + 1 \in 1 .. Len(Catalog)
      BY Constants, <2>1
    <2> QED
      BY Constants, <2>2 DEF At
  <1>2. ASSUME NEW i \in 0 .. Len(Catalog) - 1 PROVE At(i) = Catalog[i + 1]
    <2>1. i % Len(Catalog) = i
      BY Constants, Remainder
    <2> QED
      BY <2>1 DEF At
  <1> QED
    BY <1>1, <1>2

(* One entry, or a Start with what follows up to its End.                  *)
LEMMA RunShape ==
  ASSUME NEW i \in 0 .. Len(Catalog) - 1
  PROVE  /\ RunLength(i) \in Nat \ {0}
         /\ At(i).kind # "start" => RunLength(i) = 1
         /\ At(i).kind = "start" =>
              /\ At(i + RunLength(i) - 1).kind = "end"
              /\ \A k \in 1 .. RunLength(i) - 2 : At(i + k).kind = "continue"
              /\ RunLength(i) >= 2
  <1> DEFINE L == Len(Catalog)
             First(n) == /\ At(i + n - 1).kind = "end"
                         /\ \A k \in 1 .. n - 2 : At(i + k).kind # "end"
  <1>1. L \in Nat \ {0}
    BY Constants
  <1>2. CASE At(i).kind # "start"
    BY <1>2 DEF RunLength
  <1>3. CASE At(i).kind = "start"
    <2>1. i + 1 \in 1 .. L /\ Catalog[i + 1].kind = "start"
      BY <1>1, <1>3, Entries
    <2>2. PICK e \in (i + 1) + 1 .. L :
            /\ Catalog[e].kind = "end"
            /\ \A k \in (i + 1) + 1 .. e - 1 : Catalog[k].kind = "continue"
      BY <2>1, Constants DEF WholeRuns
    <2> DEFINE d == e - i
    <2>3. d \in 2 .. L /\ e = i + d
      BY <1>1, <2>2
    <2>4. At(i + d - 1).kind = "end"
      <3>1. i + d - 1 \in 0 .. L - 1 /\ (i + d - 1) + 1 = e
        BY <1>1, <2>2
      <3> QED
        BY <2>2, <3>1, Entries
    <2>5. ASSUME NEW k \in 1 .. d - 2 PROVE At(i + k).kind = "continue"
      <3>1. i + k \in 0 .. L - 1 /\ (i + k) + 1 \in (i + 1) + 1 .. e - 1
        BY <1>1, <2>2, <2>3
      <3> QED
        BY <2>2, <3>1, Entries
    <2> HIDE DEF d, L
    <2>6. First(d)
      BY <2>4, <2>5
    <2>7. RunLength(i) = CHOOSE n \in 2 .. L : First(n)
      BY <1>3 DEF RunLength, L
    <2>8. RunLength(i) \in 2 .. L /\ First(RunLength(i))
      <3> HIDE DEF First
      <3> QED
        BY <2>3, <2>6, <2>7
    <2>9. ASSUME NEW n \in 2 .. L, First(n) PROVE n = d
      <3>1. ASSUME n < d PROVE FALSE
        <4>1. n - 1 \in 1 .. d - 2 /\ i + (n - 1) = i + n - 1
          BY <1>1, <2>3, <3>1
        <4>2. At(i + (n - 1)).kind = "continue"
          BY <2>5, <4>1
        <4> QED
          BY <2>9, <4>1, <4>2
      <3>2. ASSUME d < n PROVE FALSE
        <4>1. d - 1 \in 1 .. n - 2 /\ i + (d - 1) = i + d - 1
          BY <1>1, <2>3, <3>2
        <4> QED
          BY <2>4, <2>9, <4>1
      <3> QED
        BY <1>1, <2>3, <3>1, <3>2
    <2>10. RunLength(i) = d
      <3> HIDE DEF First
      <3> QED
        BY <2>8, <2>9
    <2> QED
      BY <1>1, <1>3, <2>3, <2>4, <2>5, <2>10
  <1> QED
    BY <1>2, <1>3

LEMMA RunType ==
  ASSUME NEW i \in Nat, NEW n \in Nat
  PROVE  /\ Run(i, n) \in Seq(AvrMessage) /\ Len(Run(i, n)) = n
         /\ \A k \in 1 .. n : Run(i, n)[k] = At(i + k - 1)
  <1> DEFINE v(k) == At(i + k - 1)
  <1>1. ASSUME NEW k \in 1 .. n PROVE v(k) \in AvrMessage
    <2>1. i + k - 1 \in Nat
      OBVIOUS
    <2> QED
      BY <2>1, Entries
  <1>2. Run(i, n) = [k \in 1 .. n |-> v(k)]
    BY DEF Run
  <1> HIDE DEF v
  <1>3. Run(i, n) \in Seq(AvrMessage) /\ Len(Run(i, n)) = n /\ \A k \in 1 .. n : Run(i, n)[k] = v(k)
    BY <1>1, <1>2
  <1> QED
    BY <1>3 DEF v

(* What catalog_emit writes fits, and it stops only where the ring is full. *)
LEMMA EmittedFits ==
  ASSUME SendInv, NEW i \in 0 .. Len(Catalog) - 1
  PROVE  /\ Emitted(i) \in 0 .. RunLength(i) /\ Fits(Run(i, Emitted(i)))
         /\ LastEmitted(i) \in Nat
  <1> DEFINE fit == {n \in 0 .. RunLength(i) : Fits(Run(i, n))}
  <1>1. RunLength(i) \in Nat \ {0} /\ i \in Nat
    BY RunShape, Constants
  <1>2. Fits(Run(i, 0))
    <2>1. Run(i, 0) \in Seq(AvrMessage) /\ Len(Run(i, 0)) = 0
      BY <1>1, RunType
    <2>2. Sizes(Run(i, 0)) = <<>>
      BY <2>1 DEF Sizes
    <2>3. tx \in Seq(Nat) /\ Total(tx) <= TxWords
      BY DEF SendInv
    <2>4. tx \o Sizes(Run(i, 0)) = tx
      BY <2>2, <2>3, ConcatEmptySeq
    <2> QED
      BY <2>3, <2>4 DEF Fits
  <1>3. 0 \in fit /\ fit \subseteq 0 .. RunLength(i)
    BY <1>1, <1>2
  <1>4. Emitted(i) = CHOOSE n \in fit : \A k \in fit : k <= n
    BY DEF Emitted
  <1>5. Emitted(i) \in fit
    <2> HIDE DEF fit
    <2>1. PICK n \in fit : \A k \in fit : k <= n
      BY <1>1, <1>3, GreatestElement
    <2> QED
      BY <1>4, <2>1
  <1>6. Emitted(i) \in 0 .. RunLength(i) /\ Fits(Run(i, Emitted(i)))
    BY <1>5
  <1>7. LastEmitted(i) \in Nat
    BY <1>1, <1>6 DEF LastEmitted
  <1> QED
    BY <1>6, <1>7

(* Whatever is written, what fits in the ring is counted right.            *)
LEMMA WrittenFits ==
  ASSUME SendInv, NEW by, NEW messages \in Seq(AvrMessage), Fits(messages), Written(by, messages)
  PROVE  tx' \in Seq(Nat) /\ Total(tx') <= TxWords
  <1>1. Sizes(messages) \in Seq(Nat) /\ tx \in Seq(Nat)
    BY SizesType DEF SendInv
  <1>2. tx' = tx \o Sizes(messages)
    BY DEF Written
  <1>3. tx \o Sizes(messages) \in Seq(Nat)
    BY <1>1, ConcatProperties
  <1> QED
    BY <1>2, <1>3 DEF Fits

(* One message, where no run of another writer is open.                    *)
LEMMA OneWritten ==
  ASSUME NEW by \in Writers, NEW m \in AvrMessage, Written(by, <<m>>), open \in Writers, ~ interrupted,
         open = "nobody" \/ (open = by /\ m.kind \in {"continue", "end"})
  PROVE  /\ ~ interrupted'
         /\ open' = IF m.kind = "start" THEN by ELSE IF m.kind = "end" THEN "nobody" ELSE open
  <1> DEFINE s == <<m>>
  <1>1. s \in Seq(AvrMessage) /\ Len(s) = 1 /\ s[1] = m
    OBVIOUS
  <1>2. open' = OpenAfter(by, s)[Len(s)] /\ interrupted' = (interrupted \/ Intrudes(by, s))
    BY DEF Written
  <1> HIDE DEF s
  <1>3. /\ OpenAfter(by, s)[0] = open
        /\ \A n \in 1 .. Len(s) :
             OpenAfter(by, s)[n] = IF s[n].kind = "start" THEN by
                                   ELSE IF s[n].kind = "end" THEN "nobody"
                                   ELSE OpenAfter(by, s)[n - 1]
    BY <1>1, OpenAfterEach
  <1>4. 1 \in 1 .. Len(s) /\ 1 - 1 = 0 /\ \A n \in 1 .. Len(s) : n = 1
    BY <1>1
  <1>5. OpenAfter(by, s)[1] = IF m.kind = "start" THEN by
                              ELSE IF m.kind = "end" THEN "nobody" ELSE open
    BY <1>1, <1>3, <1>4
  <1>6. ~ Intrudes(by, s)
    BY <1>1, <1>3, <1>4 DEF Intrudes
  <1>7. ~ interrupted'
    BY <1>2, <1>6, Zenon
  <1> QED
    BY <1>1, <1>2, <1>5, <1>7

(* A whole run of the catalog, where none is open: none is open after it.  *)
LEMMA RunWritten ==
  ASSUME NEW i \in 0 .. Len(Catalog) - 1, Written("catalog", Run(i, RunLength(i))),
         open = "nobody", ~ interrupted
  PROVE  ~ interrupted' /\ open' = "nobody"
  <1> DEFINE n == RunLength(i)
             s == Run(i, n)
             after == OpenAfter("catalog", s)
  <1>1. /\ n \in Nat \ {0} /\ i \in Nat
        /\ At(i).kind # "start" => n = 1
        /\ At(i).kind = "start" => /\ At(i + n - 1).kind = "end"
                                   /\ \A k \in 1 .. n - 2 : At(i + k).kind = "continue"
                                   /\ n >= 2
    BY RunShape, Constants
  <1> HIDE DEF n
  <1>2. s \in Seq(AvrMessage) /\ Len(s) = n /\ \A k \in 1 .. n : s[k] = At(i + k - 1)
    BY <1>1, RunType
  <1>3. open' = OpenAfter("catalog", s)[Len(s)]
        /\ interrupted' = (interrupted \/ Intrudes("catalog", s))
    BY DEF Written, n
  <1> HIDE DEF s
  <1>4. /\ after[0] = "nobody"
        /\ \A k \in 1 .. n : after[k] = IF s[k].kind = "start" THEN "catalog"
                                        ELSE IF s[k].kind = "end" THEN "nobody"
                                        ELSE after[k - 1]
    BY <1>2, OpenAfterEach DEF Writers
  <1> HIDE DEF after
  <1>5. s[1].kind = At(i).kind
    <2>1. 1 \in 1 .. n /\ i + 1 - 1 = i
      BY <1>1
    <2> QED
      BY <1>2, <2>1
  <1>6. /\ after[n] = "nobody"
        /\ \A k \in 1 .. n : after[k - 1] = "nobody" \/
             (after[k - 1] = "catalog" /\ s[k].kind \in {"continue", "end"})
    <2>1. CASE At(i).kind # "start"
      <3>1. n = 1 /\ 1 \in 1 .. n /\ 1 - 1 = 0 /\ \A k \in 1 .. n : k = 1
        BY <1>1, <2>1
      <3> QED
        BY <1>4, <1>5, <2>1, <3>1
    <2>2. CASE At(i).kind = "start"
      <3>1. s[n].kind = "end" /\ n \in 1 .. n
        <4>1. n \in 1 .. n
          BY <1>1
        <4> QED
          BY <1>1, <1>2, <2>2, <4>1
      <3>2. ASSUME NEW k \in 2 .. n - 1 PROVE s[k].kind = "continue"
        <4>1. k \in 1 .. n /\ k - 1 \in 1 .. n - 2 /\ i + k - 1 = i + (k - 1)
          BY <1>1
        <4> QED
          BY <1>1, <1>2, <2>2, <4>1
      <3> DEFINE T == {k \in Nat : k + 1 <= n - 1 => after[k + 1] = "catalog"}
      <3>3. 0 \in T
        <4>1. 1 \in 1 .. n
          BY <1>1
        <4> QED
          BY <1>4, <1>5, <2>2, <4>1
      <3>4. ASSUME NEW k \in Nat, k \in T PROVE k + 1 \in T
        <4> SUFFICES ASSUME (k + 1) + 1 <= n - 1 PROVE after[(k + 1) + 1] = "catalog"
          OBVIOUS
        <4>1. (k + 1) + 1 \in 2 .. n - 1 /\ (k + 1) + 1 \in 1 .. n
              /\ ((k + 1) + 1) - 1 = k + 1 /\ k + 1 <= n - 1
          BY <1>1
        <4>2. after[k + 1] = "catalog"
          BY <3>4, <4>1
        <4>3. s[(k + 1) + 1].kind = "continue"
          BY <3>2, <4>1
        <4> QED
          BY <1>4, <4>1, <4>2, <4>3
      <3> HIDE DEF T
      <3>5. \A k \in Nat : k \in T
        BY <3>3, <3>4, Induction
      <3>6. ASSUME NEW k \in 1 .. n - 1 PROVE after[k] = "catalog"
        <4>1. k - 1 \in Nat /\ (k - 1) + 1 = k /\ (k - 1) + 1 <= n - 1
          BY <1>1
        <4>2. k - 1 \in T
          BY <3>5, <4>1
        <4> QED
          BY <4>1, <4>2 DEF T
      <3>7. after[n] = "nobody"
        BY <1>4, <3>1
      <3>8. ASSUME NEW k \in 1 .. n
            PROVE  after[k - 1] = "nobody" \/
                     (after[k - 1] = "catalog" /\ s[k].kind \in {"continue", "end"})
        <4>1. CASE k = 1
          BY <1>4, <4>1
        <4>2. CASE k # 1
          <5>1. k - 1 \in 1 .. n - 1 /\ (k = n \/ k \in 2 .. n - 1)
            BY <1>1, <4>2
          <5> QED
            BY <3>1, <3>2, <3>6, <5>1
        <4> QED
          BY <4>1, <4>2
      <3> QED
        BY <3>7, <3>8
    <2> QED
      BY <2>1, <2>2
  <1>7. ~ Intrudes("catalog", s)
    BY <1>2, <1>6 DEF Intrudes, after
  <1>8. ~ interrupted'
    BY <1>3, <1>7, Zenon
  <1> QED
    BY <1>2, <1>3, <1>6, <1>8 DEF after

(* Nothing written.                                                        *)
LEMMA NoneWritten ==
  ASSUME NEW by \in Writers, NEW s \in Seq(AvrMessage), Len(s) = 0, Written(by, s),
         open \in Writers, ~ interrupted
  PROVE  ~ interrupted' /\ open' = open
  <1>1. open' = OpenAfter(by, s)[Len(s)] /\ interrupted' = (interrupted \/ Intrudes(by, s))
    BY DEF Written
  <1>2. OpenAfter(by, s)[0] = open
    BY OpenAfterEach
  <1>3. ~ Intrudes(by, s)
    BY DEF Intrudes
  <1>4. ~ interrupted'
    BY <1>1, <1>3, Zenon
  <1> QED
    BY <1>1, <1>2, <1>4

LEMMA EmitKeeps ==
  ASSUME RunsInv, NEW i \in 0 .. Len(Catalog) - 1, catalog_emit(i)
  PROVE  /\ tx' \in Seq(Nat) /\ Total(tx') <= TxWords
         /\ excused => excused'
         /\ ~ excused /\ open = "nobody" => excused' \/ (~ interrupted' /\ open' = "nobody")
  <1>1. SendInv /\ (~ excused => ~ interrupted)
    BY DEF RunsInv
  <1>2. /\ Emitted(i) \in 0 .. RunLength(i) /\ Fits(Run(i, Emitted(i)))
        /\ RunLength(i) \in Nat \ {0} /\ i \in Nat
    BY <1>1, EmittedFits, RunShape, Constants
  <1>3. /\ Written("catalog", Run(i, Emitted(i)))
        /\ excused' = (excused \/ Emitted(i) \in 1 .. RunLength(i) - 1)
    BY DEF catalog_emit
  <1>4. Run(i, Emitted(i)) \in Seq(AvrMessage) /\ Len(Run(i, Emitted(i))) = Emitted(i)
    BY <1>2, RunType
  <1>5. tx' \in Seq(Nat) /\ Total(tx') <= TxWords
    BY <1>1, <1>2, <1>3, <1>4, WrittenFits
  <1>6. excused => excused'
    BY <1>3, Zenon
  <1>7. ASSUME ~ excused, open = "nobody" PROVE excused' \/ (~ interrupted' /\ open' = "nobody")
    <2>1. CASE Emitted(i) = 0
      <3>1. ~ interrupted' /\ open' = open
        BY <1>1, <1>3, <1>4, <1>7, <2>1, NoneWritten DEF Writers
      <3> QED
        BY <1>7, <3>1
    <2>2. CASE Emitted(i) = RunLength(i)
      BY <1>1, <1>3, <1>7, <2>2, RunWritten
    <2>3. CASE Emitted(i) \in 1 .. RunLength(i) - 1
      BY <1>3, <2>3, Zenon
    <2> QED
      BY <1>2, <2>1, <2>2, <2>3
  <1> QED
    BY <1>5, <1>6, <1>7

(* Its first packet sent, what is left of a reply still closes its runs.   *)
LEMMA ReplyGoesOn ==
  ASSUME NEW s \in Seq(AvrMessage), s # <<>>, WholeRuns(s)
  PROVE  /\ Head(s) \in AvrMessage /\ Tail(s) \in Seq(AvrMessage) /\ WholeRuns(Tail(s))
         /\ Head(s).kind = "start" => Closing(Tail(s))
         /\ Closing(s) => \/ Head(s).kind = "end"
                          \/ Head(s).kind = "continue" /\ Closing(Tail(s))
  <1> DEFINE t == Tail(s)
  <1>1. /\ Head(s) \in AvrMessage /\ t \in Seq(AvrMessage) /\ Len(t) = Len(s) - 1
        /\ \A i \in 1 .. Len(t) : t[i] = s[i + 1]
    BY HeadTailProperties
  <1>2. Len(s) \in Nat \ {0} /\ Head(s) = s[1]
    BY EmptySeq
  <1> HIDE DEF t
  <1>3. \A i \in 2 .. Len(s) : i - 1 \in 1 .. Len(t) /\ t[i - 1] = s[i]
    <2> SUFFICES ASSUME NEW i \in 2 .. Len(s)
                 PROVE  i - 1 \in 1 .. Len(t) /\ t[i - 1] = s[i]
      OBVIOUS
    <2>1. i - 1 \in 1 .. Len(t) /\ (i - 1) + 1 = i
      BY <1>1, <1>2
    <2> QED
      BY <1>1, <2>1
  <1>4. ASSUME NEW i \in 1 .. Len(t), t[i].kind = "start"
        PROVE  \E e \in i + 1 .. Len(t) :
                 /\ t[e].kind = "end" /\ \A k \in i + 1 .. e - 1 : t[k].kind = "continue"
    <2>1. i + 1 \in 1 .. Len(s) /\ s[i + 1].kind = "start"
      BY <1>1, <1>2, <1>4
    <2>2. PICK e \in (i + 1) + 1 .. Len(s) :
            /\ s[e].kind = "end" /\ \A k \in (i + 1) + 1 .. e - 1 : s[k].kind = "continue"
      BY <2>1 DEF WholeRuns
    <2>3. e \in 2 .. Len(s) /\ e - 1 \in i + 1 .. Len(t)
      BY <1>1, <1>2, <2>2
    <2>4. t[e - 1].kind = "end"
      BY <1>3, <2>2, <2>3
    <2>5. ASSUME NEW k \in i + 1 .. (e - 1) - 1 PROVE t[k].kind = "continue"
      <3>1. k \in 1 .. Len(t) /\ k + 1 \in (i + 1) + 1 .. e - 1
        BY <1>1, <1>2, <2>2
      <3> QED
        BY <1>1, <2>2, <3>1
    <2> QED
      BY <2>3, <2>4, <2>5
  <1>5. ASSUME s[1].kind = "start" PROVE Closing(t)
    <2>1. PICK e \in 1 + 1 .. Len(s) :
            /\ s[e].kind = "end" /\ \A k \in 1 + 1 .. e - 1 : s[k].kind = "continue"
      BY <1>2, <1>5 DEF WholeRuns
    <2>2. e \in 2 .. Len(s) /\ e - 1 \in 1 .. Len(t)
      BY <1>1, <1>2, <2>1
    <2>3. t[e - 1].kind = "end"
      BY <1>3, <2>1, <2>2
    <2>4. ASSUME NEW k \in 1 .. (e - 1) - 1 PROVE t[k].kind = "continue"
      <3>1. k \in 1 .. Len(t) /\ k + 1 \in 1 + 1 .. e - 1
        BY <1>1, <1>2, <2>2
      <3> QED
        BY <1>1, <2>1, <3>1
    <2> QED
      BY <2>2, <2>3, <2>4 DEF Closing
  <1>6. ASSUME Closing(s) PROVE s[1].kind = "end" \/ (s[1].kind = "continue" /\ Closing(t))
    <2>1. PICK e \in 1 .. Len(s) :
            /\ s[e].kind = "end" /\ \A k \in 1 .. e - 1 : s[k].kind = "continue"
      BY <1>6 DEF Closing
    <2>2. CASE e = 1
      BY <2>1, <2>2
    <2>3. CASE e # 1
      <3>1. 1 \in 1 .. e - 1 /\ e \in 2 .. Len(s) /\ e - 1 \in 1 .. Len(t)
        BY <1>1, <1>2, <2>3
      <3>2. t[e - 1].kind = "end" /\ s[1].kind = "continue"
        BY <1>3, <2>1, <3>1
      <3>3. ASSUME NEW k \in 1 .. (e - 1) - 1 PROVE t[k].kind = "continue"
        <4>1. k \in 1 .. Len(t) /\ k + 1 \in 1 .. e - 1
          BY <1>1, <1>2, <3>1
        <4> QED
          BY <1>1, <2>1, <4>1
      <3> QED
        BY <3>1, <3>2, <3>3 DEF Closing
    <2> QED
      BY <2>2, <2>3
  <1> QED
    BY <1>1, <1>2, <1>4, <1>5, <1>6 DEF WholeRuns, t

(* A frame given up leaves the runs of the frames behind it whole.         *)
LEMMA FramesLeft ==
  ASSUME NEW s \in Seq(AvrMessage), NEW n \in 1 .. Len(s)
  PROVE  /\ SubSeq(s, n + 1, Len(s)) \in Seq(AvrMessage)
         /\ WholeRuns(s) => WholeRuns(SubSeq(s, n + 1, Len(s)))
  <1> DEFINE t == SubSeq(s, n + 1, Len(s))
  <1>1. Len(s) \in Nat /\ \A i \in 1 .. Len(s) : s[i] \in AvrMessage
    BY LenProperties, ElementOfSeq
  <1>2. t \in Seq(AvrMessage) /\ Len(t) = Len(s) - n /\ \A i \in 1 .. Len(s) - n : t[i] = s[n + i]
    BY <1>1
  <1> HIDE DEF t
  <1>3. ASSUME WholeRuns(s), NEW i \in 1 .. Len(t), t[i].kind = "start"
        PROVE  \E e \in i + 1 .. Len(t) :
                 /\ t[e].kind = "end" /\ \A k \in i + 1 .. e - 1 : t[k].kind = "continue"
    <2>1. n + i \in 1 .. Len(s) /\ s[n + i].kind = "start"
      BY <1>1, <1>2, <1>3
    <2>2. PICK e \in (n + i) + 1 .. Len(s) :
            /\ s[e].kind = "end" /\ \A k \in (n + i) + 1 .. e - 1 : s[k].kind = "continue"
      BY <1>3, <2>1 DEF WholeRuns
    <2>3. e - n \in i + 1 .. Len(t) /\ e - n \in 1 .. Len(s) - n /\ n + (e - n) = e
      BY <1>1, <1>2, <2>1, <2>2
    <2>4. t[e - n].kind = "end"
      BY <1>2, <2>2, <2>3
    <2>5. ASSUME NEW k \in i + 1 .. (e - n) - 1 PROVE t[k].kind = "continue"
      <3>1. k \in 1 .. Len(s) - n /\ n + k \in (n + i) + 1 .. e - 1
        BY <1>1, <1>2, <2>1, <2>2
      <3> QED
        BY <1>2, <2>2, <3>1
    <2> QED
      BY <2>3, <2>4, <2>5
  <1> QED
    BY <1>2, <1>3 DEF WholeRuns, t

LEMMA RunsSame ==
  ASSUME RunsInv, UNCHANGED <<reply, cat_idx, burst_sweeps, ghosts>>,
         tx' \in Seq(Nat), Total(tx') <= TxWords, pc' = "reply" <=> pc = "reply"
  PROVE  RunsInv'
  BY DEF RunsInv, SendInv, Whose, WholeRuns, Closing, ghosts, Total

LEMMA RunsUsb ==
  ASSUME RunsInv, Usb, UNCHANGED <<reply, cat_idx, burst_sweeps, ghosts>>,
         pc' = "reply" <=> pc = "reply"
  PROVE  RunsInv'
  <1>1. tx \in Seq(Nat) /\ Total(tx) <= TxWords
    BY DEF RunsInv, SendInv
  <1>2. PICK n \in 0 .. Len(tx) : tx' = SubSeq(tx, n + 1, Len(tx))
    BY DEF Usb
  <1>3. /\ SubSeq(tx, n + 1, Len(tx)) \in Seq(Nat)
        /\ Total(SubSeq(tx, n + 1, Len(tx))) <= Total(tx)
    BY <1>1, TotalOfRest
  <1>4. Total(tx) \in Nat /\ Total(SubSeq(tx, n + 1, Len(tx))) \in Nat /\ TxWords \in Nat
    <2>1. ASSUME NEW s \in Seq(Nat) PROVE Total(s) \in Nat
      <3>1. PICK f \in [0 .. Len(s) -> Nat] : Total(s) = f[Len(s)]
        BY RunningTotals
      <3>2. Len(s) \in 0 .. Len(s)
        BY LenProperties
      <3> QED
        BY <3>1, <3>2
    <2> QED
      BY <1>1, <1>3, <2>1, Constants
  <1>5. tx' \in Seq(Nat) /\ Total(tx') <= TxWords
    BY <1>1, <1>2, <1>3, <1>4
  <1> QED
    BY <1>5, RunsSame

LEMMA RunsBurst == ASSUME RunsInv, Burst PROVE RunsInv'
  <1>1. SendInv /\ burst_sweeps # 0 /\ excused /\ pc = "catalog"
    BY DEF RunsInv, SendInv, Burst
  <1>2. /\ Len(Catalog) \in Nat \ {0} /\ cat_idx \in Nat
        /\ burst_sweeps \in Nat /\ burst_sweeps - 1 \in Nat
    BY <1>1, Constants DEF SendInv
  <1>3. At(cat_idx) \in AvrMessage /\ <<At(cat_idx)>> \in Seq(AvrMessage)
    BY <1>2, Entries
  <1>4. CASE Fits(<<At(cat_idx)>>)
    <2>1. /\ Written("catalog", <<At(cat_idx)>>) /\ excused' = excused /\ reply' = reply /\ pc' = pc
          /\ cat_idx' = (cat_idx + 1) % Len(Catalog)
          /\ burst_sweeps' \in {burst_sweeps, burst_sweeps - 1}
      BY <1>4 DEF Burst, answer
    <2>2. tx' \in Seq(Nat) /\ Total(tx') <= TxWords
      BY <1>1, <1>3, <1>4, <2>1, WrittenFits
    <2>3. cat_idx' \in 0 .. Len(Catalog) - 1
      <3>1. cat_idx + 1 \in Nat
        BY <1>2
      <3> QED
        BY <1>2, <2>1, <3>1, Remainder
    <2>4. burst_sweeps' \in Nat
      BY <1>2, <2>1
    <2>5. SendInv'
      BY <1>1, <2>1, <2>2, <2>3, <2>4 DEF SendInv, Total
    <2> QED
      BY <1>1, <2>1, <2>5 DEF RunsInv
  <1>5. CASE ~ Fits(<<At(cat_idx)>>)
    <2>1. UNCHANGED <<tx, reply, cat_idx, burst_sweeps, ghosts>> /\ pc' = "usb"
      BY <1>5 DEF Burst, answer
    <2>2. tx' \in Seq(Nat) /\ Total(tx') <= TxWords
      BY <1>1, <2>1 DEF SendInv
    <2> QED
      BY <1>1, <2>1, <2>2, RunsSame
  <1> QED
    BY <1>4, <1>5

LEMMA RunsCycle == ASSUME RunsInv, Cycle PROVE RunsInv'
  <1>1. SendInv /\ pc = "catalog" /\ pc' = "usb" /\ reply' = reply /\ burst_sweeps' = burst_sweeps
        /\ burst_sweeps = 0 /\ (excused \/ (~ interrupted /\ open = "nobody"))
    BY DEF RunsInv, Cycle, answer, Whose
  <1>2. CASE UNCHANGED <<tx, cat_idx, ghosts>>
    <2>1. tx' \in Seq(Nat) /\ Total(tx') <= TxWords
      BY <1>1, <1>2 DEF SendInv
    <2> QED
      BY <1>1, <1>2, <2>1, RunsSame
  <1>3. CASE catalog_emit(cat_idx) /\ cat_idx' = (LastEmitted(cat_idx) + 1) % Len(Catalog)
    <2>1. cat_idx \in 0 .. Len(Catalog) - 1
      BY <1>1 DEF SendInv
    <2>2. /\ tx' \in Seq(Nat) /\ Total(tx') <= TxWords
          /\ excused' \/ (~ interrupted' /\ open' = "nobody")
      BY <1>1, <1>3, <2>1, EmitKeeps
    <2>3. cat_idx' \in 0 .. Len(Catalog) - 1
      <3>1. LastEmitted(cat_idx) + 1 \in Nat
        BY <1>1, <2>1, EmittedFits
      <3> QED
        BY <1>3, <3>1, Constants, Remainder
    <2>4. SendInv'
      BY <1>1, <2>2, <2>3 DEF SendInv, Total
    <2>5. ~ excused' => Whose'
      BY <1>1, <2>2 DEF Whose
    <2> QED
      BY <2>2, <2>4, <2>5 DEF RunsInv
  <1> QED
    BY <1>2, <1>3 DEF Cycle

LEMMA RunsEcho ==
  ASSUME RunsInv, pc = "ump", NEW m \in Inbound, Echo(m)
  PROVE  RunsInv'
  <1> DEFINE b == [kind |-> "other", words |-> m.words]
             s == IF Fits(<<b>>) THEN <<b>> ELSE <<>>
  <1>1. SendInv /\ (excused \/ (~ interrupted /\ open = "nobody"))
    BY DEF RunsInv, Whose
  <1>2. b \in AvrMessage /\ b.kind = "other"
    BY MessageWords DEF AvrMessage, Forms
  <1>3. Written("echo", s) /\ UNCHANGED <<pc, reply, cat_idx, burst_sweeps, excused>>
    BY DEF Echo, answer, catalog
  <1> HIDE DEF b
  <1>4. CASE Fits(<<b>>)
    <2>1. <<b>> \in Seq(AvrMessage) /\ Written("echo", <<b>>)
      BY <1>2, <1>3, <1>4
    <2>2. tx' \in Seq(Nat) /\ Total(tx') <= TxWords
      BY <1>1, <1>4, <2>1, WrittenFits
    <2>3. ASSUME ~ excused PROVE ~ interrupted' /\ open' = "nobody"
      <3>1. open = "nobody" /\ ~ interrupted /\ "echo" \in Writers /\ open \in Writers
        BY <1>1, <2>3 DEF Writers
      <3> QED
        BY <1>2, <2>1, <3>1, OneWritten
    <2>4. SendInv'
      BY <1>1, <1>3, <2>2 DEF SendInv, Total
    <2> QED
      BY <1>3, <2>3, <2>4 DEF RunsInv, Whose
  <1>5. CASE ~ Fits(<<b>>)
    <2>1. <<>> \in Seq(AvrMessage) /\ Len(<<>>) = 0 /\ Written("echo", <<>>)
      BY <1>3, <1>5
    <2>2. tx' = tx
      <3>1. Sizes(<<>>) = <<>>
        BY DEF Sizes
      <3> QED
        BY <1>1, <2>1, <3>1, ConcatEmptySeq DEF Written, SendInv
    <2>3. ASSUME ~ excused PROVE ~ interrupted' /\ open' = "nobody"
      <3>1. open = "nobody" /\ ~ interrupted /\ "echo" \in Writers /\ open \in Writers
        BY <1>1, <2>3 DEF Writers
      <3> QED
        BY <2>1, <3>1, NoneWritten
    <2>4. SendInv'
      BY <1>1, <1>3, <2>2 DEF SendInv, Total
    <2> QED
      BY <1>3, <2>3, <2>4 DEF RunsInv, Whose
  <1> QED
    BY <1>4, <1>5

LEMMA RunsControl ==
  ASSUME RunsInv, pc = "ump", NEW m \in Inbound, control_surface(m)
  PROVE  RunsInv'
  <1>1. SendInv /\ (excused \/ (~ interrupted /\ open = "nobody"))
    BY DEF RunsInv, Whose
  <1>2. m.value \in Nat /\ UNCHANGED <<pc, reply, cat_idx>>
    BY MessageWords DEF control_surface, answer
  <1>3. CASE m.kind = "entry"
    <2>1. catalog_emit(m.value % Len(Catalog)) /\ burst_sweeps' = burst_sweeps
      BY <1>3 DEF control_surface
    <2>2. m.value % Len(Catalog) \in 0 .. Len(Catalog) - 1
      BY <1>2, Constants, Remainder
    <2>3. /\ tx' \in Seq(Nat) /\ Total(tx') <= TxWords /\ (excused => excused')
          /\ excused' \/ (~ interrupted' /\ open' = "nobody")
      BY <1>1, <2>1, <2>2, EmitKeeps
    <2>4. SendInv'
      BY <1>1, <1>2, <2>1, <2>3 DEF SendInv, Total
    <2> QED
      BY <1>2, <2>3, <2>4 DEF RunsInv, Whose
  <1>4. CASE m.kind = "burst"
    <2>1. excused' = TRUE /\ UNCHANGED <<tx, open, interrupted>> /\ burst_sweeps' = m.value + 1
      BY <1>4 DEF control_surface
    <2>2. burst_sweeps' \in Nat
      BY <1>2, <2>1
    <2>3. SendInv'
      BY <1>1, <1>2, <2>1, <2>2 DEF SendInv, Total
    <2> QED
      BY <2>1, <2>3 DEF RunsInv
  <1>5. CASE m.kind \notin {"entry", "burst"}
    <2>1. UNCHANGED <<tx, ghosts>> /\ burst_sweeps' = burst_sweeps
      BY <1>5 DEF control_surface
    <2>2. tx' \in Seq(Nat) /\ Total(tx') <= TxWords
      BY <1>1, <2>1 DEF SendInv
    <2> QED
      BY <1>2, <2>1, <2>2, RunsSame
  <1> QED
    BY <1>3, <1>4, <1>5

LEMMA RunsRequest ==
  ASSUME RunsInv, pc = "ump", NEW m \in Inbound, m.kind \in DOMAIN AvrReply, Request(m)
  PROVE  RunsInv'
  <1>1. SendInv /\ (excused \/ (~ interrupted /\ open = "nobody"))
    BY DEF RunsInv, Whose
  <1>2. /\ reply' = AvrReply[m.kind] /\ UNCHANGED <<tx, cat_idx, burst_sweeps, ghosts>>
        /\ pc' = IF reply' = <<>> THEN "ump" ELSE "reply"
    BY DEF Request, catalog
  <1>3. AvrReply[m.kind] \in Seq(AvrMessage) /\ WholeRuns(AvrReply[m.kind])
    BY AvrAssumption
  <1>4. reply' \in Seq(AvrMessage) /\ WholeRuns(reply') /\ (pc' = "reply" => reply' # <<>>)
    BY <1>2, <1>3
  <1>5. SendInv'
    BY <1>1, <1>2, <1>4 DEF SendInv, Total, ghosts
  <1>6. excused' \/ (~ interrupted' /\ open' = "nobody")
    BY <1>1, <1>2 DEF ghosts
  <1>7. open' = "nobody" => Whose'
    BY <1>4 DEF Whose, WholeRuns
  <1> QED
    BY <1>5, <1>6, <1>7 DEF RunsInv

LEMMA RunsComplete == ASSUME RunsInv, FramedInv, Complete PROVE RunsInv'
  <1> DEFINE m == Available[1].of
  <1>1. pc = "ump" /\ Available # <<>> /\ Handle(m)
    BY DEF Complete
  <1>2. m \in Inbound
    <2>1. Available \in Seq(Word)
      BY ConcatProperties DEF FramedInv, WordsOK, Available
    <2>2. Available[1] \in Word
      BY <1>1, <2>1, EmptySeq, ElementOfSeq
    <2> QED
      BY <2>2 DEF Word
  <1> HIDE DEF m
  <1>3. CASE m.kind = "echo"
    <2>1. m.kind \notin DOMAIN AvrReply
      BY <1>3, AvrAssumption DEF Controls
    <2>2. Echo(m)
      BY <1>1, <1>3, <2>1 DEF Handle
    <2> QED
      BY <1>1, <1>2, <2>2, RunsEcho
  <1>4. CASE m.kind # "echo" /\ m.kind \in DOMAIN AvrReply
    <2>1. Request(m)
      BY <1>1, <1>4 DEF Handle
    <2> QED
      BY <1>1, <1>2, <1>4, <2>1, RunsRequest
  <1>5. CASE m.kind # "echo" /\ m.kind \notin DOMAIN AvrReply
    <2>1. control_surface(m)
      BY <1>1, <1>5 DEF Handle
    <2> QED
      BY <1>1, <1>2, <2>1, RunsControl
  <1> QED
    BY <1>3, <1>4, <1>5

LEMMA RunsSendPacket == ASSUME RunsInv, SendPacket PROVE RunsInv'
  <1> DEFINE m == Head(reply)
  <1>1. SendInv /\ pc = "reply" /\ (excused \/ (~ interrupted /\ Whose))
    BY DEF RunsInv, SendPacket
  <1>2. reply \in Seq(AvrMessage) /\ reply # <<>>
    BY <1>1 DEF SendInv
  <1>3. m \in AvrMessage /\ <<m>> \in Seq(AvrMessage) /\ Tail(reply) \in Seq(AvrMessage)
    BY <1>2, HeadAndTail
  <1>4. /\ Fits(<<m>>) /\ Written("reply", <<m>>)
        /\ reply' = Tail(reply) /\ pc' = IF Tail(reply) = <<>> THEN "ump" ELSE "reply"
        /\ UNCHANGED <<cat_idx, burst_sweeps, excused>>
    BY DEF SendPacket, Answered, catalog
  <1>5. tx' \in Seq(Nat) /\ Total(tx') <= TxWords
    BY <1>1, <1>3, <1>4, WrittenFits
  <1>6. SendInv'
    BY <1>1, <1>3, <1>4, <1>5 DEF SendInv, Total
  <1>7. ASSUME ~ excused PROVE ~ interrupted' /\ Whose'
    <2>1. /\ ~ interrupted /\ open \in {"nobody", "reply"} /\ WholeRuns(reply)
          /\ open = "reply" => Closing(reply)
      BY <1>1, <1>7 DEF Whose
    <2>2. /\ WholeRuns(Tail(reply)) /\ (m.kind = "start" => Closing(Tail(reply)))
          /\ open = "reply" => m.kind = "end" \/ (m.kind = "continue" /\ Closing(Tail(reply)))
      BY <1>2, <2>1, ReplyGoesOn
    <2> HIDE DEF m
    <2>3. open \in Writers /\ "reply" \in Writers
          /\ (open = "nobody" \/ (open = "reply" /\ m.kind \in {"continue", "end"}))
      BY <2>1, <2>2 DEF Writers
    <2>4. /\ ~ interrupted'
          /\ open' = IF m.kind = "start" THEN "reply" ELSE IF m.kind = "end" THEN "nobody" ELSE open
      BY <1>3, <1>4, <2>1, <2>3, OneWritten
    <2>5. open' \in {"nobody", "reply"} /\ (open' = "reply" => Closing(Tail(reply)))
      BY <2>1, <2>2, <2>4
    <2>6. CASE Tail(reply) = <<>>
      <3>1. ~ Closing(Tail(reply))
        <4>1. Len(Tail(reply)) = 0
          BY <1>3, <2>6, EmptySeq
        <4> QED
          BY <4>1 DEF Closing
      <3> QED
        BY <1>4, <2>4, <2>5, <2>6, <3>1 DEF Whose
    <2>7. CASE Tail(reply) # <<>>
      <3>1. WholeRuns(reply') /\ (open' = "reply" => Closing(reply')) /\ pc' = "reply"
        BY <1>4, <2>2, <2>5, <2>7
      <3> QED
        BY <2>4, <2>5, <3>1 DEF Whose, WholeRuns, Closing
    <2> QED
      BY <2>6, <2>7
  <1> QED
    BY <1>4, <1>6, <1>7 DEF RunsInv

LEMMA RunsGiveUp == ASSUME RunsInv, GiveUp PROVE RunsInv'
  <1>1. SendInv /\ pc = "reply" /\ (excused \/ (~ interrupted /\ Whose))
    BY DEF RunsInv, GiveUp
  <1>2. reply \in Seq(AvrMessage) /\ reply # <<>>
    BY <1>1 DEF SendInv
  <1>3. PICK n \in 1 .. Len(reply) :
          reply' = SubSeq(reply, n + 1, Len(reply)) /\ Answered(reply')
    BY DEF GiveUp, Answered
  <1>8. /\ pc' = IF reply' = <<>> THEN "ump" ELSE "reply"
        /\ UNCHANGED <<tx, cat_idx, burst_sweeps, open, interrupted>>
        /\ excused' = (excused \/ open = "reply")
    BY <1>3, Zenon DEF GiveUp, Answered, catalog
  <1>4. reply' \in Seq(AvrMessage) /\ (WholeRuns(reply) => WholeRuns(SubSeq(reply, n + 1, Len(reply))))
    BY <1>2, <1>3, FramesLeft
  <1>5. excused => excused'
    BY <1>8, Zenon
  <1>6. SendInv'
    BY <1>1, <1>4, <1>5, <1>8 DEF SendInv, Total
  <1>7. ASSUME ~ excused' PROVE ~ interrupted' /\ Whose'
    <2>1. ~ excused /\ open # "reply"
      BY <1>7, <1>8, Zenon
    <2>2. ~ interrupted /\ open = "nobody" /\ WholeRuns(reply)
      BY <1>1, <2>1 DEF Whose
    <2>3. WholeRuns(SubSeq(reply, n + 1, Len(reply)))
      BY <1>4, <2>2, Zenon
    <2>4. WholeRuns(reply')
      BY <1>3, <2>3
    <2> QED
      BY <1>8, <2>2, <2>4 DEF Whose, WholeRuns
  <1> QED
    BY <1>6, <1>7 DEF RunsInv

LEMMA RunsStep == ASSUME FramedInv, RunsInv, [AvrNext]_avrVars PROVE RunsInv'
  <1>1. CASE midi2lufa_task
    BY <1>1, RunsUsb DEF midi2lufa_task, answer, catalog
  <1>2. CASE Complete
    BY <1>2, RunsComplete
  <1>3. CASE Wait
    BY <1>3, RunsUsb DEF Wait, catalog
  <1>4. CASE SendPacket
    BY <1>4, RunsSendPacket
  <1>5. CASE GiveUp
    BY <1>5, RunsGiveUp
  <1>6. CASE Burst
    BY <1>6, RunsBurst
  <1>7. CASE Cycle
    BY <1>7, RunsCycle
  <1>8. CASE Incomplete \/ (\E m \in Inbound : HostSends(m)) \/ UNCHANGED avrVars
    <2>1. UNCHANGED <<tx, reply, cat_idx, burst_sweeps, ghosts>> /\ (pc' = "reply" <=> pc = "reply")
      BY <1>8 DEF Incomplete, HostSends, avrVars, answer, catalog
    <2>2. tx' \in Seq(Nat) /\ Total(tx') <= TxWords
      BY <2>1 DEF RunsInv, SendInv
    <2> QED
      BY <2>1, <2>2, RunsSame
  <1> QED
    BY <1>1, <1>2, <1>3, <1>4, <1>5, <1>6, <1>7, <1>8 DEF AvrNext, Loop, ump_task

(* "A SysEx7 run leaves in one pass" (README.md:47): unless a burst was    *)
(* asked for or the ring was full in the middle of a run, nothing is       *)
(* written between its Start and its End.                                  *)
THEOREM RunsLeaveInOnePass == AvrSpec => []LeavesInOnePass
  <1>1. AvrInit => FramedInv /\ RunsInv
    <2> SUFFICES ASSUME AvrInit PROVE RunsInv
      BY FramedStart
    <2>1. /\ tx = <<>> /\ reply = <<>> /\ pc = "usb" /\ cat_idx = 0 /\ burst_sweeps = 0
          /\ open = "nobody" /\ interrupted = FALSE
      BY DEF AvrInit
    <2>2. <<>> \in Seq(Nat) /\ <<>> \in Seq(AvrMessage) /\ Len(<<>>) = 0
      OBVIOUS
    <2>3. Total(<<>>) = 0
      BY <2>2, RunningTotals
    <2>4. 0 \in 0 .. Len(Catalog) - 1 /\ TxWords \in Nat
      BY Constants
    <2>5. SendInv
      BY <2>1, <2>2, <2>3, <2>4 DEF SendInv
    <2> QED
      BY <2>1, <2>5 DEF RunsInv, Whose
  <1>2. FramedInv /\ RunsInv /\ [AvrNext]_avrVars => (FramedInv /\ RunsInv)'
    BY FramedStep, RunsStep
  <1>3. RunsInv => LeavesInOnePass
    BY DEF RunsInv, LeavesInOnePass
  <1> QED
    BY <1>1, <1>2, <1>3, PTL DEF AvrSpec
=============================================================================
