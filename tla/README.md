# midi2 in TLA+

A specification of the midi2 library (portable C99 MIDI 2.0) and of the examples
built on it: TLA+ modules, TLC configurations that check them on small instances,
and TLAPS proofs for every instance. File names and line numbers refer to the
repository (`src/midi2_proc.c` and so on). Run from this directory:

    tlc -workers 2 -config Proc.cfg MCProc      # model-check one run
    tlapm ProcProofs.tla                        # check one module's proofs

and likewise `UmpProofs`, `ConvProofs`, `CiProofs`, `LinkProofs`, `RtosProofs`,
`ExampleProofs` and the `DataLemmas` they cite.

`PROJECT.json` lists the runs, the definitions with the source lines they model,
a mutation of the code for every property (an operator named `Bug_...`, which
nothing uses, that TLC finds out when it replaces the definition after it), the
hazards and the divergences found.

## The system

| Component | State | Operations | Talks to |
|---|---|---|---|
| `midi2_proc` receive pipeline | one SysEx7 and one SysEx8 reassembly buffer with the key (group, stream id) in progress; the group mask | `midi2_proc_init`, `midi2_proc_feed`; the application writes the mask | calls `on_ump`, `on_sysex7`, `on_sysex8` |
| `midi2_proc` senders | none between calls; offset in the message during one | `midi2_proc_send_sysex7`, `_sysex8`, Function Block name, stream texts, group remap | call `write_fn`, which may be short |
| `midi2_conv` | Running Status, data bytes so far, six-byte SysEx buffer, one pending message | `midi2_conv_feed`, `midi2_conv_next` | the caller's loop |
| `midi2_ci` responder | MUID, settings, profile, property and subscriber registries in the caller's arrays | `add`, `remove`, `reset`, `subscribe`, `notify`, `process_sysex` | is fed by `on_sysex7`; replies through `midi2_proc_send_sysex7` |
| `midi2_ci_msg.h`, `midi2_msg.h` | none | builders, parsers, value scaling, MIDI 1.0/2.0 translation | used by all |
| `midi2_dispatch`, `midi2_ci_dispatch` | none | one typed callback per message | the application |
| FreeRTOS example | two queues, a held message, the endpoint FIFOs, catalog position | `usb_task`, `midi_task` | TinyUSB, `midi2_proc`, `midi2_ci` |
| Zephyr example | which scenes have played, a receive queue, a recursive transmit mutex and the flag that keeps it across calls, readiness | the scene loop, the receive thread, a heartbeat on the work queue; `send_ump` | `usbd_midi2`, the kernel, the library |
| ATmega32U4 examples | a transmit and a receive ring, the words of the message so far, catalog position, pause and burst | one super-loop of three tasks | LUFA, the library |
| Teensy example | none of its own | one loop | USB, the library |
| amalgamated header, build, tests, tools, CI | none | | generated or infrastructure |

The library is single-threaded by contract. What is hard is *order*: packets of
several messages interleave, a stream is cut by a full buffer or a full sink, a
status byte or a collision arrives in the middle of something else. Concurrency
comes in with the examples: two tasks and two queues (FreeRTOS), threads and a
lock (Zephyr), an interrupt and a ring (ATmega).

What makes each component correct, in a sentence:

- *pipeline*: a buffer holds bytes of one run of packets (two messages that each
  have their Start never mix; packets that lost theirs, and Mixed Data Set packets in a
  SysEx8 message, are appended),
  and an undisturbed message is delivered whole, whatever else is on the wire;
- *senders and pipeline together*: what is delivered was sent, whole, in order,
  although the sink may refuse any packet;
- *converter*: the messages are the ones the bytes mean under Running Status, no
  SysEx byte is lost, every SysEx packet sequence is well framed, and every
  message keeps its place;
- *responder*: the registry is what the API said it is, every inquiry is
  answered (unless the profiles outgrow a reply's 256 bytes), always under the MUID in force, and a new MUID is announced;
- *UMP builders and dispatcher*: what a builder writes is what the callback for
  it is told, bit by bit, and nothing past the message is read; translation to
  MIDI 2.0 and back is the identity;
- *MIDI-CI builders and dispatcher*: the same for payloads in both versions, and a
  payload that was cut or whose lengths lie is never read past its end;
- *Zephyr example*: no packet falls inside another thread's SysEx run, the lock is
  never leaked, and a cycle that nothing disturbed leaves no note on;
- *ATmega example*: message framing never slips, every reply ends, and so does every
  round of the loop unless the host goes on sending for ever;
- *FreeRTOS example*: what enters the queue reaches the host once and in order,
  and nothing interrupts a SysEx7 run.

## Modules

| Module | Models | Notes |
|---|---|---|
| `Proc` | `midi2_proc_init`, `midi2_proc_feed` | a byte is its provenance (packet, index) |
| `ProcProofs` | theorems about `Proc` and `UmpCodec` | EXTENDS both |
| `SysExLink` | the SysEx senders, the sink, and an instance of `Proc` as receiver | one `write_fn` call per step |
| `MessageLanes` | the abstract promise: a lossy lane per kind of SysEx | `SysExLink` implements it |
| `LinkProofs` | theorems about `SysExLink` | |
| `Conv` | `midi2_conv_init`, `_feed`, `_next` | a byte is its class and its place |
| `ConvProofs` | theorems about `Conv` | |
| `CiResponder` | `midi2_ci.c` | a message is its sub-id, MUIDs and resource |
| `CiProofs` | theorems about `CiResponder` and `CiCodec` | EXTENDS both |
| `RtosPipeline` | `examples/rp2350-device-freertos/src/pipeline.c` | tasks, queues, FIFOs, host |
| `RtosProofs` | theorems about `RtosPipeline` | |
| `BitFields` | shifts and masks | a word is the set of its one bits |
| `UmpMessages` | the builders of `midi2_msg.h` | a message is a layout |
| `UmpDispatch` | `midi2_dispatch.c`, translation and scaling of `midi2_msg.h` | EXTENDS `UmpMessages` |
| `UmpCodec` | a message from builder to callback | composes the two |
| `UmpProofs` | theorems about `UmpCodec` | EXTENDS `ProcProofs` |
| `CiMessages` | the builders of `midi2_ci_msg.h` | a message is a row of cells |
| `CiDispatch` | `midi2_ci_dispatch.c` | EXTENDS `CiMessages` |
| `CiCodec` | a payload from builder to callback | composes the two |
| `ZephyrShow` | the scenes of `examples/rpi-pico-device-zephyr/src/main.c` | functions of the flags and the time |
| `ZephyrDevice` | the threads and the transmit gate of the same file | EXTENDS `ZephyrShow` |
| `AvrLoop` | `examples/atmega32u4-device-baremetal` | one task per phase of the loop |
| `ExampleProofs` | theorems about `ZephyrDevice` and `AvrLoop` | EXTENDS both, hence `AvrSpec`, `AvrMessage` and so on |
| `DataLemmas` | lemmas about numbers, sequences and recursive functions | for the proofs |
| `MC...` | the values of the constants | |

**Proc.** `asm[k]` is `sysex_buf`, `sysex_len`, `sysex_group` (and the stream id)
of kind `k`; `group_mask` the field of that name; `up` the upcall the last feed
made; `fed` a history of every packet. `Feed(p)` is one call of
`midi2_proc_feed`: dropped whole when truncated, reassembled when SysEx7 or
SysEx8 (before the group filter, as the code does), otherwise filtered and given to
`on_ump`. The code never reads a payload byte, so a byte is modelled as
`<<i, j>>`, the j-th data byte of the i-th packet fed; then what a callback
receives says where every byte came from, and "spliced" or "with a gap" can be
said of it. `SetGroupMask` is the application writing the field.

**SysExLink.** Each call of `write_fn` is one step (`Write`), so senders of the
two kinds and the receiver interleave between the packets of a message. The sink
holds `WireSize` packets and refuses the rest; with `Silent` it claims to have
taken them, as `ci_write_fn` of the FreeRTOS example does. `Receive` is
`Proc!Feed` of the next packet. The callers keep messages of one kind apart
(guard of `Begin`): the examples send from one task or under a lock. `log`, `source` and
`delivered` are histories that tell which message each delivered byte is of.
`MaxFed` comes with the instance of `Proc` and is above what `MaxMessages` allows.

**MessageLanes.** A message is a number, given in the order of sending over all
lanes. `pending[l]` is the set of messages of lane `l` sent and neither received nor
lost, `received` one sequence over all lanes; `Submit` adds a greater number, `Lose`
drops any pending one, `Deliver` hands over the least of its lane. The refinement
mapping takes `pending` to the messages begun, not refused and not
delivered (`InTransit`) and each delivery to the message whose content it is
(`Identity`): a message is pending from the sender's call to a refusal or the
receiver's callback, and "once and in order, per kind" is what `Deliver` says.

**Conv.** Bytes are the nine classes the code tells apart (two-byte voice,
one-byte voice, System Common with 1, 2 and 0 data bytes, F0, F7, Real-Time,
data). `Feed(b)` is `midi2_conv_feed` with one disjunct per branch;
`DrainPending` is `midi2_conv_next`. The caller may or may not drain before the next byte:
what it then loses (in a release build; a debug build asserts) is kept in
`dropped`. A message is the places of its bytes in the stream. The properties
compare what came out with a reading of the byte history by the MIDI 1.0 rules
(`InForce`, `Completes`, `Meaning`, `StartOf`) that shares nothing with the
converter but the table of data-byte counts.

**CiResponder.** `ci` is `midi2_ci_state`, field by field, in a record.
One action per API call, and `ProcessSysex(m)` for an inbound message: first the
collision check, then the handler, in one step, because the code sends from within the
call. `last` and `sent` record the call and its frames, `subscribed` what the
API has confirmed. The MUID space is `MuidSpace` (2^28 in the code), the state field is wider:
the fallback value 0x12345678 is outside the space, and so is the model's.
`outcome` is what the code leaves to others: the answer of the application's getter or
setter, and, for a Profile Inquiry about more than `ProfileRoom` profiles (47 in the
code), whether the reply that was written past its 256 bytes (`midi2_ci.c:419`, undefined
behaviour) goes out or not.

**RtosPipeline.** `Handle`, `Timeout` and `Enqueue` are `midi_task`; `Read`,
`Take` and `Write` are `usb_task`, which has the higher priority and preempts
`midi_task` between any two of its calls; `HostReads`, `HostSends`, `Unplug` and `Plug` are the
other end of TinyUSB. A catalog entry is its SysEx7 form and its words
(everything that is not SysEx7 is "other", as `emit_catalog` looks at message
type 3 only). The loop of `usb_task` is broken into its iterations: every pass of the code is a sequence
of these steps, and the model allows more orders, not fewer.

**UmpMessages, UmpDispatch, UmpCodec.** Builders and dispatcher each state the
layout of some sixty messages, in shifts and masks, far from one another.
`UmpMessages` takes the builders' side from `midi2_msg.h`: `Layouts[kind]` gives
the constant bits, the place of every argument (`F(arg, width, word, lo)`) and of
the bytes, and the callback the message is meant for; `Build` packs it.
`UmpDispatch` takes the other side from `midi2_dispatch.c` and the callback types:
`Extract[callback]` says which bits each argument is read from, `dispatch_...` which
callback the status selects, `midi2_dispatch_feed` the length check and the
upscaling. The two tables are written from the two files and never from each other. A
word is the set of its one bits, so 32 bits are exact, OR is union, and fields
that overlap show. In `UmpCodec` one message is built (or is a header that no
builder makes, or a cable event), may be re-stamped with another group, cut
or translated down, and is fed to the dispatcher. A cable event of a System Common
message (`SendCommon`) goes the same way, and only `on_unknown` hears of it.

**CiMessages, CiDispatch, CiCodec.** The same for MIDI-CI: `CiLayouts[kind]` is the
cells of the payload in order (constants, arguments in septets, counted blocks),
with the tail that version 2 adds; `midi2_ci_dispatch_feed` has the length check
of each sub-id, the fields it reads and the blocks it hands over as place and
length. A payload may be cut at any length, or two of its bytes replaced
by others (`Misstate`), which is how a length lies. Bytes past the end are a parameter of the
dispatcher: a result that depends on them was read past the end.

**ZephyrShow, ZephyrDevice.** `ZephyrShow` holds one operator per `scene_...`
function: what a pass at time `t` sends (`Sent`) and the flags it leaves (`After`).
`ZephyrDevice` runs it: `Step` is `main`, `rx_packet_cb` and `rx_proc_thread` the
receive side, `jr_heartbeat` the work queue, `midi_ready_cb` the host that comes
and goes. `send_ump` is cut where another thread can run: `Enter` locks the
recursive mutex, `Try` is one attempt of the retry loop with the exit of the
function (`Leave`: which of the mutex's locks are released). The USB class is external
and may refuse any packet. `trying` names the thread in the loop, `todo[t]` what thread `t`
still has to send, `wire` the senders of the open run, `sounding` the notes the
host was told of. Assumed of the constants: a reply has no notes and every run in it has
its End (`EndsRuns`, as `midi2_proc_send_sysex7` sends them); `main`, which sleeps 10 ms
between passes, wakes in time for each note of the walk and once after the last
scene (`Timetable`).

**AvrLoop.** `pc` is the task the super-loop is in. `midi2lufa_task` moves words
between rings and endpoints, `ump_task` (`Complete`, `Incomplete`) assembles
a message and handles it, `Burst` and `Cycle` are `catalog_task`. The catalog and the
replies are any messages in which every Start goes on to its End (`WholeRuns`). A reply is sent
from inside `ump_task`, one try per step (`SendPacket`, `Wait`, `GiveUp`), because
each try runs the USB task; given up, a frame ends there and the reply goes on with the
next (`FrameEnds`). A word carries the number of its message and its place in it, so
that a slip of the framing can be said. The numbers go around `Period`, which lets the host
send for ever in finitely many states: at least two, so that a word
of one message is told from a word of the next. `excused` keeps the two cases in which
the code does interrupt a run (below).

## Runs

Passing runs. "Bounds" says why the instance is large enough.

| Run | Shows | Bounds |
|---|---|---|
| `Proc` | a buffer and a delivery hold one run, undisturbed messages held and delivered whole | four packets of 24 kinds: two groups, two streams, every status, Mixed Data Set, empty and oversized counts, truncated feeds, other types; buffer of 3 bytes and packets of up to 2, so a message ends before, at and past the buffer's end, and in the middle of a packet |
| `SysExLink` | delivered messages were sent; refinement of `MessageLanes`; every message settles | three senders (two groups of SysEx7, one stream of SysEx8), messages of one packet and of three, a sink of two packets, so refusals hit the first, a middle and the last packet; buffer smaller than the long message; three messages, so one can follow a refused one while another kind is in progress |
| `Conv` | all five properties | every sequence of six bytes of nine classes, packets of two data bytes, so F0, a full packet, an interruption and a continuation fit |
| `Ci_registry` | registries | two names, two callers, two slots: full, duplicate, removed and re-added entries |
| `Ci_messages` | MUIDs and answers | a MUID of two bits, so peers collide, invalidate and hit the reserved values; up to two profiles over a reply with room for one, and one property; every sub-id, short and long |
| `UmpCodec` | builders and dispatcher agree, translation round trip | per message and argument: zero, full, and a one walked through every bit of the C type, over zeros and over ones, because builder and callback treat an argument bit by bit; every byte count with one past the room; headers of all types and statuses that no builder makes; System Common cable events |
| `CiCodec` | builders and dispatcher agree, cut and lying payloads | per message, version and argument the same; blocks of 0, 1, 2 and 130 entries, so both septets of a length are used; cut at every length up to 40, which is past the longest fixed part; the two bytes at each offset from 13 to 21, where the lengths lie, replaced by nine others |
| `Zephyr` | the gate, progress of every sender, the cycle | a walk of two notes, the wake times just around each note and the SysEx scene, two attempts per packet, an inquiry answered by a run, a Discovery by one message, one fault; three threads, so two can wait while one holds a run |
| `Avr` | framing, runs, progress | a catalog with one run, rings of four and two words: a run fits, two messages do not, and a message of the host may need two fetches; any number of messages of one to four words from the host, told apart by two numbers; a reply of two frames, the first of which may be given up; one try per packet |
| `Rtos` | order, once, no interruption, no wedge | a catalog with one run of three packets, queues of two, FIFOs of four words (two packets), two passes, two inbound messages, one unplugging: both queues and FIFOs fill |

Runs that find a documented statement violated (each is a finding in `PROJECT.json`):

| Run | What happens |
|---|---|
| `SysExLink_silent` | a sink that hides its drops makes the receiver deliver a message with a gap |
| `Ci_silent_regeneration` | with the Invalidate broadcast off, the Discovery that announces the new MUID is skipped too |

Met on the way, without a run of their own.

In the library:

- Mixed Data Set packets share message type 5 with SysEx8 and are appended to a
  SysEx8 message in progress (`midi2_proc.c:166`), so `on_sysex8` is called with
  more than the "complete SysEx8 message" of `midi2_proc.h:56`: this is what `OneRun`
  allows besides one message. They never reach `on_ump`. Without a SysEx7 buffer SysEx7 is dropped, although
  `midi2_proc.c:63` says it is delivered raw. An End whose Start was lost is delivered as a
  message of its own (`midi2_proc.c:106`), which is how two interleaved SysEx7
  senders corrupt each other.
- The fallback MUID 0x12345678 has 29 bits (`midi2_ci.c:145`) and never equals one
  read from the wire, so its collisions go unnoticed (`:790`). `midi2_ci.h:332-335` still
  describes the responder before it parsed the resource name.
- `midi2_msg.h`: a comment of the translation speaks of velocity 0x8000 where
  `scale_up_7to16(64)` is 0x8102; `mt4_to_mt2` turns a Note On of velocity below 512
  into velocity 0, a Note Off, and upscaled again it is one of velocity 64
  (the exception in `LoweredIsHeard`); a System Common cable event (CIN 2, 3; comment at
  `:1277`) becomes a message of type 2 that the dispatcher calls unknown;
  the comment at `:198-201` says that Flex Data and System messages have no group, while builders, dispatcher and
  `midi2_proc_remap_group` give them one.
- `midi2_dispatch`: with `upscale_mt2` a message that cannot be translated reaches
  nobody, not even `on_unknown`; SysEx8 packets of a reserved status are delivered as
  SysEx8.
- `midi2_ci_dispatch`: in a Profile Inquiry Reply the second list is never checked
  and the length of the first is reduced to 16 bits before it is (`:189`), which
  is the exception in `BlocksLieInside`; Property Exchange data with no callback
  set, or of 13 bytes, reaches nobody, against the comment at `:361`; and "returns true if recognized as
  MIDI-CI" is false for unknown and unregistered messages.

In the examples and tests:

- FreeRTOS: a full transmit queue drops single packets of a run (`pipeline.c:75`).
- Zephyr: after a give-up in the middle of a run its remaining packets go out
  without their Start, and another thread's run may lie among them, the case
  "unless the run was given up" of `RunsUninterrupted`; scene D passes
  `midi2_msg_program` its arguments in the wrong order (`main.c:669`); scene M
  gives `flex_text` more than the 12 bytes it keeps; the README (121, 139)
  promises notifications to subscribers, but `midi2_ci_init` gets no subscriber
  array and nothing is sent.
- ATmega: "a host that stops reading cannot hang the loop" (`stream_responder.c:15`)
  holds, but one that goes on sending can keep `ump_task` from returning
  (`main.c:194`): the retries of each reply run `midi2lufa_task`, which fetches the next
  request, and `catalog_task` waits. `EveryRoundEnds` excepts it: without that
  disjunct TLC finds the lasso.
- ATmega: "a SysEx7 run leaves in one pass, so nothing lands between its Start and End"
  (README 47) fails in a burst, which goes entry by entry, and when the ring fills
  in the middle of a run (the entry that failed is skipped, and its End may never
  go). A burst's sweeps start at the current entry, so the first is partial.
- The test called "SysEx 6 bytes: F0 + 6 data + F7 -> COMPLETE"
  (`test/test_midi2_conv.c:314`) feeds five; six make a Start and an empty End.

Deadlock is checked where the system never stops, in `Zephyr` and `Avr`.
Elsewhere `CHECK_DEADLOCK FALSE`: the codecs follow one message to its end, and in the other
runs inputs are bounded, and applications, peers and wires may fall silent.

### Fairness

- `SysExLink`: weak fairness of `Write(s)`, because a sender's loop runs to its
  end once called, and of `Receive`, because a receiver polls its transport.
  Nothing forces a `Begin`.
- `RtosPipeline`: weak fairness of `midi_task`, and of each of `usb_task`'s
  operations: both loop for ever, `usb_task` sleeps with `vTaskDelay(1)` so that `midi_task` runs
  (pipeline.c:132), and it attempts each operation in every pass. Weak fairness
  of `HostReads`: a mounted host polls the endpoint. Nothing forces the host to
  send, or to plug in again.
- `ZephyrDevice`: weak fairness of `main`'s step, of the receive thread and of each
  `Try`: the scheduler runs a thread that can run, and a thread in the retry loop
  sleeps a millisecond and tries again. Strong fairness of `Enter(t)`: the mutex is
  taken and freed again and again, and goes to its waiters in turn, and the bursts
  of threads of higher priority are finite, after which `main` sleeps. Nothing is
  assumed of the host, which may refuse every packet: `EverySendReturns` rests on
  the bounded retry alone.
- `AvrLoop`: weak fairness of the loop, which never blocks. Nothing is assumed
  of the host, which may stop reading for ever, or send for ever. `EveryRoundEnds` says of
  either that no reply lasts for ever, and that the rounds end if the sending does.
- The other modules have safety properties only.

## Proofs

All theorems are about every value of the constants; the only assumptions are the
named `...Assumption` of each module (types, positive sizes, and what is said below).
The bounds that name a checking limit (`MaxFed`, `MaxBytes` and so on; `Period` of `AvrLoop` any number from 2) may
be any number, so each theorem holds of every finite run.

| Module | Theorem | States |
|---|---|---|
| `ProcProofs` | `TypeCorrect` | `[]TypeOK`: types, and no buffer longer than the caller's |
| | `BuffersHoldRuns`, `DeliveriesHoldRuns` | `[]BuffersHoldOneRun`, `[]DeliveriesHoldOneRun` |
| | `RunsHeldWhole`, `IntactDelivered` | `[]OpenRunsHeldWhole`, `[]IntactRunIsDelivered` |
| | `DispatcherStaysInsideCount` | `[]ReadsNothingPastCount` of `UmpCodec` |
| | `MidiOneComesBack` | `[]TranslationRoundTrip` of `UmpCodec` |
| `UmpProofs` | `BuildersAndDispatcherAgree` | `[]HeardAsTheyAre` of `UmpCodec` |
| | `OnlyTheGroupMoves` | `[]RestampMovesGroupOnly` of `UmpCodec` |
| | `LoweredStaysTheSameNote` | `[]LoweredIsHeard` of `UmpCodec` |
| `LinkProofs` | `DeliveriesWereSent` | `~ Silent => (Spec => []DeliveredWereSent)` |
| | `LinkImplementsLanes` | `~ Silent => (Spec => ImplementsLanes)`, the refinement |
| `ConvProofs` | `TypeCorrect` | `[]TypeOK` |
| | `MessagesAreExact` | `[]MessagesAreParsed` |
| | `SysexIsKept`, `FramingIsSound` | `[]SysexBytesKept`, `[]PacketsFramed` |
| | `WireOrder` | `[]WireOrderKept` |
| `CiProofs` | `TypeCorrect` | `[]TypeOK`: no array past its capacity |
| | `SubscribersAreExact`, `EverySubscriberIsTold` | `[]SubscribersExact`, `[]NotifyReachesSubscribers` |
| | `RepliesUnderOurMuid`, `EveryInquiryIsAnswered` | `[]RepliesCarryMuid`, `[]InquiriesAnswered` |
| | `NoSilentRegeneration` | `NewMuidAnnounced`, unless `auto_invalidate_on_collision` is turned off |
| | `NothingIsReadPastTheEnd`, `EveryBlockLiesInside` | `[]NothingPastTheEnd`, `[]BlocksLieInside` of `CiCodec` |
| `RtosProofs` | `TypeCorrect` | `[]TypeOK` |
| | `MessagesInOrder`, `RunsStayWhole` | `[]InOrderOnce`, `[]RunsUninterrupted` |
| `ExampleProofs` | `GateAccounts`, `RunsAreUninterrupted` | `[]GateOK` (a conjunct of `TypeOK`), `[]RunsUninterrupted` of `ZephyrDevice` |
| | `TypeCorrect` | `[]TypeOK` of `ZephyrDevice` |
| | `CycleLeavesNothing` | `CycleIsWhole`, an action property |
| | `FramingNeverSlips`, `RunsLeaveInOnePass` | `[]MessagesFramed`, `[]LeavesInOnePass` of `AvrLoop` |

**Proc.** The inductive invariant `IInv` is the conjunction of these five
properties and `NoBufferIdle` (a kind without a buffer stays idle, without which a
message could be "held" nowhere). A delivery is the buffer one packet earlier with
one more packet appended, so the two properties of deliveries follow from the two
of buffers, which carry the induction: `GatheredOneRun` and `GatheredWhole` say
that appending a packet that takes part keeps the rule of one run, and the
rule of the whole run. Both rest on what `Fill` returns (`FillProperties`: the old
buffer and a prefix of the data, all of it unless the buffer is full), on the order of provenances
and on the history growing by one (`FedProperties`); `CountCovers` ties the byte
count the code clamps to the bytes a packet carries (`Covered`), which the properties speak of. `FeedEffect` reduces a step to
"a packet that takes part and has a buffer is processed, everything else leaves the
reassembly alone", so that each conjunct is proved once, not once per branch. `OneRun`
takes the history as a parameter, because the delivered bytes obey it up to the
packet before the End.

**SysExLink.** Assumed: a packet carries at least one byte and a buffer holds
at least one. That deliveries were sent is not inductive: it needs to know what may still
arrive. `LinkInv` adds that every packet on the wire is the one its message has
at that offset, and that whatever must precede it has been `Reached`, on the wire before it
or in the receiver's buffer (`WireInv`); that a task in the middle of a message goes
on where its last packet ended (`SendersInv`); and that tasks of one kind take turns. The
refinement needs the order of the traffic besides (`OrderInv`) and, for each message,
what became of it (`FateInv`: delivered only when nothing of it or of an earlier one is
still on the wire; sent only when delivered or its last packet is). Then a step of a
sender is a `Submit`, a refused packet a `Lose`, a delivery a `Deliver`,
and everything else a stutter.

**Conv.** Each property compares the output with a reading of all bytes so far, so each
needs to say how the converter's registers stand for the part that is not out yet.
`Ordered`: what is said is a chain in which each message begins where it must,
up to the SysEx bytes held back. `Kept`: the packets and the buffer hold
exactly the places of the SysEx bytes. `Framed`: the packets of the open SysEx are the last ones, and
an END is missing exactly while `sysex_started`. `Parsing`: the status in force is the
one the bytes leave in force, with its arguments so far (`Served`), no other waits
(`NoneWaits`), and what is said or dropped is what was parsed (`Account`). The hard step is a
data byte under Running Status, where the number of arguments since the status decides
which message ends; it is a lemma about remainders.

**CiResponder.** `SubscribersExact` is strengthened by `Registry`: the
counter is the number of slots in use, and no two slots hold the same subscription, which is
what makes `remove` and `notify` exact. The properties of one call (replies, MUIDs,
notifications) follow from `Registry`, the types and the call itself, so they are proved
of every step and lifted.

**RtosPipeline.** Assumed: a catalog that has a Start has an End (the walk is
circular), and a reply ends with a whole message. `MessagesInOrder` is a statement about the
concatenation host, FIFO, held message, queue: each operation moves a message across one
boundary (`MoveFirst`). `RunsStayWhole` rests on `RunsInv`: as long as nothing overflowed,
what is accepted followed by what `midi_task` still has to enqueue closes every run it opens.

**AvrLoop.** Assumed: every Start in the catalog and in the replies goes on to
its End. `FramedInv` looks at the words gathered, in the ring and on the
bus as one stream: it is made of whole messages, and fewer words are gathered than
the first of them has. `RunsInv`: as long as neither exception has excused it, a run is
open only while a reply is being sent, and the rest of the reply closes it; the ring never holds more than its size.

**ZephyrDevice.** `RunsUninterrupted` alone is not inductive: a state whose open run
no longer holds the lock would let another thread in. `WireOK` adds what links
wire and gate: an open run is held, by the owner of the mutex, who sent its first packet. `Trying` and
`Entering` say what that gives a thread inside the gate and one at its door;
`AcceptedKeeps`, `EnterKeeps` and `TryKeeps` are the three ways through `send_ump`,
`FailureFrees` the two that fail; every other action leaves the gate alone. `TypeCorrect`
adds that what `rx` has left to send still closes its runs, so that a reply given up can be
taken up behind an End (`TodoFailure`).

`CycleLeavesNothing` needs `CycleOK`, which speaks of a cycle nothing has disturbed so
far: the scenes played are those whose time has come (`InTime`); the walk keeps to its
timetable (`Walking`: note `i` struck once `W[i]` is past, and not much later, which is what lets
the next one be due); and a note that has had its last Off (`Freed`) is silent, or
an Off for it with no On behind it is still to be sent (`Silences`). The part about
messages is carried by `SentFrees`: a pass sends the Off of each note it frees, and no On
after it; it rests on what the scenes send (`FairScenes`, `WalkNotes`) and on what
joining sequences does to the notes they leave on (`Joined`, `FlattenedNotes`). When the cycle
ends, `W`'s last time is past, so everything has played and every note is freed, whatever
an earlier cycle left sounding.

**UmpCodec and CiCodec.** `ProcProofs` and `CiProofs` extend them next to `Proc` and
`CiResponder`, which share their wire but no variable (hence the names `UmpSpec` and
`CiCodecSpec`). Assumed of the parameters (`UmpAssumption`, `CiCodecAssumption`): their
types, the bytes of a message among them, and (`OfFixedSet`) what the builders' comments
say of two arguments: a Flex text is in bank 1 or 2 (`midi2_msg.h:643`; one in bank 0
would be the setup message of its status), and a SysEx status is one of the four constants.
`HeardFromWords` and `HeardFromData` say that what the dispatcher did is decided by
what it was given, which stays as it was. The properties about
reading then follow from a table walk: each callback's fields lie in the words its type is
checked for (`ExtractShallow`, `CallbackReach`), and each case of the MIDI-CI switch
checks the bytes that it reads (`TableFits`, one lemma for each sub-id group). That a block
lies inside needs more: a builder's payload is laid out in cells of bytes (`LayoutsLaid`),
so that the lengths in it are numbers.

For the translation `OnItsWay` adds where the words come from. `BuildPlain` says which field
fills each bit of a built message, `Cv1Words` and `Cv2Words` what that makes of the messages
concerned; the scaling lemmas give the bits that a value keeps (`ScaledTo16`,
`ScaledTo32`, `ScaledFrom14`). That nothing else is translated (`OnlyTheseLower`)
needs the type nibble of every message (`TypeOfBuilt`), so each table has a lemma that no
argument, count or byte of it reaches that nibble.

`BuildersAndDispatcherAgree` compares the tables of the builders with those of the
dispatcher, for every argument. First, what is read is what was written: in a layout that is
`Sound` (no bit has two owners) each bit of each word is its mask's, one field's, the
count's or one byte's (`BuiltBits`), so a reader with the fields of the layout finds the
arguments (`ExactRead`), and one that stops at the room finds the bytes. Then every row of
every table is shown `Sound`, and that its head (`Headed`: a message type and a number in a few
bits) leads the dispatcher to its callback and to no other; a head is compared as a number, so
`HeadNumbers` goes from the bits to the number and back. Where the reader's fields are the
builder's own (`Exact`) nothing is left to show; the others are taken one by one: Program
Change, Pitch Bend, the System messages, Key Signature, Start and End of Clip, the Stream
texts and the Flex text. For words that no builder made, the callback reached has a
layout that fits them, and only one. Re-stamping (`RegroupedIs`) gives the words of the same message with
another group, to which all of that applies: `OnlyTheGroupMoves`. The inductive invariant
`Carriage` adds to `OnItsWay` that re-stamped words are those of the message that was sent,
and that no word of them is missing.

**DataLemmas.** The library's induction theorems take an operator as a parameter, which
the provers cannot instantiate. `Induction`, `LeastElement` and `GreatestElement`
state induction about sets instead, from the well-foundedness of Nat, and `Recursion`
that a function defined by recursion over an interval exists. So the sums of words in a
ring or FIFO (`Total`, `Words`), which the models write as recursive functions, can be reasoned about.

*Model-checked only*: liveness (`EveryMessageSettles`, `EveryMessageArrives`,
`EveryPacketIsRead`, `EverySendReturns`, `EveryRoundEnds`), which TLAPS cannot
prove here; `SysExLink` with a silent sink, where
the property fails; and `CiBuiltIsHeard` and `CutIsHeardInPart`, which compare the
MIDI-CI builders' and dispatcher's tables entry by entry: TLC evaluates every entry.

## Not modelled

- JSON scanning and building of Property Exchange, wording: data conversion the
  control does not depend on.
- What a Profile Inquiry Reply written past its 256 bytes does to the stack, beyond
  its being sent or not.
- NULL arguments: every entry point returns at once.
- Re-entrant calls, which the contract forbids and a debug build asserts.
- The loop of the stream-text senders: `send_sysex8`'s with another payload, and nothing in the library
  reassembles what it sends; the layout of their packets is in `UmpMessages`.
- The getters of `midi2_msg.h` that the dispatcher does not use, its signed
  scaling helpers, and the size checks of the MIDI-CI builders. In the dispatchers, single
  callbacks that are not set: they are all set, or (MIDI-CI) all unset.
- Two application tasks that send SysEx of one kind at once: the contract leaves it
  to the caller, and the examples keep to it.
- ATmega: the MIDI 1.0 tasks of alternate setting 0 and the Arduino sketch, the same loop on
  another transport library. Teensy: a loop over the library. LEDs and logging.
- `dist/midi2.h` is generated from `src/`.

## Plan

Done, in order: `Proc` with its proofs, `SysExLink` and `MessageLanes`, `Conv`,
`CiResponder`, `RtosPipeline`; the codecs `UmpCodec` and `CiCodec`; `ZephyrDevice`
with its proofs; `AvrLoop`; the proofs of `RtosPipeline`, `CiResponder`, `Conv`, of
`SysExLink` with its refinement, of `AvrLoop`, and of the codecs: reading,
translation, and that the UMP builders and the dispatcher agree. Next:

1. `CiNetwork`: responders on one bus, each a `CiResponder`: MUIDs become
   distinct again after a collision, NAKs do not answer NAKs for ever, and
   subscriptions of a MUID that is gone end.
2. The stream-text senders with a receiver that puts their texts together.

The modules are written for this: constants with a named assumption each, one
action per operation, invariants as conjunctions of named parts, and no RECURSIVE operators.
