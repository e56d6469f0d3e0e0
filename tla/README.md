# Verification of WORR's network core

TLA+ models, TLC runs and TLAPS proofs about the parts of WORR that carry data
between a game server and its clients. WORR is a C/C++ engine in the Quake II
family. Most of it (rendering, sound, game rules, menus) computes one frame at
a time and is tested by playing. The network code is different: two programs
act on what they last heard from each other over a network that loses,
repeats, delays and reorders packets, and a mistake shows only in an
interleaving that nobody plays on purpose. That is what is modelled here.

All paths below are relative to the repository.

## 1. Inventory

### The path of a message

```
 game code        MSG_Write*(&chan->message)            svc/clc parser
    |                                                          ^
    v                                                          |
 SV_SendAsyncPackets / CL_SendCmd      (when to transmit)   Netchan_Process
    |                                                          ^
    v                                                          |
 net channel  OLD | NEW    chan.c + sequence.c          net channel
    |     \--- application hooks: native carrier ---/          ^
    v                                                          |
 net.c (UDP)  -----------  the network  -----------------------/
```

The *net channel* gives reliable, ordered delivery of one batch of messages at
a time, beside unreliable datagrams. Since the native protocol, each packet may
also carry a *native carrier*: typed records (commands, events, snapshots) with
sessions, acknowledgements and fragments of their own. Before either end
appends one, the two agree by a *readiness handshake*, sent as settings and
commands through the reliable channel.

### Components

| Component | Source | State | Operations | What is hard | What makes it correct |
|---|---|---|---|---|---|
| packet sequence rules | `src/common/net/sequence.c` | none | classify a sequence or an acknowledgement | boundaries | stale, future and accepted are told apart |
| net channel | `src/common/net/chan.c`, `src/common/sizebuf.c` | sequences, even/odd reliable bits, retained batch, queue, fragment buffers | Setup, Transmit, Process, TransmitNextFragment, queued prefix, isolated message, ShouldUpdate | loss, repetition, reordering, fragments of two packets, full buffers | reliable messages are read in order and once; a batch is dropped only after it was read; reassembly is exact |
| channel drivers | `src/server/send.c`, `src/client/input.cpp` | timers | SV_SendAsyncPackets, CL_SendKeepAlive | timers are the only retry | everything reliable arrives in the end |
| readiness core | `src/common/net/native_readiness.c` | phase, epoch, nonce, nonce floor, generation, deadline | init, advance, observe each record, check time, gates, reset | late and repeated records of old epochs, deadlines | the gates of the two ends agree |
| readiness adapters | `src/server/native_shadow.c`, `src/client/native_readiness_pilot.cpp`, `src/common/net/native_readiness_sideband.c` | readiness state, private epochs and nonces, hooks, drain mode | begin epoch, map quiesce, packet begin, observe, drain, disable | map changes during the handshake, one end failing alone | no native data to a peer that cannot read it; old epochs drain |
| challenge barrier | `src/server/user.c` | pending spawn, expiry time | service, maintain, expire | expiry against queued challenge | spawn data never passes the challenge |
| native session | `src/common/net/native_session.c` | send slots, reassembly slots, receipt history | enqueue, prepare and confirm a send, acknowledge, cancel, accept a datagram | tickets that outlive their slot, bounded history | each message is handed over at most once, and released only if acknowledged |
| carrier, acknowledgements | `src/common/net/native_carrier*.c` | packet gate, acknowledgement ledger | prepare, complete, abort; note and drain acknowledgements | completion of a packet that was not sent | an acknowledgement is sent only for what was accepted |
| event transfer | `src/common/net/native_event_sender.c`, `native_event_admission.c`, `src/game/cgame/cg_event_runtime.cpp` | backlog, retained batches; stream owner, receipts, journal | queue, pump, send, apply acks; admit, revalidate a repeat; play | two windows and three tables at once, lost receipts, loss of the consumer, map end | events are played in order, each once, and nothing but the client's own failure makes it refuse one |
| snapshot transfer | `src/common/net/native_snapshot_*.c`, `snapshot_recovery.c` | latest snapshot, reference | send latest, receive, recover | latest wins against references to older ones | a delta is applied only to its base |
| input delivery | `src/common/net/native_input_delivery.c`, `native_input_batch.c` | window of inputs | add, select, confirm | overlap of windows | each input is consumed once, in order |
| command stream | `src/common/net/command_stream.c` | ring, cursor | admit, consume | full ring, cursor moves | consumed commands have no gap |
| event journal | `src/common/net/event_journal.c` | ring, reader cursors | append, read, resync | overrun of a slow reader | a reader sees each event or is told to resync |
| capabilities | `src/common/net/capability.c` | one mask | offer, select, confirm | confirmation by a stranger | both ends end with the same mask or none |
| client lifecycle | `src/server/main.c`, `init.c` | client slots, MTU probes | connect, reconnect, drop, time out | late packets of an earlier connection | a new connection starts clean |
| impairment | `src/common/net/impair*.c` | queue of delayed packets | delay, repeat, drop | - | test tool; its faults are the models' network |
| the rest | codecs, demos, rewind, prediction, rendering, sound, game modules, updater | | | sequential code | not modelled |

`PROJECT.json` repeats this list with a status for each, and under `hazards`
every place where this code can go wrong in a way a test would hardly reach,
with the properties that cover it.

## 2. The modules

```
 NetSequence <- Netchan <- NetchanOld <- MCNetchanOld
                   |           \------- NetchanOldProofs
                   |------- NetchanNew <- MCNetchanNew
                   |            \------- NetchanLive <- MCNetchanLive
                   |                          \------- NetchanNewProofs
                   \-- implements ReliableChannel

 NativeReadiness <- NativeReadinessProofs          one record at a time
 NativeHandshake <- NativeHandshakeProofs          both adapters over the channel

 NativeSession <- NativeTx --\
              \-- NativeRx ---+-- NativeTransfer <- NativeTransferProofs
                                      \-- implements NativeDelivery
 NativeScheduler <- NativeSchedulerProofs          which message is sent next
 NativeEvents <- NativeEventsProofs                events, from game to game
       \-- implements EventStream
 NumberLemmas <- NetchanNewProofs, NativeTransferProofs,
                 NativeSchedulerProofs, NativeEventsProofs
```

`<-` is EXTENDS. `NativeHandshake`, `NativeTransfer` and `NativeEvents` look at
the channel from above: the first uses what `Netchan` and `NetchanLive` establish (records
arrive in order and in the end, carriers may be lost), the second assumes
nothing of it, because a carrier rides on packets of any kind. `NativeEvents`
takes from `NativeTransfer` that a message is taken whole and at most once, and
from `Netchan` that accepted packets keep their order.

### ReliableChannel: what a channel promises

Abstract. For each sending end: the messages accepted, the messages the peer
has read, and how many the sender keeps no copy of. A batch is accepted when
nothing is outstanding, read whole, and released only when read. It knows no
packets and no bits. `Netchan` maps itself onto it: `accepted` is the history
of sealed messages, `released` what is no longer in `reliable_buf`.

### NetSequence, Netchan: the common half of chan.c

`Netchan` has one variable per field of `netchan_t` that matters, each a
function of the end. `WriteMessage` is a write into `chan->message`, with the
overflow rule of `SZ_GetSpace`. `ProcessAcknowledgement` is
`Netchan_ProcessAcknowledgement`: refused, stale, in conflict, or accepted, in
which case the retained batch is cleared when the bit matches.

The network keeps every packet ever sent, and any packet may be processed at
any time and any number of times. So loss, delay, repetition and reordering
are all one nondeterministic choice.

Sequence numbers are not wrapped. The code compares 31-bit (OLD) and 30-bit
(NEW) numbers plainly, and the client leaves the server before they wrap
(`Netchan_SeqTooBig`).

### NetchanOld: the OLD channel

`Transmit` is `NetchanOld_Transmit` and `Process` is `NetchanOld_Process`, one
action for each way out of it. Reliable data fits in a packet, by the
capacities of the two buffers. Unreliable data is not represented: the OLD
channel drops what does not fit and nothing else looks at it.

### NetchanNew: the NEW channel

Adds fragments (`SendMessage`, `TransmitNextFragment`, `AcceptFragment`), the
prefix of the queue that the server seals on its own
(`TransmitQueuedReliablePrefix`), and the isolated reliable message
(`TransmitIsolatedReliable`). Lengths count units: a positive unit is a queued
reliable message, a negative one an isolated message, one above `MaxWritten`
unreliable data, different in each packet. The history variable `assembled`
remembers what was sent under each sequence, and `msg_read` what the
application read last.

### NetchanLive: when a channel transmits

The NEW channels under their drivers while a connection is being set up:
`SendAsyncPackets` (server) and `SendKeepAlive` (client), with a clock that
says only whether more than a second has passed since an end last sent. The
network is a queue, and may lose or overtake `MaxFaults` packets.

### NativeReadiness: the handshake before native data

The two states of `worr_native_readiness_state_v1`, one action per entry point
of `native_readiness.c`, and `sent`, every record emitted so far. The core has
neither clock nor transport, so each call brings any time and any record ever
sent, or one that fails validation. Two duties that `native_readiness.h` lays
on the callers are kept: a transport epoch is never used twice, and a client
takes its epoch from a CHALLENGE. `caps` stands for the capability mask and the
snapshot epoch together; `Confirming` are the values for which the server has
data of its own and must wait for CLIENT_ACTIVE_CONFIRM. The clock, the epochs,
the nonces and the generations end at the bounds, as they do in the code at
the ends of their integer types, so the checks against overflow matter.

### NativeHandshake: the adapters around the handshake

`native_shadow.c` on the server and `native_readiness_pilot.cpp` on the client,
with the calls of `user.c`, `init.c` and `send.c` that drive them, through the
maps of one connection. `server` and `client` keep the fields of the peer and
the pilot that decide what is accepted: the epoch, the cancellation floor, the
transport or session that is set up, the epoch committed to the wire, the drain
mode. Of the readiness core only the phase is left, a record is its epoch.
Every operator on a peer (`Disable`, `QuiesceMap`, `BeginEpoch`, `Opened`,
`NotOpened`, ...) is one function of the adapter, and the actions compose them
in the order of the code: `ServerPacketBegin` before the records of a packet,
the carrier before `PacketBegin`.

The channel is two queues with two kinds of items: reliable records arrive in
order; carriers may get lost and may overtake records that wait for a
retransmission, and what a record overtakes is lost. Four things go wrong where
`faults` allows: a local failure of either adapter, before or after the wire
commitment (`ServerFails`, the failing branches of `RxReady`, `RxChallenge` and
`RxServerActive`, `ClientFails`), and deadlines (`ServerDeadlinePasses`,
`ClientDeadlinePasses`, `QueueExpires`). What happens when a carrier is refused
is modelled as the code does it: the packet is rejected and the connection
dropped (`dropped`). So is what happens to a carrier that finds no hooks: the
channel strips nothing (`src/src/common/net/chan.c:808`), the parser reads the
trailer as commands, and a command it does not know ends the connection.
`OnlyReceiptsToHookless` says when this can be: never at the server, and at
the client only with a receipt of a server that drains (section 4).

### NativeSession, NativeTx, NativeRx, NativeTransfer: the native session

`NativeTx` is the sending half of `native_session.c`: slots, the window of
reliable messages, the one resident snapshot, tickets. `NativeRx` is the
receiving half: reassembly slots, the bounded history of commits with its
highest number, and the identities by which a snapshot that was evicted or
timed out may come back (`tombs`, an ordered list, because the code gives up
the oldest). Their operators are the functions of the code without the argument
checks that fail without effect.

`NativeTransfer` puts them together with `native_carrier_session.c` (the gate
of bursts: begin, prepare, confirm, reject, abort) and `native_carrier_ack.c`
(the receipt ledger: capture, prove, hand off, retire). `sent` and `told` hold
every frame and every acknowledgement ever handed to the channel, and any of
them may arrive at any time and any number of times: loss, delay, repetition
and reordering in one. Each end leaves its epoch and starts the next one when
it likes, as the two ends of a handshake do.

`NativeDelivery` is what the two programs rely on: a message is given to the
consumer at most once (`deliveries` counts), a snapshot only if it is newer
than all before, and within an epoch the sender lets go of a message only when
it was given, or when a newer snapshot takes its place. It knows no slots,
windows, fragments or acknowledgements.

### NativeScheduler: which message is sent next

`tx_find_due_index`, its priority aging and the rebase of the dispatch counter,
apart from the transfer, because neither needs the other's state: the transfer
lets any retained message be due. The history variable `passed` counts how
often another message was preferred.

### EventStream, NativeEvents: the event lane

The way of an event from the server's game to the client's, in one epoch.
`server` is the sender and its peer's lifecycle, `client` the pilot with the
stream's owner, the session's history and the receipt ledger, `consumer` the
runtime in the game module. `QueueCandidates` is
`SV_NativeShadowQueueEventCandidatesV1`, with the drain that a full backlog
causes; `Pumped` the loop of `Worr_NativeEventSenderPumpV1` (`Promote` is one
round of it: the batch of one tick, cut by size and by the room in the window),
which also runs before every `Send`. At the client `Verdict` is the order in
which `pilot_rx_event`, `admit_current_event_data` and the two functions of
`native_event_admission.c` look for reasons to refuse, and there is an action
for each way to accept: `Activate` (the descriptor), `Take` (new events),
`Revalidate` (a repeat, whose receipt becomes due again). A refused packet is
an ERR_DROP (`src/src/client/main.cpp:1630`), after which nothing moves. `Play`
is the journal's presentation, `TellAcks` the ACK-only service, which goes on
between a map end and the next handshake.

What may go wrong beside loss: the pilot drains (`PilotFails`), the consumer is
taken away or asks for another epoch (`ConsumerLost`), the map ends (`Cancel`
at the server, and only then `MapBoundary` at the client: the server cancels
its sender before it writes "changing", so no DATA comes after it).

A message is one packet; fragments and slots are `NativeTransfer`'s. The events
are of the reliable ordered class, which the journal neither expires, merges
nor supersedes. `BatchMax` stands for the eight events of a batch or what a
datagram takes, if that is less.

`EventStream` is what the two games rely on: events are played in the order
they were queued, each once, and until the stream is given up the server holds
every event that the consumer was not given. It knows no messages, batches,
windows or receipts.

## 3. The runs

| Run | Bounds | Shows |
|---|---|---|
| `netchan_old` | server writes 3 messages and sends 4 packets, client 1 and 2; buffer of 2 | `ReliableInOrderOnce`, `AcknowledgementsAgree`, `NothingForgotten`, `AcknowledgementOwed`, the implementation of `ReliableChannel` |
| `netchan_new` | server writes 3 messages, 1 isolated; 3 packet sequences each with fragments; packets of 2 units, buffer of 3; datagrams of 0 or 2 units, each different | the same promises, `QueueOrderKept`, `ReassemblyExact`, `FragmentBufferIdle` |
| `netchan_new_large` | as above, datagrams of 0 or 3 units | finding 1 |
| `netchan_live` | server writes 2 messages, client 1; packets of 1 unit; one lost or overtaking packet; the bound on packets is never reached | `EventuallyDelivered`, `EventuallyReleased` |
| `native_readiness` | ticks 0..3 with a timeout of 2, two epochs, two nonces, two capability sets, one of them confirming | `GatesAgree`, `RecordsAnswer`, `StatesValid`, `WaitNotProlonged`, `OnlyForward` |
| `native_handshake` | four maps, two carriers on the way in each direction; once no faults, once all of them | `TransportCommitted`, `OnlyReceiptsToHookless`, `CarriersExpected`, `MapChangesHarmless`, `CancelledStaysCancelled`, `HandshakeSettles` |
| `native_handshake_dropped` | three maps, the client may fail | finding 3 |
| `native_handshake_expired` | three maps, deadlines may pass | finding 4 |
| `native_transfer` | two epochs of 2 messages of 2 fragments, window 1, two slots at each end, two remembered snapshots, one attempt and one receipt per message | `ReceiverValid`, `ReliableInWindow`, `AttemptsReal`, `AcksAcceptable`, `TakenWasSent`, the implementation of `NativeDelivery` |
| `native_events` | 4 events, backlog 2, two send slots, batches of 2, windows of 3 messages and 3 events, a journal of 3, one receipt per message, one packet on the way in each direction | `RefusedOnlyByConsumer`, `EveryEventPlayed`, the implementation of `EventStream` |
| `native_scheduler` | 3 slots, 3 priorities, quantum 1, a dispatch counter of 8 | `NoStarvation` |
| `native_scheduler_starved` | the same | finding 2 |

Why the bounds are enough.

- *Channel.* Its reliability rests on one bit, and what could break it is the
  bit coming round again: that takes two batches and a packet of the first that
  is processed during the second. The bounds allow two or three batches, each
  sent twice, and acknowledgements from before, between and after; the server's
  buffer overflows within them. For the NEW channel a batch of one unit with a
  datagram of two needs two fragments, and when it is sent again with another
  datagram the fragments of the two packets can mix.
- *Readiness core.* Two epochs are what it takes for a record of one to arrive
  in the other, and two nonces for a floor to matter; the wait of two ticks has
  a tick inside it, so that a duplicate within a wait is distinguishable from
  the record that began it, and a clock that ends at 3 refuses some deadlines.
- *Handshake.* A record can be answered one map late, and a carrier can be two
  maps late when it was sent in the first, cancelled by the second and arrives
  in the third; the fourth map shows that nothing of it stays behind.
- *Transfer.* Two messages pass a window of one, so that the second waits for
  the acknowledgement of the first; two slots with a snapshot in each force an
  eviction, and its identity is remembered when it comes back. Two fragments
  let a message be half there when it is superseded, expired or retired from
  its burst. Two epochs are what it takes for a packet or an acknowledgement of
  one to arrive in the other. Wider windows and more slots are the proofs'.
- *Events.* With four events in at most two slots, the second message can be
  acknowledged and its slot used again while the first is still retained, so
  that the span of what is retained differs from its number;
  the backlog, the send slots, both windows and the journal all fill. One
  receipt per message makes the loss of a single packet need a repeat.
- *Scheduler.* The counter passes its end and is rebased within four messages.

In all runs the mutants listed in `PROJECT.json`, one plausible bug of the code
for each property, are caught within the same bounds.

`CHECK_DEADLOCK FALSE` wherever messages, packets, maps or epochs are bounded:
at the bounds both ends have nothing left to do, and the system really may stop.

### Fairness

`NetchanLive`, `NativeHandshake` and `NativeEvents` assume some.

`NetchanLive`: both main loops run every frame, hence weak fairness of
`SendAsyncPackets` and `SendKeepAlive`; time passes (`SecondPasses`); and a
packet that is not lost arrives (`Arrive`). Weak fairness is enough because
each of these stays enabled until it happens. Nothing obliges the game to write
or the network to misbehave. The number of faults is bounded: a network that
loses every packet, or always swaps the two fragments of a message, delivers
nothing, and the code does not promise otherwise.

`NativeHandshake`: a reliable record arrives in the end (`ServerRxRecord`,
`ClientRxRecord`), which is what `EventuallyDelivered` says of the channel
below; `SV_ServiceNativeShadowChallenge` runs on every server frame
(`Service`); and a client that was told to load a map finishes doing so
(`ClientBegins`). Carriers have no fairness: `HandshakeSettles` holds if all of
them are lost. It is claimed only where no adapter fails and no deadline
passes: then the code indeed gives up.

`NativeEvents`: strong fairness of sending and of accepting some message, of
sending receipts and of receiving them, because a packet may be lost again and
again and only one that is repeated without end must get through at last: the
sender resends what it retains, each repeat makes the receipt due again, and
the network does not lose everything for ever. It is fairness of the lane, not
of each message: one that gets through is released, so that the others' turn
comes (`NativeScheduler` bounds the wait). `Play` is weakly fair: the game
module advances every frame. `EveryEventPlayed` says that the client catches up
with the queue infinitely often unless one end gave the stream up.

## 4. Findings

1. **A large datagram acknowledges a batch it does not carry**
   (`netchan_new_large`). `NetchanNew_Transmit` decides whether a packet
   carries the reliable batch, but a datagram longer than a packet goes to
   `Netchan_TransmitNextFragment`, which takes the reliable bit from
   `chan->reliable_length` (`src/src/common/net/chan.c:410`). While a batch is
   outstanding and not due for retransmission, the fragments of a large
   unreliable datagram are marked reliable without carrying the batch. The
   receiver flips its bit for a batch it did not get, and the acknowledgement
   then clears the batch at the sender: it is lost; or, when the first copy had
   arrived, the bits disagree and the batch is read twice. The header comment
   says the bit means "does this message contain a reliable payload"
   (`chan.c:35`) and that a dropped reliable message "will be retransmitted"
   (`chan.c:45`). `write_datagram_new` (`src/src/server/send.c`) does send
   frames longer than a packet. In the run `netchan_new`, whose datagrams are
   no longer than a packet, the channel keeps all its promises.

2. **Starvation is bounded, but not as documented**
   (`native_scheduler_starved`). `src/inc/common/net/native_session.h:270` says
   aging "bounds a priority-7 record's starvation to 56 intervening
   dispatches". After 56 dispatches the record is as urgent as any other, and
   then waits for those that aged with it. The bound that holds, and that
   `native_scheduler` checks, adds one dispatch for each other slot.

3. **A failing client loses the connection** (`native_handshake_dropped`). A
   design note says that after native traffic a failure only drains, and
   recognized trailers are still stripped. The server does so; the client in
   DRAIN rejects a carrier with DATA of its own epoch
   (`src/src/client/native_readiness_pilot.cpp:3144`), and a rejected packet is
   an ERR_DROP (`src/src/client/main.cpp:1630`). Nothing tells the server that
   the client failed, so in a mode with server data the next DATA ends the
   connection.

4. **The deadline of a cancelled epoch drains a healthy peer**
   (`native_handshake_expired`). A comment in `src/src/server/init.c:46` says
   that the map boundary keeps an unfinished handshake from expiring against
   the next map. `SV_NativeShadowPeerQuiesceMapV1` raises the floor but keeps
   the readiness state waiting with its deadline, and
   `SV_NativeShadowPacketBeginV1` (`src/src/server/native_shadow.c:2721`)
   checks that deadline without a look at the floor. If it passes while the
   next map loads, the peer goes to DRAIN for the rest of the connection.

A variant of finding 3 that no run of its own shows: with `FaultChoices =
{{"time"}}` the property of `native_handshake_dropped` is violated too. A
server whose deadline for CLIENT_ACTIVE_CONFIRM has passed looks at the carrier
of a packet before `PacketBegin` (`native_shadow.c:1658`) and rejects DATA of a
client that is already active; `src/src/server/main.c:7538` then drops the
client, where
`src/docs-dev/fr-10-t04-default-off-native-readiness-production-pilot-2026-07-14.md:262`
lists the readiness timeout among the failures that silently fall back.

Another one, with `FaultChoices = {{"server"}}`: the receipt of a server that
drains reaches a client without hooks. Both ends are active and DATA of the
client has left the server owing a receipt; the server's adapter fails and
drains, which keeps its transport and its receipts
(`src/src/server/native_shadow.c:749`); the map changes, which cancels nothing,
because the peer is no longer enabled (`native_shadow.c:2069`); "new" is
answered with the legacy serverdata, and the client removes its hooks
(`src/src/client/native_readiness_pilot.cpp:3830`), while the comment there
promises that the legacy stream "continues byte-for-byte". But
`native_shadow_tx_prepare` still sends the receipts that are due in DRAIN
(`native_shadow.c:1292`). The client reads the carrier as game data: its first
bytes pass for a muzzle flash, the next one for a bad command, and
`CL_ParseServerMessage` (`src/src/client/parse.cpp:1543`) raises ERR_DROP.
`src/inc/common/net/native_carrier.h:24` says that legacy-only peers never see
a carrier, and the design note quoted in finding 3 that trailers are not
reinterpreted as legacy bytes. The passing run `native_handshake` and the
theorem `CarriersMeetHooks` show that this is the only such case: every other
carrier meets hooks (`OnlyReceiptsToHookless`).

## 5. Proofs

TLC checks the instances above. The theorems hold for every value of the
constants. Their assumptions are the ASSUMEs of the modules (the two ends
differ, bounds and capacities are numbers) and what a section below names.

### The OLD channel (`NetchanOldProofs`)

| Theorem | Property |
|---|---|
| `TypeCorrect` | `TypeOK` |
| `InvariantHolds` | `InductiveInv` |
| `ReliableDelivery` | `ReliableInOrderOnce` |
| `HonestAcknowledgements` | `AcknowledgementsAgree` |
| `OldImplementsChannel` | `ImplementsChannel` |
| `NothingIsForgotten` | `NothingForgotten` |
| `AcknowledgementIsOwed` | `AcknowledgementOwed` |

`ReliableInOrderOnce` is not inductive: from a state that satisfies it, an old
acknowledgement in the network could clear a batch that was not read.
`InductiveInv` says why there is no such acknowledgement. Per direction it
looks at all the acknowledgements the sender has, or could still get: those in
packets of the peer, the newest one processed, and the one the peer would send
now. They lie behind the packets sent (`SequencesOrdered`), one sequence has
one bit (`OneBitPerAck`), those after the last reliable packet tell the peer's
bit of now (`LateAckIsCurrent`), and from the first that acknowledges the batch
in hand all do (`AckStays`). A reliable packet the peer may still accept is the
last one sent and has the batch in hand (`OneReliableInFlight`), and the two
bits together tell whether the batch was read (`BitsTellDelivery`), from which
`ReliableInOrderOnce` follows at once. The proof has a lemma for each action
and each direction (`TransmitOut`, `TransmitIn`, `AcceptOut`, `AcceptIn`): the
end that acts is the sender of one direction and the reader of the other.

The parts of the invariant that do not depend on the type of the channel are
in `Netchan`, because the NEW channel has them too.

### The NEW channel (`NetchanNewProofs`)

| Theorem | Property | Assumes |
|---|---|---|
| `InvariantHolds` | `IInv` | |
| `TypeCorrect` | `TypeOK` | |
| `HonestAcknowledgements` | `AcknowledgementsAgree` | |
| `FragmentBuffer` | `FragmentBufferIdle` | |
| `ExactReassembly` | `ReassemblyExact` | |
| `QueueKeepsOrder` | `QueueOrderKept` | |
| `AcknowledgementIsOwed` | `AcknowledgementOwed` | |
| `ReliableInvariantHolds` | `RInv` | `DatagramsFit` |
| `ReliableDelivery` | `ReliableInOrderOnce` | `DatagramsFit` |
| `NewImplementsChannel` | `ImplementsChannel` | `DatagramsFit` |
| `LoopsUseChannel` | `LiveSpec => Spec` | |

For every packet length, capacity, number of messages and packets. The proof
has two layers, because the code has finding 1.

`IInv` holds for datagrams of any length. Per direction it says that what is on
the network is cut from the messages the sender has begun, and that the last
piece of a message is out only when the sender has gone on to the next
(`CopiesInv`); that the receiver's buffer is a prefix of one of these messages
and what it has read is one of them (`ReadingInv`); and that one acknowledged
sequence has one bit, which an acknowledgement inside a fragment does not
change (`AckInv`). A fragment fits what the receiver has only if it begins
where that ends, so pieces of two messages are never put together.

`RInv` adds the bits: it is the invariant of the OLD channel with "the packet"
read as "the last fragment under one sequence", since that is when the receiver
flips its bit. It needs `DatagramsFit`: no datagram is longer than a packet.
Without it `RInv` is false, as `netchan_new_large` shows, for then a fragment
has the reliable bit of a batch that the message does not carry. A message that
is cut up carries the batch in hand (`LastReliableInv`), the batch and its
datagram are told apart by the kind of their units (`ReliableUnits`), and from
there on the argument is that of the OLD channel. The code does not enforce
`DatagramsFit` (`write_datagram_new` cuts a frame only at the size of its
buffer), so it is a hypothesis of these three theorems and no assumption of the
module: the first layer is proved without it.

`QueueOrderKept` needs no packets at all: it relates `sealed`, the queue and
`written` through every way of sealing, the prefix handed off included.
`LoopsUseChannel` carries all of it over to `NetchanLive`: the send loops, their
timers and a network with faults are one way of using the channel. Its
invariant says that what is in flight was sent.

### The handshake (`NativeReadinessProofs`)

| Theorem | Property |
|---|---|
| `InvariantHolds` | `InductiveInv` |
| `TypeCorrect` | `TypeOK` |
| `ProducedStatesValid` | `StatesValid` |
| `AnswersOnly` | `RecordsAnswer` |
| `GatesAlwaysAgree` | `GatesAgree` |
| `WaitsEnd` | `WaitNotProlonged` |
| `NeverBack` | `OnlyForward` |

Their assumptions: the widths are numbers with as many generations as epochs,
timeouts are positive, and the confirming capabilities are capabilities.
`GatesAgree` compares two ends that never see each other's state; what connects
them is the records. `InductiveInv` says which records of its epoch an end in a
given phase must have caused or heard (`ServerRecords`, `ClientRecords`: an
active server has heard CLIENT_READY, and CLIENT_ACTIVE_CONFIRM if it confirms)
and which cannot exist yet (a client that waits for SERVER_ACTIVE has not
confirmed). With `RecordsAnswer`, two records of one epoch have one binding, so
the ends agree on it, and the records that exist rule out the phases in which
the other end could not listen. The two action properties come from a relation,
`Moves`, that says what any step may do to a state.


### The adapters (`NativeHandshakeProofs`)

| Theorem | Property |
|---|---|
| `Invariance` | `IInv` |
| `CommittedTransport` | `TransportCommitted` |
| `CarriersMeetHooks` | `OnlyReceiptsToHookless` |
| `ExpectedCarriers` | `CarriersExpected` |
| `FloorsHold` | `CancelledStaysCancelled` |
| `TypeCorrect` | `TypeOK` |
| `MapChangesAreHarmless` | `MapChangesHarmless` |
| `ServerDropsOverTime` | `DroppedOverTime` |
| `ClientDropsByFailure` | `DroppedByFailure` |
| `ServerFailuresFallBack` | `faults \subseteq {"server"} => FailureKeepsConnection \/ HooklessDrop` |
| `CancelledEpochsDrainOverTime` | `[][CancelledEpochIsQuiet]_vars` |

For every number of maps, of carriers on the way and every choice of faults.
Only `TypeCorrect` uses a bound: a map asks for one CHALLENGE at most, so the
epochs number no more than the maps (`BoundInv`). Each end decides alone whether a carrier
fits, and what makes the decision right is what the other end must have known
when it sent it. `IInv` turns that into two kinds of knowledge: from CONFIRM of
an epoch on, and for each carrier of it on the way in either direction, the
client holds the session of that epoch or has cancelled it (`ClientKnows`);
from SERVER_ACTIVE on the server has committed it to the wire or cancelled it
(`ServerKnows`). Neither is ever unlearned, because an end that leaves an epoch
leaves it below its floor (`ServerKeeps`, `ClientKeeps`). `OffInv` is for the
pilot that is switched off: then either the server has stopped as well or no
confirmation was ever sent, and what the server still sends after its farewell
has no DATA. What it does send then is the matter of `HooklessInv`, a second
invariant on top of `IInv`: an ACK behind a legacy serverdata, or to a client
that is off, is of the transport of a server that drains; a drain is final
(`DrainIsFinal`), and a pilot that goes off before it has committed has nothing
on its way (`UncommittedUnsent`). There is one lemma for each operator of an end
(its fields stay consistent and it unlearns nothing), a few for the two queues,
and one for each action.

`MapChangesHarmless` says nothing of what is on its way, and so is far from
inductive. `HarmlessInv` says that without faults each epoch that is not
cancelled has one token: its CHALLENGE, READY, SERVER_ACTIVE or CONFIRM is on
the way, or both ends are active; and that what a cancelled epoch left behind
finds the client in a state in which it is ignored or taken without harm. For a
record on its way to the client that depends on its place: a CHALLENGE behind a
"changing" comes to a client that has gone back by then (`ReadyAt`), and an
uncancelled CHALLENGE has no record behind it (`NoneAfter`). Carriers come and
go between them, so steps are compared along a mapping of places (`Thins`: some
carriers are gone, all records are there, in order).

The last four theorems draw the borders of findings 3 and 4.
`DroppedOverTime`: a carrier takes the connection down at the server only if a
deadline has passed, so the variant at the end of section 4 is the only one at
that end. It follows from `IInv` and from `LateInv` (only a deadline that
passes makes an end late). `DroppedByFailure`: at a client with hooks only a
failure of its own pilot does, not the server's failures, deadlines or map
changes; at one without hooks, only a receipt of a draining server.
`SteadyInv` says why: from SERVER_ACTIVE on, only carriers are on the way to
the client until the server gives the epoch up (`ActiveLast`, `AgreedInv`); so
what takes the client out of ACTIVE is behind all DATA of the epoch
(`DataFirst`), and records do not overtake carriers. The two together leave of
`FailureKeepsConnection`, which finding 3 refutes, that the server's failures
fall back except for that receipt (`ServerFailuresFallBack`).
`CancelledEpochIsQuiet`: if neither a deadline passes nor the server itself
fails, no peer drains over a cancelled epoch, so the deadline that is not
cancelled is the only exception to what `src/src/server/init.c:46` says.

### The native session (`NativeTransferProofs`)

| Theorem | Property |
|---|---|
| `Invariance` | `IInv` |
| `TypeCorrect` | `TypeOK` |
| `AlwaysValid` | `ReceiverValid` |
| `SentIsWhole` | `AttemptsReal` |
| `NothingInvented` | `TakenWasSent` |
| `NoAckRefused` | `AcksAcceptable` |
| `NeverOutOfReach` | `ReliableInWindow` |
| `ImplementsDelivery` | `DeliverySpec` |

For every window, capacity, number of fragments, attempts and epochs. The
assumptions are that the capacities are positive and that there are at least
two tombstones. `IInv` follows a message from the sender's slot to the
receiver's history:

- `SenderInv`: one number is one message, one snapshot is resident, and no
  reliable message is a window behind the highest number.
- `GateInv`: the ticket of a burst is a true copy of its slot as long as any
  slot has the message, so that a confirmation never counts for another one.
- `NetworkInv`: what is on the network has a number already given out and the
  class of its message, and its last fragment is out only when the attempt is
  counted.
- `RInv`: the receiver's session is valid and made of sent frames only.
- `TakenInv`, `NewestInv`: what was taken is in the history, behind the window
  or, of snapshots, not above the newest. This is why a late copy is never
  taken again although history and tombstones are bounded.
- `LedgerInv`: only what was taken is acknowledged.

The first part of the module has the lemmas about the receiver. Several loops
of the code (pruning the history, giving up the oldest identities) are
recursive functions in `NativeRx`; what they compute is shown by induction up
to the number of steps over a set (`AllUpTo`, `RecursionExists` of
`NumberLemmas`), and the list of identities is summed up as the set of what it
names (`TombsFor`). `ReliableInWindow` and the refinement then follow action by
action from `IInv`.

### The scheduler (`NativeSchedulerProofs`)

| Theorem | Property |
|---|---|
| `Invariance` | `IInv` |
| `BoundedWait` | `NoStarvation` |
| `EveryDispatchCounts` | `count' = count - Rebase + 1` at each dispatch |

For every number of slots and priorities, every quantum and every end of the
counter. The assumption beside positive bounds (`SchedulerAssumption`): the
counter is longer than a resend interval and the longest wait together, which
2^64 is. A message that is due ages with every dispatch that passes it over
(`WaitInv`), so after `MaxPriority * Quantum` of them it is urgent, and from
then on only messages dispatched longer ago go before it (`UrgentBehind`). Each
such dispatch takes one of them to the end of the line and nothing joins them
there, because what is queued is younger: the times it was passed over plus the
number of those ahead stay below the bound (`TurnInv`). `TicketInv` is about a
ticket that was made before the message became due. The bound on the wait is in
turn why the counter can always be rebased at its end (`NoLongWait`,
`RebaseIs`).

### The event lane (`NativeEventsProofs`)

| Theorem | Property |
|---|---|
| `Invariance` | `IInv` |
| `TypeCorrect` | `TypeOK` |
| `OnlyOwnFailures` | `RefusedOnlyByConsumer` |
| `ImplementsStream` | `StreamSpec` |

For every number of events and of packets on the way, and every size of
windows, tables and batches. The assumptions (`EventsAssumption`): all of them
are positive, and a batch is not larger than the selective part of a receipt
(`WORR_NATIVE_EVENT_BATCH_MAX_EVENTS` is 8, `WORR_EVENT_RECEIPT_SELECTIVE_CAPACITY`
64). The runs have one packet on the way in each direction; the proofs have any
number of them.

The client decides on a message with what it has committed, which the server
learns late or never. `IInv` says why it never has a reason to refuse:

- `SenderInv`, about the sender, what is on the way, and what was taken and
  committed: the events of the backlog follow those of the messages without a
  gap (`BacklogInOrder`); a message is an interval of numbers (`Numbered`), two
  of them are disjoint (`Apart`), and each was taken whole or not at all
  (`WholeOrNot`); every number given out is taken or still in a message that is
  kept (`Covered`). So whatever lies before the oldest retained event was
  taken, and a message that was not taken lies within the receipt window
  (`InReach`): this is what `Room` is for, and why it counts the span.
- `NetworkInv`: nothing on the way is older than the history of the session.
  It holds because a message is sent only while it is kept, at most `Window`
  numbers behind the newest, and because the channel keeps the order: a copy
  that comes again cannot be overtaken by one that was sent after it.
- `ReceiptInv`: a receipt is of a committed message and lasts as long as the
  history reaches, so a message that can still come again finds it.
- `ConsumerInv`: the consumer has what was taken, each event under its number.

There is one lemma for each function of the sender (`PromoteKeeps`, `PumpKeeps`
by induction over the rounds, `QueueKeeps`, `ReleaseKeeps`, `LifeKeeps`), three
about the client's verdict (`ArrivalFacts`, `InsideWindow`, `VerdictFacts`), and
one for each action, which also shows the step of `EventStream` it is.

### Model-checked only

Liveness (`EventuallyDelivered`, `EventuallyReleased`, `HandshakeSettles`,
`EveryEventPlayed`), which is out of the prover's reach: it needs ENABLED and
fairness. Every invariant and every action property that a passing run checks
is a theorem as well, those of the NEW channel's bits under `DatagramsFit`,
which its run satisfies. What the runs of section 4 violate is of course not
proved; `ReliableDelivery` of the NEW channel and the last four theorems of the
handshake draw the borders around it. The
inductive invariants of the proofs were model-checked on the instances of the
runs before they were proved; they are not listed as properties of runs, which
keep to what the system promises.

## 6. Not modelled, and what could come next

Left out for good: byte formats (the properties do not tell formats apart),
operating-system I/O, and the sequential parts of the engine named in the
inventory. These make up most of the repository; what is mapped is the protocol
core of its network code.

Left out of components that are modelled: reconnection of a client over the
same address and qport (`src/src/server/main.c:7498`), a `maxpacketlen` that
shrinks between the fragments of a packet (`main.c:7588`), the wrap of packet
numbers, the readiness adapters in modes without server data, resend times and
byte budgets of a native session, `carrier_traffic_seen` (it never holds before
the wire commitment, which is modelled). `hazards` in `PROJECT.json` lists the
first three as not covered. Of the event lane: resend times, byte budgets,
event numbers near 2^32, and the classes of events named above.

Two disagreements that were met while reading and that no run shows, because
what they are about is not modelled. A design note says that losing semantic
authority "retires every pending semantic ACK before another send can prepare
it" (`src/docs-dev/fr-10-t04-t05-semantic-repeat-ack-fence-2026-07-14.md`); the
map end quiesces the consumer and goes on sending the receipts that are due
(`src/src/client/native_readiness_pilot.cpp:1891`). `NativeEvents` has that
behaviour, and it is harmless there: the server has cancelled by then. And a
comment says that the server sends a seed for weapon prediction "in a dedicated
homogeneous batch" and that the client consumes it outside the journal
(`src/src/game/cgame/cg_event_runtime.cpp:3001`); the server queues it as an
ordinary candidate (`src/src/server/user.c:1937`), which the sender batches by
tick and numbers as any other, and the admission demands every number in the
consumer's receipt afterwards (`native_event_admission.c`). The feature is off
by default.

Next, the most important first:

1. **SnapshotTransfer** and the recovery policy; **InputDelivery**.
2. The events that `NativeEvents` leaves out: those that expire or coalesce, and
   the predicted ones of the client's weapons.
3. **CommandStream**, **EventJournal**, **Capability** as small modules.
4. **NetchanReconnect**: a channel set up anew while packets of the old
   connection are under way; shrinking `maxpacketlen`.
5. Proofs: with the modules above, their invariants. Of the present modules,
   that a message of the NEW channel that was written is never forgotten in
   isolation either (`QueueOrderKept` leaves the isolated ones out).
