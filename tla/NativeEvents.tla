---------------------------- MODULE NativeEvents ----------------------------
(***************************************************************************)
(* The native event lane of one transport epoch, server to client: the     *)
(* server's sender (src/common/net/native_event_sender.c, driven by        *)
(* src/server/native_shadow.c), the client's admission of what arrives     *)
(* (src/client/native_readiness_pilot.cpp and                              *)
(* src/common/net/native_event_admission.c) and the consumer in the        *)
(* client's game module (src/game/cgame/cg_event_runtime.cpp).             *)
(*                                                                         *)
(* Fragments, slots and tickets are NativeTransfer's: here a message is    *)
(* one packet.  The net channel loses packets and keeps the others in      *)
(* order, without repeating one (Netchan).  The events are of the reliable *)
(* ordered class, which neither expires nor is merged in the journal.      *)
(***************************************************************************)
EXTENDS Naturals, Sequences, FiniteSets, FiniteSetsExt, SequencesExt

CONSTANTS
    MaxEvents,         \* bound of the events that are queued
    MaxInFlight,       \* bound of the packets under way, each way
    Backlog,           \* WORR_NATIVE_EVENT_SENDER_BACKLOG_CAPACITY
    TxSlots,           \* WORR_NATIVE_EVENT_SENDER_TX_CAPACITY
    BatchMax,          \* WORR_NATIVE_EVENT_BATCH_MAX_EVENTS, or what a
                       \* datagram takes if that is less
    Window,            \* WORR_NATIVE_SESSION_RECEIPT_HISTORY_CAPACITY
    Selective,         \* WORR_EVENT_RECEIPT_SELECTIVE_CAPACITY
    Journal,           \* CG_EVENT_RUNTIME_JOURNAL_CAPACITY
    Handoffs           \* proactive_handoffs of the client's ledger

ASSUME EventsAssumption ==
    /\ {MaxEvents, MaxInFlight, Backlog, TxSlots, BatchMax, Window, Selective,
        Journal, Handoffs} \subseteq Nat \ {0}
    /\ BatchMax <= Selective

VARIABLES server,      \* the sender and its peer's lifecycle
          offered,     \* how many candidates were queued
          down, up,    \* packets with a message, packets with receipts
          client,      \* the pilot: mode, stream owner, session, ledger
          consumer,    \* the event runtime: its state and what it was given
          failure,     \* why the client refused a packet, or "none"
          taken,       \* events the consumer was ever given
          shown        \* events it played, in the order it did

network == <<down, up>>
history == <<taken, shown>>
vars == <<server, offered, down, up, client, consumer, failure, taken, shown>>

Event == 1 .. MaxEvents
MessageSeq == 1 .. MaxEvents + 1

-----------------------------------------------------------------------------
(***************************************************************************)
(* The sender.  Message 1 is the descriptor of the stream; an event        *)
(* message holds the events from number `first' on.  A candidate is        *)
(* `fresh' if its tick or time is not that of the candidate before it.     *)
(***************************************************************************)
Candidate == [id : Event, fresh : BOOLEAN]
Descriptor == [seq |-> 1, first |-> 0, ids |-> <<>>]
EventMessage == [seq : MessageSeq \ {1}, first : Event,
                 ids : BoundedSeq(Event, BatchMax) \ {<<>>}]
Message == {Descriptor} \cup EventMessage

ServerState ==
    [life : {"active", "drain", "cancelled"},
     backlog : BoundedSeq(Candidate, Backlog),
     next : 1 .. MaxEvents + 1,
     kept : SUBSET Message,
     nextMsg : 2 .. MaxEvents + 2,
     acked : BOOLEAN]

FreshServer ==
    [life |-> "active", backlog |-> <<>>, next |-> 1, kept |-> {Descriptor},
     nextMsg |-> 2, acked |-> FALSE]

EventsOf(m) == {m.first + k - 1 : k \in DOMAIN m.ids}

\* Mutant of Room: what is counted is the retained events, not their span.
RoomByCount(s) == Selective - Cardinality(UNION {EventsOf(m) : m \in s.kept})

\* retained_event_window_room
Room(s) ==
    LET firsts == {m.first : m \in s.kept \ {Descriptor}}
    IN  IF firsts = {} THEN Selective
        ELSE Selective - (s.next - Min(firsts))

\* Worr_NativeTxSessionEnqueueV1's RECEIPT_WINDOW: messages have one too.
MessageWindowOpen(s) ==
    \A m \in s.kept : s.nextMsg - m.seq < Window

MayPromote(s) ==
    /\ s.acked
    /\ s.backlog # <<>>
    /\ Cardinality(s.kept) < TxSlots
    /\ Room(s) > 0
    /\ MessageWindowOpen(s)

\* The candidates of the tick of the first one, as many as fit.
BatchCount(s) ==
    LET sameTick == {k \in 1 .. Len(s.backlog) :
                        \A j \in 2 .. k : ~s.backlog[j].fresh}
    IN  Min({Max(sameTick), BatchMax, Room(s)})

\* One round of Worr_NativeEventSenderPumpV1.
Promote(s) ==
    LET n == BatchCount(s)
        m == [seq |-> s.nextMsg, first |-> s.next,
              ids |-> [k \in 1 .. n |-> s.backlog[k].id]]
    IN  [s EXCEPT !.backlog = SubSeq(@, n + 1, Len(@)),
                  !.next = @ + n,
                  !.kept = @ \cup {m},
                  !.nextMsg = @ + 1]

\* The pump goes on until the backlog is empty or something is full.
PumpRound(s) == IF MayPromote(s) THEN Promote(s) ELSE s

Pumped(s) ==
    LET after[k \in 0 .. Len(s.backlog)] ==
            IF k = 0 THEN s ELSE PumpRound(after[k - 1])
    IN  after[Len(s.backlog)]

Fits(s, n) == Len(s.backlog) + n <= Backlog

-----------------------------------------------------------------------------
(***************************************************************************)
(* The client.  `owner' is worr_event_stream_owner_v1, `committed' the     *)
(* receipt history of the session; the ledger holds the receipts by        *)
(* message with the handoffs that are due.                                 *)
(***************************************************************************)
ClientState ==
    [mode : {"active", "drain"}, quiesced : BOOLEAN,
     owner : {"none", "active", "resync"},
     committed : SUBSET MessageSeq,
     ledger : UNION {[S -> 0 .. Handoffs] : S \in SUBSET MessageSeq}]

NoReceipts == [s \in {} |-> 0]
FreshClient == [mode |-> "active", quiesced |-> FALSE, owner |-> "none",
                committed |-> {}, ledger |-> NoReceipts]

\* The runtime's journal: event number to event.
ConsumerState ==
    [life : {"idle", "active", "lost"},
     got : UNION {[S -> Event] : S \in SUBSET Event}]
Idle == [life |-> "idle", got |-> [s \in {} |-> 0]]

\* highest_contiguous of the receipt
Contiguous(got) ==
    Max({k \in 0 .. MaxEvents : 1 .. k \subseteq DOMAIN got})

\* Worr_EventReceiptMarkV1 answers OUTSIDE_WINDOW for the last event.
OutsideWindow(got, m) == Max(EventsOf(m)) > Contiguous(got) + Selective

\* find_free_or_terminal finds no slot for the last event.
JournalFull(got, m) ==
    Cardinality(DOMAIN got) - Len(shown) + Len(m.ids) > Journal

HistoryTop(c) == Max(c.committed \cup {0})
Behind(c, m) == HistoryTop(c) >= m.seq + Window
Repeated(c, m) == m.seq \in c.committed /\ ~Behind(c, m)

\* ledger_prune: receipts last as long as the history reaches.
Proven(c, seq) ==
    LET all == c.committed \cup {seq}
    IN  (DOMAIN c.ledger \cap {s \in all : s + Window > Max(all)}) \cup {seq}

\* Mutant of Receipted: a receipt that was handed off stays so.
ReceiptedOnce(c, seq) ==
    [s \in Proven(c, seq) |->
        IF s \in DOMAIN c.ledger THEN c.ledger[s] ELSE Handoffs]

\* Mutant of Receipted: a repeat adds to what is left.
ReceiptedAgain(c, seq) ==
    [s \in Proven(c, seq) |->
        IF s \notin DOMAIN c.ledger THEN Handoffs
        ELSE IF s = seq THEN c.ledger[s] + Handoffs ELSE c.ledger[s]]

\* receipt_capture_exact: the receipt of this message is due again.
Receipted(c, seq) ==
    [s \in Proven(c, seq) |-> IF s = seq THEN Handoffs ELSE c.ledger[s]]

\* enter_drain: the stream's owner asks for another epoch.
Draining(c) ==
    [c EXCEPT !.mode = "drain",
              !.owner = IF @ = "none" THEN "none" ELSE "resync"]

\* Net_Process's APPLICATION_REJECTED is ERR_DROP for the client.
Connected == failure = "none"

Init ==
    /\ server = FreshServer /\ offered = 0
    /\ down = <<>> /\ up = <<>>
    /\ client = FreshClient /\ consumer = Idle /\ failure = "none"
    /\ taken = {} /\ shown = <<>>

-----------------------------------------------------------------------------
(***************************************************************************)
(* The server.                                                             *)
(***************************************************************************)
Queued(s, n, fresh) ==
    s.backlog \o [k \in 1 .. n |-> [id |-> offered + k,
                                    fresh |-> fresh /\ k = 1]]

\* SV_NativeShadowQueueEventCandidatesV1 of n events of one tick.  What does
\* not fit the backlog ends the lane: enter_drain.
QueueCandidates(n, fresh) ==
    /\ Connected /\ server.life = "active"
    /\ offered + n <= MaxEvents
    /\ IF Fits(server, n)
       THEN /\ server' = [server EXCEPT !.backlog = Queued(server, n, fresh)]
            /\ offered' = offered + n
       ELSE /\ server' = [server EXCEPT !.life = "drain"]
            /\ UNCHANGED offered
    /\ UNCHANGED <<network, client, consumer, failure, history>>

\* SV_NativeShadowEventPumpV1, OutputDue, and a packet that was prepared and
\* that the net channel did not take.
Pump ==
    /\ Connected /\ server.life = "active"
    /\ server' = Pumped(server)
    /\ UNCHANGED <<offered, network, client, consumer, failure, history>>

\* PrepareMixed pumps first; then one retained message is handed off.
Send(seq) ==
    LET s == Pumped(server)
    IN  /\ Connected /\ server.life = "active"
        /\ Len(down) < MaxInFlight
        /\ \E m \in s.kept : m.seq = seq /\ down' = Append(down, m)
        /\ server' = s
        /\ UNCHANGED <<offered, up, client, consumer, failure, history>>

\* Mutant of Released: every message up to the acknowledged one goes.
ReleasedUpTo(s, S) ==
    [s EXCEPT !.kept = {m \in @ : \A r \in S : m.seq > r},
              !.acked = @ \/ 1 \in S]

Released(s, S) ==
    [s EXCEPT !.kept = {m \in @ : m.seq \notin S}, !.acked = @ \/ 1 \in S]

\* Worr_NativeEventSenderApplyAcksV1, also in drain.  It does not pump: the
\* next capture may still join the batch of its tick.
ReceiveAcks(S) ==
    /\ Connected
    /\ up # <<>> /\ Head(up) = S /\ up' = Tail(up)
    /\ server' = IF server.life = "cancelled" THEN server
                 ELSE Released(server, S)
    /\ UNCHANGED <<offered, down, client, consumer, failure, history>>

\* SV_NativeShadowPeerQuiesceMapV1, before the client hears of the new map.
Cancel ==
    /\ Connected /\ server.life = "active"
    /\ server' = [server EXCEPT !.life = "cancelled", !.backlog = <<>>,
                                !.kept = {}]
    /\ UNCHANGED <<offered, network, client, consumer, failure, history>>

-----------------------------------------------------------------------------
(***************************************************************************)
(* The network.                                                            *)
(***************************************************************************)
LoseMessage ==
    /\ Connected
    /\ down # <<>> /\ down' = Tail(down)
    /\ UNCHANGED <<server, offered, up, client, consumer, failure, history>>

LoseAcks ==
    /\ Connected
    /\ up # <<>> /\ up' = Tail(up)
    /\ UNCHANGED <<server, offered, down, client, consumer, failure, history>>

-----------------------------------------------------------------------------
(***************************************************************************)
(* The client.  A message is refused for a reason:                         *)
(*   drain      the pilot failed before, or the map is changing            *)
(*   stale      the session's history does not reach back to the message   *)
(*   not_ready  an event, and the stream is not known yet                  *)
(*   receipt    a batch came again and its receipt is gone                 *)
(*   consumer   the consumer is gone, or does not have what it took        *)
(*   window     an event too far ahead of the first one that is missing    *)
(*   capacity   the journal is full of events that were not played yet     *)
(***************************************************************************)
Refusal == {"drain", "stale", "not_ready", "receipt", "consumer", "window",
            "capacity"}

\* The refusals of force_consumer_resync, which retires the receipts.
Resyncing == {"consumer", "window", "capacity"}

\* Worr_NativeEventAdmissionRevalidateCommittedRepeatV1
RepeatVerdict(m) ==
    IF client.owner # "active" THEN "not_ready"
    ELSE IF Len(m.ids) > 1 /\ m.seq \notin DOMAIN client.ledger THEN "receipt"
    ELSE IF consumer.life # "active" \/ ~(EventsOf(m) \subseteq DOMAIN consumer.got)
         THEN "consumer"
    ELSE "none"

\* Worr_NativeEventAdmissionCommitCompletedV1
NewVerdict(m) ==
    IF m = Descriptor
    THEN IF consumer.life = "lost" THEN "consumer" ELSE "none"
    ELSE IF client.owner # "active" THEN "not_ready"
    ELSE IF consumer.life # "active" THEN "consumer"
    ELSE IF OutsideWindow(consumer.got, m) THEN "window"
    ELSE IF JournalFull(consumer.got, m) THEN "capacity"
    ELSE "none"

\* pilot_rx_event and admit_current_event_data
Verdict(m) ==
    IF client.mode = "drain" THEN "drain"
    ELSE IF Repeated(client, m) THEN RepeatVerdict(m)
    ELSE IF Behind(client, m) THEN "stale"
    ELSE NewVerdict(m)

Arrives(m) ==
    /\ Connected
    /\ down # <<>> /\ Head(down) = m /\ down' = Tail(down)
    /\ UNCHANGED <<server, offered, up>>

\* The packet is refused, the pilot drains, and the connection is dropped.
Refuse(m) ==
    /\ Arrives(m)
    /\ Verdict(m) # "none"
    /\ failure' = Verdict(m)
    /\ client' = IF Verdict(m) \in Resyncing
                 THEN [Draining(client) EXCEPT !.owner = "resync",
                                               !.ledger = NoReceipts]
                 ELSE Draining(client)
    /\ consumer' = Idle
    /\ UNCHANGED history

\* A message that was committed: its receipt is due again.
Revalidate(m) ==
    /\ Arrives(m)
    /\ Verdict(m) = "none" /\ Repeated(client, m)
    /\ client' = [client EXCEPT !.ledger = Receipted(client, m.seq)]
    /\ UNCHANGED <<consumer, failure, history>>

\* The session commits the message and its receipt becomes due.
Committed(c, seq) ==
    [c EXCEPT !.committed = @ \cup {seq}, !.ledger = Receipted(c, seq)]

\* The descriptor: the stream gets its owner, the consumer its authority.
Activate(m) ==
    /\ Arrives(m)
    /\ Verdict(m) = "none" /\ ~Repeated(client, m) /\ m = Descriptor
    /\ client' = [Committed(client, m.seq) EXCEPT !.owner = "active"]
    /\ consumer' = [Idle EXCEPT !.life = "active"]
    /\ UNCHANGED <<failure, history>>

\* The consumer takes the events of a message, all or none.
Take(m) ==
    /\ Arrives(m)
    /\ Verdict(m) = "none" /\ ~Repeated(client, m) /\ m # Descriptor
    /\ client' = Committed(client, m.seq)
    /\ consumer' = [consumer EXCEPT !.got =
                      [e \in DOMAIN @ \cup EventsOf(m) |->
                         IF e \in DOMAIN @ THEN @[e]
                         ELSE m.ids[e - m.first + 1]]]
    /\ taken' = taken \cup {m.ids[k] : k \in DOMAIN m.ids}
    /\ UNCHANGED <<failure, shown>>

\* A message of this number is there and is not refused.
Accept(seq) ==
    /\ down # <<>> /\ Head(down).seq = seq
    /\ \/ Revalidate(Head(down))
       \/ Activate(Head(down))
       \/ Take(Head(down))

\* CG_EventRuntimeAdvance: the next event in order, once a snapshot and the
\* render time allow it.
Play ==
    /\ Connected /\ consumer.life = "active"
    /\ Len(shown) + 1 \in DOMAIN consumer.got
    /\ shown' = Append(shown, consumer.got[Len(shown) + 1])
    /\ UNCHANGED <<server, offered, network, client, consumer, failure, taken>>

Due(c) == {s \in DOMAIN c.ledger : c.ledger[s] > 0}

\* prepare_event_ack_only and the packets that carry receipts beside data:
\* while the pilot is active, and while it waits for the next map.  A packet
\* takes all that are due, as their ranges are few enough.
TellAcks ==
    /\ Connected
    /\ client.mode = "active" \/ client.quiesced
    /\ Due(client) # {}
    /\ Len(up) < MaxInFlight
    /\ up' = Append(up, Due(client))
    /\ client' = [client EXCEPT !.ledger =
                    [s \in DOMAIN @ |-> IF @[s] > 0 THEN @[s] - 1 ELSE 0]]
    /\ UNCHANGED <<server, offered, down, consumer, failure, history>>

\* pilot_failure of an active pilot, for any of its other reasons.
PilotFails ==
    /\ Connected /\ client.mode = "active"
    /\ client' = Draining(client)
    /\ consumer' = Idle
    /\ UNCHANGED <<server, offered, network, failure, history>>

\* CL_CGameEventRuntimeSetConsumer takes the consumer away, or the consumer
\* asks for another epoch (authority_requires_resync).
ConsumerLost ==
    /\ Connected /\ client.mode = "active" /\ consumer.life # "lost"
    /\ consumer' = [Idle EXCEPT !.life = "lost"]
    /\ UNCHANGED <<server, offered, network, client, failure, history>>

\* enter_map_boundary, when "changing" arrives: the server had stopped before
\* it was written, and what was sent earlier came earlier or is lost.
MapBoundary ==
    /\ Connected /\ ~client.quiesced
    /\ server.life = "cancelled" /\ down = <<>>
    /\ client' = [Draining(client) EXCEPT !.quiesced = TRUE]
    /\ consumer' = Idle
    /\ UNCHANGED <<server, offered, network, failure, history>>

-----------------------------------------------------------------------------
Next ==
    \/ \E n \in Event, fresh \in BOOLEAN : QueueCandidates(n, fresh)
    \/ Pump
    \/ \E seq \in MessageSeq : Send(seq)
    \/ \E S \in Range(up) : ReceiveAcks(S)
    \/ Cancel
    \/ LoseMessage
    \/ LoseAcks
    \/ \E m \in Range(down) : Refuse(m)
    \/ \E seq \in MessageSeq : Accept(seq)
    \/ Play
    \/ TellAcks
    \/ PilotFails
    \/ ConsumerLost
    \/ MapBoundary

Spec == Init /\ [][Next]_vars

\* The server goes on sending what it keeps, the client what is due, neither
\* direction loses everything for ever, and what may be played is played.
\* Which message comes next is left to chance.
Fairness ==
    /\ SF_vars(\E seq \in MessageSeq : Send(seq))
    /\ SF_vars(\E seq \in MessageSeq : Accept(seq))
    /\ SF_vars(TellAcks)
    /\ SF_vars(\E S \in Range(up) : ReceiveAcks(S))
    /\ WF_vars(Play)

FairSpec == Spec /\ Fairness

-----------------------------------------------------------------------------
TypeOK ==
    /\ server \in ServerState
    /\ offered \in 0 .. MaxEvents
    /\ down \in BoundedSeq(Message, MaxInFlight)
    /\ up \in BoundedSeq(SUBSET MessageSeq, MaxInFlight)
    /\ client \in ClientState
    /\ consumer \in ConsumerState
    /\ failure \in Refusal \cup {"none"}
    /\ taken \subseteq Event
    /\ shown \in BoundedSeq(Event, MaxEvents)

(***************************************************************************)
(* The client drops the connection for a message only when its own side    *)
(* failed: the pilot, the consumer or its journal.  Nothing that the       *)
(* server sends and the network loses makes it refuse one: the server does *)
(* not send an event before the stream is known, outruns neither window,   *)
(* and a batch that comes again still finds its receipt.                   *)
(***************************************************************************)
RefusedOnlyByConsumer == failure \in {"none", "drain", "consumer", "capacity"}

(***************************************************************************)
(* The lane implements EventStream: played in the order of the queue, each *)
(* once, and released only when the consumer was given it.                 *)
(***************************************************************************)
Held(s) == {s.backlog[k].id : k \in DOMAIN s.backlog}
           \cup UNION {Range(m.ids) : m \in s.kept}

Stream == INSTANCE EventStream WITH
            held <- Held(server), over <- server.life = "cancelled"

StreamSpec == Stream!Spec

(***************************************************************************)
(* Every event that was queued is played, unless one of the ends gave the  *)
(* stream up: the client catches up with the queue again and again, and no *)
(* window, full table or lost receipt stops the lane for good.             *)
(***************************************************************************)
GivenUp ==
    \/ server.life # "active" \/ client.mode = "drain"
    \/ consumer.life = "lost" \/ ~Connected

EveryEventPlayed == []<>(Len(shown) = offered \/ GivenUp)

=============================================================================
