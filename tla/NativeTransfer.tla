--------------------------- MODULE NativeTransfer ---------------------------
(***************************************************************************)
(* One direction of the native transport between a client and a server:    *)
(* the sender's session behind its carrier gate, the receiver's session    *)
(* with its acknowledgement ledger, and the packets between them           *)
(* (src/common/net/native_session.c, native_carrier_session.c and          *)
(* native_carrier_ack.c).                                                  *)
(*                                                                         *)
(* A packet that was handed to the net channel may arrive never, late, in  *)
(* any order and any number of times: `sent' and `told' only grow and what *)
(* is in them may arrive at any time.  Each end starts a new epoch when    *)
(* its own handshake says so.                                              *)
(***************************************************************************)
EXTENDS NativeTx, NativeRx

CONSTANT Handoffs      \* proactive_handoffs of the receiver's ledger

ASSUME HandoffsAssumption == Handoffs \in Nat \ {0}

VARIABLES gate,        \* the sender's worr_native_carrier_tx_gate_v1
          ledger,      \* worr_native_carrier_ack_ledger_v1
          sent,        \* frames that were handed to the net channel
          told,        \* acknowledgements that were, <<epoch, sequence>>
          taken,       \* messages the consumer was given, <<epoch, sequence>>
          deliveries,  \* how often it was given one
          newest       \* the newest snapshot it was given

sender == <<tx, gate>>
receiver == <<rx, ledger>>
consumer == <<taken, deliveries, newest>>
vars == <<tx, rx, gate, ledger, sent, told, taken, deliveries, newest>>

Message == SessionEpoch \X Sequence

\* The ledger: the receipts by sequence number, each with the number of times
\* it may still be handed off before the message is repeated.
FreshLedger == [s \in {} |-> 0]
LedgerState == UNION {[S -> 0 .. Handoffs] : S \in SUBSET Sequence}

\* The gate: no burst, or the ticket of the one message in flight, the number
\* of fragments handed off and whether a packet is being handed off.
NoBurst == [active |-> FALSE]
Burst == [active : {TRUE}, ticket : Ticket, done : 0 .. FragmentCount - 1,
          pending : BOOLEAN]

Init ==
    /\ TxInit /\ RxInit
    /\ gate = NoBurst /\ ledger = FreshLedger
    /\ sent = {} /\ told = {}
    /\ taken = {} /\ deliveries = 0 /\ newest = <<0, 0>>

-----------------------------------------------------------------------------
(***************************************************************************)
(* The sender.                                                             *)
(***************************************************************************)
Offer(snap) == Enqueue(snap) /\ UNCHANGED <<gate, receiver, sent, told, consumer>>

\* DispatchBegin and DispatchBindPayload, which callers use together.
DispatchBegin(i) ==
    /\ gate = NoBurst
    /\ MayPrepare(i)
    /\ gate' = [active |-> TRUE, ticket |-> TicketFor(i), done |-> 0,
                pending |-> FALSE]
    /\ UNCHANGED <<tx, receiver, sent, told, consumer>>

\* DispatchPreparePacket: the next fragment, unless the message went away.
PreparePacket ==
    /\ gate.active /\ ~gate.pending
    /\ Current(gate.ticket)
    /\ gate' = [gate EXCEPT !.pending = TRUE]
    /\ UNCHANGED <<tx, receiver, sent, told, consumer>>

NextFrame == [epoch |-> gate.ticket.epoch, seq |-> gate.ticket.copy.seq,
              snap |-> gate.ticket.copy.snap, frag |-> gate.done + 1]
LastFragment == gate.done + 1 = FragmentCount

\* The packet is handed off and dispatch_confirm_packet runs.  If the message
\* went away meanwhile the burst is retired; with the last fragment the
\* attempt counts.
ConfirmPacket ==
    /\ gate.active /\ gate.pending
    /\ sent' = sent \cup {NextFrame}
    /\ \/ /\ ~Current(gate.ticket)
          /\ gate' = NoBurst
          /\ UNCHANGED tx
       \/ /\ Current(gate.ticket) /\ ~LastFragment
          /\ gate' = [gate EXCEPT !.pending = FALSE, !.done = @ + 1]
          /\ UNCHANGED tx
       \/ /\ Current(gate.ticket) /\ LastFragment
          /\ ConfirmPrepared(gate.ticket)
          /\ gate' = NoBurst
    /\ UNCHANGED <<receiver, told, consumer>>

\* DispatchRejectPacket: the net channel did not take the packet.
RejectPacket ==
    /\ gate.active /\ gate.pending
    /\ gate' = [gate EXCEPT !.pending = FALSE]
    /\ UNCHANGED <<tx, receiver, sent, told, consumer>>

\* DispatchAbort, between two packets.
DispatchAbort ==
    /\ gate.active /\ ~gate.pending
    /\ gate' = NoBurst
    /\ UNCHANGED <<tx, receiver, sent, told, consumer>>

\* Mutant of ToldNow: acknowledgements of other epochs are applied too.
ToldAtAll == {m[2] : m \in told}

\* What a packet with acknowledgements may carry for the sender's epoch.
ToldNow == {m[2] : m \in {n \in told : n[1] = tx.epoch}}

\* Neither FUTURE_ACK nor UNSENT_ACK, for which ApplyAcks refuses a packet.
AcceptableAck(s) ==
    /\ s <= Highwater
    /\ \A i \in TxSlot : tx.slots[i].seq = s => tx.slots[i].attempts > 0

\* Worr_NativeCarrierSessionApplyAcksV1
ApplyAcks(S) ==
    /\ ~tx.cancelled
    /\ \A s \in S : AcceptableAck(s)
    /\ Release(S)
    /\ UNCHANGED <<gate, receiver, sent, told, consumer>>

\* The sender leaves its epoch: the retained messages are cancelled.  No
\* packet is being handed off then (transport_cancellable).
CancelTx ==
    /\ ~tx.cancelled
    /\ ~(gate.active /\ gate.pending)
    /\ CancelRetained
    /\ gate' = NoBurst
    /\ UNCHANGED <<receiver, sent, told, consumer>>

\* Worr_NativeTxSessionAdvanceEpochV1, Worr_NativeCarrierTxGateAdvanceEpochV1
AdvanceTx ==
    /\ tx.cancelled
    /\ tx.epoch < MaxEpoch
    /\ tx' = FreshTx(tx.epoch + 1)
    /\ UNCHANGED <<gate, receiver, sent, told, consumer>>

-----------------------------------------------------------------------------
(***************************************************************************)
(* The receiver.                                                           *)
(***************************************************************************)
\* ledger_prune: a receipt lasts as long as the receiver can prove it.
Proven(r) == [s \in DOMAIN ledger \cap Authority(r) |-> ledger[s]]

\* Mutant of Capture: a repeat adds to what is left.
CaptureAgain(r, seq) ==
    [s \in DOMAIN Proven(r) \cup {seq} |->
        IF s = seq /\ s \notin DOMAIN ledger THEN Handoffs
        ELSE IF s = seq THEN ledger[s] + Handoffs ELSE ledger[s]]

\* receipt_capture_exact: the receipt of this message may be handed off again.
Capture(r, seq) ==
    [s \in DOMAIN Proven(r) \cup {seq} |-> IF s = seq THEN Handoffs
                                           ELSE ledger[s]]

\* Worr_NativeCarrierSessionAcceptDataRetainedV1 of a frame that is new.
Arrive(f, idle) ==
    /\ ~AlreadyCommitted(Forget(rx, idle), f)
    /\ Accept(f, idle)
    /\ UNCHANGED <<ledger, sender, sent, told, consumer>>

\* The same for a frame of a committed message: its receipt is made due again.
\* A consumer that no longer stands by what it took stops the call instead,
\* and nothing changes at all (SEMANTIC_REVALIDATION_REQUIRED).
Repeat(f, idle) ==
    /\ AlreadyCommitted(Forget(rx, idle), f)
    /\ Accept(f, idle)
    /\ ledger' = Capture(rx', f.seq)
    /\ UNCHANGED <<sender, sent, told, consumer>>

ExpireRx(idle) ==
    Expire(idle) /\ UNCHANGED <<ledger, sender, sent, told, consumer>>

DiscardRx(i) ==
    Discard(i) /\ UNCHANGED <<ledger, sender, sent, told, consumer>>

\* carrier_session_commit_retained: the consumer took the message.
CommitRetained(i) ==
    LET slot == rx.slots[i]
        m == <<rx.epoch, slot.seq>>
    IN  /\ Commit(i)
        /\ ledger' = Capture(rx', slot.seq)
        /\ taken' = taken \cup {m}
        /\ deliveries' = deliveries + 1
        /\ newest' = IF slot.snap THEN m ELSE newest
        /\ UNCHANGED <<sender, sent, told>>

\* PrepareRanges and CommitHandoff of due receipts, in one call; a packet that
\* the net channel does not take leaves no trace.
AckHandoff(S) ==
    /\ S # {}
    /\ \A s \in S : ledger[s] > 0
    /\ told' = told \cup {<<rx.epoch, s>> : s \in S}
    /\ ledger' = [s \in DOMAIN ledger |-> IF s \in S THEN ledger[s] - 1
                                          ELSE ledger[s]]
    /\ UNCHANGED <<rx, sender, sent, consumer>>

\* Worr_NativeCarrierAckRetireSemanticReceiptsInternalV1: the consumer lost
\* its state, and what it took is not acknowledged any more.
RetireReceipts(S) ==
    /\ ~rx.cancelled
    /\ S # {}
    /\ ledger' = [s \in DOMAIN ledger \ S |-> ledger[s]]
    /\ UNCHANGED <<rx, sender, sent, told, consumer>>

\* The receiver leaves its epoch, Worr_NativeCarrierAckCancelAllV1 included.
CancelRx ==
    /\ ~rx.cancelled
    /\ CancelPending
    /\ ledger' = FreshLedger
    /\ UNCHANGED <<sender, sent, told, consumer>>

\* Worr_NativeRxSessionAdvanceEpochV1, Worr_NativeCarrierAckLedgerAdvanceEpochV1
AdvanceRx ==
    /\ rx.cancelled
    /\ rx.epoch < MaxEpoch
    /\ rx' = FreshRx(rx.epoch + 1)
    /\ UNCHANGED <<ledger, sender, sent, told, consumer>>

-----------------------------------------------------------------------------
Next ==
    \/ \E snap \in BOOLEAN : Offer(snap)
    \/ \E i \in TxSlot : DispatchBegin(i)
    \/ PreparePacket
    \/ ConfirmPacket
    \/ RejectPacket
    \/ DispatchAbort
    \/ \E S \in SUBSET ToldNow : ApplyAcks(S)
    \/ CancelTx
    \/ AdvanceTx
    \/ \E f \in sent, idle \in SUBSET Occupied(rx) : Arrive(f, idle)
    \/ \E f \in sent, idle \in SUBSET Occupied(rx) : Repeat(f, idle)
    \/ \E idle \in SUBSET Occupied(rx) : ExpireRx(idle)
    \/ \E i \in RxSlot : DiscardRx(i)
    \/ \E i \in RxSlot : CommitRetained(i)
    \/ \E S \in SUBSET DOMAIN ledger : AckHandoff(S)
    \/ \E S \in SUBSET DOMAIN ledger : RetireReceipts(S)
    \/ CancelRx
    \/ AdvanceRx

Spec == Init /\ [][Next]_vars

-----------------------------------------------------------------------------
TypeOK ==
    /\ tx \in TxState
    /\ rx \in RxState
    /\ gate \in {NoBurst} \cup Burst
    /\ ledger \in LedgerState
    /\ sent \subseteq Frame
    /\ told \subseteq Message
    /\ taken \subseteq Message
    /\ deliveries \in Nat
    /\ newest \in (0 .. MaxEpoch) \X (0 .. MaxSeq)

(***************************************************************************)
(* Every operation of the receiver begins with                             *)
(* Worr_NativeRxSessionValidateV1 and refuses to do anything for a session *)
(* that fails it.  No sequence of accepts, evictions, expiries and commits *)
(* leaves a session that does.                                             *)
(***************************************************************************)
ReceiverValid == HistoryValid(rx) /\ TombstonesValid(rx) /\ SlotsValid(rx)

(***************************************************************************)
(* The sender stops before the receiver could forget: while both are in    *)
(* one epoch no message that the sender still has to deliver is behind the *)
(* receiver's window, where it would be refused as STALE_REPLAY for ever   *)
(* (tx_enqueue's RECEIPT_WINDOW and Accept's window are one bound).        *)
(***************************************************************************)
ReliableInWindow ==
    rx.epoch = tx.epoch =>
        \A i \in RetainedReliable : ~OutOfWindow(rx, tx.slots[i].seq)

(***************************************************************************)
(* ApplyAcks refuses a whole packet, and every other acknowledgement in    *)
(* it, if one is for a message that was not sent.  No acknowledgement a    *)
(* receiver gives is one: also not after a repeated fragment, a retired    *)
(* burst or a new epoch that numbers its messages from 1 again.            *)
(***************************************************************************)
AcksAcceptable == \A s \in ToldNow : AcceptableAck(s)

(***************************************************************************)
(* A message counts as sent only when all of its fragments were handed to  *)
(* the net channel: a ticket that outlived its message is never counted    *)
(* for the message that has the slot now (PreparedValidate).               *)
(***************************************************************************)
AttemptsReal ==
    \A i \in Retained : tx.slots[i].attempts > 0 =>
        \A k \in Fragment : [epoch |-> tx.epoch, seq |-> tx.slots[i].seq,
                             snap |-> tx.slots[i].snap, frag |-> k] \in sent

(***************************************************************************)
(* What the consumer was given was put together from fragments of that     *)
(* message of that epoch, never of one with the same number in another.    *)
(***************************************************************************)
TakenWasSent ==
    \A m \in taken : \A k \in Fragment : \E snap \in BOOLEAN :
        [epoch |-> m[1], seq |-> m[2], snap |-> snap, frag |-> k] \in sent

(***************************************************************************)
(* The transfer implements NativeDelivery: at most once, newer snapshots   *)
(* only, and nothing is let go that was not handed over.                   *)
(***************************************************************************)
Held == {[m |-> <<tx.epoch, tx.slots[i].seq>>, snap |-> tx.slots[i].snap] :
            i \in Retained}

Delivery == INSTANCE NativeDelivery WITH held <- Held, over <- tx.cancelled

DeliverySpec == Delivery!Spec

=============================================================================
