------------------------------ MODULE NativeTx ------------------------------
(***************************************************************************)
(* The sending half of a native session, Worr_NativeTxSession* of          *)
(* src/common/net/native_session.c: a few slots that keep every message    *)
(* until it is acknowledged, superseded or cancelled.                      *)
(*                                                                         *)
(* A message is its sequence number and its class.  Reliable messages are  *)
(* kept; a canonical snapshot gives way to a newer one.  The objects of    *)
(* two snapshots compare as their sequence numbers do, because Enqueue     *)
(* refuses a snapshot that is not newer than the last one.  Payloads,      *)
(* priorities and the choice among due messages are left out here (for     *)
(* the choice see NativeScheduler); any retained message may be due.       *)
(***************************************************************************)
EXTENDS NativeSession

CONSTANTS TxSlots,      \* the sender's slot capacity
          MaxAttempts   \* UINT32_MAX, for send attempts

ASSUME TxAssumption ==
    /\ TxSlots \in Nat \ {0}
    /\ MaxAttempts \in Nat \ {0}

VARIABLE tx

TxSlot == 1 .. TxSlots

\* An unused slot of worr_native_tx_slot_v1 is all zeros.
EmptyTx == [seq |-> 0, snap |-> FALSE, attempts |-> 0]

TxSlotState == [seq : 0 .. MaxSeq, snap : BOOLEAN, attempts : 0 .. MaxAttempts]

TxState == [epoch : SessionEpoch, next : Sequence, exhausted : BOOLEAN,
            cancelled : BOOLEAN, slots : [TxSlot -> TxSlotState]]

\* Worr_NativeTxSessionInitV1 for an epoch.
FreshTx(epoch) ==
    [epoch |-> epoch, next |-> 1, exhausted |-> FALSE, cancelled |-> FALSE,
     slots |-> [i \in TxSlot |-> EmptyTx]]

TxInit == tx = FreshTx(1)

Retained == {i \in TxSlot : tx.slots[i].seq # 0}
RetainedReliable == {i \in Retained : ~tx.slots[i].snap}
RetainedSnapshot == {i \in Retained : tx.slots[i].snap}

\* tx_sequence_highwater
Highwater == IF tx.exhausted THEN MaxSeq ELSE tx.next - 1

-----------------------------------------------------------------------------
\* Mutant of WindowOpen: the window is one message too wide.
WindowOneWider ==
    \A i \in RetainedReliable : tx.next - tx.slots[i].seq <= Window

\* Enqueue does not answer RECEIPT_WINDOW: no reliable message is so old that
\* the receiver's history would move past it.
WindowOpen ==
    \A i \in RetainedReliable : tx.next - tx.slots[i].seq < Window

\* tx_allocate_sequence, and the slot that Enqueue fills.
Retain(i, snap) ==
    tx' = [tx EXCEPT
             !.exhausted = (tx.next = MaxSeq),
             !.next = IF tx.next = MaxSeq THEN @ ELSE @ + 1,
             !.slots[i] = [seq |-> tx.next, snap |-> snap, attempts |-> 0]]

FreeTx == {i \in TxSlot : tx.slots[i].seq = 0}
FirstFree == CHOOSE i \in FreeTx : \A j \in FreeTx : i <= j

\* Worr_NativeTxSessionEnqueueV1 of a new record.  A snapshot replaces the
\* resident one in place, also when every slot is taken.
Enqueue(snap) ==
    /\ ~tx.cancelled
    /\ WindowOpen
    /\ ~tx.exhausted
    /\ \/ \E i \in RetainedSnapshot : snap /\ Retain(i, TRUE)
       \/ /\ ~snap \/ RetainedSnapshot = {}
          /\ FreeTx # {}
          /\ Retain(FirstFree, snap)

-----------------------------------------------------------------------------
(***************************************************************************)
(* A send ticket is the slot's index and a copy of the slot, which a later *)
(* confirmation compares byte by byte.                                     *)
(***************************************************************************)
Ticket == [epoch : SessionEpoch, slot : TxSlot, copy : TxSlotState]

\* Worr_NativeTxSessionPrepareDueV1.  A slot whose attempts are saturated
\* only gets a ticket at a later tick; the model stops there.
TicketFor(i) == [epoch |-> tx.epoch, slot |-> i, copy |-> tx.slots[i]]
MayPrepare(i) ==
    /\ ~tx.cancelled
    /\ i \in Retained
    /\ tx.slots[i].attempts < MaxAttempts

\* Mutant of Current: the slot is known by its index alone.
SlotTakenAgain(t) ==
    ~tx.cancelled /\ t.epoch = tx.epoch /\ tx.slots[t.slot].seq # 0
                  /\ tx.slots[t.slot].attempts < MaxAttempts

\* Worr_NativeTxSessionPreparedValidateV1
Current(t) ==
    /\ ~tx.cancelled
    /\ t.epoch = tx.epoch
    /\ t.copy = tx.slots[t.slot]

\* Worr_NativeTxSessionConfirmPreparedV1, which PreparedValidate precedes:
\* the attempt of the slot that the ticket names is recorded.
ConfirmPrepared(t) ==
    tx' = [tx EXCEPT !.slots[t.slot].attempts = @ + 1]

\* Worr_NativeTxSessionApplyAckV1 for a set of messages, as
\* Worr_NativeCarrierSessionApplyAcksV1 calls it for each range of a packet.
Release(acked) ==
    tx' = [tx EXCEPT !.slots = [i \in TxSlot |->
              IF @[i].seq \in acked THEN EmptyTx ELSE @[i]]]

\* Worr_NativeTxSessionCancelRetainedV1
CancelRetained ==
    tx' = [tx EXCEPT !.cancelled = TRUE, !.slots = [i \in TxSlot |-> EmptyTx]]

=============================================================================
