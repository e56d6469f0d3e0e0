------------------------------ MODULE NativeRx ------------------------------
(***************************************************************************)
(* The receiving half of a native session, Worr_NativeRxSession* of        *)
(* src/common/net/native_session.c: slots in which messages are put        *)
(* together from fragments, the bounded history of what was committed, and *)
(* the identities of the snapshots that may come back.                     *)
(*                                                                         *)
(* One sequence number names one message, so a frame is its sequence       *)
(* number, its class and its fragment; the checks that a frame has the     *)
(* identity that its sequence number had before always succeed.  The order *)
(* of two snapshots is that of their sequence numbers (see NativeTx).      *)
(* What has been idle too long when the clock is read is any set of slots. *)
(***************************************************************************)
EXTENDS NativeSession, SequencesExt

CONSTANTS RxSlots,        \* the receiver's slot capacity
          Tombstones,     \* WORR_NATIVE_SESSION_SNAPSHOT_TOMBSTONE_CAPACITY
          FragmentCount   \* fragments of every message

ASSUME RxAssumption ==
    /\ RxSlots \in Nat \ {0}
    /\ Tombstones \in Nat \ {0, 1}
    /\ FragmentCount \in Nat \ {0}

VARIABLE rx

RxSlot == 1 .. RxSlots
Fragment == 1 .. FragmentCount
Frame == [epoch : SessionEpoch, seq : Sequence, snap : BOOLEAN,
          frag : Fragment]
Identity == [seq : Sequence, committed : BOOLEAN]

EmptyRx == [seq |-> 0, snap |-> FALSE, got |-> {}, retry |-> FALSE]
RxSlotState == [seq : 0 .. MaxSeq, snap : BOOLEAN, got : SUBSET Fragment,
                retry : BOOLEAN]
RxState == [epoch : SessionEpoch, cancelled : BOOLEAN,
            slots : [RxSlot -> RxSlotState],
            history : SUBSET Sequence, highest : 0 .. MaxSeq,
            newest : 0 .. MaxSeq, tombs : Seq(Identity)]

\* Worr_NativeRxSessionInitV1 for an epoch.
FreshRx(epoch) ==
    [epoch |-> epoch, cancelled |-> FALSE,
     slots |-> [i \in RxSlot |-> EmptyRx],
     history |-> {}, highest |-> 0, newest |-> 0, tombs |-> <<>>]

RxInit == rx = FreshRx(1)

Occupied(r) == {i \in RxSlot : r.slots[i].seq # 0}
Complete(slot) == slot.seq # 0 /\ slot.got = Fragment

-----------------------------------------------------------------------------
(***************************************************************************)
(* The snapshot identities, snapshot_tombstones.                           *)
(***************************************************************************)
RetryOf(seq) == [seq |-> seq, committed |-> FALSE]
CommittedAs(seq) == [seq |-> seq, committed |-> TRUE]

Known(tombs) == {tombs[k].seq : k \in DOMAIN tombs}

\* The identity that gives way when all are taken: the oldest that may come
\* back, never the committed one while there is another.
Evicted(tombs) ==
    LET retries == {k \in DOMAIN tombs : ~tombs[k].committed}
    IN  IF retries = {} THEN 1
        ELSE CHOOSE k \in retries : \A j \in retries : k <= j

\* snapshot_identity_store: the identity goes to the end.
Remember(tombs, identity) ==
    LET places == {k \in DOMAIN tombs : tombs[k].seq = identity.seq}
    IN  IF places # {}
        THEN Append(RemoveAt(tombs, CHOOSE k \in places : TRUE), identity)
        ELSE IF Len(tombs) < Tombstones
        THEN Append(tombs, identity)
        ELSE Append(RemoveAt(tombs, Evicted(tombs)), identity)

\* snapshot_identities_prune_committed
Pruned(tombs, seq) ==
    LET kept[k \in 0 .. Len(tombs)] ==
            IF k = 0 THEN <<>>
            ELSE IF tombs[k].seq >= seq THEN Append(kept[k - 1], tombs[k])
            ELSE kept[k - 1]
    IN  kept[Len(tombs)]

\* Snapshots in the slots of S, in the order of the slots, may come back.
RememberSlots(r, S) ==
    LET after[i \in 0 .. RxSlots] ==
            IF i = 0 THEN r.tombs
            ELSE IF i \in S /\ r.slots[i].snap
                 THEN Remember(after[i - 1], RetryOf(r.slots[i].seq))
                 ELSE after[i - 1]
    IN  after[RxSlots]

\* Slots are cleared; a snapshot leaves its identity behind.
Forget(r, S) ==
    [r EXCEPT !.slots = [i \in RxSlot |-> IF i \in S THEN EmptyRx ELSE @[i]],
              !.tombs = RememberSlots(r, S)]

-----------------------------------------------------------------------------
(***************************************************************************)
(* Worr_NativeRxSessionAcceptV1                                            *)
(***************************************************************************)
\* Mutant of OutOfWindow: the window is one message too wide.
OutOfWiderWindow(r, seq) == seq <= r.highest /\ r.highest - seq > Window

\* The history no longer covers the message.
OutOfWindow(r, seq) == seq <= r.highest /\ r.highest - seq >= Window

\* ALREADY_COMMITTED, with a repeat acknowledgement: the message is in the
\* history, or it is the snapshot committed last.
AlreadyCommitted(r, f) ==
    \/ f.seq \in r.history
    \/ f.snap /\ \E k \in DOMAIN r.tombs : r.tombs[k] = CommittedAs(f.seq)

\* snapshot_retry: this snapshot was here before, so it may be older than the
\* history reaches.
ComesBack(r, f) ==
    \/ f.snap /\ \E k \in DOMAIN r.tombs : r.tombs[k] = RetryOf(f.seq)
    \/ \E i \in RxSlot : r.slots[i].seq = f.seq /\ r.slots[i].retry

\* STALE_SNAPSHOT
StaleSnapshot(r, f) == f.snap /\ r.newest # 0 /\ f.seq <= r.newest

\* STALE_REPLAY
StaleReplay(r, f) == ~ComesBack(r, f) /\ OutOfWindow(r, f.seq)

Refused(r, f) ==
    AlreadyCommitted(r, f) \/ StaleSnapshot(r, f) \/ StaleReplay(r, f)

FreeRx(r) == RxSlot \ Occupied(r)
HoldersOf(r, seq) == {i \in RxSlot : r.slots[i].seq = seq}

\* Snapshots that a newer one pushes out when no slot is free.
Victims(r, f) ==
    IF f.snap /\ FreeRx(r) = {} /\ HoldersOf(r, f.seq) = {}
    THEN {i \in RxSlot : /\ r.slots[i].snap
                         /\ ~Complete(r.slots[i])
                         /\ r.slots[i].seq < f.seq}
    ELSE {}

\* The oldest of them is pushed out.
MakeRoom(r, f) ==
    LET victims == Victims(r, f)
    IN  Forget(r, {i \in victims :
                      \A j \in victims : r.slots[i].seq <= r.slots[j].seq})

\* The slot for a frame: the one of its message, or else the first free one.
\* There is none if the result is CAPACITY.
SlotsFor(r, f) ==
    IF HoldersOf(r, f.seq) # {} THEN HoldersOf(r, f.seq)
    ELSE {i \in FreeRx(r) : \A j \in FreeRx(r) : i <= j}

\* The fragment is kept.  A new slot notes that its snapshot came back.
Stored(r, f, i, comesBack) ==
    LET new == r.slots[i].seq = 0
    IN  [r EXCEPT
           !.slots[i] = [seq |-> f.seq, snap |-> f.snap,
                         got |-> @.got \cup {f.frag},
                         retry |-> @.retry \/ (new /\ comesBack)],
           !.tombs = IF new /\ comesBack THEN Remember(@, RetryOf(f.seq))
                     ELSE @]

\* The last fragment arrived but the message does not have its checksum:
\* everything received of it is dropped.
Spoiled(r, f, i) ==
    [r EXCEPT !.slots[i] = EmptyRx,
              !.tombs = IF f.snap THEN Remember(@, RetryOf(f.seq)) ELSE @]

\* Mutant of SameEpoch: the frame is taken for the epoch of the receiver.
AnyEpoch(f) == TRUE

\* WRONG_EPOCH otherwise
SameEpoch(f) == f.epoch = rx.epoch

\* Accept of frame f when the slots of `idle' have timed out (rx_expire_internal).
Accept(f, idle) ==
    LET r == Forget(rx, idle)
        room == MakeRoom(r, f)
    IN  /\ ~rx.cancelled
        /\ SameEpoch(f)
        /\ idle \subseteq Occupied(rx)
        /\ IF Refused(r, f) \/ SlotsFor(room, f) = {}
           THEN rx' = r
           ELSE \E i \in SlotsFor(room, f) :
                   \/ rx' = Stored(room, f, i, ComesBack(r, f))
                   \/ /\ f.frag \notin room.slots[i].got
                      /\ room.slots[i].got \cup {f.frag} = Fragment
                      /\ rx' = Spoiled(room, f, i)

\* Worr_NativeRxSessionExpireV1
Expire(idle) ==
    /\ ~rx.cancelled
    /\ idle # {} /\ idle \subseteq Occupied(rx)
    /\ rx' = Forget(rx, idle)

\* Worr_NativeRxSessionDiscardV1: the message is refused by its consumer.
Discard(i) ==
    /\ ~rx.cancelled
    /\ i \in Occupied(rx)
    /\ rx' = Forget(rx, {i})

-----------------------------------------------------------------------------
(***************************************************************************)
(* Worr_NativeRxSessionCommitV1                                            *)
(***************************************************************************)
\* rx_history_insert: the window moves and what leaves it is forgotten.
Inserted(r, seq) ==
    LET highest == IF seq > r.highest THEN seq ELSE r.highest
    IN  [r EXCEPT !.highest = highest,
                  !.history = {s \in @ \cup {seq} : highest - s < Window}]

\* A committed snapshot replaces all older identities.
SnapshotCommitted(r, seq) ==
    [r EXCEPT !.newest = seq,
              !.tombs = Pruned(Remember(@, CommittedAs(seq)), seq)]

\* Mutant of Unreachable: slots behind the window are kept.
NothingUnreachable(r, i, snap) ==
    {j \in Occupied(r) \ {i} :
        snap /\ r.slots[j].snap /\ r.slots[j].seq <= r.newest}

Superseded(r, i, snap) ==
    {j \in Occupied(r) \ {i} :
        snap /\ r.slots[j].snap /\ r.slots[j].seq <= r.newest}

\* Slots that the commit makes useless: older snapshots, and what is now
\* behind the window and did not come back.
Unreachable(r, i, snap) ==
    Superseded(r, i, snap) \cup
    {j \in Occupied(r) \ {i} :
        OutOfWindow(r, r.slots[j].seq) /\ ~(r.slots[j].snap /\ r.slots[j].retry)}

\* Commit does not answer INVALID_STATE or STALE_SNAPSHOT.
MayCommit(r, i) ==
    LET slot == r.slots[i]
    IN  /\ Complete(slot)
        /\ slot.seq \notin r.history
        /\ slot.snap \/ ~OutOfWindow(r, slot.seq)
        /\ slot.snap => r.newest = 0 \/ slot.seq > r.newest

Committed(r, i) ==
    LET slot == r.slots[i]
        seen == IF OutOfWindow(r, slot.seq) THEN r ELSE Inserted(r, slot.seq)
        known == IF slot.snap THEN SnapshotCommitted(seen, slot.seq) ELSE seen
        useless == Unreachable(known, i, slot.snap)
        back == useless \ Superseded(known, i, slot.snap)
    IN  [known EXCEPT
           !.slots = [j \in RxSlot |-> IF j \in useless \cup {i} THEN EmptyRx
                                       ELSE @[j]],
           !.tombs = RememberSlots(known, back)]

Commit(i) ==
    /\ ~rx.cancelled
    /\ MayCommit(rx, i)
    /\ rx' = Committed(rx, i)

\* Worr_NativeRxSessionCancelPendingV1
CancelPending ==
    rx' = [rx EXCEPT !.cancelled = TRUE, !.slots = [i \in RxSlot |-> EmptyRx]]

\* rx_authority_find: what the receiver can still prove it has committed.
Authority(r) ==
    r.history \cup {r.tombs[k].seq :
                       k \in {j \in DOMAIN r.tombs : r.tombs[j].committed}}

-----------------------------------------------------------------------------
(***************************************************************************)
(* Worr_NativeRxSessionValidateV1, which every operation calls first.  A   *)
(* session that failed it would refuse everything from then on.            *)
(***************************************************************************)
HistoryValid(r) ==
    /\ (r.highest = 0) = (r.history = {})
    /\ r.history # {} => r.highest \in r.history
    /\ \A s \in r.history : s <= r.highest /\ r.highest - s < Window

TombstonesValid(r) ==
    /\ Len(r.tombs) <= Tombstones
    /\ \A k \in DOMAIN r.tombs :
          /\ r.newest # 0 => r.tombs[k].seq >= r.newest
          /\ r.tombs[k].committed = (r.tombs[k].seq = r.newest)
          /\ r.tombs[k].seq \in r.history => r.tombs[k].committed
          /\ \A j \in DOMAIN r.tombs : r.tombs[j].seq = r.tombs[k].seq => j = k
    /\ r.newest # 0 => r.newest \in Known(r.tombs)

SlotsValid(r) ==
    \A i \in Occupied(r) :
        LET slot == r.slots[i]
        IN  /\ slot.retry => slot.snap
            /\ slot.seq \in Known(r.tombs) =>
                  slot.snap /\ slot.retry /\ slot.seq # r.newest
            /\ slot.snap /\ r.newest # 0 => slot.seq > r.newest
            /\ OutOfWindow(r, slot.seq) => slot.retry
            /\ slot.seq \notin r.history
            /\ \A j \in Occupied(r) : r.slots[j].seq = slot.seq => j = i

=============================================================================
