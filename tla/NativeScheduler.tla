--------------------------- MODULE NativeScheduler ---------------------------
(***************************************************************************)
(* Which retained message a native sender sends next: tx_find_due_index    *)
(* and its priority aging, src/common/net/native_session.c.  A message     *)
(* waits in dispatches: for every Quantum of them its priority improves by *)
(* one, so that urgent messages cannot hold back the others for ever.      *)
(*                                                                         *)
(* The clock only says which message that was sent before is due again.    *)
(* A resend interval has room for Patience dispatches at the most; without *)
(* such a bound the rebase of the dispatch counter may be impossible.      *)
(***************************************************************************)
EXTENDS Naturals, FiniteSets

CONSTANTS Slots,        \* slot capacity
          MaxPriority,  \* WORR_NATIVE_ENVELOPE_MAX_PRIORITY, 0 is urgent
          Quantum,      \* WORR_NATIVE_ENVELOPE_AGING_QUANTUM
          MaxDispatch,  \* UINT64_MAX, for dispatch_count
          Patience,     \* see above
          MaxSeq        \* bound on the messages of a run

ASSUME SchedulerAssumption ==
    /\ {Slots, Quantum, Patience, MaxSeq} \subseteq Nat \ {0}
    /\ MaxPriority \in Nat
    /\ MaxDispatch \in Nat
    /\ MaxDispatch > Patience + MaxPriority * Quantum + Slots

VARIABLES slots,    \* the fields of worr_native_tx_slot_v1 that order messages
          count,    \* dispatch_count
          nextSeq,  \* next_message_sequence
          due,      \* slots whose message may be sent now
          chosen,   \* the slot of the send ticket, or 0
          passed    \* how often another message was sent while this was due

vars == <<slots, count, nextSeq, due, chosen, passed>>

Slot == 1 .. Slots
Priority == 0 .. MaxPriority
Empty == [seq |-> 0, prio |-> 0, enq |-> 0]
Occupied == {i \in Slot : slots[i].seq # 0}

Init ==
    /\ slots = [i \in Slot |-> Empty]
    /\ count = 0 /\ nextSeq = 1
    /\ due = {} /\ chosen = 0
    /\ passed = [i \in Slot |-> 0]

-----------------------------------------------------------------------------
Waited(i) == count - slots[i].enq

\* Mutant of EffectivePriority: priorities do not improve.
FixedPriority(i) == slots[i].prio

\* tx_effective_priority
EffectivePriority(i) ==
    LET promotion == Waited(i) \div Quantum
    IN  IF promotion >= slots[i].prio THEN 0 ELSE slots[i].prio - promotion

\* The order of tx_find_due_index.
Before(i, j) ==
    LET pi == EffectivePriority(i)
        pj == EffectivePriority(j)
    IN  \/ pi < pj
        \/ pi = pj /\ slots[i].enq < slots[j].enq
        \/ pi = pj /\ slots[i].enq = slots[j].enq /\ slots[i].seq < slots[j].seq

\* Enqueue: the message is due at once.
Enqueue(i, priority) ==
    /\ i \notin Occupied
    /\ nextSeq <= MaxSeq
    /\ slots' = [slots EXCEPT ![i] =
                    [seq |-> nextSeq, prio |-> priority, enq |-> count]]
    /\ nextSeq' = nextSeq + 1
    /\ due' = due \cup {i}
    /\ passed' = [passed EXCEPT ![i] = 0]
    /\ UNCHANGED <<count, chosen>>

\* The resend interval of a message is over.
BecomeDue(i) ==
    /\ i \in Occupied \ due
    /\ due' = due \cup {i}
    /\ passed' = [passed EXCEPT ![i] = 0]
    /\ UNCHANGED <<slots, count, nextSeq, chosen>>

\* PrepareDue: the ticket of the best message.
PrepareDue ==
    /\ chosen = 0
    /\ \A i \in Occupied \ due : Waited(i) < Patience
    /\ \E i \in due :
          /\ \A j \in due \ {i} : Before(i, j)
          /\ chosen' = i
    /\ UNCHANGED <<slots, count, nextSeq, due, passed>>

\* tx_rebase_dispatch_if_possible: how far the counters go back.
Rebase ==
    LET oldest == CHOOSE i \in Occupied :
                     \A j \in Occupied : slots[i].enq <= slots[j].enq
    IN  IF count < MaxDispatch THEN 0 ELSE slots[oldest].enq

\* ConfirmPrepared: tx_selection_attempt_begin and tx_record_selected.
ConfirmPrepared ==
    /\ chosen # 0
    /\ LET now == count - Rebase
           after == IF now = MaxDispatch THEN now ELSE now + 1
       IN  /\ count' = after
           /\ slots' = [i \in Slot |->
                 IF i = chosen THEN [slots[i] EXCEPT !.enq = after]
                 ELSE IF i \in Occupied THEN [slots[i] EXCEPT !.enq = @ - Rebase]
                 ELSE slots[i]]
    /\ due' = due \ {chosen}
    /\ passed' = [i \in Slot |-> IF i \in due \ {chosen} THEN passed[i] + 1
                                 ELSE 0]
    /\ chosen' = 0
    /\ UNCHANGED nextSeq

\* ApplyAck, or a snapshot that is replaced.  The burst of a message that
\* went away is retired without a dispatch.
Release(i) ==
    /\ i \in Occupied
    /\ slots' = [slots EXCEPT ![i] = Empty]
    /\ due' = due \ {i}
    /\ passed' = [passed EXCEPT ![i] = 0]
    /\ chosen' = IF chosen = i THEN 0 ELSE chosen
    /\ UNCHANGED <<count, nextSeq>>

Next ==
    \/ \E i \in Slot, priority \in Priority : Enqueue(i, priority)
    \/ \E i \in Slot : BecomeDue(i)
    \/ PrepareDue
    \/ ConfirmPrepared
    \/ \E i \in Slot : Release(i)

Spec == Init /\ [][Next]_vars

-----------------------------------------------------------------------------
(***************************************************************************)
(* No message starves: one that is due is passed over by the dispatches    *)
(* that it takes to become urgent, and then once by each other slot, whose *)
(* messages may be as old.  This holds across a rebase of the counters.    *)
(***************************************************************************)
NoStarvation ==
    \A i \in due : passed[i] < MaxPriority * Quantum + Slots

(***************************************************************************)
(* inc/common/net/native_session.h:270 says that the aging quantum "bounds *)
(* a priority-7 record's starvation to 56 intervening dispatches", seven   *)
(* times the quantum of eight.  Messages that aged together still wait for *)
(* each other, so this does not hold.                                      *)
(***************************************************************************)
StarvationAsDocumented ==
    \A i \in due : passed[i] <= MaxPriority * Quantum

=============================================================================
