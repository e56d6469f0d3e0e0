----------------------- MODULE NativeSchedulerProofs -----------------------
(***************************************************************************)
(* A bound on the wait of a message for every number of slots, priorities, *)
(* every quantum and every end of the dispatch counter, across its rebase. *)
(***************************************************************************)
EXTENDS NativeScheduler, NumberLemmas, FiniteSetTheorems, TLAPS

\* The dispatches after which every message is urgent.
Aged == MaxPriority * Quantum

\* The messages that are as old as that of slot i, or older: those that are
\* sent before it when all are urgent.
Ahead(i) ==
    {j \in Occupied :
        \/ slots[j].enq < slots[i].enq
        \/ slots[j].enq = slots[i].enq /\ slots[j].seq < slots[i].seq}

SlotState == [seq : Nat, prio : Priority, enq : Nat]

TypeInv ==
    /\ slots \in [Slot -> SlotState]
    /\ count \in 0 .. MaxDispatch
    /\ nextSeq \in Nat \ {0}
    /\ due \subseteq Occupied
    /\ chosen \in due \cup {0}
    /\ passed \in [Slot -> Nat]

\* What is in a slot came before now.
Dated == \A i \in Occupied : slots[i].enq <= count /\ slots[i].seq < nextSeq

\* A message waits for its turn from when it is due, and not much longer.
WaitInv ==
    /\ \A i \in due : passed[i] <= Waited(i) /\ Waited(i) <= Patience + passed[i]
    /\ \A i \in Occupied \ due : /\ Waited(i) <= Patience
                                 /\ chosen # 0 => Waited(i) < Patience

\* Who was passed over has fewer messages ahead for it.
TurnInv == \A i \in due : passed[i] + Cardinality(Ahead(i)) < Aged + Slots

\* The message of the ticket comes before all that were due when it was made.
TicketInv ==
    chosen # 0 => \A i \in due \ {chosen} : passed[i] = 0 \/ Before(chosen, i)

IInv == TypeInv /\ Dated /\ WaitInv /\ TurnInv /\ TicketInv

-----------------------------------------------------------------------------
(***************************************************************************)
(* Numbers, slots and their order.                                         *)
(***************************************************************************)
LEMMA Bounds ==
    /\ Slots \in Nat \ {0} /\ Quantum \in Nat \ {0} /\ Patience \in Nat \ {0}
    /\ MaxSeq \in Nat \ {0} /\ MaxPriority \in Nat /\ MaxDispatch \in Nat
    /\ Aged \in Nat /\ MaxDispatch > Patience + Aged + Slots
<1>1. MaxPriority * Quantum \in Nat
  BY SchedulerAssumption
<1> QED
  BY <1>1, SchedulerAssumption DEF Aged

\* A message that waited for so many dispatches improved by as many quanta.
LEMMA Promoted ==
    ASSUME NEW w \in Nat, w >= Aged, NEW p \in Priority
    PROVE  w \div Quantum >= p
<1>1. w \div Quantum \in Nat /\ w < (w \div Quantum + 1) * Quantum
  BY Bounds
<1> DEFINE d == w \div Quantum
<1>2. ASSUME d < p PROVE FALSE
  <2>1. d + 1 <= MaxPriority /\ d \in Nat
    BY <1>1, <1>2, Bounds DEF Priority
  <2> HIDE DEF d
  <2>2. (d + 1) * Quantum <= MaxPriority * Quantum
    BY <2>1, Bounds
  <2>3. (d + 1) * Quantum \in Nat
    BY <2>1, Bounds
  <2> QED
    BY <1>1, <2>2, <2>3, Bounds DEF d, Aged
<1> QED
  BY <1>1, <1>2, Bounds DEF Priority

LEMMA SlotFacts ==
    ASSUME TypeInv, NEW i \in Slot
    PROVE  /\ slots[i].seq \in Nat /\ slots[i].prio \in Priority
           /\ slots[i].enq \in Nat
BY DEF TypeInv, SlotState

\* An urgent message is sent after those alone that are as old.
LEMMA UrgentBehind ==
    ASSUME TypeInv, Dated, NEW i \in Occupied, NEW j \in Occupied,
           Waited(i) >= Aged, Before(j, i)
    PROVE  j \in Ahead(i)
<1>1. i \in Slot /\ j \in Slot
  BY DEF Occupied
<1>2. count \in Nat /\ slots[i].enq \in Nat /\ slots[j].enq \in Nat
      /\ slots[i].prio \in Nat /\ slots[j].prio \in Nat
      /\ slots[i].enq <= count /\ slots[j].enq <= count
  BY <1>1, SlotFacts, Bounds DEF TypeInv, Dated, Priority
<1>3. Waited(i) \in Nat /\ Waited(j) \in Nat
  BY <1>2 DEF Waited
<1>4. EffectivePriority(i) = 0
  BY <1>1, <1>3, Promoted, SlotFacts DEF EffectivePriority
<1>5. EffectivePriority(j) \in Nat
  <2>1. Waited(j) \div Quantum \in Nat
    BY <1>3, Bounds
  <2> QED
    BY <1>2, <2>1 DEF EffectivePriority
<1>6. ~(EffectivePriority(j) < 0)
  BY <1>5
<1> QED
  BY <1>4, <1>6 DEF Before, Ahead

\* Never more than the other slots are ahead.
LEMMA AheadFinite ==
    ASSUME TypeInv, NEW i \in Slot
    PROVE  /\ IsFiniteSet(Ahead(i)) /\ Cardinality(Ahead(i)) \in Nat
           /\ i \notin Ahead(i) /\ Ahead(i) \subseteq Slot
<1>1. i \notin Ahead(i) /\ Ahead(i) \subseteq Slot
  BY SlotFacts DEF Ahead, Occupied
<1>2. IsFiniteSet(Slot)
  BY FS_Interval, Bounds DEF Slot
<1>3. IsFiniteSet(Ahead(i))
  BY <1>1, <1>2, FS_Subset
<1> QED
  BY <1>1, <1>3, FS_CardinalityType

LEMMA SlotCount == IsFiniteSet(Slot) /\ Cardinality(Slot) = Slots
BY FS_Interval, Bounds DEF Slot

\* A set that leaves one slot out, and one that leaves two out.
LEMMA WithoutOne ==
    ASSUME NEW i \in Slot, NEW S, S \subseteq Slot \ {i}
    PROVE  IsFiniteSet(S) /\ Cardinality(S) \in Nat /\ Cardinality(S) <= Slots - 1
<1>1. IsFiniteSet(Slot \ {i}) /\ Cardinality(Slot \ {i}) = Slots - 1
  BY SlotCount, FS_RemoveElement
<1>2. IsFiniteSet(S) /\ Cardinality(S) <= Cardinality(Slot \ {i})
  BY <1>1, FS_Subset
<1> QED
  BY <1>1, <1>2, FS_CardinalityType

LEMMA WithoutTwo ==
    ASSUME NEW i \in Slot, NEW c \in Slot, i # c,
           NEW S, S \subseteq Slot \ {i, c}
    PROVE  IsFiniteSet(S) /\ Cardinality(S) \in Nat /\ Cardinality(S) <= Slots - 2
<1> DEFINE T == Slot \ {i}
<1>1. IsFiniteSet(T) /\ Cardinality(T) = Slots - 1
  BY SlotCount, FS_RemoveElement
<1>2. c \in T /\ S \subseteq T \ {c}
  OBVIOUS
<1> HIDE DEF T
<1>3. IsFiniteSet(T \ {c}) /\ Cardinality(T \ {c}) = Cardinality(T) - 1
  BY <1>1, <1>2, FS_RemoveElement
<1>4. IsFiniteSet(S) /\ Cardinality(S) <= Cardinality(T \ {c})
  BY <1>2, <1>3, FS_Subset
<1>5. Cardinality(S) \in Nat
  BY <1>4, FS_CardinalityType
<1> QED
  BY ONLY <1>1, <1>3, <1>4, <1>5, Bounds

-----------------------------------------------------------------------------
(***************************************************************************)
(* The steps that dispatch nothing.                                        *)
(***************************************************************************)
LEMMA EnqueueStep ==
    ASSUME IInv, NEW i \in Slot, NEW priority \in Priority, Enqueue(i, priority)
    PROVE  IInv'
<1>1. /\ i \notin Occupied /\ due' = due \cup {i}
      /\ slots' = [slots EXCEPT ![i] =
                     [seq |-> nextSeq, prio |-> priority, enq |-> count]]
      /\ nextSeq' = nextSeq + 1 /\ passed' = [passed EXCEPT ![i] = 0]
      /\ UNCHANGED <<count, chosen>>
  BY DEF Enqueue
<1>2. /\ TypeInv /\ count \in Nat /\ nextSeq \in Nat \ {0}
      /\ due \subseteq Occupied /\ Occupied \subseteq Slot
  BY Bounds DEF IInv, TypeInv, Occupied
<1>3. /\ slots'[i].seq = nextSeq /\ slots'[i].enq = count
      /\ \A j \in Slot \ {i} : slots'[j] = slots[j]
      /\ passed'[i] = 0 /\ \A j \in Slot \ {i} : passed'[j] = passed[j]
  BY <1>1, <1>2 DEF TypeInv
<1>4. Occupied' = Occupied \cup {i}
  BY <1>2, <1>3 DEF Occupied
<1>5. TypeInv'
  <2>1. [seq |-> nextSeq, prio |-> priority, enq |-> count] \in SlotState
    BY <1>2 DEF SlotState
  <2>2. slots' \in [Slot -> SlotState] /\ passed' \in [Slot -> Nat]
    BY <1>1, <1>2, <2>1 DEF TypeInv
  <2> QED
    BY <1>1, <1>2, <1>4, <2>2 DEF TypeInv
<1>6. Dated'
  BY <1>1, <1>2, <1>3, <1>4, SlotFacts DEF IInv, Dated
<1>7. \A j \in Occupied : Waited(j)' = Waited(j)
  BY <1>1, <1>2, <1>3 DEF Waited
<1>8. WaitInv'
  <2>1. Waited(i)' = 0
    BY <1>1, <1>2, <1>3 DEF Waited
  <2>2. (Occupied \ due)' = Occupied \ due
    BY <1>1, <1>4
  <2>3. \A j \in due : passed'[j] = passed[j]
    BY <1>1, <1>2, <1>3
  <2> QED
    BY <1>1, <1>2, <1>3, <1>7, <2>1, <2>2, <2>3, Bounds DEF IInv, WaitInv
<1>9. TurnInv'
  <2>1. ASSUME NEW j \in due PROVE Ahead(j)' = Ahead(j)
    <3>1. j \in Occupied /\ j \in Slot /\ j # i
      BY <1>1, <1>2, <2>1
    <3>2. slots[j].enq <= count /\ slots[j].seq < nextSeq
          /\ slots[j].enq \in Nat /\ slots[j].seq \in Nat
      BY <1>2, <3>1, SlotFacts DEF IInv, Dated
    <3>3. i \notin Ahead(j)'
      BY <1>2, <1>3, <3>1, <3>2 DEF Ahead
    <3>4. slots'[j] = slots[j] /\ \A k \in Occupied : slots'[k] = slots[k]
      BY <1>1, <1>2, <1>3, <3>1
    <3>5. \A k : k \in Ahead(j)' => k \in Occupied
      BY <1>4, <3>3 DEF Ahead
    <3>6. \A k \in Occupied : k \in Ahead(j)' <=> k \in Ahead(j)
      BY <1>4, <3>4 DEF Ahead
    <3>7. \A k : k \in Ahead(j) => k \in Occupied
      BY DEF Ahead
    <3> QED
      BY ONLY <3>5, <3>6, <3>7
  <2>2. Cardinality(Ahead(i)') <= Slots - 1 /\ Cardinality(Ahead(i)') \in Nat
    <3>1. Ahead(i)' \subseteq Slot \ {i}
      BY <1>2, <1>3, <1>4 DEF Ahead
    <3> QED
      BY <3>1, WithoutOne
  <2>3. passed'[i] + Cardinality(Ahead(i)') < Aged + Slots
    BY <1>3, <2>2, Bounds
  <2>4. \A j \in due : passed'[j] + Cardinality(Ahead(j)') < Aged + Slots
    BY <1>1, <1>2, <1>3, <2>1 DEF IInv, TurnInv
  <2> QED
    BY <1>1, <2>3, <2>4 DEF TurnInv
<1>10. TicketInv'
  <2>1. ASSUME NEW c \in Occupied, NEW j \in Occupied, Before(c, j)
        PROVE  Before(c, j)'
    <3>1. slots'[c] = slots[c] /\ slots'[j] = slots[j] /\ count' = count
      BY <1>1, <1>2, <1>3, <2>1
    <3> QED
      BY <2>1, <3>1 DEF Before, EffectivePriority, Waited
  <2>2. ASSUME NEW c, c = chosen, c # 0, NEW j \in due' \ {c}
        PROVE  passed'[j] = 0 \/ Before(c, j)'
    <3>1. CASE j = i
      BY <1>3, <3>1
    <3>2. CASE j # i
      <4>1. j \in due \ {c} /\ j \in Slot \ {i} /\ c \in Occupied /\ j \in Occupied
        BY <1>1, <1>2, <2>2, <3>2 DEF TypeInv
      <4>2. passed[j] = 0 \/ Before(c, j)
        BY <2>2, <4>1 DEF IInv, TicketInv
      <4> QED
        BY <1>3, <2>1, <4>1, <4>2
    <3> QED
      BY <3>1, <3>2
  <2> QED
    BY <1>1, <2>2 DEF TicketInv, Before, EffectivePriority, Waited
<1> QED
  BY <1>5, <1>6, <1>8, <1>9, <1>10 DEF IInv

LEMMA BecomeDueStep ==
    ASSUME IInv, NEW i \in Slot, BecomeDue(i)
    PROVE  IInv'
<1>1. /\ i \in Occupied \ due /\ due' = due \cup {i}
      /\ passed' = [passed EXCEPT ![i] = 0]
      /\ UNCHANGED <<slots, count, nextSeq, chosen>>
  BY DEF BecomeDue
<1>2. /\ TypeInv /\ due \subseteq Occupied /\ Occupied \subseteq Slot
      /\ passed'[i] = 0 /\ \A j \in Slot \ {i} : passed'[j] = passed[j]
  BY <1>1 DEF IInv, TypeInv, Occupied
<1>3. Occupied' = Occupied /\ \A j : Waited(j)' = Waited(j)
  BY <1>1 DEF Occupied, Waited
<1>4. \A j : Ahead(j)' = Ahead(j)
  BY <1>1, <1>3 DEF Ahead
<1>5. TypeInv' /\ Dated'
  <2>1. passed' \in [Slot -> Nat]
    BY <1>1, <1>2 DEF TypeInv
  <2> QED
    BY <1>1, <1>2, <1>3, <2>1 DEF IInv, TypeInv, Dated
<1>6. WaitInv'
  <2>1. Waited(i) \in Nat /\ Waited(i) <= Patience
    <3>1. /\ count \in Nat /\ slots[i].enq \in Nat /\ slots[i].enq <= count
      BY <1>1, <1>2, SlotFacts, Bounds DEF IInv, TypeInv, Dated
    <3> QED
      BY <1>1, <3>1 DEF Waited, IInv, WaitInv
  <2>2. \A j \in due : j \in Slot \ {i}
    BY <1>1, <1>2
  <2> QED
    BY <1>1, <1>2, <1>3, <2>1, <2>2, Bounds DEF IInv, WaitInv
<1>7. TurnInv'
  <2>1. Cardinality(Ahead(i)) <= Slots - 1 /\ Cardinality(Ahead(i)) \in Nat
    <3>1. Ahead(i) \subseteq Slot \ {i}
      BY <1>2, AheadFinite
    <3> QED
      BY <3>1, WithoutOne
  <2>2. passed'[i] + Cardinality(Ahead(i)) < Aged + Slots
    BY <1>2, <2>1, Bounds
  <2>3. \A j \in due : passed'[j] + Cardinality(Ahead(j)) < Aged + Slots
    BY <1>1, <1>2 DEF IInv, TurnInv
  <2> QED
    BY <1>1, <1>4, <2>2, <2>3 DEF TurnInv
<1>8. TicketInv'
  <2>1. ASSUME NEW c, c = chosen, c # 0, NEW j \in due' \ {c}
        PROVE  passed'[j] = 0 \/ Before(c, j)
    <3>1. CASE j = i
      BY <1>2, <3>1
    <3>2. CASE j # i
      <4>1. j \in due \ {c} /\ j \in Slot \ {i}
        BY <1>1, <1>2, <2>1, <3>2
      <4> QED
        BY <1>2, <2>1, <4>1 DEF IInv, TicketInv
    <3> QED
      BY <3>1, <3>2
  <2> QED
    BY <1>1, <2>1 DEF TicketInv, Before, EffectivePriority, Waited
<1> QED
  BY <1>5, <1>6, <1>7, <1>8 DEF IInv

LEMMA PrepareStep ==
    ASSUME IInv, PrepareDue
    PROVE  IInv'
<1>1. PICK i \in due : (\A j \in due \ {i} : Before(i, j)) /\ chosen' = i
  BY DEF PrepareDue
<1>2. /\ \A j \in Occupied \ due : Waited(j) < Patience
      /\ UNCHANGED <<slots, count, nextSeq, due, passed>>
  BY DEF PrepareDue
<1>3. Occupied' = Occupied /\ \A j : Waited(j)' = Waited(j)
  BY <1>2 DEF Occupied, Waited
<1>4. \A j : Ahead(j)' = Ahead(j)
  BY <1>2, <1>3 DEF Ahead
<1>5. TypeInv' /\ Dated'
  BY <1>1, <1>2, <1>3 DEF IInv, TypeInv, Dated
<1>6. WaitInv'
  BY <1>2, <1>3 DEF IInv, WaitInv
<1>7. TurnInv'
  BY <1>2, <1>4 DEF IInv, TurnInv
<1>8. TicketInv'
  BY <1>1, <1>2 DEF TicketInv, Before, EffectivePriority, Waited
<1> QED
  BY <1>5, <1>6, <1>7, <1>8 DEF IInv

LEMMA ReleaseStep ==
    ASSUME IInv, NEW i \in Slot, Release(i)
    PROVE  IInv'
<1>1. /\ i \in Occupied /\ due' = due \ {i}
      /\ slots' = [slots EXCEPT ![i] = Empty]
      /\ passed' = [passed EXCEPT ![i] = 0]
      /\ chosen' = IF chosen = i THEN 0 ELSE chosen
      /\ UNCHANGED <<count, nextSeq>>
  BY DEF Release
<1>2. /\ TypeInv /\ due \subseteq Occupied /\ Occupied \subseteq Slot
      /\ slots'[i].seq = 0 /\ \A j \in Slot \ {i} : slots'[j] = slots[j]
      /\ passed'[i] = 0 /\ \A j \in Slot \ {i} : passed'[j] = passed[j]
  BY <1>1 DEF IInv, TypeInv, Occupied, Empty
<1>3. Occupied' = Occupied \ {i}
  BY <1>2 DEF Occupied
<1>4. \A j \in Slot \ {i} : Waited(j)' = Waited(j)
  BY <1>1, <1>2 DEF Waited
<1>5. TypeInv'
  <2>1. Empty \in SlotState
    BY Bounds DEF Empty, SlotState, Priority
  <2>2. slots' \in [Slot -> SlotState] /\ passed' \in [Slot -> Nat]
    BY <1>1, <1>2, <2>1 DEF TypeInv
  <2> QED
    BY <1>1, <1>2, <1>3, <2>2 DEF TypeInv
<1>6. Dated'
  BY <1>1, <1>2, <1>3 DEF IInv, Dated
<1>7. WaitInv'
  <2>1. \A j \in due' : j \in due /\ j \in Slot \ {i}
    BY <1>1, <1>2
  <2>2. \A j \in Occupied' \ due' : j \in Occupied \ due /\ j \in Slot \ {i}
    BY <1>1, <1>2, <1>3
  <2>3. chosen' # 0 => chosen # 0
    BY <1>1
  <2> QED
    BY <1>2, <1>4, <2>1, <2>2, <2>3 DEF IInv, WaitInv
<1>8. TurnInv'
  <2>1. ASSUME NEW j \in due'
        PROVE  passed'[j] + Cardinality(Ahead(j)') < Aged + Slots
    <3>1. j \in due /\ j \in Slot \ {i}
      BY <1>1, <1>2
    <3>2. Ahead(j)' \subseteq Ahead(j)
      <4>1. slots'[j] = slots[j]
            /\ \A k \in Occupied' : k \in Occupied /\ slots'[k] = slots[k]
        BY <1>2, <1>3, <3>1
      <4> QED
        BY <4>1 DEF Ahead
    <3>3. IsFiniteSet(Ahead(j)) /\ Cardinality(Ahead(j)) \in Nat
      BY <1>2, <3>1, AheadFinite
    <3>4. IsFiniteSet(Ahead(j)') /\ Cardinality(Ahead(j)') <= Cardinality(Ahead(j))
      BY <3>2, <3>3, FS_Subset
    <3>5. Cardinality(Ahead(j)') \in Nat
      BY <3>4, FS_CardinalityType
    <3>6. passed[j] + Cardinality(Ahead(j)) < Aged + Slots /\ passed[j] \in Nat
          /\ passed'[j] = passed[j]
      BY <1>2, <3>1 DEF IInv, TurnInv, TypeInv
    <3> QED
      BY ONLY <3>3, <3>4, <3>5, <3>6, Bounds
  <2> QED
    BY <2>1 DEF TurnInv
<1>9. TicketInv'
  <2>1. ASSUME NEW c, c = chosen, c # 0, c # i, NEW j \in due' \ {c}
        PROVE  passed'[j] = 0 \/ Before(c, j)'
    <3>1. c \in Slot \ {i} /\ j \in due \ {c} /\ j \in Slot \ {i}
      BY <1>1, <1>2, <2>1 DEF TypeInv
    <3>2. passed[j] = 0 \/ Before(c, j)
      BY <2>1, <3>1 DEF IInv, TicketInv
    <3>3. slots'[c] = slots[c] /\ slots'[j] = slots[j] /\ passed'[j] = passed[j]
          /\ count' = count
      BY <1>1, <1>2, <3>1
    <3> QED
      BY <3>2, <3>3 DEF Before, EffectivePriority, Waited
  <2>2. chosen' # 0 => chosen' = chosen /\ chosen # i
    BY <1>1
  <2> QED
    BY <2>1, <2>2 DEF TicketInv, Before, EffectivePriority, Waited
<1> QED
  BY <1>5, <1>6, <1>7, <1>8, <1>9 DEF IInv

-----------------------------------------------------------------------------
(***************************************************************************)
(* A dispatch.  The counter never stays where it is: before it ends, the   *)
(* oldest message is not so old that the counters cannot go back.          *)
(***************************************************************************)

\* No message waited for more than its turn takes.
LEMMA NoLongWait ==
    ASSUME IInv, NEW i \in Occupied
    PROVE  Waited(i) \in Nat /\ Waited(i) < MaxDispatch
<1>1. TypeInv /\ i \in Slot /\ count \in Nat
  BY Bounds DEF IInv, TypeInv, Occupied
<1>2. Waited(i) \in Nat
  BY <1>1, SlotFacts DEF Waited, IInv, Dated
<1>3. CASE i \in due
  <2>1. Cardinality(Ahead(i)) \in Nat /\ passed[i] \in Nat
    BY <1>1, AheadFinite DEF TypeInv
  <2>2. passed[i] + Cardinality(Ahead(i)) < Aged + Slots
        /\ Waited(i) <= Patience + passed[i]
    BY <1>3 DEF IInv, TurnInv, WaitInv
  <2> QED
    BY ONLY <1>2, <2>1, <2>2, Bounds
<1>4. CASE i \notin due
  <2>1. Waited(i) <= Patience
    BY <1>4 DEF IInv, WaitInv
  <2> QED
    BY ONLY <1>2, <2>1, Bounds
<1> QED
  BY <1>3, <1>4

LEMMA RebaseIs ==
    ASSUME IInv, chosen # 0
    PROVE  /\ Rebase \in Nat /\ \A i \in Occupied : Rebase <= slots[i].enq
           /\ Rebase <= count /\ count - Rebase < MaxDispatch
<1>1. /\ TypeInv /\ chosen \in Occupied /\ count \in 0 .. MaxDispatch
      /\ \A i \in Occupied : slots[i].enq \in Nat /\ slots[i].enq <= count
  <2>1. TypeInv /\ Dated /\ Occupied \subseteq Slot
    BY DEF IInv, Occupied
  <2> QED
    BY <2>1, SlotFacts DEF TypeInv, Dated
<1>2. CASE count < MaxDispatch
  BY <1>1, <1>2 DEF Rebase
<1>3. CASE ~(count < MaxDispatch)
  <2> DEFINE E == {slots[i].enq : i \in Occupied}
             oldest == CHOOSE i \in Occupied :
                          \A j \in Occupied : slots[i].enq <= slots[j].enq
  <2>1. \E i \in Occupied : \A j \in Occupied : slots[i].enq <= slots[j].enq
    <3>1. E \subseteq Nat /\ E # {}
      BY <1>1
    <3>2. PICK e \in E : \A f \in E : e <= f
      BY <3>1, SmallestExists
    <3> QED
      BY <3>2
  <2>2. oldest \in Occupied /\ \A j \in Occupied : slots[oldest].enq <= slots[j].enq
    BY <2>1
  <2>3. Rebase = slots[oldest].enq
    BY <1>3 DEF Rebase
  <2>4. count - slots[oldest].enq < MaxDispatch
    BY <2>2, NoLongWait DEF Waited
  <2> HIDE DEF oldest
  <2> QED
    BY <1>1, <2>2, <2>3, <2>4
<1> QED
  BY <1>2, <1>3

\* What a dispatch does: all that are retained are one dispatch older.
LEMMA Dispatched ==
    ASSUME IInv, ConfirmPrepared
    PROVE  /\ chosen \in Occupied /\ chosen \in due /\ chosen \in Slot
           /\ count' \in 0 .. MaxDispatch
           /\ slots' \in [Slot -> SlotState] /\ Occupied' = Occupied
           /\ slots'[chosen].enq = count'
           /\ slots'[chosen].seq = slots[chosen].seq
           /\ \A i \in Occupied \ {chosen} :
                 /\ slots'[i].enq = slots[i].enq - Rebase
                 /\ slots'[i].seq = slots[i].seq
                 /\ slots'[i].enq \in Nat /\ slots'[i].enq < count'
                 /\ count' - slots'[i].enq = Waited(i) + 1
<1> DEFINE r == Rebase
           after == count - r + 1
<1>1. TypeInv /\ Dated /\ chosen # 0 /\ chosen \in due /\ due \subseteq Occupied
      /\ Occupied \subseteq Slot /\ count \in Nat
  BY Bounds DEF IInv, TypeInv, ConfirmPrepared, Occupied
<1>2. /\ r \in Nat /\ \A i \in Occupied : r <= slots[i].enq
      /\ r <= count /\ count - r < MaxDispatch
  BY <1>1, RebaseIs
<1>3. /\ count' = after
      /\ slots' = [i \in Slot |->
            IF i = chosen THEN [slots[i] EXCEPT !.enq = after]
            ELSE IF i \in Occupied THEN [slots[i] EXCEPT !.enq = @ - r]
            ELSE slots[i]]
  <2>1. ~(count - r = MaxDispatch)
    BY <1>1, <1>2, Bounds
  <2> QED
    BY <2>1 DEF ConfirmPrepared
<1> HIDE DEF r
<1>4. after \in 0 .. MaxDispatch /\ after \in Nat
  BY <1>1, <1>2, Bounds
<1> HIDE DEF after
<1>5. \A i \in Slot : /\ slots[i] \in SlotState /\ slots[i].enq \in Nat
                      /\ slots[i].seq \in Nat
  BY <1>1 DEF TypeInv, SlotState
<1>6. slots'[chosen] = [slots[chosen] EXCEPT !.enq = after]
      /\ chosen \in Slot
  BY <1>1, <1>3
<1>7. slots'[chosen] \in SlotState /\ slots'[chosen].enq = after
      /\ slots'[chosen].seq = slots[chosen].seq
  BY <1>4, <1>5, <1>6 DEF SlotState
<1>8. ASSUME NEW i \in Occupied \ {chosen}
      PROVE  /\ slots'[i] \in SlotState /\ slots'[i].enq = slots[i].enq - r
             /\ slots'[i].seq = slots[i].seq
             /\ slots'[i].enq \in Nat /\ slots'[i].enq < after
             /\ after - slots'[i].enq = Waited(i) + 1
  <2>1. slots'[i] = [slots[i] EXCEPT !.enq = slots[i].enq - r]
    BY <1>1, <1>3
  <2>2. slots[i].enq - r \in Nat /\ slots[i].enq <= count /\ slots[i].enq \in Nat
    BY <1>1, <1>2, <1>5 DEF Dated
  <2>3. slots'[i] \in SlotState /\ slots'[i].enq = slots[i].enq - r
        /\ slots'[i].seq = slots[i].seq
    BY <1>1, <1>5, <2>1, <2>2 DEF SlotState
  <2>4. slots[i].enq - r < after /\ after - (slots[i].enq - r) = Waited(i) + 1
    BY <1>1, <1>2, <2>2 DEF after, Waited
  <2> QED
    BY <2>2, <2>3, <2>4
<1>9. \A i \in Slot \ Occupied : slots'[i] = slots[i]
  BY <1>1, <1>3
<1>10. slots' \in [Slot -> SlotState]
  <2>1. \A i \in Slot : slots'[i] \in SlotState
    BY <1>5, <1>7, <1>8, <1>9
  <2> QED
    BY <1>3, <2>1
<1>11. Occupied' = Occupied
  <2>1. \A i \in Slot : slots'[i].seq = slots[i].seq
    BY <1>7, <1>8, <1>9
  <2> QED
    BY <2>1 DEF Occupied
<1> QED
  BY <1>1, <1>3, <1>4, <1>6, <1>7, <1>8, <1>10, <1>11 DEF r

LEMMA ConfirmStep ==
    ASSUME IInv, ConfirmPrepared
    PROVE  IInv'
<1> DEFINE c == chosen
<1>1. /\ c \in Occupied /\ c \in due /\ c \in Slot /\ c # 0
      /\ count' \in 0 .. MaxDispatch
      /\ slots' \in [Slot -> SlotState] /\ Occupied' = Occupied
      /\ slots'[c].enq = count' /\ slots'[c].seq = slots[c].seq
  BY Dispatched DEF ConfirmPrepared
<1>2. \A i \in Occupied \ {c} :
          /\ slots'[i].enq = slots[i].enq - Rebase
          /\ slots'[i].seq = slots[i].seq
          /\ slots'[i].enq \in Nat /\ slots'[i].enq < count'
          /\ count' - slots'[i].enq = Waited(i) + 1
  BY Dispatched
<1>3. /\ due' = due \ {c} /\ chosen' = 0 /\ nextSeq' = nextSeq
      /\ passed' = [i \in Slot |-> IF i \in due \ {c} THEN passed[i] + 1 ELSE 0]
  BY DEF ConfirmPrepared
<1>4. /\ TypeInv /\ Dated /\ WaitInv /\ TurnInv /\ TicketInv
      /\ due \subseteq Occupied /\ Occupied \subseteq Slot
      /\ count' \in Nat
      /\ \A i \in Slot : passed[i] \in Nat
  BY <1>1, Bounds DEF IInv, TypeInv, Occupied
<1>5. \A i \in due \ {c} : passed'[i] = passed[i] + 1
  BY <1>3, <1>4
<1>6. Rebase \in Nat /\ \A i \in Slot : slots[i].enq \in Nat /\ slots[i].seq \in Nat
  BY <1>1, <1>4, RebaseIs, SlotFacts
<1> HIDE DEF c
<1>7. TypeInv'
  <2>1. passed' \in [Slot -> Nat]
    BY <1>3, <1>4
  <2> QED
    BY <1>1, <1>3, <1>4, <2>1 DEF TypeInv
<1>8. Dated'
  <2>1. ASSUME NEW i \in Occupied
        PROVE  slots'[i].enq <= count' /\ slots'[i].seq < nextSeq
    <3>1. slots[i].seq < nextSeq
      BY <1>4 DEF Dated
    <3>2. CASE i = c
      BY <1>1, <1>4, <3>1, <3>2
    <3>3. CASE i # c
      <4>1. slots'[i].seq = slots[i].seq /\ slots'[i].enq < count'
            /\ slots'[i].enq \in Nat
        BY <1>2, <3>3
      <4> QED
        BY <1>4, <3>1, <4>1
    <3> QED
      BY <3>2, <3>3
  <2> QED
    BY <1>1, <1>3, <2>1 DEF Dated
<1>9. \A i \in Occupied \ {c} : /\ Waited(i)' = Waited(i) + 1
                                /\ Waited(i) \in Nat
  BY <1>2, NoLongWait DEF Waited
<1>10. WaitInv'
  <2>1. ASSUME NEW i \in due'
        PROVE  passed'[i] <= Waited(i)' /\ Waited(i)' <= Patience + passed'[i]
    <3>1. i \in due \ {c} /\ i \in Occupied \ {c} /\ i \in Slot
      BY <1>3, <1>4
    <3>2. /\ passed'[i] = passed[i] + 1 /\ Waited(i)' = Waited(i) + 1
          /\ passed[i] \in Nat /\ Waited(i) \in Nat
          /\ passed[i] <= Waited(i) /\ Waited(i) <= Patience + passed[i]
      BY <1>4, <1>5, <1>9, <3>1 DEF WaitInv
    <3> QED
      BY ONLY <3>2, Bounds
  <2>2. ASSUME NEW i \in Occupied' \ due'
        PROVE  Waited(i)' <= Patience
    <3>1. CASE i = c
      <4>1. Waited(i)' = 0
        BY <1>1, <1>4, <3>1 DEF Waited
      <4> QED
        BY <4>1, Bounds
    <3>2. CASE i # c
      <4>1. i \in Occupied \ due /\ i \in Occupied \ {c}
        BY <1>1, <1>3, <3>2
      <4>2. Waited(i) < Patience
        BY <1>1, <1>4, <4>1 DEF WaitInv, c
      <4>3. Waited(i)' = Waited(i) + 1 /\ Waited(i) \in Nat
        BY <1>9, <4>1
      <4> QED
        BY ONLY <4>2, <4>3, Bounds
    <3> QED
      BY <3>1, <3>2
  <2> QED
    BY <1>3, <2>1, <2>2 DEF WaitInv
<1>11. TurnInv'
  <2>1. ASSUME NEW i \in due'
        PROVE  passed'[i] + Cardinality(Ahead(i)') < Aged + Slots
    <3>1. i \in due \ {c} /\ i \in Occupied \ {c} /\ i \in Slot /\ i # c
      BY <1>3, <1>4
    <3>2. c \notin Ahead(i)'
      <4>1. slots'[i].enq < slots'[c].enq /\ slots'[i].enq \in Nat
            /\ slots'[c].enq \in Nat
        BY <1>1, <1>2, <1>4, <3>1
      <4> QED
        BY <4>1 DEF Ahead
    <3>3. \A j \in Occupied \ {c} : j \in Ahead(i)' <=> j \in Ahead(i)
      <4> TAKE j \in Occupied \ {c}
      <4>1. /\ slots'[j].enq = slots[j].enq - Rebase /\ slots'[j].seq = slots[j].seq
            /\ slots'[i].enq = slots[i].enq - Rebase /\ slots'[i].seq = slots[i].seq
            /\ slots[j].enq \in Nat /\ slots[i].enq \in Nat /\ Rebase \in Nat
        BY <1>2, <1>4, <1>6, <3>1
      <4>2. /\ slots'[j].enq < slots'[i].enq <=> slots[j].enq < slots[i].enq
            /\ slots'[j].enq = slots'[i].enq <=> slots[j].enq = slots[i].enq
        BY ONLY <4>1
      <4> QED
        BY <1>1, <4>1, <4>2 DEF Ahead
    <3>4. Ahead(i)' = Ahead(i) \ {c}
      <4>1. \A j : (j \in Ahead(i)' \/ j \in Ahead(i)) => j \in Occupied
        BY <1>1 DEF Ahead
      <4> QED
        BY ONLY <3>2, <3>3, <4>1
    <3>5. /\ IsFiniteSet(Ahead(i)) /\ Cardinality(Ahead(i)) \in Nat
          /\ i \notin Ahead(i) /\ Ahead(i) \subseteq Slot
      BY <1>4, <3>1, AheadFinite
    <3>6. /\ Cardinality(Ahead(i)') \in Nat /\ Cardinality(Ahead(i)') <= Slots - 2
      <4>1. Ahead(i)' \subseteq Slot \ {i, c}
        BY <3>4, <3>5
      <4> QED
        BY <1>1, <3>1, <4>1, WithoutTwo
    <3>7. passed'[i] = passed[i] + 1 /\ passed[i] \in Nat
      BY <1>4, <1>5, <3>1
    <3>8. CASE passed[i] = 0
      BY ONLY <3>6, <3>7, <3>8, Bounds
    <3>9. CASE Before(c, i) /\ Waited(i) >= Aged
      <4>1. c \in Ahead(i)
        BY <1>1, <1>4, <3>1, <3>9, UrgentBehind
      <4>2. Cardinality(Ahead(i)') = Cardinality(Ahead(i)) - 1
        BY <3>4, <3>5, <4>1, FS_RemoveElement
      <4>3. passed[i] + Cardinality(Ahead(i)) < Aged + Slots
        BY <1>4, <3>1 DEF TurnInv
      <4> QED
        BY ONLY <3>5, <3>7, <4>2, <4>3, Bounds
    <3>10. CASE Waited(i) < Aged
      <4>1. passed[i] <= Waited(i) /\ Waited(i) \in Nat
        BY <1>4, <1>9, <3>1 DEF WaitInv
      <4> QED
        BY ONLY <3>6, <3>7, <3>10, <4>1, Bounds
    <3>11. passed[i] = 0 \/ Before(c, i)
      BY <1>1, <1>4, <3>1 DEF TicketInv, c
    <3>12. Waited(i) >= Aged \/ Waited(i) < Aged
      BY <1>9, <3>1, Bounds
    <3> QED
      BY <3>8, <3>9, <3>10, <3>11, <3>12
  <2> QED
    BY <2>1 DEF TurnInv
<1>12. TicketInv'
  BY <1>3 DEF TicketInv
<1> QED
  BY <1>7, <1>8, <1>10, <1>11, <1>12 DEF IInv

-----------------------------------------------------------------------------
\* The inductive invariant: who was passed over has fewer messages ahead.
THEOREM Invariance == Spec => []IInv
<1>1. ASSUME Init PROVE IInv
  <2>1. /\ slots = [i \in Slot |-> Empty] /\ count = 0 /\ nextSeq = 1
        /\ due = {} /\ chosen = 0 /\ passed = [i \in Slot |-> 0]
    BY <1>1 DEF Init
  <2>2. Occupied = {}
    BY <2>1 DEF Occupied, Empty
  <2>3. TypeInv
    BY <2>1, Bounds DEF TypeInv, Empty, SlotState, Priority
  <2> QED
    BY <2>1, <2>2, <2>3 DEF IInv, Dated, WaitInv, TurnInv, TicketInv
<1>2. ASSUME IInv, [Next]_vars PROVE IInv'
  <2>1. CASE \E i \in Slot, priority \in Priority : Enqueue(i, priority)
    BY <1>2, <2>1, EnqueueStep
  <2>2. CASE \E i \in Slot : BecomeDue(i)
    BY <1>2, <2>2, BecomeDueStep
  <2>3. CASE PrepareDue
    BY <1>2, <2>3, PrepareStep
  <2>4. CASE ConfirmPrepared
    BY <1>2, <2>4, ConfirmStep
  <2>5. CASE \E i \in Slot : Release(i)
    BY <1>2, <2>5, ReleaseStep
  <2>6. CASE UNCHANGED vars
    BY <1>2, <2>6
       DEF vars, IInv, TypeInv, Dated, WaitInv, TurnInv, TicketInv, Occupied,
           Waited, Ahead, Before, EffectivePriority
  <2> QED
    BY <1>2, <2>1, <2>2, <2>3, <2>4, <2>5, <2>6 DEF Next
<1> QED
  BY <1>1, <1>2, PTL DEF Spec

\* tx_find_due_index: whatever is queued, released and dispatched meanwhile,
\* a message that is due is passed over no more often than it takes to become
\* urgent, and once by each other slot.
THEOREM BoundedWait == Spec => []NoStarvation
<1>1. ASSUME IInv PROVE NoStarvation
  <2> SUFFICES ASSUME NEW i \in due PROVE passed[i] < Aged + Slots
    BY DEF NoStarvation, Aged
  <2>1. i \in Slot /\ TypeInv
    BY <1>1 DEF IInv, TypeInv, Occupied
  <2>2. Cardinality(Ahead(i)) \in Nat /\ passed[i] \in Nat
    BY <2>1, AheadFinite DEF TypeInv
  <2>3. passed[i] + Cardinality(Ahead(i)) < Aged + Slots
    BY <1>1 DEF IInv, TurnInv
  <2> QED
    BY ONLY <2>2, <2>3, Bounds
<1> QED
  BY <1>1, Invariance, PTL

\* tx_rebase_dispatch_if_possible: every dispatch counts.  When the counter is
\* at its end, the oldest message is young enough for all to go back.
THEOREM EveryDispatchCounts ==
    Spec => [][ConfirmPrepared => count' = count - Rebase + 1]_vars
<1>1. ASSUME IInv, ConfirmPrepared PROVE count' = count - Rebase + 1
  <2>1. chosen # 0 /\ count \in Nat
    BY <1>1, Bounds DEF ConfirmPrepared, IInv, TypeInv
  <2>2. Rebase \in Nat /\ count - Rebase < MaxDispatch
    BY <1>1, <2>1, RebaseIs
  <2>3. ~(count - Rebase = MaxDispatch)
    BY <2>1, <2>2, Bounds
  <2> QED
    BY <1>1, <2>3 DEF ConfirmPrepared
<1> QED
  BY <1>1, Invariance, PTL

=============================================================================
