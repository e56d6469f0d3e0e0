------------------------- MODULE NativeEventsProofs -------------------------
(***************************************************************************)
(* Proofs about the native event lane for every number of events, of       *)
(* packets under way and every size of windows, tables and batches: it     *)
(* implements EventStream, and the client refuses a message only for a     *)
(* failure of its own side.                                                *)
(*                                                                         *)
(* The sender numbers the events in the order of the queue, so every       *)
(* message is an interval of numbers.  The inductive invariant says where  *)
(* each number is: in the backlog, in a message that is kept, or taken.    *)
(***************************************************************************)
EXTENDS NativeEvents, NumberLemmas, SequenceTheorems, FiniteSetTheorems, TLAPS

-----------------------------------------------------------------------------
(***************************************************************************)
(* The sender s, when so many events were queued (off), those in tk were   *)
(* taken and the messages in cm were committed by the client.              *)
(***************************************************************************)
LastOf(m) == m.first + Len(m.ids) - 1

\* The events of the backlog come after those of the messages.
BacklogInOrder(s, off) ==
    /\ s.next + Len(s.backlog) <= off + 1
    /\ s.life # "cancelled" => s.next + Len(s.backlog) = off + 1
    /\ \A k \in DOMAIN s.backlog : s.backlog[k].id = s.next + k - 1
    /\ s.nextMsg <= s.next + 1
    /\ s.life = "cancelled" => s.kept = {} /\ s.backlog = <<>>

\* A message is an interval of numbers that were given.
Numbered(s, m) ==
    /\ m \in Message
    /\ m.seq < s.nextMsg
    /\ LastOf(m) < s.next
    /\ \A k \in DOMAIN m.ids : m.ids[k] = m.first + k - 1

\* Two messages have no event in common.
Apart(M) ==
    \A m1, m2 \in M :
        IF m1.seq = m2.seq THEN m1 = m2 ELSE EventsOf(m1) \cap EventsOf(m2) = {}

\* A message was taken whole or not at all.
WholeOrNot(m, tk, cm) ==
    IF m.seq \in cm THEN EventsOf(m) \subseteq tk ELSE EventsOf(m) \cap tk = {}

\* A message that was not taken lies in the receipt window of its consumer.
InReach(m, tk, cm) ==
    m.seq \notin cm => \A e \in 1 .. LastOf(m) - Selective : e \in tk

\* Every number that was given is taken or kept.
Covered(s, tk) ==
    s.life # "cancelled" =>
        \A e \in 1 .. s.next - 1 : e \in tk \/ \E m \in s.kept : e \in EventsOf(m)

SenderInv(s, net, off, tk, cm) ==
    /\ s \in ServerState
    /\ BacklogInOrder(s, off)
    /\ \A m \in s.kept \cup net : /\ Numbered(s, m)
                                  /\ WholeOrNot(m, tk, cm)
                                  /\ InReach(m, tk, cm)
    /\ Apart(s.kept \cup net)
    /\ \A m \in s.kept : s.nextMsg <= m.seq + Window
    /\ Covered(s, tk)
    /\ tk \subseteq 1 .. s.next - 1
    /\ cm \subseteq 1 .. s.nextMsg - 1
    /\ s.acked => 1 \in cm
    /\ s.nextMsg > 2 => s.acked

-----------------------------------------------------------------------------
\* What is under way is not so old that the history has forgotten it: it
\* comes after all that was sent before it.
NetworkInv ==
    \A i \in DOMAIN down :
        /\ \A q \in client.committed : q < down[i].seq + Window
        /\ \A j \in 1 .. i : down[j].seq < down[i].seq + Window

\* Receipts tell of what was committed, and last as long as the history.
ReceiptInv ==
    /\ DOMAIN client.ledger \subseteq client.committed
    /\ \A i \in DOMAIN up : up[i] \subseteq client.committed
    /\ client.mode = "active" /\ Connected =>
          \A q \in client.committed :
              (\A p \in client.committed : p < q + Window)
                  => q \in DOMAIN client.ledger

\* The stream has its owner from the descriptor on, and the consumer has
\* what it took, each event under its number.
ConsumerInv ==
    /\ taken # {} => 1 \in client.committed
    /\ client.owner = "active" => 1 \in client.committed
    /\ client.mode = "active" /\ Connected /\ 1 \in client.committed
          => client.owner = "active"
    /\ consumer.life = "active" =>
          /\ DOMAIN consumer.got = taken
          /\ \A e \in taken : consumer.got[e] = e
    /\ \A k \in DOMAIN shown : shown[k] \in taken

IInv ==
    /\ TypeOK
    /\ SenderInv(server, Range(down), offered, taken, client.committed)
    /\ NetworkInv
    /\ ReceiptInv
    /\ ConsumerInv
    /\ RefusedOnlyByConsumer

-----------------------------------------------------------------------------
(***************************************************************************)
(* Sequences of bounded length, and messages.                              *)
(***************************************************************************)
LEMMA BoundedIsSeq ==
    ASSUME NEW S, NEW n \in Nat, NEW q
    PROVE  q \in BoundedSeq(S, n) <=> q \in Seq(S) /\ Len(q) <= n
<1>1. ASSUME q \in BoundedSeq(S, n) PROVE q \in Seq(S) /\ Len(q) <= n
  <2>1. PICK m \in 0 .. n : q \in [1 .. m -> S]
    BY <1>1 DEF BoundedSeq, SeqOf
  <2>2. q \in Seq(S)
    BY <2>1, SeqDef
  <2>3. Len(q) = m
    BY <2>1, <2>2, LenProperties
  <2> QED
    BY <2>2, <2>3
<1>2. ASSUME q \in Seq(S), Len(q) <= n PROVE q \in BoundedSeq(S, n)
  <2>1. Len(q) \in 0 .. n /\ q \in [1 .. Len(q) -> S]
    BY <1>2, LenProperties
  <2> QED
    BY <2>1 DEF BoundedSeq, SeqOf
<1> QED
  BY <1>1, <1>2

LEMMA Bounds ==
    /\ MaxEvents \in Nat \ {0} /\ MaxInFlight \in Nat \ {0}
    /\ Backlog \in Nat \ {0} /\ TxSlots \in Nat \ {0}
    /\ BatchMax \in Nat \ {0} /\ Window \in Nat \ {0}
    /\ Selective \in Nat \ {0} /\ Handoffs \in Nat \ {0}
    /\ BatchMax <= Selective
BY EventsAssumption

\* A message is an interval of events; that of the descriptor is empty.
LEMMA MessageFacts ==
    ASSUME NEW m \in Message
    PROVE  /\ m.seq \in MessageSeq /\ m.seq \in Nat /\ m.first \in Nat
           /\ m.ids \in Seq(Event) /\ Len(m.ids) \in Nat
           /\ DOMAIN m.ids = 1 .. Len(m.ids)
           /\ LastOf(m) \in Int
           /\ EventsOf(m) = m.first .. LastOf(m)
           /\ m = Descriptor => EventsOf(m) = {} /\ m.seq = 1 /\ LastOf(m) = -1
           /\ m # Descriptor =>
                 m.seq > 1 /\ m.first \in Event /\ Len(m.ids) \in 1 .. BatchMax
<1>1. /\ m.seq \in MessageSeq /\ m.first \in Nat /\ m.ids \in Seq(Event)
      /\ m = Descriptor => m.seq = 1 /\ m.first = 0 /\ m.ids = <<>>
      /\ m # Descriptor =>
            m.seq # 1 /\ m.first \in Event /\ m.ids # <<>> /\ Len(m.ids) <= BatchMax
  <2>1. CASE m = Descriptor
    BY <2>1, Bounds DEF Descriptor, MessageSeq
  <2>2. CASE m # Descriptor
    <3>1. m \in EventMessage
      BY <2>2 DEF Message
    <3>2. m.ids \in BoundedSeq(Event, BatchMax)
      BY <3>1 DEF EventMessage
    <3>3. m.ids \in Seq(Event) /\ Len(m.ids) <= BatchMax
      BY <3>2, Bounds, BoundedIsSeq
    <3> QED
      BY <3>1, <3>3, <2>2, Bounds DEF EventMessage, Event
  <2> QED
    BY <2>1, <2>2
<1>2. m.seq \in Nat /\ m.seq >= 1
  BY <1>1, Bounds DEF MessageSeq
<1>3. Len(m.ids) \in Nat /\ DOMAIN m.ids = 1 .. Len(m.ids)
  BY <1>1
<1>4. m.ids # <<>> => Len(m.ids) # 0
  BY <1>1
<1>5. LastOf(m) \in Int
  BY <1>1, <1>3 DEF LastOf
<1>6. EventsOf(m) = m.first .. LastOf(m)
  <2>1. \A e \in m.first .. LastOf(m) : e = m.first + (e - m.first + 1) - 1
                                       /\ e - m.first + 1 \in DOMAIN m.ids
    BY <1>1, <1>3 DEF LastOf
  <2>2. \A k \in DOMAIN m.ids : m.first + k - 1 \in m.first .. LastOf(m)
    BY <1>1, <1>3 DEF LastOf
  <2> QED
    BY <2>1, <2>2 DEF EventsOf
<1>7. m = Descriptor => LastOf(m) = -1 /\ EventsOf(m) = {}
  BY <1>1, <1>3, <1>6 DEF LastOf
<1> QED
  BY <1>1, <1>2, <1>3, <1>4, <1>5, <1>6, <1>7, Bounds

LEMMA ServerFacts ==
    ASSUME NEW s \in ServerState
    PROVE  /\ s.life \in {"active", "drain", "cancelled"}
           /\ s.backlog \in Seq(Candidate) /\ Len(s.backlog) <= Backlog
           /\ Len(s.backlog) \in Nat /\ DOMAIN s.backlog = 1 .. Len(s.backlog)
           /\ s.next \in 1 .. MaxEvents + 1
           /\ s.kept \subseteq Message
           /\ s.nextMsg \in 2 .. MaxEvents + 2
           /\ s.acked \in BOOLEAN
<1>1. s.backlog \in BoundedSeq(Candidate, Backlog)
  BY DEF ServerState
<1>2. s.backlog \in Seq(Candidate) /\ Len(s.backlog) <= Backlog
  BY <1>1, Bounds, BoundedIsSeq
<1> QED
  BY <1>2 DEF ServerState

-----------------------------------------------------------------------------
(***************************************************************************)
(* The pump.                                                               *)
(***************************************************************************)
FirstsOf(s) == {m.first : m \in s.kept \ {Descriptor}}

\* The room ends Selective numbers after the oldest event that is retained.
LEMMA RoomIs ==
    ASSUME NEW s \in ServerState, \A m \in s.kept : Numbered(s, m)
    PROVE  /\ Room(s) \in Int
           /\ \E f \in 1 .. s.next :
                 /\ Room(s) = Selective - (s.next - f)
                 /\ \A m \in s.kept : m # Descriptor => f <= m.first
<1>1. \A m \in s.kept : m # Descriptor =>
          m.first \in 1 .. s.next /\ m.first \in Nat
  <2> TAKE m \in s.kept
  <2>1. Numbered(s, m) /\ m \in Message
    BY DEF Numbered
  <2> QED
    BY <2>1, MessageFacts, ServerFacts DEF Numbered, LastOf, Event
<1>2. CASE FirstsOf(s) = {}
  <2>1. Room(s) = Selective
    BY <1>2 DEF Room, FirstsOf
  <2>2. \A m \in s.kept : m = Descriptor
    BY <1>2 DEF FirstsOf
  <2>3. s.next \in 1 .. s.next /\ Selective = Selective - (s.next - s.next)
    BY ServerFacts, Bounds
  <2> QED
    BY <2>1, <2>2, <2>3, Bounds
<1>3. CASE FirstsOf(s) # {}
  <2> DEFINE f == Min(FirstsOf(s))
  <2>1. FirstsOf(s) \subseteq Nat
    BY <1>1 DEF FirstsOf
  <2>2. f \in FirstsOf(s) /\ \A x \in FirstsOf(s) : f <= x
    BY <1>3, <2>1, MinIs
  <2>3. f \in 1 .. s.next
    BY <1>1, <2>2 DEF FirstsOf
  <2>4. Room(s) = Selective - (s.next - f)
    BY <1>3 DEF Room, FirstsOf
  <2>5. \A m \in s.kept : m # Descriptor => f <= m.first
    BY <2>2 DEF FirstsOf
  <2> HIDE DEF f
  <2> QED
    BY <2>3, <2>4, <2>5, ServerFacts, Bounds
<1> QED
  BY <1>2, <1>3

LEMMA BatchCountIs ==
    ASSUME NEW s \in ServerState, s.backlog # <<>>,
           Room(s) \in Int, Room(s) > 0
    PROVE  /\ BatchCount(s) \in 1 .. Len(s.backlog)
           /\ BatchCount(s) <= BatchMax /\ BatchCount(s) <= Room(s)
<1> DEFINE same == {k \in 1 .. Len(s.backlog) :
                       \A j \in 2 .. k : ~s.backlog[j].fresh}
           three == {Max(same), BatchMax, Room(s)}
<1>1. Len(s.backlog) \in Nat /\ Len(s.backlog) >= 1
  BY ServerFacts
<1>2. 1 \in same /\ same \subseteq 0 .. Len(s.backlog)
  BY <1>1
<1>3. Max(same) \in same
  <2> HIDE DEF same
  <2> QED
    BY <1>1, <1>2, MaxIs
<1>4. Max(same) \in 1 .. Len(s.backlog)
  BY <1>3
<1> HIDE DEF same
<1>5. three \subseteq Nat /\ three # {}
  BY <1>1, <1>4, Bounds
<1>6. Min(three) \in three /\ \A x \in three : Min(three) <= x
  BY <1>5, MinIs
<1>7. BatchCount(s) = Min(three)
  BY DEF BatchCount, same
<1> QED
  BY <1>1, <1>4, <1>6, <1>7, Bounds

\* The message that a round of the pump makes.
PromotedMessage(s) ==
    [seq |-> s.nextMsg, first |-> s.next,
     ids |-> [k \in 1 .. BatchCount(s) |-> s.backlog[k].id]]

LEMMA PromotedIs ==
    ASSUME NEW s \in ServerState, NEW off \in 0 .. MaxEvents,
           BacklogInOrder(s, off), s.backlog # <<>>,
           BatchCount(s) \in 1 .. Len(s.backlog), BatchCount(s) <= BatchMax
    PROVE  /\ PromotedMessage(s) \in Message
           /\ PromotedMessage(s) # Descriptor
           /\ Len(PromotedMessage(s).ids) = BatchCount(s)
           /\ \A k \in 1 .. BatchCount(s) :
                 PromotedMessage(s).ids[k] = s.next + k - 1
           /\ EventsOf(PromotedMessage(s)) = s.next .. s.next + BatchCount(s) - 1
           /\ LastOf(PromotedMessage(s)) = s.next + BatchCount(s) - 1
<1> DEFINE m == PromotedMessage(s)
           n == BatchCount(s)
<1>1. m.seq = s.nextMsg /\ m.first = s.next
      /\ m.ids = [k \in 1 .. n |-> s.backlog[k].id]
  BY DEF PromotedMessage
<1>2. Len(s.backlog) \in Nat /\ n \in Nat /\ n >= 1 /\ n <= Len(s.backlog)
      /\ s.next \in 1 .. MaxEvents + 1 /\ s.nextMsg \in 2 .. MaxEvents + 2
      /\ DOMAIN s.backlog = 1 .. Len(s.backlog)
  BY ServerFacts
<1>3. s.next + Len(s.backlog) <= MaxEvents + 1 /\ s.nextMsg <= s.next + 1
  BY <1>2, Bounds DEF BacklogInOrder
<1>4. \A k \in 1 .. n : s.backlog[k].id = s.next + k - 1
                        /\ s.next + k - 1 \in Event
  <2> TAKE k \in 1 .. n
  <2>1. k \in DOMAIN s.backlog
    BY <1>2
  <2>2. s.backlog[k].id = s.next + k - 1
    BY <2>1 DEF BacklogInOrder
  <2>3. s.next + k - 1 \in 1 .. MaxEvents
    BY ONLY SMTT(30), <1>2, <1>3, Bounds, k \in 1 .. n
  <2> QED
    BY <2>2, <2>3 DEF Event
<1> HIDE DEF n
<1>5. m.ids \in [1 .. n -> Event]
  BY <1>1, <1>4
<1>6. m.ids \in Seq(Event) /\ Len(m.ids) = n
  <2>1. m.ids \in Seq(Event)
    BY <1>2, <1>5, SeqDef
  <2> QED
    BY <1>2, <1>5, <2>1, LenProperties
<1>7. m.ids \in BoundedSeq(Event, BatchMax) \ {<<>>}
  BY <1>2, <1>6, Bounds, BoundedIsSeq DEF n
<1>8. m.seq \in MessageSeq \ {1} /\ m.first \in Event
  BY SMTT(30), <1>1, <1>2, <1>3, Bounds DEF MessageSeq, Event, n
<1>9. m \in EventMessage
  BY <1>1, <1>7, <1>8 DEF EventMessage, PromotedMessage, n
<1>10. m # Descriptor
  BY <1>1, <1>2 DEF Descriptor
<1>11. LastOf(m) = s.next + n - 1
  BY <1>1, <1>6 DEF LastOf
<1>12. EventsOf(m) = s.next .. s.next + n - 1
  <2>1. m \in Message
    BY <1>9 DEF Message
  <2> QED
    BY <1>1, <1>11, <2>1, MessageFacts
<1> QED
  BY <1>1, <1>4, <1>6, <1>9, <1>10, <1>11, <1>12 DEF Message, n

LEMMA PromoteTypes ==
    ASSUME NEW s \in ServerState, NEW off \in 0 .. MaxEvents,
           BacklogInOrder(s, off), s.backlog # <<>>,
           BatchCount(s) \in 1 .. Len(s.backlog), BatchCount(s) <= BatchMax
    PROVE  /\ Promote(s) \in ServerState
           /\ Promote(s).life = s.life /\ Promote(s).acked = s.acked
           /\ Promote(s).next = s.next + BatchCount(s)
           /\ Promote(s).nextMsg = s.nextMsg + 1
           /\ Promote(s).kept = s.kept \cup {PromotedMessage(s)}
           /\ Promote(s).backlog =
                SubSeq(s.backlog, BatchCount(s) + 1, Len(s.backlog))
           /\ Len(Promote(s).backlog) = Len(s.backlog) - BatchCount(s)
           /\ \A k \in 1 .. Len(s.backlog) - BatchCount(s) :
                 Promote(s).backlog[k] = s.backlog[k + BatchCount(s)]
<1> DEFINE n == BatchCount(s)
           rest == SubSeq(s.backlog, n + 1, Len(s.backlog))
<1>1. /\ s.backlog \in Seq(Candidate) /\ Len(s.backlog) \in Nat
      /\ Len(s.backlog) <= Backlog /\ DOMAIN s.backlog = 1 .. Len(s.backlog)
      /\ s.next \in 1 .. MaxEvents + 1 /\ s.nextMsg \in 2 .. MaxEvents + 2
      /\ s.kept \subseteq Message
  BY ServerFacts
<1>2. Promote(s) = [s EXCEPT !.backlog = rest, !.next = s.next + n,
                             !.kept = s.kept \cup {PromotedMessage(s)},
                             !.nextMsg = s.nextMsg + 1]
  BY DEF Promote, PromotedMessage
<1>3. n \in Nat /\ 1 <= n /\ n <= Len(s.backlog)
  BY <1>1
<1> HIDE DEF n
<1>4. /\ rest \in Seq(Candidate) /\ Len(rest) = Len(s.backlog) - n
      /\ \A k \in 1 .. Len(s.backlog) - n : rest[k] = s.backlog[k + n]
  BY <1>1, <1>3
<1> HIDE DEF rest
<1>5. rest \in BoundedSeq(Candidate, Backlog)
  <2>1. Backlog \in Nat /\ Len(rest) <= Backlog
    BY ONLY <1>1, <1>3, <1>4, Bounds
  <2> QED
    BY <1>4, <2>1, BoundedIsSeq
<1>6. s.next + n \in 1 .. MaxEvents + 1 /\ s.nextMsg + 1 \in 2 .. MaxEvents + 2
  <2>1. s.next + Len(s.backlog) <= off + 1 /\ s.nextMsg <= s.next + 1
        /\ off \in Nat /\ off <= MaxEvents
    BY Bounds DEF BacklogInOrder
  <2>2. /\ s.next \in Int /\ s.next >= 1 /\ s.nextMsg \in Int /\ s.nextMsg >= 2
        /\ Len(s.backlog) \in Int /\ MaxEvents \in Int /\ n \in Int
    BY <1>1, <1>3, Bounds
  <2>3. \A x, l, k, o, b \in Int :
            x >= 1 /\ x + l <= o + 1 /\ o <= b /\ 1 <= k /\ k <= l
               => x + k \in 1 .. b + 1 /\ x <= b
    OBVIOUS
  <2>4. s.next + n \in 1 .. MaxEvents + 1 /\ s.next <= MaxEvents
    BY ONLY SMTT(30), <1>3, <2>1, <2>2, <2>3
  <2>5. \A y, x, b \in Int :
            y >= 2 /\ y <= x + 1 /\ x <= b => y + 1 \in 2 .. b + 2
    OBVIOUS
  <2>6. s.nextMsg + 1 \in 2 .. MaxEvents + 2
    BY ONLY <2>1, <2>2, <2>4, <2>5
  <2> QED
    BY <2>4, <2>6
<1>7. PromotedMessage(s) \in Message
  BY PromotedIs
<1>8. Promote(s) \in ServerState
  <2>1. s.kept \cup {PromotedMessage(s)} \in SUBSET Message
    BY <1>1, <1>7
  <2> QED
    BY <1>2, <1>5, <1>6, <2>1 DEF ServerState
<1>9. /\ Promote(s).life = s.life /\ Promote(s).acked = s.acked
      /\ Promote(s).next = s.next + n
      /\ Promote(s).nextMsg = s.nextMsg + 1
      /\ Promote(s).kept = s.kept \cup {PromotedMessage(s)}
      /\ Promote(s).backlog = rest
  BY <1>2 DEF ServerState
<1> QED
  BY <1>4, <1>8, <1>9 DEF n, rest

\* A round of the pump moves candidates from the backlog to a message.
LEMMA PromoteKeeps ==
    ASSUME NEW s, NEW net, NEW off \in 0 .. MaxEvents, NEW tk, NEW cm,
           SenderInv(s, net, off, tk, cm), MayPromote(s), s.life # "cancelled"
    PROVE  /\ SenderInv(Promote(s), net, off, tk, cm)
           /\ Held(Promote(s)) = Held(s)
           /\ Promote(s).life = s.life
           /\ s.kept \subseteq Promote(s).kept
<1> DEFINE n == BatchCount(s)
           m0 == PromotedMessage(s)
           t == Promote(s)
<1>1. s \in ServerState /\ BacklogInOrder(s, off) /\ s.backlog # <<>>
      /\ Room(s) > 0
  BY DEF SenderInv, MayPromote
<1>2. \A m \in s.kept \cup net : Numbered(s, m) /\ m \in Message
  BY DEF SenderInv, Numbered
<1>3. PICK f \in 1 .. s.next :
          /\ Room(s) = Selective - (s.next - f)
          /\ \A m \in s.kept : m # Descriptor => f <= m.first
  BY <1>1, <1>2, RoomIs
<1>4. Room(s) \in Int
  BY <1>1, <1>2, RoomIs
<1>5. n \in 1 .. Len(s.backlog) /\ n <= BatchMax /\ n <= Room(s)
  BY <1>1, <1>4, BatchCountIs
<1>6. /\ m0 \in Message /\ m0 # Descriptor /\ Len(m0.ids) = n
      /\ \A k \in 1 .. n : m0.ids[k] = s.next + k - 1
      /\ EventsOf(m0) = s.next .. s.next + n - 1
      /\ LastOf(m0) = s.next + n - 1
      /\ m0.seq = s.nextMsg /\ m0.first = s.next
  BY <1>1, <1>5, PromotedIs DEF PromotedMessage
<1>7. /\ t \in ServerState /\ t.life = s.life /\ t.acked = s.acked
      /\ t.next = s.next + n /\ t.nextMsg = s.nextMsg + 1
      /\ t.kept = s.kept \cup {m0}
      /\ Len(t.backlog) = Len(s.backlog) - n
      /\ \A k \in 1 .. Len(s.backlog) - n : t.backlog[k] = s.backlog[k + n]
  BY <1>1, <1>5, PromoteTypes
<1>8. /\ Len(s.backlog) \in Nat /\ DOMAIN s.backlog = 1 .. Len(s.backlog)
      /\ DOMAIN t.backlog = 1 .. Len(t.backlog)
      /\ s.next \in 1 .. MaxEvents + 1 /\ s.nextMsg \in 2 .. MaxEvents + 2
      /\ MaxEvents \in Nat
  BY <1>1, <1>7, ServerFacts, Bounds
<1> HIDE DEF n, m0, t
<1>a. /\ n \in Nat /\ 1 <= n /\ n <= Len(s.backlog) /\ s.next \in Nat
      /\ t.next \in Nat /\ Len(t.backlog) \in Nat /\ s.nextMsg \in Nat
      /\ t.next = s.next + n /\ Len(t.backlog) = Len(s.backlog) - n
      /\ t.nextMsg = s.nextMsg + 1 /\ t.nextMsg \in Nat
      /\ Len(s.backlog) \in Nat
  <2>1. /\ t.next = s.next + n /\ Len(t.backlog) = Len(s.backlog) - n
        /\ t.nextMsg = s.nextMsg + 1
    BY ONLY <1>7
  <2>2. Len(s.backlog) \in Nat /\ s.next \in Nat /\ s.nextMsg \in Nat
    BY ONLY <1>8
  <2>3. n \in Nat /\ 1 <= n /\ n <= Len(s.backlog)
    BY ONLY <1>5, <2>2
  <2> QED
    BY ONLY <2>1, <2>2, <2>3
<1>9. BacklogInOrder(t, off)
  <2>1. t.next + Len(t.backlog) = s.next + Len(s.backlog)
    BY ONLY <1>a
  <2>2. \A k \in DOMAIN t.backlog : t.backlog[k].id = t.next + k - 1
    <3> TAKE k \in DOMAIN t.backlog
    <3>1. k \in Int /\ k \in 1 .. Len(s.backlog) - n
          /\ k + n \in 1 .. Len(s.backlog)
      BY ONLY SMTT(30), <1>a, <1>8, k \in DOMAIN t.backlog
    <3>3. k + n \in DOMAIN s.backlog /\ t.backlog[k] = s.backlog[k + n]
      BY <1>7, <1>8, <3>1
    <3>2. s.backlog[k + n].id = s.next + (k + n) - 1
      BY <1>1, <3>3 DEF BacklogInOrder
    <3>4. s.next + (k + n) - 1 = t.next + k - 1
      <4>1. \A x, y, z \in Int : x + (y + z) - 1 = (x + z) + y - 1
        OBVIOUS
      <4> QED
        BY ONLY SMTT(60), <1>a, <3>1, <4>1
    <3> QED
      BY <3>3, <3>2, <3>4
  <2>3. t.nextMsg <= t.next + 1
    <3>1. s.nextMsg <= s.next + 1
      BY <1>1 DEF BacklogInOrder
    <3> QED
      BY ONLY <1>a, <3>1
  <2> QED
    BY <1>1, <1>7, <2>1, <2>2, <2>3 DEF BacklogInOrder
<1>10. \A m \in s.kept \cup net : Numbered(t, m)
  <2> TAKE m \in s.kept \cup net
  <2>1. m \in Message /\ m.seq < s.nextMsg /\ LastOf(m) < s.next
        /\ \A k \in DOMAIN m.ids : m.ids[k] = m.first + k - 1
    BY <1>2 DEF Numbered
  <2>2. m.seq \in Nat /\ LastOf(m) \in Int
    BY <2>1, MessageFacts
  <2>3. m.seq < t.nextMsg /\ LastOf(m) < t.next
    BY ONLY SMTT(30), <1>a, <2>1, <2>2
  <2> QED
    BY <2>1, <2>3 DEF Numbered
<1>11. Numbered(t, m0)
  <2>1. DOMAIN m0.ids = 1 .. n
    BY <1>6, MessageFacts
  <2>2. m0.seq < t.nextMsg /\ LastOf(m0) < t.next
    BY ONLY SMTT(30), <1>a, <1>6
  <2> QED
    BY <1>6, <2>1, <2>2 DEF Numbered
<1>12. m0.seq \notin cm /\ EventsOf(m0) \cap tk = {}
  BY SMTT(30), <1>5, <1>6, <1>8 DEF SenderInv
<1>13. WholeOrNot(m0, tk, cm)
  BY <1>12 DEF WholeOrNot
<1>14. \A m \in s.kept \cup net :
          m.seq # m0.seq /\ EventsOf(m) \cap EventsOf(m0) = {}
  <2> TAKE m \in s.kept \cup net
  <2>1. m \in Message /\ m.seq < s.nextMsg /\ LastOf(m) < s.next
    BY <1>2 DEF Numbered
  <2>2. m.seq \in Nat /\ LastOf(m) \in Int /\ EventsOf(m) = m.first .. LastOf(m)
        /\ m.first \in Nat
    BY <2>1, MessageFacts
  <2> QED
    BY ONLY SMTT(30), <1>6, <1>a, <2>1, <2>2
<1>15. Apart(t.kept \cup net)
  <2>1. t.kept \cup net = (s.kept \cup net) \cup {m0}
    BY <1>7
  <2>2. Apart(s.kept \cup net)
    BY DEF SenderInv
  <2> QED
    BY <1>14, <2>1, <2>2 DEF Apart
<1>16. \A m \in t.kept : t.nextMsg <= m.seq + Window
  <2> TAKE m \in t.kept
  <2>1. CASE m = m0
    BY <1>6, <1>7, <1>8, <2>1, Bounds
  <2>2. CASE m \in s.kept
    <3>1. s.nextMsg - m.seq < Window
      BY <2>2 DEF MayPromote, MessageWindowOpen
    <3> QED
      BY SMTT(30), <1>2, <1>7, <1>8, <2>2, <3>1, MessageFacts, Bounds
  <2> QED
    BY <1>7, <2>1, <2>2
<1>17. Covered(s, tk)
  BY DEF SenderInv
<1>18. Covered(t, tk)
  <2> SUFFICES ASSUME NEW e \in 1 .. t.next - 1
               PROVE  e \in tk \/ \E m \in t.kept : e \in EventsOf(m)
    BY DEF Covered
  <2>1. CASE e \in 1 .. s.next - 1
    BY <1>7, <1>17, <2>1 DEF Covered
  <2>2. CASE e \notin 1 .. s.next - 1
    <3>1. e \in EventsOf(m0)
      BY SMTT(30), <1>5, <1>6, <1>7, <1>8, <2>2
    <3> QED
      BY <1>7, <3>1
  <2> QED
    BY <2>1, <2>2
<1>19. InReach(m0, tk, cm)
  <2> SUFFICES ASSUME NEW e \in 1 .. LastOf(m0) - Selective PROVE e \in tk
    BY DEF InReach
  <2>1. e \in Int /\ 1 <= e /\ e < f /\ f <= s.next
    BY ONLY SMTT(30), <1>3, <1>5, <1>6, <1>a, Bounds, f \in 1 .. s.next,
            e \in 1 .. LastOf(m0) - Selective
  <2>2. \A m \in s.kept : e \notin EventsOf(m)
    <3> TAKE m \in s.kept
    <3>1. m \in Message
      BY <1>2
    <3>2. CASE m = Descriptor
      BY <3>1, <3>2, MessageFacts
    <3>3. CASE m # Descriptor
      BY <1>3, <2>1, <3>1, <3>3, MessageFacts
    <3> QED
      BY <3>2, <3>3
  <2> QED
    BY <1>8, <1>17, <2>1, <2>2 DEF Covered
<1>20. SenderInv(t, net, off, tk, cm)
  <2>1. \A m \in t.kept \cup net :
            Numbered(t, m) /\ WholeOrNot(m, tk, cm) /\ InReach(m, tk, cm)
    BY <1>7, <1>10, <1>11, <1>13, <1>19 DEF SenderInv
  <2>2. tk \subseteq 1 .. t.next - 1 /\ cm \subseteq 1 .. t.nextMsg - 1
    <3>1. tk \subseteq 1 .. s.next - 1 /\ cm \subseteq 1 .. s.nextMsg - 1
      BY DEF SenderInv
    <3>2. s.next - 1 <= t.next - 1 /\ s.nextMsg - 1 <= t.nextMsg - 1
      BY ONLY SMTT(60), <1>a
    <3>3. \A a, b \in Int : a <= b => 1 .. a \subseteq 1 .. b
      OBVIOUS
    <3>4. /\ 1 .. s.next - 1 \subseteq 1 .. t.next - 1
          /\ 1 .. s.nextMsg - 1 \subseteq 1 .. t.nextMsg - 1
      BY ONLY SMTT(60), <1>a, <3>2, <3>3
    <3> QED
      BY ONLY <3>1, <3>4
  <2>3. t.acked /\ 1 \in cm
    BY <1>7 DEF SenderInv, MayPromote
  <2> QED
    BY <1>7, <1>9, <1>15, <1>16, <1>18, <2>1, <2>2, <2>3 DEF SenderInv
<1>21. Held(t) = Held(s)
  <2> DEFINE B(x) == {x.backlog[k].id : k \in DOMAIN x.backlog}
  <2>1. Range(m0.ids) = {s.backlog[k].id : k \in 1 .. n}
    <3>1. m0.ids = [k \in 1 .. n |-> s.backlog[k].id]
      BY DEF m0, n, PromotedMessage
    <3> QED
      BY <3>1 DEF Range
  <2>2. B(t) = {s.backlog[k].id : k \in n + 1 .. Len(s.backlog)}
    <3>1. \A k \in DOMAIN t.backlog : k + n \in n + 1 .. Len(s.backlog)
                                      /\ t.backlog[k] = s.backlog[k + n]
      <4> TAKE k \in DOMAIN t.backlog
      <4>1. k \in 1 .. Len(s.backlog) - n /\ k + n \in n + 1 .. Len(s.backlog)
        BY ONLY SMTT(30), <1>a, <1>8, k \in DOMAIN t.backlog
      <4> QED
        BY <1>7, <4>1
    <3>2. \A j \in n + 1 .. Len(s.backlog) :
              /\ j - n \in DOMAIN t.backlog
              /\ t.backlog[j - n] = s.backlog[j]
      <4> TAKE j \in n + 1 .. Len(s.backlog)
      <4>1. j - n \in 1 .. Len(s.backlog) - n /\ (j - n) + n = j
        BY <1>5, <1>8
      <4> QED
        BY <1>7, <1>8, <4>1
    <3> QED
      BY <3>1, <3>2
  <2>3. B(s) = {s.backlog[k].id : k \in 1 .. n}
               \cup {s.backlog[k].id : k \in n + 1 .. Len(s.backlog)}
    <3>1. DOMAIN s.backlog = (1 .. n) \cup (n + 1 .. Len(s.backlog))
      BY <1>5, <1>8
    <3> QED
      BY <3>1
  <2>4. UNION {Range(m.ids) : m \in t.kept}
          = Range(m0.ids) \cup UNION {Range(m.ids) : m \in s.kept}
    BY <1>7
  <2> QED
    BY <2>1, <2>2, <2>3, <2>4 DEF Held
<1> QED
  BY <1>7, <1>20, <1>21 DEF t

\* What every round keeps, the pump keeps.
LEMMA PumpStays ==
    ASSUME NEW V, NEW s \in V, Len(s.backlog) \in Nat,
           \A t \in V : PumpRound(t) \in V
    PROVE  Pumped(s) \in V
<1> DEFINE N == Len(s.backlog)
           F(f) == [k \in 0 .. N |-> IF k = 0 THEN s ELSE PumpRound(f[k - 1])]
           after == CHOOSE f : f = F(f)
           h == [k \in 1 .. N |-> [t \in V |-> PumpRound(t)]]
<1>1. h \in Steps(N, V) /\ N \in Nat
  BY DEF Steps
<1>2. PICK g : Iterates(g, N, V, s, h)
  <2> HIDE DEF h, N
  <2> QED
    BY <1>1, RecursionExists
<1>3. g = F(g)
  <2>1. \A k \in 1 .. N : k - 1 \in 0 .. N /\ g[k - 1] \in V
    BY <1>1, <1>2 DEF Iterates
  <2>2. \A k \in 1 .. N : g[k] = PumpRound(g[k - 1])
    BY <1>2, <2>1 DEF Iterates
  <2>3. ASSUME NEW k \in 0 .. N PROVE g[k] = F(g)[k]
    <3>1. CASE k = 0
      BY <1>2, <3>1 DEF Iterates
    <3>2. CASE k # 0
      <4>1. k \in 1 .. N
        BY <1>1, <3>2
      <4> QED
        BY <2>2, <3>2, <4>1
    <3> QED
      BY <3>1, <3>2
  <2> QED
    BY <1>2, <2>3 DEF Iterates
<1>4. after = F(after)
  BY <1>3
<1>5. Pumped(s) = after[N]
  BY DEF Pumped
<1> HIDE DEF after
<1>6. after[0] = s /\ \A k \in 1 .. N : after[k] = PumpRound(after[k - 1])
  <2>1. \A k \in 0 .. N : after[k] = F(after)[k]
    BY <1>4
  <2>2. 0 \in 0 .. N /\ \A k \in 1 .. N : k \in 0 .. N /\ k # 0
    BY <1>1
  <2> QED
    BY <2>1, <2>2
<1> HIDE DEF N
<1> DEFINE T == {k \in 0 .. N : after[k] \in V}
<1>7. 0 \in T /\ \A k \in 1 .. N : k - 1 \in T => k \in T
  BY <1>1, <1>6
<1>8. \A k \in 0 .. N : k \in T
  <2> HIDE DEF T
  <2> QED
    BY <1>1, <1>7, AllUpTo
<1> QED
  BY <1>1, <1>5, <1>8

\* The pump moves candidates from the backlog to messages and nothing else.
LEMMA PumpKeeps ==
    ASSUME NEW s, NEW net, NEW off \in 0 .. MaxEvents, NEW tk, NEW cm,
           SenderInv(s, net, off, tk, cm), s.life # "cancelled"
    PROVE  /\ SenderInv(Pumped(s), net, off, tk, cm)
           /\ Held(Pumped(s)) = Held(s)
           /\ Pumped(s).life = s.life
<1> DEFINE V == {t \in ServerState : /\ SenderInv(t, net, off, tk, cm)
                                     /\ Held(t) = Held(s)
                                     /\ t.life = s.life}
<1>1. s \in V /\ Len(s.backlog) \in Nat
  BY ServerFacts DEF SenderInv
<1>2. ASSUME NEW t \in V PROVE PumpRound(t) \in V
  <2>1. CASE MayPromote(t)
    <3>1. /\ SenderInv(Promote(t), net, off, tk, cm)
          /\ Held(Promote(t)) = Held(t) /\ Promote(t).life = t.life
      BY <2>1, PromoteKeeps
    <3> QED
      BY <2>1, <3>1 DEF PumpRound, SenderInv
  <2>2. CASE ~MayPromote(t)
    BY <2>2 DEF PumpRound
  <2> QED
    BY <2>1, <2>2
<1>3. Pumped(s) \in V
  <2> HIDE DEF V
  <2> QED
    BY <1>1, <1>2, PumpStays
<1> QED
  BY <1>3

-----------------------------------------------------------------------------
(***************************************************************************)
(* What else happens to the sender and to what is known of it.             *)
(***************************************************************************)
LEMMA QueueKeeps ==
    ASSUME SenderInv(server, Range(down), offered, taken, client.committed),
           offered \in 0 .. MaxEvents, NEW n \in Event, NEW fresh \in BOOLEAN,
           server.life = "active", offered + n <= MaxEvents, Fits(server, n),
           NEW t, t = [server EXCEPT !.backlog = Queued(server, n, fresh)]
    PROVE  /\ SenderInv(t, Range(down), offered + n, taken, client.committed)
           /\ Held(t) = Held(server) \cup (offered + 1 .. offered + n)
           /\ t.life = server.life
<1> DEFINE b == server.backlog
           new == [k \in 1 .. n |-> [id |-> offered + k, fresh |-> fresh /\ k = 1]]
<1>1. server \in ServerState /\ BacklogInOrder(server, offered)
  BY DEF SenderInv
<1>2. /\ b \in Seq(Candidate) /\ Len(b) \in Nat /\ DOMAIN b = 1 .. Len(b)
      /\ n \in Nat /\ n >= 1 /\ offered \in Nat /\ MaxEvents \in Nat
      /\ server.next \in Nat
  BY SMTT(30), <1>1, ServerFacts, Bounds DEF Event
<1>3. new \in Seq(Candidate) /\ Len(new) = n
  <2>1. \A k \in 1 .. n : offered + k \in 1 .. MaxEvents
    BY ONLY <1>2, offered + n <= MaxEvents
  <2>2. new \in [1 .. n -> Candidate]
    BY <2>1 DEF Candidate, Event
  <2> HIDE DEF new
  <2>3. new \in Seq(Candidate)
    BY <1>2, <2>2, SeqDef
  <2> QED
    BY <1>2, <2>2, <2>3, LenProperties
<1>4. Queued(server, n, fresh) = b \o new
  BY DEF Queued
<1>5. \A k \in 1 .. n : new[k].id = offered + k
  OBVIOUS
<1> HIDE DEF new
<1>6. /\ b \o new \in Seq(Candidate) /\ Len(b \o new) = Len(b) + n
      /\ DOMAIN (b \o new) = 1 .. Len(b) + n
      /\ \A k \in 1 .. Len(b) + n :
            (b \o new)[k] = IF k <= Len(b) THEN b[k] ELSE new[k - Len(b)]
  <2> HIDE DEF b
  <2>1. /\ b \o new \in Seq(Candidate) /\ Len(b \o new) = Len(b) + Len(new)
        /\ \A k \in 1 .. Len(b) + Len(new) :
              (b \o new)[k] = IF k <= Len(b) THEN b[k] ELSE new[k - Len(b)]
    BY <1>2, <1>3, ConcatProperties
  <2>2. DOMAIN (b \o new) = 1 .. Len(b \o new)
    BY <2>1
  <2> QED
    BY <1>3, <2>1, <2>2
<1>7. b \o new \in BoundedSeq(Candidate, Backlog)
  <2>1. Len(b \o new) <= Backlog
    BY <1>6 DEF Fits
  <2> QED
    BY <1>6, <2>1, Bounds, BoundedIsSeq
<1>8. /\ t \in ServerState /\ t.backlog = b \o new /\ t.life = server.life
      /\ t.next = server.next /\ t.kept = server.kept /\ t.acked = server.acked
      /\ t.nextMsg = server.nextMsg
  BY <1>1, <1>4, <1>7 DEF ServerState
<1>9. server.next + Len(b) = offered + 1
      /\ \A k \in DOMAIN b : b[k].id = server.next + k - 1
  BY <1>1 DEF BacklogInOrder
<1>10. \A k \in 1 .. Len(b) + n : t.backlog[k].id = t.next + k - 1
  <2> TAKE k \in 1 .. Len(b) + n
  <2>1. CASE k <= Len(b)
    <3>1. k \in DOMAIN b
      BY <1>2, <2>1
    <3> QED
      BY <1>6, <1>8, <1>9, <2>1, <3>1
  <2>2. CASE ~(k <= Len(b))
    <3>1. k - Len(b) \in 1 .. n /\ offered + (k - Len(b)) = server.next + k - 1
      <4>2. /\ Len(b) \in Nat /\ offered \in Nat /\ server.next \in Nat
            /\ server.next + Len(b) = offered + 1
        BY ONLY <1>2, <1>9
      <4>3. offered + (k - Len(b)) = server.next + k - 1
        BY ONLY SMTT(60), <4>2, k \in 1 .. Len(b) + n, <1>2
      <4>4. k - Len(b) \in 1 .. n
        BY ONLY <1>2, <2>2, k \in 1 .. Len(b) + n
      <4> QED
        BY <4>3, <4>4
    <3> QED
      BY <1>5, <1>6, <1>8, <2>2, <3>1
  <2> QED
    BY <2>1, <2>2
<1>11. BacklogInOrder(t, offered + n)
  <2>1. t.next + Len(t.backlog) = offered + n + 1
    <3>1. \A x, l, o, y \in Int : x + l = o + 1 => x + (l + y) = o + y + 1
      OBVIOUS
    <3>2. t.next = server.next /\ Len(t.backlog) = Len(b) + n
      BY <1>6, <1>8
    <3>3. server.next \in Int /\ Len(b) \in Int /\ offered \in Int /\ n \in Int
          /\ server.next + Len(b) = offered + 1
      BY <1>2, <1>9
    <3> QED
      BY ONLY <3>1, <3>2, <3>3
  <2>2. DOMAIN t.backlog = 1 .. Len(b) + n
    BY <1>6, <1>8
  <2>3. server.nextMsg <= server.next + 1
    BY <1>1 DEF BacklogInOrder
  <2>4. t.next + Len(t.backlog) <= offered + n + 1
    BY ONLY <1>2, <2>1
  <2>5. \A k \in DOMAIN t.backlog : t.backlog[k].id = t.next + k - 1
    BY <1>10, <2>2
  <2> QED
    BY <1>8, <2>1, <2>3, <2>4, <2>5 DEF BacklogInOrder
<1>12. SenderInv(t, Range(down), offered + n, taken, client.committed)
  <2>1. \A m : Numbered(t, m) <=> Numbered(server, m)
    BY <1>8 DEF Numbered
  <2>2. Covered(t, taken) <=> Covered(server, taken)
    BY <1>8 DEF Covered
  <2> QED
    BY <1>8, <1>11, <2>1, <2>2 DEF SenderInv
<1>13. Held(t) = Held(server) \cup (offered + 1 .. offered + n)
  <2>1. {t.backlog[k].id : k \in DOMAIN t.backlog}
          = {b[k].id : k \in DOMAIN b} \cup (offered + 1 .. offered + n)
    <3>1. \A k \in DOMAIN b : k \in DOMAIN t.backlog /\ t.backlog[k] = b[k]
      BY <1>2, <1>6, <1>8
    <3>2. \A e \in offered + 1 .. offered + n :
              /\ e - offered + Len(b) \in DOMAIN t.backlog
              /\ t.backlog[e - offered + Len(b)].id = e
      <4> TAKE e \in offered + 1 .. offered + n
      <4>1. e - offered + Len(b) \in 1 .. Len(b) + n
            /\ t.next + (e - offered + Len(b)) - 1 = e
        <5>1. \A x, l, o, y \in Int :
                  x + l = o + 1 => x + (y - o + l) - 1 = y
          OBVIOUS
        <5>2. e \in Int /\ t.next \in Int /\ Len(b) \in Int /\ offered \in Int
              /\ t.next + Len(b) = offered + 1
          BY <1>2, <1>8, <1>9
        <5>3. e - offered + Len(b) \in 1 .. Len(b) + n
          BY ONLY <1>2, e \in offered + 1 .. offered + n
        <5> QED
          BY ONLY <5>1, <5>2, <5>3
      <4> QED
        BY <1>6, <1>8, <1>10, <4>1
    <3>3. \A k \in DOMAIN t.backlog :
              k \in DOMAIN b \/ t.backlog[k].id \in offered + 1 .. offered + n
      <4> TAKE k \in DOMAIN t.backlog
      <4>1. k \in 1 .. Len(b) + n
        BY <1>6, <1>8
      <4>2. k \in 1 .. Len(b) \/ t.next + k - 1 \in offered + 1 .. offered + n
        BY ONLY SMTT(30), <1>2, <1>8, <1>9, <4>1
      <4> QED
        BY <1>2, <1>10, <4>1, <4>2
    <3> QED
      BY <3>1, <3>2, <3>3
  <2> QED
    BY <1>8, <2>1 DEF Held
<1> QED
  BY <1>8, <1>12, <1>13

LEMMA ReleaseKeeps ==
    ASSUME NEW s, NEW net, NEW off, NEW tk, NEW cm, NEW S \in SUBSET cm,
           SenderInv(s, net, off, tk, cm)
    PROVE  /\ SenderInv(Released(s, S), net, off, tk, cm)
           /\ Held(Released(s, S)) \subseteq Held(s)
           /\ Held(s) \ Held(Released(s, S)) \subseteq tk
           /\ Released(s, S).life = s.life
<1> DEFINE t == Released(s, S)
<1>1. s \in ServerState
  BY DEF SenderInv
<1>2. /\ t \in ServerState
      /\ t.kept = {m \in s.kept : m.seq \notin S}
      /\ t.acked = (s.acked \/ 1 \in S)
      /\ t.life = s.life /\ t.backlog = s.backlog /\ t.next = s.next
      /\ t.nextMsg = s.nextMsg
  BY <1>1 DEF Released, ServerState
<1> HIDE DEF t
<1>3. t.kept \cup net \subseteq s.kept \cup net /\ t.kept \subseteq s.kept
  BY <1>2
<1>4. \A m \in s.kept \ t.kept : EventsOf(m) \subseteq tk
  <2> TAKE m \in s.kept \ t.kept
  <2>1. m.seq \in cm /\ WholeOrNot(m, tk, cm)
    BY <1>2 DEF SenderInv
  <2> QED
    BY <2>1 DEF WholeOrNot
<1>5. BacklogInOrder(t, off)
  BY <1>2 DEF SenderInv, BacklogInOrder
<1>6. \A m : Numbered(t, m) <=> Numbered(s, m)
  BY <1>2 DEF Numbered
<1>7. Apart(t.kept \cup net)
  BY <1>3 DEF SenderInv, Apart
<1>8. Covered(t, tk)
  <2> SUFFICES ASSUME s.life # "cancelled", NEW e \in 1 .. s.next - 1
               PROVE  e \in tk \/ \E m \in t.kept : e \in EventsOf(m)
    BY <1>2 DEF Covered
  <2>1. e \in tk \/ \E m \in s.kept : e \in EventsOf(m)
    BY DEF SenderInv, Covered
  <2> QED
    BY <1>4, <2>1
<1>9. SenderInv(t, net, off, tk, cm)
  <2>1. \A m \in t.kept \cup net :
            Numbered(t, m) /\ WholeOrNot(m, tk, cm) /\ InReach(m, tk, cm)
    BY <1>3, <1>6 DEF SenderInv
  <2>2. \A m \in t.kept : t.nextMsg <= m.seq + Window
    BY <1>2 DEF SenderInv
  <2>3. /\ tk \subseteq 1 .. t.next - 1 /\ cm \subseteq 1 .. t.nextMsg - 1
        /\ t.acked => 1 \in cm
        /\ t.nextMsg > 2 => t.acked
    BY <1>2 DEF SenderInv
  <2> QED
    BY <1>2, <1>5, <1>7, <1>8, <2>1, <2>2, <2>3 DEF SenderInv
<1>10. \A m \in s.kept : Range(m.ids) = EventsOf(m)
  <2> TAKE m \in s.kept
  <2>1. Numbered(s, m)
    BY DEF SenderInv
  <2> QED
    BY <2>1 DEF Numbered, Range, EventsOf
<1>11. Held(t) \subseteq Held(s) /\ Held(s) \ Held(t) \subseteq tk
  BY <1>2, <1>3, <1>4, <1>10 DEF Held
<1> QED
  BY <1>2, <1>9, <1>11 DEF t

\* The lane drains, or is cancelled.
LEMMA LifeKeeps ==
    ASSUME NEW s, NEW net, NEW off, NEW tk, NEW cm,
           SenderInv(s, net, off, tk, cm), s.life = "active"
    PROVE  LET d == [s EXCEPT !.life = "drain"]
               c == [s EXCEPT !.life = "cancelled", !.backlog = <<>>, !.kept = {}]
           IN  /\ SenderInv(d, net, off, tk, cm) /\ Held(d) = Held(s)
               /\ SenderInv(c, net, off, tk, cm) /\ Held(c) = {}
               /\ d.life = "drain" /\ c.life = "cancelled"
<1> DEFINE d == [s EXCEPT !.life = "drain"]
           c == [s EXCEPT !.life = "cancelled", !.backlog = <<>>, !.kept = {}]
<1>1. s \in ServerState /\ BacklogInOrder(s, off)
  BY DEF SenderInv
<1>2. /\ d \in ServerState /\ d.life = "drain"
      /\ d.kept = s.kept /\ d.backlog = s.backlog /\ d.next = s.next
      /\ d.nextMsg = s.nextMsg /\ d.acked = s.acked
  BY <1>1 DEF ServerState
<1>3. /\ c \in ServerState /\ c.life = "cancelled"
      /\ c.kept = {} /\ c.backlog = <<>> /\ c.next = s.next
      /\ c.nextMsg = s.nextMsg /\ c.acked = s.acked
  <2>1. <<>> \in BoundedSeq(Candidate, Backlog)
    <3>1. <<>> \in Seq(Candidate) /\ Len(<<>>) <= Backlog
      BY Bounds
    <3> QED
      BY <3>1, Bounds, BoundedIsSeq
  <2> QED
    BY <1>1, <2>1 DEF ServerState
<1> HIDE DEF c, d
<1>4. SenderInv(d, net, off, tk, cm)
  <2>1. BacklogInOrder(d, off)
    BY <1>1, <1>2 DEF BacklogInOrder
  <2>2. \A m : Numbered(d, m) <=> Numbered(s, m)
    BY <1>2 DEF Numbered
  <2>3. Covered(d, tk)
    BY <1>2 DEF Covered, SenderInv
  <2> QED
    BY <1>2, <2>1, <2>2, <2>3 DEF SenderInv
<1>5. SenderInv(c, net, off, tk, cm)
  <2>1. BacklogInOrder(c, off)
    <3>1. /\ s.next \in Nat /\ Len(s.backlog) \in Nat
          /\ s.next + Len(s.backlog) = off + 1 /\ s.nextMsg <= s.next + 1
      BY <1>1, ServerFacts DEF BacklogInOrder
    <3>2. c.next + Len(c.backlog) <= off + 1
      <4>1. Len(c.backlog) = 0 /\ c.next = s.next
        BY <1>3
      <4>2. \A x, l, y \in Int : x + l = y /\ l >= 0 => x + 0 <= y
        OBVIOUS
      <4>3. s.next + 0 <= off + 1
        BY ONLY <3>1, <4>2
      <4> QED
        BY <4>1, <4>3
    <3> QED
      BY <1>3, <3>1, <3>2 DEF BacklogInOrder
  <2>2. \A m : Numbered(c, m) <=> Numbered(s, m)
    BY <1>3 DEF Numbered
  <2>3. Covered(c, tk)
    BY <1>3 DEF Covered
  <2>4. Apart(c.kept \cup net)
    BY <1>3 DEF Apart, SenderInv
  <2> QED
    BY <1>3, <2>1, <2>2, <2>3, <2>4 DEF SenderInv
<1>6. Held(d) = Held(s) /\ Held(c) = {}
  BY <1>2, <1>3 DEF Held
<1> QED
  BY <1>2, <1>3, <1>4, <1>5, <1>6 DEF c, d

\* What is under way is lost, or is one of the messages that are kept.
LEMMA NetKeeps ==
    ASSUME NEW s, NEW net, NEW off, NEW tk, NEW cm, NEW net2,
           SenderInv(s, net, off, tk, cm), net2 \subseteq s.kept \cup net
    PROVE  SenderInv(s, net2, off, tk, cm)
<1>1. s.kept \cup net2 \subseteq s.kept \cup net
  OBVIOUS
<1>2. Apart(s.kept \cup net2)
  BY <1>1 DEF SenderInv, Apart
<1> QED
  BY <1>1, <1>2 DEF SenderInv

\* A message is taken that was not taken before.
LEMMA TakeKeeps ==
    ASSUME NEW s, NEW net, NEW off, NEW tk, NEW cm, NEW m0 \in s.kept \cup net,
           SenderInv(s, net, off, tk, cm), m0.seq \notin cm
    PROVE  SenderInv(s, net, off, tk \cup EventsOf(m0), cm \cup {m0.seq})
<1> DEFINE tk2 == tk \cup EventsOf(m0)
           cm2 == cm \cup {m0.seq}
<1>1. \A m \in s.kept \cup net : /\ Numbered(s, m) /\ m \in Message
                                 /\ WholeOrNot(m, tk, cm) /\ InReach(m, tk, cm)
  BY DEF SenderInv, Numbered
<1>2. \A m \in s.kept \cup net : WholeOrNot(m, tk2, cm2)
  <2> TAKE m \in s.kept \cup net
  <2>1. CASE m.seq = m0.seq
    <3>1. m = m0
      BY <2>1 DEF SenderInv, Apart
    <3> QED
      BY <3>1 DEF WholeOrNot
  <2>2. CASE m.seq # m0.seq
    <3>1. EventsOf(m) \cap EventsOf(m0) = {}
      BY <2>2 DEF SenderInv, Apart
    <3> QED
      BY <1>1, <2>2, <3>1 DEF WholeOrNot
  <2> QED
    BY <2>1, <2>2
<1>3. \A m \in s.kept \cup net : InReach(m, tk2, cm2)
  BY <1>1 DEF InReach
<1>4. Covered(s, tk2)
  BY DEF SenderInv, Covered
<1>5. tk2 \subseteq 1 .. s.next - 1 /\ cm2 \subseteq 1 .. s.nextMsg - 1
  <2>1. /\ m0.seq \in Nat /\ m0.first \in Nat /\ LastOf(m0) \in Int
        /\ EventsOf(m0) = m0.first .. LastOf(m0)
        /\ m0 # Descriptor => m0.seq > 1 /\ m0.first \in Event
        /\ m0 = Descriptor => EventsOf(m0) = {} /\ m0.seq = 1
    BY <1>1, MessageFacts
  <2>2. m0.seq < s.nextMsg /\ LastOf(m0) < s.next
    BY <1>1 DEF Numbered
  <2>3. s.next \in Nat /\ s.nextMsg \in Nat
    BY ServerFacts DEF SenderInv
  <2>4. m0.seq \in 1 .. s.nextMsg - 1
    BY ONLY <2>1, <2>2, <2>3
  <2>5. EventsOf(m0) \subseteq 1 .. s.next - 1
    <3>1. CASE m0 = Descriptor
      BY <2>1, <3>1
    <3>2. CASE m0 # Descriptor
      <4>1. m0.first >= 1
        BY <2>1, <3>2, Bounds DEF Event
      <4> QED
        BY ONLY <2>1, <2>2, <2>3, <4>1
    <3> QED
      BY <3>1, <3>2
  <2> QED
    BY <2>4, <2>5 DEF SenderInv
<1> QED
  BY <1>1, <1>2, <1>3, <1>4, <1>5 DEF SenderInv

-----------------------------------------------------------------------------
(***************************************************************************)
(* Facts about the state.                                                  *)
(***************************************************************************)
Ledger == UNION {[S -> 0 .. Handoffs] : S \in SUBSET MessageSeq}

LEMMA LedgerIs ==
    ASSUME NEW f
    PROVE  f \in Ledger <=> /\ f = [q \in DOMAIN f |-> f[q]]
                            /\ DOMAIN f \subseteq MessageSeq
                            /\ \A q \in DOMAIN f : f[q] \in 0 .. Handoffs
<1>1. ASSUME f \in Ledger PROVE f \in [DOMAIN f -> 0 .. Handoffs]
                                /\ DOMAIN f \subseteq MessageSeq
  BY <1>1 DEF Ledger
<1>2. ASSUME f \in [DOMAIN f -> 0 .. Handoffs], DOMAIN f \subseteq MessageSeq
      PROVE  f \in Ledger
  BY <1>2 DEF Ledger
<1> QED
  BY <1>1, <1>2

LEMMA ClientFacts ==
    ASSUME NEW c \in ClientState
    PROVE  /\ c.mode \in {"active", "drain"} /\ c.quiesced \in BOOLEAN
           /\ c.owner \in {"none", "active", "resync"}
           /\ c.committed \subseteq MessageSeq
           /\ c.ledger \in Ledger
           /\ DOMAIN c.ledger \subseteq MessageSeq
BY LedgerIs DEF ClientState, Ledger

LEMMA StateFacts ==
    ASSUME TypeOK
    PROVE  /\ server \in ServerState /\ offered \in 0 .. MaxEvents
           /\ down \in Seq(Message) /\ Len(down) <= MaxInFlight
           /\ up \in Seq(SUBSET MessageSeq) /\ Len(up) <= MaxInFlight
           /\ client \in ClientState /\ consumer \in ConsumerState
           /\ shown \in Seq(Event) /\ Len(shown) <= MaxEvents
           /\ taken \subseteq Event
BY Bounds, BoundedIsSeq DEF TypeOK

\* The packet that arrives, and what is left behind it.
LEMMA HeadFacts ==
    ASSUME NEW S, NEW q \in Seq(S), q # <<>>, Len(q) <= MaxInFlight
    PROVE  /\ Head(q) \in S /\ Head(q) = q[1] /\ 1 \in DOMAIN q
           /\ Head(q) \in Range(q)
           /\ Tail(q) \in BoundedSeq(S, MaxInFlight)
           /\ Range(Tail(q)) \subseteq Range(q)
           /\ DOMAIN Tail(q) = 1 .. Len(q) - 1 /\ DOMAIN q = 1 .. Len(q)
           /\ \A i \in 1 .. Len(q) - 1 : i + 1 \in DOMAIN q /\ Tail(q)[i] = q[i + 1]
<1>1. /\ Head(q) \in S /\ Head(q) = q[1] /\ Len(q) \in Nat /\ Len(q) >= 1
      /\ DOMAIN q = 1 .. Len(q)
  OBVIOUS
<1>2. /\ Tail(q) \in Seq(S) /\ Len(Tail(q)) = Len(q) - 1
      /\ \A i \in 1 .. Len(q) - 1 : Tail(q)[i] = q[i + 1]
  BY HeadTailProperties
<1>3. DOMAIN Tail(q) = 1 .. Len(q) - 1
  BY <1>2
<1>4. \A i \in 1 .. Len(q) - 1 : i + 1 \in DOMAIN q
  BY <1>1
<1>5. Range(Tail(q)) \subseteq Range(q)
  BY <1>2, <1>3, <1>4 DEF Range
<1>6. Tail(q) \in BoundedSeq(S, MaxInFlight)
  <2>1. Len(Tail(q)) <= MaxInFlight
    BY ONLY <1>1, <1>2, Len(q) <= MaxInFlight, Bounds
  <2> QED
    BY <1>2, <2>1, Bounds, BoundedIsSeq
<1>7. Head(q) \in Range(q)
  BY <1>1 DEF Range
<1> QED
  BY <1>1, <1>2, <1>3, <1>4, <1>5, <1>6, <1>7

LEMMA AppendFacts ==
    ASSUME NEW S, NEW q \in Seq(S), NEW x \in S, Len(q) < MaxInFlight
    PROVE  /\ Append(q, x) \in BoundedSeq(S, MaxInFlight)
           /\ Range(Append(q, x)) = Range(q) \cup {x}
           /\ DOMAIN Append(q, x) = 1 .. Len(q) + 1 /\ DOMAIN q = 1 .. Len(q)
           /\ \A i \in 1 .. Len(q) : Append(q, x)[i] = q[i]
           /\ Append(q, x)[Len(q) + 1] = x
           /\ Len(q) \in Nat
<1>1. /\ Append(q, x) \in Seq(S) /\ Len(Append(q, x)) = Len(q) + 1
      /\ \A i \in 1 .. Len(q) : Append(q, x)[i] = q[i]
      /\ Append(q, x)[Len(q) + 1] = x
      /\ Len(q) \in Nat /\ DOMAIN q = 1 .. Len(q)
  BY AppendProperties
<1>2. DOMAIN Append(q, x) = 1 .. Len(q) + 1
  BY <1>1
<1>3. Append(q, x) \in BoundedSeq(S, MaxInFlight)
  <2>1. Len(Append(q, x)) <= MaxInFlight
    BY ONLY <1>1, Len(q) < MaxInFlight, Bounds
  <2> QED
    BY <1>1, <2>1, Bounds, BoundedIsSeq
<1>4. 1 .. Len(q) + 1 = (1 .. Len(q)) \cup {Len(q) + 1}
  BY ONLY <1>1
<1>5. Range(Append(q, x)) = Range(q) \cup {x}
  BY <1>1, <1>2, <1>4 DEF Range
<1> QED
  BY <1>1, <1>2, <1>3, <1>5

\* The receipts that are left when one becomes due.
LEMMA ReceiptedFacts ==
    ASSUME NEW c \in ClientState, NEW seq \in MessageSeq,
           DOMAIN c.ledger \subseteq c.committed
    PROVE  /\ Receipted(c, seq) \in Ledger
           /\ DOMAIN Receipted(c, seq) \subseteq c.committed \cup {seq}
           /\ seq \in DOMAIN Receipted(c, seq)
           /\ \A q \in DOMAIN c.ledger :
                 (\A p \in c.committed \cup {seq} : p < q + Window)
                    => q \in DOMAIN Receipted(c, seq)
<1> DEFINE all == c.committed \cup {seq}
<1>1. c.committed \subseteq MessageSeq /\ c.ledger \in Ledger
      /\ DOMAIN c.ledger \subseteq MessageSeq
  BY ClientFacts
<1>2. all \subseteq 0 .. MaxEvents + 1 /\ all # {} /\ MaxEvents + 1 \in Nat
  BY <1>1, Bounds DEF MessageSeq
<1>3. Max(all) \in all
  <2> HIDE DEF all
  <2> QED
    BY <1>2, MaxIs
<1>4. DOMAIN Receipted(c, seq) = Proven(c, seq)
      /\ Receipted(c, seq) = [q \in Proven(c, seq) |->
                                IF q = seq THEN Handoffs ELSE c.ledger[q]]
  BY DEF Receipted
<1>5. Proven(c, seq) = (DOMAIN c.ledger \cap {q \in all : q + Window > Max(all)})
                       \cup {seq}
  BY DEF Proven
<1>6. Receipted(c, seq) \in Ledger
  <2>1. \A q \in Proven(c, seq) :
            (IF q = seq THEN Handoffs ELSE c.ledger[q]) \in 0 .. Handoffs
    BY <1>1, <1>5, LedgerIs, Bounds
  <2>2. Proven(c, seq) \subseteq MessageSeq
    BY <1>1, <1>5
  <2> QED
    BY <1>4, <2>1, <2>2, LedgerIs
<1>7. ASSUME NEW q \in DOMAIN c.ledger, \A p \in all : p < q + Window
      PROVE  q \in Proven(c, seq)
  <2>1. q \in all /\ Max(all) < q + Window
    BY <1>3, <1>7
  <2>2. q \in Nat /\ Max(all) \in Nat
    BY <1>2, <1>3, <2>1
  <2> QED
    BY <1>5, <2>1, <2>2, Bounds
<1> QED
  BY <1>4, <1>5, <1>6, <1>7

-----------------------------------------------------------------------------
(***************************************************************************)
(* The client's verdict on the message that arrives.                       *)
(***************************************************************************)

\* It is not too old, the stream is known when it is an event, and if it came
\* before its receipt is there.
LEMMA ArrivalFacts ==
    ASSUME IInv, Connected, down # <<>>
    PROVE  LET m == Head(down) IN
           /\ m \in Range(down) /\ m \in Message
           /\ Numbered(server, m)
           /\ WholeOrNot(m, taken, client.committed)
           /\ InReach(m, taken, client.committed)
           /\ ~Behind(client, m)
           /\ Repeated(client, m) <=> m.seq \in client.committed
           /\ m # Descriptor => 1 \in client.committed
           /\ client.mode = "active" /\ m.seq \in client.committed
                => m.seq \in DOMAIN client.ledger
<1> DEFINE m == Head(down)
<1>1. /\ m \in Range(down) /\ m \in Message /\ m = down[1] /\ 1 \in DOMAIN down
  BY StateFacts, HeadFacts DEF IInv
<1>2. /\ Numbered(server, m) /\ WholeOrNot(m, taken, client.committed)
      /\ InReach(m, taken, client.committed)
  BY <1>1 DEF IInv, SenderInv
<1>3. m.seq \in Nat /\ (m # Descriptor => m.seq > 1)
  BY <1>1, MessageFacts
<1>4. \A q \in client.committed : q < m.seq + Window
  BY <1>1 DEF IInv, NetworkInv
<1> HIDE DEF m
<1>5. ~Behind(client, m)
  <2> DEFINE all == client.committed \cup {0}
  <2>1. all \subseteq 0 .. MaxEvents + 1 /\ all # {} /\ MaxEvents + 1 \in Nat
    BY StateFacts, ClientFacts, Bounds DEF IInv, MessageSeq
  <2>2. \A q \in all : q < m.seq + Window
    BY <1>3, <1>4, Bounds
  <2> HIDE DEF all
  <2>3. Max(all) \in all
    BY <2>1, MaxIs
  <2>4. Max(all) \in 0 .. MaxEvents + 1 /\ Max(all) < m.seq + Window
    <3>1. \A x \in all : x \in 0 .. MaxEvents + 1 /\ x < m.seq + Window
      BY <2>1, <2>2
    <3> QED
      BY ONLY <2>3, <3>1
  <2> QED
    BY <1>3, <2>4, Bounds DEF Behind, HistoryTop, all
<1>6. Repeated(client, m) <=> m.seq \in client.committed
  BY <1>5 DEF Repeated
<1>7. ASSUME m # Descriptor PROVE 1 \in client.committed
  <2>1. m.seq < server.nextMsg /\ server.nextMsg \in Nat
    BY <1>2, StateFacts, ServerFacts DEF Numbered, IInv
  <2>2. server.nextMsg > 2
    BY <1>3, <1>7, <2>1
  <2> QED
    BY <2>2 DEF IInv, SenderInv
<1>8. ASSUME client.mode = "active", m.seq \in client.committed
      PROVE  m.seq \in DOMAIN client.ledger
  BY <1>4, <1>8 DEF IInv, ReceiptInv
<1> QED
  BY <1>1, <1>2, <1>5, <1>6, <1>7, <1>8 DEF m

\* An event message lies in the window of the consumer.
LEMMA InsideWindow ==
    ASSUME IInv, Connected, down # <<>>, Head(down) # Descriptor,
           Head(down).seq \notin client.committed,
           consumer.life = "active"
    PROVE  ~OutsideWindow(consumer.got, Head(down))
<1> DEFINE m == Head(down)
           reach == {k \in 0 .. MaxEvents : 1 .. k \subseteq DOMAIN consumer.got}
<1>1. /\ m \in Message /\ Numbered(server, m)
      /\ InReach(m, taken, client.committed)
  BY ArrivalFacts
<1>2. /\ m.first \in Event /\ LastOf(m) \in Int
      /\ Len(m.ids) \in 1 .. BatchMax
      /\ EventsOf(m) = m.first .. LastOf(m)
  BY <1>1, MessageFacts
<1>3. DOMAIN consumer.got = taken
  BY DEF IInv, ConsumerInv
<1>4. LastOf(m) <= MaxEvents
  <2>1. LastOf(m) < server.next /\ server.next \in 1 .. MaxEvents + 1
    BY <1>1, StateFacts, ServerFacts DEF Numbered, IInv
  <2> QED
    BY ONLY <1>2, <2>1, Bounds
<1>5. \A e \in 1 .. LastOf(m) - Selective : e \in taken
  BY <1>1 DEF InReach
<1>6. m.first <= LastOf(m) /\ m.first \in Nat /\ m.first >= 1
  BY <1>2, Bounds DEF LastOf, Event
<1> HIDE DEF m
<1>7. Max(EventsOf(m)) = LastOf(m)
  <2>1. EventsOf(m) \subseteq 0 .. MaxEvents /\ LastOf(m) \in EventsOf(m)
        /\ EventsOf(m) # {}
    <3>1. \A a, b, n \in Int : a >= 1 /\ a <= b /\ b <= n =>
              a .. b \subseteq 0 .. n /\ b \in a .. b
      OBVIOUS
    <3>2. m.first \in Int /\ LastOf(m) \in Int /\ MaxEvents \in Int
      BY <1>2, <1>6, Bounds
    <3>3. m.first .. LastOf(m) \subseteq 0 .. MaxEvents
          /\ LastOf(m) \in m.first .. LastOf(m)
      BY ONLY <1>4, <1>6, <3>1, <3>2
    <3> QED
      BY <1>2, <3>3
  <2>2. Max(EventsOf(m)) \in EventsOf(m)
        /\ \A x \in EventsOf(m) : x <= Max(EventsOf(m))
    BY <2>1, MaxIs, Bounds
  <2> QED
    BY <1>2, <2>1, <2>2
<1>8. reach \subseteq 0 .. MaxEvents /\ 0 \in reach
  BY Bounds
<1>9. Max(reach) \in 0 .. MaxEvents /\ \A x \in reach : x <= Max(reach)
  <2>1. reach # {}
    BY <1>8
  <2> HIDE DEF reach
  <2> QED
    BY <1>8, <2>1, MaxIs, Bounds
<1>10. LastOf(m) - Selective <= Max(reach)
  <2>1. CASE LastOf(m) - Selective <= 0
    BY <1>2, <1>9, <2>1, Bounds
  <2>2. CASE LastOf(m) - Selective > 0
    <3>1. LastOf(m) - Selective \in 0 .. MaxEvents
      BY <1>2, <1>4, <2>2, Bounds
    <3>2. LastOf(m) - Selective \in reach
      BY <1>3, <1>5, <3>1
    <3> QED
      BY <1>9, <3>2
  <2> QED
    BY <1>2, <2>1, <2>2, Bounds
<1>11. Contiguous(consumer.got) = Max(reach)
  BY DEF Contiguous
<1> HIDE DEF reach
<1>12. ~(LastOf(m) > Max(reach) + Selective)
  BY ONLY <1>2, <1>9, <1>10, Bounds
<1> QED
  BY <1>7, <1>11, <1>12 DEF OutsideWindow, m

LEMMA VerdictFacts ==
    ASSUME IInv, Connected, down # <<>>
    PROVE  LET m == Head(down) IN
           /\ Verdict(m) \in {"none", "drain", "consumer", "capacity"}
           /\ Verdict(m) = "none" =>
                 /\ client.mode = "active"
                 /\ m # Descriptor /\ ~Repeated(client, m)
                      => consumer.life = "active"
<1> DEFINE m == Head(down)
<1>1. CASE client.mode = "drain"
  BY <1>1 DEF Verdict
<1>2. CASE client.mode # "drain"
  <2>1. client.mode = "active"
    BY <1>2, StateFacts, ClientFacts DEF IInv
  <2>2. 1 \in client.committed => client.owner = "active"
    BY <2>1 DEF IInv, ConsumerInv
  <2>3. CASE Repeated(client, m)
    <3>1. m.seq \in client.committed /\ m.seq \in DOMAIN client.ledger
      BY <2>1, <2>3, ArrivalFacts
    <3>2. 1 \in client.committed
      <4>1. m = Descriptor => m.seq = 1
        BY DEF Descriptor
      <4> QED
        BY <3>1, <4>1, ArrivalFacts
    <3>3. RepeatVerdict(m) \in {"none", "consumer"}
      BY <2>2, <3>1, <3>2 DEF RepeatVerdict
    <3> QED
      BY <1>2, <2>1, <2>3, <3>3 DEF Verdict
  <2>4. CASE ~Repeated(client, m)
    <3>1. ~Behind(client, m) /\ m.seq \notin client.committed
      BY <2>4, ArrivalFacts
    <3>2. Verdict(m) = NewVerdict(m)
      BY <1>2, <2>4, <3>1 DEF Verdict
    <3>3. CASE m = Descriptor
      BY <2>1, <3>2, <3>3 DEF NewVerdict
    <3>4. CASE m # Descriptor
      <4>1. client.owner = "active"
        BY <2>2, <3>4, ArrivalFacts
      <4>2. consumer.life = "active" => ~OutsideWindow(consumer.got, m)
        BY <3>1, <3>4, InsideWindow
      <4> QED
        BY <2>1, <3>2, <3>4, <4>1, <4>2 DEF NewVerdict
    <3> QED
      BY <3>3, <3>4
  <2> QED
    BY <2>3, <2>4
<1> QED
  BY <1>1, <1>2

-----------------------------------------------------------------------------
(***************************************************************************)
(* The steps of the server and of the network.                             *)
(***************************************************************************)
StreamStep == [Stream!Next]_(Stream!vars)

\* A step of the stream, or none.
LEMMA StreamStays ==
    ASSUME UNCHANGED <<offered, taken, shown>>,
           Held(server') = Held(server),
           server'.life = "cancelled" <=> server.life = "cancelled"
    PROVE  StreamStep
BY DEF StreamStep, Stream!vars

LEMMA StreamLetsGo ==
    ASSUME UNCHANGED <<offered, taken, shown>>,
           Held(server') \subseteq Held(server),
           Held(server) \ Held(server') \subseteq taken,
           server'.life = "cancelled" <=> server.life = "cancelled"
    PROVE  StreamStep
<1> DEFINE S == Held(server) \ Held(server')
<1>1. S \in SUBSET Held(server) /\ S \subseteq Held(server) \cap taken
      /\ Held(server') = Held(server) \ S
  OBVIOUS
<1> HIDE DEF S
<1>2. Stream!LetGo(S)
  BY <1>1 DEF Stream!LetGo
<1> QED
  BY <1>1, <1>2 DEF StreamStep, Stream!Next

\* Only the server changes.
LEMMA ServerStep ==
    ASSUME IInv, UNCHANGED <<network, client, consumer, failure, history>>,
           offered' \in 0 .. MaxEvents,
           SenderInv(server', Range(down), offered', taken, client.committed)
    PROVE  IInv'
<1>1. UNCHANGED <<down, up, taken, shown>>
  BY DEF network, history
<1>2. TypeOK'
  BY <1>1 DEF IInv, TypeOK, SenderInv
<1>3. SenderInv(server', Range(down'), offered', taken', client'.committed)
  BY <1>1
<1>4. NetworkInv'
  BY <1>1 DEF IInv, NetworkInv
<1>5. ReceiptInv'
  BY <1>1 DEF IInv, ReceiptInv, Connected
<1>6. ConsumerInv'
  BY <1>1 DEF IInv, ConsumerInv, Connected
<1>7. RefusedOnlyByConsumer'
  BY DEF IInv, RefusedOnlyByConsumer
<1> QED
  BY <1>2, <1>3, <1>4, <1>5, <1>6, <1>7 DEF IInv

LEMMA QueueStep ==
    ASSUME IInv, NEW n \in Event, NEW fresh \in BOOLEAN, QueueCandidates(n, fresh)
    PROVE  IInv' /\ StreamStep
<1>1. /\ offered \in 0 .. MaxEvents /\ server \in ServerState
      /\ SenderInv(server, Range(down), offered, taken, client.committed)
  BY StateFacts DEF IInv
<1>2. /\ server.life = "active" /\ offered + n <= MaxEvents
      /\ UNCHANGED <<network, client, consumer, failure, history>>
  BY DEF QueueCandidates
<1>3. CASE Fits(server, n)
  <2>1. /\ server' = [server EXCEPT !.backlog = Queued(server, n, fresh)]
        /\ offered' = offered + n
    BY <1>3 DEF QueueCandidates
  <2>2. /\ SenderInv(server', Range(down), offered + n, taken, client.committed)
        /\ Held(server') = Held(server) \cup (offered + 1 .. offered + n)
        /\ server'.life = server.life
    BY <1>1, <1>2, <1>3, <2>1, QueueKeeps
  <2>3. offered' \in 0 .. MaxEvents
    BY <1>1, <1>2, <2>1, Bounds DEF Event
  <2>4. Stream!Offer(n)
    BY <1>2, <2>1, <2>2 DEF Stream!Offer, history
  <2>5. StreamStep
    BY <2>4 DEF StreamStep, Stream!Next, Stream!Event, Event
  <2> QED
    BY <1>2, <2>1, <2>2, <2>3, <2>5, ServerStep
<1>4. CASE ~Fits(server, n)
  <2>1. server' = [server EXCEPT !.life = "drain"] /\ offered' = offered
    BY <1>4 DEF QueueCandidates
  <2>2. /\ SenderInv(server', Range(down), offered', taken, client.committed)
        /\ Held(server') = Held(server) /\ server'.life = "drain"
    BY <1>1, <1>2, <2>1, LifeKeeps
  <2>3. StreamStep
    BY <1>2, <2>1, <2>2, StreamStays DEF history
  <2> QED
    BY <1>1, <1>2, <2>1, <2>2, <2>3, ServerStep
<1> QED
  BY <1>3, <1>4

LEMMA PumpStep ==
    ASSUME IInv, Pump
    PROVE  IInv' /\ StreamStep
<1>1. /\ offered \in 0 .. MaxEvents
      /\ SenderInv(server, Range(down), offered, taken, client.committed)
  BY StateFacts DEF IInv
<1>2. /\ server.life = "active" /\ server' = Pumped(server) /\ offered' = offered
      /\ UNCHANGED <<network, client, consumer, failure, history>>
  BY DEF Pump
<1>3. /\ SenderInv(server', Range(down), offered, taken, client.committed)
      /\ Held(server') = Held(server) /\ server'.life = server.life
  BY <1>1, <1>2, PumpKeeps
<1>4. StreamStep
  BY <1>2, <1>3, StreamStays DEF history
<1> QED
  BY <1>1, <1>2, <1>3, <1>4, ServerStep

LEMMA CancelStep ==
    ASSUME IInv, Cancel
    PROVE  IInv' /\ StreamStep
<1>1. /\ offered \in 0 .. MaxEvents
      /\ SenderInv(server, Range(down), offered, taken, client.committed)
  BY StateFacts DEF IInv
<1>2. /\ server.life = "active" /\ offered' = offered
      /\ server' = [server EXCEPT !.life = "cancelled", !.backlog = <<>>,
                                  !.kept = {}]
      /\ UNCHANGED <<network, client, consumer, failure, history>>
  BY DEF Cancel
<1>3. /\ SenderInv(server', Range(down), offered, taken, client.committed)
      /\ Held(server') = {} /\ server'.life = "cancelled"
  BY <1>1, <1>2, LifeKeeps
<1>4. Stream!GiveUp
  BY <1>2, <1>3 DEF Stream!GiveUp, history
<1>5. StreamStep
  BY <1>4 DEF StreamStep, Stream!Next
<1> QED
  BY <1>1, <1>2, <1>3, <1>5, ServerStep

\* A message is sent that the server keeps: what went before is not further
\* ahead of it than the history reaches.
LEMMA SendStep ==
    ASSUME IInv, NEW seq \in MessageSeq, Send(seq)
    PROVE  IInv' /\ StreamStep
<1> DEFINE s == Pumped(server)
<1>1. /\ offered \in 0 .. MaxEvents
      /\ SenderInv(server, Range(down), offered, taken, client.committed)
      /\ down \in Seq(Message)
  BY StateFacts DEF IInv
<1>2. PICK m \in s.kept : down' = Append(down, m)
  BY DEF Send
<1>3. /\ server.life = "active" /\ server' = s /\ Len(down) < MaxInFlight
      /\ UNCHANGED <<offered, up, client, consumer, failure, history>>
  BY DEF Send
<1>4. UNCHANGED <<taken, shown>>
  BY <1>3 DEF history
<1>5. /\ SenderInv(s, Range(down), offered, taken, client.committed)
      /\ Held(s) = Held(server) /\ s.life = server.life
  BY <1>1, <1>3, PumpKeeps
<1> HIDE DEF s
<1>6. m \in Message /\ m.seq \in Nat /\ s.nextMsg <= m.seq + Window
      /\ s.nextMsg \in Nat
  BY <1>2, <1>5, MessageFacts, ServerFacts DEF SenderInv, Numbered
<1>7. /\ down' \in BoundedSeq(Message, MaxInFlight)
      /\ Range(down') = Range(down) \cup {m}
      /\ DOMAIN down' = 1 .. Len(down) + 1 /\ DOMAIN down = 1 .. Len(down)
      /\ \A i \in 1 .. Len(down) : down'[i] = down[i]
      /\ down'[Len(down) + 1] = m /\ Len(down) \in Nat
  BY <1>1, <1>2, <1>3, <1>6, AppendFacts
<1>8. SenderInv(server', Range(down'), offered', taken', client'.committed)
  <2>1. Range(down) \cup {m} \subseteq s.kept \cup Range(down)
    BY <1>2
  <2>2. SenderInv(s, Range(down) \cup {m}, offered, taken, client.committed)
    BY <1>5, <2>1, NetKeeps
  <2> QED
    BY <1>3, <1>4, <1>7, <2>2
<1>9. TypeOK'
  BY <1>3, <1>4, <1>7, <1>8 DEF IInv, TypeOK, SenderInv
<1>10. NetworkInv'
  <2>1. \A q \in client.committed : q < m.seq + Window
    <3>1. \A q \in client.committed : q \in Nat /\ q < s.nextMsg
      <4>1. client.committed \subseteq 1 .. s.nextMsg - 1
        BY <1>5 DEF SenderInv
      <4> QED
        BY ONLY <1>6, <4>1
    <3> QED
      BY ONLY <1>6, <3>1, Bounds
  <2>2. \A i \in 1 .. Len(down) : down[i].seq < m.seq + Window
    <3> TAKE i \in 1 .. Len(down)
    <3>1. down[i] \in Range(down)
      BY <1>7 DEF Range
    <3>2. down[i].seq < s.nextMsg /\ down[i].seq \in Nat
      BY <1>5, <3>1, MessageFacts DEF SenderInv, Numbered
    <3> QED
      BY ONLY <1>6, <3>2, Bounds
  <2>3. m.seq < m.seq + Window
    BY ONLY <1>6, Bounds
  <2>4. ASSUME NEW i \in 1 .. Len(down) + 1
        PROVE  /\ \A q \in client.committed : q < down'[i].seq + Window
               /\ \A j \in 1 .. i : down'[j].seq < down'[i].seq + Window
    <3>1. CASE i = Len(down) + 1
      <4>1. down'[i] = m
        BY <1>7, <3>1
      <4>2. \A j \in 1 .. i : j \in 1 .. Len(down) \/ j = Len(down) + 1
        BY ONLY <1>7, <3>1
      <4>3. \A j \in 1 .. i : down'[j].seq < m.seq + Window
        BY <1>7, <2>2, <2>3, <4>2
      <4> QED
        BY <2>1, <4>1, <4>3
    <3>2. CASE i # Len(down) + 1
      <4>1. i \in 1 .. Len(down) /\ \A j \in 1 .. i : j \in 1 .. Len(down)
        BY ONLY <1>7, <3>2, i \in 1 .. Len(down) + 1
      <4> QED
        BY <1>7, <4>1 DEF IInv, NetworkInv
    <3> QED
      BY <3>1, <3>2
  <2> QED
    BY <1>3, <1>7, <2>4 DEF NetworkInv
<1>11. ReceiptInv' /\ ConsumerInv' /\ RefusedOnlyByConsumer'
  BY <1>3, <1>4
     DEF IInv, ReceiptInv, ConsumerInv, RefusedOnlyByConsumer, Connected
<1>12. StreamStep
  BY <1>3, <1>4, <1>5, StreamStays
<1> QED
  BY <1>8, <1>9, <1>10, <1>11, <1>12 DEF IInv

LEMMA AcksStep ==
    ASSUME IInv, NEW S \in Range(up), ReceiveAcks(S)
    PROVE  IInv' /\ StreamStep
<1>1. /\ up \in Seq(SUBSET MessageSeq) /\ Len(up) <= MaxInFlight
      /\ SenderInv(server, Range(down), offered, taken, client.committed)
  BY StateFacts DEF IInv
<1>2. /\ up # <<>> /\ Head(up) = S /\ up' = Tail(up)
      /\ UNCHANGED <<offered, down, client, consumer, failure, taken, shown>>
      /\ server' = IF server.life = "cancelled" THEN server
                   ELSE Released(server, S)
  BY DEF ReceiveAcks, history
<1>3. /\ Head(up) = up[1] /\ 1 \in DOMAIN up
      /\ up' \in BoundedSeq(SUBSET MessageSeq, MaxInFlight)
      /\ DOMAIN up' = 1 .. Len(up) - 1
      /\ \A i \in 1 .. Len(up) - 1 : i + 1 \in DOMAIN up /\ up'[i] = up[i + 1]
  BY <1>1, <1>2, HeadFacts
<1>4. S \in SUBSET client.committed
  BY <1>2, <1>3 DEF IInv, ReceiptInv
<1>5. /\ SenderInv(server', Range(down), offered, taken, client.committed)
      /\ Held(server') \subseteq Held(server)
      /\ Held(server) \ Held(server') \subseteq taken
      /\ server'.life = server.life
  <2>1. CASE server.life = "cancelled"
    BY <1>1, <1>2, <2>1
  <2>2. CASE server.life # "cancelled"
    <3>1. server' = Released(server, S)
      BY <1>2, <2>2
    <3> QED
      BY <1>1, <1>4, <3>1, ReleaseKeeps
  <2> QED
    BY <2>1, <2>2
<1>6. TypeOK'
  BY <1>2, <1>3, <1>5 DEF IInv, TypeOK, SenderInv
<1>7. SenderInv(server', Range(down'), offered', taken', client'.committed)
  BY <1>2, <1>5
<1>8. NetworkInv' /\ ConsumerInv' /\ RefusedOnlyByConsumer'
  BY <1>2 DEF IInv, NetworkInv, ConsumerInv, RefusedOnlyByConsumer, Connected
<1>9. ReceiptInv'
  <2>1. \A i \in DOMAIN up' : up'[i] \subseteq client.committed
    BY <1>3 DEF IInv, ReceiptInv
  <2> QED
    BY <1>2, <2>1 DEF IInv, ReceiptInv, Connected
<1>10. StreamStep
  BY <1>2, <1>5, StreamLetsGo
<1> QED
  BY <1>6, <1>7, <1>8, <1>9, <1>10 DEF IInv

\* What is left of the packets when the first is gone.
LEMMA DownBehind ==
    ASSUME IInv, down # <<>>, down' = Tail(down)
    PROVE  /\ down' \in BoundedSeq(Message, MaxInFlight)
           /\ Range(down') \subseteq Range(down)
           /\ \A i \in DOMAIN down' :
                 /\ i + 1 \in DOMAIN down /\ down'[i] = down[i + 1]
                 /\ \A q \in client.committed : q < down'[i].seq + Window
                 /\ down[1].seq < down'[i].seq + Window
                 /\ \A j \in 1 .. i : down'[j].seq < down'[i].seq + Window
<1>1. /\ down \in Seq(Message) /\ Len(down) <= MaxInFlight /\ Len(down) \in Nat
  BY StateFacts DEF IInv
<1>2. /\ down' \in BoundedSeq(Message, MaxInFlight)
      /\ Range(down') \subseteq Range(down)
      /\ DOMAIN down' = 1 .. Len(down) - 1
      /\ \A i \in 1 .. Len(down) - 1 : i + 1 \in DOMAIN down /\ down'[i] = down[i + 1]
  BY <1>1, HeadFacts
<1>3. ASSUME NEW i \in DOMAIN down'
      PROVE  /\ down[1].seq < down'[i].seq + Window
             /\ \A j \in 1 .. i : down'[j].seq < down'[i].seq + Window
             /\ \A q \in client.committed : q < down'[i].seq + Window
  <2>1. i \in 1 .. Len(down) - 1
    BY <1>2, <1>3
  <2>2. /\ i + 1 \in DOMAIN down /\ down'[i] = down[i + 1]
        /\ \A j \in 1 .. i + 1 : down[j].seq < down[i + 1].seq + Window
        /\ \A q \in client.committed : q < down[i + 1].seq + Window
    BY <1>2, <2>1 DEF IInv, NetworkInv
  <2>3. 1 \in 1 .. i + 1
        /\ \A j \in 1 .. i : j + 1 \in 1 .. i + 1 /\ j \in 1 .. Len(down) - 1
    BY ONLY <1>1, <2>1
  <2>4. \A j \in 1 .. i : down'[j] = down[j + 1]
    BY <1>2, <2>3
  <2> QED
    BY <2>2, <2>3, <2>4
<1> QED
  BY <1>2, <1>3

LEMMA LoseMessageStep ==
    ASSUME IInv, LoseMessage
    PROVE  IInv' /\ StreamStep
<1>1. /\ down # <<>> /\ down' = Tail(down)
      /\ UNCHANGED <<server, offered, up, client, consumer, failure, taken, shown>>
  BY DEF LoseMessage, history
<1>2. /\ down' \in BoundedSeq(Message, MaxInFlight)
      /\ Range(down') \subseteq Range(down)
      /\ \A i \in DOMAIN down' :
            /\ \A q \in client.committed : q < down'[i].seq + Window
            /\ \A j \in 1 .. i : down'[j].seq < down'[i].seq + Window
  BY <1>1, DownBehind
<1>3. SenderInv(server', Range(down'), offered', taken', client'.committed)
  BY <1>1, <1>2, NetKeeps DEF IInv
<1>4. TypeOK'
  BY <1>1, <1>2 DEF IInv, TypeOK
<1>5. NetworkInv'
  BY <1>1, <1>2 DEF NetworkInv
<1>6. ReceiptInv' /\ ConsumerInv' /\ RefusedOnlyByConsumer'
  BY <1>1 DEF IInv, ReceiptInv, ConsumerInv, RefusedOnlyByConsumer, Connected
<1>7. StreamStep
  BY <1>1, StreamStays
<1> QED
  BY <1>3, <1>4, <1>5, <1>6, <1>7 DEF IInv

LEMMA LoseAcksStep ==
    ASSUME IInv, LoseAcks
    PROVE  IInv' /\ StreamStep
<1>1. /\ up # <<>> /\ up' = Tail(up)
      /\ UNCHANGED <<server, offered, down, client, consumer, failure, taken, shown>>
  BY DEF LoseAcks, history
<1>2. up \in Seq(SUBSET MessageSeq) /\ Len(up) <= MaxInFlight
  BY StateFacts DEF IInv
<1>3. /\ up' \in BoundedSeq(SUBSET MessageSeq, MaxInFlight)
      /\ DOMAIN up' = 1 .. Len(up) - 1
      /\ \A i \in 1 .. Len(up) - 1 : i + 1 \in DOMAIN up /\ up'[i] = up[i + 1]
  BY <1>1, <1>2, HeadFacts
<1>4. TypeOK'
  BY <1>1, <1>3 DEF IInv, TypeOK
<1>5. SenderInv(server', Range(down'), offered', taken', client'.committed)
  BY <1>1 DEF IInv
<1>6. NetworkInv' /\ ConsumerInv' /\ RefusedOnlyByConsumer'
  BY <1>1 DEF IInv, NetworkInv, ConsumerInv, RefusedOnlyByConsumer, Connected
<1>7. ReceiptInv'
  <2>1. \A i \in DOMAIN up' : up'[i] \subseteq client.committed
    BY <1>3 DEF IInv, ReceiptInv
  <2> QED
    BY <1>1, <2>1 DEF IInv, ReceiptInv, Connected
<1>8. StreamStep
  BY <1>1, StreamStays
<1> QED
  BY <1>4, <1>5, <1>6, <1>7, <1>8 DEF IInv

-----------------------------------------------------------------------------
(***************************************************************************)
(* The steps of the client that commit no message.                         *)
(***************************************************************************)

\* Nothing is committed, the pilot does not become active again, and the
\* consumer, if it still is active, has what it had.
LEMMA ClientStep ==
    ASSUME IInv, UNCHANGED <<server, offered, down, taken, shown>>,
           client' \in ClientState, client'.committed = client.committed,
           client'.owner = "active" => client.owner = "active",
           DOMAIN client'.ledger \subseteq client.committed,
           client'.mode = "active" /\ failure' = "none" =>
              /\ client.mode = "active" /\ Connected
              /\ client'.owner = client.owner
              /\ DOMAIN client'.ledger = DOMAIN client.ledger,
           consumer' \in ConsumerState,
           consumer'.life = "active" =>
              consumer.life = "active" /\ consumer'.got = consumer.got,
           failure' \in Refusal \cup {"none"}, RefusedOnlyByConsumer',
           up' \in BoundedSeq(SUBSET MessageSeq, MaxInFlight),
           \A i \in DOMAIN up' : up'[i] \subseteq client.committed
    PROVE  IInv' /\ StreamStep
<1>1. TypeOK'
  BY DEF IInv, TypeOK
<1>2. SenderInv(server', Range(down'), offered', taken', client'.committed)
  BY DEF IInv
<1>3. NetworkInv'
  BY DEF IInv, NetworkInv
<1>4. ReceiptInv'
  BY DEF IInv, ReceiptInv, Connected
<1>5. ConsumerInv'
  BY DEF IInv, ConsumerInv, Connected
<1>6. StreamStep
  BY StreamStays
<1> QED
  BY <1>1, <1>2, <1>3, <1>4, <1>5, <1>6 DEF IInv

LEMMA ConsumerTypes ==
    /\ Idle \in ConsumerState /\ Idle.life = "idle"
    /\ [Idle EXCEPT !.life = "lost"] \in ConsumerState
    /\ [Idle EXCEPT !.life = "lost"].life = "lost"
    /\ [Idle EXCEPT !.life = "active"] \in ConsumerState
    /\ [Idle EXCEPT !.life = "active"].life = "active"
    /\ DOMAIN [Idle EXCEPT !.life = "active"].got = {}
<1>1. [q \in {} |-> 0] \in [{} -> Event] /\ {} \in SUBSET Event
  OBVIOUS
<1>2. [q \in {} |-> 0] \in UNION {[S -> Event] : S \in SUBSET Event}
  BY <1>1
<1> QED
  BY <1>2 DEF Idle, ConsumerState

LEMMA DrainingIs ==
    ASSUME NEW c \in ClientState
    PROVE  /\ Draining(c) \in ClientState /\ Draining(c).mode = "drain"
           /\ Draining(c).owner # "active"
           /\ Draining(c).committed = c.committed
           /\ Draining(c).ledger = c.ledger /\ Draining(c).quiesced = c.quiesced
BY DEF Draining, ClientState

\* The receipts that are under way, and the ledger, as they are.
LEMMA ReceiptsStay ==
    ASSUME IInv
    PROVE  /\ \A i \in DOMAIN up : up[i] \subseteq client.committed
           /\ up \in BoundedSeq(SUBSET MessageSeq, MaxInFlight)
           /\ DOMAIN client.ledger \subseteq client.committed
           /\ client \in ClientState /\ consumer \in ConsumerState
           /\ failure \in Refusal \cup {"none"}
BY DEF IInv, ReceiptInv, TypeOK

LEMMA PilotFailsStep ==
    ASSUME IInv, PilotFails
    PROVE  IInv' /\ StreamStep
<1>1. /\ UNCHANGED <<server, offered, down, up, failure, taken, shown>>
      /\ client' = Draining(client) /\ consumer' = Idle
  BY DEF PilotFails, network, history
<1> QED
  BY <1>1, ReceiptsStay, DrainingIs, ConsumerTypes, ClientStep
     DEF IInv, RefusedOnlyByConsumer

LEMMA ConsumerLostStep ==
    ASSUME IInv, ConsumerLost
    PROVE  IInv' /\ StreamStep
<1>1. /\ UNCHANGED <<server, offered, down, up, client, failure, taken, shown>>
      /\ consumer' = [Idle EXCEPT !.life = "lost"]
  BY DEF ConsumerLost, network, history
<1> QED
  BY <1>1, ReceiptsStay, ConsumerTypes, ClientStep
     DEF IInv, RefusedOnlyByConsumer, Connected

LEMMA MapBoundaryStep ==
    ASSUME IInv, MapBoundary
    PROVE  IInv' /\ StreamStep
<1>1. /\ UNCHANGED <<server, offered, down, up, failure, taken, shown>>
      /\ client' = [Draining(client) EXCEPT !.quiesced = TRUE]
      /\ consumer' = Idle
  BY DEF MapBoundary, network, history
<1>2. /\ client' \in ClientState /\ client'.mode = "drain"
      /\ client'.owner # "active" /\ client'.committed = client.committed
      /\ client'.ledger = client.ledger
  <2>1. client \in ClientState
    BY ReceiptsStay
  <2>2. Draining(client) \in ClientState
    BY <2>1, DrainingIs
  <2>3. /\ client' \in ClientState /\ client'.mode = Draining(client).mode
        /\ client'.owner = Draining(client).owner
        /\ client'.committed = Draining(client).committed
        /\ client'.ledger = Draining(client).ledger
    BY <1>1, <2>2 DEF ClientState
  <2> QED
    BY <2>1, <2>3, DrainingIs
<1> QED
  BY <1>1, <1>2, ReceiptsStay, ConsumerTypes, ClientStep
     DEF IInv, RefusedOnlyByConsumer

LEMMA TellAcksStep ==
    ASSUME IInv, TellAcks
    PROVE  IInv' /\ StreamStep
<1> DEFINE told == [q \in DOMAIN client.ledger |->
                      IF client.ledger[q] > 0 THEN client.ledger[q] - 1 ELSE 0]
<1>1. /\ UNCHANGED <<server, offered, down, consumer, failure, taken, shown>>
      /\ Connected /\ Len(up) < MaxInFlight
      /\ up' = Append(up, Due(client))
      /\ client' = [client EXCEPT !.ledger = told]
  BY DEF TellAcks, history
<1>2. /\ client \in ClientState /\ client.ledger \in Ledger
      /\ DOMAIN client.ledger \subseteq client.committed
      /\ client.committed \subseteq MessageSeq
  BY ReceiptsStay, ClientFacts
<1>3. told \in Ledger
  <2>1. \A q \in DOMAIN client.ledger : told[q] \in 0 .. Handoffs
    <3>1. \A x \in 0 .. Handoffs : (IF x > 0 THEN x - 1 ELSE 0) \in 0 .. Handoffs
      BY Bounds
    <3> QED
      BY <1>2, <3>1, LedgerIs
  <2>2. DOMAIN told = DOMAIN client.ledger
        /\ told = [q \in DOMAIN told |-> told[q]]
    OBVIOUS
  <2>3. DOMAIN client.ledger \subseteq MessageSeq
    BY <1>2
  <2> HIDE DEF told
  <2> QED
    BY <2>1, <2>2, <2>3, LedgerIs
<1>4. DOMAIN told = DOMAIN client.ledger
  OBVIOUS
<1> HIDE DEF told
<1>5. /\ client' \in ClientState /\ client'.committed = client.committed
      /\ client'.owner = client.owner /\ client'.mode = client.mode
      /\ client'.ledger = told
  BY <1>1, <1>2, <1>3 DEF ClientState, Ledger
<1>6. Due(client) \subseteq client.committed /\ Due(client) \in SUBSET MessageSeq
  BY <1>2 DEF Due
<1>7. up \in Seq(SUBSET MessageSeq)
  BY StateFacts DEF IInv
<1>8. /\ up' \in BoundedSeq(SUBSET MessageSeq, MaxInFlight)
      /\ DOMAIN up' = 1 .. Len(up) + 1 /\ DOMAIN up = 1 .. Len(up)
      /\ \A i \in 1 .. Len(up) : up'[i] = up[i]
      /\ up'[Len(up) + 1] = Due(client) /\ Len(up) \in Nat
  BY <1>1, <1>6, <1>7, AppendFacts
<1>9. \A i \in DOMAIN up' : up'[i] \subseteq client.committed
  <2>1. \A i \in 1 .. Len(up) + 1 : i \in 1 .. Len(up) \/ i = Len(up) + 1
    BY ONLY <1>8
  <2> QED
    BY <1>6, <1>8, <2>1, ReceiptsStay
<1> QED
  BY <1>1, <1>2, <1>4, <1>5, <1>8, <1>9, ReceiptsStay, ClientStep
     DEF IInv, RefusedOnlyByConsumer, Connected

-----------------------------------------------------------------------------
(***************************************************************************)
(* The steps of the client that take a packet from the network.            *)
(***************************************************************************)
LEMMA ArrivesIs ==
    ASSUME NEW m, Arrives(m)
    PROVE  /\ Connected /\ down # <<>> /\ m = Head(down) /\ down' = Tail(down)
           /\ UNCHANGED <<server, offered, up>>
BY DEF Arrives

\* The packet was taken, and nothing was committed.
LEMMA ArrivalStep ==
    ASSUME IInv, down # <<>>, down' = Tail(down),
           UNCHANGED <<server, offered, up, taken, shown>>,
           client' \in ClientState, client'.committed = client.committed,
           client'.owner = "active" => client.owner = "active",
           DOMAIN client'.ledger \subseteq client.committed,
           client'.mode = "active" /\ failure' = "none" =>
              /\ client.mode = "active" /\ Connected
              /\ client'.owner = client.owner
              /\ \A q \in DOMAIN client.ledger :
                    (\A p \in client.committed : p < q + Window)
                       => q \in DOMAIN client'.ledger,
           consumer' \in ConsumerState,
           consumer'.life = "active" =>
              consumer.life = "active" /\ consumer'.got = consumer.got,
           failure' \in Refusal \cup {"none"}, RefusedOnlyByConsumer'
    PROVE  IInv' /\ StreamStep
<1>1. /\ down' \in BoundedSeq(Message, MaxInFlight)
      /\ Range(down') \subseteq Range(down)
      /\ \A i \in DOMAIN down' :
            /\ \A q \in client.committed : q < down'[i].seq + Window
            /\ \A j \in 1 .. i : down'[j].seq < down'[i].seq + Window
  BY DownBehind
<1>2. TypeOK'
  BY <1>1 DEF IInv, TypeOK
<1>3. SenderInv(server', Range(down'), offered', taken', client'.committed)
  BY <1>1, NetKeeps DEF IInv
<1>4. NetworkInv'
  BY <1>1 DEF NetworkInv
<1>5. ReceiptInv'
  <2>1. \A i \in DOMAIN up' : up'[i] \subseteq client'.committed
    BY ReceiptsStay
  <2>2. ASSUME client'.mode = "active", Connected',
               NEW q \in client'.committed,
               \A p \in client'.committed : p < q + Window
        PROVE  q \in DOMAIN client'.ledger
    <3>1. q \in client.committed /\ \A p \in client.committed : p < q + Window
      BY <2>2
    <3>2. failure' = "none"
      BY <2>2 DEF Connected
    <3>3. q \in DOMAIN client.ledger
      BY <2>2, <3>1, <3>2 DEF IInv, ReceiptInv
    <3> QED
      BY <2>2, <3>1, <3>2, <3>3
  <2> QED
    BY <2>1, <2>2 DEF ReceiptInv
<1>6. ConsumerInv'
  BY DEF IInv, ConsumerInv, Connected
<1>7. StreamStep
  BY StreamStays
<1> QED
  BY <1>2, <1>3, <1>4, <1>5, <1>6, <1>7 DEF IInv

LEMMA RefuseStep ==
    ASSUME IInv, NEW m, Refuse(m)
    PROVE  IInv' /\ StreamStep
<1>1. /\ Connected /\ down # <<>> /\ m = Head(down) /\ down' = Tail(down)
      /\ UNCHANGED <<server, offered, up, taken, shown>>
      /\ Verdict(m) # "none" /\ failure' = Verdict(m) /\ consumer' = Idle
  BY ArrivesIs DEF Refuse, history
<1>2. failure' \in {"drain", "consumer", "capacity"}
  BY <1>1, VerdictFacts
<1>3. /\ client' \in ClientState /\ client'.mode = "drain"
      /\ client'.owner # "active" /\ client'.committed = client.committed
      /\ DOMAIN client'.ledger \subseteq DOMAIN client.ledger
  <2>1. client \in ClientState
    BY ReceiptsStay
  <2>2. /\ Draining(client) \in ClientState /\ Draining(client).mode = "drain"
        /\ Draining(client).owner # "active"
        /\ Draining(client).committed = client.committed
        /\ Draining(client).ledger = client.ledger
    BY <2>1, DrainingIs
  <2>3. CASE client' = Draining(client)
    BY <2>2, <2>3
  <2>4. CASE client' = [Draining(client) EXCEPT !.owner = "resync",
                                                !.ledger = NoReceipts]
    <3>1. NoReceipts \in Ledger /\ DOMAIN NoReceipts = {}
      BY LedgerIs DEF NoReceipts
    <3>2. /\ client' \in ClientState /\ client'.owner = "resync"
          /\ client'.mode = Draining(client).mode
          /\ client'.committed = Draining(client).committed
          /\ client'.ledger = NoReceipts
      BY <2>2, <2>4, <3>1 DEF ClientState, Ledger
    <3> QED
      BY <2>2, <3>1, <3>2
  <2> QED
    BY <2>3, <2>4 DEF Refuse
<1> QED
  BY <1>1, <1>2, <1>3, ReceiptsStay, ConsumerTypes, ArrivalStep
     DEF Refusal, RefusedOnlyByConsumer

LEMMA RevalidateStep ==
    ASSUME IInv, NEW m, Revalidate(m)
    PROVE  IInv' /\ StreamStep
<1>1. /\ Connected /\ down # <<>> /\ m = Head(down) /\ down' = Tail(down)
      /\ UNCHANGED <<server, offered, up, consumer, failure, taken, shown>>
      /\ Verdict(m) = "none" /\ Repeated(client, m)
      /\ client' = [client EXCEPT !.ledger = Receipted(client, m.seq)]
  BY ArrivesIs DEF Revalidate, history
<1>2. client.mode = "active"
  BY <1>1, VerdictFacts
<1>3. m.seq \in client.committed /\ m.seq \in MessageSeq
  BY <1>1, ArrivalFacts, ReceiptsStay, ClientFacts
<1>4. client.committed \cup {m.seq} = client.committed
  BY <1>3
<1>5. /\ Receipted(client, m.seq) \in Ledger
      /\ DOMAIN Receipted(client, m.seq) \subseteq client.committed
      /\ \A q \in DOMAIN client.ledger :
            (\A p \in client.committed : p < q + Window)
               => q \in DOMAIN Receipted(client, m.seq)
  BY <1>3, <1>4, ReceiptsStay, ReceiptedFacts
<1>6. /\ client' \in ClientState /\ client'.committed = client.committed
      /\ client'.owner = client.owner /\ client'.mode = client.mode
      /\ client'.ledger = Receipted(client, m.seq)
  BY <1>1, <1>5, ReceiptsStay DEF ClientState, Ledger
<1> QED
  BY <1>1, <1>2, <1>5, <1>6, ReceiptsStay, ArrivalStep
     DEF IInv, RefusedOnlyByConsumer, Connected

\* The first packet is taken from the network, and its message committed.
LEMMA CommitStep ==
    ASSUME IInv, Connected, down # <<>>, down' = Tail(down),
           UNCHANGED <<server, offered, up, failure, shown>>,
           NEW m, m = Head(down), m.seq \notin client.committed,
           client' = [Committed(client, m.seq) EXCEPT !.owner = client'.owner],
           client'.owner \in {"none", "active", "resync"},
           consumer' \in ConsumerState,
           taken' = taken \cup EventsOf(m)
    PROVE  /\ TypeOK'
           /\ SenderInv(server', Range(down'), offered', taken', client'.committed)
           /\ NetworkInv' /\ ReceiptInv'
           /\ client'.committed = client.committed \cup {m.seq}
           /\ client'.mode = client.mode
<1>1. /\ m \in Range(down) /\ m \in Message /\ m = down[1]
      /\ m.seq \in MessageSeq
  BY StateFacts, HeadFacts, MessageFacts DEF IInv
<1>2. /\ client \in ClientState /\ DOMAIN client.ledger \subseteq client.committed
      /\ client.committed \subseteq MessageSeq
  BY ReceiptsStay, ClientFacts
<1>3. /\ Receipted(client, m.seq) \in Ledger
      /\ DOMAIN Receipted(client, m.seq) \subseteq client.committed \cup {m.seq}
      /\ m.seq \in DOMAIN Receipted(client, m.seq)
      /\ \A q \in DOMAIN client.ledger :
            (\A p \in client.committed \cup {m.seq} : p < q + Window)
               => q \in DOMAIN Receipted(client, m.seq)
  BY <1>1, <1>2, ReceiptedFacts
<1>4. /\ client' \in ClientState /\ client'.mode = client.mode
      /\ client'.committed = client.committed \cup {m.seq}
      /\ client'.ledger = Receipted(client, m.seq)
  <2> DEFINE C == client.committed \cup {m.seq}
             l == Receipted(client, m.seq)
             o == client'.owner
  <2>1. client' = [client EXCEPT !.committed = C, !.ledger = l, !.owner = o]
    BY <1>2 DEF Committed, ClientState
  <2>2. /\ C \in SUBSET MessageSeq /\ l \in Ledger
        /\ o \in {"none", "active", "resync"}
    BY <1>1, <1>2, <1>3
  <2> HIDE DEF C, l, o
  <2>3. /\ client' \in ClientState /\ client'.mode = client.mode
        /\ client'.committed = C /\ client'.ledger = l
    BY ONLY <1>2, <2>1, <2>2 DEF ClientState, Ledger
  <2> QED
    BY <2>3 DEF C, l
<1>5. /\ down' \in BoundedSeq(Message, MaxInFlight)
      /\ Range(down') \subseteq Range(down)
      /\ \A i \in DOMAIN down' :
            /\ \A q \in client.committed : q < down'[i].seq + Window
            /\ down[1].seq < down'[i].seq + Window
            /\ \A j \in 1 .. i : down'[j].seq < down'[i].seq + Window
  BY DownBehind
<1>6. SenderInv(server', Range(down'), offered', taken', client'.committed)
  <2>1. SenderInv(server, Range(down), offered, taken', client'.committed)
    BY <1>1, <1>4, TakeKeeps DEF IInv
  <2>2. SenderInv(server, Range(down'), offered, taken', client'.committed)
    BY <1>5, <2>1, NetKeeps
  <2> QED
    BY <2>2
<1>7. taken' \subseteq Event
  <2>1. taken' \subseteq 1 .. server.next - 1 /\ server.next \in 1 .. MaxEvents + 1
    BY <1>6, StateFacts, ServerFacts DEF SenderInv, IInv
  <2> QED
    BY <2>1, Bounds DEF Event
<1>8. TypeOK'
  BY <1>4, <1>5, <1>7 DEF IInv, TypeOK
<1>9. NetworkInv'
  BY <1>1, <1>4, <1>5 DEF NetworkInv
<1>10. ReceiptInv'
  <2>1. \A i \in DOMAIN up' : up'[i] \subseteq client'.committed
    BY <1>4, ReceiptsStay
  <2>2. ASSUME client'.mode = "active",
               NEW q \in client'.committed,
               \A p \in client'.committed : p < q + Window
        PROVE  q \in DOMAIN client'.ledger
    <3>1. CASE q = m.seq
      BY <1>3, <1>4, <3>1
    <3>2. CASE q # m.seq
      <4>1. q \in client.committed /\ \A p \in client.committed : p < q + Window
        BY <1>4, <2>2, <3>2
      <4>2. q \in DOMAIN client.ledger
        BY <1>4, <2>2, <4>1 DEF IInv, ReceiptInv
      <4> QED
        BY <1>3, <1>4, <2>2, <4>2
    <3> QED
      BY <3>1, <3>2
  <2> QED
    BY <1>3, <1>4, <2>1, <2>2 DEF ReceiptInv
<1> QED
  BY <1>4, <1>6, <1>8, <1>9, <1>10

\* The descriptor is the first message that is committed: no event was taken.
LEMMA ActivateStep ==
    ASSUME IInv, NEW m, Activate(m)
    PROVE  IInv' /\ StreamStep
<1>1. /\ Connected /\ down # <<>> /\ m = Head(down) /\ down' = Tail(down)
      /\ UNCHANGED <<server, offered, up, failure, taken, shown>>
      /\ ~Repeated(client, m) /\ m = Descriptor
      /\ client' = [Committed(client, m.seq) EXCEPT !.owner = "active"]
      /\ consumer' = [Idle EXCEPT !.life = "active"]
  BY ArrivesIs DEF Activate, history
<1>2. m.seq \notin client.committed /\ m.seq = 1
  BY <1>1, ArrivalFacts DEF Descriptor
<1>3. EventsOf(m) = {}
  BY <1>1, MessageFacts DEF Message
<1>4. taken = {}
  BY <1>2 DEF IInv, ConsumerInv
<1>5. client'.owner = "active"
  BY <1>1, ReceiptsStay DEF Committed, ClientState
<1>6. /\ TypeOK'
      /\ SenderInv(server', Range(down'), offered', taken', client'.committed)
      /\ NetworkInv' /\ ReceiptInv'
      /\ client'.committed = client.committed \cup {m.seq}
  BY <1>1, <1>2, <1>3, <1>5, ConsumerTypes, CommitStep
<1>7. ConsumerInv'
  <2>1. 1 \in client'.committed
    BY <1>2, <1>6
  <2>2. DOMAIN consumer'.got = taken'
    BY <1>1, <1>4, ConsumerTypes
  <2> QED
    BY <1>1, <1>4, <1>5, <2>1, <2>2 DEF IInv, ConsumerInv
<1>8. StreamStep
  BY <1>1, StreamStays
<1> QED
  BY <1>1, <1>6, <1>7, <1>8 DEF IInv, RefusedOnlyByConsumer

\* The consumer is given the events of a message, none of which it had.
LEMMA TakeStep ==
    ASSUME IInv, NEW m, Take(m)
    PROVE  IInv' /\ StreamStep
<1> DEFINE ids == {m.ids[k] : k \in DOMAIN m.ids}
           got2 == [e \in DOMAIN consumer.got \cup EventsOf(m) |->
                      IF e \in DOMAIN consumer.got THEN consumer.got[e]
                      ELSE m.ids[e - m.first + 1]]
<1>1. /\ Connected /\ down # <<>> /\ m = Head(down) /\ down' = Tail(down)
      /\ UNCHANGED <<server, offered, up, failure, shown>>
      /\ Verdict(m) = "none" /\ ~Repeated(client, m) /\ m # Descriptor
      /\ client' = Committed(client, m.seq)
      /\ consumer' = [consumer EXCEPT !.got = got2]
      /\ taken' = taken \cup ids
  BY ArrivesIs DEF Take
<1>2. client.mode = "active" /\ consumer.life = "active"
  BY <1>1, VerdictFacts
<1>3. /\ m.seq \notin client.committed /\ m \in Message /\ Numbered(server, m)
      /\ WholeOrNot(m, taken, client.committed) /\ 1 \in client.committed
  BY <1>1, ArrivalFacts
<1>4. EventsOf(m) \cap taken = {}
  BY <1>3 DEF WholeOrNot
<1>5. /\ m.first \in Event /\ m.first \in Nat /\ LastOf(m) \in Int
      /\ EventsOf(m) = m.first .. LastOf(m)
      /\ DOMAIN m.ids = 1 .. Len(m.ids) /\ Len(m.ids) \in Nat
  BY <1>1, <1>3, MessageFacts
<1>6. \A k \in DOMAIN m.ids : m.ids[k] = m.first + k - 1
  BY <1>3 DEF Numbered
<1>7. ids = EventsOf(m)
  BY <1>6 DEF EventsOf
<1>8. EventsOf(m) \subseteq 1 .. offered /\ EventsOf(m) \subseteq Event
  <2>1. LastOf(m) < server.next /\ m.first >= 1
    BY <1>3, <1>5, Bounds DEF Numbered, Event
  <2>2. /\ server.next + Len(server.backlog) <= offered + 1
        /\ server.next \in Nat /\ Len(server.backlog) \in Nat
        /\ offered \in 0 .. MaxEvents
    BY StateFacts, ServerFacts DEF IInv, SenderInv, BacklogInOrder
  <2>3. \A e \in m.first .. LastOf(m) : e \in 1 .. offered /\ e \in 1 .. MaxEvents
    BY ONLY SMTT(30), <1>5, <2>1, <2>2, Bounds
  <2> QED
    BY <1>5, <2>3 DEF Event
<1>9. \A e \in EventsOf(m) : m.ids[e - m.first + 1] = e
  <2> TAKE e \in EventsOf(m)
  <2>1. PICK k \in DOMAIN m.ids : e = m.first + k - 1
    BY DEF EventsOf
  <2>2. e - m.first + 1 = k
    BY <1>5, <2>1
  <2> QED
    BY <1>6, <2>1, <2>2
<1>10. DOMAIN consumer.got = taken /\ \A e \in taken : consumer.got[e] = e
  BY <1>2 DEF IInv, ConsumerInv
<1>11. DOMAIN got2 = taken' /\ \A e \in taken' : got2[e] = e
  <2>1. DOMAIN got2 = taken \cup EventsOf(m) /\ taken' = taken \cup EventsOf(m)
    BY <1>1, <1>7, <1>10
  <2>2. \A e \in taken : got2[e] = e
    BY <1>10
  <2>3. \A e \in EventsOf(m) : e \notin taken => got2[e] = e
    BY <1>9, <1>10
  <2> HIDE DEF got2
  <2> QED
    BY <2>1, <2>2, <2>3
<1>12. taken' \subseteq Event
  BY <1>1, <1>7, <1>8, StateFacts DEF IInv
<1>13. got2 \in [taken' -> Event]
  <2>1. got2 = [e \in DOMAIN got2 |-> got2[e]]
    OBVIOUS
  <2> HIDE DEF got2
  <2> QED
    BY <1>11, <1>12, <2>1
<1> HIDE DEF got2, ids
<1>14. /\ consumer' \in ConsumerState /\ consumer'.life = "active"
       /\ consumer'.got = got2
  <2>1. got2 \in UNION {[S -> Event] : S \in SUBSET Event}
    BY <1>12, <1>13
  <2> QED
    BY <1>1, <1>2, <2>1, ReceiptsStay DEF ConsumerState
<1>15. /\ client' = [Committed(client, m.seq) EXCEPT !.owner = client'.owner]
       /\ client'.owner = client.owner
       /\ client'.owner \in {"none", "active", "resync"}
  BY <1>1, ReceiptsStay DEF Committed, ClientState
<1>16. /\ TypeOK'
       /\ SenderInv(server', Range(down'), offered', taken', client'.committed)
       /\ NetworkInv' /\ ReceiptInv'
       /\ client'.committed = client.committed \cup {m.seq}
       /\ client'.mode = client.mode
  BY <1>1, <1>3, <1>7, <1>14, <1>15, CommitStep
<1>17. ConsumerInv'
  <2>1. 1 \in client'.committed
    BY <1>3, <1>16
  <2>2. client'.mode = "active" => client'.owner = "active"
    BY <1>1, <1>3, <1>15, <1>16 DEF IInv, ConsumerInv
  <2>3. \A k \in DOMAIN shown' : shown'[k] \in taken'
    BY <1>1 DEF IInv, ConsumerInv
  <2> QED
    BY <1>11, <1>14, <2>1, <2>2, <2>3 DEF ConsumerInv
<1>18. StreamStep
  <2>1. Stream!Take(EventsOf(m))
    BY <1>1, <1>4, <1>7, <1>8 DEF Stream!Take
  <2>2. EventsOf(m) \in SUBSET Event
    BY <1>8
  <2> QED
    BY <2>1, <2>2 DEF StreamStep, Stream!Next, Stream!Event, Event
<1> QED
  BY <1>1, <1>16, <1>17, <1>18 DEF IInv, RefusedOnlyByConsumer

LEMMA PlayStep ==
    ASSUME IInv, Play
    PROVE  IInv' /\ StreamStep
<1>1. /\ UNCHANGED <<server, offered, down, up, client, consumer, failure, taken>>
      /\ consumer.life = "active" /\ Len(shown) + 1 \in DOMAIN consumer.got
      /\ shown' = Append(shown, consumer.got[Len(shown) + 1])
  BY DEF Play, network
<1>2. Len(shown) + 1 \in taken /\ consumer.got[Len(shown) + 1] = Len(shown) + 1
  BY <1>1 DEF IInv, ConsumerInv
<1>3. shown' = Append(shown, Len(shown) + 1)
  BY <1>1, <1>2
<1>4. shown \in Seq(Event) /\ Len(shown) \in Nat /\ Len(shown) + 1 \in Event
  BY <1>2, StateFacts DEF IInv
<1>5. /\ shown' \in Seq(Event) /\ Len(shown') = Len(shown) + 1
      /\ \A i \in 1 .. Len(shown) : shown'[i] = shown[i]
      /\ shown'[Len(shown) + 1] = Len(shown) + 1
      /\ DOMAIN shown' = 1 .. Len(shown) + 1 /\ DOMAIN shown = 1 .. Len(shown)
  <2>1. /\ shown' \in Seq(Event) /\ Len(shown') = Len(shown) + 1
        /\ \A i \in 1 .. Len(shown) : shown'[i] = shown[i]
        /\ shown'[Len(shown) + 1] = Len(shown) + 1
    BY <1>3, <1>4, AppendProperties
  <2> QED
    BY <1>4, <2>1
<1>6. shown' \in BoundedSeq(Event, MaxEvents)
  <2>1. Len(shown') <= MaxEvents
    BY <1>4, <1>5, Bounds DEF Event
  <2> QED
    BY <1>5, <2>1, Bounds, BoundedIsSeq
<1>7. TypeOK'
  BY <1>1, <1>6 DEF IInv, TypeOK
<1>8. SenderInv(server', Range(down'), offered', taken', client'.committed)
  BY <1>1 DEF IInv
<1>9. NetworkInv' /\ ReceiptInv' /\ RefusedOnlyByConsumer'
  BY <1>1 DEF IInv, NetworkInv, ReceiptInv, RefusedOnlyByConsumer, Connected
<1>10. ConsumerInv'
  <2>1. \A k \in 1 .. Len(shown) + 1 : k \in 1 .. Len(shown) \/ k = Len(shown) + 1
    BY ONLY <1>4
  <2>2. \A k \in DOMAIN shown' : shown'[k] \in taken
    BY <1>2, <1>5, <2>1 DEF IInv, ConsumerInv
  <2> QED
    BY <1>1, <2>2 DEF IInv, ConsumerInv, Connected
<1>11. StreamStep
  <2>1. Stream!Play
    BY <1>1, <1>2, <1>3 DEF Stream!Play
  <2> QED
    BY <2>1 DEF StreamStep, Stream!Next
<1> QED
  BY <1>7, <1>8, <1>9, <1>10, <1>11 DEF IInv

-----------------------------------------------------------------------------
(***************************************************************************)
(* The invariant holds at the start, and every step keeps it and is a step *)
(* of the stream or none.                                                  *)
(***************************************************************************)
LEMMA InitInv ==
    ASSUME Init
    PROVE  IInv /\ Stream!Init
<1>1. /\ server = FreshServer /\ offered = 0 /\ down = <<>> /\ up = <<>>
      /\ client = FreshClient /\ consumer = Idle /\ failure = "none"
      /\ taken = {} /\ shown = <<>>
  BY DEF Init
<1>2. /\ server.life = "active" /\ server.backlog = <<>> /\ server.next = 1
      /\ server.kept = {Descriptor} /\ server.nextMsg = 2
      /\ server.acked = FALSE
  BY <1>1 DEF FreshServer
<1>3. ASSUME NEW S, NEW n \in Nat PROVE <<>> \in BoundedSeq(S, n)
  <2>1. <<>> \in Seq(S) /\ Len(<<>>) <= n
    BY <1>3
  <2> QED
    BY <1>3, <2>1, BoundedIsSeq
<1>4. /\ server \in ServerState /\ Descriptor \in Message
  <2>1. Descriptor \in Message
    BY DEF Message
  <2>2. <<>> \in BoundedSeq(Candidate, Backlog)
    BY <1>3, Bounds
  <2>3. 1 \in 1 .. MaxEvents + 1 /\ 2 \in 2 .. MaxEvents + 2
    BY Bounds
  <2> QED
    BY <1>1, <2>1, <2>2, <2>3 DEF FreshServer, ServerState
<1>5. /\ client \in ClientState /\ client.committed = {}
      /\ client.owner = "none" /\ DOMAIN client.ledger = {}
  <2>1. NoReceipts \in Ledger
    BY LedgerIs DEF NoReceipts
  <2> QED
    BY <1>1, <2>1 DEF FreshClient, ClientState, Ledger, NoReceipts
<1>6. TypeOK
  <2>1. /\ down \in BoundedSeq(Message, MaxInFlight)
        /\ up \in BoundedSeq(SUBSET MessageSeq, MaxInFlight)
        /\ shown \in BoundedSeq(Event, MaxEvents)
    BY <1>1, <1>3, Bounds
  <2> QED
    BY <1>1, <1>4, <1>5, <2>1, ConsumerTypes, Bounds DEF TypeOK
<1>7. Range(down) = {}
  BY <1>1 DEF Range
<1>8. SenderInv(server, Range(down), offered, taken, client.committed)
  <2>1. /\ Descriptor.seq = 1 /\ EventsOf(Descriptor) = {}
        /\ LastOf(Descriptor) = -1 /\ DOMAIN Descriptor.ids = {}
    <3>1. Descriptor.seq = 1 /\ EventsOf(Descriptor) = {}
          /\ LastOf(Descriptor) = -1
      BY <1>4, MessageFacts
    <3> QED
      BY <3>1 DEF Descriptor
  <2>2. BacklogInOrder(server, 0)
    BY <1>2 DEF BacklogInOrder
  <2>3. Numbered(server, Descriptor)
    BY <1>2, <1>4, <2>1 DEF Numbered
  <2>4. \A e \in 1 .. -1 - Selective : FALSE
    BY Bounds
  <2>5. InReach(Descriptor, {}, {})
    BY <2>1, <2>4 DEF InReach
  <2>6. WholeOrNot(Descriptor, {}, {})
    BY <2>1 DEF WholeOrNot
  <2>7. Covered(server, {})
    <3>1. \A e \in 1 .. server.next - 1 : FALSE
      BY <1>2
    <3> QED
      BY <3>1 DEF Covered
  <2>8. server.nextMsg <= Descriptor.seq + Window
    BY <1>2, <2>1, Bounds
  <2>9. Apart({Descriptor})
    BY DEF Apart
  <2>10. server.kept \cup {} = {Descriptor} /\ ~(server.nextMsg > 2)
         /\ {} \subseteq 1 .. server.next - 1 /\ {} \subseteq 1 .. server.nextMsg - 1
    BY <1>2
  <2>11. SenderInv(server, {}, 0, {}, {})
    <3>1. \A m \in server.kept \cup {} : m = Descriptor
      BY <2>10
    <3> QED
      BY ONLY <1>2, <1>4, <2>2, <2>3, <2>5, <2>6, <2>7, <2>8, <2>9, <2>10, <3>1
         DEF SenderInv
  <2> QED
    BY <1>1, <1>5, <1>7, <2>11
<1>9. NetworkInv /\ ReceiptInv /\ ConsumerInv
  BY <1>1, <1>5, ConsumerTypes DEF NetworkInv, ReceiptInv, ConsumerInv
<1>10. RefusedOnlyByConsumer
  BY <1>1 DEF RefusedOnlyByConsumer
<1>11. Stream!Init
  <2>1. Held(server) = {}
    <3>1. \A m \in server.kept : Range(m.ids) = {}
      BY <1>2 DEF Descriptor, Range
    <3>2. DOMAIN server.backlog = {}
      BY <1>2
    <3> QED
      BY <3>1, <3>2 DEF Held
  <2> QED
    BY <1>1, <1>2, <2>1 DEF Stream!Init
<1> QED
  BY <1>6, <1>8, <1>9, <1>10, <1>11 DEF IInv

LEMMA StepInv ==
    ASSUME IInv, [Next]_vars
    PROVE  IInv' /\ StreamStep
<1>1. CASE \E n \in Event, fresh \in BOOLEAN : QueueCandidates(n, fresh)
  BY <1>1, QueueStep
<1>2. CASE Pump
  BY <1>2, PumpStep
<1>3. CASE \E seq \in MessageSeq : Send(seq)
  BY <1>3, SendStep
<1>4. CASE \E S \in Range(up) : ReceiveAcks(S)
  BY <1>4, AcksStep
<1>5. CASE Cancel
  BY <1>5, CancelStep
<1>6. CASE LoseMessage
  BY <1>6, LoseMessageStep
<1>7. CASE LoseAcks
  BY <1>7, LoseAcksStep
<1>8. CASE \E m \in Range(down) : Refuse(m)
  BY <1>8, RefuseStep
<1>9. CASE \E seq \in MessageSeq : Accept(seq)
  BY <1>9, RevalidateStep, ActivateStep, TakeStep DEF Accept
<1>10. CASE Play
  BY <1>10, PlayStep
<1>11. CASE TellAcks
  BY <1>11, TellAcksStep
<1>12. CASE PilotFails
  BY <1>12, PilotFailsStep
<1>13. CASE ConsumerLost
  BY <1>13, ConsumerLostStep
<1>14. CASE MapBoundary
  BY <1>14, MapBoundaryStep
<1>15. CASE UNCHANGED vars
  <2>1. UNCHANGED <<server, offered, down, up, client, consumer, failure,
                    taken, shown>>
    BY <1>15 DEF vars
  <2>2. StreamStep
    BY <2>1, StreamStays
  <2>3. /\ UNCHANGED <<network, history>> /\ offered' \in 0 .. MaxEvents
        /\ SenderInv(server', Range(down), offered', taken, client.committed)
    BY <2>1, StateFacts DEF network, history, IInv
  <2> QED
    BY <2>1, <2>2, <2>3, ServerStep
<1> QED
  BY <1>1, <1>2, <1>3, <1>4, <1>5, <1>6, <1>7, <1>8, <1>9, <1>10, <1>11,
     <1>12, <1>13, <1>14, <1>15 DEF Next

-----------------------------------------------------------------------------
\* The inductive invariant: where each number of an event is, that no packet
\* is older than the client's history, and that a receipt lasts as long.
THEOREM Invariance == Spec => []IInv
<1>1. Init => IInv
  BY InitInv
<1>2. IInv /\ [Next]_vars => IInv'
  BY StepInv
<1> QED
  BY <1>1, <1>2, PTL DEF Spec

\* Every variable stays within its type: the candidates that wait fit the
\* sender's backlog, no batch is longer than a message may be, and what is
\* due of a receipt stays between nothing and all its handoffs.
THEOREM TypeCorrect == Spec => []TypeOK
<1>1. IInv => TypeOK
  BY DEF IInv
<1> QED
  BY <1>1, Invariance, PTL

\* pilot_rx_event: whatever the network loses, the client never refuses a
\* message for its number, its order, its receipt or its window.
THEOREM OnlyOwnFailures == Spec => []RefusedOnlyByConsumer
<1>1. IInv => RefusedOnlyByConsumer
  BY DEF IInv
<1> QED
  BY <1>1, Invariance, PTL

\* The lane keeps what native_event_sender.h promises: the events are played
\* in the order of the queue, each once, and the sender lets go of an event
\* only when the client's consumer was given it.
THEOREM ImplementsStream == Spec => StreamSpec
<1>1. Init => Stream!Init
  BY InitInv
<1>2. IInv /\ [Next]_vars => [Stream!Next]_(Stream!vars)
  BY StepInv DEF StreamStep
<1> QED
  BY <1>1, <1>2, Invariance, PTL DEF Spec, StreamSpec, Stream!Spec

=============================================================================
