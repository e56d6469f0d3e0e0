-------------------------- MODULE NetchanNewProofs --------------------------
(***************************************************************************)
(* Proofs about NetchanNew, for every capacity, packet length and bound:   *)
(* fragments are put together exactly, acknowledgements are honest, the    *)
(* queue keeps its order, and, if the datagrams of the game fit a packet,  *)
(* reliable messages arrive in order and once.  NetchanLive inherits all   *)
(* of it.                                                                  *)
(***************************************************************************)
EXTENDS NetchanLive, NumberLemmas, SequenceTheorems, FiniteSetTheorems, TLAPS

-----------------------------------------------------------------------------
(***************************************************************************)
(* Units of a kind: UnitsIn is a loop over the units, so what it computes  *)
(* is shown by induction over them.                                        *)
(***************************************************************************)
Selects(g, s, kind) ==
    /\ g \in [0 .. Len(s) -> Seq(Int)]
    /\ g[0] = <<>>
    /\ \A i \in 1 .. Len(s) :
           g[i] = IF s[i] \in kind THEN Append(g[i - 1], s[i]) ELSE g[i - 1]

LEMMA UnitsInLoop ==
    ASSUME NEW s \in Seq(Int), NEW kind
    PROVE  \E g : Selects(g, s, kind) /\ UnitsIn(s, kind) = g[Len(s)]
<1> DEFINE N == Len(s)
           F(f) == [i \in 0 .. N |->
                       IF i = 0 THEN <<>>
                       ELSE IF s[i] \in kind THEN Append(f[i - 1], s[i])
                       ELSE f[i - 1]]
           upTo == CHOOSE f : f = F(f)
           h == [i \in 1 .. N |-> [v \in Seq(Int) |->
                    IF s[i] \in kind THEN Append(v, s[i]) ELSE v]]
<1>1. N \in Nat /\ DOMAIN s = 1 .. N /\ \A i \in 1 .. N : s[i] \in Int
  OBVIOUS
<1>2. h \in Steps(N, Seq(Int))
  BY <1>1 DEF Steps
<1>3. PICK g : Iterates(g, N, Seq(Int), <<>>, h)
  <2>1. <<>> \in Seq(Int)
    OBVIOUS
  <2> HIDE DEF h, N
  <2> QED
    BY <1>1, <1>2, <2>1, RecursionExists
<1> USE DEF Iterates
<1>4. \A i \in 1 .. N : /\ i - 1 \in 0 .. N /\ g[i - 1] \in Seq(Int)
                        /\ g[i] = IF s[i] \in kind THEN Append(g[i - 1], s[i])
                                  ELSE g[i - 1]
  <2>1. \A i \in 1 .. N : i - 1 \in 0 .. N
    BY <1>1
  <2>2. \A i \in 1 .. N : g[i - 1] \in Seq(Int)
    BY <1>3, <2>1
  <2> QED
    BY <1>3, <2>1, <2>2
<1>5. g = F(g)
  <2>1. ASSUME NEW i \in 0 .. N PROVE g[i] = F(g)[i]
    <3>1. CASE i = 0
      BY <1>3, <3>1
    <3>2. CASE i # 0
      <4>1. i \in 1 .. N
        BY <1>1, <3>2
      <4> QED
        BY <1>4, <3>2, <4>1
    <3> QED
      BY <3>1, <3>2
  <2> QED
    BY <1>3, <2>1
<1>6. upTo = F(upTo)
  BY <1>5
<1>7. UnitsIn(s, kind) = upTo[N]
  BY DEF UnitsIn
<1> HIDE DEF upTo
<1>8. /\ upTo[0] = <<>>
      /\ \A i \in 1 .. N : upTo[i] = IF s[i] \in kind
                                     THEN Append(upTo[i - 1], s[i])
                                     ELSE upTo[i - 1]
  <2>1. \A i \in 0 .. N : upTo[i] = F(upTo)[i]
    BY <1>6
  <2> QED
    BY <1>1, <2>1
<1>9. \A i \in 0 .. N : upTo[i] = g[i]
  <2> DEFINE T == {i \in 0 .. N : upTo[i] = g[i]}
  <2>1. 0 \in T
    BY <1>1, <1>3, <1>8
  <2>2. \A i \in 1 .. N : i - 1 \in T => i \in T
    BY <1>1, <1>4, <1>8
  <2>3. \A i \in 0 .. N : i \in T
    <3> HIDE DEF T, N
    <3> QED
      BY <1>1, <2>1, <2>2, AllUpTo
  <2> QED
    BY <2>3
<1>10. Selects(g, s, kind)
  BY <1>3, <1>4 DEF Selects
<1> QED
  BY <1>1, <1>7, <1>9, <1>10

\* One turn of the loop.
LEMMA SelectsStep ==
    ASSUME NEW s \in Seq(Int), NEW kind, NEW g, Selects(g, s, kind),
           NEW i \in 1 .. Len(s)
    PROVE  /\ i - 1 \in 0 .. Len(s) /\ i \in 0 .. Len(s)
           /\ g[i - 1] \in Seq(Int) /\ s[i] \in Int
           /\ s[i] \in kind => g[i] = Append(g[i - 1], s[i])
           /\ s[i] \notin kind => g[i] = g[i - 1]
<1>1. /\ i - 1 \in 0 .. Len(s) /\ i \in 0 .. Len(s) /\ s[i] \in Int
  OBVIOUS
<1> QED
  BY <1>1 DEF Selects

LEMMA SelectsEnds ==
    ASSUME NEW s \in Seq(Int), NEW kind, NEW g, Selects(g, s, kind)
    PROVE  g[0] = <<>> /\ g[Len(s)] \in Seq(Int)
<1>1. Len(s) \in 0 .. Len(s)
  OBVIOUS
<1> QED
  BY <1>1 DEF Selects

LEMMA UnitsInType ==
    ASSUME NEW s \in Seq(Int), NEW kind
    PROVE  UnitsIn(s, kind) \in Seq(Int)
  BY UnitsInLoop, SelectsEnds

LEMMA UnitsInEmpty ==
    ASSUME NEW kind PROVE UnitsIn(<<>>, kind) = <<>>
<1>1. <<>> \in Seq(Int) /\ Len(<<>>) = 0
  OBVIOUS
<1>2. PICK g : Selects(g, <<>>, kind) /\ UnitsIn(<<>>, kind) = g[Len(<<>>)]
  BY <1>1, UnitsInLoop
<1>3. g[0] = <<>>
  BY <1>2 DEF Selects
<1> QED
  BY <1>1, <1>2, <1>3

LEMMA UnitsInConcat ==
    ASSUME NEW s \in Seq(Int), NEW t \in Seq(Int), NEW kind
    PROVE  UnitsIn(s \o t, kind) = UnitsIn(s, kind) \o UnitsIn(t, kind)
<1> DEFINE u == s \o t
           M == Len(s)
           N == Len(t)
<1>1. /\ u \in Seq(Int) /\ Len(u) = M + N /\ M \in Nat /\ N \in Nat
      /\ \A i \in 1 .. M : u[i] = s[i] /\ i \in 1 .. Len(u)
      /\ \A i \in 1 .. N : u[M + i] = t[i] /\ M + i \in 1 .. Len(u)
                           /\ M + i - 1 = M + (i - 1)
  OBVIOUS
<1> HIDE DEF u
<1>2. PICK f : Selects(f, s, kind) /\ UnitsIn(s, kind) = f[M]
  BY UnitsInLoop
<1>3. PICK g : Selects(g, t, kind) /\ UnitsIn(t, kind) = g[N]
  BY UnitsInLoop
<1>4. PICK w : Selects(w, u, kind) /\ UnitsIn(u, kind) = w[Len(u)]
  BY <1>1, UnitsInLoop
<1>5. w[M] = f[M]
  <2> DEFINE T == {i \in 0 .. M : w[i] = f[i]}
  <2>1. 0 \in T
    <3>1. w[0] = <<>> /\ f[0] = <<>>
      BY <1>1, <1>2, <1>4, SelectsEnds
    <3> QED
      BY <1>1, <3>1
  <2>2. ASSUME NEW i \in 1 .. M, i - 1 \in T PROVE i \in T
    <3>1. /\ i \in 0 .. M
          /\ s[i] \in kind => f[i] = Append(f[i - 1], s[i])
          /\ s[i] \notin kind => f[i] = f[i - 1]
      BY <1>2, SelectsStep
    <3>2. /\ s[i] \in kind => w[i] = Append(w[i - 1], s[i])
          /\ s[i] \notin kind => w[i] = w[i - 1]
      <4>1. u \in Seq(Int) /\ Selects(w, u, kind)
        BY <1>1, <1>4
      <4>2. i \in 1 .. Len(u) /\ u[i] = s[i]
        BY <1>1
      <4>3. /\ u[i] \in kind => w[i] = Append(w[i - 1], u[i])
            /\ u[i] \notin kind => w[i] = w[i - 1]
        BY <4>1, <4>2, SelectsStep
      <4> QED
        BY <4>2, <4>3
    <3> QED
      BY <2>2, <3>1, <3>2
  <2>3. \A i \in 0 .. M : i \in T
    <3> HIDE DEF T, M
    <3> QED
      BY <1>1, <2>1, <2>2, AllUpTo
  <2> QED
    BY <1>1, <2>3
<1> DEFINE T == {i \in 0 .. N : w[M + i] = f[M] \o g[i]}
<1>6. f[M] \in Seq(Int)
  BY <1>2, SelectsEnds
<1>7. 0 \in T
  <2>1. g[0] = <<>> /\ M + 0 = M /\ 0 \in 0 .. N
    BY <1>1, <1>3, SelectsEnds
  <2>2. f[M] \o <<>> = f[M]
    BY <1>6
  <2> QED
    BY <1>5, <2>1, <2>2
<1>8. ASSUME NEW i \in 1 .. N, i - 1 \in T PROVE i \in T
  <2>1. /\ i \in 0 .. N
        /\ g[i - 1] \in Seq(Int) /\ t[i] \in Int
        /\ t[i] \in kind => g[i] = Append(g[i - 1], t[i])
        /\ t[i] \notin kind => g[i] = g[i - 1]
    BY <1>3, SelectsStep
  <2>2. w[M + (i - 1)] = f[M] \o g[i - 1]
    BY <1>8
  <2>3. /\ t[i] \in kind => w[M + i] = Append(w[M + (i - 1)], t[i])
        /\ t[i] \notin kind => w[M + i] = w[M + (i - 1)]
    <3> DEFINE j == M + i
    <3>1. j \in 1 .. Len(u) /\ u[j] = t[i] /\ j - 1 = M + (i - 1)
      BY <1>1
    <3>2. j \in 1 .. Len(u)
      BY <3>1
    <3>3. u \in Seq(Int) /\ Selects(w, u, kind)
      BY <1>1, <1>4
    <3> HIDE DEF j
    <3>4. /\ u[j] \in kind => w[j] = Append(w[j - 1], u[j])
          /\ u[j] \notin kind => w[j] = w[j - 1]
      BY <3>2, <3>3, SelectsStep
    <3> QED
      BY <3>1, <3>4 DEF j
  <2>4. f[M] \o Append(g[i - 1], t[i]) = Append(f[M] \o g[i - 1], t[i])
    <3> DEFINE a == f[M]
               b == g[i - 1]
               x == t[i]
    <3>1. a \in Seq(Int) /\ b \in Seq(Int) /\ x \in Int
      BY <1>6, <2>1
    <3> HIDE DEF a, b, x
    <3>2. a \o Append(b, x) = Append(a \o b, x)
      BY <3>1
    <3> QED
      BY <3>2 DEF a, b, x
  <2> QED
    BY <2>1, <2>2, <2>3, <2>4
<1>9. N \in T
  <2>1. \A i \in 0 .. N : i \in T
    <3> HIDE DEF T, N
    <3> QED
      BY <1>1, <1>7, <1>8, AllUpTo
  <2>2. N \in 0 .. N
    BY <1>1
  <2> HIDE DEF T
  <2> QED
    BY <2>1, <2>2
<1> QED
  BY <1>1, <1>2, <1>3, <1>4, <1>9 DEF u

LEMMA ConcatOfThree ==
    ASSUME NEW s \in Seq(Int), NEW t \in Seq(Int), NEW u \in Seq(Int)
    PROVE  (s \o t) \o u = s \o (t \o u)
  BY ConcatAssociative

\* When all are of the kind nothing is left out, when none is everything is.
LEMMA UnitsInAll ==
    ASSUME NEW s \in Seq(Int), NEW kind, \A i \in 1 .. Len(s) : s[i] \in kind
    PROVE  UnitsIn(s, kind) = s
<1> DEFINE N == Len(s)
<1>1. PICK g : Selects(g, s, kind) /\ UnitsIn(s, kind) = g[N]
  BY UnitsInLoop
<1> DEFINE T == {i \in 0 .. N : g[i] = SubSeq(s, 1, i)}
<1>2. N \in Nat
  OBVIOUS
<1>3. 0 \in T
  <2>1. SubSeq(s, 1, 0) = <<>> /\ 0 \in 0 .. N
    BY <1>2
  <2>2. g[0] = <<>>
    BY <1>1, SelectsEnds
  <2> QED
    BY <2>1, <2>2
<1>4. ASSUME NEW i \in 1 .. N, i - 1 \in T PROVE i \in T
  <2>1. i \in 0 .. N /\ g[i] = Append(g[i - 1], s[i])
    BY <1>1, SelectsStep
  <2>2. g[i - 1] = SubSeq(s, 1, i - 1)
    BY <1>4
  <2>3. Append(SubSeq(s, 1, i - 1), s[i]) = SubSeq(s, 1, i)
    OBVIOUS
  <2> QED
    BY <2>1, <2>2, <2>3
<1>5. N \in T
  <2>1. \A i \in 0 .. N : i \in T
    <3> HIDE DEF T, N
    <3> QED
      BY <1>2, <1>3, <1>4, AllUpTo
  <2> QED
    BY <1>2, <2>1
<1>6. SubSeq(s, 1, N) = s
  OBVIOUS
<1> QED
  BY <1>1, <1>5, <1>6

LEMMA UnitsInNone ==
    ASSUME NEW s \in Seq(Int), NEW kind, \A i \in 1 .. Len(s) : s[i] \notin kind
    PROVE  UnitsIn(s, kind) = <<>>
<1> DEFINE N == Len(s)
<1>1. PICK g : Selects(g, s, kind) /\ UnitsIn(s, kind) = g[N]
  BY UnitsInLoop
<1> DEFINE T == {i \in 0 .. N : g[i] = <<>>}
<1>2. N \in Nat
  OBVIOUS
<1>3. 0 \in T
  BY <1>1, <1>2, SelectsEnds
<1>4. ASSUME NEW i \in 1 .. N, i - 1 \in T PROVE i \in T
  <2>1. i \in 0 .. N /\ g[i] = g[i - 1]
    BY <1>1, SelectsStep
  <2> QED
    BY <1>4, <2>1
<1>5. N \in T
  <2>1. \A i \in 0 .. N : i \in T
    <3> HIDE DEF T, N
    <3> QED
      BY <1>2, <1>3, <1>4, AllUpTo
  <2> QED
    BY <1>2, <2>1
<1> QED
  BY <1>1, <1>5

-----------------------------------------------------------------------------
(***************************************************************************)
(* Sending.  Whatever the operation, an end emits one packet: a true copy  *)
(* of the message under way, or of a stretch of it.                        *)
(***************************************************************************)
LEMMA PeerFacts ==
    ASSUME NEW e \in Ends
    PROVE  /\ Peer(e) \in Ends
           /\ Peer(e) # e
           /\ Peer(Peer(e)) = e
           /\ \A x \in Ends : x = e \/ x = Peer(e)
  BY TwoEnds DEF Ends, Peer

LEMMA FlipBit == ASSUME NEW b \in Bit PROVE Flip(b) \in Bit /\ Flip(b) # b
  BY DEF Bit, Flip

LEMMA FieldTypes ==
    ASSUME TypeOK, NEW e \in Ends
    PROVE  /\ incoming_sequence[e] \in Nat
           /\ outgoing_sequence[e] \in Nat
           /\ incoming_acknowledged[e] \in Nat
           /\ incoming_reliable_acknowledged[e] \in Bit
           /\ incoming_reliable_sequence[e] \in Bit
           /\ reliable_sequence[e] \in Bit
           /\ last_reliable_sequence[e] \in Nat
           /\ reliable_buf[e] \in Seq(Int)
           /\ message[e] \in Seq(Int)
           /\ future_acknowledgements[e] \in Nat
           /\ conflicting_acknowledgements[e] \in Nat
           /\ network[e] \in SUBSET Packet
           /\ written[e] \in Nat
           /\ sealed[e] \in Seq(Int)
           /\ delivered[e] \in Seq(Int)
           /\ fragment_out[e] \in Seq(Int)
           /\ readcount[e] \in Nat
           /\ fragment_pending[e] \in BOOLEAN
           /\ fragment_in[e] \in Seq(Int)
           /\ fragment_sequence[e] \in Nat
           /\ isolated[e] \in Nat
           /\ assembled[e] \in Seq(Seq(Int))
           /\ msg_read[e] \in Seq(Int)
  BY DEF TypeOK

LEMMA PacketTypes ==
    ASSUME NEW p \in Packet
    PROVE  /\ p.sequence \in Nat
           /\ p.reliable \in BOOLEAN
           /\ p.ack \in Nat
           /\ p.rack \in Bit
           /\ p.fragment \in BOOLEAN
           /\ p.offset \in Nat
           /\ p.more \in BOOLEAN
           /\ p.data \in Seq(Int)
  BY DEF Packet

\* The message under way is the last of those begun.
SendingInv(e) ==
    /\ outgoing_sequence[e] > 0
    /\ fragment_pending[e] =>
           /\ Len(assembled[e]) = outgoing_sequence[e]
           /\ fragment_out[e] = assembled[e][outgoing_sequence[e]]
           /\ readcount[e] \in 1 .. Len(fragment_out[e]) - 1
    /\ ~ fragment_pending[e] =>
           /\ Len(assembled[e]) = outgoing_sequence[e] - 1
           /\ fragment_out[e] = <<>>

TrueCopy(p, m) ==
    /\ ~ p.fragment => ~ p.more /\ p.data = m
    /\ p.fragment =>
           /\ p.offset + Len(p.data) <= Len(m)
           /\ p.data = SubSeq(m, p.offset + 1, p.offset + Len(p.data))
           /\ p.more <=> p.offset + Len(p.data) # Len(m)

LEMMA FragmentIsTrue ==
    ASSUME TypeOK, NEW e \in Ends, NEW out \in Seq(Int), NEW from \in Nat,
           from = 0 \/ from < Len(out), NEW rel
    PROVE  LET p == FragmentPacket(e, out, from, rel)
           IN  /\ p \in Packet /\ p.fragment /\ p.reliable = (rel # <<>>)
               /\ p.sequence = outgoing_sequence[e]
               /\ p.ack = incoming_sequence[e]
               /\ p.rack = incoming_reliable_sequence[e]
               /\ TrueCopy(p, out)
               /\ from + Len(p.data) \in Nat
               /\ p.more => from + Len(p.data) \in 1 .. Len(out) - 1
<1> DEFINE p == FragmentPacket(e, out, from, rel)
           len == Least(Len(out) - from, MaxPacketLen)
<1>1. Len(out) \in Nat /\ MaxPacketLen \in Nat \ {0} /\ from <= Len(out)
  BY LengthAssumption
<1>2. /\ len \in Nat /\ from + len <= Len(out)
      /\ from + len # Len(out) => len > 0
  BY <1>1 DEF Least
<1> HIDE DEF len
<1>3. /\ SubSeq(out, from + 1, from + len) \in Seq(Int)
      /\ Len(SubSeq(out, from + 1, from + len)) = len
  BY <1>1, <1>2
<1>4. /\ p.sequence = outgoing_sequence[e] /\ p.reliable = (rel # <<>>)
      /\ p.ack = incoming_sequence[e] /\ p.fragment /\ p.offset = from
      /\ p.rack = incoming_reliable_sequence[e]
      /\ p.more = (from + len # Len(out))
      /\ p.data = SubSeq(out, from + 1, from + len)
  BY DEF FragmentPacket, len
<1>5. p \in Packet
  BY <1>3, FieldTypes DEF FragmentPacket, len, Packet
<1> HIDE DEF p
<1>6. Len(p.data) = len
  BY <1>3, <1>4
<1>7. TrueCopy(p, out)
  BY <1>2, <1>4, <1>6 DEF TrueCopy
<1>8. p.more => from + Len(p.data) \in 1 .. Len(out) - 1
  <2>1. p.more => from + len # Len(out) /\ len > 0
    BY <1>2, <1>4
  <2>2. from + len # Len(out) /\ len > 0 => from + len \in 1 .. Len(out) - 1
    BY <1>1, <1>2
  <2> QED
    BY <1>6, <2>1, <2>2
<1>9. from + Len(p.data) \in Nat
  BY <1>2, <1>6
<1> QED
  BY <1>4, <1>5, <1>7, <1>8, <1>9 DEF p

\* What changes when e emits packet p of message m.
Emits(e, p, m) ==
    /\ p \in Packet /\ m \in Seq(Int)
    /\ p.sequence = outgoing_sequence[e]
    /\ p.ack = incoming_sequence[e]
    /\ p.rack = incoming_reliable_sequence[e]
    /\ TrueCopy(p, m)
    /\ network' = [network EXCEPT ![e] = network[e] \cup {p}]
    /\ fragment_pending' = [fragment_pending EXCEPT ![e] = p.more]
    /\ fragment_out' = [fragment_out EXCEPT ![e] = IF p.more THEN m ELSE <<>>]
    /\ readcount' \in [Ends -> Nat]
    /\ readcount'[Peer(e)] = readcount[Peer(e)]
    /\ p.more => readcount'[e] \in 1 .. Len(m) - 1
    /\ outgoing_sequence' =
           [outgoing_sequence EXCEPT ![e] = IF p.more THEN outgoing_sequence[e]
                                            ELSE outgoing_sequence[e] + 1]
    /\ reliable_ack_pending' \in [Ends -> BOOLEAN]

LEMMA SendFragmentEmits ==
    ASSUME TypeOK, NEW e \in Ends, NEW out \in Seq(Int), NEW from \in Nat,
           from = 0 \/ from < Len(out), NEW rel, SendFragment(e, out, from, rel)
    PROVE  \E p : /\ Emits(e, p, out)
                  /\ p.fragment /\ p.reliable = (rel # <<>>)
<1> DEFINE p == FragmentPacket(e, out, from, rel)
<1>1. /\ p \in Packet /\ p.fragment /\ p.reliable = (rel # <<>>)
      /\ p.sequence = outgoing_sequence[e]
      /\ p.ack = incoming_sequence[e]
      /\ p.rack = incoming_reliable_sequence[e]
      /\ TrueCopy(p, out)
      /\ from + Len(p.data) \in Nat
      /\ p.more => from + Len(p.data) \in 1 .. Len(out) - 1
  BY FragmentIsTrue
<1>2. /\ network' = [network EXCEPT ![e] = network[e] \cup {p}]
      /\ fragment_pending' = [fragment_pending EXCEPT ![e] = p.more]
      /\ fragment_out' = [fragment_out EXCEPT ![e] = IF p.more THEN out ELSE <<>>]
      /\ readcount' = [readcount EXCEPT ![e] = IF p.more THEN from + Len(p.data)
                                               ELSE 0]
      /\ reliable_ack_pending' = reliable_ack_pending
  BY DEF SendFragment
<1>3. outgoing_sequence' =
           [outgoing_sequence EXCEPT ![e] = IF p.more THEN outgoing_sequence[e]
                                            ELSE outgoing_sequence[e] + 1]
  <2>1. CASE p.more
    BY <2>1 DEF SendFragment, TypeOK
  <2>2. CASE ~ p.more
    BY <2>2 DEF SendFragment
  <2> QED
    BY <2>1, <2>2
<1> HIDE DEF p
<1>4. /\ readcount' \in [Ends -> Nat]
      /\ readcount'[Peer(e)] = readcount[Peer(e)]
      /\ p.more => readcount'[e] \in 1 .. Len(out) - 1
      /\ reliable_ack_pending' \in [Ends -> BOOLEAN]
  BY <1>1, <1>2, PeerFacts DEF TypeOK
<1>5. Emits(e, p, out)
  BY <1>1, <1>2, <1>3, <1>4 DEF Emits
<1> QED
  BY <1>1, <1>5

-----------------------------------------------------------------------------
\* A message that begins: the batch rel, if it is to go out, and a datagram.
RelPart(rel, send) == IF send THEN rel ELSE <<>>

LEMMA UnreliableIs ==
    ASSUME TypeOK, NEW e \in Ends, NEW len \in Nat
    PROVE  /\ Unreliable(e, len) \in Seq(Int)
           /\ Len(Unreliable(e, len)) = len
           /\ \A i \in 1 .. len :
                  Unreliable(e, len)[i] = MaxWritten[e] + outgoing_sequence[e]
<1>1. MaxWritten[e] + outgoing_sequence[e] \in Int
  BY BoundAssumption, FieldTypes
<1> QED
  BY <1>1 DEF Unreliable

LEMMA SendMessageEmits ==
    ASSUME TypeOK, NEW e \in Ends, SendingInv(e), ~ fragment_pending[e],
           NEW rel \in Seq(Int), NEW send \in BOOLEAN, NEW len \in Nat,
           SendMessage(e, rel, send, len)
    PROVE  \E p, m :
               /\ Emits(e, p, m)
               /\ assembled' = [assembled EXCEPT ![e] = Append(assembled[e], m)]
               /\ \/ m = RelPart(rel, send)
                  \/ m = RelPart(rel, send) \o Unreliable(e, len)
               /\ p.fragment => p.reliable = (rel # <<>>)
               /\ ~ p.fragment => p.reliable = send
               /\ p.fragment /\ len <= MaxPacketLen => send
<1> DEFINE relPart == RelPart(rel, send)
           split == \/ len > MaxPacketLen
                    \/ send /\ Len(rel) + len > MaxPacketLen
           m == IF split /\ Len(relPart) + len > MessageMax
                THEN relPart ELSE relPart \o Unreliable(e, len)
           q == [sequence |-> outgoing_sequence[e],
                 reliable |-> send,
                 ack      |-> incoming_sequence[e],
                 rack     |-> incoming_reliable_sequence[e],
                 fragment |-> FALSE,
                 offset   |-> 0,
                 more     |-> FALSE,
                 data     |-> m]
<1>1. /\ assembled' = [assembled EXCEPT ![e] = Append(assembled[e], m)]
      /\ split => SendFragment(e, m, 0, rel)
      /\ ~ split => /\ network' = [network EXCEPT ![e] = network[e] \cup {q}]
                    /\ outgoing_sequence' = [outgoing_sequence EXCEPT
                                                 ![e] = outgoing_sequence[e] + 1]
                    /\ reliable_ack_pending' =
                           [reliable_ack_pending EXCEPT ![e] = FALSE]
                    /\ UNCHANGED fragmentVars
  BY DEF SendMessage, RelPart
<1>2. relPart \in Seq(Int) /\ m \in Seq(Int)
  <2>1. relPart \in Seq(Int)
    BY DEF RelPart
  <2>2. relPart \o Unreliable(e, len) \in Seq(Int)
    BY <2>1, UnreliableIs
  <2> QED
    BY <2>1, <2>2
<1>3. m = relPart \/ m = relPart \o Unreliable(e, len)
  OBVIOUS
<1>4. q \in Packet
  BY <1>2, FieldTypes DEF Packet
<1>5. /\ q.sequence = outgoing_sequence[e] /\ q.reliable = send
      /\ q.ack = incoming_sequence[e] /\ ~ q.fragment
      /\ q.rack = incoming_reliable_sequence[e]
      /\ ~ q.more /\ q.more = FALSE /\ q.data = m
  OBVIOUS
<1>6. split /\ len <= MaxPacketLen => send
  BY LengthAssumption
<1> HIDE DEF m, q, split
<1>7. CASE split
  <2>1. PICK p : Emits(e, p, m) /\ p.fragment /\ p.reliable = (rel # <<>>)
    BY <1>1, <1>2, <1>7, SendFragmentEmits
  <2> QED
    BY <1>1, <1>3, <1>6, <1>7, <2>1
<1>8. CASE ~ split
  <2>1. /\ network' = [network EXCEPT ![e] = network[e] \cup {q}]
        /\ outgoing_sequence' = [outgoing_sequence EXCEPT
                                     ![e] = outgoing_sequence[e] + 1]
        /\ reliable_ack_pending' = [reliable_ack_pending EXCEPT ![e] = FALSE]
        /\ fragment_out' = fragment_out /\ readcount' = readcount
        /\ fragment_pending' = fragment_pending
    BY <1>1, <1>8 DEF fragmentVars
  <2>2. /\ fragment_pending' = [fragment_pending EXCEPT ![e] = q.more]
        /\ fragment_out' = [fragment_out EXCEPT
                                ![e] = IF q.more THEN m ELSE <<>>]
        /\ outgoing_sequence' =
               [outgoing_sequence EXCEPT
                   ![e] = IF q.more THEN outgoing_sequence[e]
                          ELSE outgoing_sequence[e] + 1]
    <3>1. fragment_pending[e] = FALSE /\ fragment_out[e] = <<>>
      BY FieldTypes DEF SendingInv
    <3>2. /\ fragment_pending = [fragment_pending EXCEPT ![e] = FALSE]
          /\ fragment_out = [fragment_out EXCEPT ![e] = <<>>]
      BY <3>1 DEF TypeOK
    <3> QED
      BY <1>5, <2>1, <3>2
  <2>3. /\ readcount' \in [Ends -> Nat]
        /\ readcount'[Peer(e)] = readcount[Peer(e)]
        /\ reliable_ack_pending' \in [Ends -> BOOLEAN]
    BY <2>1 DEF TypeOK
  <2>4. TrueCopy(q, m)
    BY <1>5 DEF TrueCopy
  <2>5. Emits(e, q, m)
    BY <1>2, <1>4, <1>5, <2>1, <2>2, <2>3, <2>4 DEF Emits
  <2> QED
    BY <1>1, <1>3, <1>5, <2>5
<1> QED
  BY <1>7, <1>8

\* What the three operations that begin a message have in common.
Begins(e, rel, send, len) ==
    /\ ~ fragment_pending[e]
    /\ rel \in Seq(Int) /\ send \in BOOLEAN
    /\ len \in UnreliableLengths
    /\ SendMessage(e, rel, send, len)
    /\ \/ /\ SealBatch(e, rel)
          /\ send /\ reliable_buf[e] = <<>> /\ rel # <<>>
       \/ /\ UNCHANGED <<reliable_buf, reliable_sequence, sealed>>
          /\ rel = reliable_buf[e] /\ send = RemoteDroppedReliable(e)
    /\ UNCHANGED written
    /\ message' \in [Ends -> Seq(Int)]
    /\ isolated' \in [Ends -> Nat]

LEMMA TransmitBegins ==
    ASSUME TypeOK, NEW e \in Ends, NEW len \in UnreliableLengths, Transmit(e, len)
    PROVE  \E rel, send : Begins(e, rel, send, len)
<1>1. /\ ~ fragment_pending[e] /\ written' = written
      /\ isolated' \in [Ends -> Nat]
  BY DEF Transmit, TypeOK
<1>2. CASE CanSeal(e)
  <2>1. /\ SealBatch(e, message[e])
        /\ message' = [message EXCEPT ![e] = <<>>]
        /\ SendMessage(e, message[e], TRUE, len)
        /\ reliable_buf[e] = <<>> /\ message[e] # <<>>
    BY <1>2 DEF Transmit, CanSeal
  <2>2. message' \in [Ends -> Seq(Int)]
    <3>1. <<>> \in Seq(Int)
      OBVIOUS
    <3> QED
      BY <2>1, <3>1 DEF TypeOK
  <2>3. Begins(e, message[e], TRUE, len)
    BY <1>1, <2>1, <2>2, FieldTypes DEF Begins
  <2> QED
    BY <2>3
<1>3. CASE ~ CanSeal(e)
  <2>1. /\ SendMessage(e, reliable_buf[e], RemoteDroppedReliable(e), len)
        /\ UNCHANGED <<reliable_buf, reliable_sequence, sealed, message>>
    BY <1>3 DEF Transmit
  <2>2. RemoteDroppedReliable(e) \in BOOLEAN
    BY DEF RemoteDroppedReliable
  <2>3. Begins(e, reliable_buf[e], RemoteDroppedReliable(e), len)
    BY <1>1, <2>1, <2>2, FieldTypes DEF Begins, TypeOK
  <2> QED
    BY <2>3
<1> QED
  BY <1>2, <1>3

LEMMA PrefixBegins ==
    ASSUME TypeOK, NEW e \in Ends, NEW n, TransmitQueuedReliablePrefix(e, n)
    PROVE  /\ Begins(e, SubSeq(message[e], 1, n), TRUE, 0)
           /\ n \in 1 .. Len(message[e])
           /\ message' = [message EXCEPT
                              ![e] = SubSeq(message[e], n + 1, Len(message[e]))]
<1> DEFINE rel == SubSeq(message[e], 1, n)
<1>1. /\ ReliableHandoffReady(e) /\ n \in 1 .. Len(message[e])
      /\ SealBatch(e, rel) /\ SendMessage(e, rel, TRUE, 0)
      /\ message' = [message EXCEPT
                         ![e] = SubSeq(message[e], n + 1, Len(message[e]))]
      /\ written' = written /\ isolated' = isolated
  BY DEF TransmitQueuedReliablePrefix
<1>2. /\ message[e] \in Seq(Int) /\ rel \in Seq(Int) /\ Len(rel) = n
      /\ SubSeq(message[e], n + 1, Len(message[e])) \in Seq(Int)
  BY <1>1, FieldTypes
<1>3. rel # <<>>
  <2>1. n > 0
    BY <1>1
  <2> HIDE DEF rel
  <2> QED
    BY <1>2, <2>1
<1>4. message' \in [Ends -> Seq(Int)]
  BY <1>1, <1>2 DEF TypeOK
<1>5. ~ fragment_pending[e] /\ reliable_buf[e] = <<>>
  BY <1>1 DEF ReliableHandoffReady
<1> HIDE DEF rel
<1>6. Begins(e, rel, TRUE, 0)
  BY <1>1, <1>2, <1>3, <1>4, <1>5, LengthAssumption DEF Begins, TypeOK
<1> QED
  BY <1>1, <1>6 DEF rel

LEMMA IsolatedBegins ==
    ASSUME TypeOK, NEW e \in Ends, TransmitIsolatedReliable(e)
    PROVE  Begins(e, << - isolated[e] - 1 >>, TRUE, 0) /\ message' = message
<1> DEFINE rel == << - isolated[e] - 1 >>
<1>1. /\ ReliableHandoffReady(e)
      /\ SealBatch(e, rel) /\ SendMessage(e, rel, TRUE, 0)
      /\ isolated' = [isolated EXCEPT ![e] = isolated[e] + 1]
      /\ message' = message /\ written' = written
  BY DEF TransmitIsolatedReliable
<1>2. - isolated[e] - 1 \in Int /\ isolated[e] + 1 \in Nat
  BY FieldTypes
<1>3. rel \in Seq(Int) /\ rel # <<>>
  BY <1>2
<1>4. isolated' \in [Ends -> Nat]
  BY <1>1, <1>2 DEF TypeOK
<1>5. ~ fragment_pending[e] /\ reliable_buf[e] = <<>>
  BY <1>1 DEF ReliableHandoffReady
<1> HIDE DEF rel
<1>6. Begins(e, rel, TRUE, 0)
  BY <1>1, <1>3, <1>4, <1>5, LengthAssumption DEF Begins, TypeOK
<1> QED
  BY <1>1, <1>6 DEF rel

-----------------------------------------------------------------------------
(***************************************************************************)
(* The part of the inductive invariant that holds whatever the datagrams   *)
(* of the game are; again one direction at a time, from e to its peer.     *)
(***************************************************************************)
\* What e has put on the network is cut from the messages it has begun; the
\* end of a message is out only when e has gone on to the next one.
CopiesInv(e) ==
    \A p \in network[e] :
        /\ p.sequence \in 1 .. Len(assembled[e])
        /\ TrueCopy(p, assembled[e][p.sequence])
        /\ ~ p.more => p.sequence < outgoing_sequence[e]

IsStart(s, t) == Len(s) <= Len(t) /\ s = SubSeq(t, 1, Len(s))

\* The peer reassembles a message of e, and has read the one it says.
Reassembles(r, sequence, in, e) ==
    in # <<>> => /\ sequence \in 1 .. Len(assembled[e])
                 /\ IsStart(in, assembled[e][sequence])

ReadingInv(e) ==
    /\ incoming_sequence[Peer(e)] < outgoing_sequence[e]
    /\ incoming_sequence[Peer(e)] > 0 =>
           msg_read[Peer(e)] = assembled[e][incoming_sequence[Peer(e)]]
    /\ Reassembles(Peer(e), fragment_sequence[Peer(e)], fragment_in[Peer(e)], e)

AckInv(e) ==
    /\ \A x \in Acknowledgements(e) : x[1] <= incoming_sequence[Peer(e)]
    /\ OneBitPerAck(e)

DirectionInv(e) ==
    /\ SendingInv(e)
    /\ CopiesInv(e)
    /\ ReadingInv(e)
    /\ AckInv(e)

IInv ==
    /\ TypeOK
    /\ AcknowledgementsAgree
    /\ \A e \in Ends : DirectionInv(e)

LEMMA AckTypes ==
    ASSUME TypeOK, NEW e \in Ends, NEW x \in Acknowledgements(e)
    PROVE  x[1] \in Nat /\ x[2] \in Bit
<1>1. CASE x \in {AckOf(p) : p \in network[Peer(e)]}
  <2>1. PICK p \in network[Peer(e)] : x = AckOf(p)
    BY <1>1
  <2>2. p \in Packet
    BY FieldTypes, PeerFacts
  <2> QED
    BY <2>1, <2>2, PacketTypes DEF AckOf
<1>2. CASE x = <<incoming_acknowledged[e], incoming_reliable_acknowledged[e]>>
  BY <1>2, FieldTypes
<1>3. CASE x = <<incoming_sequence[Peer(e)],
                 incoming_reliable_sequence[Peer(e)]>>
  BY <1>3, FieldTypes, PeerFacts
<1> QED
  BY <1>1, <1>2, <1>3 DEF Acknowledgements

LEMMA AckMembers ==
    ASSUME NEW e \in Ends
    PROVE  /\ \A p \in network[Peer(e)] : AckOf(p) \in Acknowledgements(e)
           /\ <<incoming_acknowledged[e], incoming_reliable_acknowledged[e]>>
                  \in Acknowledgements(e)
           /\ <<incoming_sequence[Peer(e)], incoming_reliable_sequence[Peer(e)]>>
                  \in Acknowledgements(e)
  BY DEF Acknowledgements

\* The step of the sender: it emits p, of a message that begins or goes on.
SendStep(e, p, m) ==
    /\ Emits(e, p, m)
    /\ \/ /\ ~ fragment_pending[e]
          /\ assembled' = [assembled EXCEPT ![e] = Append(assembled[e], m)]
       \/ /\ fragment_pending[e] /\ m = fragment_out[e]
          /\ assembled' = assembled
    /\ UNCHANGED <<incoming_sequence, incoming_reliable_sequence,
                   incoming_acknowledged, incoming_reliable_acknowledged,
                   future_acknowledgements, conflicting_acknowledgements,
                   overflowed, delivered, fragment_in, fragment_sequence,
                   msg_read>>

LEMMA LengthIsNumber ==
    ASSUME NEW T, NEW q \in Seq(T) PROVE Len(q) \in Nat
OBVIOUS

LEMMA LongerCovers ==
    ASSUME NEW a \in Nat, NEW b, b = a + 1
    PROVE  a <= b /\ \A s \in 1 .. a : s \in 1 .. b
OBVIOUS

\* After the step the message has its place among those begun.
LEMMA MessageBegun ==
    ASSUME TypeOK, NEW e \in Ends, SendingInv(e), NEW p, NEW m, SendStep(e, p, m)
    PROVE  /\ assembled' \in [Ends -> Seq(Seq(Int))]
           /\ assembled'[Peer(e)] = assembled[Peer(e)]
           /\ Len(assembled'[e]) = outgoing_sequence[e]
           /\ assembled'[e][outgoing_sequence[e]] = m
           /\ Len(assembled[e]) <= Len(assembled'[e])
           /\ \A s \in 1 .. Len(assembled[e]) :
                  /\ assembled'[e][s] = assembled[e][s]
                  /\ s \in 1 .. Len(assembled'[e])
           /\ outgoing_sequence[e] \in 1 .. Len(assembled'[e])
<1>1. /\ assembled[e] \in Seq(Seq(Int)) /\ m \in Seq(Int)
      /\ outgoing_sequence[e] \in Nat /\ outgoing_sequence[e] > 0
      /\ Peer(e) # e /\ Peer(e) \in Ends
  BY FieldTypes, PeerFacts DEF SendStep, Emits, SendingInv
<1>2. CASE ~ fragment_pending[e]
  <2>1. /\ assembled' = [assembled EXCEPT ![e] = Append(assembled[e], m)]
        /\ Len(assembled[e]) = outgoing_sequence[e] - 1
    BY <1>2 DEF SendStep, SendingInv
  <2> DEFINE a == Append(assembled[e], m)
  <2>2. /\ a \in Seq(Seq(Int)) /\ Len(a) = Len(assembled[e]) + 1
        /\ a[Len(assembled[e]) + 1] = m
        /\ \A s \in 1 .. Len(assembled[e]) : a[s] = assembled[e][s]
    BY <1>1
  <2> HIDE DEF a
  <2>3. assembled'[e] = a /\ assembled'[Peer(e)] = assembled[Peer(e)]
        /\ assembled' \in [Ends -> Seq(Seq(Int))]
    BY <1>1, <2>1, <2>2 DEF TypeOK, a
  <2>4. Len(a) = outgoing_sequence[e]
        /\ Len(assembled[e]) + 1 = outgoing_sequence[e]
    BY <1>1, <2>1, <2>2
  <2>5. a[outgoing_sequence[e]] = m /\ outgoing_sequence[e] \in 1 .. Len(a)
    BY <1>1, <2>2, <2>4
  <2>6. /\ Len(assembled[e]) <= Len(a)
        /\ \A s \in 1 .. Len(assembled[e]) : s \in 1 .. Len(a)
    <3>1. Len(assembled[e]) \in Nat /\ Len(a) = Len(assembled[e]) + 1
      BY <1>1, <2>2, LengthIsNumber, Zenon
    <3> QED
      BY <3>1, LongerCovers, Zenon
  <2> QED
    BY <2>2, <2>3, <2>4, <2>5, <2>6, Zenon
<1>3. CASE fragment_pending[e]
  <2>1. /\ assembled' = assembled /\ m = fragment_out[e]
        /\ Len(assembled[e]) = outgoing_sequence[e]
        /\ fragment_out[e] = assembled[e][outgoing_sequence[e]]
    BY <1>3 DEF SendStep, SendingInv
  <2>2. outgoing_sequence[e] \in 1 .. Len(assembled[e])
        /\ Len(assembled[e]) <= Len(assembled[e])
    BY <1>1, <2>1
  <2>3. assembled \in [Ends -> Seq(Seq(Int))]
    BY DEF TypeOK
  <2> QED
    BY <2>1, <2>2, <2>3
<1> QED
  BY <1>2, <1>3

\* A step of the sender keeps the invariant of the direction it sends in.
LEMMA SendOut ==
    ASSUME IInv, NEW e \in Ends, NEW p, NEW m, SendStep(e, p, m)
    PROVE  DirectionInv(e)'
<1> DEFINE r == Peer(e)
<1>1. /\ TypeOK /\ DirectionInv(e) /\ SendingInv(e) /\ CopiesInv(e)
      /\ ReadingInv(e) /\ AckInv(e) /\ r \in Ends /\ r # e
  BY PeerFacts DEF IInv, DirectionInv
<1>2. /\ Len(assembled'[e]) = outgoing_sequence[e]
      /\ assembled'[e][outgoing_sequence[e]] = m
      /\ Len(assembled[e]) <= Len(assembled'[e])
      /\ \A s \in 1 .. Len(assembled[e]) :
             /\ assembled'[e][s] = assembled[e][s]
             /\ s \in 1 .. Len(assembled'[e])
      /\ outgoing_sequence[e] \in 1 .. Len(assembled'[e])
  BY <1>1, MessageBegun
<1>3. /\ p \in Packet /\ m \in Seq(Int)
      /\ p.sequence = outgoing_sequence[e]
      /\ TrueCopy(p, m)
      /\ network'[e] = network[e] \cup {p} /\ network'[r] = network[r]
      /\ fragment_pending'[e] = p.more
      /\ fragment_out'[e] = IF p.more THEN m ELSE <<>>
      /\ p.more => readcount'[e] \in 1 .. Len(m) - 1
      /\ outgoing_sequence'[e] = IF p.more THEN outgoing_sequence[e]
                                 ELSE outgoing_sequence[e] + 1
  BY <1>1 DEF SendStep, Emits, TypeOK
<1>4. UNCHANGED <<incoming_sequence, incoming_reliable_sequence,
                  incoming_acknowledged, incoming_reliable_acknowledged,
                  fragment_in, fragment_sequence, msg_read>>
  BY DEF SendStep
<1>5. /\ outgoing_sequence[e] \in Nat /\ outgoing_sequence[e] > 0
      /\ incoming_sequence[r] \in Nat /\ p.more \in BOOLEAN
      /\ Len(assembled[e]) \in Nat
  BY <1>1, <1>3, FieldTypes, PacketTypes DEF SendingInv
<1>6. SendingInv(e)'
  <2>1. CASE p.more
    BY <1>2, <1>3, <1>5, <2>1 DEF SendingInv
  <2>2. CASE ~ p.more
    BY <1>2, <1>3, <1>5, <2>2 DEF SendingInv
  <2> QED
    BY <2>1, <2>2
<1>7. CopiesInv(e)'
  <2> SUFFICES ASSUME NEW q \in network'[e]
               PROVE  /\ q.sequence \in 1 .. Len(assembled'[e])
                      /\ TrueCopy(q, assembled'[e][q.sequence])
                      /\ ~ q.more => q.sequence < outgoing_sequence'[e]
    BY DEF CopiesInv, TrueCopy
  <2>1. CASE q = p
    BY <1>2, <1>3, <1>5, <2>1
  <2>2. CASE q \in network[e]
    <3>1. /\ q.sequence \in 1 .. Len(assembled[e])
          /\ TrueCopy(q, assembled[e][q.sequence])
          /\ ~ q.more => q.sequence < outgoing_sequence[e]
      BY <1>1, <2>2 DEF CopiesInv
    <3>2. outgoing_sequence[e] <= outgoing_sequence'[e]
          /\ outgoing_sequence'[e] \in Nat
      BY <1>3, <1>5
    <3> QED
      BY <1>2, <1>5, <3>1, <3>2
  <2> QED
    BY <1>3, <2>1, <2>2
<1>8. ReadingInv(e)'
  <2>1. /\ incoming_sequence[r] < outgoing_sequence[e]
        /\ incoming_sequence[r] > 0 =>
               msg_read[r] = assembled[e][incoming_sequence[r]]
        /\ Reassembles(r, fragment_sequence[r], fragment_in[r], e)
    BY <1>1 DEF ReadingInv
  <2>2. incoming_sequence[r] < outgoing_sequence'[e]
    BY <1>3, <1>5, <2>1
  <2>3. incoming_sequence[r] > 0 =>
            msg_read[r] = assembled'[e][incoming_sequence[r]]
    <3>1. Len(assembled[e]) >= outgoing_sequence[e] - 1
      BY <1>1, <1>5, FieldTypes DEF SendingInv
    <3>2. incoming_sequence[r] > 0 =>
              incoming_sequence[r] \in 1 .. Len(assembled[e])
      BY <1>5, <2>1, <3>1
    <3> QED
      BY <1>2, <2>1, <3>2
  <2>4. fragment_in[r] # <<>> =>
            /\ fragment_sequence[r] \in 1 .. Len(assembled'[e])
            /\ IsStart(fragment_in[r], assembled'[e][fragment_sequence[r]])
    BY <1>2, <2>1 DEF Reassembles
  <2> QED
    BY <1>4, <2>2, <2>3, <2>4 DEF ReadingInv, Reassembles, IsStart
<1>9. Acknowledgements(e)' = Acknowledgements(e)
  BY <1>3, <1>4 DEF Acknowledgements
<1>10. AckInv(e)'
  BY <1>1, <1>4, <1>9 DEF AckInv, OneBitPerAck
<1> QED
  BY <1>6, <1>7, <1>8, <1>10 DEF DirectionInv

\* What the sender acknowledges with it is what the other direction knows.
LEMMA SendIn ==
    ASSUME IInv, NEW e \in Ends, NEW p, NEW m, SendStep(e, p, m)
    PROVE  DirectionInv(Peer(e))'
<1> DEFINE d == Peer(e)
<1>1. /\ TypeOK /\ DirectionInv(d) /\ d \in Ends /\ d # e /\ Peer(d) = e
      /\ SendingInv(e)
  BY PeerFacts DEF IInv, DirectionInv
<1>2. /\ p.ack = incoming_sequence[e] /\ p.rack = incoming_reliable_sequence[e]
      /\ network'[e] = network[e] \cup {p} /\ network'[d] = network[d]
      /\ fragment_pending'[d] = fragment_pending[d]
      /\ fragment_out'[d] = fragment_out[d]
      /\ readcount'[d] = readcount[d]
      /\ outgoing_sequence'[d] = outgoing_sequence[d]
  BY <1>1 DEF SendStep, Emits, TypeOK
<1>3. assembled'[d] = assembled[d]
  BY <1>1, MessageBegun
<1>4. UNCHANGED <<incoming_sequence, incoming_reliable_sequence,
                  incoming_acknowledged, incoming_reliable_acknowledged,
                  fragment_in, fragment_sequence, msg_read>>
  BY DEF SendStep
<1>5. Acknowledgements(d)' = Acknowledgements(d)
  <2>1. AckOf(p) = <<incoming_sequence[e], incoming_reliable_sequence[e]>>
    BY <1>2 DEF AckOf
  <2> QED
    BY <1>1, <1>2, <1>4, <2>1 DEF Acknowledgements
<1>6. SendingInv(d)' /\ CopiesInv(d)'
  BY <1>1, <1>2, <1>3 DEF DirectionInv, SendingInv, CopiesInv, TrueCopy
<1>7. ReadingInv(d)'
  BY <1>1, <1>2, <1>3, <1>4
     DEF DirectionInv, ReadingInv, Reassembles, IsStart
<1>8. AckInv(d)'
  BY <1>1, <1>4, <1>5 DEF DirectionInv, AckInv, OneBitPerAck
<1> QED
  BY <1>6, <1>7, <1>8 DEF DirectionInv

-----------------------------------------------------------------------------
\* Two stretches of a sequence that follow each other make one.
LEMMA StretchesJoin ==
    ASSUME NEW q \in Seq(Int), NEW k \in Nat, NEW l \in Nat, k + l <= Len(q)
    PROVE  /\ SubSeq(q, 1, k) \in Seq(Int)
           /\ SubSeq(q, k + 1, k + l) \in Seq(Int)
           /\ SubSeq(q, 1, k) \o SubSeq(q, k + 1, k + l) = SubSeq(q, 1, k + l)
<1> DEFINE a == SubSeq(q, 1, k)
           b == SubSeq(q, k + 1, k + l)
           c == SubSeq(q, 1, k + l)
<1>1. a \in Seq(Int) /\ Len(a) = k /\ \A i \in 1 .. k : a[i] = q[i]
  OBVIOUS
<1>2. b \in Seq(Int) /\ Len(b) = l /\ \A i \in 1 .. l : b[i] = q[k + i]
  OBVIOUS
<1>3. c \in Seq(Int) /\ Len(c) = k + l /\ \A i \in 1 .. k + l : c[i] = q[i]
  OBVIOUS
<1> HIDE DEF a, b, c
<1>4. /\ a \o b \in Seq(Int) /\ Len(a \o b) = Len(a) + Len(b)
      /\ \A i \in 1 .. Len(a) + Len(b) :
             (a \o b)[i] = IF i <= Len(a) THEN a[i] ELSE b[i - Len(a)]
  BY <1>1, <1>2, ConcatProperties, Zenon
<1>5. ASSUME NEW i \in 1 .. k + l PROVE (a \o b)[i] = c[i]
  <2>1. (a \o b)[i] = IF i <= k THEN a[i] ELSE b[i - k]
    BY <1>1, <1>2, <1>4, Zenon
  <2>2. c[i] = q[i]
    BY <1>3
  <2>3. CASE i <= k
    <3>1. i \in 1 .. k
      BY <2>3
    <3> QED
      BY <1>1, <2>1, <2>2, <2>3, <3>1, Zenon
  <2>4. CASE ~(i <= k)
    <3>1. i - k \in 1 .. l /\ k + (i - k) = i
      BY <2>4
    <3>2. b[i - k] = q[k + (i - k)]
      BY <1>2, <3>1, Zenon
    <3> QED
      BY <2>1, <2>2, <2>4, <3>1, <3>2, Zenon
  <2> QED
    BY <2>3, <2>4
<1>6. a \o b = c
  <2>1. Len(a \o b) = k + l
    BY <1>1, <1>2, <1>4, Zenon
  <2> QED
    BY <1>3, <1>4, <1>5, <2>1, SeqEqual, Zenon
<1> QED
  BY <1>1, <1>2, <1>6 DEF a, b, c

(***************************************************************************)
(* Reading.  A packet is a true copy of a message, or of a stretch of it;  *)
(* what is in hand is how the message begins.                              *)
(***************************************************************************)
LEMMA Joins ==
    ASSUME NEW m \in Seq(Int), NEW in \in Seq(Int), IsStart(in, m),
           NEW p \in Packet, p.fragment, TrueCopy(p, m), p.offset = Len(in)
    PROVE  /\ in \o p.data \in Seq(Int)
           /\ IsStart(in \o p.data, m)
           /\ ~ p.more => in \o p.data = m
<1> DEFINE k == Len(in)
           l == Len(p.data)
<1>1. /\ p.data \in Seq(Int) /\ k \in Nat /\ l \in Nat /\ Len(m) \in Nat
      /\ k + l <= Len(m)
      /\ in = SubSeq(m, 1, k)
      /\ p.data = SubSeq(m, k + 1, k + l)
      /\ p.more <=> k + l # Len(m)
  BY PacketTypes DEF TrueCopy, IsStart
<1>2. in \o p.data \in Seq(Int) /\ Len(in \o p.data) = k + l
  BY <1>1
<1> HIDE DEF k, l
<1>3. SubSeq(m, 1, k) \o SubSeq(m, k + 1, k + l) = SubSeq(m, 1, k + l)
  BY <1>1, StretchesJoin, Zenon
<1>4. IsStart(in \o p.data, m)
  BY <1>1, <1>2, <1>3 DEF IsStart
<1>5. SubSeq(m, 1, Len(m)) = m
  OBVIOUS
<1> QED
  BY <1>1, <1>2, <1>3, <1>4, <1>5

\* What accepting a packet does, whether it is a message or a stretch of one.
Reads(e, p) ==
    /\ p.sequence > incoming_sequence[e]
    /\ ProcessAcknowledgement(e, p)
    /\ UNCHANGED sendingVars
    /\ fragment_in' \in [Ends -> Seq(Int)]
    /\ fragment_sequence' \in [Ends -> Nat]
    /\ fragment_in'[Peer(e)] = fragment_in[Peer(e)]
    /\ fragment_sequence'[Peer(e)] = fragment_sequence[Peer(e)]
    /\ Reassembles(e, fragment_sequence'[e], fragment_in'[e], Peer(e))
    /\ \/ NotYet
       \/ ~ p.more /\ Consume(e, p, assembled[Peer(e)][p.sequence])

LEMMA AcceptReads ==
    ASSUME IInv, NEW e \in Ends, NEW p \in network[Peer(e)],
           AcceptWhole(e, p) \/ AcceptFragment(e, p)
    PROVE  Reads(e, p)
<1> DEFINE d == Peer(e)
           m == assembled[d][p.sequence]
<1>1. /\ TypeOK /\ d \in Ends /\ d # e /\ Peer(d) = e
      /\ CopiesInv(d) /\ ReadingInv(d)
  BY PeerFacts DEF IInv, DirectionInv
<1>2. /\ p \in Packet /\ p.sequence \in 1 .. Len(assembled[d])
      /\ TrueCopy(p, m) /\ m \in Seq(Int) /\ p.sequence \in Nat
      /\ incoming_sequence[e] \in Nat /\ fragment_in[e] \in Seq(Int)
  <2>1. /\ p \in Packet /\ p.sequence \in 1 .. Len(assembled[d])
        /\ TrueCopy(p, m)
    BY <1>1, FieldTypes DEF CopiesInv
  <2>2. assembled[d] \in Seq(Seq(Int))
    BY <1>1, FieldTypes
  <2> QED
    BY <1>1, <2>1, <2>2, FieldTypes, PacketTypes
<1>3. Reassembles(e, fragment_sequence[e], fragment_in[e], d)
  BY <1>1 DEF ReadingInv
<1>4. CASE AcceptWhole(e, p)
  <2>1. /\ ~ p.fragment /\ p.sequence > incoming_sequence[e]
        /\ ProcessAcknowledgement(e, p)
        /\ Consume(e, p, p.data)
        /\ UNCHANGED <<reassemblyVars, sendingVars>>
    BY <1>4 DEF AcceptWhole, IsNewer
  <2>2. p.data = m /\ ~ p.more
    BY <1>2, <2>1 DEF TrueCopy
  <2>3. fragment_in' = fragment_in /\ fragment_sequence' = fragment_sequence
    BY <2>1 DEF reassemblyVars
  <2> QED
    BY <1>1, <1>3, <2>1, <2>2, <2>3 DEF Reads, TypeOK
<1>5. CASE AcceptFragment(e, p)
  <2> DEFINE inHand == IF fragment_sequence[e] = p.sequence
                       THEN fragment_in[e] ELSE <<>>
             joined == inHand \o p.data
             drop == \/ p.offset # Len(inHand)
                     \/ Len(joined) > MessageMax
  <2>1. /\ p.fragment /\ p.sequence > incoming_sequence[e]
        /\ ProcessAcknowledgement(e, p)
        /\ fragment_sequence' = [fragment_sequence EXCEPT ![e] = p.sequence]
        /\ UNCHANGED sendingVars
        /\ \/ /\ drop
              /\ fragment_in' = [fragment_in EXCEPT ![e] = inHand]
              /\ NotYet
           \/ /\ ~ drop /\ p.more
              /\ fragment_in' = [fragment_in EXCEPT ![e] = joined]
              /\ NotYet
           \/ /\ ~ drop /\ ~ p.more
              /\ fragment_in' = [fragment_in EXCEPT ![e] = <<>>]
              /\ Consume(e, p, joined)
    BY <1>5 DEF AcceptFragment, IsNewer
  <2>2. inHand \in Seq(Int) /\ IsStart(inHand, m)
    <3>1. <<>> \in Seq(Int) /\ IsStart(<<>>, m)
      BY <1>2 DEF IsStart
    <3> QED
      BY <1>2, <1>3, <3>1 DEF Reassembles
  <2>3. ~ drop => /\ joined \in Seq(Int) /\ IsStart(joined, m)
                  /\ ~ p.more => joined = m
    <3> HIDE DEF inHand, m
    <3> QED
      BY <1>2, <2>1, <2>2, Joins
  <2>4. PICK in \in Seq(Int) :
            /\ IsStart(in, m) /\ fragment_in' = [fragment_in EXCEPT ![e] = in]
            /\ \/ NotYet
               \/ ~ p.more /\ Consume(e, p, m)
    <3>1. <<>> \in Seq(Int) /\ IsStart(<<>>, m)
      BY <1>2 DEF IsStart
    <3> HIDE DEF inHand, joined, drop, m
    <3> QED
      BY <2>1, <2>2, <2>3, <3>1
  <2>5. /\ fragment_in' \in [Ends -> Seq(Int)] /\ fragment_in'[e] = in
        /\ fragment_in'[d] = fragment_in[d]
        /\ fragment_sequence' \in [Ends -> Nat]
        /\ fragment_sequence'[e] = p.sequence
        /\ fragment_sequence'[d] = fragment_sequence[d]
    BY <1>1, <1>2, <2>1, <2>4 DEF TypeOK
  <2>6. Reassembles(e, fragment_sequence'[e], fragment_in'[e], d)
    BY <1>2, <2>4, <2>5 DEF Reassembles
  <2> QED
    BY <2>1, <2>4, <2>5, <2>6 DEF Reads
<1> QED
  BY <1>4, <1>5

\* A packet of the peer acknowledges only what e has sent, and agrees with
\* the acknowledgement e has stored.
LEMMA AckIsHonest ==
    ASSUME IInv, NEW e \in Ends, NEW p \in network[Peer(e)]
    PROVE  AckClass(e, p) # "FUTURE" /\ AckConsistent(e, p)
<1> DEFINE x == <<incoming_acknowledged[e], incoming_reliable_acknowledged[e]>>
<1>1. TypeOK /\ AckInv(e) /\ ReadingInv(e) /\ Peer(e) \in Ends
  BY PeerFacts DEF IInv, DirectionInv
<1>2. /\ p \in Packet
      /\ p.ack \in Nat
      /\ incoming_sequence[Peer(e)] \in Nat
      /\ outgoing_sequence[e] \in Nat
      /\ incoming_acknowledged[e] \in Nat
  BY <1>1, FieldTypes, PacketTypes
<1>3. AckOf(p) \in Acknowledgements(e) /\ x \in Acknowledgements(e)
  BY AckMembers
<1>4. AckOf(p)[1] = p.ack /\ AckOf(p)[2] = p.rack
  BY DEF AckOf
<1>5. /\ p.ack <= incoming_sequence[Peer(e)]
      /\ incoming_sequence[Peer(e)] < outgoing_sequence[e]
  BY <1>1, <1>3, <1>4 DEF AckInv, ReadingInv
<1>6. ~ (p.ack >= outgoing_sequence[e])
  BY <1>2, <1>5
<1>7. p.ack = incoming_acknowledged[e]
          => p.rack = incoming_reliable_acknowledged[e]
  BY <1>1, <1>3, <1>4 DEF AckInv, OneBitPerAck
<1> QED
  BY <1>6, <1>7 DEF AckClass, ClassifyAck, AckConsistent, ReliableAckConsistent

\* So a packet is either stale, or its acknowledgement is stored; the batch
\* in hand is let go only when the acknowledgement has our bit.
StoresAck(e, p) ==
    /\ incoming_acknowledged[e] <= p.ack
    /\ incoming_acknowledged' = [incoming_acknowledged EXCEPT ![e] = p.ack]
    /\ incoming_reliable_acknowledged' =
           [incoming_reliable_acknowledged EXCEPT ![e] = p.rack]
    /\ reliable_buf' = IF p.rack = reliable_sequence[e]
                       THEN [reliable_buf EXCEPT ![e] = <<>>]
                       ELSE reliable_buf

LEMMA AckEffect ==
    ASSUME IInv, NEW e \in Ends, NEW p \in network[Peer(e)],
           ProcessAcknowledgement(e, p)
    PROVE  /\ UNCHANGED <<future_acknowledgements, conflicting_acknowledgements>>
           /\ \/ UNCHANGED <<incoming_acknowledged,
                             incoming_reliable_acknowledged, reliable_buf>>
              \/ StoresAck(e, p)
<1>1. AckClass(e, p) # "FUTURE" /\ AckConsistent(e, p)
  BY AckIsHonest
<1>2. CASE AckClass(e, p) = "STALE"
  BY <1>2 DEF ProcessAcknowledgement, ackVars
<1>3. CASE AckClass(e, p) = "ACCEPTED"
  <2>1. incoming_acknowledged[e] \in Nat /\ p.ack \in Nat
    BY FieldTypes, PacketTypes, PeerFacts DEF IInv
  <2>2. ~ (p.ack < incoming_acknowledged[e])
    BY <1>3 DEF AckClass, ClassifyAck
  <2>3. incoming_acknowledged[e] <= p.ack
    BY <2>1, <2>2
  <2> QED
    BY <1>1, <1>3, <2>3 DEF ProcessAcknowledgement, StoresAck
<1> QED
  BY <1>1, <1>2, <1>3 DEF AckClass, ClassifyAck

\* What a read leaves alone, end by end.
LEMMA ReadLeaves ==
    ASSUME IInv, NEW e \in Ends, NEW p \in network[Peer(e)], Reads(e, p)
    PROVE  /\ UNCHANGED <<outgoing_sequence, reliable_sequence, message,
                          last_reliable_sequence, overflowed, network, written,
                          sealed, fragment_out, readcount, fragment_pending,
                          isolated, assembled>>
           /\ incoming_sequence'[Peer(e)] = incoming_sequence[Peer(e)]
           /\ incoming_reliable_sequence'[Peer(e)]
                  = incoming_reliable_sequence[Peer(e)]
           /\ msg_read'[Peer(e)] = msg_read[Peer(e)]
           /\ delivered'[e] = delivered[e]
           /\ incoming_acknowledged'[Peer(e)] = incoming_acknowledged[Peer(e)]
           /\ incoming_reliable_acknowledged'[Peer(e)]
                  = incoming_reliable_acknowledged[Peer(e)]
           /\ reliable_buf'[Peer(e)] = reliable_buf[Peer(e)]
<1>1. TypeOK /\ Peer(e) \in Ends /\ Peer(e) # e
  BY PeerFacts DEF IInv
<1>2. UNCHANGED <<outgoing_sequence, reliable_sequence, message,
                  last_reliable_sequence, overflowed, network, written,
                  sealed, fragment_out, readcount, fragment_pending,
                  isolated, assembled>>
  BY DEF Reads, sendingVars, fragmentVars
<1>3. /\ incoming_sequence'[Peer(e)] = incoming_sequence[Peer(e)]
      /\ incoming_reliable_sequence'[Peer(e)]
             = incoming_reliable_sequence[Peer(e)]
      /\ msg_read'[Peer(e)] = msg_read[Peer(e)]
      /\ delivered'[e] = delivered[e]
  <2>1. CASE NotYet
    BY <2>1 DEF NotYet, sequenceVars
  <2>2. CASE Consume(e, p, assembled[Peer(e)][p.sequence])
    BY <1>1, <2>2 DEF Consume, TypeOK
  <2> QED
    BY <2>1, <2>2 DEF Reads
<1>4. /\ incoming_acknowledged'[Peer(e)] = incoming_acknowledged[Peer(e)]
      /\ incoming_reliable_acknowledged'[Peer(e)]
             = incoming_reliable_acknowledged[Peer(e)]
      /\ reliable_buf'[Peer(e)] = reliable_buf[Peer(e)]
  <2>1. ProcessAcknowledgement(e, p)
    BY DEF Reads
  <2>2. CASE UNCHANGED <<incoming_acknowledged, incoming_reliable_acknowledged,
                         reliable_buf>>
    BY <2>2
  <2>3. CASE StoresAck(e, p)
    BY <1>1, <2>3 DEF StoresAck, TypeOK
  <2> QED
    BY <2>1, <2>2, <2>3, AckEffect
<1> QED
  BY <1>2, <1>3, <1>4

\* Reading keeps the invariant of the direction it acknowledges.
LEMMA ReadOut ==
    ASSUME IInv, NEW e \in Ends, NEW p \in network[Peer(e)], Reads(e, p)
    PROVE  DirectionInv(e)'
<1> DEFINE r == Peer(e)
<1>1. /\ TypeOK /\ DirectionInv(e) /\ SendingInv(e) /\ CopiesInv(e)
      /\ ReadingInv(e) /\ AckInv(e) /\ r \in Ends /\ r # e
  BY PeerFacts DEF IInv, DirectionInv
<1>2. /\ UNCHANGED <<outgoing_sequence, network, fragment_out, readcount,
                     fragment_pending, assembled>>
      /\ incoming_sequence'[r] = incoming_sequence[r]
      /\ incoming_reliable_sequence'[r] = incoming_reliable_sequence[r]
      /\ msg_read'[r] = msg_read[r]
  BY ReadLeaves
<1>3. fragment_in'[r] = fragment_in[r] /\ fragment_sequence'[r] = fragment_sequence[r]
  BY DEF Reads
<1>4. SendingInv(e)' /\ CopiesInv(e)'
  BY <1>1, <1>2 DEF SendingInv, CopiesInv, TrueCopy
<1>5. ReadingInv(e)'
  BY <1>1, <1>2, <1>3 DEF ReadingInv, Reassembles, IsStart
<1>6. Acknowledgements(e)' \subseteq Acknowledgements(e)
  <2>1. ProcessAcknowledgement(e, p) /\ AckOf(p) \in Acknowledgements(e)
    BY AckMembers DEF Reads
  <2>2. CASE UNCHANGED <<incoming_acknowledged, incoming_reliable_acknowledged,
                         reliable_buf>>
    BY <1>2, <2>2 DEF Acknowledgements
  <2>3. CASE StoresAck(e, p)
    <3>1. /\ incoming_acknowledged'[e] = p.ack
          /\ incoming_reliable_acknowledged'[e] = p.rack
      BY <1>1, <2>3 DEF StoresAck, TypeOK
    <3> QED
      BY <1>2, <2>1, <3>1 DEF Acknowledgements, AckOf
  <2> QED
    BY <2>1, <2>2, <2>3, AckEffect
<1>7. AckInv(e)'
  <2>1. \A x \in Acknowledgements(e)' : x[1] <= incoming_sequence'[r]
    BY <1>1, <1>2, <1>6 DEF AckInv
  <2>2. OneBitPerAck(e)'
    BY <1>1, <1>6 DEF AckInv, OneBitPerAck
  <2> QED
    BY <2>1, <2>2 DEF AckInv
<1> QED
  BY <1>4, <1>5, <1>7 DEF DirectionInv

\* Reading keeps the invariant of the direction the packet came from.
LEMMA ReadIn ==
    ASSUME IInv, NEW e \in Ends, NEW p \in network[Peer(e)], Reads(e, p)
    PROVE  DirectionInv(Peer(e))'
<1> DEFINE d == Peer(e)
           new == <<p.sequence, incoming_reliable_sequence'[e]>>
<1>1. /\ TypeOK /\ SendingInv(d) /\ CopiesInv(d) /\ ReadingInv(d) /\ AckInv(d)
      /\ d \in Ends /\ d # e /\ Peer(d) = e
  BY PeerFacts DEF IInv, DirectionInv
<1>2. /\ UNCHANGED <<outgoing_sequence, network, fragment_out, readcount,
                     fragment_pending, assembled>>
      /\ incoming_acknowledged'[d] = incoming_acknowledged[d]
      /\ incoming_reliable_acknowledged'[d] = incoming_reliable_acknowledged[d]
  BY ReadLeaves
<1>3. /\ incoming_sequence[e] \in Nat /\ p.sequence \in Nat
      /\ p.sequence > incoming_sequence[e]
  BY <1>1, FieldTypes, PacketTypes DEF Reads
<1>4. SendingInv(d)' /\ CopiesInv(d)'
  BY <1>1, <1>2 DEF SendingInv, CopiesInv, TrueCopy
<1>5. (fragment_in[e] # <<>>)' =>
          /\ (fragment_sequence[e])' \in 1 .. Len(assembled[d])
          /\ IsStart((fragment_in[e])', assembled[d][(fragment_sequence[e])'])
  BY DEF Reads, Reassembles
<1>6. \A x \in Acknowledgements(d) : x[1] \in Nat /\ x[2] \in Bit
                                     /\ x[1] <= incoming_sequence[e]
  BY <1>1, AckTypes DEF AckInv
<1>7. CASE NotYet
  <2>1. /\ incoming_sequence' = incoming_sequence /\ msg_read' = msg_read
        /\ incoming_reliable_sequence' = incoming_reliable_sequence
    BY <1>7 DEF NotYet, sequenceVars
  <2>2. Acknowledgements(d)' = Acknowledgements(d)
    BY <1>1, <1>2, <2>1 DEF Acknowledgements
  <2>3. AckInv(d)'
    BY <1>1, <2>1, <2>2 DEF AckInv, OneBitPerAck
  <2>4. ReadingInv(d)'
    BY <1>1, <1>2, <1>5, <2>1 DEF ReadingInv, Reassembles, IsStart
  <2> QED
    BY <1>4, <2>3, <2>4 DEF DirectionInv
<1>8. CASE ~ p.more /\ Consume(e, p, assembled[d][p.sequence])
  <2>1. /\ incoming_sequence'[e] = p.sequence
        /\ msg_read'[e] = assembled[d][p.sequence]
    BY <1>1, <1>8 DEF Consume, TypeOK
  <2>2. p.sequence < outgoing_sequence[d]
    BY <1>1, <1>8 DEF CopiesInv
  <2>3. ReadingInv(d)'
    BY <1>1, <1>2, <1>5, <2>1, <2>2 DEF ReadingInv, Reassembles, IsStart
  <2>4. Acknowledgements(d)' \subseteq Acknowledgements(d) \cup {new}
    BY <1>1, <1>2, <2>1 DEF Acknowledgements
  <2>5. new[1] = p.sequence
    OBVIOUS
  <2> HIDE DEF new
  <2>6. \A x \in Acknowledgements(d) : x[1] <= p.sequence /\ x[1] # p.sequence
    BY <1>3, <1>6
  <2>7. \A x \in Acknowledgements(d)' : x[1] <= p.sequence
    BY <1>3, <2>4, <2>5, <2>6
  <2>8. OneBitPerAck(d)'
    <3> SUFFICES ASSUME NEW x \in Acknowledgements(d)',
                        NEW y \in Acknowledgements(d)', x[1] = y[1]
                 PROVE  x[2] = y[2]
      BY DEF OneBitPerAck
    <3>1. CASE x = new \/ y = new
      BY <2>4, <2>5, <2>6, <3>1
    <3>2. CASE x \in Acknowledgements(d) /\ y \in Acknowledgements(d)
      BY <1>1, <3>2 DEF AckInv, OneBitPerAck
    <3> QED
      BY <2>4, <3>1, <3>2
  <2>9. AckInv(d)'
    BY <1>1, <2>1, <2>7, <2>8 DEF AckInv
  <2> QED
    BY <1>4, <2>3, <2>9 DEF DirectionInv
<1> QED
  BY <1>7, <1>8 DEF Reads

-----------------------------------------------------------------------------
(***************************************************************************)
(* Types and the sum of it.                                                *)
(***************************************************************************)
LEMMA SendTypes ==
    ASSUME TypeOK, NEW e \in Ends, SendingInv(e), NEW p, NEW m, SendStep(e, p, m)
    PROVE  /\ network' \in [Ends -> SUBSET Packet]
           /\ outgoing_sequence' \in [Ends -> Nat]
           /\ fragment_pending' \in [Ends -> BOOLEAN]
           /\ fragment_out' \in [Ends -> Seq(Int)]
           /\ readcount' \in [Ends -> Nat]
           /\ reliable_ack_pending' \in [Ends -> BOOLEAN]
           /\ assembled' \in [Ends -> Seq(Seq(Int))]
<1>1. Emits(e, p, m) /\ p \in Packet /\ m \in Seq(Int)
  BY DEF SendStep, Emits
<1>2. /\ p.more \in BOOLEAN /\ outgoing_sequence[e] + 1 \in Nat
      /\ <<>> \in Seq(Int) /\ network[e] \cup {p} \in SUBSET Packet
  BY <1>1, FieldTypes, PacketTypes
<1>3. (IF p.more THEN m ELSE <<>>) \in Seq(Int)
  BY <1>1, <1>2
<1>4. /\ network' \in [Ends -> SUBSET Packet]
      /\ outgoing_sequence' \in [Ends -> Nat]
      /\ fragment_pending' \in [Ends -> BOOLEAN]
      /\ fragment_out' \in [Ends -> Seq(Int)]
  BY <1>1, <1>2, <1>3 DEF Emits, TypeOK
<1> QED
  BY <1>1, <1>4, MessageBegun DEF Emits

LEMMA TypeSend ==
    ASSUME TypeOK, NEW e \in Ends, SendingInv(e), NEW p, NEW m, SendStep(e, p, m),
           written' = written,
           message' \in [Ends -> Seq(Int)],
           isolated' \in [Ends -> Nat],
           last_reliable_sequence' \in [Ends -> Nat],
           reliable_sequence' \in [Ends -> Bit],
           reliable_buf' \in [Ends -> Seq(Int)],
           sealed' \in [Ends -> Seq(Int)]
    PROVE  TypeOK'
  BY SendTypes DEF SendStep, TypeOK, Packet

\* An operation that begins a message is a step of the sender.
BeginStep(e, p, m, rel, send, len) ==
    /\ SendStep(e, p, m)
    /\ ~ fragment_pending[e]
    /\ m = RelPart(rel, send) \/ m = RelPart(rel, send) \o Unreliable(e, len)
    /\ p.fragment => p.reliable = (rel # <<>>)
    /\ ~ p.fragment => p.reliable = send
    /\ p.fragment /\ len <= MaxPacketLen => send
    /\ last_reliable_sequence' =
           IF send THEN [last_reliable_sequence EXCEPT ![e] = outgoing_sequence[e]]
           ELSE last_reliable_sequence

LEMMA BeginsStep ==
    ASSUME IInv, NEW e \in Ends, NEW rel, NEW send, NEW len,
           Begins(e, rel, send, len)
    PROVE  \E p, m : BeginStep(e, p, m, rel, send, len)
<1>1. /\ TypeOK /\ SendingInv(e) /\ ~ fragment_pending[e]
      /\ rel \in Seq(Int) /\ send \in BOOLEAN /\ len \in Nat
      /\ SendMessage(e, rel, send, len)
  BY LengthAssumption DEF IInv, DirectionInv, Begins
<1>2. PICK p, m :
          /\ Emits(e, p, m)
          /\ assembled' = [assembled EXCEPT ![e] = Append(assembled[e], m)]
          /\ \/ m = RelPart(rel, send)
             \/ m = RelPart(rel, send) \o Unreliable(e, len)
          /\ p.fragment => p.reliable = (rel # <<>>)
          /\ ~ p.fragment => p.reliable = send
          /\ p.fragment /\ len <= MaxPacketLen => send
  BY <1>1, SendMessageEmits
<1>3. UNCHANGED <<incoming_sequence, incoming_reliable_sequence,
                  incoming_acknowledged, incoming_reliable_acknowledged,
                  future_acknowledgements, conflicting_acknowledgements,
                  overflowed, delivered, fragment_in, fragment_sequence,
                  msg_read>>
  BY <1>1 DEF SendMessage, sequenceVars, ackVars, counterVars, reassemblyVars
<1>4. last_reliable_sequence' =
          IF send THEN [last_reliable_sequence EXCEPT ![e] = outgoing_sequence[e]]
          ELSE last_reliable_sequence
  BY <1>1 DEF SendMessage
<1>5. SendStep(e, p, m)
  BY <1>1, <1>2, <1>3 DEF SendStep
<1> QED
  BY <1>1, <1>2, <1>4, <1>5 DEF BeginStep

\* The batch that a sender seals.
LEMMA BeginsBatch ==
    ASSUME TypeOK, NEW e \in Ends, NEW rel, NEW send, NEW len,
           Begins(e, rel, send, len)
    PROVE  /\ reliable_sequence' \in [Ends -> Bit]
           /\ reliable_buf' \in [Ends -> Seq(Int)]
           /\ sealed' \in [Ends -> Seq(Int)]
<1>1. CASE SealBatch(e, rel)
  <2>1. /\ rel \in Seq(Int) /\ Flip(reliable_sequence[e]) \in Bit
        /\ sealed[e] \o rel \in Seq(Int)
    BY FieldTypes, FlipBit DEF Begins
  <2>2. /\ reliable_buf' = [reliable_buf EXCEPT ![e] = rel]
        /\ reliable_sequence' =
               [reliable_sequence EXCEPT ![e] = Flip(reliable_sequence[e])]
        /\ sealed' = [sealed EXCEPT ![e] = sealed[e] \o rel]
    BY <1>1 DEF SealBatch
  <2> QED
    BY <2>1, <2>2 DEF TypeOK
<1>2. CASE UNCHANGED <<reliable_buf, reliable_sequence, sealed>>
  BY <1>2 DEF TypeOK
<1> QED
  BY <1>1, <1>2 DEF Begins

LEMMA TypeBegins ==
    ASSUME IInv, NEW e \in Ends, NEW rel, NEW send, NEW len,
           Begins(e, rel, send, len)
    PROVE  TypeOK'
<1>1. /\ TypeOK /\ SendingInv(e) /\ outgoing_sequence[e] \in Nat
      /\ send \in BOOLEAN
  BY FieldTypes DEF IInv, DirectionInv, Begins
<1>2. PICK p, m : BeginStep(e, p, m, rel, send, len)
  BY BeginsStep
<1>3. last_reliable_sequence' \in [Ends -> Nat]
  BY <1>1, <1>2 DEF BeginStep, TypeOK
<1>4. /\ written' = written /\ message' \in [Ends -> Seq(Int)]
      /\ isolated' \in [Ends -> Nat] /\ SendStep(e, p, m)
  BY <1>2 DEF Begins, BeginStep
<1> QED
  BY <1>1, <1>3, <1>4, BeginsBatch, TypeSend

\* The next fragment is one, of the message under way.
LEMMA NextFragmentStep ==
    ASSUME IInv, NEW e \in Ends, TransmitNextFragment(e)
    PROVE  /\ fragment_pending[e]
           /\ \E p : /\ SendStep(e, p, fragment_out[e])
                     /\ p.fragment /\ p.reliable = (reliable_buf[e] # <<>>)
           /\ UNCHANGED <<reliable_sequence, last_reliable_sequence, reliable_buf,
                          message, written, sealed, isolated>>
           /\ TypeOK'
<1>1. /\ TypeOK /\ SendingInv(e) /\ fragment_pending[e]
      /\ SendFragment(e, fragment_out[e], readcount[e], reliable_buf[e])
      /\ UNCHANGED <<reliable_sequence, last_reliable_sequence, reliable_buf,
                     message, written, sealed, isolated, assembled, msg_read,
                     overflowed, delivered>>
      /\ UNCHANGED <<incoming_sequence, incoming_reliable_sequence,
                     incoming_acknowledged, incoming_reliable_acknowledged,
                     future_acknowledgements, conflicting_acknowledgements,
                     fragment_in, fragment_sequence>>
  BY DEF IInv, DirectionInv, TransmitNextFragment, sequenceVars, ackVars,
         counterVars, reassemblyVars
<1>2. /\ fragment_out[e] \in Seq(Int) /\ readcount[e] \in Nat
      /\ readcount[e] < Len(fragment_out[e])
  BY <1>1, FieldTypes DEF SendingInv
<1>3. PICK p : /\ Emits(e, p, fragment_out[e])
               /\ p.fragment /\ p.reliable = (reliable_buf[e] # <<>>)
  BY <1>1, <1>2, SendFragmentEmits
<1>4. SendStep(e, p, fragment_out[e])
  BY <1>1, <1>3 DEF SendStep
<1>5. /\ message \in [Ends -> Seq(Int)] /\ isolated \in [Ends -> Nat]
      /\ last_reliable_sequence \in [Ends -> Nat]
      /\ reliable_sequence \in [Ends -> Bit]
      /\ reliable_buf \in [Ends -> Seq(Int)] /\ sealed \in [Ends -> Seq(Int)]
  BY <1>1 DEF TypeOK
<1>6. TypeOK'
  BY <1>1, <1>4, <1>5, TypeSend
<1> QED
  BY <1>1, <1>3, <1>4, <1>6

LEMMA TypeRead ==
    ASSUME IInv, NEW e \in Ends, NEW p \in network[Peer(e)], Reads(e, p)
    PROVE  TypeOK'
<1> DEFINE d == Peer(e)
           m == assembled[d][p.sequence]
<1>1. /\ TypeOK /\ d \in Ends /\ CopiesInv(d)
  BY PeerFacts DEF IInv, DirectionInv
<1>2. p \in Packet /\ p.sequence \in Nat /\ p.ack \in Nat /\ p.rack \in Bit
  BY <1>1, FieldTypes, PacketTypes
<1>3. m \in Seq(Int)
  <2>1. p.sequence \in 1 .. Len(assembled[d]) /\ assembled[d] \in Seq(Seq(Int))
    BY <1>1, FieldTypes DEF CopiesInv
  <2> QED
    BY <2>1
<1>4. ReliableUnits(d, m) \in Seq(Int)
  BY <1>3, UnitsInType DEF ReliableUnits
<1> HIDE DEF m
<1>5. /\ incoming_sequence' \in [Ends -> Nat]
      /\ incoming_reliable_sequence' \in [Ends -> Bit]
      /\ reliable_ack_pending' \in [Ends -> BOOLEAN]
      /\ delivered' \in [Ends -> Seq(Int)]
      /\ msg_read' \in [Ends -> Seq(Int)]
  <2>1. CASE NotYet
    BY <1>1, <2>1 DEF NotYet, sequenceVars, TypeOK
  <2>2. CASE Consume(e, p, m)
    <3>1. Flip(incoming_reliable_sequence[e]) \in Bit
      BY <1>1, FieldTypes, FlipBit
    <3>2. delivered[d] \o ReliableUnits(d, m) \in Seq(Int)
      BY <1>1, <1>4, FieldTypes
    <3>3. /\ incoming_sequence' = [incoming_sequence EXCEPT ![e] = p.sequence]
          /\ \/ reliable_ack_pending' = reliable_ack_pending
             \/ reliable_ack_pending' = [reliable_ack_pending EXCEPT ![e] = TRUE]
          /\ \/ incoming_reliable_sequence' = incoming_reliable_sequence
             \/ incoming_reliable_sequence' =
                    [incoming_reliable_sequence EXCEPT
                        ![e] = Flip(incoming_reliable_sequence[e])]
          /\ delivered' = [delivered EXCEPT
                              ![d] = delivered[d] \o ReliableUnits(d, m)]
          /\ msg_read' = [msg_read EXCEPT ![e] = m]
      BY <2>2 DEF Consume
    <3>4. incoming_sequence' \in [Ends -> Nat] /\ msg_read' \in [Ends -> Seq(Int)]
      BY <1>1, <1>2, <1>3, <3>3 DEF TypeOK
    <3>5. delivered' \in [Ends -> Seq(Int)]
      BY <1>1, <3>2, <3>3 DEF TypeOK
    <3>6. incoming_reliable_sequence' \in [Ends -> Bit]
      <4>1. incoming_reliable_sequence \in [Ends -> Bit]
        BY <1>1 DEF TypeOK
      <4>2. [incoming_reliable_sequence EXCEPT
                ![e] = Flip(incoming_reliable_sequence[e])] \in [Ends -> Bit]
        BY <3>1, <4>1
      <4> QED
        BY <3>3, <4>1, <4>2
    <3>7. reliable_ack_pending' \in [Ends -> BOOLEAN]
      BY <1>1, <3>3 DEF TypeOK
    <3> QED
      BY <3>4, <3>5, <3>6, <3>7
  <2> QED
    BY <2>1, <2>2 DEF Reads, m
<1>6. /\ incoming_acknowledged' \in [Ends -> Nat]
      /\ incoming_reliable_acknowledged' \in [Ends -> Bit]
      /\ reliable_buf' \in [Ends -> Seq(Int)]
      /\ UNCHANGED <<future_acknowledgements, conflicting_acknowledgements>>
  <2>1. ProcessAcknowledgement(e, p)
    BY DEF Reads
  <2>2. CASE UNCHANGED <<incoming_acknowledged, incoming_reliable_acknowledged,
                         reliable_buf>>
    BY <1>1, <2>1, <2>2, AckEffect DEF TypeOK
  <2>3. CASE StoresAck(e, p)
    <3>1. <<>> \in Seq(Int)
      OBVIOUS
    <3>2. \/ reliable_buf' = reliable_buf
          \/ reliable_buf' = [reliable_buf EXCEPT ![e] = <<>>]
      BY <2>3 DEF StoresAck
    <3>3. reliable_buf' \in [Ends -> Seq(Int)]
      BY <1>1, <3>1, <3>2 DEF TypeOK
    <3> QED
      BY <1>1, <1>2, <2>1, <2>3, <3>3, AckEffect DEF TypeOK, StoresAck
  <2> QED
    BY <2>1, <2>2, <2>3, AckEffect
<1>7. fragment_in' \in [Ends -> Seq(Int)] /\ fragment_sequence' \in [Ends -> Nat]
  BY DEF Reads
<1>8. UNCHANGED <<outgoing_sequence, reliable_sequence, message,
                  last_reliable_sequence, overflowed, network, written,
                  sealed, fragment_out, readcount, fragment_pending,
                  isolated, assembled>>
  BY ReadLeaves
<1> QED
  BY <1>1, <1>5, <1>6, <1>7, <1>8 DEF TypeOK, Packet

LEMMA TypeWrite ==
    ASSUME TypeOK, NEW e \in Ends, Write(e)
    PROVE  TypeOK'
<1>1. WriteMessage(e)
      /\ UNCHANGED <<fragmentVars, reassemblyVars, isolated, assembled, msg_read>>
  BY DEF Write
<1>2. written[e] + 1 \in Nat /\ message[e] \in Seq(Int) /\ written[e] + 1 \in Int
  BY FieldTypes
<1>3. message' \in [Ends -> Seq(Int)]
  <2>1. <<written[e] + 1>> \in Seq(Int)
        /\ Append(message[e], written[e] + 1) \in Seq(Int)
    BY <1>2
  <2> QED
    BY <1>1, <2>1 DEF WriteMessage, TypeOK
<1>4. written' \in [Ends -> Nat] /\ overflowed' \in [Ends -> BOOLEAN]
  BY <1>1, <1>2 DEF WriteMessage, TypeOK
<1> QED
  BY <1>1, <1>3, <1>4
     DEF TypeOK, WriteMessage, sequenceVars, ackVars, counterVars, Packet,
         fragmentVars, reassemblyVars

\* The steps of the channel, by what they have in common.
LEMMA NextCases ==
    ASSUME IInv, Next
    PROVE  \E e \in Ends :
               \/ Write(e)
               \/ \E rel, send, len : Begins(e, rel, send, len)
               \/ TransmitNextFragment(e)
               \/ \E p \in network[Peer(e)] : Reads(e, p)
               \/ UNCHANGED vars
<1>1. PICK e \in Ends :
          \/ Write(e)
          \/ \E len \in UnreliableLengths : Transmit(e, len)
          \/ \E n \in 1 .. MessageMax : TransmitQueuedReliablePrefix(e, n)
          \/ TransmitIsolatedReliable(e)
          \/ TransmitNextFragment(e)
          \/ \E p \in network[Peer(e)] : Process(e, p)
  BY DEF Next
<1>2. TypeOK
  BY DEF IInv
<1>3. CASE \E len \in UnreliableLengths : Transmit(e, len)
  BY <1>2, <1>3, TransmitBegins
<1>4. CASE \E n \in 1 .. MessageMax : TransmitQueuedReliablePrefix(e, n)
  <2>1. PICK n \in 1 .. MessageMax : TransmitQueuedReliablePrefix(e, n)
    BY <1>4
  <2>2. Begins(e, SubSeq(message[e], 1, n), TRUE, 0)
    BY <1>2, <2>1, PrefixBegins
  <2> QED
    BY <2>2
<1>5. CASE TransmitIsolatedReliable(e)
  <2>1. Begins(e, << - isolated[e] - 1 >>, TRUE, 0)
    BY <1>2, <1>5, IsolatedBegins
  <2> QED
    BY <2>1
<1>6. ASSUME NEW p \in network[Peer(e)], Process(e, p)
      PROVE  Reads(e, p) \/ UNCHANGED vars
  <2>1. ~ DropFuture(e, p)
    BY AckIsHonest DEF DropFuture, RejectAcknowledgement
  <2> QED
    BY <1>6, <2>1, AcceptReads DEF Process, DropStale
<1> QED
  BY <1>1, <1>3, <1>4, <1>5, <1>6

LEMMA InvInit == Init => IInv
<1> SUFFICES ASSUME Init PROVE IInv
  OBVIOUS
<1>1. TypeOK
  <2>1. <<>> \in Seq(Int) /\ <<>> \in Seq(Seq(Int)) /\ 0 \in Bit
    BY DEF Bit
  <2> QED
    BY <2>1 DEF Init, ChanInit, TypeOK
<1>2. AcknowledgementsAgree
  BY DEF Init, ChanInit, AcknowledgementsAgree
<1>3. ASSUME NEW e \in Ends PROVE DirectionInv(e)
  <2>1. /\ network[e] = {} /\ outgoing_sequence[e] = 1
        /\ fragment_pending[e] = FALSE /\ fragment_out[e] = <<>>
        /\ assembled[e] = <<>>
        /\ incoming_sequence[Peer(e)] = 0 /\ fragment_in[Peer(e)] = <<>>
    BY PeerFacts DEF Init, ChanInit
  <2>2. \A x \in Acknowledgements(e) : x = <<0, 0>>
    BY PeerFacts DEF Init, ChanInit, Acknowledgements
  <2>3. SendingInv(e)
    BY <2>1 DEF SendingInv
  <2>4. CopiesInv(e) /\ ReadingInv(e)
    BY <2>1 DEF CopiesInv, ReadingInv, Reassembles
  <2>5. AckInv(e)
    BY <2>1, <2>2 DEF AckInv, OneBitPerAck
  <2> QED
    BY <2>3, <2>4, <2>5 DEF DirectionInv
<1> QED
  BY <1>1, <1>2, <1>3 DEF IInv

\* A step that leaves what the invariant reads unchanged keeps it.
LEMMA InvUnchanged ==
    ASSUME IInv, TypeOK',
           UNCHANGED <<incoming_sequence, outgoing_sequence,
                       incoming_acknowledged, incoming_reliable_acknowledged,
                       incoming_reliable_sequence, network, fragment_out,
                       readcount, fragment_pending, fragment_in,
                       fragment_sequence, assembled, msg_read,
                       future_acknowledgements, conflicting_acknowledgements>>
    PROVE  IInv'
<1>1. ASSUME NEW e \in Ends PROVE DirectionInv(e)'
  <2>1. SendingInv(e) /\ CopiesInv(e) /\ ReadingInv(e) /\ AckInv(e)
    BY DEF IInv, DirectionInv
  <2>2. Acknowledgements(e)' = Acknowledgements(e)
    BY DEF Acknowledgements
  <2>3. SendingInv(e)' /\ CopiesInv(e)'
    BY <2>1 DEF SendingInv, CopiesInv, TrueCopy
  <2>4. ReadingInv(e)'
    BY <2>1 DEF ReadingInv, Reassembles, IsStart
  <2>5. AckInv(e)'
    BY <2>1, <2>2 DEF AckInv, OneBitPerAck
  <2> QED
    BY <2>3, <2>4, <2>5 DEF DirectionInv
<1>2. AcknowledgementsAgree'
  BY DEF IInv, AcknowledgementsAgree
<1> QED
  BY <1>1, <1>2 DEF IInv

LEMMA InvSend ==
    ASSUME IInv, NEW e \in Ends, NEW p, NEW m, SendStep(e, p, m), TypeOK'
    PROVE  IInv'
<1>1. AcknowledgementsAgree'
  BY DEF SendStep, IInv, AcknowledgementsAgree
<1>2. \A x \in Ends : DirectionInv(x)'
  BY SendOut, SendIn, PeerFacts
<1> QED
  BY <1>1, <1>2 DEF IInv

LEMMA InvRead ==
    ASSUME IInv, NEW e \in Ends, NEW p \in network[Peer(e)], Reads(e, p)
    PROVE  IInv'
<1>1. AcknowledgementsAgree'
  <2>1. ProcessAcknowledgement(e, p)
    BY DEF Reads
  <2> QED
    BY <2>1, AckEffect DEF IInv, AcknowledgementsAgree
<1>2. \A x \in Ends : DirectionInv(x)'
  BY ReadOut, ReadIn, PeerFacts
<1> QED
  BY <1>1, <1>2, TypeRead DEF IInv

LEMMA InvNext == IInv /\ [Next]_vars => IInv'
<1> SUFFICES ASSUME IInv, [Next]_vars PROVE IInv'
  OBVIOUS
<1>1. CASE UNCHANGED vars
  <2>1. UNCHANGED <<sequenceVars, ackVars, counterVars, fragmentVars,
                    reassemblyVars>>
    BY <1>1 DEF vars, chanVars
  <2>2. TypeOK'
    BY <1>1, <2>1 DEF IInv, TypeOK, vars, chanVars, sequenceVars, ackVars,
                      counterVars, fragmentVars, reassemblyVars, Packet
  <2> QED
    BY <1>1, <2>1, <2>2, InvUnchanged
       DEF vars, chanVars, sequenceVars, ackVars, counterVars, fragmentVars,
           reassemblyVars
<1>2. ASSUME NEW e \in Ends, Write(e) PROVE IInv'
  <2>1. TypeOK'
    BY <1>2, TypeWrite DEF IInv
  <2> QED
    BY <1>2, <2>1, InvUnchanged
       DEF Write, WriteMessage, sequenceVars, ackVars, counterVars,
           fragmentVars, reassemblyVars
<1>3. ASSUME NEW e \in Ends, NEW rel, NEW send, NEW len,
             Begins(e, rel, send, len)
      PROVE  IInv'
  <2>1. PICK p, m : BeginStep(e, p, m, rel, send, len)
    BY <1>3, BeginsStep
  <2> QED
    BY <1>3, <2>1, TypeBegins, InvSend DEF BeginStep
<1>4. ASSUME NEW e \in Ends, TransmitNextFragment(e) PROVE IInv'
  BY <1>4, NextFragmentStep, InvSend
<1> QED
  BY <1>1, <1>2, <1>3, <1>4, NextCases, InvRead

THEOREM InvariantHolds == Spec => []IInv
  BY InvInit, InvNext, PTL DEF Spec

\* TypeOK: every variable of the NEW channel keeps its type.
THEOREM TypeCorrect == Spec => []TypeOK
<1>1. IInv => TypeOK
  BY DEF IInv
<1> QED
  BY <1>1, InvariantHolds, PTL

\* AcknowledgementsAgree: neither acknowledgement check of the NEW channel
\* ever turns down a packet of the honest peer, a fragment included.
THEOREM HonestAcknowledgements == Spec => []AcknowledgementsAgree
<1>1. IInv => AcknowledgementsAgree
  BY DEF IInv
<1> QED
  BY <1>1, InvariantHolds, PTL

\* FragmentBufferIdle: fragment_out holds something exactly while fragments
\* are pending, and then some of it is sent and some is not.
THEOREM FragmentBuffer == Spec => []FragmentBufferIdle
<1>1. IInv => FragmentBufferIdle
  <2> SUFFICES ASSUME IInv, NEW e \in Ends
               PROVE  /\ fragment_pending[e] = (fragment_out[e] # <<>>)
                      /\ fragment_pending[e]
                             => readcount[e] \in 1 .. Len(fragment_out[e]) - 1
    BY DEF FragmentBufferIdle
  <2>1. SendingInv(e) /\ fragment_pending[e] \in BOOLEAN
    BY FieldTypes DEF IInv, DirectionInv
  <2>2. fragment_out[e] = <<>> => ~ (readcount[e] \in 1 .. Len(fragment_out[e]) - 1)
    OBVIOUS
  <2>3. fragment_pending[e] => fragment_out[e] # <<>>
    BY <2>1, <2>2 DEF SendingInv
  <2>4. ~ fragment_pending[e] => fragment_out[e] = <<>>
    BY <2>1 DEF SendingInv
  <2>5. fragment_pending[e] => readcount[e] \in 1 .. Len(fragment_out[e]) - 1
    BY <2>1 DEF SendingInv
  <2> QED
    BY <2>1, <2>3, <2>4, <2>5
<1> QED
  BY <1>1, InvariantHolds, PTL

\* ReassemblyExact: whatever mix of late, repeated and missing fragments
\* arrives, what the application reads is a message that was sent, whole,
\* under the sequence it was accepted with.
THEOREM ExactReassembly == Spec => []ReassemblyExact
<1>1. IInv => ReassemblyExact
  <2> SUFFICES ASSUME IInv, NEW e \in Ends, incoming_sequence[e] > 0
               PROVE  msg_read[e] = assembled[Peer(e)][incoming_sequence[e]]
    BY DEF ReassemblyExact
  <2>1. Peer(e) \in Ends /\ Peer(Peer(e)) = e /\ ReadingInv(Peer(e))
    BY PeerFacts DEF IInv, DirectionInv
  <2> QED
    BY <2>1 DEF ReadingInv
<1> QED
  BY <1>1, InvariantHolds, PTL

-----------------------------------------------------------------------------
(***************************************************************************)
(* The order of the queue.                                                 *)
(***************************************************************************)
OrderKept(e) ==
    ~ overflowed[e] => UnitsIn(sealed[e] \o message[e], Ordinary)
                           = [i \in 1 .. written[e] |-> i]

\* What is sealed and waiting is the same units, or one that does not count
\* is put between them.
LEMMA MovedIsKept ==
    ASSUME TypeOK, NEW e \in Ends, OrderKept(e),
           overflowed'[e] = overflowed[e], written'[e] = written[e],
           \/ sealed'[e] \o message'[e] = sealed[e] \o message[e]
           \/ /\ message'[e] = message[e]
              /\ \E k \in Int : /\ ~ (k > 0)
                                /\ sealed'[e] = sealed[e] \o <<k>>
    PROVE  OrderKept(e)'
<1>1. sealed[e] \in Seq(Int) /\ message[e] \in Seq(Int)
  BY FieldTypes
<1>2. UnitsIn(sealed'[e] \o message'[e], Ordinary)
          = UnitsIn(sealed[e] \o message[e], Ordinary)
  <2>1. CASE sealed'[e] \o message'[e] = sealed[e] \o message[e]
    BY <2>1
  <2>2. CASE message'[e] = message[e]
             /\ \E k \in Int : ~ (k > 0) /\ sealed'[e] = sealed[e] \o <<k>>
    <3>1. PICK k \in Int : ~ (k > 0) /\ sealed'[e] = sealed[e] \o <<k>>
      BY <2>2
    <3> DEFINE u == <<k>>
    <3>2. u \in Seq(Int) /\ sealed[e] \o u \in Seq(Int)
          /\ \A i \in 1 .. Len(u) : u[i] \notin Ordinary
      BY <1>1, <3>1 DEF Ordinary
    <3> HIDE DEF u
    <3>3. UnitsIn(u, Ordinary) = <<>>
      BY <3>2, UnitsInNone
    <3> DEFINE a == UnitsIn(sealed[e], Ordinary)
               b == UnitsIn(message[e], Ordinary)
    <3>4. a \in Seq(Int) /\ b \in Seq(Int)
      BY <1>1, UnitsInType
    <3>5. /\ UnitsIn((sealed[e] \o u) \o message[e], Ordinary)
                 = UnitsIn(sealed[e] \o u, Ordinary) \o b
          /\ UnitsIn(sealed[e] \o u, Ordinary) = a \o UnitsIn(u, Ordinary)
          /\ UnitsIn(sealed[e] \o message[e], Ordinary) = a \o b
      <4>1. UnitsIn((sealed[e] \o u) \o message[e], Ordinary)
                = UnitsIn(sealed[e] \o u, Ordinary) \o b
        <5> DEFINE t == sealed[e] \o u
        <5>1. t \in Seq(Int)
          BY <3>2
        <5> HIDE DEF t
        <5>2. UnitsIn(t \o message[e], Ordinary)
                  = UnitsIn(t, Ordinary) \o UnitsIn(message[e], Ordinary)
          BY ONLY <1>1, <5>1, UnitsInConcat
        <5> QED
          BY <5>2 DEF t
      <4>2. UnitsIn(sealed[e] \o u, Ordinary) = a \o UnitsIn(u, Ordinary)
        BY ONLY <1>1, <3>2, UnitsInConcat
      <4>3. UnitsIn(sealed[e] \o message[e], Ordinary) = a \o b
        BY ONLY <1>1, UnitsInConcat
      <4> QED
        BY <4>1, <4>2, <4>3
    <3> HIDE DEF a, b
    <3>6. a \o <<>> = a
      BY <3>4
    <3> QED
      BY <2>2, <3>1, <3>3, <3>5, <3>6 DEF u
  <2> QED
    BY <2>1, <2>2
<1> QED
  BY <1>2 DEF OrderKept

LEMMA WrittenIsKept ==
    ASSUME TypeOK, NEW e \in Ends, OrderKept(e), WriteMessage(e)
    PROVE  OrderKept(e)'
<1> DEFINE id == written[e] + 1
           s == sealed[e] \o message[e]
           u == <<id>>
<1>1. /\ sealed[e] \in Seq(Int) /\ message[e] \in Seq(Int) /\ written[e] \in Nat
      /\ id \in Int /\ id \in Ordinary /\ s \in Seq(Int)
  BY FieldTypes DEF Ordinary
<1>2. /\ sealed' = sealed /\ written'[e] = id
      /\ ~ overflowed'[e] =>
             ~ overflowed[e] /\ message'[e] = Append(message[e], id)
  BY DEF WriteMessage, TypeOK
<1>3. /\ u \in Seq(Int) /\ \A i \in 1 .. Len(u) : u[i] \in Ordinary
  BY <1>1
<1>4. sealed[e] \o Append(message[e], id) = s \o u
  <2> DEFINE a == sealed[e]
             b == message[e]
  <2>1. a \in Seq(Int) /\ b \in Seq(Int) /\ id \in Int
    BY <1>1
  <2> HIDE DEF a, b, id
  <2>2. a \o Append(b, id) = (a \o b) \o <<id>>
    BY <2>1
  <2> QED
    BY <2>2 DEF a, b
<1> HIDE DEF s, u
<1>5. UnitsIn(s \o u, Ordinary) = UnitsIn(s, Ordinary) \o u
  <2>1. s \in Seq(Int) /\ u \in Seq(Int)
    BY <1>1, <1>3 DEF s
  <2>2. UnitsIn(s \o u, Ordinary) = UnitsIn(s, Ordinary) \o UnitsIn(u, Ordinary)
    BY ONLY <2>1, UnitsInConcat
  <2>3. UnitsIn(u, Ordinary) = u
    BY <1>3, UnitsInAll
  <2> QED
    BY <2>2, <2>3
<1>6. [i \in 1 .. written[e] |-> i] \o u = [i \in 1 .. id |-> i]
  <2> DEFINE n == written[e]
  <2>1. n \in Nat
    BY <1>1
  <2> HIDE DEF n
  <2>2. [i \in 1 .. n |-> i] \o <<n + 1>> = [i \in 1 .. n + 1 |-> i]
    BY <2>1
  <2> QED
    BY <2>2 DEF n, u
<1> QED
  BY <1>2, <1>4, <1>5, <1>6 DEF OrderKept, s

\* A batch taken from the queue is what was at its front.
LEMMA SealedIsKept ==
    ASSUME TypeOK, NEW x \in Ends,
           \/ \E len \in UnreliableLengths : Transmit(x, len)
           \/ \E n \in 1 .. MessageMax : TransmitQueuedReliablePrefix(x, n)
           \/ TransmitIsolatedReliable(x),
           NEW e \in Ends, OrderKept(e)
    PROVE  OrderKept(e)'
<1>1. /\ sealed[x] \in Seq(Int) /\ message[x] \in Seq(Int)
      /\ isolated[x] \in Nat
  BY FieldTypes
<1>2. overflowed' = overflowed /\ written' = written
  BY DEF Transmit, TransmitQueuedReliablePrefix, TransmitIsolatedReliable,
         SendMessage
<1>3. ASSUME x # e PROVE sealed'[e] = sealed[e] /\ message'[e] = message[e]
  <2>1. \/ sealed' = sealed
        \/ \E s : sealed' = [sealed EXCEPT ![x] = s]
    BY DEF Transmit, TransmitQueuedReliablePrefix, TransmitIsolatedReliable,
           SealBatch
  <2>2. \/ message' = message
        \/ \E s : message' = [message EXCEPT ![x] = s]
    BY DEF Transmit, TransmitQueuedReliablePrefix, TransmitIsolatedReliable
  <2> QED
    BY <1>3, <2>1, <2>2 DEF TypeOK
<1>4. CASE x # e
  BY <1>2, <1>3, <1>4, MovedIsKept
<1>5. ASSUME NEW len \in UnreliableLengths, Transmit(x, len)
      PROVE  sealed'[x] \o message'[x] = sealed[x] \o message[x]
  <2>1. CASE CanSeal(x)
    <3>1. sealed'[x] = sealed[x] \o message[x] /\ message'[x] = <<>>
      BY <1>5, <2>1 DEF Transmit, SealBatch, TypeOK
    <3> QED
      BY <1>1, <3>1
  <2>2. CASE ~ CanSeal(x)
    BY <1>5, <2>2 DEF Transmit
  <2> QED
    BY <2>1, <2>2
<1>6. ASSUME NEW n \in 1 .. MessageMax, TransmitQueuedReliablePrefix(x, n)
      PROVE  sealed'[x] \o message'[x] = sealed[x] \o message[x]
  <2>1. /\ n \in 1 .. Len(message[x])
        /\ sealed'[x] = sealed[x] \o SubSeq(message[x], 1, n)
        /\ message'[x] = SubSeq(message[x], n + 1, Len(message[x]))
    BY <1>6 DEF TransmitQueuedReliablePrefix, SealBatch, TypeOK
  <2> DEFINE a == sealed[x]
             b == message[x]
  <2>2. /\ a \in Seq(Int) /\ b \in Seq(Int) /\ n \in 1 .. Len(b)
        /\ sealed'[x] = a \o SubSeq(b, 1, n)
        /\ message'[x] = SubSeq(b, n + 1, Len(b))
    BY <1>1, <2>1
  <2> HIDE DEF a, b
  <2>3. /\ SubSeq(b, 1, n) \in Seq(Int) /\ SubSeq(b, n + 1, Len(b)) \in Seq(Int)
        /\ SubSeq(b, 1, n) \o SubSeq(b, n + 1, Len(b)) = b
    <3> DEFINE l == Len(b) - n
    <3>1. n \in Nat /\ l \in Nat /\ n + l = Len(b) /\ n + l <= Len(b)
      BY <2>2
    <3> HIDE DEF l
    <3>2. SubSeq(b, 1, Len(b)) = b
      BY <2>2, SubSeqFull, Zenon
    <3>3. /\ SubSeq(b, 1, n) \in Seq(Int)
          /\ SubSeq(b, n + 1, n + l) \in Seq(Int)
          /\ SubSeq(b, 1, n) \o SubSeq(b, n + 1, n + l) = SubSeq(b, 1, n + l)
      BY <2>2, <3>1, StretchesJoin, Zenon
    <3> QED
      BY <3>1, <3>2, <3>3, Zenon
  <2>4. (a \o SubSeq(b, 1, n)) \o SubSeq(b, n + 1, Len(b))
            = a \o (SubSeq(b, 1, n) \o SubSeq(b, n + 1, Len(b)))
    <3> DEFINE f == SubSeq(b, 1, n)
               g == SubSeq(b, n + 1, Len(b))
    <3>1. f \in Seq(Int) /\ g \in Seq(Int)
      BY <2>3
    <3> HIDE DEF f, g
    <3>2. (a \o f) \o g = a \o (f \o g)
      BY <2>2, <3>1, ConcatOfThree
    <3> QED
      BY <3>2 DEF f, g
  <2> QED
    BY <2>2, <2>3, <2>4 DEF a, b
<1>7. ASSUME TransmitIsolatedReliable(x)
      PROVE  /\ message'[x] = message[x]
             /\ \E k \in Int : ~ (k > 0) /\ sealed'[x] = sealed[x] \o <<k>>
  <2>1. /\ message' = message
        /\ sealed'[x] = sealed[x] \o << - isolated[x] - 1 >>
    BY <1>7 DEF TransmitIsolatedReliable, SealBatch, TypeOK
  <2>2. - isolated[x] - 1 \in Int /\ ~ (- isolated[x] - 1 > 0)
    BY <1>1
  <2> QED
    BY <2>1, <2>2
<1>8. CASE x = e
  BY <1>2, <1>5, <1>6, <1>7, <1>8, MovedIsKept
<1> QED
  BY <1>4, <1>8

LEMMA OrderNext == IInv /\ QueueOrderKept /\ [Next]_vars => QueueOrderKept'
<1> SUFFICES ASSUME IInv, QueueOrderKept, [Next]_vars, NEW e \in Ends
             PROVE  OrderKept(e)'
  BY DEF QueueOrderKept, OrderKept
<1>1. TypeOK /\ OrderKept(e)
  BY DEF IInv, QueueOrderKept, OrderKept
<1>2. ASSUME sealed'[e] = sealed[e], message'[e] = message[e],
             written'[e] = written[e], overflowed'[e] = overflowed[e]
      PROVE  OrderKept(e)'
  BY <1>1, <1>2, MovedIsKept
<1>3. CASE UNCHANGED vars
  BY <1>2, <1>3 DEF vars, chanVars
<1>4. ASSUME NEW x \in Ends, Write(x) PROVE OrderKept(e)'
  <2>1. WriteMessage(x)
    BY <1>4 DEF Write
  <2>2. CASE x = e
    BY <1>1, <2>1, <2>2, WrittenIsKept
  <2>3. CASE x # e
    BY <1>1, <1>2, <2>1, <2>3 DEF WriteMessage, TypeOK
  <2> QED
    BY <2>2, <2>3
<1>5. ASSUME NEW x \in Ends, TransmitNextFragment(x) PROVE OrderKept(e)'
  BY <1>2, <1>5 DEF TransmitNextFragment
<1>6. ASSUME NEW x \in Ends, NEW p \in network[Peer(x)], Process(x, p)
      PROVE  OrderKept(e)'
  <2>1. CASE Reads(x, p)
    BY <1>2, <2>1 DEF Reads, sendingVars
  <2>2. CASE UNCHANGED vars
    BY <1>3, <2>2
  <2>3. ~ DropFuture(x, p)
    BY AckIsHonest DEF DropFuture, RejectAcknowledgement
  <2> QED
    BY <1>6, <2>1, <2>2, <2>3, AcceptReads DEF Process, DropStale
<1> QED
  BY <1>1, <1>3, <1>4, <1>5, <1>6, SealedIsKept DEF Next

LEMMA OrderInit == Init => QueueOrderKept
<1> SUFFICES ASSUME Init, NEW e \in Ends
             PROVE  UnitsIn(sealed[e] \o message[e], Ordinary)
                        = [i \in 1 .. written[e] |-> i]
  BY DEF QueueOrderKept
<1>1. sealed[e] = <<>> /\ message[e] = <<>> /\ written[e] = 0
  BY DEF Init, ChanInit
<1>2. <<>> \o <<>> = <<>> /\ [i \in 1 .. 0 |-> i] = <<>>
  OBVIOUS
<1> QED
  BY <1>1, <1>2, UnitsInEmpty

\* QueueOrderKept: whatever prefixes and isolated messages the server sends
\* out of turn, the queued messages are sealed in the order they were written,
\* and each is sealed or waiting unless the queue overflowed.
THEOREM QueueKeepsOrder == Spec => []QueueOrderKept
  BY InvariantHolds, OrderInit, OrderNext, PTL DEF Spec

-----------------------------------------------------------------------------
(***************************************************************************)
(* Reliable messages.  A fragment of a message without a batch still has   *)
(* the reliable bit of a batch that waits to be resent, so order and       *)
(* uniqueness need that no datagram is cut up: what follows assumes it.    *)
(***************************************************************************)
DatagramsFit == \A len \in UnreliableLengths : len <= MaxPacketLen

\* The peer has not read the batch in hand.
BatchUnread(e) == incoming_reliable_sequence[Peer(e)] # reliable_sequence[e]

QueueInv(e) ==
    /\ written[e] <= MaxWritten[e]
    /\ message[e] \in Seq(Reliable(e))
    /\ reliable_buf[e] \in Seq(Reliable(e))

\* What is cut up holds the batch in hand.
LastReliableInv(e) ==
    /\ last_reliable_sequence[e] <= outgoing_sequence[e]
    /\ ~ fragment_pending[e] =>
           last_reliable_sequence[e] < outgoing_sequence[e]
    /\ fragment_pending[e] =>
           /\ last_reliable_sequence[e] = outgoing_sequence[e]
           /\ BatchUnread(e)
           /\ ReliableUnits(e, fragment_out[e]) = reliable_buf[e]

\* A reliable packet that may still complete a message at the peer belongs to
\* the last one sent, which holds the batch in hand, not read yet.
OneReliableInFlight(e) ==
    \A p \in network[e] :
        ~ p.more =>
            /\ ~ p.reliable => ReliableUnits(e, assembled[e][p.sequence]) = <<>>
            /\ p.reliable => p.sequence <= last_reliable_sequence[e]
            /\ p.reliable /\ p.sequence > incoming_sequence[Peer(e)] =>
                  /\ p.sequence = last_reliable_sequence[e]
                  /\ ReliableUnits(e, assembled[e][p.sequence]) = reliable_buf[e]
                  /\ BatchUnread(e)

ReliableInv(e) ==
    /\ QueueInv(e)
    /\ LastReliableInv(e)
    /\ OneReliableInFlight(e)
    /\ LateAckIsCurrent(e)
    /\ AckStays(e)
    /\ FreeIsAcknowledged(e)
    /\ BitsTellDelivery(e)

RInv == IInv /\ \A e \in Ends : ReliableInv(e)

\* The datagram aside, a message holds the batch it was sent with.
LEMMA PayloadUnits ==
    ASSUME TypeOK, NEW e \in Ends, SendingInv(e), NEW rel \in Seq(Reliable(e)),
           NEW send \in BOOLEAN, NEW len \in Nat, NEW m,
           m = RelPart(rel, send) \/ m = RelPart(rel, send) \o Unreliable(e, len)
    PROVE  ReliableUnits(e, m) = RelPart(rel, send)
<1> DEFINE r == RelPart(rel, send)
           u == Unreliable(e, len)
           K == Reliable(e)
<1>1. rel \in Seq(Int) /\ r \in Seq(Int) /\ \A i \in 1 .. Len(r) : r[i] \in K
  <2>1. Reliable(e) \subseteq Int
    BY DEF Reliable
  <2>2. rel \in Seq(Int) /\ \A i \in 1 .. Len(rel) : rel[i] \in Reliable(e)
    BY <2>1
  <2> QED
    BY <2>2 DEF RelPart
<1>2. u \in Seq(Int) /\ \A i \in 1 .. Len(u) : u[i] \notin K
  <2>1. MaxWritten[e] \in Int /\ outgoing_sequence[e] > 0
        /\ outgoing_sequence[e] \in Int
    BY BoundAssumption, FieldTypes DEF SendingInv
  <2>2. ~ (MaxWritten[e] + outgoing_sequence[e] <= MaxWritten[e])
    BY <2>1
  <2>3. /\ u \in Seq(Int) /\ Len(u) = len
        /\ \A i \in 1 .. len : u[i] = MaxWritten[e] + outgoing_sequence[e]
    BY UnreliableIs
  <2> QED
    BY <2>2, <2>3 DEF Reliable
<1> HIDE DEF r, u, K
<1>3. UnitsIn(r, K) = r
  BY <1>1, UnitsInAll
<1>4. UnitsIn(u, K) = <<>>
  BY <1>2, UnitsInNone
<1>5. UnitsIn(r \o u, K) = UnitsIn(r, K) \o UnitsIn(u, K)
  BY ONLY <1>1, <1>2, UnitsInConcat
<1>6. r \o <<>> = r
  BY <1>1
<1> QED
  BY <1>3, <1>4, <1>5, <1>6 DEF ReliableUnits, r, u, K

\* A batch lost for good is still unread: the acknowledgement that shows the
\* loss is newer than the last reliable packet.
LEMMA DroppedIsUnread ==
    ASSUME RInv, NEW e \in Ends, RemoteDroppedReliable(e)
    PROVE  /\ BatchUnread(e) /\ reliable_buf[e] # <<>>
           /\ incoming_sequence[Peer(e)] > last_reliable_sequence[e]
<1> DEFINE x == <<incoming_acknowledged[e], incoming_reliable_acknowledged[e]>>
<1>1. x \in Acknowledgements(e)
  BY AckMembers
<1>2. /\ x[1] <= incoming_sequence[Peer(e)]
      /\ x[1] > last_reliable_sequence[e]
             => x[2] = incoming_reliable_sequence[Peer(e)]
  BY <1>1 DEF RInv, IInv, DirectionInv, AckInv, ReliableInv, LateAckIsCurrent
<1>3. /\ incoming_acknowledged[e] \in Nat
      /\ incoming_sequence[Peer(e)] \in Nat
      /\ last_reliable_sequence[e] \in Nat
  BY FieldTypes, PeerFacts DEF RInv, IInv
<1>4. BatchUnread(e) /\ incoming_sequence[Peer(e)] > last_reliable_sequence[e]
  BY <1>2, <1>3 DEF RemoteDroppedReliable, BatchUnread
<1> QED
  BY <1>4 DEF RInv, ReliableInv, BitsTellDelivery, BatchUnread

\* When the buffer is free every live acknowledgement has our bit, the
\* peer's own state included: all that was sealed has been read.
LEMMA FreeIsRead ==
    ASSUME RInv, NEW e \in Ends, reliable_buf[e] = <<>>
    PROVE  /\ incoming_reliable_sequence[Peer(e)] = reliable_sequence[e]
           /\ sealed[e] = delivered[e]
           /\ \A y \in Acknowledgements(e) :
                  incoming_acknowledged[e] <= y[1] => y[2] = reliable_sequence[e]
<1> DEFINE x == <<incoming_acknowledged[e], incoming_reliable_acknowledged[e]>>
<1>1. ReliableInv(e) /\ TypeOK
  BY DEF RInv, IInv
<1>2. x \in Acknowledgements(e) /\ x[2] = reliable_sequence[e]
  BY <1>1, AckMembers DEF ReliableInv, FreeIsAcknowledged
<1>3. incoming_acknowledged[e] \in Nat
  BY <1>1, FieldTypes
<1> USE DEF ReliableInv
<1>4. BitsTellDelivery(e) /\ incoming_reliable_sequence[Peer(e)] = reliable_sequence[e]
  BY <1>1 DEF BitsTellDelivery
<1>5. ASSUME NEW y \in Acknowledgements(e), incoming_acknowledged[e] <= y[1]
      PROVE  y[2] = reliable_sequence[e]
  BY <1>1, <1>2, <1>3, <1>5 DEF AckStays
<1> QED
  BY <1>4, <1>5 DEF BitsTellDelivery

\* A packet goes out with the batch in hand ...
CarriesBatch(e, p, m) ==
    /\ p.reliable
    /\ ReliableUnits(e, m) = reliable_buf'[e]
    /\ last_reliable_sequence'[e] = outgoing_sequence[e]
    /\ BatchUnread(e)'
    /\ \A q \in network[e] : q.reliable /\ ~ q.more =>
                                 ~ (q.sequence > incoming_sequence[Peer(e)])
\* ... or with a datagram alone.
CarriesNone(e, p, m) ==
    /\ ~ p.reliable /\ ~ p.more
    /\ ReliableUnits(e, m) = <<>>
    /\ ~ fragment_pending[e]
    /\ reliable_buf'[e] = reliable_buf[e]
    /\ reliable_sequence'[e] = reliable_sequence[e]
    /\ last_reliable_sequence'[e] = last_reliable_sequence[e]

LEMMA InFlightKept ==
    ASSUME RInv, NEW e \in Ends, NEW p, NEW m, SendStep(e, p, m),
           CarriesBatch(e, p, m) \/ CarriesNone(e, p, m)
    PROVE  OneReliableInFlight(e)' /\ LastReliableInv(e)'
<1> DEFINE r == Peer(e)
<1>1. /\ TypeOK /\ SendingInv(e) /\ CopiesInv(e) /\ r \in Ends /\ r # e
      /\ LastReliableInv(e) /\ OneReliableInFlight(e)
  BY PeerFacts DEF RInv, IInv, DirectionInv, ReliableInv
<1>2. /\ assembled'[e][outgoing_sequence[e]] = m
      /\ \A s \in 1 .. Len(assembled[e]) : assembled'[e][s] = assembled[e][s]
  BY <1>1, MessageBegun
<1>3. /\ p \in Packet /\ p.sequence = outgoing_sequence[e]
      /\ network'[e] = network[e] \cup {p}
      /\ fragment_pending'[e] = p.more
      /\ fragment_out'[e] = IF p.more THEN m ELSE <<>>
      /\ outgoing_sequence'[e] = IF p.more THEN outgoing_sequence[e]
                                 ELSE outgoing_sequence[e] + 1
      /\ incoming_sequence' = incoming_sequence
      /\ incoming_reliable_sequence' = incoming_reliable_sequence
  BY <1>1 DEF SendStep, Emits, TypeOK
<1>4. /\ outgoing_sequence[e] \in Nat /\ last_reliable_sequence[e] \in Nat
      /\ incoming_sequence[r] \in Nat
  BY <1>1, FieldTypes
<1>5. /\ last_reliable_sequence[e] <= outgoing_sequence[e]
      /\ ~ fragment_pending[e] =>
             last_reliable_sequence[e] < outgoing_sequence[e]
  BY <1>1 DEF LastReliableInv
<1>6. LastReliableInv(e)'
  <2>1. CASE CarriesBatch(e, p, m)
    <3>1. CASE p.more
      <4>1. /\ fragment_pending'[e] /\ fragment_out'[e] = m
            /\ outgoing_sequence'[e] = outgoing_sequence[e]
        BY <1>3, <3>1
      <4>2. ReliableUnits(e, fragment_out[e])' = reliable_buf'[e]
        BY <2>1, <4>1 DEF CarriesBatch, ReliableUnits, Reliable
      <4> QED
        BY <1>4, <2>1, <4>1, <4>2 DEF CarriesBatch, LastReliableInv
    <3>2. CASE ~ p.more
      <4>1. /\ ~ fragment_pending'[e]
            /\ outgoing_sequence'[e] = outgoing_sequence[e] + 1
        BY <1>3, <3>2
      <4> QED
        BY <1>4, <2>1, <4>1 DEF CarriesBatch, LastReliableInv
    <3> QED
      BY <3>1, <3>2
  <2>2. CASE CarriesNone(e, p, m)
    <3>1. /\ ~ fragment_pending'[e]
          /\ outgoing_sequence'[e] = outgoing_sequence[e] + 1
          /\ last_reliable_sequence'[e] = last_reliable_sequence[e]
      BY <1>3, <2>2 DEF CarriesNone
    <3> QED
      BY <1>4, <1>5, <3>1 DEF LastReliableInv
  <2> QED
    BY <2>1, <2>2
<1>7. OneReliableInFlight(e)'
  <2> DEFINE Units(q) == ReliableUnits(e, assembled'[e][q.sequence])
  <2> SUFFICES ASSUME NEW q \in network'[e], ~ q.more
               PROVE  /\ ~ q.reliable => Units(q) = <<>>
                      /\ q.reliable => q.sequence <= last_reliable_sequence'[e]
                      /\ q.reliable /\ q.sequence > incoming_sequence[r] =>
                            /\ q.sequence = last_reliable_sequence'[e]
                            /\ Units(q) = reliable_buf'[e]
                            /\ BatchUnread(e)'
    BY <1>3 DEF OneReliableInFlight, ReliableUnits, Reliable
  <2>1. CASE q = p
    <3>1. Units(q) = ReliableUnits(e, m)
      BY <1>2, <1>3, <2>1
    <3> QED
      BY <1>3, <1>4, <2>1, <3>1 DEF CarriesBatch, CarriesNone
  <2>2. CASE q \in network[e]
    <3>1. q.sequence \in 1 .. Len(assembled[e]) /\ q.sequence < outgoing_sequence[e]
          /\ q.sequence \in Nat
      BY <1>1, <2>2, FieldTypes, PacketTypes DEF CopiesInv
    <3>2. Units(q) = ReliableUnits(e, assembled[e][q.sequence])
      BY <1>2, <3>1
    <3>3. /\ ~ q.reliable => Units(q) = <<>>
          /\ q.reliable => q.sequence <= last_reliable_sequence[e]
          /\ q.reliable /\ q.sequence > incoming_sequence[r] =>
                /\ q.sequence = last_reliable_sequence[e]
                /\ Units(q) = reliable_buf[e]
                /\ BatchUnread(e)
      BY <1>1, <2>2, <3>2 DEF OneReliableInFlight
    <3>4. CASE CarriesBatch(e, p, m)
      <4>1. /\ q.reliable => ~ (q.sequence > incoming_sequence[r])
            /\ last_reliable_sequence'[e] = outgoing_sequence[e]
        BY <2>2, <3>4 DEF CarriesBatch
      <4>2. q.sequence <= last_reliable_sequence'[e]
        BY <1>4, <3>1, <4>1
      <4> QED
        BY <3>3, <4>1, <4>2
    <3>5. CASE CarriesNone(e, p, m)
      BY <1>3, <3>3, <3>5 DEF CarriesNone, BatchUnread
    <3> QED
      BY <3>4, <3>5
  <2> QED
    BY <1>3, <2>1, <2>2
<1> QED
  BY <1>6, <1>7

\* What else an operation that begins a message does, value by value.
LEMMA BeginChanges ==
    ASSUME RInv, NEW e \in Ends, NEW p, NEW m, NEW rel, NEW send, NEW len,
           Begins(e, rel, send, len), BeginStep(e, p, m, rel, send, len),
           rel \in Seq(Reliable(e))
    PROVE  /\ ReliableUnits(e, m) = RelPart(rel, send)
           /\ last_reliable_sequence'[e] = IF send THEN outgoing_sequence[e]
                                           ELSE last_reliable_sequence[e]
           /\ SealBatch(e, rel) =>
                  /\ reliable_buf'[e] = rel
                  /\ reliable_sequence'[e] = Flip(reliable_sequence[e])
                  /\ sealed'[e] = sealed[e] \o rel
           /\ SendStep(e, p, m)
           /\ send \in BOOLEAN
           /\ send /\ rel # <<>> => p.reliable
           /\ ~ send /\ DatagramsFit => ~ p.reliable /\ ~ p.more
           /\ ~ fragment_pending[e]
<1>1. /\ TypeOK /\ SendingInv(e) /\ send \in BOOLEAN /\ len \in Nat
      /\ len \in UnreliableLengths /\ SendStep(e, p, m)
  BY LengthAssumption DEF RInv, IInv, DirectionInv, Begins, BeginStep
<1>2. ReliableUnits(e, m) = RelPart(rel, send)
  <2>1. m = RelPart(rel, send) \/ m = RelPart(rel, send) \o Unreliable(e, len)
    BY DEF BeginStep
  <2> QED
    BY <1>1, <2>1, PayloadUnits
<1>3. last_reliable_sequence'[e] = IF send THEN outgoing_sequence[e]
                                   ELSE last_reliable_sequence[e]
  BY <1>1 DEF BeginStep, TypeOK
<1>4. SealBatch(e, rel) =>
          /\ reliable_buf'[e] = rel
          /\ reliable_sequence'[e] = Flip(reliable_sequence[e])
          /\ sealed'[e] = sealed[e] \o rel
  BY <1>1 DEF SealBatch, TypeOK
<1>5. /\ p \in Packet /\ TrueCopy(p, m)
      /\ p.fragment \in BOOLEAN /\ p.reliable \in BOOLEAN
  BY <1>1, PacketTypes DEF SendStep, Emits
<1>6. send /\ rel # <<>> => p.reliable
  BY <1>1, <1>5 DEF BeginStep
<1>7. ~ send /\ DatagramsFit => ~ p.reliable /\ ~ p.more
  BY <1>1, <1>5 DEF BeginStep, DatagramsFit, TrueCopy
<1> QED
  BY <1>1, <1>2, <1>3, <1>4, <1>6, <1>7 DEF BeginStep

\* The batch of a message that begins is made of reliable messages, and the
\* queue stays one.
BeginsReliable(e, rel) ==
    /\ rel \in Seq(Reliable(e))
    /\ message'[e] \in Seq(Reliable(e))
    /\ message'[Peer(e)] = message[Peer(e)]

\* A message that begins keeps the invariant of the direction it goes.
LEMMA RelBegin ==
    ASSUME RInv, DatagramsFit, NEW e \in Ends, NEW rel, NEW send, NEW len,
           Begins(e, rel, send, len), BeginsReliable(e, rel)
    PROVE  ReliableInv(e)'
<1> DEFINE r == Peer(e)
<1>1. /\ TypeOK /\ r \in Ends /\ r # e /\ ReliableInv(e) /\ AckInv(e)
      /\ CopiesInv(e) /\ ReadingInv(e) /\ QueueInv(e)
  BY PeerFacts DEF RInv, IInv, DirectionInv, ReliableInv
<1>2. PICK p, m : BeginStep(e, p, m, rel, send, len)
  BY BeginsStep DEF RInv
<1>3. /\ ReliableUnits(e, m) = RelPart(rel, send)
      /\ last_reliable_sequence'[e] = IF send THEN outgoing_sequence[e]
                                      ELSE last_reliable_sequence[e]
      /\ SealBatch(e, rel) =>
             /\ reliable_buf'[e] = rel
             /\ reliable_sequence'[e] = Flip(reliable_sequence[e])
             /\ sealed'[e] = sealed[e] \o rel
      /\ SendStep(e, p, m)
      /\ send \in BOOLEAN
      /\ send /\ rel # <<>> => p.reliable
      /\ ~ send => ~ p.reliable /\ ~ p.more
      /\ ~ fragment_pending[e]
  <2>1. rel \in Seq(Reliable(e))
    BY DEF BeginsReliable
  <2> QED
    BY <1>2, <2>1, BeginChanges
<1>4. /\ UNCHANGED <<incoming_sequence, incoming_reliable_sequence,
                     incoming_acknowledged, incoming_reliable_acknowledged,
                     delivered>>
      /\ network'[r] = network[r]
  BY <1>1, <1>3 DEF SendStep, Emits, TypeOK
<1>5. Acknowledgements(e)' = Acknowledgements(e)
  BY <1>4 DEF Acknowledgements
<1>6. /\ outgoing_sequence[e] \in Nat /\ incoming_sequence[r] \in Nat
      /\ last_reliable_sequence[e] \in Nat /\ reliable_sequence[e] \in Bit
      /\ incoming_sequence[r] < outgoing_sequence[e]
      /\ \A x \in Acknowledgements(e) :
             x[1] \in Nat /\ x[1] <= incoming_sequence[r]
  BY <1>1, FieldTypes, AckTypes DEF AckInv, ReadingInv
<1>7. LateAckIsCurrent(e)'
  <2> SUFFICES ASSUME NEW x \in Acknowledgements(e),
                      x[1] > last_reliable_sequence'[e]
               PROVE  x[2] = incoming_reliable_sequence[r]
    BY <1>4, <1>5 DEF LateAckIsCurrent
  <2>1. last_reliable_sequence'[e] = last_reliable_sequence[e]
    <3>1. ~ (x[1] > outgoing_sequence[e])
      BY <1>6
    <3> QED
      BY <1>3, <3>1
  <2> QED
    BY <1>1, <2>1 DEF ReliableInv, LateAckIsCurrent
<1>8. \A q \in network[e] :
          q.reliable /\ ~ q.more /\ q.sequence > incoming_sequence[r] =>
              /\ BatchUnread(e)
              /\ q.sequence = last_reliable_sequence[e]
  BY <1>1 DEF ReliableInv, OneReliableInFlight
<1>9. CASE SealBatch(e, rel) /\ send /\ reliable_buf[e] = <<>> /\ rel # <<>>
  <2>1. /\ incoming_reliable_sequence[r] = reliable_sequence[e]
        /\ sealed[e] = delivered[e]
        /\ \A y \in Acknowledgements(e) :
               incoming_acknowledged[e] <= y[1] => y[2] = reliable_sequence[e]
    BY <1>9, FreeIsRead
  <2>2. reliable_sequence'[e] # reliable_sequence[e]
    BY <1>3, <1>6, <1>9, FlipBit
  <2>3. BatchUnread(e)'
    BY <1>4, <2>1, <2>2 DEF BatchUnread
  <2>4. CarriesBatch(e, p, m)
    <3>1. ReliableUnits(e, m) = reliable_buf'[e] /\ p.reliable
          /\ last_reliable_sequence'[e] = outgoing_sequence[e]
      BY <1>3, <1>9 DEF RelPart
    <3>2. ~ BatchUnread(e)
      BY <2>1 DEF BatchUnread
    <3> QED
      BY <1>8, <2>3, <3>1, <3>2 DEF CarriesBatch
  <2>5. QueueInv(e)'
    <3>1. written' = written /\ reliable_buf'[e] = rel
      BY <1>3, <1>9 DEF Begins
    <3> QED
      BY <1>1, <3>1 DEF QueueInv, BeginsReliable, Reliable
  <2>6. AckStays(e)'
    BY <1>4, <1>5, <2>1, <2>2 DEF AckStays
  <2>7. FreeIsAcknowledged(e)'
    BY <1>3, <1>9 DEF FreeIsAcknowledged
  <2>8. BitsTellDelivery(e)'
    BY <1>3, <1>4, <1>9, <2>1, <2>2 DEF BitsTellDelivery
  <2> QED
    BY <1>3, <1>7, <2>4, <2>5, <2>6, <2>7, <2>8, InFlightKept DEF ReliableInv
<1>10. CASE /\ UNCHANGED <<reliable_buf, reliable_sequence, sealed>>
            /\ rel = reliable_buf[e] /\ send = RemoteDroppedReliable(e)
  <2>1. QueueInv(e)'
    <3>1. written' = written
      BY DEF Begins
    <3> QED
      BY <1>1, <1>10, <3>1 DEF QueueInv, BeginsReliable, Reliable
  <2>2. AckStays(e)' /\ FreeIsAcknowledged(e)' /\ BitsTellDelivery(e)'
    BY <1>1, <1>4, <1>5, <1>10
       DEF ReliableInv, AckStays, FreeIsAcknowledged, BitsTellDelivery
  <2>3. CASE send
    <3>1. /\ BatchUnread(e) /\ reliable_buf[e] # <<>>
          /\ incoming_sequence[r] > last_reliable_sequence[e]
      BY <1>10, <2>3, DroppedIsUnread
    <3>2. CarriesBatch(e, p, m)
      <4>1. ReliableUnits(e, m) = reliable_buf'[e] /\ p.reliable
            /\ last_reliable_sequence'[e] = outgoing_sequence[e]
        BY <1>3, <1>10, <2>3, <3>1 DEF RelPart
      <4>2. BatchUnread(e)'
        BY <1>4, <1>10, <3>1 DEF BatchUnread
      <4>3. \A q \in network[e] : q.reliable /\ ~ q.more =>
                                      ~ (q.sequence > incoming_sequence[r])
        BY <1>6, <1>8, <3>1
      <4> QED
        BY <4>1, <4>2, <4>3 DEF CarriesBatch
    <3> QED
      BY <1>3, <1>7, <2>1, <2>2, <3>2, InFlightKept DEF ReliableInv
  <2>4. CASE ~ send
    <3>1. CarriesNone(e, p, m)
      BY <1>3, <1>10, <2>4 DEF CarriesNone, RelPart
    <3> QED
      BY <1>3, <1>7, <2>1, <2>2, <3>1, InFlightKept DEF ReliableInv
  <2> QED
    BY <1>3, <2>3, <2>4
<1> QED
  BY <1>9, <1>10 DEF Begins

\* So does the next fragment, which carries on with the batch in hand.
LEMMA RelFragment ==
    ASSUME RInv, NEW e \in Ends, TransmitNextFragment(e)
    PROVE  ReliableInv(e)'
<1> DEFINE r == Peer(e)
           m == fragment_out[e]
<1>1. /\ TypeOK /\ r \in Ends /\ r # e /\ ReliableInv(e) /\ CopiesInv(e)
      /\ OneReliableInFlight(e) /\ LastReliableInv(e) /\ QueueInv(e)
  BY PeerFacts DEF RInv, IInv, DirectionInv, ReliableInv
<1>2. PICK p : SendStep(e, p, m) /\ p.reliable = (reliable_buf[e] # <<>>)
  BY NextFragmentStep DEF RInv
<1>3. /\ fragment_pending[e]
      /\ UNCHANGED <<reliable_sequence, last_reliable_sequence, reliable_buf,
                     message, written, sealed>>
  BY NextFragmentStep DEF RInv
<1>4. /\ UNCHANGED <<incoming_sequence, incoming_reliable_sequence,
                     incoming_acknowledged, incoming_reliable_acknowledged,
                     delivered>>
      /\ network'[r] = network[r]
  BY <1>1, <1>2 DEF SendStep, Emits, TypeOK
<1>5. Acknowledgements(e)' = Acknowledgements(e)
  BY <1>4 DEF Acknowledgements
<1>6. /\ last_reliable_sequence[e] = outgoing_sequence[e]
      /\ BatchUnread(e)
      /\ ReliableUnits(e, m) = reliable_buf[e]
  BY <1>1, <1>3 DEF LastReliableInv
<1>7. reliable_buf[e] # <<>>
  BY <1>1, <1>6 DEF ReliableInv, BitsTellDelivery, BatchUnread
<1>8. \A q \in network[e] : q.reliable /\ ~ q.more =>
                                ~ (q.sequence > incoming_sequence[r])
  <2> SUFFICES ASSUME NEW q \in network[e], q.reliable, ~ q.more,
                      q.sequence > incoming_sequence[r]
               PROVE  FALSE
    OBVIOUS
  <2>1. q.sequence = last_reliable_sequence[e] /\ q.sequence < outgoing_sequence[e]
    BY <1>1 DEF OneReliableInFlight, CopiesInv
  <2>2. outgoing_sequence[e] \in Nat
    BY <1>1, FieldTypes
  <2> QED
    BY <1>6, <2>1, <2>2
<1>9. CarriesBatch(e, p, m)
  BY <1>2, <1>3, <1>4, <1>6, <1>7, <1>8 DEF CarriesBatch, BatchUnread
<1>10. QueueInv(e)'
  BY <1>1, <1>3 DEF QueueInv, Reliable
<1>11. LateAckIsCurrent(e)' /\ AckStays(e)'
  BY <1>1, <1>3, <1>4, <1>5 DEF ReliableInv, LateAckIsCurrent, AckStays
<1>12. FreeIsAcknowledged(e)' /\ BitsTellDelivery(e)'
  BY <1>1, <1>3, <1>4 DEF ReliableInv, FreeIsAcknowledged, BitsTellDelivery
<1> QED
  BY <1>2, <1>9, <1>10, <1>11, <1>12, InFlightKept DEF ReliableInv

\* A direction the step does not touch keeps its invariant.
LEMMA RelOther ==
    ASSUME RInv, NEW d \in Ends,
           Acknowledgements(d)' = Acknowledgements(d),
           UNCHANGED <<network[d], outgoing_sequence[d], reliable_buf[d],
                       reliable_sequence[d], last_reliable_sequence[d],
                       sealed[d], delivered[d], fragment_pending[d],
                       fragment_out[d], assembled[d],
                       incoming_sequence[Peer(d)],
                       incoming_reliable_sequence[Peer(d)],
                       incoming_acknowledged[d],
                       incoming_reliable_acknowledged[d]>>,
           QueueInv(d)'
    PROVE  ReliableInv(d)'
<1>1. ReliableInv(d)
  BY DEF RInv
<1>2. LastReliableInv(d)'
  BY <1>1 DEF ReliableInv, LastReliableInv, BatchUnread, ReliableUnits, Reliable
<1>3. OneReliableInFlight(d)'
  BY <1>1
     DEF ReliableInv, OneReliableInFlight, BatchUnread, ReliableUnits, Reliable
<1>4. LateAckIsCurrent(d)' /\ AckStays(d)'
  BY <1>1 DEF ReliableInv, LateAckIsCurrent, AckStays
<1>5. FreeIsAcknowledged(d)' /\ BitsTellDelivery(d)'
  BY <1>1 DEF ReliableInv, FreeIsAcknowledged, BitsTellDelivery
<1> QED
  BY <1>2, <1>3, <1>4, <1>5 DEF ReliableInv

\* A step of the sender leaves the other direction alone.
LEMMA RelSendIn ==
    ASSUME RInv, NEW e \in Ends, NEW p, NEW m, SendStep(e, p, m), written' = written,
           UNCHANGED <<reliable_buf[Peer(e)], reliable_sequence[Peer(e)],
                       last_reliable_sequence[Peer(e)], sealed[Peer(e)],
                       message[Peer(e)]>>
    PROVE  ReliableInv(Peer(e))'
<1> DEFINE d == Peer(e)
<1>1. /\ TypeOK /\ d \in Ends /\ d # e /\ Peer(d) = e /\ QueueInv(d)
      /\ SendingInv(e)
  BY PeerFacts DEF RInv, IInv, DirectionInv, ReliableInv
<1>2. /\ p.ack = incoming_sequence[e] /\ p.rack = incoming_reliable_sequence[e]
      /\ network'[e] = network[e] \cup {p} /\ network'[d] = network[d]
      /\ fragment_pending'[d] = fragment_pending[d]
      /\ fragment_out'[d] = fragment_out[d]
      /\ outgoing_sequence'[d] = outgoing_sequence[d]
  BY <1>1 DEF SendStep, Emits, TypeOK
<1>3. assembled'[d] = assembled[d]
  BY <1>1, MessageBegun
<1>4. UNCHANGED <<incoming_sequence, incoming_reliable_sequence,
                  incoming_acknowledged, incoming_reliable_acknowledged,
                  delivered>>
  BY DEF SendStep
<1>5. Acknowledgements(d)' = Acknowledgements(d)
  <2>1. AckOf(p) = <<incoming_sequence[e], incoming_reliable_sequence[e]>>
    BY <1>2 DEF AckOf
  <2> QED
    BY <1>1, <1>2, <1>4, <2>1 DEF Acknowledgements
<1>6. QueueInv(d)'
  BY <1>1 DEF QueueInv, Reliable
<1> QED
  BY <1>1, <1>2, <1>3, <1>4, <1>5, <1>6, RelOther

\* Reading keeps the invariant of the direction it acknowledges.
LEMMA RelReadOut ==
    ASSUME RInv, NEW e \in Ends, NEW p \in network[Peer(e)], Reads(e, p)
    PROVE  ReliableInv(e)'
<1> DEFINE r == Peer(e)
           x == AckOf(p)
<1>1. TypeOK /\ ReliableInv(e) /\ AckInv(e) /\ r \in Ends /\ r # e /\ IInv
  BY PeerFacts DEF RInv, IInv, DirectionInv
<1>2. /\ UNCHANGED <<network, outgoing_sequence, last_reliable_sequence,
                     reliable_sequence, sealed, fragment_pending, fragment_out,
                     assembled, message, written>>
      /\ incoming_sequence'[r] = incoming_sequence[r]
      /\ incoming_reliable_sequence'[r] = incoming_reliable_sequence[r]
      /\ delivered'[e] = delivered[e]
  BY <1>1, ReadLeaves
<1>3. x \in Acknowledgements(e) /\ x[1] = p.ack /\ x[2] = p.rack
  BY AckMembers DEF AckOf
<1>4. ProcessAcknowledgement(e, p)
  BY DEF Reads
<1>5. CASE UNCHANGED <<incoming_acknowledged, incoming_reliable_acknowledged,
                       reliable_buf>>
  <2>1. Acknowledgements(e)' = Acknowledgements(e)
    BY <1>2, <1>5 DEF Acknowledgements
  <2>2. QueueInv(e)'
    BY <1>1, <1>2, <1>5 DEF ReliableInv, QueueInv, Reliable
  <2> QED
    BY <1>2, <1>5, <2>1, <2>2, RelOther
<1>6. CASE StoresAck(e, p)
  <2>1. /\ incoming_acknowledged'[e] = p.ack
        /\ incoming_reliable_acknowledged'[e] = p.rack
        /\ reliable_buf'[e] = IF p.rack = reliable_sequence[e]
                              THEN <<>> ELSE reliable_buf[e]
        /\ incoming_acknowledged[e] <= p.ack
    BY <1>1, <1>6 DEF StoresAck, TypeOK
  <2>2. Acknowledgements(e)' \subseteq Acknowledgements(e)
    BY <1>2, <1>3, <2>1 DEF Acknowledgements, AckOf
  <2>3. /\ incoming_acknowledged[e] \in Nat
        /\ p.ack \in Nat
        /\ incoming_sequence[r] \in Nat
        /\ \A y \in Acknowledgements(e) : y[1] \in Nat
    BY <1>1, <1>3, FieldTypes, AckTypes
  <2>4. LateAckIsCurrent(e)'
    BY <1>1, <1>2, <2>2 DEF ReliableInv, LateAckIsCurrent
  <2>5. AckStays(e)'
    <3>1. \A y \in Acknowledgements(e) :
              p.ack <= y[1] => incoming_acknowledged[e] <= y[1]
      BY <2>1, <2>3
    <3> QED
      BY <1>1, <1>2, <2>1, <2>2, <3>1 DEF ReliableInv, AckStays
  <2>6. p.rack = reliable_sequence[e]
            => incoming_reliable_sequence[r] = reliable_sequence[e]
    <3> DEFINE y == <<incoming_sequence[r], incoming_reliable_sequence[r]>>
    <3>1. y \in Acknowledgements(e)
      BY AckMembers
    <3>2. x[1] <= y[1]
      BY <1>1, <1>3 DEF AckInv
    <3> QED
      BY <1>1, <1>3, <2>1, <3>1, <3>2 DEF ReliableInv, AckStays
  <2>7. FreeIsAcknowledged(e)'
    <3>1. ASSUME reliable_buf[e] = <<>> PROVE p.rack = reliable_sequence[e]
      BY <1>3, <2>1, <3>1, FreeIsRead
    <3> QED
      BY <1>2, <2>1, <3>1 DEF FreeIsAcknowledged
  <2>8. QueueInv(e)'
    <3>1. <<>> \in Seq(Reliable(e))
      OBVIOUS
    <3>2. reliable_buf'[e] \in Seq(Reliable(e))
      BY <1>1, <2>1, <3>1 DEF ReliableInv, QueueInv
    <3> QED
      BY <1>1, <1>2, <3>2 DEF ReliableInv, QueueInv, Reliable
  <2>9. LastReliableInv(e)' /\ OneReliableInFlight(e)' /\ BitsTellDelivery(e)'
    <3>1. LastReliableInv(e) /\ OneReliableInFlight(e) /\ BitsTellDelivery(e)
      BY <1>1 DEF ReliableInv
    <3>2. BatchUnread(e)' = BatchUnread(e)
      BY <1>2 DEF BatchUnread
    <3>3. BatchUnread(e) => reliable_buf'[e] = reliable_buf[e]
      BY <2>1, <2>6 DEF BatchUnread
    <3>4. LastReliableInv(e)'
      <4>1. fragment_pending[e] => BatchUnread(e)
        BY <3>1 DEF LastReliableInv
      <4> QED
        BY <1>2, <3>1, <3>2, <3>3, <4>1
           DEF LastReliableInv, ReliableUnits, Reliable
    <3>5. OneReliableInFlight(e)'
      <4> SUFFICES ASSUME NEW q \in network[e], ~ q.more
                   PROVE  /\ ~ q.reliable =>
                                 ReliableUnits(e, assembled[e][q.sequence]) = <<>>
                          /\ q.reliable =>
                                 q.sequence <= last_reliable_sequence[e]
                          /\ q.reliable /\ q.sequence > incoming_sequence[r] =>
                                /\ q.sequence = last_reliable_sequence[e]
                                /\ ReliableUnits(e, assembled[e][q.sequence])
                                       = reliable_buf'[e]
                                /\ BatchUnread(e)
        BY <1>2, <3>2 DEF OneReliableInFlight, ReliableUnits, Reliable
      <4> QED
        BY <3>1, <3>3 DEF OneReliableInFlight
    <3>6. BitsTellDelivery(e)'
      BY <1>2, <2>1, <2>6, <3>1 DEF BitsTellDelivery
    <3> QED
      BY <3>4, <3>5, <3>6
  <2> QED
    BY <2>4, <2>5, <2>7, <2>8, <2>9 DEF ReliableInv
<1> QED
  BY <1>1, <1>4, <1>5, <1>6, AckEffect

\* Reading keeps the invariant of the direction the packet came from.
LEMMA RelReadIn ==
    ASSUME RInv, NEW e \in Ends, NEW p \in network[Peer(e)], Reads(e, p)
    PROVE  ReliableInv(Peer(e))'
<1> DEFINE d == Peer(e)
           units == ReliableUnits(d, assembled[d][p.sequence])
           new == <<p.sequence, incoming_reliable_sequence'[e]>>
           old == <<incoming_sequence[e], incoming_reliable_sequence[e]>>
<1>1. /\ TypeOK /\ ReliableInv(d) /\ AckInv(d) /\ CopiesInv(d) /\ IInv
      /\ d \in Ends /\ d # e /\ Peer(d) = e
  BY PeerFacts DEF RInv, IInv, DirectionInv
<1>2. /\ p \in Packet
      /\ p.sequence \in Nat
      /\ p.reliable \in BOOLEAN
      /\ incoming_sequence[e] \in Nat
      /\ incoming_acknowledged[d] \in Nat
      /\ last_reliable_sequence[d] \in Nat
      /\ outgoing_sequence[d] \in Nat
      /\ incoming_reliable_sequence[e] \in Bit
      /\ reliable_sequence[d] \in Bit
      /\ delivered[d] \in Seq(Int)
      /\ incoming_sequence[e] < p.sequence
  BY <1>1, FieldTypes, PacketTypes DEF Reads
<1>3. /\ UNCHANGED <<network, outgoing_sequence, last_reliable_sequence,
                     reliable_sequence, sealed, fragment_pending, fragment_out,
                     assembled, message, written>>
      /\ incoming_acknowledged'[d] = incoming_acknowledged[d]
      /\ incoming_reliable_acknowledged'[d] = incoming_reliable_acknowledged[d]
      /\ reliable_buf'[d] = reliable_buf[d]
  BY <1>1, ReadLeaves
<1>4. QueueInv(d)'
  BY <1>1, <1>3 DEF ReliableInv, QueueInv, Reliable
<1>5. CASE NotYet
  <2>1. /\ incoming_sequence' = incoming_sequence /\ delivered' = delivered
        /\ incoming_reliable_sequence' = incoming_reliable_sequence
    BY <1>5 DEF NotYet, sequenceVars
  <2>2. Acknowledgements(d)' = Acknowledgements(d)
    BY <1>1, <1>3, <2>1 DEF Acknowledgements
  <2> QED
    BY <1>1, <1>3, <1>4, <2>1, <2>2, RelOther
<1>6. CASE ~ p.more /\ Consume(e, p, assembled[d][p.sequence])
  <2>1. /\ incoming_sequence'[e] = p.sequence
        /\ incoming_reliable_sequence'[e] =
               IF p.reliable THEN Flip(incoming_reliable_sequence[e])
               ELSE incoming_reliable_sequence[e]
        /\ delivered'[d] = delivered[d] \o units
    BY <1>1, <1>6 DEF Consume, TypeOK
  <2>2. /\ ~ p.reliable => units = <<>>
        /\ p.reliable =>
              /\ p.sequence = last_reliable_sequence[d]
              /\ units = reliable_buf[d]
              /\ incoming_reliable_sequence[e] # reliable_sequence[d]
        /\ p.sequence < outgoing_sequence[d]
    BY <1>1, <1>2, <1>6
       DEF ReliableInv, OneReliableInFlight, BatchUnread, CopiesInv
  <2>3. p.reliable => incoming_reliable_sequence'[e] = reliable_sequence[d]
    BY <1>2, <2>1, <2>2 DEF Bit, Flip
  <2>4. Acknowledgements(d)' \subseteq Acknowledgements(d) \cup {new}
    BY <1>1, <1>3, <2>1 DEF Acknowledgements
  <2>5. old \in Acknowledgements(d)
    BY <1>1, AckMembers
  <2>6. \A x \in Acknowledgements(d) :
            x[1] \in Nat /\ x[1] <= incoming_sequence[e] /\ x[1] < p.sequence
    <3>1. ASSUME NEW x \in Acknowledgements(d)
          PROVE  x[1] \in Nat /\ x[1] <= incoming_sequence[e]
      BY <1>1, AckTypes DEF AckInv
    <3> QED
      BY <1>2, <3>1
  <2>7. new[1] = p.sequence /\ new[2] = incoming_reliable_sequence'[e]
    OBVIOUS
  <2> HIDE DEF new, units
  <2>8. LateAckIsCurrent(d)'
    <3>1. ASSUME NEW x \in Acknowledgements(d)', x[1] > last_reliable_sequence[d]
          PROVE  x[2] = incoming_reliable_sequence'[e]
      <4>1. CASE x = new
        BY <2>7, <4>1
      <4>2. CASE x \in Acknowledgements(d)
        <5>1. p.sequence # last_reliable_sequence[d]
          BY <1>2, <2>6, <3>1, <4>2
        <5>2. ~ p.reliable
          BY <2>2, <5>1
        <5>3. x[2] = incoming_reliable_sequence[e]
          BY <1>1, <3>1, <4>2 DEF ReliableInv, LateAckIsCurrent
        <5> QED
          BY <2>1, <5>2, <5>3
      <4> QED
        BY <2>4, <4>1, <4>2
    <3> QED
      BY <1>1, <1>3, <3>1 DEF LateAckIsCurrent
  <2>9. AckStays(d)'
    <3>1. ASSUME NEW x \in Acknowledgements(d)', NEW y \in Acknowledgements(d)',
                 x[2] = reliable_sequence[d],
                 incoming_acknowledged[d] <= x[1], x[1] <= y[1]
          PROVE  y[2] = reliable_sequence[d]
      <4>1. CASE x = new
        <5>1. y = new
          BY <1>2, <2>4, <2>6, <2>7, <3>1, <4>1
        <5> QED
          BY <3>1, <4>1, <5>1
      <4>2. CASE x \in Acknowledgements(d) /\ y \in Acknowledgements(d)
        BY <1>1, <3>1, <4>2 DEF ReliableInv, AckStays
      <4>3. CASE x \in Acknowledgements(d) /\ y = new
        <5>1. incoming_reliable_sequence[e] = reliable_sequence[d]
          BY <1>1, <2>5, <2>6, <3>1, <4>3 DEF ReliableInv, AckStays
        <5> QED
          BY <2>1, <2>3, <2>7, <4>3, <5>1
      <4> QED
        BY <2>4, <4>1, <4>2, <4>3
    <3> QED
      BY <1>3, <3>1 DEF AckStays
  <2>10. FreeIsAcknowledged(d)'
    BY <1>1, <1>3 DEF ReliableInv, FreeIsAcknowledged
  <2>11. LastReliableInv(d)'
    <3>1. LastReliableInv(d)
      BY <1>1 DEF ReliableInv
    <3>2. CASE p.reliable
      <4>1. ~ fragment_pending[d]
        BY <1>2, <2>2, <3>1, <3>2 DEF LastReliableInv
      <4> QED
        BY <1>3, <3>1, <4>1 DEF LastReliableInv
    <3>3. CASE ~ p.reliable
      <4>1. BatchUnread(d)' = BatchUnread(d)
        BY <1>1, <1>3, <2>1, <3>3 DEF BatchUnread
      <4> QED
        BY <1>3, <3>1, <4>1 DEF LastReliableInv, ReliableUnits, Reliable
    <3> QED
      BY <3>2, <3>3
  <2>12. OneReliableInFlight(d)'
    <3> SUFFICES ASSUME NEW q \in network[d], ~ q.more
                 PROVE  /\ ~ q.reliable =>
                               ReliableUnits(d, assembled[d][q.sequence]) = <<>>
                        /\ q.reliable => q.sequence <= last_reliable_sequence[d]
                        /\ q.reliable /\ q.sequence > p.sequence =>
                              /\ q.sequence = last_reliable_sequence[d]
                              /\ ReliableUnits(d, assembled[d][q.sequence])
                                     = reliable_buf[d]
                              /\ BatchUnread(d)'
      BY <1>1, <1>3, <2>1 DEF OneReliableInFlight, ReliableUnits, Reliable
    <3>1. q.sequence \in Nat
      BY <1>1, FieldTypes, PacketTypes
    <3>2. q.sequence > p.sequence => q.sequence > incoming_sequence[e]
      BY <1>2, <3>1
    <3>3. /\ ~ q.reliable => ReliableUnits(d, assembled[d][q.sequence]) = <<>>
          /\ q.reliable => q.sequence <= last_reliable_sequence[d]
          /\ q.reliable /\ q.sequence > incoming_sequence[e] =>
                /\ q.sequence = last_reliable_sequence[d]
                /\ ReliableUnits(d, assembled[d][q.sequence]) = reliable_buf[d]
                /\ BatchUnread(d)
      BY <1>1 DEF ReliableInv, OneReliableInFlight
    <3>4. CASE p.reliable
      <4>1. ~ (q.reliable /\ q.sequence > p.sequence)
        BY <1>2, <2>2, <3>1, <3>3, <3>4
      <4> QED
        BY <3>3, <4>1
    <3>5. CASE ~ p.reliable
      <4>1. BatchUnread(d)' = BatchUnread(d)
        BY <1>1, <1>3, <2>1, <3>5 DEF BatchUnread
      <4> QED
        BY <3>2, <3>3, <4>1
    <3> QED
      BY <3>4, <3>5
  <2>13. BitsTellDelivery(d)'
    <3>1. BitsTellDelivery(d)
      BY <1>1 DEF ReliableInv
    <3>2. CASE p.reliable
      BY <1>1, <1>3, <2>1, <2>2, <2>3, <3>1, <3>2 DEF BitsTellDelivery
    <3>3. CASE ~ p.reliable
      <4>1. delivered'[d] = delivered[d]
        BY <1>2, <2>1, <2>2, <3>3
      <4> QED
        BY <1>1, <1>3, <2>1, <3>1, <3>3, <4>1 DEF BitsTellDelivery
    <3> QED
      BY <3>2, <3>3
  <2> QED
    BY <1>4, <2>8, <2>9, <2>10, <2>11, <2>12, <2>13 DEF ReliableInv
<1> QED
  BY <1>5, <1>6 DEF Reads

\* Batches are made of reliable messages.
LEMMA BeginsFromQueue ==
    ASSUME RInv, NEW e \in Ends,
           \/ \E len \in UnreliableLengths : Transmit(e, len)
           \/ \E n \in 1 .. MessageMax : TransmitQueuedReliablePrefix(e, n)
           \/ TransmitIsolatedReliable(e)
    PROVE  \E rel, send, len : Begins(e, rel, send, len) /\ BeginsReliable(e, rel)
<1> DEFINE K == Reliable(e)
<1>1. /\ TypeOK /\ Peer(e) \in Ends /\ Peer(e) # e
      /\ message[e] \in Seq(K) /\ reliable_buf[e] \in Seq(K) /\ <<>> \in Seq(K)
  BY PeerFacts DEF RInv, IInv, ReliableInv, QueueInv
<1>2. ASSUME NEW len \in UnreliableLengths, Transmit(e, len)
      PROVE  \E rel, send : Begins(e, rel, send, len) /\ BeginsReliable(e, rel)
  <2>1. PICK rel, send : Begins(e, rel, send, len)
    BY <1>1, <1>2, TransmitBegins
  <2>2. CASE CanSeal(e)
    <3>1. /\ SealBatch(e, message[e]) /\ message' = [message EXCEPT ![e] = <<>>]
          /\ reliable_buf[e] = <<>> /\ message[e] # <<>>
      BY <1>2, <2>2 DEF Transmit, CanSeal
    <3>2. reliable_buf'[e] = message[e]
      BY <1>1, <3>1 DEF SealBatch, TypeOK
    <3>3. rel = message[e]
      <4>1. CASE SealBatch(e, rel)
        BY <1>1, <3>2, <4>1 DEF SealBatch, TypeOK
      <4>2. CASE UNCHANGED reliable_buf
        BY <3>1, <3>2, <4>2
      <4> QED
        BY <2>1, <4>1, <4>2 DEF Begins
    <3>4. message'[e] = <<>> /\ message'[Peer(e)] = message[Peer(e)]
      BY <1>1, <3>1 DEF TypeOK
    <3> QED
      BY <1>1, <2>1, <3>3, <3>4 DEF BeginsReliable
  <2>3. CASE ~ CanSeal(e)
    <3>1. message' = message /\ reliable_buf' = reliable_buf
      BY <1>2, <2>3 DEF Transmit
    <3>2. rel = reliable_buf[e]
      <4>1. CASE SealBatch(e, rel)
        BY <1>1, <3>1, <4>1 DEF SealBatch, TypeOK
      <4> QED
        BY <2>1, <4>1 DEF Begins
    <3> QED
      BY <1>1, <2>1, <3>1, <3>2 DEF BeginsReliable
  <2> QED
    BY <2>2, <2>3
<1>3. ASSUME NEW n \in 1 .. MessageMax, TransmitQueuedReliablePrefix(e, n)
      PROVE  LET rel == SubSeq(message[e], 1, n)
             IN  Begins(e, rel, TRUE, 0) /\ BeginsReliable(e, rel)
  <2>1. /\ Begins(e, SubSeq(message[e], 1, n), TRUE, 0)
        /\ n \in 1 .. Len(message[e])
        /\ message' = [message EXCEPT
                           ![e] = SubSeq(message[e], n + 1, Len(message[e]))]
    BY <1>1, <1>3, PrefixBegins
  <2>2. /\ SubSeq(message[e], 1, n) \in Seq(K)
        /\ SubSeq(message[e], n + 1, Len(message[e])) \in Seq(K)
    <3> HIDE DEF K
    <3> QED
      BY <1>1, <2>1
  <2>3. /\ message'[e] = SubSeq(message[e], n + 1, Len(message[e]))
        /\ message'[Peer(e)] = message[Peer(e)]
    BY <1>1, <2>1 DEF TypeOK
  <2> QED
    BY <2>1, <2>2, <2>3 DEF BeginsReliable
<1>4. ASSUME TransmitIsolatedReliable(e)
      PROVE  LET rel == << - isolated[e] - 1 >>
             IN  Begins(e, rel, TRUE, 0) /\ BeginsReliable(e, rel)
  <2>1. Begins(e, << - isolated[e] - 1 >>, TRUE, 0) /\ message' = message
    BY <1>1, <1>4, IsolatedBegins
  <2>2. - isolated[e] - 1 \in K
    <3>1. isolated[e] \in Nat /\ MaxWritten[e] \in Nat
      BY <1>1, FieldTypes, BoundAssumption
    <3>2. - isolated[e] - 1 \in Int /\ - isolated[e] - 1 <= MaxWritten[e]
      BY <3>1
    <3> QED
      BY <3>2 DEF Reliable
  <2>3. << - isolated[e] - 1 >> \in Seq(K)
    <3> HIDE DEF K
    <3> QED
      BY <2>2
  <2> QED
    BY <1>1, <2>1, <2>3 DEF BeginsReliable
<1> QED
  BY <1>2, <1>3, <1>4

LEMMA RelWrite ==
    ASSUME RInv, NEW e \in Ends, Write(e)
    PROVE  \A d \in Ends : ReliableInv(d)'
<1> SUFFICES ASSUME NEW d \in Ends PROVE ReliableInv(d)'
  OBVIOUS
<1>1. /\ TypeOK /\ QueueInv(d) /\ WriteMessage(e)
      /\ UNCHANGED <<fragmentVars, assembled>>
  BY DEF RInv, IInv, ReliableInv, Write
<1>2. UNCHANGED <<incoming_sequence, incoming_reliable_sequence,
                  incoming_acknowledged, incoming_reliable_acknowledged,
                  outgoing_sequence, reliable_sequence, last_reliable_sequence,
                  reliable_buf, network, sealed, delivered, fragment_pending,
                  fragment_out, assembled>>
  BY <1>1 DEF WriteMessage, sequenceVars, ackVars, fragmentVars
<1>3. Acknowledgements(d)' = Acknowledgements(d)
  BY <1>2 DEF Acknowledgements
<1>4. QueueInv(d)'
  <2>1. CASE d = e
    <3> DEFINE id == written[e] + 1
               K == Reliable(e)
    <3>1. /\ written[e] \in Nat /\ MaxWritten[e] \in Nat
          /\ written[e] < MaxWritten[e]
      BY <1>1, FieldTypes, BoundAssumption DEF WriteMessage
    <3>2. id \in K /\ id <= MaxWritten[e]
      BY <3>1 DEF Reliable
    <3>3. /\ written'[e] = id
          /\ message'[e] = <<id>> \/ message'[e] = Append(message[e], id)
      BY <1>1 DEF WriteMessage, TypeOK
    <3>4. message[e] \in Seq(K)
      BY <1>1, <2>1 DEF QueueInv
    <3>5. message'[e] \in Seq(K)
      <4> HIDE DEF K, id
      <4>1. <<id>> \in Seq(K) /\ Append(message[e], id) \in Seq(K)
        BY <3>2, <3>4
      <4> QED
        BY <3>3, <4>1
    <3> QED
      BY <1>1, <1>2, <2>1, <3>2, <3>3, <3>5 DEF QueueInv, Reliable
  <2>2. CASE d # e
    <3>1. message'[d] = message[d] /\ written'[d] = written[d]
      BY <1>1, <2>2 DEF WriteMessage, TypeOK
    <3> QED
      BY <1>1, <1>2, <3>1 DEF QueueInv, Reliable
  <2> QED
    BY <2>1, <2>2
<1> QED
  BY <1>2, <1>3, <1>4, RelOther

LEMMA RelInit == Init => RInv
<1> SUFFICES ASSUME Init, NEW e \in Ends PROVE ReliableInv(e)
  BY InvInit DEF RInv
<1>1. \A x \in Acknowledgements(e) : x = <<0, 0>>
  BY PeerFacts DEF Init, ChanInit, Acknowledgements
<1>2. /\ network[e] = {} /\ Peer(e) \in Ends
      /\ incoming_sequence[Peer(e)] = 0
      /\ incoming_reliable_sequence[Peer(e)] = 0
      /\ outgoing_sequence[e] = 1
      /\ last_reliable_sequence[e] = 0
      /\ reliable_sequence[e] = 0
      /\ incoming_reliable_acknowledged[e] = 0
      /\ sealed[e] = delivered[e] /\ fragment_pending[e] = FALSE
      /\ message[e] = <<>> /\ reliable_buf[e] = <<>> /\ written[e] = 0
  BY PeerFacts DEF Init, ChanInit
<1>3. QueueInv(e)
  <2>1. MaxWritten[e] \in Nat /\ <<>> \in Seq(Reliable(e))
    BY BoundAssumption
  <2> QED
    BY <1>2, <2>1 DEF QueueInv
<1>4. LastReliableInv(e) /\ OneReliableInFlight(e)
  BY <1>2 DEF LastReliableInv, OneReliableInFlight
<1>5. LateAckIsCurrent(e) /\ AckStays(e)
  BY <1>1, <1>2 DEF LateAckIsCurrent, AckStays
<1>6. FreeIsAcknowledged(e) /\ BitsTellDelivery(e)
  BY <1>2 DEF FreeIsAcknowledged, BitsTellDelivery
<1> QED
  BY <1>3, <1>4, <1>5, <1>6 DEF ReliableInv

LEMMA RelBeginBoth ==
    ASSUME RInv, DatagramsFit, NEW e \in Ends, NEW rel, NEW send, NEW len,
           Begins(e, rel, send, len), BeginsReliable(e, rel)
    PROVE  \A d \in Ends : ReliableInv(d)'
<1>1. TypeOK /\ Peer(e) \in Ends /\ Peer(e) # e
  BY PeerFacts DEF RInv, IInv
<1>2. PICK p, m : BeginStep(e, p, m, rel, send, len)
  BY BeginsStep DEF RInv
<1>3. /\ reliable_buf'[Peer(e)] = reliable_buf[Peer(e)]
      /\ reliable_sequence'[Peer(e)] = reliable_sequence[Peer(e)]
      /\ sealed'[Peer(e)] = sealed[Peer(e)]
  BY <1>1 DEF Begins, SealBatch, TypeOK
<1>4. /\ last_reliable_sequence'[Peer(e)] = last_reliable_sequence[Peer(e)]
      /\ SendStep(e, p, m)
  BY <1>1, <1>2 DEF BeginStep, TypeOK
<1>5. written' = written /\ message'[Peer(e)] = message[Peer(e)]
  BY DEF Begins, BeginsReliable
<1>6. ReliableInv(Peer(e))'
  BY <1>3, <1>4, <1>5, RelSendIn
<1> QED
  BY <1>6, RelBegin, PeerFacts

LEMMA RelNext == DatagramsFit /\ RInv /\ [Next]_vars => RInv'
<1> SUFFICES ASSUME DatagramsFit, RInv, [Next]_vars
             PROVE  \A d \in Ends : ReliableInv(d)'
  BY InvNext DEF RInv
<1>1. IInv
  BY DEF RInv
<1>2. CASE UNCHANGED vars
  <2>1. UNCHANGED <<incoming_sequence, incoming_reliable_sequence,
                    incoming_acknowledged, incoming_reliable_acknowledged,
                    outgoing_sequence, reliable_sequence, last_reliable_sequence,
                    reliable_buf, network, sealed, delivered, fragment_pending,
                    fragment_out, assembled, message, written>>
    BY <1>2 DEF vars, chanVars, sequenceVars, ackVars, fragmentVars
  <2>2. ASSUME NEW d \in Ends
        PROVE  Acknowledgements(d)' = Acknowledgements(d) /\ QueueInv(d)'
    <3>1. QueueInv(d)
      BY DEF RInv, ReliableInv
    <3> QED
      BY <2>1, <3>1 DEF Acknowledgements, QueueInv, Reliable
  <2> QED
    BY <2>1, <2>2, RelOther
<1>3. ASSUME NEW e \in Ends, Write(e) PROVE \A d \in Ends : ReliableInv(d)'
  BY <1>3, RelWrite
<1>4. ASSUME NEW e \in Ends,
             \/ \E len \in UnreliableLengths : Transmit(e, len)
             \/ \E n \in 1 .. MessageMax : TransmitQueuedReliablePrefix(e, n)
             \/ TransmitIsolatedReliable(e)
      PROVE  \A d \in Ends : ReliableInv(d)'
  BY <1>4, BeginsFromQueue, RelBeginBoth
<1>5. ASSUME NEW e \in Ends, TransmitNextFragment(e)
      PROVE  \A d \in Ends : ReliableInv(d)'
  <2>1. PICK p : SendStep(e, p, fragment_out[e])
    BY <1>1, <1>5, NextFragmentStep
  <2>2. UNCHANGED <<reliable_sequence, last_reliable_sequence, reliable_buf,
                    message, written, sealed>>
    BY <1>1, <1>5, NextFragmentStep
  <2>3. ReliableInv(Peer(e))'
    BY <2>1, <2>2, RelSendIn
  <2> QED
    BY <1>5, <2>3, RelFragment, PeerFacts
<1>6. ASSUME NEW e \in Ends, NEW p \in network[Peer(e)], Process(e, p)
      PROVE  \A d \in Ends : ReliableInv(d)'
  <2>1. CASE Reads(e, p)
    BY <2>1, RelReadOut, RelReadIn, PeerFacts
  <2>2. ~ DropFuture(e, p)
    BY <1>1, AckIsHonest DEF DropFuture, RejectAcknowledgement
  <2> QED
    BY <1>1, <1>2, <1>6, <2>1, <2>2, AcceptReads DEF Process, DropStale
<1> QED
  BY <1>2, <1>3, <1>4, <1>5, <1>6 DEF Next

THEOREM ReliableInvariantHolds == ASSUME DatagramsFit PROVE Spec => []RInv
<1>1. Init => RInv
  BY RelInit
<1>2. RInv /\ [Next]_vars => RInv'
  BY RelNext
<1> QED
  BY <1>1, <1>2, PTL DEF Spec

\* ReliableInOrderOnce: when no datagram is longer than a packet, the NEW
\* channel hands over reliable messages in order, once, and forgets none,
\* batches that are cut into fragments included.
THEOREM ReliableDelivery ==
    ASSUME DatagramsFit PROVE Spec => []ReliableInOrderOnce
<1>1. RInv => ReliableInOrderOnce
  BY DEF RInv, ReliableInv, BitsTellDelivery, ReliableInOrderOnce
<1> QED
  BY <1>1, ReliableInvariantHolds, PTL

-----------------------------------------------------------------------------
(***************************************************************************)
(* The abstract channel.                                                   *)
(***************************************************************************)
LEMMA ConcatEmpty == ASSUME NEW s \in Seq(Int) PROVE s \o <<>> = s
  OBVIOUS

LEMMA ConcatExtends ==
    ASSUME NEW s \in Seq(Int), NEW t \in Seq(Int), t # <<>>
    PROVE  /\ Len(s \o t) = Len(s) + Len(t)
           /\ Len(s \o t) > Len(s)
           /\ SubSeq(s \o t, 1, Len(s)) = s
           /\ s \o t # s
<1>1. Len(t) > 0 /\ Len(t) \in Nat /\ Len(s) \in Nat
  OBVIOUS
<1>2. Len(s \o t) = Len(s) + Len(t) /\ s \o t \in Seq(Int)
  OBVIOUS
<1>3. Len(s \o t) > Len(s)
  BY <1>1, <1>2
<1>4. SubSeq(s \o t, 1, Len(s)) = s
  OBVIOUS
<1>5. Len(s \o t) # Len(s)
  BY <1>1, <1>2
<1> QED
  BY <1>2, <1>3, <1>4, <1>5

\* A direction of which nothing the abstract channel sees has changed.
LEMMA DirectionIdle ==
    ASSUME NEW e \in Ends, sealed'[e] = sealed[e], delivered'[e] = delivered[e],
           reliable_buf'[e] = reliable_buf[e]
    PROVE  Channel!Idle(e)
  BY DEF Channel!Idle

\* A batch is sealed only when the buffer is free, and then it is accepted.
LEMMA RefineBegin ==
    ASSUME RInv, NEW e \in Ends, NEW rel, NEW send, NEW len,
           Begins(e, rel, send, len)
    PROVE  \A x \in Ends : Channel!Accept(x) \/ Channel!Idle(x)
<1>1. TypeOK /\ Peer(e) \in Ends /\ Peer(e) # e /\ rel \in Seq(Int)
  BY PeerFacts DEF RInv, IInv, Begins
<1>2. delivered' = delivered
  BY DEF Begins, SendMessage
<1>3. CASE SealBatch(e, rel) /\ reliable_buf[e] = <<>> /\ rel # <<>>
  <2>1. /\ reliable_buf'[e] = rel
        /\ sealed'[e] = sealed[e] \o rel
        /\ reliable_buf'[Peer(e)] = reliable_buf[Peer(e)]
        /\ sealed'[Peer(e)] = sealed[Peer(e)]
    BY <1>1, <1>3 DEF SealBatch, TypeOK
  <2>2. sealed[e] \in Seq(Int)
    BY <1>1, FieldTypes
  <2>3. /\ Len(sealed'[e]) = Len(sealed[e]) + Len(rel)
        /\ Len(sealed'[e]) > Len(sealed[e])
        /\ SubSeq(sealed'[e], 1, Len(sealed[e])) = sealed[e]
    BY <1>1, <1>3, <2>1, <2>2, ConcatExtends
  <2>4. Channel!Extends(sealed'[e], sealed[e])
    BY <2>3 DEF Channel!Extends
  <2>5. /\ Len(sealed[e]) - Len(reliable_buf[e]) = Len(sealed[e])
        /\ Len(sealed'[e]) - Len(reliable_buf'[e]) = Len(sealed[e])
    BY <1>1, <1>3, <2>1, <2>2, <2>3
  <2>6. Channel!Accept(e)
    BY <1>2, <1>3, <2>4, <2>5 DEF Channel!Accept
  <2>7. Channel!Idle(Peer(e))
    BY <1>1, <1>2, <2>1, DirectionIdle
  <2> QED
    BY <2>6, <2>7, PeerFacts
<1>4. CASE UNCHANGED <<reliable_buf, reliable_sequence, sealed>>
  BY <1>2, <1>4, DirectionIdle
<1> QED
  BY <1>3, <1>4 DEF Begins

\* Reading a packet may release the reader's own batch ...
LEMMA RefineReadOut ==
    ASSUME RInv, NEW e \in Ends, NEW p \in network[Peer(e)], Reads(e, p)
    PROVE  Channel!Release(e) \/ Channel!Idle(e)
<1>1. TypeOK /\ IInv /\ ReliableInv(e)' /\ Peer(e) \in Ends /\ Peer(e) # e
  BY PeerFacts, RelReadOut DEF RInv, IInv
<1>2. sealed' = sealed /\ delivered'[e] = delivered[e]
  BY <1>1, ReadLeaves
<1>3. reliable_buf'[e] = reliable_buf[e] \/ reliable_buf'[e] = <<>>
  <2>1. ProcessAcknowledgement(e, p)
    BY DEF Reads
  <2>2. \/ reliable_buf' = [reliable_buf EXCEPT ![e] = <<>>]
        \/ reliable_buf' = reliable_buf
    BY <1>1, <2>1, AckEffect DEF StoresAck
  <2> QED
    BY <1>1, <2>2 DEF TypeOK
<1>4. CASE reliable_buf'[e] = reliable_buf[e]
  BY <1>2, <1>4, DirectionIdle
<1>5. CASE reliable_buf'[e] = <<>> /\ reliable_buf[e] # <<>>
  <2>1. sealed[e] = delivered[e]
    BY <1>1, <1>2, <1>5 DEF ReliableInv, BitsTellDelivery
  <2>2. sealed[e] \in Seq(Int) /\ reliable_buf[e] \in Seq(Int)
    BY <1>1, FieldTypes
  <2>3. Len(sealed[e]) - Len(reliable_buf[e]) # Len(sealed[e])
    <3>1. Len(reliable_buf[e]) \in Nat /\ Len(sealed[e]) \in Nat
      BY <2>2
    <3>2. Len(reliable_buf[e]) # 0
      BY <1>5, <2>2
    <3>3. \A m, n \in Nat : n # 0 => m - n # m
      OBVIOUS
    <3> QED
      BY <3>1, <3>2, <3>3
  <2>4. Len(sealed'[e]) - Len(reliable_buf'[e]) = Len(sealed[e])
    BY <1>2, <1>5, <2>2
  <2> QED
    BY <1>2, <2>1, <2>3, <2>4 DEF Channel!Release
<1> QED
  BY <1>3, <1>4, <1>5

\* ... and deliver the batch the message holds.
LEMMA RefineReadIn ==
    ASSUME RInv, NEW e \in Ends, NEW p \in network[Peer(e)], Reads(e, p)
    PROVE  Channel!Deliver(Peer(e)) \/ Channel!Idle(Peer(e))
<1> DEFINE d == Peer(e)
           units == ReliableUnits(d, assembled[d][p.sequence])
<1>1. TypeOK /\ IInv /\ ReliableInv(d) /\ d \in Ends /\ d # e /\ Peer(d) = e
  BY PeerFacts DEF RInv, IInv
<1>2. /\ p.sequence > incoming_sequence[e] /\ sealed' = sealed
      /\ reliable_buf'[d] = reliable_buf[d]
  BY <1>1, ReadLeaves DEF Reads
<1>3. delivered[d] \in Seq(Int) /\ reliable_buf[d] \in Seq(Int)
      /\ p.reliable \in BOOLEAN
  BY <1>1, FieldTypes, PacketTypes
<1>4. CASE NotYet
  BY <1>1, <1>2, <1>4, DirectionIdle DEF NotYet
<1>5. CASE ~ p.more /\ Consume(e, p, assembled[d][p.sequence])
  <2>1. delivered'[d] = delivered[d] \o units
    BY <1>1, <1>5 DEF Consume, TypeOK
  <2>2. /\ ~ p.reliable => units = <<>>
        /\ p.reliable => units = reliable_buf[d] /\ BatchUnread(d)
    BY <1>1, <1>2, <1>5 DEF ReliableInv, OneReliableInFlight
  <2> HIDE DEF units
  <2>3. CASE p.reliable
    <3>1. reliable_buf[d] # <<>> /\ sealed[d] = delivered[d] \o reliable_buf[d]
      BY <1>1, <2>2, <2>3 DEF ReliableInv, BitsTellDelivery, BatchUnread
    <3>2. delivered[d] # sealed[d]
      BY <1>3, <3>1, ConcatExtends
    <3>3. Channel!Deliver(d)
      <4>1. delivered'[d] = sealed[d]
        BY <2>1, <2>2, <2>3, <3>1
      <4> QED
        BY <1>1, <1>2, <3>2, <4>1 DEF Channel!Deliver
    <3> QED
      BY <3>3
  <2>4. CASE ~ p.reliable
    <3>1. delivered'[d] = delivered[d]
      BY <1>3, <2>1, <2>2, <2>4, ConcatEmpty
    <3> QED
      BY <1>1, <1>2, <3>1, DirectionIdle
  <2> QED
    BY <2>3, <2>4
<1> QED
  BY <1>4, <1>5 DEF Reads

LEMMA RefineInit == Init => Channel!Init
  BY DEF Init, ChanInit, Channel!Init

LEMMA RefineNext == RInv /\ [Next]_vars => [Channel!Next]_(Channel!vars)
<1> SUFFICES ASSUME RInv, [Next]_vars
             PROVE  Channel!Next \/ UNCHANGED Channel!vars
  BY DEF Channel!vars
<1>1. ASSUME UNCHANGED <<sealed, delivered, reliable_buf>>
      PROVE  UNCHANGED Channel!vars
  BY <1>1 DEF Channel!vars
<1>2. CASE UNCHANGED vars
  BY <1>1, <1>2 DEF vars, chanVars
<1>3. ASSUME NEW e \in Ends, Write(e) PROVE UNCHANGED Channel!vars
  BY <1>1, <1>3 DEF Write, WriteMessage
<1>4. ASSUME NEW e \in Ends, NEW rel, NEW send, NEW len,
             Begins(e, rel, send, len)
      PROVE  Channel!Next
  BY <1>4, RefineBegin DEF Channel!Next
<1>5. ASSUME NEW e \in Ends, TransmitNextFragment(e)
      PROVE  UNCHANGED Channel!vars
  BY <1>1, <1>5 DEF TransmitNextFragment
<1>6. ASSUME NEW e \in Ends, NEW p \in network[Peer(e)], Reads(e, p)
      PROVE  Channel!Next
  BY <1>6, RefineReadOut, RefineReadIn, PeerFacts DEF Channel!Next
<1> QED
  BY <1>2, <1>3, <1>4, <1>5, <1>6, NextCases DEF RInv

\* ImplementsChannel: when no datagram is longer than a packet, every
\* behaviour of the NEW channel is one of the abstract reliable channel, in
\* the batches the server chooses, prefixes and isolated messages included.
THEOREM NewImplementsChannel ==
    ASSUME DatagramsFit PROVE Spec => ImplementsChannel
<1>1. Init => Channel!Init
  BY RefineInit
<1>2. RInv /\ [Next]_vars => [Channel!Next]_(Channel!vars)
  BY RefineNext
<1> QED
  BY <1>1, <1>2, ReliableInvariantHolds, PTL
     DEF Spec, ImplementsChannel, Channel!Spec

-----------------------------------------------------------------------------
(***************************************************************************)
(* Acknowledgements are owed until sent: among the newest packets of an    *)
(* end (the fragments of a message share a sequence) is one that tells the *)
(* bit of what it has read, or it has one to send.                         *)
(***************************************************************************)
OwedBy(e) ==
    \/ \E p \in LastSent(e) : p.rack = incoming_reliable_sequence[e]
    \/ network[e] = {} /\ incoming_reliable_sequence[e] = 0
    \/ reliable_ack_pending[e]

LEMMA OwedUnchanged ==
    ASSUME NEW e \in Ends, OwedBy(e), network'[e] = network[e],
           incoming_reliable_sequence'[e] = incoming_reliable_sequence[e],
           reliable_ack_pending'[e] = reliable_ack_pending[e]
    PROVE  OwedBy(e)'
<1>1. LastSent(e)' = LastSent(e)
  BY DEF LastSent
<1> QED
  BY <1>1 DEF OwedBy

LEMMA OwedSend ==
    ASSUME IInv, NEW e \in Ends, NEW p, NEW m, SendStep(e, p, m)
    PROVE  OwedBy(e)'
<1>1. TypeOK /\ CopiesInv(e) /\ SendingInv(e)
  BY DEF IInv, DirectionInv
<1>2. /\ p.sequence = outgoing_sequence[e]
      /\ p.rack = incoming_reliable_sequence[e]
      /\ network'[e] = network[e] \cup {p}
      /\ incoming_reliable_sequence' = incoming_reliable_sequence
  BY <1>1 DEF SendStep, Emits, TypeOK
<1>3. /\ outgoing_sequence[e] \in Nat
      /\ Len(assembled[e]) <= outgoing_sequence[e]
      /\ Len(assembled[e]) \in Nat
  <2>1. /\ outgoing_sequence[e] \in Nat /\ fragment_pending[e] \in BOOLEAN
        /\ Len(assembled[e]) \in Nat
    BY <1>1, FieldTypes
  <2> QED
    BY <1>1, <2>1 DEF SendingInv
<1>4. \A q \in network[e] : q.sequence <= outgoing_sequence[e]
  BY <1>1, <1>3 DEF CopiesInv
<1>5. \A q \in network'[e] : q.sequence <= p.sequence
  BY <1>2, <1>3, <1>4
<1> QED
  BY <1>2, <1>5 DEF OwedBy, LastSent

LEMMA OwedRead ==
    ASSUME TypeOK, NEW e \in Ends, OwedBy(e), NEW p, Reads(e, p)
    PROVE  OwedBy(e)'
<1>1. network' = network
  BY DEF Reads, sendingVars
<1>2. CASE NotYet
  BY <1>1, <1>2, OwedUnchanged DEF NotYet, sequenceVars
<1>3. ASSUME NEW units, Consume(e, p, units) PROVE OwedBy(e)'
  <2>1. CASE p.reliable
    BY <1>3, <2>1 DEF Consume, OwedBy, TypeOK
  <2>2. CASE ~ p.reliable
    BY <1>1, <1>3, <2>2, OwedUnchanged DEF Consume
  <2> QED
    BY <2>1, <2>2
<1> QED
  BY <1>2, <1>3 DEF Reads

\* Nobody else touches what an end owes.
LEMMA OwedOther ==
    ASSUME TypeOK, NEW e \in Ends, NEW x \in Ends, x # e, OwedBy(e),
           \/ \E rel, send, len : Begins(x, rel, send, len)
           \/ TransmitNextFragment(x)
           \/ \E p : Reads(x, p)
    PROVE  OwedBy(e)'
<1> DEFINE Same == /\ network'[e] = network[e]
                   /\ incoming_reliable_sequence'[e]
                          = incoming_reliable_sequence[e]
                   /\ reliable_ack_pending'[e] = reliable_ack_pending[e]
<1>1. ASSUME NEW out, NEW from, NEW rel, SendFragment(x, out, from, rel)
      PROVE  /\ network'[e] = network[e]
             /\ reliable_ack_pending'[e] = reliable_ack_pending[e]
  BY <1>1 DEF SendFragment, TypeOK
<1>2. ASSUME NEW rel, NEW send, NEW len, Begins(x, rel, send, len)
      PROVE  Same
  <2>1. SendMessage(x, rel, send, len)
    BY <1>2 DEF Begins
  <2>2. incoming_reliable_sequence' = incoming_reliable_sequence
    BY <2>1 DEF SendMessage, sequenceVars
  <2>3. /\ network'[e] = network[e]
        /\ reliable_ack_pending'[e] = reliable_ack_pending[e]
    <3>1. \/ \E out : SendFragment(x, out, 0, rel)
          \/ /\ \E q : network' = [network EXCEPT ![x] = @ \cup {q}]
             /\ reliable_ack_pending' =
                    [reliable_ack_pending EXCEPT ![x] = FALSE]
      BY <2>1 DEF SendMessage
    <3> QED
      BY <1>1, <3>1 DEF TypeOK
  <2> QED
    BY <2>2, <2>3
<1>3. CASE TransmitNextFragment(x)
  <2>1. incoming_reliable_sequence' = incoming_reliable_sequence
    BY <1>3 DEF TransmitNextFragment, sequenceVars
  <2>2. Same
    BY <1>1, <1>3, <2>1 DEF TransmitNextFragment
  <2> QED
    BY <2>2, OwedUnchanged
<1>4. ASSUME NEW p, Reads(x, p) PROVE Same
  <2>1. network' = network
    BY <1>4 DEF Reads, sendingVars
  <2>2. CASE NotYet
    BY <2>1, <2>2 DEF NotYet, sequenceVars
  <2>3. ASSUME NEW units, Consume(x, p, units) PROVE Same
    <3>1. CASE p.reliable
      BY <2>1, <2>3, <3>1 DEF Consume, TypeOK
    <3>2. CASE ~ p.reliable
      BY <2>1, <2>3, <3>2 DEF Consume
    <3> QED
      BY <3>1, <3>2
  <2> QED
    BY <1>4, <2>2, <2>3 DEF Reads
<1> QED
  BY <1>2, <1>3, <1>4, OwedUnchanged

LEMMA OwedNext ==
    IInv /\ AcknowledgementOwed /\ [Next]_vars => AcknowledgementOwed'
<1> SUFFICES ASSUME IInv, AcknowledgementOwed, [Next]_vars, NEW e \in Ends
             PROVE  OwedBy(e)'
  BY DEF AcknowledgementOwed, OwedBy
<1>1. TypeOK /\ OwedBy(e)
  BY DEF IInv, AcknowledgementOwed, OwedBy
<1>2. CASE UNCHANGED vars
  BY <1>1, <1>2, OwedUnchanged DEF vars, chanVars, sequenceVars
<1>3. ASSUME NEW x \in Ends, Write(x) PROVE OwedBy(e)'
  BY <1>1, <1>3, OwedUnchanged DEF Write, WriteMessage, sequenceVars
<1>4. ASSUME NEW rel, NEW send, NEW len, Begins(e, rel, send, len)
      PROVE  OwedBy(e)'
  <2>1. PICK p, m : BeginStep(e, p, m, rel, send, len)
    BY <1>4, BeginsStep
  <2> QED
    BY <2>1, OwedSend DEF BeginStep
<1>5. CASE TransmitNextFragment(e)
  BY <1>5, NextFragmentStep, OwedSend
<1>6. ASSUME NEW p, Reads(e, p) PROVE OwedBy(e)'
  BY <1>1, <1>6, OwedRead
<1>7. ASSUME NEW x \in Ends,
             \/ \E rel, send, len : Begins(x, rel, send, len)
             \/ TransmitNextFragment(x)
             \/ \E p : Reads(x, p)
      PROVE  OwedBy(e)'
  <2>1. CASE x = e
    BY <1>4, <1>5, <1>6, <1>7, <2>1
  <2>2. CASE x # e
    BY <1>1, <1>7, <2>2, OwedOther
  <2> QED
    BY <2>1, <2>2
<1>8. CASE Next
  BY <1>2, <1>3, <1>7, <1>8, NextCases
<1> QED
  BY <1>2, <1>8

\* AcknowledgementOwed: an end of the NEW channel that has not told its peer
\* of the newest batch has the acknowledgement pending, also after fragments,
\* which tell of it but do not clear reliable_ack_pending.
THEOREM AcknowledgementIsOwed == Spec => []AcknowledgementOwed
<1>1. Init => AcknowledgementOwed
  BY DEF Init, ChanInit, AcknowledgementOwed
<1> QED
  BY <1>1, OwedNext, InvariantHolds, PTL DEF Spec

-----------------------------------------------------------------------------
(***************************************************************************)
(* The channels as the two main loops drive them: every step of NetchanLive*)
(* is one of NetchanNew or changes nothing of it, for what is on its way   *)
(* was sent.                                                               *)
(***************************************************************************)
InFlightInv ==
    /\ DOMAIN inflight = Ends
    /\ \A e \in Ends : inflight[e] \in Seq(network[e])

LEMMA SetAsSequence ==
    ASSUME NEW S, IsFiniteSet(S)
    PROVE  SetToSeq(S) \in Seq(S)
<1>1. Cardinality(S) \in Nat /\ ExistsBijection(1 .. Cardinality(S), S)
  BY FS_CardinalityType
<1>2. \E f \in [1 .. Cardinality(S) -> S] : IsInjective(f)
  BY <1>1 DEF ExistsBijection, Bijection, Injection
<1>3. SetToSeq(S) \in [1 .. Cardinality(S) -> S]
  BY <1>2 DEF SetToSeq
<1> QED
  BY <1>1, <1>3

\* A packet taken out of a sequence leaves packets of the same set.
LEMMA RemovedStays ==
    ASSUME NEW S, NEW s \in Seq(S), NEW i \in 1 .. Len(s)
    PROVE  RemoveAt(s, i) \in Seq(S)
<1>1. Len(s) \in Nat /\ i \in Nat /\ i - 1 \in 0 .. Len(s)
  OBVIOUS
<1>2. SubSeq(s, 1, i - 1) \in Seq(S) /\ SubSeq(s, i + 1, Len(s)) \in Seq(S)
  BY <1>1
<1> QED
  BY <1>2 DEF RemoveAt

LEMMA LargerSequence ==
    ASSUME NEW S, NEW T, S \subseteq T, NEW s \in Seq(S)
    PROVE  s \in Seq(T)
  OBVIOUS

\* A transmission sends one packet.
LEMMA OnePacketSent ==
    ASSUME TypeOK, NEW e \in Ends,
           TransmitNextFragment(e) \/ Transmit(e, 0)
    PROVE  \E q : network' = [network EXCEPT ![e] = @ \cup {q}]
<1>1. ASSUME NEW out, NEW from, NEW rel, SendFragment(e, out, from, rel)
      PROVE  \E q : network' = [network EXCEPT ![e] = @ \cup {q}]
  BY <1>1 DEF SendFragment
<1>2. ASSUME NEW rel, NEW send, SendMessage(e, rel, send, 0)
      PROVE  \E q : network' = [network EXCEPT ![e] = @ \cup {q}]
  BY <1>1, <1>2 DEF SendMessage
<1> QED
  BY <1>1, <1>2 DEF TransmitNextFragment, Transmit

LEMMA LiveTransmit ==
    ASSUME IInv, InFlightInv, NEW e \in Ends, TransmitNothing(e)
    PROVE  Next /\ InFlightInv'
<1>1. TransmitNextFragment(e) \/ Transmit(e, 0)
  BY DEF TransmitNothing
<1>2. Next
  BY <1>1, LengthAssumption DEF Next
<1>3. PICK q : network' = [network EXCEPT ![e] = @ \cup {q}]
  BY <1>1, OnePacketSent DEF IInv
<1>4. DOMAIN network = Ends
  BY DEF IInv, TypeOK
<1> DEFINE sent == network'[e] \ network[e]
<1>5. /\ network[e] \subseteq network'[e]
      /\ sent \subseteq {q}
      /\ sent \subseteq network'[e]
      /\ \A x \in Ends : x # e => network'[x] = network[x]
  BY <1>3, <1>4
<1>6. IsFiniteSet(sent)
  <2>1. IsFiniteSet({q}) /\ sent \in SUBSET {q}
    BY <1>5, FS_Singleton
  <2> HIDE DEF sent
  <2> QED
    BY <2>1, FS_Subset
<1>7. SetToSeq(sent) \in Seq(network'[e])
  BY <1>5, <1>6, SetAsSequence, LargerSequence
<1>8. inflight[e] \in Seq(network'[e])
  BY <1>5, LargerSequence DEF InFlightInv
<1>9. inflight' = [inflight EXCEPT ![e] = @ \o SetToSeq(sent)]
  BY DEF TransmitNothing
<1> HIDE DEF sent
<1>10. inflight[e] \o SetToSeq(sent) \in Seq(network'[e])
  BY <1>7, <1>8, ConcatProperties
<1> QED
  BY <1>2, <1>5, <1>9, <1>10 DEF InFlightInv

LEMMA ProcessSends ==
    ASSUME NEW e, NEW p, Process(e, p)
    PROVE  network' = network
  BY DEF Process, AcceptWhole, AcceptFragment, DropStale, DropFuture,
         sendingVars, vars, chanVars

LEMMA LiveArrive ==
    ASSUME IInv, InFlightInv, NEW e \in Ends, Arrive(e)
    PROVE  Next /\ InFlightInv'
<1> DEFINE d == Peer(e)
<1>1. d \in Ends
  BY PeerFacts
<1>2. inflight[d] \in Seq(network[d]) /\ inflight[d] # <<>>
  BY <1>1 DEF InFlightInv, Arrive
<1>3. Head(inflight[d]) \in network[d] /\ Tail(inflight[d]) \in Seq(network[d])
  BY <1>2, HeadTailProperties
<1>4. Process(e, Head(inflight[d]))
  BY DEF Arrive
<1>5. Next
  BY <1>3, <1>4 DEF Next
<1>6. network' = network
  BY <1>4, ProcessSends
<1> QED
  BY <1>1, <1>3, <1>5, <1>6 DEF InFlightInv, Arrive

LEMMA LiveMisbehave ==
    ASSUME IInv, InFlightInv, NEW e \in Ends, Misbehave(e)
    PROVE  (Next \/ UNCHANGED vars) /\ InFlightInv'
<1> DEFINE d == Peer(e)
<1>1. d \in Ends
  BY PeerFacts
<1>2. PICK i \in 1 .. Len(inflight[d]) :
          /\ inflight' = [inflight EXCEPT ![d] = RemoveAt(@, i)]
          /\ Process(e, inflight[d][i]) \/ UNCHANGED vars
  BY DEF Misbehave
<1>3. inflight[d] \in Seq(network[d])
  BY <1>1 DEF InFlightInv
<1>4. inflight[d][i] \in network[d] /\ RemoveAt(inflight[d], i) \in Seq(network[d])
  BY <1>3, RemovedStays
<1>5. Next \/ UNCHANGED vars
  BY <1>2, <1>4 DEF Next
<1>6. network' = network
  BY <1>2, ProcessSends DEF vars, chanVars
<1> QED
  BY <1>1, <1>2, <1>4, <1>5, <1>6 DEF InFlightInv

LEMMA LiveStep ==
    IInv /\ InFlightInv /\ [LiveNext]_liveVars => [Next]_vars /\ InFlightInv'
<1> SUFFICES ASSUME IInv, InFlightInv, [LiveNext]_liveVars
             PROVE  (Next \/ UNCHANGED vars) /\ InFlightInv'
  OBVIOUS
<1>1. ASSUME UNCHANGED <<network, inflight>>
      PROVE  InFlightInv'
  BY <1>1 DEF InFlightInv
<1>2. CASE UNCHANGED liveVars
  BY <1>1, <1>2 DEF liveVars, vars, chanVars
<1>3. CASE SendAsyncPackets \/ SendKeepAlive
  BY <1>3, LiveTransmit DEF SendAsyncPackets, SendKeepAlive, Ends
<1>4. CASE SecondPasses
  BY <1>1, <1>4 DEF SecondPasses, vars, chanVars
<1>5. ASSUME NEW e \in Ends, WriteReliable(e)
      PROVE  Next /\ InFlightInv'
  BY <1>1, <1>5 DEF WriteReliable, Next, Write, WriteMessage
<1> QED
  BY <1>2, <1>3, <1>4, <1>5, LiveArrive, LiveMisbehave DEF LiveNext

\* The main loops drive the channel only in ways the channel allows: what is
\* proved of every behaviour of NetchanNew is true of SV_SendAsyncPackets and
\* the client's keep-alives over a network that keeps packets in order, loses
\* some and lets others overtake.
THEOREM LoopsUseChannel == LiveSpec => Spec
<1>1. LiveInit => Init /\ IInv /\ InFlightInv
  <2>1. LiveInit => Init /\ IInv
    BY InvInit DEF LiveInit
  <2>2. LiveInit => InFlightInv
    BY DEF LiveInit, Init, ChanInit, InFlightInv
  <2> QED
    BY <2>1, <2>2
<1>2. IInv /\ InFlightInv /\ [LiveNext]_liveVars
          => [Next]_vars /\ IInv' /\ InFlightInv'
  BY LiveStep, InvNext
<1> QED
  BY <1>1, <1>2, PTL DEF LiveSpec, Spec

=============================================================================
