-------------------------- MODULE NetchanOldProofs --------------------------
(***************************************************************************)
(* Proofs about NetchanOld, for every capacity and bound.                  *)
(***************************************************************************)
EXTENDS NetchanOld, TLAPS

\* The two ends are each other's peers.
LEMMA PeerFacts ==
    ASSUME NEW e \in Ends
    PROVE  /\ Peer(e) \in Ends
           /\ Peer(e) # e
           /\ Peer(Peer(e)) = e
           /\ \A x \in Ends : x = e \/ x = Peer(e)
  BY TwoEnds DEF Ends, Peer

\* The types of one end's values.
LEMMA FieldTypes ==
    ASSUME TypeOK, NEW e \in Ends
    PROVE  /\ incoming_sequence[e] \in Nat
           /\ outgoing_sequence[e] \in Nat
           /\ incoming_acknowledged[e] \in Nat
           /\ incoming_reliable_acknowledged[e] \in Bit
           /\ incoming_reliable_sequence[e] \in Bit
           /\ reliable_sequence[e] \in Bit
           /\ last_reliable_sequence[e] \in Nat
           /\ reliable_buf[e] \in Seq(Nat)
           /\ message[e] \in Seq(Nat)
           /\ future_acknowledgements[e] \in Nat
           /\ conflicting_acknowledgements[e] \in Nat
           /\ sealed[e] \in Seq(Nat)
           /\ delivered[e] \in Seq(Nat)
           /\ network[e] \in SUBSET Packet
  BY DEF TypeOK

LEMMA PacketTypes ==
    ASSUME NEW p \in Packet
    PROVE  /\ p.sequence \in Nat
           /\ p.reliable \in BOOLEAN
           /\ p.ack \in Nat
           /\ p.rack \in Bit
           /\ p.data \in Seq(Nat)
  BY DEF Packet

LEMMA FlipBit == ASSUME NEW b \in Bit PROVE Flip(b) \in Bit /\ Flip(b) # b
  BY DEF Bit, Flip

\* Every variable keeps its type.
LEMMA TypeInit == Init => TypeOK
  BY DEF Init, ChanInit, TypeOK, Bit

LEMMA TypeWrite ==
    ASSUME TypeOK, NEW e \in Ends, WriteMessage(e)
    PROVE  TypeOK'
  <1>1. /\ written'[e] \in Nat
        /\ message' \in [Ends -> Seq(Nat)]
    BY DEF TypeOK, WriteMessage
  <1> QED
    BY <1>1 DEF TypeOK, WriteMessage, sequenceVars, ackVars, counterVars, Packet

LEMMA TypeTransmit ==
    ASSUME TypeOK, NEW e \in Ends, Transmit(e)
    PROVE  TypeOK'
  <1>1. BatchToSend(e) \in Seq(Nat)
    BY DEF TypeOK, BatchToSend
  <1>2. SendsReliable(e) \in BOOLEAN
    BY DEF SendsReliable, CanSeal, RemoteDroppedReliable
  <1>3. NextPacket(e) \in Packet
    BY <1>1, <1>2 DEF TypeOK, NextPacket, Packet
  <1>4. /\ network' \in [Ends -> SUBSET Packet]
        /\ reliable_buf' \in [Ends -> Seq(Nat)]
    BY <1>1, <1>3 DEF TypeOK, Transmit
  <1>5. /\ message' \in [Ends -> Seq(Nat)]
        /\ sealed' \in [Ends -> Seq(Nat)]
        /\ reliable_sequence' \in [Ends -> Bit]
    <2>1. CASE CanSeal(e)
      <3>1. sealed[e] \o message[e] \in Seq(Nat)
        BY DEF TypeOK
      <3>2. <<>> \in Seq(Nat)
        OBVIOUS
      <3>3. Flip(reliable_sequence[e]) \in Bit
        BY FieldTypes, FlipBit
      <3>4. /\ message' = [message EXCEPT ![e] = <<>>]
            /\ sealed' = [sealed EXCEPT ![e] = sealed[e] \o message[e]]
            /\ reliable_sequence' =
                   [reliable_sequence EXCEPT ![e] = Flip(reliable_sequence[e])]
        BY <2>1 DEF Transmit
      <3> QED BY <3>1, <3>2, <3>3, <3>4 DEF TypeOK
    <2>2. CASE ~ CanSeal(e)
      BY <2>2 DEF TypeOK, Transmit
    <2> QED BY <2>1, <2>2
  <1>6. /\ last_reliable_sequence' \in [Ends -> Nat]
        /\ outgoing_sequence' \in [Ends -> Nat]
        /\ reliable_ack_pending' \in [Ends -> BOOLEAN]
    BY DEF TypeOK, Transmit
  <1>7. UNCHANGED <<sequenceVars, ackVars, counterVars, overflowed, written,
                    delivered>>
    BY DEF Transmit
  <1> QED
    BY <1>4, <1>5, <1>6, <1>7 DEF TypeOK, sequenceVars, ackVars, counterVars

LEMMA TypeAck ==
    ASSUME TypeOK, NEW e \in Ends, NEW p \in Packet, ProcessAcknowledgement(e, p)
    PROVE  /\ incoming_acknowledged' \in [Ends -> Nat]
           /\ incoming_reliable_acknowledged' \in [Ends -> Bit]
           /\ reliable_buf' \in [Ends -> Seq(Nat)]
           /\ future_acknowledgements' \in [Ends -> Nat]
           /\ conflicting_acknowledgements' \in [Ends -> Nat]
  <1>1. <<>> \in Seq(Nat) /\ conflicting_acknowledgements[e] + 1 \in Nat
    BY FieldTypes
  <1>2. future_acknowledgements' = future_acknowledgements
    BY DEF ProcessAcknowledgement
  <1>3. CASE AckClass(e, p) = "STALE"
    BY <1>2, <1>3 DEF ProcessAcknowledgement, TypeOK, ackVars
  <1>4. CASE AckClass(e, p) = "ACCEPTED" /\ ~ AckConsistent(e, p)
    BY <1>1, <1>2, <1>4 DEF ProcessAcknowledgement, TypeOK, ackVars
  <1>5. CASE AckClass(e, p) = "ACCEPTED" /\ AckConsistent(e, p)
    <2>1. /\ incoming_acknowledged' = [incoming_acknowledged EXCEPT ![e] = p.ack]
          /\ incoming_reliable_acknowledged' =
                 [incoming_reliable_acknowledged EXCEPT ![e] = p.rack]
          /\ \/ reliable_buf' = [reliable_buf EXCEPT ![e] = <<>>]
             \/ reliable_buf' = reliable_buf
          /\ conflicting_acknowledgements' = conflicting_acknowledgements
      BY <1>5 DEF ProcessAcknowledgement
    <2> QED BY <1>1, <1>2, <2>1, PacketTypes DEF TypeOK
  <1> QED
    BY <1>3, <1>4, <1>5 DEF ProcessAcknowledgement

LEMMA TypeAccept ==
    ASSUME TypeOK, NEW e \in Ends, NEW p \in network[Peer(e)], Accept(e, p)
    PROVE  TypeOK'
  <1>1. p \in Packet /\ Peer(e) \in Ends
    BY FieldTypes, PeerFacts
  <1>2. Flip(incoming_reliable_sequence[e]) \in Bit
    BY FieldTypes, FlipBit
  <1>3. delivered[Peer(e)] \o p.data \in Seq(Nat)
    BY <1>1, FieldTypes, PacketTypes
  <1>4. /\ incoming_sequence' = [incoming_sequence EXCEPT ![e] = p.sequence]
        /\ delivered' =
               [delivered EXCEPT ![Peer(e)] = delivered[Peer(e)] \o p.data]
        /\ \/ reliable_ack_pending' = reliable_ack_pending
           \/ reliable_ack_pending' = [reliable_ack_pending EXCEPT ![e] = TRUE]
        /\ \/ incoming_reliable_sequence' = incoming_reliable_sequence
           \/ incoming_reliable_sequence' =
                  [incoming_reliable_sequence EXCEPT
                      ![e] = Flip(incoming_reliable_sequence[e])]
    BY DEF Accept
  <1>5. /\ incoming_sequence' \in [Ends -> Nat]
        /\ delivered' \in [Ends -> Seq(Nat)]
        /\ reliable_ack_pending' \in [Ends -> BOOLEAN]
        /\ incoming_reliable_sequence' \in [Ends -> Bit]
    BY <1>1, <1>2, <1>3, <1>4, PacketTypes DEF TypeOK
  <1>6. ProcessAcknowledgement(e, p)
    BY DEF Accept
  <1>7. UNCHANGED <<outgoing_sequence, reliable_sequence, written, sealed,
                    last_reliable_sequence, message, overflowed, network>>
    BY DEF Accept
  <1> QED
    BY <1>1, <1>5, <1>6, <1>7, TypeAck DEF TypeOK

LEMMA TypeDropFuture ==
    ASSUME TypeOK, NEW e \in Ends, NEW p \in network[Peer(e)], DropFuture(e, p)
    PROVE  TypeOK'
  <1>1. future_acknowledgements[e] + 1 \in Nat
    BY FieldTypes
  <1>2. future_acknowledgements' = [future_acknowledgements EXCEPT
                                       ![e] = future_acknowledgements[e] + 1]
    BY DEF DropFuture, RejectAcknowledgement
  <1>3. future_acknowledgements' \in [Ends -> Nat]
    BY <1>1, <1>2 DEF TypeOK
  <1> QED
    BY <1>3 DEF TypeOK, DropFuture, sequenceVars, ackVars

LEMMA TypeNext == TypeOK /\ [Next]_chanVars => TypeOK'
  <1> SUFFICES ASSUME TypeOK, [Next]_chanVars PROVE TypeOK'
    OBVIOUS
  <1>1. CASE UNCHANGED chanVars
    BY <1>1 DEF TypeOK, chanVars, sequenceVars, ackVars, counterVars
  <1>2. ASSUME NEW e \in Ends, WriteMessage(e) PROVE TypeOK'
    BY <1>2, TypeWrite
  <1>3. ASSUME NEW e \in Ends, Transmit(e) PROVE TypeOK'
    BY <1>3, TypeTransmit
  <1>4. ASSUME NEW e \in Ends, NEW p \in network[Peer(e)], Process(e, p)
        PROVE  TypeOK'
    BY <1>1, <1>4, TypeAccept, TypeDropFuture DEF Process, DropStale
  <1> QED
    BY <1>1, <1>2, <1>3, <1>4 DEF Next

\* TypeOK: every variable of the OLD channel keeps its type.
THEOREM TypeCorrect == Spec => []TypeOK
  BY TypeInit, TypeNext, PTL DEF Spec

-----------------------------------------------------------------------------
\* Members of Acknowledgements are pairs of a number and a bit.
LEMMA AckTypes ==
    ASSUME TypeOK, NEW e \in Ends, NEW x \in Acknowledgements(e)
    PROVE  x[1] \in Nat /\ x[2] \in Bit
  <1>1. CASE x \in {AckOf(p) : p \in network[Peer(e)]}
    <2>1. PICK p \in network[Peer(e)] : x = AckOf(p)
      BY <1>1
    <2>2. p \in Packet
      BY FieldTypes, PeerFacts
    <2> QED BY <2>1, <2>2, PacketTypes DEF AckOf
  <1>2. CASE x = <<incoming_acknowledged[e], incoming_reliable_acknowledged[e]>>
    BY <1>2, FieldTypes
  <1>3. CASE x = <<incoming_sequence[Peer(e)],
                   incoming_reliable_sequence[Peer(e)]>>
    BY <1>3, FieldTypes, PeerFacts
  <1> QED
    BY <1>1, <1>2, <1>3 DEF Acknowledgements

\* The two stored pairs and those in packets are members.
LEMMA AckMembers ==
    ASSUME NEW e \in Ends
    PROVE  /\ \A p \in network[Peer(e)] : AckOf(p) \in Acknowledgements(e)
           /\ <<incoming_acknowledged[e], incoming_reliable_acknowledged[e]>>
                  \in Acknowledgements(e)
           /\ <<incoming_sequence[Peer(e)], incoming_reliable_sequence[Peer(e)]>>
                  \in Acknowledgements(e)
  BY DEF Acknowledgements

\* The invariant holds when both ends are set up.
LEMMA InvInit == Init => InductiveInv
  <1> SUFFICES ASSUME Init PROVE InductiveInv
    OBVIOUS
  <1>1. TypeOK /\ AcknowledgementsAgree
    BY TypeInit DEF Init, ChanInit, AcknowledgementsAgree
  <1>2. ASSUME NEW e \in Ends PROVE DirectionInv(e)
    <2>1. \A x \in Acknowledgements(e) : x = <<0, 0>>
      BY PeerFacts DEF Init, ChanInit, Acknowledgements
    <2>2. /\ network[e] = {} /\ Peer(e) \in Ends
          /\ incoming_sequence[Peer(e)] = 0
          /\ incoming_reliable_sequence[Peer(e)] = 0
          /\ outgoing_sequence[e] = 1
          /\ last_reliable_sequence[e] = 0
          /\ reliable_sequence[e] = 0
          /\ incoming_reliable_acknowledged[e] = 0
          /\ sealed[e] = delivered[e]
      BY PeerFacts DEF Init, ChanInit
    <2>3. SequencesOrdered(e)
      BY <2>1, <2>2 DEF SequencesOrdered
    <2>4. OneBitPerAck(e) /\ LateAckIsCurrent(e) /\ AckStays(e)
      BY <2>1, <2>2 DEF OneBitPerAck, LateAckIsCurrent, AckStays
    <2>5. FreeIsAcknowledged(e) /\ OneReliableInFlight(e) /\ BitsTellDelivery(e)
      BY <2>2 DEF FreeIsAcknowledged, OneReliableInFlight, BitsTellDelivery
    <2> QED
      BY <2>3, <2>4, <2>5 DEF DirectionInv
  <1> QED
    BY <1>1, <1>2 DEF InductiveInv

\* A batch lost for good is still unread: the acknowledgement that shows the
\* loss is newer than the last reliable packet.
LEMMA DroppedIsUnread ==
    ASSUME InductiveInv, NEW e \in Ends, RemoteDroppedReliable(e)
    PROVE  /\ incoming_reliable_sequence[Peer(e)] # reliable_sequence[e]
           /\ incoming_sequence[Peer(e)] > last_reliable_sequence[e]
  <1> DEFINE x == <<incoming_acknowledged[e], incoming_reliable_acknowledged[e]>>
  <1>1. x \in Acknowledgements(e)
    BY AckMembers
  <1>2. /\ x[1] <= incoming_sequence[Peer(e)]
        /\ x[1] > last_reliable_sequence[e]
               => x[2] = incoming_reliable_sequence[Peer(e)]
    BY <1>1 DEF InductiveInv, DirectionInv, SequencesOrdered, LateAckIsCurrent
  <1>3. /\ incoming_acknowledged[e] \in Nat
        /\ incoming_sequence[Peer(e)] \in Nat
        /\ last_reliable_sequence[e] \in Nat
    BY FieldTypes, PeerFacts DEF InductiveInv
  <1> QED
    BY <1>2, <1>3 DEF RemoteDroppedReliable

\* When the buffer is free every live acknowledgement has our bit, the
\* peer's own state included: all that was sealed has been read.
LEMMA FreeIsRead ==
    ASSUME InductiveInv, NEW e \in Ends, reliable_buf[e] = <<>>
    PROVE  /\ incoming_reliable_sequence[Peer(e)] = reliable_sequence[e]
           /\ sealed[e] = delivered[e]
           /\ \A y \in Acknowledgements(e) :
                  incoming_acknowledged[e] <= y[1] => y[2] = reliable_sequence[e]
  <1> DEFINE x == <<incoming_acknowledged[e], incoming_reliable_acknowledged[e]>>
  <1>1. DirectionInv(e) /\ TypeOK
    BY DEF InductiveInv
  <1>2. x \in Acknowledgements(e) /\ x[2] = reliable_sequence[e]
    BY <1>1, AckMembers DEF DirectionInv, FreeIsAcknowledged
  <1>3. incoming_acknowledged[e] \in Nat
    BY <1>1, FieldTypes
  <1> USE DEF DirectionInv
  <1>4. BitsTellDelivery(e) /\ incoming_reliable_sequence[Peer(e)] = reliable_sequence[e]
    BY <1>1 DEF BitsTellDelivery
  <1>5. ASSUME NEW y \in Acknowledgements(e), incoming_acknowledged[e] <= y[1]
        PROVE  y[2] = reliable_sequence[e]
    BY <1>1, <1>2, <1>3, <1>5 DEF AckStays
  <1> QED
    BY <1>4, <1>5 DEF BitsTellDelivery

-----------------------------------------------------------------------------
\* What a transmit of e does, value by value.
TransmitChanges(e) ==
    /\ network'[e] = network[e] \cup {NextPacket(e)}
    /\ network'[Peer(e)] = network[Peer(e)]
    /\ outgoing_sequence'[e] = outgoing_sequence[e] + 1
    /\ reliable_buf'[e] = BatchToSend(e)
    /\ UNCHANGED <<incoming_sequence, incoming_reliable_sequence,
                   incoming_acknowledged, incoming_reliable_acknowledged,
                   future_acknowledgements, conflicting_acknowledgements,
                   delivered>>
    /\ Acknowledgements(e)' = Acknowledgements(e)
    /\ CanSeal(e) =>
          /\ reliable_sequence'[e] = Flip(reliable_sequence[e])
          /\ sealed'[e] = sealed[e] \o message[e]
    /\ ~ CanSeal(e) =>
          /\ reliable_sequence'[e] = reliable_sequence[e]
          /\ sealed'[e] = sealed[e]
    /\ SendsReliable(e) => last_reliable_sequence'[e] = outgoing_sequence[e]
    /\ ~ SendsReliable(e) =>
          last_reliable_sequence'[e] = last_reliable_sequence[e]

LEMMA TransmitEffect ==
    ASSUME InductiveInv, NEW e \in Ends, Transmit(e)
    PROVE  TransmitChanges(e)
  <1>1. TypeOK /\ Peer(e) \in Ends /\ Peer(e) # e
    BY PeerFacts DEF InductiveInv
  <1>2. UNCHANGED <<incoming_sequence, incoming_reliable_sequence,
                    incoming_acknowledged, incoming_reliable_acknowledged,
                    future_acknowledgements, conflicting_acknowledgements,
                    delivered>>
    BY DEF Transmit, sequenceVars, ackVars, counterVars
  <1>3. /\ network'[e] = network[e] \cup {NextPacket(e)}
        /\ network'[Peer(e)] = network[Peer(e)]
        /\ outgoing_sequence'[e] = outgoing_sequence[e] + 1
        /\ reliable_buf'[e] = BatchToSend(e)
    BY <1>1 DEF TypeOK, Transmit
  <1>4. Acknowledgements(e)' = Acknowledgements(e)
    BY <1>2, <1>3 DEF Acknowledgements
  <1>5. /\ CanSeal(e) =>
              /\ reliable_sequence'[e] = Flip(reliable_sequence[e])
              /\ sealed'[e] = sealed[e] \o message[e]
        /\ ~ CanSeal(e) =>
              /\ reliable_sequence'[e] = reliable_sequence[e]
              /\ sealed'[e] = sealed[e]
    BY <1>1 DEF TypeOK, Transmit
  <1>6. /\ SendsReliable(e) =>
              last_reliable_sequence'[e] = outgoing_sequence[e]
        /\ ~ SendsReliable(e) =>
              last_reliable_sequence'[e] = last_reliable_sequence[e]
    BY <1>1 DEF TypeOK, Transmit
  <1> QED
    BY <1>2, <1>3, <1>4, <1>5, <1>6 DEF TransmitChanges

\* A transmit keeps the invariant of the direction it sends in.
LEMMA TransmitOut ==
    ASSUME InductiveInv, NEW e \in Ends, Transmit(e)
    PROVE  DirectionInv(e)'
  <1> DEFINE r == Peer(e)
  <1>0. TransmitChanges(e)
    BY TransmitEffect
  <1>1. TypeOK /\ DirectionInv(e) /\ r \in Ends
    BY PeerFacts DEF InductiveInv
  <1>2. /\ outgoing_sequence[e] \in Nat
        /\ incoming_sequence[r] \in Nat
        /\ last_reliable_sequence[e] \in Nat
        /\ reliable_sequence[e] \in Bit
        /\ incoming_reliable_sequence[r] \in Bit
        /\ incoming_acknowledged[e] \in Nat
    BY <1>1, FieldTypes
  <1>3. \A x \in Acknowledgements(e) :
            x[1] \in Nat /\ x[2] \in Bit /\ x[1] <= incoming_sequence[r]
    BY <1>1, AckTypes DEF DirectionInv, SequencesOrdered
  <1>4. \A p \in network[e] :
            /\ p.sequence \in Nat
            /\ p.sequence < outgoing_sequence[e]
            /\ ~ p.reliable => p.data = <<>>
            /\ p.reliable => p.sequence <= last_reliable_sequence[e]
            /\ p.reliable /\ p.sequence > incoming_sequence[r] =>
                  /\ p.sequence = last_reliable_sequence[e]
                  /\ p.data = reliable_buf[e]
                  /\ incoming_reliable_sequence[r] # reliable_sequence[e]
    <2>1. \A p \in network[e] : p \in Packet
      BY <1>1, FieldTypes
    <2> QED
      BY <1>1, <2>1, PacketTypes
         DEF DirectionInv, SequencesOrdered, OneReliableInFlight
  <1>5. /\ incoming_sequence[r] < outgoing_sequence[e]
        /\ last_reliable_sequence[e] < outgoing_sequence[e]
    BY <1>1 DEF DirectionInv, SequencesOrdered
  <1>6. /\ NextPacket(e).sequence = outgoing_sequence[e]
        /\ NextPacket(e).reliable = SendsReliable(e)
        /\ SendsReliable(e) => NextPacket(e).data = BatchToSend(e)
        /\ ~ SendsReliable(e) => NextPacket(e).data = <<>>
    BY DEF NextPacket
  <1>7. \/ last_reliable_sequence'[e] = outgoing_sequence[e]
        \/ last_reliable_sequence'[e] = last_reliable_sequence[e]
    BY <1>0 DEF TransmitChanges
  <1>8. SequencesOrdered(e)'
    BY <1>2, <1>3, <1>4, <1>5, <1>6, <1>7, <1>0 DEF SequencesOrdered, TransmitChanges
  <1>9. OneBitPerAck(e)'
    BY <1>1, <1>0 DEF DirectionInv, OneBitPerAck, TransmitChanges
  <1>10. LateAckIsCurrent(e)'
    BY <1>1, <1>2, <1>3, <1>5, <1>7, <1>0
       DEF DirectionInv, LateAckIsCurrent, TransmitChanges
  <1>11. CASE CanSeal(e)
    <2>1. /\ reliable_buf[e] = <<>>
          /\ message[e] # <<>>
          /\ BatchToSend(e) = message[e]
          /\ SendsReliable(e)
      BY <1>11 DEF CanSeal, BatchToSend, SendsReliable
    <2>2. /\ incoming_reliable_sequence[r] = reliable_sequence[e]
          /\ sealed[e] = delivered[e]
          /\ \A y \in Acknowledgements(e) :
                 incoming_acknowledged[e] <= y[1] => y[2] = reliable_sequence[e]
      BY <2>1, FreeIsRead
    <2>3. reliable_sequence'[e] # reliable_sequence[e]
      BY <1>2, <1>11, FlipBit, <1>0 DEF TransmitChanges
    <2>4. AckStays(e)'
      BY <2>2, <2>3, <1>0 DEF AckStays, TransmitChanges
    <2>5. FreeIsAcknowledged(e)'
      BY <2>1, <1>0 DEF FreeIsAcknowledged, TransmitChanges
    <2>6. OneReliableInFlight(e)'
      <3>1. ASSUME NEW p \in network[e]
            PROVE  /\ ~ p.reliable => p.data = <<>>
                   /\ p.reliable => p.sequence <= last_reliable_sequence'[e]
                   /\ ~ (p.reliable /\ p.sequence > incoming_sequence[r])
        BY <1>2, <1>4, <1>5, <2>1, <2>2, <1>0 DEF TransmitChanges
      <3>2. /\ NextPacket(e).reliable
            /\ NextPacket(e).sequence = last_reliable_sequence'[e]
            /\ NextPacket(e).data = reliable_buf'[e]
        BY <1>6, <2>1, <1>0 DEF TransmitChanges
      <3>3. NextPacket(e).sequence <= last_reliable_sequence'[e]
        BY <1>2, <1>6, <3>2
      <3> QED
        BY <2>2, <2>3, <3>1, <3>2, <3>3, <1>0
           DEF OneReliableInFlight, TransmitChanges
    <2>7. BitsTellDelivery(e)'
      BY <1>11, <2>1, <2>2, <2>3, <1>0 DEF BitsTellDelivery, TransmitChanges
    <2> QED
      BY <1>8, <1>9, <1>10, <2>4, <2>5, <2>6, <2>7 DEF DirectionInv
  <1>12. CASE ~ CanSeal(e)
    <2>1. /\ BatchToSend(e) = reliable_buf[e]
          /\ SendsReliable(e) <=> RemoteDroppedReliable(e)
      BY <1>12 DEF BatchToSend, SendsReliable
    <2>2. /\ reliable_sequence'[e] = reliable_sequence[e]
          /\ sealed'[e] = sealed[e]
          /\ reliable_buf'[e] = reliable_buf[e]
      BY <1>12, <2>1, <1>0 DEF TransmitChanges
    <2>3. AckStays(e)' /\ FreeIsAcknowledged(e)' /\ BitsTellDelivery(e)'
      BY <1>1, <2>2, <1>0
         DEF DirectionInv, AckStays, FreeIsAcknowledged, BitsTellDelivery, TransmitChanges
    <2>4. OneReliableInFlight(e)'
      <3>1. CASE SendsReliable(e)
        <4>1. /\ incoming_reliable_sequence[r] # reliable_sequence[e]
              /\ incoming_sequence[r] > last_reliable_sequence[e]
          BY <2>1, <3>1, DroppedIsUnread
        <4> QED
          <5>1. ASSUME NEW p \in network[e]
                PROVE  /\ ~ p.reliable => p.data = <<>>
                       /\ p.reliable => p.sequence <= last_reliable_sequence'[e]
                       /\ ~ (p.reliable /\ p.sequence > incoming_sequence[r])
            BY <1>2, <1>4, <1>5, <3>1, <4>1, <1>0 DEF TransmitChanges
          <5>2. /\ NextPacket(e).reliable
                /\ NextPacket(e).sequence = last_reliable_sequence'[e]
                /\ NextPacket(e).data = reliable_buf'[e]
            BY <1>6, <2>1, <3>1, <1>0 DEF TransmitChanges
          <5>3. NextPacket(e).sequence <= last_reliable_sequence'[e]
            BY <1>2, <1>6, <5>2
          <5> QED
            BY <2>2, <4>1, <5>1, <5>2, <5>3, <1>0
               DEF OneReliableInFlight, TransmitChanges
      <3>2. CASE ~ SendsReliable(e)
        BY <1>4, <1>6, <2>2, <3>2, <1>0 DEF OneReliableInFlight, TransmitChanges
      <3> QED BY <3>1, <3>2
    <2> QED
      BY <1>8, <1>9, <1>10, <2>3, <2>4 DEF DirectionInv
  <1> QED
    BY <1>11, <1>12

\* A transmit carries an acknowledgement the other direction knows of.
LEMMA TransmitIn ==
    ASSUME InductiveInv, NEW e \in Ends, Transmit(e)
    PROVE  DirectionInv(Peer(e))'
  <1> DEFINE d == Peer(e)
  <1>0. TransmitChanges(e)
    BY TransmitEffect
  <1>1. TypeOK /\ DirectionInv(d) /\ d \in Ends /\ d # e /\ Peer(d) = e
    BY PeerFacts DEF InductiveInv
  <1>2. AckOf(NextPacket(e)) =
            <<incoming_sequence[e], incoming_reliable_sequence[e]>>
    BY DEF AckOf, NextPacket
  <1>3. UNCHANGED <<incoming_sequence, incoming_reliable_sequence,
                    incoming_acknowledged, incoming_reliable_acknowledged,
                    delivered>>
    BY <1>0 DEF TransmitChanges
  <1>4. Acknowledgements(d)' = Acknowledgements(d)
    <2>1. network'[e] = network[e] \cup {NextPacket(e)}
      BY <1>0 DEF TransmitChanges
    <2> QED
      BY <1>1, <1>2, <1>3, <2>1 DEF Acknowledgements
  <1>5. /\ network'[d] = network[d]
        /\ outgoing_sequence'[d] = outgoing_sequence[d]
        /\ reliable_buf'[d] = reliable_buf[d]
        /\ reliable_sequence'[d] = reliable_sequence[d]
        /\ sealed'[d] = sealed[d]
        /\ last_reliable_sequence'[d] = last_reliable_sequence[d]
    BY <1>1 DEF TypeOK, Transmit
  <1>6. SequencesOrdered(d)' /\ OneReliableInFlight(d)'
    BY <1>1, <1>3, <1>4, <1>5
       DEF DirectionInv, SequencesOrdered, OneReliableInFlight
  <1>7. OneBitPerAck(d)' /\ LateAckIsCurrent(d)' /\ AckStays(d)'
    BY <1>1, <1>3, <1>4, <1>5
       DEF DirectionInv, OneBitPerAck, LateAckIsCurrent, AckStays
  <1>8. FreeIsAcknowledged(d)' /\ BitsTellDelivery(d)'
    BY <1>1, <1>3, <1>5 DEF DirectionInv, FreeIsAcknowledged, BitsTellDelivery
  <1> QED
    BY <1>6, <1>7, <1>8 DEF DirectionInv

-----------------------------------------------------------------------------
\* A packet of the peer acknowledges only what e has sent, and agrees with
\* the acknowledgement e has stored.
LEMMA AckIsHonest ==
    ASSUME InductiveInv, NEW e \in Ends, NEW p \in network[Peer(e)]
    PROVE  AckClass(e, p) # "FUTURE" /\ AckConsistent(e, p)
  <1> DEFINE x == <<incoming_acknowledged[e], incoming_reliable_acknowledged[e]>>
  <1>1. TypeOK /\ DirectionInv(e) /\ Peer(e) \in Ends
    BY PeerFacts DEF InductiveInv
  <1>2. /\ p \in Packet
        /\ p.ack \in Nat
        /\ incoming_sequence[Peer(e)] \in Nat
        /\ outgoing_sequence[e] \in Nat
        /\ incoming_acknowledged[e] \in Nat
    BY <1>1, FieldTypes, PacketTypes
  <1>3. AckOf(p) \in Acknowledgements(e) /\ x \in Acknowledgements(e)
    BY AckMembers
  <1>4. AckOf(p)[1] = p.ack /\ AckOf(p)[2] = p.rack
    BY DEF AckOf
  <1>5. /\ p.ack <= incoming_sequence[Peer(e)]
        /\ incoming_sequence[Peer(e)] < outgoing_sequence[e]
    BY <1>1, <1>3, <1>4 DEF DirectionInv, SequencesOrdered
  <1>6. ~ (p.ack >= outgoing_sequence[e])
    BY <1>2, <1>5
  <1>7. p.ack = incoming_acknowledged[e]
            => p.rack = incoming_reliable_acknowledged[e]
    BY <1>1, <1>3, <1>4 DEF DirectionInv, OneBitPerAck
  <1> QED
    BY <1>6, <1>7
       DEF AckClass, ClassifyAck, AckConsistent, ReliableAckConsistent

\* So a packet is either stale, or its acknowledgement is stored; the batch
\* in hand is let go only when the acknowledgement has our bit.
LEMMA AckEffect ==
    ASSUME InductiveInv, NEW e \in Ends, NEW p \in network[Peer(e)],
           ProcessAcknowledgement(e, p)
    PROVE  /\ UNCHANGED <<future_acknowledgements, conflicting_acknowledgements>>
           /\ \/ UNCHANGED <<incoming_acknowledged, incoming_reliable_acknowledged,
                             reliable_buf>>
              \/ /\ incoming_acknowledged[e] <= p.ack
                 /\ incoming_acknowledged' =
                        [incoming_acknowledged EXCEPT ![e] = p.ack]
                 /\ incoming_reliable_acknowledged' =
                        [incoming_reliable_acknowledged EXCEPT ![e] = p.rack]
                 /\ reliable_buf' = IF p.rack = reliable_sequence[e]
                                    THEN [reliable_buf EXCEPT ![e] = <<>>]
                                    ELSE reliable_buf
  <1>1. AckClass(e, p) # "FUTURE" /\ AckConsistent(e, p)
    BY AckIsHonest
  <1>2. CASE AckClass(e, p) = "STALE"
    BY <1>2 DEF ProcessAcknowledgement, ackVars
  <1>3. CASE AckClass(e, p) = "ACCEPTED"
    <2>1. incoming_acknowledged[e] \in Nat /\ p.ack \in Nat
      BY FieldTypes, PacketTypes, PeerFacts DEF InductiveInv
    <2>2. ~ (p.ack < incoming_acknowledged[e])
      BY <1>3 DEF AckClass, ClassifyAck
    <2>3. incoming_acknowledged[e] <= p.ack
      BY <2>1, <2>2
    <2> QED
      BY <1>1, <1>3, <2>3 DEF ProcessAcknowledgement
  <1> QED
    BY <1>1, <1>2, <1>3 DEF AckClass, ClassifyAck

\* Reading a packet keeps the invariant of the direction it acknowledges.
LEMMA AcceptOut ==
    ASSUME InductiveInv, NEW e \in Ends, NEW p \in network[Peer(e)], Accept(e, p)
    PROVE  DirectionInv(e)'
  <1> DEFINE r == Peer(e)
             x == AckOf(p)
  <1>1. TypeOK /\ DirectionInv(e) /\ r \in Ends /\ r # e
    BY PeerFacts DEF InductiveInv
  <1>2. /\ UNCHANGED <<network, outgoing_sequence, last_reliable_sequence,
                       reliable_sequence, sealed>>
        /\ incoming_sequence'[r] = incoming_sequence[r]
        /\ incoming_reliable_sequence'[r] = incoming_reliable_sequence[r]
        /\ delivered'[e] = delivered[e]
    BY <1>1 DEF TypeOK, Accept
  <1>3. x \in Acknowledgements(e) /\ x[1] = p.ack /\ x[2] = p.rack
    BY AckMembers DEF AckOf
  <1>4. CASE UNCHANGED <<incoming_acknowledged, incoming_reliable_acknowledged,
                         reliable_buf>>
    <2>1. Acknowledgements(e)' = Acknowledgements(e)
      BY <1>2, <1>4 DEF Acknowledgements
    <2>2. SequencesOrdered(e)' /\ OneReliableInFlight(e)'
      BY <1>1, <1>2, <1>4, <2>1
         DEF DirectionInv, SequencesOrdered, OneReliableInFlight
    <2>3. OneBitPerAck(e)' /\ LateAckIsCurrent(e)' /\ AckStays(e)'
      BY <1>1, <1>2, <1>4, <2>1
         DEF DirectionInv, OneBitPerAck, LateAckIsCurrent, AckStays
    <2>4. FreeIsAcknowledged(e)' /\ BitsTellDelivery(e)'
      BY <1>1, <1>2, <1>4 DEF DirectionInv, FreeIsAcknowledged, BitsTellDelivery
    <2> QED
      BY <2>2, <2>3, <2>4 DEF DirectionInv
  <1>5. CASE /\ incoming_acknowledged[e] <= p.ack
             /\ incoming_acknowledged' =
                    [incoming_acknowledged EXCEPT ![e] = p.ack]
             /\ incoming_reliable_acknowledged' =
                    [incoming_reliable_acknowledged EXCEPT ![e] = p.rack]
             /\ reliable_buf' = IF p.rack = reliable_sequence[e]
                                THEN [reliable_buf EXCEPT ![e] = <<>>]
                                ELSE reliable_buf
    <2>1. /\ incoming_acknowledged'[e] = p.ack
          /\ incoming_reliable_acknowledged'[e] = p.rack
          /\ reliable_buf'[e] = IF p.rack = reliable_sequence[e]
                                THEN <<>> ELSE reliable_buf[e]
      BY <1>1, <1>5 DEF TypeOK
    <2>2. Acknowledgements(e)' \subseteq Acknowledgements(e)
      BY <1>2, <1>3, <2>1 DEF Acknowledgements, AckOf
    <2>3. /\ incoming_acknowledged[e] \in Nat
          /\ p.ack \in Nat
          /\ incoming_sequence[r] \in Nat
          /\ \A y \in Acknowledgements(e) : y[1] \in Nat
      BY <1>1, <1>3, FieldTypes, AckTypes
    <2>4. SequencesOrdered(e)'
      BY <1>1, <1>2, <2>2 DEF DirectionInv, SequencesOrdered
    <2>5. OneBitPerAck(e)' /\ LateAckIsCurrent(e)'
      BY <1>1, <1>2, <2>2 DEF DirectionInv, OneBitPerAck, LateAckIsCurrent
    <2>6. AckStays(e)'
      <3>1. \A y \in Acknowledgements(e) :
                p.ack <= y[1] => incoming_acknowledged[e] <= y[1]
        BY <1>5, <2>3
      <3> QED
        BY <1>1, <1>2, <2>1, <2>2, <3>1 DEF DirectionInv, AckStays
    <2>7. p.rack = reliable_sequence[e]
              => incoming_reliable_sequence[r] = reliable_sequence[e]
      <3> DEFINE y == <<incoming_sequence[r], incoming_reliable_sequence[r]>>
      <3>1. y \in Acknowledgements(e)
        BY AckMembers
      <3>2. x[1] <= y[1]
        BY <1>1, <1>3 DEF DirectionInv, SequencesOrdered
      <3> QED
        BY <1>1, <1>3, <1>5, <3>1, <3>2 DEF DirectionInv, AckStays
    <2>8. FreeIsAcknowledged(e)'
      <3>1. ASSUME reliable_buf[e] = <<>> PROVE p.rack = reliable_sequence[e]
        BY <1>3, <1>5, <3>1, FreeIsRead
      <3> QED
        BY <1>2, <2>1, <3>1 DEF FreeIsAcknowledged
    <2>9. OneReliableInFlight(e)' /\ BitsTellDelivery(e)'
      <3>1. CASE p.rack = reliable_sequence[e]
        BY <1>1, <1>2, <2>7, <3>1
           DEF DirectionInv, OneReliableInFlight, BitsTellDelivery
      <3>2. CASE p.rack # reliable_sequence[e]
        BY <1>1, <1>2, <2>1, <3>2
           DEF DirectionInv, OneReliableInFlight, BitsTellDelivery
      <3> QED BY <3>1, <3>2
    <2> QED
      BY <2>4, <2>5, <2>6, <2>8, <2>9 DEF DirectionInv
  <1>6. ProcessAcknowledgement(e, p)
    BY DEF Accept
  <1> QED
    BY <1>4, <1>5, <1>6, AckEffect

\* Reading a packet keeps the invariant of the direction it came from.
LEMMA AcceptIn ==
    ASSUME InductiveInv, NEW e \in Ends, NEW p \in network[Peer(e)], Accept(e, p)
    PROVE  DirectionInv(Peer(e))'
  <1> DEFINE d == Peer(e)
             new == <<p.sequence, incoming_reliable_sequence'[e]>>
             old == <<incoming_sequence[e], incoming_reliable_sequence[e]>>
  <1>1. TypeOK /\ DirectionInv(d) /\ d \in Ends /\ d # e /\ Peer(d) = e
    BY PeerFacts DEF InductiveInv
  <1>2. /\ p.sequence \in Nat
        /\ p.data \in Seq(Nat)
        /\ p.reliable \in BOOLEAN
        /\ incoming_sequence[e] \in Nat
        /\ incoming_acknowledged[d] \in Nat
        /\ last_reliable_sequence[d] \in Nat
        /\ outgoing_sequence[d] \in Nat
        /\ incoming_reliable_sequence[e] \in Bit
        /\ reliable_sequence[d] \in Bit
        /\ delivered[d] \in Seq(Nat)
    BY <1>1, FieldTypes, PacketTypes
  <1>3. /\ UNCHANGED <<network, outgoing_sequence, last_reliable_sequence,
                       reliable_sequence, sealed>>
        /\ incoming_acknowledged'[d] = incoming_acknowledged[d]
        /\ incoming_reliable_acknowledged'[d] = incoming_reliable_acknowledged[d]
        /\ reliable_buf'[d] = reliable_buf[d]
    <2>1. /\ UNCHANGED <<network, outgoing_sequence, last_reliable_sequence,
                         reliable_sequence, sealed>>
          /\ ProcessAcknowledgement(e, p)
      BY DEF Accept
    <2>2. \/ UNCHANGED <<incoming_acknowledged, incoming_reliable_acknowledged,
                         reliable_buf>>
          \/ /\ incoming_acknowledged' =
                    [incoming_acknowledged EXCEPT ![e] = p.ack]
             /\ incoming_reliable_acknowledged' =
                    [incoming_reliable_acknowledged EXCEPT ![e] = p.rack]
             /\ \/ reliable_buf' = [reliable_buf EXCEPT ![e] = <<>>]
                \/ reliable_buf' = reliable_buf
      BY <2>1, AckEffect
    <2> QED BY <1>1, <2>1, <2>2 DEF TypeOK
  <1>4. /\ incoming_sequence[e] < p.sequence
        /\ incoming_sequence'[e] = p.sequence
        /\ incoming_reliable_sequence'[e] =
               IF p.reliable THEN Flip(incoming_reliable_sequence[e])
               ELSE incoming_reliable_sequence[e]
        /\ delivered'[d] = delivered[d] \o p.data
    BY <1>1, <1>2 DEF TypeOK, Accept, IsNewer
  <1>5. p.reliable => incoming_reliable_sequence'[e] = reliable_sequence[d]
    <2>1. ASSUME p.reliable
          PROVE  incoming_reliable_sequence[e] # reliable_sequence[d]
      BY <1>1, <1>2, <1>4, <2>1 DEF DirectionInv, OneReliableInFlight
    <2> QED
      BY <1>2, <1>4, <2>1 DEF Bit, Flip
  <1>6. Acknowledgements(d)' \subseteq Acknowledgements(d) \cup {new}
    BY <1>1, <1>3, <1>4 DEF Acknowledgements
  <1>7. old \in Acknowledgements(d)
    BY <1>1, AckMembers
  <1>8. \A x \in Acknowledgements(d) :
            x[1] \in Nat /\ x[1] <= incoming_sequence[e] /\ x[1] < p.sequence
    <2>1. ASSUME NEW x \in Acknowledgements(d)
          PROVE  x[1] \in Nat /\ x[1] <= incoming_sequence[e]
      BY <1>1, AckTypes DEF DirectionInv, SequencesOrdered
    <2> QED BY <1>2, <1>4, <2>1
  <1>9. new[1] = p.sequence /\ new[2] = incoming_reliable_sequence'[e]
    OBVIOUS
  <1> HIDE DEF new
  <1>10. SequencesOrdered(d)'
    <2>1. p.sequence < outgoing_sequence[d]
      BY <1>1 DEF DirectionInv, SequencesOrdered
    <2>2. \A x \in Acknowledgements(d)' : x[1] <= p.sequence
      BY <1>2, <1>6, <1>8, <1>9
    <2> QED
      BY <1>1, <1>3, <1>4, <2>1, <2>2 DEF DirectionInv, SequencesOrdered
  <1>11. OneBitPerAck(d)'
    <2>1. ASSUME NEW x \in Acknowledgements(d)', NEW y \in Acknowledgements(d)',
                 x[1] = y[1]
          PROVE  x[2] = y[2]
      <3>1. CASE x = new /\ y = new
        BY <3>1
      <3>2. CASE x = new /\ y \in Acknowledgements(d)
        BY <1>2, <1>8, <1>9, <2>1, <3>2
      <3>3. CASE x \in Acknowledgements(d) /\ y = new
        BY <1>2, <1>8, <1>9, <2>1, <3>3
      <3>4. CASE x \in Acknowledgements(d) /\ y \in Acknowledgements(d)
        BY <1>1, <2>1, <3>4 DEF DirectionInv, OneBitPerAck
      <3> QED BY <1>6, <3>1, <3>2, <3>3, <3>4
    <2> QED BY <2>1 DEF OneBitPerAck
  <1>12. LateAckIsCurrent(d)'
    <2>1. ASSUME NEW x \in Acknowledgements(d)', x[1] > last_reliable_sequence[d]
          PROVE  x[2] = incoming_reliable_sequence'[e]
      <3>1. CASE x = new
        BY <1>9, <3>1
      <3>2. CASE x \in Acknowledgements(d)
        <4>1. p.sequence > last_reliable_sequence[d]
          BY <1>2, <1>8, <2>1, <3>2
        <4>2. ~ p.reliable
          BY <1>1, <1>2, <4>1 DEF DirectionInv, OneReliableInFlight
        <4>3. x[2] = incoming_reliable_sequence[e]
          BY <1>1, <2>1, <3>2 DEF DirectionInv, LateAckIsCurrent
        <4> QED BY <1>4, <4>2, <4>3
      <3> QED BY <1>6, <3>1, <3>2
    <2> QED BY <1>1, <1>3, <2>1 DEF LateAckIsCurrent
  <1>13. AckStays(d)'
    <2>1. ASSUME NEW x \in Acknowledgements(d)', NEW y \in Acknowledgements(d)',
                 x[2] = reliable_sequence[d],
                 incoming_acknowledged[d] <= x[1], x[1] <= y[1]
          PROVE  y[2] = reliable_sequence[d]
      <3>1. CASE x = new
        <4>1. y = new
          BY <1>2, <1>6, <1>8, <1>9, <2>1, <3>1
        <4> QED BY <2>1, <3>1, <4>1
      <3>2. CASE x \in Acknowledgements(d) /\ y \in Acknowledgements(d)
        BY <1>1, <2>1, <3>2 DEF DirectionInv, AckStays
      <3>3. CASE x \in Acknowledgements(d) /\ y = new
        <4>1. incoming_reliable_sequence[e] = reliable_sequence[d]
          BY <1>1, <1>7, <1>8, <2>1, <3>3 DEF DirectionInv, AckStays
        <4> QED BY <1>4, <1>5, <1>9, <3>3, <4>1
      <3> QED BY <1>6, <3>1, <3>2, <3>3
    <2> QED BY <1>3, <2>1 DEF AckStays
  <1>14. FreeIsAcknowledged(d)'
    BY <1>1, <1>3 DEF DirectionInv, FreeIsAcknowledged
  <1>15. OneReliableInFlight(d)'
    <2>1. ASSUME NEW q \in network[d]
          PROVE  /\ ~ q.reliable => q.data = <<>>
                 /\ q.reliable => q.sequence <= last_reliable_sequence[d]
                 /\ q.reliable /\ q.sequence > p.sequence =>
                       /\ q.sequence = last_reliable_sequence[d]
                       /\ q.data = reliable_buf[d]
                       /\ incoming_reliable_sequence'[e] # reliable_sequence[d]
      <3>1. q.sequence \in Nat
        BY <1>1, FieldTypes, PacketTypes
      <3>2. q.sequence > p.sequence => q.sequence > incoming_sequence[e]
        BY <1>2, <1>4, <3>1
      <3>3. CASE p.reliable
        <4>1. p.sequence = last_reliable_sequence[d]
          BY <1>1, <1>2, <1>4, <3>3 DEF DirectionInv, OneReliableInFlight
        <4> QED
          BY <1>1, <1>2, <3>1, <4>1 DEF DirectionInv, OneReliableInFlight
      <3>4. CASE ~ p.reliable
        BY <1>1, <1>4, <3>2, <3>4 DEF DirectionInv, OneReliableInFlight
      <3> QED BY <3>3, <3>4
    <2> QED BY <1>1, <1>3, <1>4, <2>1 DEF OneReliableInFlight
  <1>16. BitsTellDelivery(d)'
    <2>1. CASE p.reliable
      <3>1. /\ p.data = reliable_buf[d]
            /\ incoming_reliable_sequence[e] # reliable_sequence[d]
        BY <1>1, <1>2, <1>4, <2>1 DEF DirectionInv, OneReliableInFlight
      <3> QED
        BY <1>1, <1>3, <1>4, <1>5, <2>1, <3>1 DEF DirectionInv, BitsTellDelivery
    <2>2. CASE ~ p.reliable
      <3>1. p.data = <<>>
        BY <1>1, <2>2 DEF DirectionInv, OneReliableInFlight
      <3>2. delivered'[d] = delivered[d]
        BY <1>2, <1>4, <3>1
      <3> QED
        BY <1>1, <1>3, <1>4, <2>2, <3>2 DEF DirectionInv, BitsTellDelivery
    <2> QED BY <2>1, <2>2
  <1> QED
    BY <1>10, <1>11, <1>12, <1>13, <1>14, <1>15, <1>16 DEF DirectionInv

-----------------------------------------------------------------------------
\* A step that leaves what the invariant reads unchanged keeps it.
LEMMA InvUnchanged ==
    ASSUME InductiveInv, TypeOK',
           UNCHANGED <<incoming_sequence, outgoing_sequence,
                       incoming_acknowledged, incoming_reliable_acknowledged,
                       incoming_reliable_sequence, reliable_sequence,
                       last_reliable_sequence, reliable_buf, network, sealed,
                       delivered, future_acknowledgements,
                       conflicting_acknowledgements>>
    PROVE  InductiveInv'
  <1>1. ASSUME NEW e \in Ends PROVE DirectionInv(e)'
    <2>1. DirectionInv(e)
      BY DEF InductiveInv
    <2>2. Acknowledgements(e)' = Acknowledgements(e)
      BY DEF Acknowledgements
    <2>3. SequencesOrdered(e)' /\ OneReliableInFlight(e)'
      BY <2>1, <2>2 DEF DirectionInv, SequencesOrdered, OneReliableInFlight
    <2>4. OneBitPerAck(e)' /\ LateAckIsCurrent(e)' /\ AckStays(e)'
      BY <2>1, <2>2 DEF DirectionInv, OneBitPerAck, LateAckIsCurrent, AckStays
    <2>5. FreeIsAcknowledged(e)' /\ BitsTellDelivery(e)'
      BY <2>1 DEF DirectionInv, FreeIsAcknowledged, BitsTellDelivery
    <2> QED BY <2>3, <2>4, <2>5 DEF DirectionInv
  <1>2. AcknowledgementsAgree'
    BY DEF InductiveInv, AcknowledgementsAgree
  <1> QED BY <1>1, <1>2 DEF InductiveInv

LEMMA InvNext == InductiveInv /\ [Next]_chanVars => InductiveInv'
  <1> SUFFICES ASSUME InductiveInv, [Next]_chanVars PROVE InductiveInv'
    OBVIOUS
  <1>1. TypeOK'
    BY TypeNext DEF InductiveInv
  <1>2. CASE UNCHANGED chanVars
    BY <1>1, <1>2, InvUnchanged DEF chanVars, sequenceVars, ackVars, counterVars
  <1>3. ASSUME NEW e \in Ends, WriteMessage(e) PROVE InductiveInv'
    BY <1>1, <1>3, InvUnchanged
       DEF WriteMessage, sequenceVars, ackVars, counterVars
  <1>4. ASSUME NEW e \in Ends, Transmit(e) PROVE InductiveInv'
    <2>1. AcknowledgementsAgree'
      BY <1>4, TransmitEffect
         DEF TransmitChanges, InductiveInv, AcknowledgementsAgree
    <2> QED
      BY <1>1, <1>4, <2>1, TransmitOut, TransmitIn, PeerFacts DEF InductiveInv
  <1>5. ASSUME NEW e \in Ends, NEW p \in network[Peer(e)], Process(e, p)
        PROVE  InductiveInv'
    <2>1. CASE Accept(e, p)
      <3>1. AcknowledgementsAgree'
        BY <2>1, AckEffect DEF Accept, InductiveInv, AcknowledgementsAgree
      <3> QED
        BY <1>1, <2>1, <3>1, AcceptOut, AcceptIn, PeerFacts DEF InductiveInv
    <2>2. CASE DropStale(e, p)
      BY <1>2, <2>2 DEF DropStale
    <2>3. CASE DropFuture(e, p)
      BY <2>3, AckIsHonest DEF DropFuture, RejectAcknowledgement
    <2> QED BY <1>5, <2>1, <2>2, <2>3 DEF Process
  <1> QED
    BY <1>2, <1>3, <1>4, <1>5 DEF Next

THEOREM InvariantHolds == Spec => []InductiveInv
  BY InvInit, InvNext, PTL DEF Spec

\* ReliableInOrderOnce: whatever is lost, delayed or duplicated, the OLD
\* channel hands over reliable messages in order, once, and forgets none.
THEOREM ReliableDelivery == Spec => []ReliableInOrderOnce
  <1>1. InductiveInv => ReliableInOrderOnce
    BY DEF InductiveInv, DirectionInv, BitsTellDelivery, ReliableInOrderOnce
  <1> QED
    BY <1>1, InvariantHolds, PTL

\* AcknowledgementsAgree: neither acknowledgement check of the OLD channel
\* ever turns down a packet of the honest peer.
THEOREM HonestAcknowledgements == Spec => []AcknowledgementsAgree
  <1>1. InductiveInv => AcknowledgementsAgree
    BY DEF InductiveInv
  <1> QED
    BY <1>1, InvariantHolds, PTL

-----------------------------------------------------------------------------
\* Sequence facts used below.
LEMMA ConcatEmpty == ASSUME NEW s \in Seq(Nat) PROVE s \o <<>> = s
  OBVIOUS

LEMMA ConcatExtends ==
    ASSUME NEW s \in Seq(Nat), NEW t \in Seq(Nat), t # <<>>
    PROVE  /\ Len(s \o t) = Len(s) + Len(t)
           /\ Len(s \o t) > Len(s)
           /\ SubSeq(s \o t, 1, Len(s)) = s
           /\ s \o t # s
  <1>1. Len(t) > 0 /\ Len(t) \in Nat /\ Len(s) \in Nat
    OBVIOUS
  <1>2. Len(s \o t) = Len(s) + Len(t) /\ s \o t \in Seq(Nat)
    OBVIOUS
  <1>3. Len(s \o t) > Len(s)
    BY <1>1, <1>2
  <1>4. SubSeq(s \o t, 1, Len(s)) = s
    OBVIOUS
  <1>5. Len(s \o t) # Len(s)
    BY <1>1, <1>2
  <1> QED
    BY <1>2, <1>3, <1>4, <1>5

LEMMA AppendConcat ==
    ASSUME NEW s \in Seq(Nat), NEW t \in Seq(Nat), NEW n \in Nat
    PROVE  s \o Append(t, n) = Append(s \o t, n)
  OBVIOUS

LEMMA AppendNumber ==
    ASSUME NEW n \in Nat
    PROVE  Append([i \in 1 .. n |-> i], n + 1) = [i \in 1 .. n + 1 |-> i]
  OBVIOUS

\* The messages of e not yet released, in the terms of the abstract channel.
LEMMA ReleasedValue ==
    ASSUME NEW e \in Ends
    PROVE  [x \in Ends |-> Len(sealed[x]) - Len(reliable_buf[x])][e] =
               Len(sealed[e]) - Len(reliable_buf[e])
  OBVIOUS

\* A direction of which nothing the abstract channel sees has changed.
LEMMA DirectionIdle ==
    ASSUME NEW e \in Ends, sealed'[e] = sealed[e], delivered'[e] = delivered[e],
           reliable_buf'[e] = reliable_buf[e]
    PROVE  Channel!Idle(e)
  BY DEF Channel!Idle

LEMMA RefineTransmit ==
    ASSUME InductiveInv, NEW e \in Ends, Transmit(e)
    PROVE  \A x \in Ends : \/ Channel!Accept(x) \/ Channel!Idle(x)
  <1>0. TransmitChanges(e)
    BY TransmitEffect
  <1>1. TypeOK /\ Peer(e) \in Ends /\ Peer(e) # e
    BY PeerFacts DEF InductiveInv
  <1>2. Channel!Idle(Peer(e))
    <2>1. /\ sealed'[Peer(e)] = sealed[Peer(e)]
          /\ reliable_buf'[Peer(e)] = reliable_buf[Peer(e)]
          /\ delivered' = delivered
      BY <1>1 DEF TypeOK, Transmit
    <2> QED BY <1>1, <2>1, DirectionIdle
  <1>3. CASE CanSeal(e)
    <2>1. /\ reliable_buf[e] = <<>>
          /\ message[e] # <<>>
          /\ reliable_buf'[e] = message[e]
          /\ sealed'[e] = sealed[e] \o message[e]
          /\ delivered' = delivered
      BY <1>0, <1>3 DEF CanSeal, BatchToSend, TransmitChanges
    <2>2. sealed[e] \in Seq(Nat) /\ message[e] \in Seq(Nat)
      BY <1>1, FieldTypes
    <2>3. /\ Len(sealed'[e]) = Len(sealed[e]) + Len(message[e])
          /\ Len(sealed'[e]) > Len(sealed[e])
          /\ SubSeq(sealed'[e], 1, Len(sealed[e])) = sealed[e]
      BY <2>1, <2>2, ConcatExtends
    <2>4. Channel!Extends(sealed'[e], sealed[e])
      BY <2>3 DEF Channel!Extends
    <2>5. /\ Len(sealed[e]) - Len(reliable_buf[e]) = Len(sealed[e])
          /\ Len(sealed'[e]) - Len(reliable_buf'[e]) = Len(sealed[e])
      BY <2>1, <2>2, <2>3
    <2>6. Channel!Accept(e)
      BY <2>1, <2>4, <2>5 DEF Channel!Accept
    <2> QED BY <1>2, <2>6, PeerFacts
  <1>4. CASE ~ CanSeal(e)
    <2>1. /\ reliable_buf'[e] = reliable_buf[e]
          /\ sealed'[e] = sealed[e]
          /\ delivered' = delivered
      BY <1>0, <1>4 DEF BatchToSend, TransmitChanges
    <2>2. Channel!Idle(e)
      BY <2>1, DirectionIdle
    <2> QED BY <1>2, <2>2, PeerFacts
  <1> QED BY <1>3, <1>4

\* Reading a packet may release the reader's own batch ...
LEMMA RefineAcceptOut ==
    ASSUME InductiveInv, NEW e \in Ends, NEW p \in network[Peer(e)], Accept(e, p)
    PROVE  Channel!Release(e) \/ Channel!Idle(e)
  <1>1. TypeOK /\ DirectionInv(e)' /\ Peer(e) \in Ends /\ Peer(e) # e
    BY PeerFacts, AcceptOut DEF InductiveInv
  <1>2. sealed' = sealed /\ delivered'[e] = delivered[e]
    BY <1>1 DEF TypeOK, Accept
  <1>3. reliable_buf'[e] = reliable_buf[e] \/ reliable_buf'[e] = <<>>
    <2>1. ProcessAcknowledgement(e, p)
      BY DEF Accept
    <2>2. \/ reliable_buf' = [reliable_buf EXCEPT ![e] = <<>>]
          \/ reliable_buf' = reliable_buf
      BY <2>1, AckEffect
    <2> QED BY <1>1, <2>2 DEF TypeOK
  <1>4. CASE reliable_buf'[e] = reliable_buf[e]
    BY <1>2, <1>4, DirectionIdle
  <1>5. CASE reliable_buf'[e] = <<>> /\ reliable_buf[e] # <<>>
    <2>1. sealed[e] = delivered[e]
      BY <1>1, <1>2, <1>5 DEF DirectionInv, BitsTellDelivery
    <2>2. sealed[e] \in Seq(Nat) /\ reliable_buf[e] \in Seq(Nat)
      BY <1>1, FieldTypes
    <2>3. Len(sealed[e]) - Len(reliable_buf[e]) # Len(sealed[e])
      <3>1. Len(reliable_buf[e]) \in Nat /\ Len(sealed[e]) \in Nat
        BY <2>2
      <3>2. Len(reliable_buf[e]) # 0
        BY <1>5, <2>2
      <3>3. \A m, n \in Nat : n # 0 => m - n # m
        OBVIOUS
      <3> QED BY <3>1, <3>2, <3>3
    <2>4. Len(sealed'[e]) - Len(reliable_buf'[e]) = Len(sealed[e])
      BY <1>2, <1>5, <2>2
    <2> QED
      BY <1>2, <2>1, <2>3, <2>4 DEF Channel!Release
  <1> QED BY <1>3, <1>4, <1>5

\* ... and deliver the batch it carries.
LEMMA RefineAcceptIn ==
    ASSUME InductiveInv, NEW e \in Ends, NEW p \in network[Peer(e)], Accept(e, p)
    PROVE  Channel!Deliver(Peer(e)) \/ Channel!Idle(Peer(e))
  <1> DEFINE d == Peer(e)
  <1>1. TypeOK /\ DirectionInv(d) /\ d \in Ends /\ d # e /\ Peer(d) = e
    BY PeerFacts DEF InductiveInv
  <1>2. /\ p.sequence > incoming_sequence[e]
        /\ sealed' = sealed
        /\ delivered'[d] = delivered[d] \o p.data
    BY <1>1 DEF TypeOK, Accept, IsNewer
  <1>3. reliable_buf'[d] = reliable_buf[d]
    <2>1. ProcessAcknowledgement(e, p)
      BY DEF Accept
    <2>2. \/ reliable_buf' = [reliable_buf EXCEPT ![e] = <<>>]
          \/ reliable_buf' = reliable_buf
      BY <2>1, AckEffect
    <2> QED BY <1>1, <2>2 DEF TypeOK
  <1>4. delivered[d] \in Seq(Nat) /\ reliable_buf[d] \in Seq(Nat)
    BY <1>1, FieldTypes
  <1>5. CASE p.reliable
    <2>1. /\ p.data = reliable_buf[d]
          /\ incoming_reliable_sequence[e] # reliable_sequence[d]
      BY <1>1, <1>2, <1>5 DEF DirectionInv, OneReliableInFlight
    <2>2. reliable_buf[d] # <<>> /\ sealed[d] = delivered[d] \o reliable_buf[d]
      BY <1>1, <2>1 DEF DirectionInv, BitsTellDelivery
    <2>3. delivered[d] # sealed[d]
      BY <1>4, <2>2, ConcatExtends
    <2>4. Channel!Deliver(d)
      BY <1>1, <1>2, <1>3, <2>1, <2>2, <2>3 DEF Channel!Deliver
    <2> QED BY <2>4
  <1>6. CASE ~ p.reliable
    <2>1. p.data = <<>>
      BY <1>1, <1>6 DEF DirectionInv, OneReliableInFlight
    <2>2. delivered'[d] = delivered[d]
      BY <1>2, <1>4, <2>1, ConcatEmpty
    <2> QED BY <1>1, <1>2, <1>3, <2>2, DirectionIdle
  <1> QED BY <1>5, <1>6

LEMMA RefineInit == Init => Channel!Init
  BY DEF Init, ChanInit, Channel!Init

LEMMA RefineNext ==
    InductiveInv /\ [Next]_chanVars => [Channel!Next]_(Channel!vars)
  <1> SUFFICES ASSUME InductiveInv, [Next]_chanVars
               PROVE  Channel!Next \/ UNCHANGED Channel!vars
    BY DEF Channel!vars
  <1>1. ASSUME UNCHANGED <<sealed, delivered, reliable_buf>>
        PROVE  UNCHANGED Channel!vars
    BY <1>1 DEF Channel!vars
  <1>2. CASE UNCHANGED chanVars
    BY <1>1, <1>2 DEF chanVars
  <1>3. ASSUME NEW e \in Ends, WriteMessage(e) PROVE UNCHANGED Channel!vars
    BY <1>1, <1>3 DEF WriteMessage
  <1>4. ASSUME NEW e \in Ends, Transmit(e) PROVE Channel!Next
    BY <1>4, RefineTransmit DEF Channel!Next
  <1>5. ASSUME NEW e \in Ends, NEW p \in network[Peer(e)], Process(e, p)
        PROVE  Channel!Next \/ UNCHANGED Channel!vars
    <2>1. CASE Accept(e, p)
      BY <2>1, RefineAcceptOut, RefineAcceptIn, PeerFacts DEF Channel!Next
    <2>2. CASE DropStale(e, p)
      BY <1>1, <2>2 DEF DropStale, chanVars
    <2>3. CASE DropFuture(e, p)
      BY <2>3, AckIsHonest DEF DropFuture, RejectAcknowledgement
    <2> QED BY <1>5, <2>1, <2>2, <2>3 DEF Process
  <1> QED
    BY <1>2, <1>3, <1>4, <1>5 DEF Next

\* ImplementsChannel: every behaviour of the OLD channel is one of the
\* abstract reliable channel, batch by batch and acknowledgement by
\* acknowledgement.
THEOREM OldImplementsChannel == Spec => ImplementsChannel
  BY RefineInit, RefineNext, InvariantHolds, PTL
     DEF Spec, ImplementsChannel, Channel!Spec

\* NothingForgotten: messages are sealed in the order they were written, and
\* none is dropped on the way to the reliable buffer without an overflow.
LEMMA ForgottenInit == Init => NothingForgotten
  BY DEF Init, ChanInit, NothingForgotten

LEMMA ForgottenNext ==
    TypeOK /\ NothingForgotten /\ [Next]_chanVars => NothingForgotten'
  <1> SUFFICES ASSUME TypeOK, NothingForgotten, [Next]_chanVars,
                      NEW e \in Ends, ~ overflowed'[e]
               PROVE  sealed'[e] \o message'[e] = [i \in 1 .. written'[e] |-> i]
    BY DEF NothingForgotten
  <1>1. /\ sealed[e] \in Seq(Nat) /\ message[e] \in Seq(Nat)
        /\ written[e] \in Nat
    BY DEF TypeOK
  <1>2. ~ overflowed[e]
            => sealed[e] \o message[e] = [i \in 1 .. written[e] |-> i]
    BY DEF NothingForgotten
  <1>3. ASSUME sealed'[e] = sealed[e], message'[e] = message[e],
               written'[e] = written[e], overflowed'[e] = overflowed[e]
        PROVE  sealed'[e] \o message'[e] = [i \in 1 .. written'[e] |-> i]
    BY <1>2, <1>3
  <1>4. CASE UNCHANGED chanVars
    BY <1>3, <1>4 DEF chanVars
  <1>5. ASSUME NEW x \in Ends, WriteMessage(x)
        PROVE  sealed'[e] \o message'[e] = [i \in 1 .. written'[e] |-> i]
    <2>1. CASE x = e
      <3>1. ~ overflowed[e] /\ Len(message[e]) # MessageMax
        BY <1>5, <2>1 DEF TypeOK, WriteMessage
      <3>2. /\ sealed' = sealed
            /\ written'[e] = written[e] + 1
            /\ message'[e] = Append(message[e], written[e] + 1)
        BY <1>5, <2>1, <3>1 DEF TypeOK, WriteMessage
      <3>3. sealed[e] \o Append(message[e], written[e] + 1)
                = Append(sealed[e] \o message[e], written[e] + 1)
        <4>1. written[e] + 1 \in Nat
          BY <1>1
        <4> QED BY <1>1, <4>1, AppendConcat
      <3>4. Append([i \in 1 .. written[e] |-> i], written[e] + 1)
                = [i \in 1 .. written[e] + 1 |-> i]
        BY <1>1, AppendNumber
      <3> QED BY <1>2, <3>1, <3>2, <3>3, <3>4
    <2>2. CASE x # e
      BY <1>3, <1>5, <2>2 DEF TypeOK, WriteMessage
    <2> QED BY <2>1, <2>2
  <1>6. ASSUME NEW x \in Ends, Transmit(x)
        PROVE  sealed'[e] \o message'[e] = [i \in 1 .. written'[e] |-> i]
    <2>1. written' = written /\ overflowed' = overflowed
      BY <1>6 DEF Transmit
    <2>2. CASE x = e /\ CanSeal(x)
      <3>1. sealed'[e] = sealed[e] \o message[e] /\ message'[e] = <<>>
        BY <1>6, <2>2 DEF TypeOK, Transmit
      <3>2. sealed[e] \o message[e] \in Seq(Nat)
        BY <1>1
      <3> QED BY <1>2, <2>1, <3>1, <3>2, ConcatEmpty
    <2>3. CASE x # e \/ ~ CanSeal(x)
      <3>1. sealed'[e] = sealed[e] /\ message'[e] = message[e]
        <4>1. CASE CanSeal(x)
          <5>1. /\ sealed' = [sealed EXCEPT ![x] = sealed[x] \o message[x]]
                /\ message' = [message EXCEPT ![x] = <<>>]
                /\ x # e
            BY <1>6, <2>3, <4>1 DEF Transmit
          <5> QED BY <5>1 DEF TypeOK
        <4>2. CASE ~ CanSeal(x)
          BY <1>6, <4>2 DEF Transmit
        <4> QED BY <4>1, <4>2
      <3> QED BY <1>3, <2>1, <3>1
    <2> QED BY <2>2, <2>3
  <1>7. ASSUME NEW x \in Ends, NEW p \in network[Peer(x)], Process(x, p)
        PROVE  sealed'[e] \o message'[e] = [i \in 1 .. written'[e] |-> i]
    BY <1>3, <1>4, <1>7 DEF Process, Accept, DropStale, DropFuture
  <1> QED
    BY <1>4, <1>5, <1>6, <1>7 DEF Next

THEOREM NothingIsForgotten == Spec => []NothingForgotten
  BY TypeCorrect, ForgottenInit, ForgottenNext, PTL DEF Spec

-----------------------------------------------------------------------------
(***************************************************************************)
(* Acknowledgements are owed until sent: the newest packet of an end tells *)
(* the bit of what it has read, or it has one to send.                     *)
(***************************************************************************)
OwedBy(e) ==
    \/ \E p \in LastSent(e) : p.rack = incoming_reliable_sequence[e]
    \/ network[e] = {} /\ incoming_reliable_sequence[e] = 0
    \/ reliable_ack_pending[e]

LEMMA OwedUnchanged ==
    ASSUME NEW e \in Ends, OwedBy(e), network'[e] = network[e],
           incoming_reliable_sequence'[e] = incoming_reliable_sequence[e],
           reliable_ack_pending'[e] = reliable_ack_pending[e]
    PROVE  OwedBy(e)'
<1>1. LastSent(e)' = LastSent(e)
  BY DEF LastSent
<1> QED
  BY <1>1 DEF OwedBy

LEMMA OwedTransmit ==
    ASSUME InductiveInv, NEW e \in Ends, Transmit(e)
    PROVE  OwedBy(e)'
<1> DEFINE p == NextPacket(e)
<1>1. TypeOK /\ SequencesOrdered(e)
  BY DEF InductiveInv, DirectionInv
<1>2. /\ p.sequence = outgoing_sequence[e]
      /\ p.rack = incoming_reliable_sequence[e]
  BY DEF NextPacket
<1>3. /\ network'[e] = network[e] \cup {p}
      /\ incoming_reliable_sequence' = incoming_reliable_sequence
  BY <1>1 DEF Transmit, TypeOK, sequenceVars
<1>4. \A q \in network[e] : q.sequence < outgoing_sequence[e]
  BY <1>1 DEF SequencesOrdered
<1>5. /\ outgoing_sequence[e] \in Nat
      /\ \A q \in network[e] : q.sequence \in Nat
  BY <1>1, FieldTypes, PacketTypes
<1> HIDE DEF p
<1>6. \A q \in network'[e] : q.sequence <= p.sequence
  BY <1>2, <1>3, <1>4, <1>5
<1> QED
  BY <1>2, <1>3, <1>6 DEF OwedBy, LastSent

LEMMA OwedAccept ==
    ASSUME TypeOK, NEW e \in Ends, OwedBy(e), NEW p, Accept(e, p)
    PROVE  OwedBy(e)'
<1>1. CASE p.reliable
  BY <1>1 DEF Accept, OwedBy, TypeOK
<1>2. CASE ~ p.reliable
  BY <1>2, OwedUnchanged DEF Accept
<1> QED
  BY <1>1, <1>2

LEMMA OwedNext ==
    InductiveInv /\ AcknowledgementOwed /\ [Next]_chanVars => AcknowledgementOwed'
<1> SUFFICES ASSUME InductiveInv, AcknowledgementOwed, [Next]_chanVars,
                    NEW e \in Ends
             PROVE  OwedBy(e)'
  BY DEF AcknowledgementOwed, OwedBy
<1>1. TypeOK /\ OwedBy(e)
  BY DEF InductiveInv, AcknowledgementOwed, OwedBy
<1>2. CASE UNCHANGED chanVars
  BY <1>1, <1>2, OwedUnchanged DEF chanVars, sequenceVars
<1>3. ASSUME NEW x \in Ends, WriteMessage(x) PROVE OwedBy(e)'
  BY <1>1, <1>3, OwedUnchanged DEF WriteMessage, sequenceVars
<1>4. ASSUME NEW x \in Ends, Transmit(x) PROVE OwedBy(e)'
  <2>1. CASE x = e
    BY <1>4, <2>1, OwedTransmit
  <2>2. CASE x # e
    <3>1. /\ network'[e] = network[e]
          /\ reliable_ack_pending'[e] = reliable_ack_pending[e]
          /\ incoming_reliable_sequence' = incoming_reliable_sequence
      BY <1>1, <1>4, <2>2 DEF Transmit, TypeOK, sequenceVars
    <3> QED
      BY <1>1, <3>1, OwedUnchanged
  <2> QED
    BY <2>1, <2>2
<1>5. ASSUME NEW x \in Ends, NEW p \in network[Peer(x)], Accept(x, p)
      PROVE  OwedBy(e)'
  <2>1. CASE x = e
    BY <1>1, <1>5, <2>1, OwedAccept
  <2>2. CASE x # e
    <3>1. /\ network' = network
          /\ reliable_ack_pending'[e] = reliable_ack_pending[e]
          /\ incoming_reliable_sequence'[e] = incoming_reliable_sequence[e]
      BY <1>1, <1>5, <2>2 DEF Accept, TypeOK
    <3> QED
      BY <1>1, <3>1, OwedUnchanged
  <2> QED
    BY <2>1, <2>2
<1>6. ASSUME NEW x \in Ends, NEW p, DropStale(x, p) \/ DropFuture(x, p)
      PROVE  OwedBy(e)'
  BY <1>1, <1>6, OwedUnchanged DEF DropStale, DropFuture, chanVars, sequenceVars
<1> QED
  BY <1>2, <1>3, <1>4, <1>5, <1>6 DEF Next, Process

\* AcknowledgementOwed: an end of the OLD channel that has not told its peer
\* of the newest batch has the acknowledgement pending, so the next frame in
\* which Netchan_ShouldUpdate is asked sends it.
THEOREM AcknowledgementIsOwed == Spec => []AcknowledgementOwed
<1>1. Init => AcknowledgementOwed
  BY DEF Init, ChanInit, AcknowledgementOwed
<1> QED
  BY <1>1, OwedNext, InvariantHolds, PTL DEF Spec

=============================================================================
