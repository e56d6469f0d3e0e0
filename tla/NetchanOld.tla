----------------------------- MODULE NetchanOld -----------------------------
(***************************************************************************)
(* The NETCHAN_OLD channel of src/common/net/chan.c: one packet per        *)
(* transmit, the reliable batch first.  The unreliable part of a packet is *)
(* not modelled: it is either added or dumped and changes no state.        *)
(***************************************************************************)
EXTENDS Netchan

\* NetchanOld_Transmit.  A packet is sent even when there is nothing to say;
\* it carries the reliable batch when that is new or known to be lost.
SendsReliable(e) == CanSeal(e) \/ RemoteDroppedReliable(e)

BatchToSend(e) == IF CanSeal(e) THEN message[e] ELSE reliable_buf[e]

NextPacket(e) ==
    [sequence |-> outgoing_sequence[e],
     reliable |-> SendsReliable(e),
     ack      |-> incoming_sequence[e],
     rack     |-> incoming_reliable_sequence[e],
     data     |-> IF SendsReliable(e) THEN BatchToSend(e) ELSE <<>>]

Transmit(e) ==
    /\ ~ overflowed[e]
    /\ outgoing_sequence[e] < MaxOutgoing[e]
    /\ reliable_buf' = [reliable_buf EXCEPT ![e] = BatchToSend(e)]
    /\ IF CanSeal(e)
       THEN /\ message' = [message EXCEPT ![e] = <<>>]
            /\ sealed' = [sealed EXCEPT ![e] = @ \o message[e]]
            /\ reliable_sequence' = [reliable_sequence EXCEPT ![e] = Flip(@)]
       ELSE UNCHANGED <<message, sealed, reliable_sequence>>
    /\ last_reliable_sequence' =
           IF SendsReliable(e)
           THEN [last_reliable_sequence EXCEPT ![e] = outgoing_sequence[e]]
           ELSE last_reliable_sequence
    /\ network' = [network EXCEPT ![e] = @ \cup {NextPacket(e)}]
    /\ outgoing_sequence' = [outgoing_sequence EXCEPT ![e] = @ + 1]
    /\ reliable_ack_pending' = [reliable_ack_pending EXCEPT ![e] = FALSE]
    /\ UNCHANGED <<sequenceVars, ackVars, counterVars, overflowed, written,
                   delivered>>

\* Mutant of Accept: forgets that a reliable message wants an answer.
AcceptSilently(e, p) ==
    /\ IsNewer(p.sequence, incoming_sequence[e])
    /\ ProcessAcknowledgement(e, p)
    /\ incoming_sequence' = [incoming_sequence EXCEPT ![e] = p.sequence]
    /\ incoming_reliable_sequence' =
           IF p.reliable
           THEN [incoming_reliable_sequence EXCEPT ![e] = Flip(@)]
           ELSE incoming_reliable_sequence
    /\ delivered' = [delivered EXCEPT ![Peer(e)] = @ \o p.data]
    /\ UNCHANGED <<reliable_ack_pending, outgoing_sequence, reliable_sequence,
                   last_reliable_sequence, message, overflowed, network,
                   written, sealed>>

\* NetchanOld_Process of a packet that passes both checks: the payload goes
\* to the reader.
Accept(e, p) ==
    /\ IsNewer(p.sequence, incoming_sequence[e])
    /\ ProcessAcknowledgement(e, p)
    /\ incoming_sequence' = [incoming_sequence EXCEPT ![e] = p.sequence]
    /\ IF p.reliable
       THEN /\ reliable_ack_pending' = [reliable_ack_pending EXCEPT ![e] = TRUE]
            /\ incoming_reliable_sequence' =
                   [incoming_reliable_sequence EXCEPT ![e] = Flip(@)]
       ELSE UNCHANGED <<reliable_ack_pending, incoming_reliable_sequence>>
    /\ delivered' = [delivered EXCEPT ![Peer(e)] = @ \o p.data]
    /\ UNCHANGED <<outgoing_sequence, reliable_sequence, last_reliable_sequence,
                   message, overflowed, network, written, sealed>>

\* A stale or duplicated packet changes nothing.
DropStale(e, p) ==
    /\ ~ IsNewer(p.sequence, incoming_sequence[e])
    /\ UNCHANGED chanVars

\* A packet that acknowledges what was never sent is dropped and counted.
DropFuture(e, p) ==
    /\ IsNewer(p.sequence, incoming_sequence[e])
    /\ RejectAcknowledgement(e, p)
    /\ UNCHANGED <<sequenceVars, ackVars, conflicting_acknowledgements,
                   outgoing_sequence, reliable_sequence, last_reliable_sequence,
                   reliable_buf, message, overflowed, reliable_ack_pending,
                   network, written, sealed, delivered>>

Process(e, p) == Accept(e, p) \/ DropStale(e, p) \/ DropFuture(e, p)

Init == ChanInit

Next == \E e \in Ends :
            \/ WriteMessage(e)
            \/ Transmit(e)
            \/ \E p \in network[Peer(e)] : Process(e, p)

Spec == Init /\ [][Next]_chanVars

-----------------------------------------------------------------------------
Packet ==
    [sequence : Nat, reliable : BOOLEAN, ack : Nat, rack : Bit, data : Seq(Nat)]

\* Every variable has its type.
TypeOK ==
    /\ incoming_sequence \in [Ends -> Nat]
    /\ outgoing_sequence \in [Ends -> Nat]
    /\ incoming_acknowledged \in [Ends -> Nat]
    /\ incoming_reliable_acknowledged \in [Ends -> Bit]
    /\ incoming_reliable_sequence \in [Ends -> Bit]
    /\ reliable_sequence \in [Ends -> Bit]
    /\ last_reliable_sequence \in [Ends -> Nat]
    /\ reliable_buf \in [Ends -> Seq(Nat)]
    /\ message \in [Ends -> Seq(Nat)]
    /\ overflowed \in [Ends -> BOOLEAN]
    /\ reliable_ack_pending \in [Ends -> BOOLEAN]
    /\ future_acknowledgements \in [Ends -> Nat]
    /\ conflicting_acknowledgements \in [Ends -> Nat]
    /\ network \in [Ends -> SUBSET Packet]
    /\ written \in [Ends -> Nat]
    /\ sealed \in [Ends -> Seq(Nat)]
    /\ delivered \in [Ends -> Seq(Nat)]

-----------------------------------------------------------------------------
(***************************************************************************)
(* The inductive invariant, one direction at a time (see Netchan).         *)
(***************************************************************************)
\* The sequence numbers in use lie behind the counters they came from.
SequencesOrdered(e) ==
    /\ last_reliable_sequence[e] < outgoing_sequence[e]
    /\ incoming_sequence[Peer(e)] < outgoing_sequence[e]
    /\ \A p \in network[e] : p.sequence < outgoing_sequence[e]
    /\ \A x \in Acknowledgements(e) : x[1] <= incoming_sequence[Peer(e)]

\* A reliable packet the peer may still accept is the last one sent, holds
\* the batch in hand, and the peer has not read that batch.
OneReliableInFlight(e) ==
    \A p \in network[e] :
        /\ ~ p.reliable => p.data = <<>>
        /\ p.reliable => p.sequence <= last_reliable_sequence[e]
        /\ p.reliable /\ p.sequence > incoming_sequence[Peer(e)] =>
              /\ p.sequence = last_reliable_sequence[e]
              /\ p.data = reliable_buf[e]
              /\ incoming_reliable_sequence[Peer(e)] # reliable_sequence[e]

DirectionInv(e) ==
    /\ SequencesOrdered(e)
    /\ OneBitPerAck(e)
    /\ LateAckIsCurrent(e)
    /\ AckStays(e)
    /\ FreeIsAcknowledged(e)
    /\ OneReliableInFlight(e)
    /\ BitsTellDelivery(e)

\* The inductive invariant: types, both directions, counters untouched.
InductiveInv ==
    /\ TypeOK
    /\ AcknowledgementsAgree
    /\ \A e \in Ends : DirectionInv(e)

=============================================================================
