------------------------------ MODULE Netchan ------------------------------
(***************************************************************************)
(* State and helpers common to the two net channel types of                *)
(* src/common/net/chan.c: the sequence numbers, the even/odd reliable bits *)
(* and the acknowledgement rule.  NetchanOld and NetchanNew add their      *)
(* transmit and receive handlers.                                          *)
(*                                                                         *)
(* A reliable message is a number; `written' numbers them per sender.  The *)
(* network keeps every packet ever sent: a packet may be processed late,   *)
(* twice or never, so delay, reordering, duplication and loss are all in   *)
(* the choice of the packet that is processed next.                        *)
(***************************************************************************)
EXTENDS NetSequence, Integers, Sequences

CONSTANTS Server, Client,  \* the two ends
          MessageMax,      \* capacity of the `message' buffer, in messages
          MaxWritten,      \* bound: messages written per end (a function)
          MaxOutgoing      \* bound: outgoing_sequence per end (a function)

Ends == {Server, Client}

ASSUME TwoEnds == Server # Client
ASSUME CapacityAssumption == MessageMax \in Nat \ {0}
ASSUME BoundAssumption == /\ MaxWritten \in [Ends -> Nat]
                          /\ MaxOutgoing \in [Ends -> Nat]

VARIABLES
    incoming_sequence,              \* newest sequence processed
    outgoing_sequence,              \* sequence of the next packet
    incoming_acknowledged,          \* newest sequence of ours acknowledged
    incoming_reliable_acknowledged, \* even/odd bit that came with it
    incoming_reliable_sequence,     \* even/odd bit of what we received
    reliable_sequence,              \* even/odd bit of what we send
    last_reliable_sequence,         \* sequence of our last reliable packet
    reliable_buf,                   \* sealed messages not yet acknowledged
    message,                        \* messages waiting to be sealed
    overflowed,                     \* message.overflowed
    reliable_ack_pending,           \* we owe the peer an acknowledgement
    future_acknowledgements,        \* diagnostic counters
    conflicting_acknowledgements,
    network,    \* network[e]: packets e has sent
    written,    \* history: number of messages written to e
    sealed,     \* history: messages e moved to reliable_buf, in order
    delivered   \* history: reliable messages the peer of e has read

sequenceVars == <<incoming_sequence, incoming_reliable_sequence>>
ackVars == <<incoming_acknowledged, incoming_reliable_acknowledged>>
counterVars == <<future_acknowledgements, conflicting_acknowledgements>>
chanVars == <<sequenceVars, ackVars, counterVars, outgoing_sequence,
              reliable_sequence, last_reliable_sequence, reliable_buf, message,
              overflowed, reliable_ack_pending, network, written, sealed,
              delivered>>

Peer(e) == IF e = Server THEN Client ELSE Server
Bit == {0, 1}
\* Mutant of Flip: the even/odd bit counts on.
FlipCounts(b) == b + 1

Flip(b) == 1 - b

-----------------------------------------------------------------------------
\* Netchan_Setup on both ends.
ChanInit ==
    /\ incoming_sequence              = [e \in Ends |-> 0]
    /\ outgoing_sequence              = [e \in Ends |-> 1]
    /\ incoming_acknowledged          = [e \in Ends |-> 0]
    /\ incoming_reliable_acknowledged = [e \in Ends |-> 0]
    /\ incoming_reliable_sequence     = [e \in Ends |-> 0]
    /\ reliable_sequence              = [e \in Ends |-> 0]
    /\ last_reliable_sequence         = [e \in Ends |-> 0]
    /\ reliable_buf                   = [e \in Ends |-> <<>>]
    /\ message                        = [e \in Ends |-> <<>>]
    /\ overflowed                     = [e \in Ends |-> FALSE]
    /\ reliable_ack_pending           = [e \in Ends |-> FALSE]
    /\ future_acknowledgements        = [e \in Ends |-> 0]
    /\ conflicting_acknowledgements   = [e \in Ends |-> 0]
    /\ network                        = [e \in Ends |-> {}]
    /\ written                        = [e \in Ends |-> 0]
    /\ sealed                         = [e \in Ends |-> <<>>]
    /\ delivered                      = [e \in Ends |-> <<>>]

\* Mutant of WriteMessage: the overflow goes unnoticed.
WriteMessageSilently(e) ==
    LET id == written[e] + 1
        full == Len(message[e]) = MessageMax
    IN  /\ written[e] < MaxWritten[e]
        /\ written' = [written EXCEPT ![e] = id]
        /\ message' = [message EXCEPT
                          ![e] = IF full THEN <<id>> ELSE Append(@, id)]
        /\ UNCHANGED <<sequenceVars, ackVars, counterVars, outgoing_sequence,
                       reliable_sequence, last_reliable_sequence, reliable_buf,
                       reliable_ack_pending, network, sealed, delivered,
                       overflowed>>

\* MSG_Write*(&chan->message, ...): an overflowing write clears the buffer,
\* keeps what is being written and marks the buffer overflowed (SZ_GetSpace).
WriteMessage(e) ==
    LET id == written[e] + 1
        full == Len(message[e]) = MessageMax
    IN  /\ written[e] < MaxWritten[e]
        /\ written' = [written EXCEPT ![e] = id]
        /\ message' = [message EXCEPT
                          ![e] = IF full THEN <<id>> ELSE Append(@, id)]
        /\ overflowed' = [overflowed EXCEPT ![e] = @ \/ full]
        /\ UNCHANGED <<sequenceVars, ackVars, counterVars, outgoing_sequence,
                       reliable_sequence, last_reliable_sequence, reliable_buf,
                       reliable_ack_pending, network, sealed, delivered>>

-----------------------------------------------------------------------------
\* Mutant of RemoteDroppedReliable: resends before the peer had its say.
RemoteMayHaveDroppedReliable(e) ==
    incoming_reliable_acknowledged[e] # reliable_sequence[e]

\* The peer acknowledged a packet newer than our last reliable one without
\* the right even/odd bit: it never got the reliable message.
RemoteDroppedReliable(e) ==
    /\ incoming_acknowledged[e] > last_reliable_sequence[e]
    /\ incoming_reliable_acknowledged[e] # reliable_sequence[e]

\* Mutant of CanSeal: a new batch replaces the unacknowledged one.
CanSealOver(e) == message[e] # <<>>

\* The reliable buffer is free and there is something to seal into it.
CanSeal(e) == reliable_buf[e] = <<>> /\ message[e] # <<>>

AckClass(e, p) ==
    ClassifyAck(p.ack, incoming_acknowledged[e], outgoing_sequence[e])

AckConsistent(e, p) ==
    ReliableAckConsistent(p.ack, p.rack, incoming_acknowledged[e],
                          incoming_reliable_acknowledged[e])

\* Netchan_ProcessAcknowledgement when it returns true.
ProcessAcknowledgement(e, p) ==
    /\ AckClass(e, p) # "FUTURE"
    /\ UNCHANGED future_acknowledgements
    /\ \/ /\ AckClass(e, p) = "STALE"
          /\ UNCHANGED <<ackVars, conflicting_acknowledgements, reliable_buf>>
       \/ /\ AckClass(e, p) = "ACCEPTED"
          /\ ~ AckConsistent(e, p)
          /\ conflicting_acknowledgements' =
                 [conflicting_acknowledgements EXCEPT ![e] = @ + 1]
          /\ UNCHANGED <<ackVars, reliable_buf>>
       \/ /\ AckClass(e, p) = "ACCEPTED"
          /\ AckConsistent(e, p)
          /\ incoming_acknowledged' = [incoming_acknowledged EXCEPT ![e] = p.ack]
          /\ incoming_reliable_acknowledged' =
                 [incoming_reliable_acknowledged EXCEPT ![e] = p.rack]
          /\ reliable_buf' = IF p.rack = reliable_sequence[e]
                             THEN [reliable_buf EXCEPT ![e] = <<>>]
                             ELSE reliable_buf
          /\ UNCHANGED conflicting_acknowledgements

\* Netchan_ProcessAcknowledgement when it returns false: the packet is dropped.
RejectAcknowledgement(e, p) ==
    /\ AckClass(e, p) = "FUTURE"
    /\ future_acknowledgements' = [future_acknowledgements EXCEPT ![e] = @ + 1]

-----------------------------------------------------------------------------
(***************************************************************************)
(* Properties of both channel types.                                       *)
(***************************************************************************)
\* What the peer has read is all that was sealed, or all but the batch that
\* the sender still holds for retransmission: reliable messages are read in
\* order, once, and none is forgotten before it was read.
ReliableInOrderOnce ==
    \A e \in Ends :
        \/ sealed[e] = delivered[e]
        \/ /\ reliable_buf[e] # <<>>
           /\ sealed[e] = delivered[e] \o reliable_buf[e]

\* Between two honest ends no packet, however late, is rejected for its
\* acknowledgement, and one acknowledged sequence never comes with two bits:
\* the two checks of Netchan_ProcessAcknowledgement only ever hit strangers.
AcknowledgementsAgree ==
    \A e \in Ends : /\ future_acknowledgements[e] = 0
                    /\ conflicting_acknowledgements[e] = 0

\* Unless the buffer overflowed, every message written is sealed or waiting,
\* each once; a queue-ordered sender seals them in the order written.
NothingForgotten ==
    \A e \in Ends :
        ~ overflowed[e] =>
            sealed[e] \o message[e] = [i \in 1 .. written[e] |-> i]

\* An end that has told its peer of the newest reliable batch only by the
\* old bit has an acknowledgement pending, so Netchan_ShouldUpdate sends it.
LastSent(e) == {p \in network[e] : \A q \in network[e] : q.sequence <= p.sequence}
AcknowledgementOwed ==
    \A e \in Ends :
        \/ \E p \in LastSent(e) : p.rack = incoming_reliable_sequence[e]
        \/ network[e] = {} /\ incoming_reliable_sequence[e] = 0
        \/ reliable_ack_pending[e]

\* Seen from outside the channel is the reliable channel it promises to be:
\* `released' counts the messages no longer held for retransmission.
Channel == INSTANCE ReliableChannel
               WITH accepted <- sealed,
                    released <- [e \in Ends |->
                                    Len(sealed[e]) - Len(reliable_buf[e])]
ImplementsChannel == Channel!Spec

-----------------------------------------------------------------------------
(***************************************************************************)
(* Why this is so, one direction at a time: e sends, Peer(e) reads and     *)
(* acknowledges.  Parts of the inductive invariants of both types.         *)
(***************************************************************************)
\* What was, is or may come to be an acknowledgement for e: a sequence and
\* the even/odd bit that goes with it.
AckOf(p) == <<p.ack, p.rack>>
Acknowledgements(e) ==
    {AckOf(p) : p \in network[Peer(e)]} \cup
    {<<incoming_acknowledged[e], incoming_reliable_acknowledged[e]>>,
     <<incoming_sequence[Peer(e)], incoming_reliable_sequence[Peer(e)]>>}

\* One acknowledged sequence, one bit.
OneBitPerAck(e) ==
    \A x, y \in Acknowledgements(e) : x[1] = y[1] => x[2] = y[2]

\* What is acknowledged after the last reliable packet tells the peer's bit.
LateAckIsCurrent(e) ==
    \A x \in Acknowledgements(e) :
        x[1] > last_reliable_sequence[e]
            => x[2] = incoming_reliable_sequence[Peer(e)]

\* From the first acknowledgement of the batch in hand, all acknowledge it.
AckStays(e) ==
    \A x, y \in Acknowledgements(e) :
        /\ x[2] = reliable_sequence[e]
        /\ incoming_acknowledged[e] <= x[1]
        /\ x[1] <= y[1]
        => y[2] = reliable_sequence[e]

\* The buffer is free only when the newest acknowledgement has our bit.
FreeIsAcknowledged(e) ==
    reliable_buf[e] = <<>>
        => incoming_reliable_acknowledged[e] = reliable_sequence[e]

\* The two bits tell whether the peer has read the batch in hand.
BitsTellDelivery(e) ==
    IF incoming_reliable_sequence[Peer(e)] = reliable_sequence[e]
    THEN sealed[e] = delivered[e]
    ELSE /\ reliable_buf[e] # <<>>
         /\ sealed[e] = delivered[e] \o reliable_buf[e]
=============================================================================
