----------------------------- MODULE NetchanNew -----------------------------
(***************************************************************************)
(* The NETCHAN_NEW channel of src/common/net/chan.c: like the OLD channel, *)
(* but a message longer than a packet is sent in fragments that share one  *)
(* sequence, and the server may seal a prefix of the queue or an isolated  *)
(* message as a reliable batch of its own.                                 *)
(*                                                                         *)
(* Lengths are counted in units.  A unit is an integer: a negative one is  *)
(* an isolated reliable message, one up to MaxWritten a reliable message   *)
(* of the ordinary queue, a greater one unreliable data.  The application  *)
(* hooks are not installed, so a packet passes them untouched.             *)
(***************************************************************************)
EXTENDS Netchan

CONSTANTS MaxPacketLen,       \* chan->maxpacketlen, in units
          UnreliableLengths,  \* lengths of the datagrams the game sends
          MaxIsolated         \* bound: isolated messages per end (a function)

ASSUME LengthAssumption == /\ MaxPacketLen \in Nat \ {0}
                           /\ UnreliableLengths \subseteq Nat
                           /\ 0 \in UnreliableLengths
                           /\ MaxIsolated \in [Ends -> Nat]

VARIABLES
    fragment_out,       \* the message being sent in fragments
    readcount,          \* how much of fragment_out has been sent
    fragment_pending,   \* fragments remain to be sent
    fragment_in,        \* the message being reassembled
    fragment_sequence,  \* the sequence it belongs to
    isolated,           \* history: number of isolated messages sent
    assembled,          \* history: assembled[e][s], the message sent as s
    msg_read            \* history: the message the application read last

fragmentVars == <<fragment_out, readcount, fragment_pending>>
reassemblyVars == <<fragment_in, fragment_sequence>>
vars == <<chanVars, fragmentVars, reassemblyVars, isolated, assembled, msg_read>>

\* The datagram that e sends next: no two packets carry the same.
Unreliable(e, len) == [i \in 1 .. len |-> MaxWritten[e] + outgoing_sequence[e]]

\* The units that are of a kind, in order.
UnitsIn(units, kind) ==
    LET upTo[i \in 0 .. Len(units)] ==
            IF i = 0 THEN <<>>
            ELSE IF units[i] \in kind THEN Append(upTo[i - 1], units[i])
            ELSE upTo[i - 1]
    IN  upTo[Len(units)]
Reliable(e) == {u \in Int : u <= MaxWritten[e]}
Ordinary == {u \in Int : u > 0}
ReliableUnits(e, units) == UnitsIn(units, Reliable(e))
Least(m, n) == IF m < n THEN m ELSE n

-----------------------------------------------------------------------------
(***************************************************************************)
(* Sending.                                                                *)
(***************************************************************************)
\* Netchan_TransmitNextFragment: the fragment of `out' that starts at `from'.
\* Its reliable bit says whether the reliable buffer holds anything.
FragmentPacket(e, out, from, rel) ==
    LET len == Least(Len(out) - from, MaxPacketLen)
    IN  [sequence |-> outgoing_sequence[e],
         reliable |-> rel # <<>>,
         ack      |-> incoming_sequence[e],
         rack     |-> incoming_reliable_sequence[e],
         fragment |-> TRUE,
         offset   |-> from,
         more     |-> from + len # Len(out),
         data     |-> SubSeq(out, from + 1, from + len)]

\* Mutant of SendFragment: the buffer is not cleared after the last fragment.
SendFragmentKeep(e, out, from, rel) ==
    LET p == FragmentPacket(e, out, from, rel)
    IN  /\ network' = [network EXCEPT ![e] = @ \cup {p}]
        /\ fragment_pending' = [fragment_pending EXCEPT ![e] = p.more]
        /\ fragment_out' = [fragment_out EXCEPT ![e] = out]
        /\ readcount' = [readcount EXCEPT ![e] = from + Len(p.data)]
        /\ outgoing_sequence' = [outgoing_sequence EXCEPT
                                    ![e] = IF p.more THEN @ ELSE @ + 1]
        /\ UNCHANGED reliable_ack_pending

SendFragment(e, out, from, rel) ==
    LET p == FragmentPacket(e, out, from, rel)
    IN  /\ network' = [network EXCEPT ![e] = @ \cup {p}]
        /\ fragment_pending' = [fragment_pending EXCEPT ![e] = p.more]
        /\ IF p.more
           THEN /\ fragment_out' = [fragment_out EXCEPT ![e] = out]
                /\ readcount' = [readcount EXCEPT ![e] = from + Len(p.data)]
                /\ UNCHANGED outgoing_sequence
           ELSE /\ fragment_out' = [fragment_out EXCEPT ![e] = <<>>]
                /\ readcount' = [readcount EXCEPT ![e] = 0]
                /\ outgoing_sequence' = [outgoing_sequence EXCEPT ![e] = @ + 1]
        /\ UNCHANGED reliable_ack_pending

TransmitNextFragment(e) ==
    /\ fragment_pending[e]
    /\ SendFragment(e, fragment_out[e], readcount[e], reliable_buf[e])
    /\ UNCHANGED <<sequenceVars, ackVars, counterVars, reliable_sequence,
                   last_reliable_sequence, reliable_buf, message, overflowed,
                   written, sealed, delivered, reassemblyVars, isolated,
                   assembled, msg_read>>

\* NetchanNew_Transmit once the reliable batch `rel' to go out (if `send') is
\* known: one packet when it fits, else the first fragment.
SendMessage(e, rel, send, len) ==
    LET relPart == IF send THEN rel ELSE <<>>
        split == \/ len > MaxPacketLen
                 \/ send /\ Len(rel) + len > MaxPacketLen
        \* fragment_out is as large as the message buffer: what does not fit
        \* is dumped
        payload == IF split /\ Len(relPart) + len > MessageMax
                   THEN relPart ELSE relPart \o Unreliable(e, len)
        packet == [sequence |-> outgoing_sequence[e],
                   reliable |-> send,
                   ack      |-> incoming_sequence[e],
                   rack     |-> incoming_reliable_sequence[e],
                   fragment |-> FALSE,
                   offset   |-> 0,
                   more     |-> FALSE,
                   data     |-> payload]
    IN  /\ outgoing_sequence[e] < MaxOutgoing[e]
        /\ last_reliable_sequence' =
               IF send THEN [last_reliable_sequence EXCEPT
                                ![e] = outgoing_sequence[e]]
               ELSE last_reliable_sequence
        /\ assembled' = [assembled EXCEPT ![e] = Append(@, payload)]
        /\ IF split
           THEN SendFragment(e, payload, 0, rel)
           ELSE /\ network' = [network EXCEPT ![e] = @ \cup {packet}]
                /\ outgoing_sequence' = [outgoing_sequence EXCEPT ![e] = @ + 1]
                /\ reliable_ack_pending' =
                       [reliable_ack_pending EXCEPT ![e] = FALSE]
                /\ UNCHANGED fragmentVars
        /\ UNCHANGED <<sequenceVars, ackVars, counterVars, overflowed,
                       delivered, reassemblyVars, msg_read>>

\* Mutant of SealBatch: the bit stays the same.
SealBatchSameBit(e, batch) ==
    /\ reliable_buf' = [reliable_buf EXCEPT ![e] = batch]
    /\ sealed' = [sealed EXCEPT ![e] = @ \o batch]
    /\ UNCHANGED reliable_sequence

\* A new reliable batch takes the buffer and the other even/odd bit.
SealBatch(e, batch) ==
    /\ reliable_buf' = [reliable_buf EXCEPT ![e] = batch]
    /\ reliable_sequence' = [reliable_sequence EXCEPT ![e] = Flip(@)]
    /\ sealed' = [sealed EXCEPT ![e] = @ \o batch]

\* Netchan_Transmit of a datagram of len units (0: nothing but the header).
Transmit(e, len) ==
    /\ ~ overflowed[e]
    /\ ~ fragment_pending[e]
    /\ IF CanSeal(e)
       THEN /\ SealBatch(e, message[e])
            /\ message' = [message EXCEPT ![e] = <<>>]
            /\ SendMessage(e, message[e], TRUE, len)
       ELSE /\ SendMessage(e, reliable_buf[e], RemoteDroppedReliable(e), len)
            /\ UNCHANGED <<reliable_buf, reliable_sequence, sealed, message>>
    /\ UNCHANGED <<written, isolated>>

\* Mutant of ReliableHandoffReady: looks only at the fragments.
ReliableHandoffAnyTime(e) == ~ overflowed[e] /\ ~ fragment_pending[e]

\* Netchan_ReliableHandoffReady: nothing reliable and no fragment under way.
ReliableHandoffReady(e) ==
    /\ ~ overflowed[e]
    /\ reliable_buf[e] = <<>>
    /\ ~ fragment_pending[e]

\* Mutant of TransmitQueuedReliablePrefix: moves the rest by one too many.
TransmitQueuedReliablePrefixOffByOne(e, n) ==
    /\ ReliableHandoffReady(e)
    /\ n \in 1 .. Len(message[e])
    /\ LET prefix == SubSeq(message[e], 1, n)
       IN  /\ SealBatch(e, prefix)
           /\ SendMessage(e, prefix, TRUE, 0)
    /\ message' = [message EXCEPT ![e] = SubSeq(@, n + 2, Len(@))]
    /\ UNCHANGED <<written, isolated>>

\* Netchan_TransmitQueuedReliablePrefix: the first n queued messages become a
\* batch, the rest of the queue stays.
TransmitQueuedReliablePrefix(e, n) ==
    /\ ReliableHandoffReady(e)
    /\ n \in 1 .. Len(message[e])
    /\ LET prefix == SubSeq(message[e], 1, n)
       IN  /\ SealBatch(e, prefix)
           /\ SendMessage(e, prefix, TRUE, 0)
    /\ message' = [message EXCEPT ![e] = SubSeq(@, n + 1, Len(@))]
    /\ UNCHANGED <<written, isolated>>

\* Netchan_TransmitIsolatedReliable: a batch that overtakes the whole queue.
TransmitIsolatedReliable(e) ==
    LET batch == << - isolated[e] - 1 >>
    IN  /\ ReliableHandoffReady(e)
        /\ isolated[e] < MaxIsolated[e]
        /\ SealBatch(e, batch)
        /\ SendMessage(e, batch, TRUE, 0)
        /\ isolated' = [isolated EXCEPT ![e] = @ + 1]
        /\ UNCHANGED <<message, written>>

-----------------------------------------------------------------------------
(***************************************************************************)
(* Receiving: NetchanNew_Process.                                          *)
(***************************************************************************)
\* What Process never touches.
sendingVars == <<outgoing_sequence, reliable_sequence, last_reliable_sequence,
                 message, overflowed, network, written, sealed, fragmentVars,
                 isolated, assembled>>

\* The whole message of packet p has arrived: it goes to the application.
Consume(e, p, units) ==
    /\ incoming_sequence' = [incoming_sequence EXCEPT ![e] = p.sequence]
    /\ IF p.reliable
       THEN /\ reliable_ack_pending' = [reliable_ack_pending EXCEPT ![e] = TRUE]
            /\ incoming_reliable_sequence' =
                   [incoming_reliable_sequence EXCEPT ![e] = Flip(@)]
       ELSE UNCHANGED <<reliable_ack_pending, incoming_reliable_sequence>>
    /\ delivered' = [delivered EXCEPT
                        ![Peer(e)] = @ \o ReliableUnits(Peer(e), units)]
    /\ msg_read' = [msg_read EXCEPT ![e] = units]

NotYet == UNCHANGED <<sequenceVars, reliable_ack_pending, delivered, msg_read>>

AcceptWhole(e, p) ==
    /\ ~ p.fragment
    /\ IsNewer(p.sequence, incoming_sequence[e])
    /\ ProcessAcknowledgement(e, p)
    /\ Consume(e, p, p.data)
    /\ UNCHANGED <<reassemblyVars, sendingVars>>

\* Mutant of AcceptFragment: a new sequence does not start a new message.
AcceptFragmentMixed(e, p) ==
    LET joined == fragment_in[e] \o p.data
        drop == \/ p.offset # Len(fragment_in[e])
                \/ Len(joined) > MessageMax
    IN  /\ p.fragment
        /\ IsNewer(p.sequence, incoming_sequence[e])
        /\ ProcessAcknowledgement(e, p)
        /\ fragment_sequence' = [fragment_sequence EXCEPT ![e] = p.sequence]
        /\ \/ drop /\ UNCHANGED fragment_in /\ NotYet
           \/ /\ ~ drop /\ p.more
              /\ fragment_in' = [fragment_in EXCEPT ![e] = joined]
              /\ NotYet
           \/ /\ ~ drop /\ ~ p.more
              /\ fragment_in' = [fragment_in EXCEPT ![e] = <<>>]
              /\ Consume(e, p, joined)
        /\ UNCHANGED sendingVars

\* The acknowledgement in a fragment counts even if the fragment does not.
\* A fragment of another sequence starts a new message; one that does not
\* continue the message in hand, or does not fit, is dropped.
AcceptFragment(e, p) ==
    LET inHand == IF fragment_sequence[e] = p.sequence
                  THEN fragment_in[e] ELSE <<>>
        joined == inHand \o p.data
        drop == \/ p.offset # Len(inHand)
                \/ Len(joined) > MessageMax
    IN  /\ p.fragment
        /\ IsNewer(p.sequence, incoming_sequence[e])
        /\ ProcessAcknowledgement(e, p)
        /\ fragment_sequence' = [fragment_sequence EXCEPT ![e] = p.sequence]
        /\ \/ /\ drop
              /\ fragment_in' = [fragment_in EXCEPT ![e] = inHand]
              /\ NotYet
           \/ /\ ~ drop /\ p.more
              /\ fragment_in' = [fragment_in EXCEPT ![e] = joined]
              /\ NotYet
           \/ /\ ~ drop /\ ~ p.more
              /\ fragment_in' = [fragment_in EXCEPT ![e] = <<>>]
              /\ Consume(e, p, joined)
        /\ UNCHANGED sendingVars

DropStale(e, p) ==
    /\ ~ IsNewer(p.sequence, incoming_sequence[e])
    /\ UNCHANGED vars

DropFuture(e, p) ==
    /\ IsNewer(p.sequence, incoming_sequence[e])
    /\ RejectAcknowledgement(e, p)
    /\ UNCHANGED <<sequenceVars, ackVars, conflicting_acknowledgements,
                   reliable_buf, reliable_ack_pending, delivered, msg_read,
                   reassemblyVars, sendingVars>>

Process(e, p) == \/ AcceptWhole(e, p)
                 \/ AcceptFragment(e, p)
                 \/ DropStale(e, p)
                 \/ DropFuture(e, p)

-----------------------------------------------------------------------------
Init ==
    /\ ChanInit
    /\ fragment_out      = [e \in Ends |-> <<>>]
    /\ readcount         = [e \in Ends |-> 0]
    /\ fragment_pending  = [e \in Ends |-> FALSE]
    /\ fragment_in       = [e \in Ends |-> <<>>]
    /\ fragment_sequence = [e \in Ends |-> 0]
    /\ isolated          = [e \in Ends |-> 0]
    /\ assembled         = [e \in Ends |-> <<>>]
    /\ msg_read          = [e \in Ends |-> <<>>]

Write(e) == /\ WriteMessage(e)
            /\ UNCHANGED <<fragmentVars, reassemblyVars, isolated, assembled,
                           msg_read>>

Next == \E e \in Ends :
            \/ Write(e)
            \/ \E len \in UnreliableLengths : Transmit(e, len)
            \/ \E n \in 1 .. MessageMax : TransmitQueuedReliablePrefix(e, n)
            \/ TransmitIsolatedReliable(e)
            \/ TransmitNextFragment(e)
            \/ \E p \in network[Peer(e)] : Process(e, p)

Spec == Init /\ [][Next]_vars

-----------------------------------------------------------------------------
Packet ==
    [sequence : Nat, reliable : BOOLEAN, ack : Nat, rack : Bit,
     fragment : BOOLEAN, offset : Nat, more : BOOLEAN, data : Seq(Int)]

\* Every variable has its type.
TypeOK ==
    /\ incoming_sequence \in [Ends -> Nat]
    /\ outgoing_sequence \in [Ends -> Nat]
    /\ incoming_acknowledged \in [Ends -> Nat]
    /\ incoming_reliable_acknowledged \in [Ends -> Bit]
    /\ incoming_reliable_sequence \in [Ends -> Bit]
    /\ reliable_sequence \in [Ends -> Bit]
    /\ last_reliable_sequence \in [Ends -> Nat]
    /\ reliable_buf \in [Ends -> Seq(Int)]
    /\ message \in [Ends -> Seq(Int)]
    /\ overflowed \in [Ends -> BOOLEAN]
    /\ reliable_ack_pending \in [Ends -> BOOLEAN]
    /\ future_acknowledgements \in [Ends -> Nat]
    /\ conflicting_acknowledgements \in [Ends -> Nat]
    /\ network \in [Ends -> SUBSET Packet]
    /\ written \in [Ends -> Nat]
    /\ sealed \in [Ends -> Seq(Int)]
    /\ delivered \in [Ends -> Seq(Int)]
    /\ fragment_out \in [Ends -> Seq(Int)]
    /\ readcount \in [Ends -> Nat]
    /\ fragment_pending \in [Ends -> BOOLEAN]
    /\ fragment_in \in [Ends -> Seq(Int)]
    /\ fragment_sequence \in [Ends -> Nat]
    /\ isolated \in [Ends -> Nat]
    /\ assembled \in [Ends -> Seq(Seq(Int))]
    /\ msg_read \in [Ends -> Seq(Int)]

\* Reassembly is exact: from whatever mix of late, repeated and missing
\* fragments, the application reads the very message that was sent under the
\* sequence it was accepted with.
ReassemblyExact ==
    \A e \in Ends :
        incoming_sequence[e] > 0 =>
            msg_read[e] = assembled[Peer(e)][incoming_sequence[e]]

\* Isolated messages aside, messages are sealed in the order written and,
\* unless the queue overflowed, each is sealed or waiting.
QueueOrderKept ==
    \A e \in Ends :
        ~ overflowed[e] =>
            UnitsIn(sealed[e] \o message[e], Ordinary)
                = [i \in 1 .. written[e] |-> i]

\* Netchan_ReliableHandoffReady requires fragment_out to be empty; it always
\* is when no fragment is pending, as Netchan_ShouldUpdate assumes.
FragmentBufferIdle ==
    \A e \in Ends :
        /\ fragment_pending[e] = (fragment_out[e] # <<>>)
        /\ fragment_pending[e] => readcount[e] \in 1 .. Len(fragment_out[e]) - 1
=============================================================================
