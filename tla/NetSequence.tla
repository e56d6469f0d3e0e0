---------------------------- MODULE NetSequence ----------------------------
(***************************************************************************)
(* Packet sequence classification, src/common/net/sequence.c.  The numbers *)
(* are unwrapped: the channels compare 31-bit (OLD) or 30-bit (NEW)        *)
(* sequences with plain `<' and `>' and never wrap them in practice.       *)
(***************************************************************************)
EXTENDS Naturals

IsNewer(value, reference) == value > reference

\* Mutant of ClassifyAck: off by one at the newest packet sent.
ClassifyAckOffByOne(acknowledgement, previous, outgoing) ==
    IF acknowledgement < previous THEN "STALE"
    ELSE IF acknowledgement + 1 >= outgoing THEN "FUTURE"
    ELSE "ACCEPTED"

\* What an acknowledgement number means to the endpoint that receives it.
ClassifyAck(acknowledgement, previous, outgoing) ==
    IF acknowledgement < previous THEN "STALE"
    ELSE IF acknowledgement >= outgoing THEN "FUTURE"
    ELSE "ACCEPTED"

\* One acknowledgement number must always carry the same even/odd bit.
ReliableAckConsistent(acknowledgement, reliable_ack, previous, previous_rack) ==
    \/ acknowledgement # previous
    \/ reliable_ack = previous_rack
=============================================================================
