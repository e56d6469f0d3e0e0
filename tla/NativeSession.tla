--------------------------- MODULE NativeSession ---------------------------
(***************************************************************************)
(* What the two halves of a native session have in common: the sequence    *)
(* numbers of messages, the epochs of the transport, and the distance over *)
(* which the receiver remembers, inc/common/net/native_session.h.          *)
(***************************************************************************)
EXTENDS Naturals

CONSTANTS Window,    \* WORR_NATIVE_SESSION_RECEIPT_HISTORY_CAPACITY
          MaxSeq,    \* UINT32_MAX, for message sequences
          MaxEpoch   \* UINT32_MAX, for transport epochs

ASSUME SessionAssumption ==
    /\ Window \in Nat \ {0}
    /\ MaxSeq \in Nat \ {0}
    /\ MaxEpoch \in Nat \ {0}

Sequence == 1 .. MaxSeq
SessionEpoch == 1 .. MaxEpoch

=============================================================================
