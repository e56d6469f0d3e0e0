-------------------------- MODULE ReliableChannel --------------------------
(***************************************************************************)
(* What a net channel promises about its reliable messages, for each       *)
(* sending end: a batch is accepted only when nothing is outstanding, it   *)
(* is handed to the other end whole, once and in order, and the sender     *)
(* lets go of it only after that.                                          *)
(***************************************************************************)
EXTENDS Naturals, Sequences

CONSTANT Ends       \* the ends of the connection, each a sender

VARIABLES accepted,   \* accepted[e]: messages sealed for transmission by e
          delivered,  \* delivered[e]: messages of e the other end has read
          released    \* released[e]: how many messages e keeps no copy of

vars == <<accepted, delivered, released>>

\* t is s with at least one message more.
Extends(t, s) == Len(t) > Len(s) /\ SubSeq(t, 1, Len(s)) = s

Init ==
    /\ accepted  = [e \in Ends |-> <<>>]
    /\ delivered = [e \in Ends |-> <<>>]
    /\ released  = [e \in Ends |-> 0]

\* One batch at a time: the next is accepted when the last was released.
Accept(e) ==
    /\ released[e] = Len(accepted[e])
    /\ Extends(accepted'[e], accepted[e])
    /\ delivered'[e] = delivered[e]
    /\ released'[e] = released[e]

\* The outstanding batch reaches the reader, all of it.
Deliver(e) ==
    /\ delivered[e] # accepted[e]
    /\ delivered'[e] = accepted[e]
    /\ accepted'[e] = accepted[e]
    /\ released'[e] = released[e]

\* The sender learns of the delivery and drops its copy.
Release(e) ==
    /\ delivered[e] = accepted[e]
    /\ released[e] # Len(accepted[e])
    /\ released'[e] = Len(accepted[e])
    /\ accepted'[e] = accepted[e]
    /\ delivered'[e] = delivered[e]

Idle(e) ==
    /\ accepted'[e] = accepted[e]
    /\ delivered'[e] = delivered[e]
    /\ released'[e] = released[e]

\* One packet carries a payload and an acknowledgement, so both directions
\* may move in one step.
Next == \A e \in Ends : Accept(e) \/ Deliver(e) \/ Release(e) \/ Idle(e)

Spec == Init /\ [][Next]_vars
=============================================================================
