---------------------------- MODULE EventStream ----------------------------
(***************************************************************************)
(* What the native event lane promises to the two game modules,            *)
(* inc/common/net/native_event_sender.h and native_event_admission.h: the  *)
(* events that the server's game queued are played on the client in the    *)
(* order they were queued, each once, and until the stream is given up the *)
(* server keeps every event that the client's consumer was not given.      *)
(*                                                                         *)
(* Events are numbered in the order they were queued.                      *)
(***************************************************************************)
EXTENDS Naturals, Sequences

CONSTANT MaxEvents     \* bound of the number of events

VARIABLES offered,     \* how many events were queued
          held,        \* events that the server keeps
          over,        \* the server gave the stream up
          taken,       \* events the consumer was given
          shown        \* events it played, in the order it did

vars == <<offered, held, over, taken, shown>>

Event == 1 .. MaxEvents

Init ==
    /\ offered = 0 /\ held = {} /\ over = FALSE
    /\ taken = {} /\ shown = <<>>

Offer(n) ==
    /\ ~over
    /\ offered + n <= MaxEvents
    /\ offered' = offered + n
    /\ held' = held \cup (offered + 1 .. offered + n)
    /\ UNCHANGED <<over, taken, shown>>

\* The consumer is given events that it did not have.
Take(S) ==
    /\ S \subseteq 1 .. offered
    /\ S \cap taken = {}
    /\ taken' = taken \cup S
    /\ UNCHANGED <<offered, held, over, shown>>

\* The server lets go of events that the consumer has.
LetGo(S) ==
    /\ S \subseteq held \cap taken
    /\ held' = held \ S
    /\ UNCHANGED <<offered, over, taken, shown>>

\* The event that is next in the order of the queue is played.
Play ==
    /\ Len(shown) + 1 \in taken
    /\ shown' = Append(shown, Len(shown) + 1)
    /\ UNCHANGED <<offered, held, over, taken>>

GiveUp ==
    /\ over' = TRUE /\ held' = {}
    /\ UNCHANGED <<offered, taken, shown>>

Next ==
    \/ \E n \in Event : Offer(n)
    \/ \E S \in SUBSET Event : Take(S)
    \/ \E S \in SUBSET held : LetGo(S)
    \/ Play
    \/ GiveUp

Spec == Init /\ [][Next]_vars

=============================================================================
