--------------------------- MODULE NativeDelivery ---------------------------
(***************************************************************************)
(* What a native session promises to the two programs that use it,         *)
(* inc/common/net/native_session.h: each message is handed to the consumer *)
(* at most once, snapshots only ever newer ones, and while an epoch lasts  *)
(* the sender lets go of a message only when it was handed over or, of a   *)
(* snapshot, when a newer one takes its place.                             *)
(***************************************************************************)
EXTENDS Naturals

CONSTANT Message       \* an epoch and a sequence number

VARIABLES held,        \* what the sender keeps: [m : Message, snap : BOOLEAN]
          over,        \* the sender's epoch was cancelled
          taken,       \* messages the consumer was given
          deliveries,  \* how often the consumer was given one
          newest       \* epoch and number of the newest snapshot it was given

vars == <<held, over, taken, deliveries, newest>>

Older(m, n) == m[1] < n[1] \/ (m[1] = n[1] /\ m[2] < n[2])
Snapshots == {h \in held : h.snap}

Init ==
    /\ held = {} /\ over = FALSE
    /\ taken = {} /\ deliveries = 0 /\ newest = <<0, 0>>

\* A new message.  A snapshot takes the place of an older one.
Offer(h) ==
    /\ ~over
    /\ held' = IF h.snap THEN (held \ Snapshots) \cup {h} ELSE held \cup {h}
    /\ UNCHANGED <<over, taken, deliveries, newest>>

\* The consumer is given a message for the first time.
Take(m, snap) ==
    /\ m \notin taken
    /\ taken' = taken \cup {m}
    /\ deliveries' = deliveries + 1
    /\ IF snap THEN Older(newest, m) /\ newest' = m ELSE UNCHANGED newest
    /\ UNCHANGED <<held, over>>

\* Acknowledged messages are let go.
LetGo(S) ==
    /\ {h.m : h \in S} \subseteq taken
    /\ held' = held \ S
    /\ UNCHANGED <<over, taken, deliveries, newest>>

\* The sender's epoch ends, and a new one starts.
GiveUp == over' = TRUE /\ held' = {} /\ UNCHANGED <<taken, deliveries, newest>>
StartOver == over /\ over' = FALSE /\ UNCHANGED <<held, taken, deliveries, newest>>

Next ==
    \/ \E h \in [m : Message, snap : BOOLEAN] : Offer(h)
    \/ \E m \in Message, snap \in BOOLEAN : Take(m, snap)
    \/ \E S \in SUBSET held : LetGo(S)
    \/ GiveUp
    \/ StartOver

Spec == Init /\ [][Next]_vars

=============================================================================
