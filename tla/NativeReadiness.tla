-------------------------- MODULE NativeReadiness --------------------------
(***************************************************************************)
(* The endpoint readiness core, src/common/net/native_readiness.c: the     *)
(* handshake by which server and client agree that both are ready for the  *)
(* native carrier before either appends native data to a packet,           *)
(*                                                                         *)
(*   CHALLENGE -> CLIENT_READY -> SERVER_ACTIVE [-> CLIENT_ACTIVE_CONFIRM] *)
(*                                                                         *)
(* the last record only for capabilities that let the server send data.    *)
(* The core has no transport and no clock: here any record ever sent may   *)
(* be observed at any time, again, late, or garbled, and each call brings  *)
(* whatever time its caller reads.  Only the two duties that               *)
(* native_readiness.h lays on the caller are kept: an epoch is never used  *)
(* twice, and a client takes its epoch from a CHALLENGE.                   *)
(*                                                                         *)
(* `caps' stands for the negotiated capabilities and the snapshot epoch,   *)
(* which are always compared together.  Telemetry is left out.             *)
(***************************************************************************)
EXTENDS Naturals

CONSTANTS MaxTick,        \* UINT64_MAX, for the clock
          MaxEpoch,       \* UINT32_MAX, for transport epochs
          MaxNonce,       \* UINT64_MAX, for nonces
          MaxGeneration,  \* UINT64_MAX, for generations
          Capabilities,   \* capabilities and snapshot epochs to agree on
          Confirming,     \* those with server data (active_confirm_required)
          None,           \* what a zeroed state has instead
          Timeouts        \* the timeouts callers choose from

ASSUME WidthAssumption ==
    /\ MaxTick \in Nat
    /\ MaxEpoch \in Nat
    /\ MaxNonce \in Nat
    /\ MaxGeneration \in Nat \ {0}
    /\ MaxEpoch <= MaxGeneration
ASSUME CapabilityAssumption ==
    /\ Confirming \subseteq Capabilities
    /\ None \notin Capabilities
ASSUME TimeoutAssumption == Timeouts \subseteq Nat \ {0}

VARIABLES server, client,  \* the two worr_native_readiness_state_v1
          sent,            \* every record emitted so far
          client_epochs    \* history: the epochs the client has used

vars == <<server, client, sent, client_epochs>>

Tick == 0 .. MaxTick
Epoch == 1 .. MaxEpoch
Nonce == 1 .. MaxNonce

WaitingPhase == {"SERVER_WAIT_CLIENT_READY", "SERVER_WAIT_CLIENT_ACTIVE_CONFIRM",
                 "CLIENT_WAIT_CHALLENGE", "CLIENT_WAIT_SERVER_ACTIVE"}
ServerPhase == {"SERVER_WAIT_CLIENT_READY", "SERVER_WAIT_CLIENT_ACTIVE_CONFIRM",
                "SERVER_ACTIVE", "FAILED"}
ClientPhase == {"CLIENT_WAIT_CHALLENGE", "CLIENT_WAIT_SERVER_ACTIVE",
                "CLIENT_ACTIVE", "FAILED"}

\* A zeroed state: Worr_NativeReadinessResetV1.
Zeroed == [phase |-> "RESET", epoch |-> 0, caps |-> None, nonce |-> 0,
           floor |-> 0, generation |-> 0, timeout |-> 0, start |-> 0,
           deadline |-> 0, last |-> 0]

Record(kind, s) ==
    [kind |-> kind, epoch |-> s.epoch, caps |-> s.caps, nonce |-> s.nonce]

\* A record that fails Worr_NativeReadinessRecordValidateV1.
Garbled == [kind |-> "GARBLED", epoch |-> 0, caps |-> None, nonce |-> 0]

\* record_binding_equal
Binding(x) == <<x.epoch, x.caps, x.nonce>>

-----------------------------------------------------------------------------
(***************************************************************************)
(* Steps common to the entry points.                                       *)
(***************************************************************************)
\* Mutant of DeadlineFits: the deadline may wrap.
DeadlineMayWrap(now, timeout) == now \in Nat /\ timeout \in Nat

\* deadline_make succeeds.
DeadlineFits(now, timeout) == now + timeout <= MaxTick

\* Neither reset nor failed: what every entry point asks of its state.
Live(s) == s.phase \notin {"RESET", "FAILED"}

\* state_check_time returns OK.
InTime(s, now) ==
    /\ now >= s.last
    /\ s.phase \in WaitingPhase => now < s.deadline

\* Mutant of Fail: the deadline of the failed wait is kept.
FailKeepingDeadline(s, now) ==
    [s EXCEPT !.phase = "FAILED", !.last = IF now < @ THEN @ ELSE now]

\* state_fail, after state_check_time took the time unless it ran backwards.
Fail(s, now) ==
    [s EXCEPT !.phase = "FAILED", !.deadline = 0,
              !.last = IF now < @ THEN @ ELSE now]

\* A fresh phase, with a deadline if it waits.
Enter(s, phase, now) ==
    [s EXCEPT !.phase = phase, !.start = now, !.last = now,
              !.deadline = IF phase \in WaitingPhase THEN now + s.timeout ELSE 0]

\* Mutant of Again: a duplicate starts the wait anew.
AgainFromNow(s, now) == Enter(s, s.phase, now)

\* An exact duplicate only takes the time.
Again(s, now) == [s EXCEPT !.last = now]

\* observe_preamble returns OK.
Hears(s, r, kind, now) == InTime(s, now) /\ r.kind = kind

\* state_header_init
Begin(phase, epoch, caps, nonce, timeout, now) ==
    [phase |-> phase, epoch |-> epoch, caps |-> caps, nonce |-> nonce,
     floor |-> 0, generation |-> 1, timeout |-> timeout, start |-> now,
     deadline |-> now + timeout, last |-> now]

\* Mutant of Advance: the nonce of the epoch left behind is forgotten.
AdvanceForgetting(s, phase, epoch, caps, nonce, timeout, now) ==
    [Begin(phase, epoch, caps, nonce, timeout, now) EXCEPT
        !.generation = s.generation + 1, !.floor = s.floor]

\* The next epoch of the same incarnation: the nonce left behind is the floor.
Advance(s, phase, epoch, caps, nonce, timeout, now) ==
    [Begin(phase, epoch, caps, nonce, timeout, now) EXCEPT
        !.generation = s.generation + 1,
        !.floor = IF s.nonce # 0 THEN s.nonce ELSE s.floor]

\* advance_common_validate returns OK.
MayAdvance(s, epoch, timeout, now) ==
    /\ Live(s)
    /\ epoch > s.epoch
    /\ now >= s.last
    /\ s.generation < MaxGeneration
    /\ DeadlineFits(now, timeout)

Send(r) == sent' = sent \cup {r}

-----------------------------------------------------------------------------
(***************************************************************************)
(* The server.                                                             *)
(***************************************************************************)
\* The caller's duty: transport epochs are never used again.
UnusedByServer(epoch) ==
    \A r \in sent : r.kind = "CHALLENGE" => r.epoch # epoch

ServerInit(epoch, caps, nonce, timeout, now) ==
    /\ server.phase = "RESET"
    /\ UnusedByServer(epoch)
    /\ DeadlineFits(now, timeout)
    /\ server' = Begin("SERVER_WAIT_CLIENT_READY", epoch, caps, nonce, timeout, now)
    /\ Send(Record("CHALLENGE", server'))
    /\ UNCHANGED <<client, client_epochs>>

ServerAdvanceEpoch(epoch, caps, nonce, timeout, now) ==
    /\ MayAdvance(server, epoch, timeout, now)
    /\ UnusedByServer(epoch)
    /\ nonce > server.nonce
    /\ server' = Advance(server, "SERVER_WAIT_CLIENT_READY", epoch, caps, nonce,
                         timeout, now)
    /\ Send(Record("CHALLENGE", server'))
    /\ UNCHANGED <<client, client_epochs>>

\* Mutant of AfterClientReady: the confirmation is not waited for.
AfterClientReadyAtOnce(caps) == "SERVER_ACTIVE"

AfterClientReady(caps) ==
    IF caps \in Confirming THEN "SERVER_WAIT_CLIENT_ACTIVE_CONFIRM"
                           ELSE "SERVER_ACTIVE"

ServerObserveClientReady(r, now) ==
    LET exact == Hears(server, r, "CLIENT_READY", now) /\ Binding(r) = Binding(server)
        fresh == /\ server.phase = "SERVER_WAIT_CLIENT_READY"
                 /\ \/ server.caps \notin Confirming
                    \/ DeadlineFits(now, server.timeout)
        repeated == server.phase # "SERVER_WAIT_CLIENT_READY"
    IN  /\ Live(server)
        /\ \/ /\ exact /\ fresh
              /\ server' = Enter(server, AfterClientReady(server.caps), now)
              /\ Send(Record("SERVER_ACTIVE", server))
           \/ /\ exact /\ repeated
              /\ server' = Again(server, now)
              /\ Send(Record("SERVER_ACTIVE", server))
           \/ /\ ~ (exact /\ (fresh \/ repeated))
              /\ server' = Fail(server, now)
              /\ UNCHANGED sent
        /\ UNCHANGED <<client, client_epochs>>

\* A binding without server data gets INVALID_STATE and changes nothing.
ServerObserveClientActiveConfirm(r, now) ==
    LET exact == /\ Hears(server, r, "CLIENT_ACTIVE_CONFIRM", now)
                 /\ Binding(r) = Binding(server)
    IN  /\ Live(server)
        /\ server.caps \in Confirming
        /\ server' =
               CASE exact /\ server.phase = "SERVER_WAIT_CLIENT_ACTIVE_CONFIRM" ->
                        Enter(server, "SERVER_ACTIVE", now)
                 [] exact /\ server.phase = "SERVER_ACTIVE" -> Again(server, now)
                 [] OTHER -> Fail(server, now)
        /\ UNCHANGED <<client, sent, client_epochs>>

-----------------------------------------------------------------------------
(***************************************************************************)
(* The client.                                                             *)
(***************************************************************************)
\* The caller takes an epoch it never used from a CHALLENGE it holds.
ChallengedEpoch(epoch) ==
    /\ epoch \notin client_epochs
    /\ \E r \in sent : r.kind = "CHALLENGE" /\ r.epoch = epoch

ClientInit(epoch, caps, timeout, now) ==
    /\ client.phase = "RESET"
    /\ ChallengedEpoch(epoch)
    /\ DeadlineFits(now, timeout)
    /\ client' = Begin("CLIENT_WAIT_CHALLENGE", epoch, caps, 0, timeout, now)
    /\ client_epochs' = client_epochs \cup {epoch}
    /\ UNCHANGED <<server, sent>>

\* With the last nonce accepted no challenge could be newer.
ClientAdvanceEpoch(epoch, caps, timeout, now) ==
    /\ MayAdvance(client, epoch, timeout, now)
    /\ ChallengedEpoch(epoch)
    /\ client.nonce # MaxNonce
    /\ client' = Advance(client, "CLIENT_WAIT_CHALLENGE", epoch, caps, 0,
                         timeout, now)
    /\ client_epochs' = client_epochs \cup {epoch}
    /\ UNCHANGED <<server, sent>>

\* Mutant of NewChallenge: any newer nonce will do.
NewChallengeAnyEpoch(r, now) ==
    /\ client.phase = "CLIENT_WAIT_CHALLENGE"
    /\ r.nonce > client.floor
    /\ DeadlineFits(now, client.timeout)

\* The challenge of the epoch waited for, with a nonce above the floor.
NewChallenge(r, now) ==
    /\ client.phase = "CLIENT_WAIT_CHALLENGE"
    /\ r.epoch = client.epoch
    /\ r.caps = client.caps
    /\ r.nonce > client.floor
    /\ DeadlineFits(now, client.timeout)

ClientObserveChallenge(r, now) ==
    LET heard == Hears(client, r, "CHALLENGE", now)
        repeated == /\ client.phase # "CLIENT_WAIT_CHALLENGE"
                    /\ Binding(r) = Binding(client)
    IN  /\ Live(client)
        /\ \/ /\ heard /\ NewChallenge(r, now)
              /\ client' = [Enter(client, "CLIENT_WAIT_SERVER_ACTIVE", now) EXCEPT
                               !.nonce = r.nonce]
              /\ Send(Record("CLIENT_READY", client'))
           \/ /\ heard /\ repeated
              /\ client' = Again(client, now)
              /\ Send(Record("CLIENT_READY", client))
           \/ /\ ~ (heard /\ (NewChallenge(r, now) \/ repeated))
              /\ client' = Fail(client, now)
              /\ UNCHANGED sent
        /\ UNCHANGED <<server, client_epochs>>

\* Worr_NativeReadinessClientObserveServerActiveV1, and ...WithConfirmV1 for a
\* binding that requires the confirmation; the other of the two refuses.
ClientObserveServerActive(r, now) ==
    LET exact == Hears(client, r, "SERVER_ACTIVE", now) /\ Binding(r) = Binding(client)
        fresh == client.phase = "CLIENT_WAIT_SERVER_ACTIVE"
        repeated == client.phase = "CLIENT_ACTIVE"
    IN  /\ Live(client)
        /\ \/ /\ exact /\ fresh
              /\ client' = Enter(client, "CLIENT_ACTIVE", now)
           \/ /\ exact /\ repeated
              /\ client' = Again(client, now)
           \/ /\ ~ (exact /\ (fresh \/ repeated))
              /\ client' = Fail(client, now)
        /\ IF exact /\ (fresh \/ repeated) /\ client.caps \in Confirming
           THEN Send(Record("CLIENT_ACTIVE_CONFIRM", client))
           ELSE UNCHANGED sent
        /\ UNCHANGED <<server, client_epochs>>

-----------------------------------------------------------------------------
\* Worr_NativeReadinessCheckDeadlineV1, and the receive and transmit gates,
\* which check the time first.
CheckedTime(s, now) == IF InTime(s, now) THEN Again(s, now) ELSE Fail(s, now)

ServerCheckTime(now) ==
    /\ Live(server)
    /\ server' = CheckedTime(server, now)
    /\ UNCHANGED <<client, sent, client_epochs>>

ClientCheckTime(now) ==
    /\ Live(client)
    /\ client' = CheckedTime(client, now)
    /\ UNCHANGED <<server, sent, client_epochs>>

ServerReset == server' = Zeroed /\ UNCHANGED <<client, sent, client_epochs>>
ClientReset == client' = Zeroed /\ UNCHANGED <<server, sent, client_epochs>>

\* The phases in which Worr_NativeReadinessCanReceiveNativeV1 says yes.
CanReceive(s) ==
    s.phase \in {"SERVER_ACTIVE", "SERVER_WAIT_CLIENT_ACTIVE_CONFIRM",
                 "CLIENT_WAIT_SERVER_ACTIVE", "CLIENT_ACTIVE"}

\* The phases in which Worr_NativeReadinessCanTransmitNativeV1 says yes.
CanTransmit(s) == s.phase \in {"SERVER_ACTIVE", "CLIENT_ACTIVE"}

-----------------------------------------------------------------------------
Init == server = Zeroed /\ client = Zeroed /\ sent = {} /\ client_epochs = {}

ServerStep(now) ==
    \/ \E epoch \in Epoch, caps \in Capabilities, nonce \in Nonce, t \in Timeouts :
           \/ ServerInit(epoch, caps, nonce, t, now)
           \/ ServerAdvanceEpoch(epoch, caps, nonce, t, now)
    \/ \E r \in sent \cup {Garbled} : ServerObserveClientReady(r, now)
    \/ \E r \in sent \cup {Garbled} : ServerObserveClientActiveConfirm(r, now)
    \/ ServerCheckTime(now)

ClientStep(now) ==
    \/ \E epoch \in Epoch, caps \in Capabilities, t \in Timeouts :
           \/ ClientInit(epoch, caps, t, now)
           \/ ClientAdvanceEpoch(epoch, caps, t, now)
    \/ \E r \in sent \cup {Garbled} : ClientObserveChallenge(r, now)
    \/ \E r \in sent \cup {Garbled} : ClientObserveServerActive(r, now)
    \/ ClientCheckTime(now)

Next == \/ \E now \in Tick : ServerStep(now) \/ ClientStep(now)
        \/ ServerReset
        \/ ClientReset

Spec == Init /\ [][Next]_vars

-----------------------------------------------------------------------------
(***************************************************************************)
(* Properties.                                                             *)
(***************************************************************************)
States(phases) ==
    [phase : phases, epoch : 0 .. MaxEpoch, caps : Capabilities \cup {None},
     nonce : 0 .. MaxNonce, floor : 0 .. MaxNonce,
     generation : 0 .. MaxGeneration, timeout : Nat, start : Tick,
     deadline : Tick, last : Tick]

Records == [kind : {"CHALLENGE", "CLIENT_READY", "SERVER_ACTIVE",
                    "CLIENT_ACTIVE_CONFIRM"},
            epoch : Epoch, caps : Capabilities, nonce : Nonce]

\* Every field stays within its width.
TypeOK ==
    /\ server \in States(ServerPhase \cup {"RESET"})
    /\ client \in States(ClientPhase \cup {"RESET"})
    /\ sent \subseteq Records
    /\ client_epochs \subseteq Epoch

\* Worr_NativeReadinessStateValidateV1.
StateValidate(s) ==
    /\ s.epoch # 0
    /\ s.caps # None
    /\ s.generation # 0
    /\ s.timeout # 0
    /\ s.start <= s.last
    /\ IF s.phase \in WaitingPhase
       THEN s.deadline = s.start + s.timeout /\ s.last < s.deadline
       ELSE s.deadline = 0
    /\ IF s.phase = "CLIENT_WAIT_CHALLENGE"
       THEN s.nonce = 0 /\ s.floor # MaxNonce
       ELSE /\ s.phase = "SERVER_WAIT_CLIENT_ACTIVE_CONFIRM" => s.caps \in Confirming
            /\ s.nonce # 0 => s.floor < s.nonce
            /\ s.phase # "FAILED" => s.nonce # 0

\* The core never produces a state that its own validator refuses, so no entry
\* point answers INVALID_STATE for a state that did not fail; and generations
\* run out no sooner than epochs.
StatesValid ==
    /\ server.phase # "RESET" => /\ StateValidate(server) /\ server.nonce # 0
                                 /\ server.generation <= server.epoch
    /\ client.phase # "RESET" => /\ StateValidate(client)
                                 /\ client.generation <= client.epoch

\* While both ends are alive in one epoch, whoever may transmit native data
\* has a peer that may receive it under the same capabilities and nonce; and
\* where the server sends data of its own, it waits until the client is
\* active.  Garbled, late and repeated records do not change that.
GatesAgree ==
    Live(server) /\ Live(client) /\ server.epoch = client.epoch =>
        /\ CanTransmit(server) =>
              /\ CanReceive(client)
              /\ Binding(client) = Binding(server)
              /\ server.caps \in Confirming => CanTransmit(client)
        /\ CanTransmit(client) =>
              /\ CanReceive(server)
              /\ Binding(server) = Binding(client)

\* Each record answers the one before it in the handshake, with its binding,
\* and an epoch has one binding: a record never vouches for a stranger.
Answers == [CLIENT_READY |-> "CHALLENGE", SERVER_ACTIVE |-> "CLIENT_READY",
            CLIENT_ACTIVE_CONFIRM |-> "SERVER_ACTIVE"]
RecordsAnswer ==
    /\ \A r \in sent : r.kind # "CHALLENGE" =>
           [r EXCEPT !.kind = Answers[r.kind]] \in sent
    /\ \A r, q \in sent : r.epoch = q.epoch => Binding(r) = Binding(q)

\* The epochs of the client's answers are epochs it used.
EpochsUsed ==
    \A r \in sent : r.kind = "CLIENT_READY" => r.epoch \in client_epochs

\* What the phase of an end says of the records of its epoch: those that
\* brought it there were sent, those that it is still to send were not.
ServerRecords ==
    server.phase # "RESET" =>
        /\ Record("CHALLENGE", server) \in sent
        /\ server.phase \in {"SERVER_WAIT_CLIENT_ACTIVE_CONFIRM", "SERVER_ACTIVE"}
              => Record("CLIENT_READY", server) \in sent
        /\ server.phase = "SERVER_ACTIVE" /\ server.caps \in Confirming
              => Record("CLIENT_ACTIVE_CONFIRM", server) \in sent
        /\ server.phase = "SERVER_WAIT_CLIENT_READY"
              => \A r \in sent : r.kind = "SERVER_ACTIVE" => r.epoch # server.epoch

ClientRecords ==
    client.phase # "RESET" =>
        /\ client.epoch \in client_epochs
        /\ client.phase \in {"CLIENT_WAIT_SERVER_ACTIVE", "CLIENT_ACTIVE"}
              => Record("CLIENT_READY", client) \in sent
        /\ client.phase = "CLIENT_ACTIVE" => Record("SERVER_ACTIVE", client) \in sent
        /\ client.phase = "CLIENT_WAIT_CHALLENGE"
              => \A r \in sent : r.kind = "CLIENT_READY" => r.epoch # client.epoch
        /\ client.phase = "CLIENT_WAIT_SERVER_ACTIVE"
              => \A r \in sent :
                    r.kind = "CLIENT_ACTIVE_CONFIRM" => r.epoch # client.epoch

\* The inductive invariant, from which GatesAgree follows.
InductiveInv ==
    /\ TypeOK
    /\ StatesValid
    /\ RecordsAnswer
    /\ EpochsUsed
    /\ ServerRecords
    /\ ClientRecords

\* An end that stays in a phase keeps its deadline: no duplicate, however
\* often it comes, makes a wait longer.
WaitNotProlonged ==
    [][\A s \in {<<server, server'>>, <<client, client'>>} :
           s[2].phase = s[1].phase /\ s[2].epoch = s[1].epoch
               => s[2].deadline = s[1].deadline]_vars

\* Between two resets epochs, nonce floors and times only grow, an accepted
\* nonce is below every later one, and a failed state stays as it is.
OnlyForward ==
    [][\A s \in {<<server, server'>>, <<client, client'>>} :
           s[1].phase # "RESET" /\ s[2].phase # "RESET" =>
               /\ s[1].epoch <= s[2].epoch
               /\ s[1].floor <= s[2].floor
               /\ s[1].last <= s[2].last
               /\ s[1].epoch < s[2].epoch => s[1].nonce <= s[2].floor
               /\ s[1].phase = "FAILED" => s[2] = s[1]]_vars
=============================================================================
