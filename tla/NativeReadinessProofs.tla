----------------------- MODULE NativeReadinessProofs -----------------------
(***************************************************************************)
(* Proofs about NativeReadiness, for every width of clock, epochs and      *)
(* nonces and every set of capabilities.                                   *)
(***************************************************************************)
EXTENDS NativeReadiness, TLAPS

ServerStates == States(ServerPhase \cup {"RESET"})
ClientStates == States(ClientPhase \cup {"RESET"})

\* The types of a state's fields.
LEMMA StateFields ==
    ASSUME NEW phases, NEW s \in States(phases)
    PROVE  /\ s.phase \in phases
           /\ s.epoch \in Nat /\ s.epoch <= MaxEpoch
           /\ s.caps \in Capabilities \cup {None}
           /\ s.nonce \in Nat /\ s.nonce <= MaxNonce
           /\ s.floor \in Nat /\ s.floor <= MaxNonce
           /\ s.generation \in Nat /\ s.generation <= MaxGeneration
           /\ s.timeout \in Nat
           /\ s.start \in Nat /\ s.start <= MaxTick
           /\ s.deadline \in Nat /\ s.deadline <= MaxTick
           /\ s.last \in Nat /\ s.last <= MaxTick
  BY WidthAssumption DEF States, Tick

\* A state that failed is a valid failed state with the binding it had.
LEMMA FailGood ==
    ASSUME NEW phases, "FAILED" \in phases, NEW s \in States(phases),
           NEW now \in Tick, StateValidate(s)
    PROVE  /\ Fail(s, now) \in States(phases)
           /\ StateValidate(Fail(s, now))
  <1> DEFINE t == Fail(s, now)
  <1>1. /\ t.phase = "FAILED" /\ t.deadline = 0
        /\ t.last = IF now < s.last THEN s.last ELSE now
        /\ t.epoch = s.epoch /\ t.caps = s.caps /\ t.nonce = s.nonce
        /\ t.floor = s.floor /\ t.generation = s.generation
        /\ t.timeout = s.timeout /\ t.start = s.start
    BY DEF Fail, States
  <1>2. now \in Nat /\ now <= MaxTick /\ MaxTick \in Nat
    BY WidthAssumption DEF Tick
  <1>3. t.last \in Tick /\ s.last <= t.last
    BY <1>1, <1>2, StateFields DEF Tick
  <1>4. t \in States(phases)
    <2>1. /\ t = [s EXCEPT !.phase = "FAILED", !.deadline = 0, !.last = t.last]
          /\ 0 \in Tick
      BY <1>1, WidthAssumption DEF Fail, States, Tick
    <2> HIDE DEF t
    <2> QED
      BY <2>1, <1>3 DEF States
  <1>5. StateValidate(t)
    BY <1>1, <1>3, <1>2, StateFields DEF StateValidate, WaitingPhase, Tick
  <1> QED
    BY <1>4, <1>5

\* Taking the time of a state within its deadline keeps it valid.
LEMMA AgainGood ==
    ASSUME NEW phases, NEW s \in States(phases), NEW now \in Tick,
           StateValidate(s), InTime(s, now)
    PROVE  /\ Again(s, now) \in States(phases)
           /\ StateValidate(Again(s, now))
  <1> DEFINE t == Again(s, now)
  <1>1. /\ t.phase = s.phase /\ t.deadline = s.deadline /\ t.last = now
        /\ t.epoch = s.epoch /\ t.caps = s.caps /\ t.nonce = s.nonce
        /\ t.floor = s.floor /\ t.generation = s.generation
        /\ t.timeout = s.timeout /\ t.start = s.start
    BY DEF Again, States
  <1>2. now \in Nat /\ now <= MaxTick
    BY WidthAssumption DEF Tick
  <1>3. t \in States(phases)
    BY DEF Again, States
  <1>4. StateValidate(t)
    BY <1>1, <1>2, StateFields DEF StateValidate, InTime
  <1> QED
    BY <1>3, <1>4

\* A phase entered within the clock, under a nonce above the floor, is valid.
LEMMA EnterGood ==
    ASSUME NEW phases, NEW s \in States(phases), NEW now \in Tick,
           NEW phase \in phases, NEW nonce \in Nonce, s.floor < nonce,
           StateValidate(s),
           phase \in {"SERVER_WAIT_CLIENT_ACTIVE_CONFIRM", "SERVER_ACTIVE",
                      "CLIENT_WAIT_SERVER_ACTIVE", "CLIENT_ACTIVE"},
           phase = "SERVER_WAIT_CLIENT_ACTIVE_CONFIRM" => s.caps \in Confirming,
           phase \in WaitingPhase => DeadlineFits(now, s.timeout)
    PROVE  /\ [Enter(s, phase, now) EXCEPT !.nonce = nonce] \in States(phases)
           /\ StateValidate([Enter(s, phase, now) EXCEPT !.nonce = nonce])
  <1> DEFINE t == [Enter(s, phase, now) EXCEPT !.nonce = nonce]
             deadline == IF phase \in WaitingPhase THEN now + s.timeout ELSE 0
  <1>1. /\ t.phase = phase /\ t.deadline = deadline /\ t.last = now
        /\ t.epoch = s.epoch /\ t.caps = s.caps /\ t.nonce = nonce
        /\ t.floor = s.floor /\ t.generation = s.generation
        /\ t.timeout = s.timeout /\ t.start = now
    BY DEF Enter, States
  <1>2. now \in Nat /\ now <= MaxTick /\ MaxTick \in Nat
    BY WidthAssumption DEF Tick
  <1>3. deadline \in Tick
    BY <1>2, StateFields DEF DeadlineFits, Tick
  <1>4. nonce \in 0 .. MaxNonce /\ nonce # 0
    BY WidthAssumption DEF Nonce
  <1>5. t \in States(phases)
    <2>1. Enter(s, phase, now) \in States(phases)
      BY <1>3 DEF Enter, States
    <2> QED
      BY <2>1, <1>4 DEF States
  <1>6. StateValidate(t)
    <2>1. phase \in WaitingPhase => now < now + s.timeout
      BY <1>2, StateFields DEF StateValidate
    <2>2. s.timeout # 0 /\ s.epoch # 0 /\ s.caps # None /\ s.generation # 0
      BY DEF StateValidate
    <2> QED
      BY <1>1, <1>2, <1>4, <2>1, <2>2, StateFields DEF StateValidate
  <1> QED
    BY <1>5, <1>6

\* The first state of an incarnation is valid.
LEMMA BeginGood ==
    ASSUME NEW phases, NEW phase \in phases, NEW epoch \in Epoch,
           NEW caps \in Capabilities, NEW nonce \in 0 .. MaxNonce,
           NEW timeout \in Timeouts, NEW now \in Tick,
           DeadlineFits(now, timeout),
           \/ phase = "SERVER_WAIT_CLIENT_READY" /\ nonce # 0
           \/ phase = "CLIENT_WAIT_CHALLENGE" /\ nonce = 0 /\ MaxNonce # 0
    PROVE  LET t == Begin(phase, epoch, caps, nonce, timeout, now)
           IN  t \in States(phases) /\ StateValidate(t)
  <1> DEFINE t == Begin(phase, epoch, caps, nonce, timeout, now)
  <1>1. /\ t.phase = phase /\ t.deadline = now + timeout /\ t.last = now
        /\ t.epoch = epoch /\ t.caps = caps /\ t.nonce = nonce
        /\ t.floor = 0 /\ t.generation = 1
        /\ t.timeout = timeout /\ t.start = now
    BY DEF Begin
  <1>2. /\ now \in Nat /\ timeout \in Nat \ {0} /\ now + timeout \in Tick
        /\ epoch \in 1 .. MaxEpoch /\ epoch \in 0 .. MaxEpoch /\ nonce \in Nat
        /\ 0 \in 0 .. MaxNonce /\ 1 \in 0 .. MaxGeneration /\ caps # None
    BY WidthAssumption, TimeoutAssumption, CapabilityAssumption
       DEF Tick, Epoch, DeadlineFits
  <1>3. t \in States(phases)
    BY <1>2 DEF Begin, States
  <1>4. StateValidate(t)
    BY <1>1, <1>2, WidthAssumption DEF StateValidate, WaitingPhase
  <1> QED
    BY <1>3, <1>4

\* So is the state after an advance, whose floor lies at or above both the
\* floor and the nonce left behind.
LEMMA AdvanceGood ==
    ASSUME NEW phases, NEW s \in States(phases), StateValidate(s),
           NEW phase \in phases, NEW epoch \in Epoch,
           NEW caps \in Capabilities, NEW nonce \in 0 .. MaxNonce,
           NEW timeout \in Timeouts, NEW now \in Tick,
           MayAdvance(s, epoch, timeout, now),
           \/ /\ phase = "SERVER_WAIT_CLIENT_READY"
              /\ s.nonce # 0
              /\ s.nonce < nonce
           \/ /\ phase = "CLIENT_WAIT_CHALLENGE"
              /\ nonce = 0
              /\ s.nonce # MaxNonce
              /\ s.phase # "CLIENT_WAIT_CHALLENGE" => s.nonce # 0
    PROVE  LET t == Advance(s, phase, epoch, caps, nonce, timeout, now)
           IN  /\ t \in States(phases)
               /\ StateValidate(t)
               /\ t.generation = s.generation + 1
               /\ t.phase = phase /\ t.epoch = epoch /\ t.nonce = nonce
               /\ t.caps = caps /\ t.last = now
               /\ s.floor <= t.floor /\ s.nonce <= t.floor
  <1> DEFINE t == Advance(s, phase, epoch, caps, nonce, timeout, now)
             b == Begin(phase, epoch, caps, nonce, timeout, now)
             floor == IF s.nonce # 0 THEN s.nonce ELSE s.floor
  <1>1. /\ t.phase = phase /\ t.deadline = now + timeout /\ t.last = now
        /\ t.epoch = epoch /\ t.caps = caps /\ t.nonce = nonce
        /\ t.floor = floor /\ t.generation = s.generation + 1
        /\ t.timeout = timeout /\ t.start = now
    BY DEF Begin, Advance
  <1>2. /\ now \in Nat /\ timeout \in Nat \ {0} /\ now + timeout \in Tick
        /\ epoch \in 1 .. MaxEpoch /\ epoch \in 0 .. MaxEpoch /\ nonce \in Nat
        /\ 0 \in 0 .. MaxNonce /\ 1 \in 0 .. MaxGeneration /\ caps # None
    BY WidthAssumption, TimeoutAssumption, CapabilityAssumption
       DEF Tick, Epoch, DeadlineFits, MayAdvance
  <1>3. /\ floor \in 0 .. MaxNonce
        /\ s.generation + 1 \in 0 .. MaxGeneration
        /\ s.floor <= floor /\ s.nonce <= floor
    BY StateFields, WidthAssumption DEF MayAdvance, StateValidate
  <1>4. t \in States(phases)
    <2>1. b \in States(phases)
      BY <1>2 DEF Begin, States
    <2> QED
      BY <1>3, <2>1 DEF Advance, States
  <1>5. IF phase = "CLIENT_WAIT_CHALLENGE" THEN floor # MaxNonce ELSE floor < nonce
    BY StateFields DEF StateValidate
  <1>6. StateValidate(t)
    BY <1>1, <1>2, <1>3, <1>5, StateFields, WidthAssumption
       DEF StateValidate, WaitingPhase
  <1> QED
    BY <1>1, <1>3, <1>4, <1>6
-----------------------------------------------------------------------------
(***************************************************************************)
(* Records.                                                                *)
(***************************************************************************)
LEMMA RecordFields ==
    ASSUME NEW r \in Records
    PROVE  /\ r.kind \in {"CHALLENGE", "CLIENT_READY", "SERVER_ACTIVE",
                          "CLIENT_ACTIVE_CONFIRM"}
           /\ r.epoch \in Epoch /\ r.caps \in Capabilities /\ r.nonce \in Nonce
  BY DEF Records

\* A record that binds like a state is the state's record of its kind.
LEMMA RecordOfState ==
    ASSUME NEW r \in Records, NEW s, Binding(r) = Binding(s), NEW kind
    PROVE  /\ Record(kind, s) = [r EXCEPT !.kind = kind]
           /\ Record(r.kind, s) = r
           /\ r.epoch = s.epoch /\ r.caps = s.caps /\ r.nonce = s.nonce
  BY DEF Records, Record, Binding

LEMMA FieldsOfRecord ==
    ASSUME NEW s, NEW kind
    PROVE  /\ Record(kind, s).kind = kind
           /\ Record(kind, s).epoch = s.epoch
           /\ Binding(Record(kind, s)) = Binding(s)
  BY DEF Record, Binding

\* What is heard was sent: a garbled record has no kind.
LEMMA HeardWasSent ==
    ASSUME NEW r \in sent \cup {Garbled}, sent \subseteq Records,
           NEW kind \in {"CHALLENGE", "CLIENT_READY", "SERVER_ACTIVE",
                         "CLIENT_ACTIVE_CONFIRM"},
           NEW s, NEW now, Hears(s, r, kind, now)
    PROVE  r \in sent /\ r \in Records /\ r.kind = kind /\ InTime(s, now)
  BY DEF Hears, Garbled

\* An epoch without a challenge has no records at all.
LEMMA UnusedHasNone ==
    ASSUME RecordsAnswer, sent \subseteq Records, NEW epoch, UnusedByServer(epoch)
    PROVE  \A r \in sent : r.epoch # epoch
  <1>1. ASSUME NEW r \in sent, r.kind = "CLIENT_READY" PROVE r.epoch # epoch
    <2>1. [r EXCEPT !.kind = "CHALLENGE"] \in sent
      BY <1>1 DEF RecordsAnswer, Answers
    <2> QED
      BY <2>1, RecordFields DEF UnusedByServer, Records
  <1>2. ASSUME NEW r \in sent, r.kind = "SERVER_ACTIVE" PROVE r.epoch # epoch
    <2>1. [r EXCEPT !.kind = "CLIENT_READY"] \in sent
      BY <1>2 DEF RecordsAnswer, Answers
    <2> QED
      BY <2>1, <1>1 DEF Records
  <1>3. ASSUME NEW r \in sent, r.kind = "CLIENT_ACTIVE_CONFIRM" PROVE r.epoch # epoch
    <2>1. [r EXCEPT !.kind = "SERVER_ACTIVE"] \in sent
      BY <1>3 DEF RecordsAnswer, Answers
    <2> QED
      BY <2>1, <1>2 DEF Records
  <1> QED
    BY <1>1, <1>2, <1>3, RecordFields DEF UnusedByServer

\* A challenge of an unused epoch may be sent.
LEMMA SendChallenge ==
    ASSUME RecordsAnswer, sent \subseteq Records, NEW c \in Records,
           c.kind = "CHALLENGE", UnusedByServer(c.epoch), Send(c)
    PROVE  RecordsAnswer' /\ sent' \subseteq Records
  <1>1. \A r \in sent : r.epoch # c.epoch
    BY UnusedHasNone
  <1> QED
    BY <1>1 DEF RecordsAnswer, Send

\* So may the answer to a record that was sent.
LEMMA SendAnswer ==
    ASSUME RecordsAnswer, sent \subseteq Records, NEW r \in sent,
           NEW kind \in {"CLIENT_READY", "SERVER_ACTIVE", "CLIENT_ACTIVE_CONFIRM"},
           r.kind = Answers[kind], NEW a, a = [r EXCEPT !.kind = kind], Send(a)
    PROVE  RecordsAnswer' /\ sent' \subseteq Records
  <1>1. r \in Records /\ a \in Records
    BY DEF Records
  <1>2. a.kind = kind /\ a.epoch = r.epoch /\ Binding(a) = Binding(r)
    BY <1>1 DEF Records, Binding
  <1>3. [a EXCEPT !.kind = Answers[a.kind]] = r
    BY <1>1, <1>2 DEF Records
  <1>4. \A q \in sent' : q.kind # "CHALLENGE" =>
            [q EXCEPT !.kind = Answers[q.kind]] \in sent'
    BY <1>3 DEF RecordsAnswer, Send
  <1>5. \A q \in sent : q.epoch = a.epoch => Binding(q) = Binding(a)
    BY <1>2 DEF RecordsAnswer
  <1>6. \A p, q \in sent' : p.epoch = q.epoch => Binding(p) = Binding(q)
    BY <1>5 DEF RecordsAnswer, Send
  <1> QED
    BY <1>1, <1>4, <1>6 DEF RecordsAnswer, Send

\* What the server sends leaves the client's invariant alone.
LEMMA ClientKeeps ==
    ASSUME ClientRecords, EpochsUsed, UNCHANGED <<client, client_epochs>>,
           sent \subseteq sent',
           \A r \in sent' \ sent : r.kind \in {"CHALLENGE", "SERVER_ACTIVE"}
    PROVE  ClientRecords' /\ EpochsUsed'
  BY DEF ClientRecords, EpochsUsed, Record

\* What the client sends leaves the server's invariant alone.
LEMMA ServerKeeps ==
    ASSUME ServerRecords, UNCHANGED server, sent \subseteq sent',
           \A r \in sent' \ sent : r.kind \in {"CLIENT_READY", "CLIENT_ACTIVE_CONFIRM"}
    PROVE  ServerRecords'
  BY DEF ServerRecords, Record

\* A state that failed, or took the time, binds as before.
LEMMA FailFields ==
    ASSUME NEW phases, NEW s \in States(phases), NEW now
    PROVE  /\ Fail(s, now).phase = "FAILED"
           /\ Fail(s, now).epoch = s.epoch
           /\ Fail(s, now).nonce = s.nonce
           /\ Fail(s, now).generation = s.generation
           /\ \A kind : Record(kind, Fail(s, now)) = Record(kind, s)
  BY DEF Fail, States, Record

LEMMA AgainFields ==
    ASSUME NEW phases, NEW s \in States(phases), NEW now
    PROVE  /\ Again(s, now).phase = s.phase
           /\ Again(s, now).epoch = s.epoch
           /\ Again(s, now).caps = s.caps
           /\ Again(s, now).nonce = s.nonce
           /\ Again(s, now).generation = s.generation
           /\ \A kind : Record(kind, Again(s, now)) = Record(kind, s)
  BY DEF Again, States, Record

LEMMA EnterFields ==
    ASSUME NEW phases, NEW s \in States(phases), NEW phase, NEW now, NEW nonce
    PROVE  /\ [Enter(s, phase, now) EXCEPT !.nonce = nonce].phase = phase
           /\ [Enter(s, phase, now) EXCEPT !.nonce = nonce].epoch = s.epoch
           /\ [Enter(s, phase, now) EXCEPT !.nonce = nonce].caps = s.caps
           /\ [Enter(s, phase, now) EXCEPT !.nonce = nonce].nonce = nonce
           /\ [Enter(s, phase, now) EXCEPT !.nonce = nonce].generation = s.generation
  BY DEF Enter, States

LEMMA EnterKeepsNonce ==
    ASSUME NEW phases, NEW s \in States(phases), NEW phase, NEW now
    PROVE  /\ [Enter(s, phase, now) EXCEPT !.nonce = s.nonce] = Enter(s, phase, now)
           /\ Enter(s, phase, now).phase = phase
           /\ Enter(s, phase, now).epoch = s.epoch
           /\ Enter(s, phase, now).caps = s.caps
           /\ Enter(s, phase, now).nonce = s.nonce
           /\ Enter(s, phase, now).generation = s.generation
           /\ \A kind : Record(kind, Enter(s, phase, now)) = Record(kind, s)
  BY DEF Enter, States, Record

-----------------------------------------------------------------------------
(***************************************************************************)
(* The invariant, end by end.                                              *)
(***************************************************************************)
ServerGood ==
    /\ server \in ServerStates
    /\ server.phase # "RESET" => /\ StateValidate(server) /\ server.nonce # 0
                                 /\ server.generation <= server.epoch

ClientGood ==
    /\ client \in ClientStates
    /\ client.phase # "RESET" => /\ StateValidate(client)
                                 /\ client.generation <= client.epoch

LEMMA Parts ==
    InductiveInv <=>
        /\ ServerGood /\ ClientGood
        /\ sent \subseteq Records /\ client_epochs \subseteq Epoch
        /\ RecordsAnswer /\ EpochsUsed /\ ServerRecords /\ ClientRecords
  BY DEF InductiveInv, TypeOK, StatesValid, ServerGood, ClientGood,
         ServerStates, ClientStates

LEMMA ServerStepInv ==
    ASSUME InductiveInv, UNCHANGED <<client, client_epochs>>,
           ServerGood', ServerRecords', RecordsAnswer', sent' \subseteq Records,
           sent \subseteq sent',
           \A r \in sent' \ sent : r.kind \in {"CHALLENGE", "SERVER_ACTIVE"}
    PROVE  InductiveInv'
  <1>1. ClientRecords' /\ EpochsUsed'
    BY ClientKeeps, Parts
  <1>2. ClientGood'
    BY Parts DEF ClientGood
  <1>3. (client_epochs \subseteq Epoch)'
    BY Parts
  <1> QED
    BY <1>1, <1>2, <1>3 DEF InductiveInv, TypeOK, StatesValid, ServerGood,
       ClientGood, ServerStates, ClientStates

LEMMA ClientStepInv ==
    ASSUME InductiveInv, UNCHANGED server,
           ClientGood', ClientRecords', EpochsUsed', RecordsAnswer',
           sent' \subseteq Records, client_epochs' \subseteq Epoch,
           sent \subseteq sent',
           \A r \in sent' \ sent : r.kind \in {"CLIENT_READY", "CLIENT_ACTIVE_CONFIRM"}
    PROVE  InductiveInv'
  <1>1. ServerRecords'
    BY ServerKeeps, Parts
  <1>2. ServerGood'
    BY Parts DEF ServerGood
  <1> QED
    BY <1>1, <1>2 DEF InductiveInv, TypeOK, StatesValid, ServerGood,
       ClientGood, ServerStates, ClientStates

-----------------------------------------------------------------------------
(***************************************************************************)
(* The server's steps.                                                     *)
(***************************************************************************)
LEMMA ServerFails ==
    ASSUME InductiveInv, Live(server), NEW now \in Tick,
           server' = Fail(server, now), UNCHANGED <<client, sent, client_epochs>>
    PROVE  InductiveInv'
  <1>1. ServerGood /\ ServerRecords /\ RecordsAnswer /\ sent \subseteq Records
    BY Parts
  <1>2. "FAILED" \in ServerPhase \cup {"RESET"} /\ server.phase # "RESET"
    BY DEF ServerPhase, Live
  <1>3. ServerGood'
    BY <1>1, <1>2, FailGood, FailFields DEF ServerGood, ServerStates
  <1>4. ServerRecords'
    BY <1>1, <1>2, FailFields DEF ServerGood, ServerStates, ServerRecords
  <1>5. RecordsAnswer'
    BY <1>1 DEF RecordsAnswer
  <1> QED
    BY <1>1, <1>3, <1>4, <1>5, ServerStepInv

\* Taking the time, and perhaps answering the client again.
LEMMA ServerTakesTime ==
    ASSUME InductiveInv, Live(server), NEW now \in Tick, InTime(server, now),
           server' = Again(server, now), UNCHANGED <<client, client_epochs>>,
           \/ UNCHANGED sent
           \/ /\ server.phase # "SERVER_WAIT_CLIENT_READY"
              /\ Send(Record("SERVER_ACTIVE", server))
              /\ Record("CLIENT_READY", server) \in sent
    PROVE  InductiveInv'
  <1>1. /\ ServerGood /\ ServerRecords /\ RecordsAnswer /\ sent \subseteq Records
        /\ server.phase # "RESET"
    BY Parts DEF Live
  <1>2. ServerGood'
    BY <1>1, AgainGood, AgainFields DEF ServerGood, ServerStates
  <1>3. CASE UNCHANGED sent
    <2>1. ServerRecords'
      BY <1>1, <1>3, AgainFields DEF ServerGood, ServerStates, ServerRecords
    <2>2. RecordsAnswer'
      BY <1>1, <1>3 DEF RecordsAnswer
    <2> QED
      BY <1>1, <1>2, <1>3, <2>1, <2>2, ServerStepInv
  <1>4. CASE /\ server.phase # "SERVER_WAIT_CLIENT_READY"
             /\ Send(Record("SERVER_ACTIVE", server))
             /\ Record("CLIENT_READY", server) \in sent
    <2> DEFINE r == Record("CLIENT_READY", server)
               a == Record("SERVER_ACTIVE", server)
    <2>1. a = [r EXCEPT !.kind = "SERVER_ACTIVE"] /\ r.kind = Answers["SERVER_ACTIVE"]
      BY DEF Record, Answers
    <2>2. RecordsAnswer' /\ sent' \subseteq Records
      <3> HIDE DEF r, a
      <3> QED
        BY <1>1, <1>4, <2>1, SendAnswer DEF r, a
    <2>3. sent \subseteq sent' /\ \A q \in sent' \ sent : q.kind = "SERVER_ACTIVE"
      BY <1>4, FieldsOfRecord DEF Send
    <2>4. ServerRecords'
      BY <1>1, <1>4, <2>3, AgainFields DEF ServerGood, ServerStates, ServerRecords
    <2> QED
      BY <1>2, <2>2, <2>3, <2>4, ServerStepInv
  <1> QED
    BY <1>3, <1>4

LEMMA ServerChecksTime ==
    ASSUME InductiveInv, NEW now \in Tick, ServerCheckTime(now)
    PROVE  InductiveInv'
  BY ServerFails, ServerTakesTime DEF ServerCheckTime, CheckedTime

\* A new epoch: nothing was sent in it before, and the challenge is now.
LEMMA ServerBegins ==
    ASSUME InductiveInv, ServerGood', server'.phase = "SERVER_WAIT_CLIENT_READY",
           UnusedByServer(server'.epoch), Send(Record("CHALLENGE", server')),
           server'.epoch \in Epoch, server'.caps \in Capabilities,
           server'.nonce \in Nonce, UNCHANGED <<client, client_epochs>>
    PROVE  InductiveInv'
  <1> DEFINE c == Record("CHALLENGE", server')
  <1>1. RecordsAnswer /\ sent \subseteq Records
    BY Parts
  <1>2. c \in Records /\ c.kind = "CHALLENGE" /\ c.epoch = server'.epoch
    BY DEF Record, Records
  <1>3. RecordsAnswer' /\ sent' \subseteq Records
    BY <1>1, <1>2, SendChallenge
  <1>4. \A r \in sent : r.epoch # server'.epoch
    BY <1>1, UnusedHasNone
  <1>5. ServerRecords'
    BY <1>2, <1>4 DEF ServerRecords, Send, Record
  <1>6. sent \subseteq sent' /\ \A r \in sent' \ sent : r.kind = "CHALLENGE"
    BY <1>2 DEF Send
  <1> QED
    BY <1>3, <1>5, <1>6, ServerStepInv

LEMMA ServerInits ==
    ASSUME InductiveInv, NEW epoch \in Epoch, NEW caps \in Capabilities,
           NEW nonce \in Nonce, NEW timeout \in Timeouts, NEW now \in Tick,
           ServerInit(epoch, caps, nonce, timeout, now)
    PROVE  InductiveInv'
  <1> DEFINE phase == "SERVER_WAIT_CLIENT_READY"
  <1>1. /\ server' = Begin(phase, epoch, caps, nonce, timeout, now)
        /\ DeadlineFits(now, timeout) /\ UnusedByServer(epoch)
        /\ Send(Record("CHALLENGE", server')) /\ UNCHANGED <<client, client_epochs>>
    BY DEF ServerInit
  <1>2. nonce \in 0 .. MaxNonce /\ nonce # 0 /\ phase \in ServerPhase \cup {"RESET"}
    BY WidthAssumption DEF Nonce, ServerPhase
  <1>3. server' \in ServerStates /\ StateValidate(server')
    BY <1>1, <1>2, BeginGood DEF ServerStates
  <1>4. /\ server'.phase = phase /\ server'.epoch = epoch /\ server'.caps = caps
        /\ server'.nonce = nonce /\ server'.generation = 1
    BY <1>1 DEF Begin
  <1>5. ServerGood'
    BY <1>2, <1>3, <1>4, WidthAssumption DEF ServerGood, Epoch, ServerStates,
       StateValidate, States
  <1> QED
    BY <1>1, <1>4, <1>5, ServerBegins

LEMMA ServerAdvances ==
    ASSUME InductiveInv, NEW epoch \in Epoch, NEW caps \in Capabilities,
           NEW nonce \in Nonce, NEW timeout \in Timeouts, NEW now \in Tick,
           ServerAdvanceEpoch(epoch, caps, nonce, timeout, now)
    PROVE  InductiveInv'
  <1> DEFINE phase == "SERVER_WAIT_CLIENT_READY"
  <1>1. /\ server' = Advance(server, phase, epoch, caps, nonce, timeout, now)
        /\ MayAdvance(server, epoch, timeout, now) /\ UnusedByServer(epoch)
        /\ server.nonce < nonce
        /\ Send(Record("CHALLENGE", server')) /\ UNCHANGED <<client, client_epochs>>
    BY Parts, StateFields, WidthAssumption
       DEF ServerAdvanceEpoch, ServerGood, ServerStates, Nonce
  <1>2. nonce \in 0 .. MaxNonce /\ nonce # 0 /\ phase \in ServerPhase \cup {"RESET"}
    BY WidthAssumption DEF Nonce, ServerPhase
  <1>3. /\ server \in ServerStates /\ StateValidate(server) /\ server.nonce # 0
        /\ server.generation <= server.epoch
    BY <1>1, Parts DEF ServerGood, MayAdvance, Live
  <1>4. /\ server' \in ServerStates /\ StateValidate(server')
        /\ server'.generation = server.generation + 1
        /\ server'.phase = phase /\ server'.epoch = epoch
        /\ server'.caps = caps /\ server'.nonce = nonce
    BY <1>1, <1>2, <1>3, AdvanceGood DEF ServerStates
  <1>5. server'.generation <= server'.epoch
    BY <1>1, <1>3, <1>4, StateFields, WidthAssumption
       DEF MayAdvance, ServerStates, Epoch
  <1>6. ServerGood'
    BY <1>2, <1>4, <1>5 DEF ServerGood, ServerStates, StateValidate, States
  <1> QED
    BY <1>1, <1>4, <1>6, ServerBegins

LEMMA ServerHearsReady ==
    ASSUME InductiveInv, NEW now \in Tick, NEW r \in sent \cup {Garbled},
           ServerObserveClientReady(r, now)
    PROVE  InductiveInv'
  <1> DEFINE exact == /\ Hears(server, r, "CLIENT_READY", now)
                      /\ Binding(r) = Binding(server)
             fresh == /\ server.phase = "SERVER_WAIT_CLIENT_READY"
                      /\ \/ server.caps \notin Confirming
                         \/ DeadlineFits(now, server.timeout)
             answer == Record("SERVER_ACTIVE", server)
             phase == AfterClientReady(server.caps)
  <1>1. /\ Live(server) /\ UNCHANGED <<client, client_epochs>>
        /\ ServerGood /\ ServerRecords /\ RecordsAnswer /\ sent \subseteq Records
        /\ server.phase # "RESET"
    BY Parts DEF ServerObserveClientReady, Live
  <1>2. ASSUME exact
        PROVE  r \in sent /\ r \in Records /\ r.kind = "CLIENT_READY"
               /\ InTime(server, now) /\ Record("CLIENT_READY", server) = r
               /\ answer = [r EXCEPT !.kind = "SERVER_ACTIVE"]
    <2>1. r \in sent /\ r \in Records /\ r.kind = "CLIENT_READY" /\ InTime(server, now)
      BY <1>1, <1>2, HeardWasSent
    <2> QED
      BY <1>2, <2>1, RecordOfState
  <1>3. CASE /\ exact /\ fresh
             /\ server' = Enter(server, phase, now)
             /\ Send(answer)
    <2>1. RecordsAnswer' /\ sent' \subseteq Records
      <3>1. r.kind = Answers["SERVER_ACTIVE"]
        BY <1>2, <1>3 DEF Answers
      <3> QED
        BY <1>1, <1>2, <1>3, <3>1, SendAnswer
    <2>2. /\ phase \in {"SERVER_WAIT_CLIENT_ACTIVE_CONFIRM", "SERVER_ACTIVE"}
          /\ phase = "SERVER_WAIT_CLIENT_ACTIVE_CONFIRM" <=> server.caps \in Confirming
      BY DEF AfterClientReady
    <2>3. /\ phase \in ServerPhase \cup {"RESET"}
          /\ phase \in WaitingPhase => DeadlineFits(now, server.timeout)
      BY <1>3, <2>2 DEF ServerPhase, WaitingPhase
    <2>4. /\ server \in ServerStates /\ StateValidate(server) /\ server.nonce # 0
          /\ server.nonce \in Nonce /\ server.floor < server.nonce
          /\ server.generation <= server.epoch
      BY <1>1, <1>3, StateFields
         DEF ServerGood, ServerStates, StateValidate, Nonce
    <2>5. [Enter(server, phase, now) EXCEPT !.nonce = server.nonce] = server'
      BY <1>3, <2>4, EnterKeepsNonce DEF ServerStates
    <2>6. /\ server'.phase = phase /\ server'.epoch = server.epoch
          /\ server'.caps = server.caps /\ server'.nonce = server.nonce
          /\ server'.generation = server.generation
          /\ \A kind : Record(kind, server') = Record(kind, server)
      BY <1>3, <2>4, EnterKeepsNonce DEF ServerStates
    <2>7. ServerGood'
      <3>1. server' \in ServerStates /\ StateValidate(server')
        BY <2>2, <2>3, <2>4, <2>5, EnterGood DEF ServerStates
      <3> QED
        BY <2>4, <2>6, <3>1 DEF ServerGood, ServerStates, StateValidate, States
    <2>8. sent \subseteq sent' /\ \A q \in sent' \ sent : q.kind = "SERVER_ACTIVE"
      BY <1>3, FieldsOfRecord DEF Send
    <2>9. ServerRecords'
      BY <1>1, <1>2, <1>3, <2>2, <2>6, <2>8 DEF ServerRecords
    <2> QED
      BY <1>1, <2>1, <2>7, <2>8, <2>9, ServerStepInv
  <1>4. CASE /\ exact /\ server.phase # "SERVER_WAIT_CLIENT_READY"
             /\ server' = Again(server, now)
             /\ Send(answer)
    BY <1>1, <1>2, <1>4, ServerTakesTime
  <1>5. CASE server' = Fail(server, now) /\ UNCHANGED sent
    BY <1>1, <1>5, ServerFails
  <1> QED
    BY <1>3, <1>4, <1>5 DEF ServerObserveClientReady

LEMMA ServerHearsConfirm ==
    ASSUME InductiveInv, NEW now \in Tick, NEW r \in sent \cup {Garbled},
           ServerObserveClientActiveConfirm(r, now)
    PROVE  InductiveInv'
  <1> DEFINE exact == /\ Hears(server, r, "CLIENT_ACTIVE_CONFIRM", now)
                      /\ Binding(r) = Binding(server)
  <1>1. /\ Live(server) /\ UNCHANGED <<client, sent, client_epochs>>
        /\ ServerGood /\ ServerRecords /\ RecordsAnswer /\ sent \subseteq Records
        /\ server.phase # "RESET"
    BY Parts DEF ServerObserveClientActiveConfirm, Live
  <1>2. ASSUME exact
        PROVE  /\ InTime(server, now)
               /\ Record("CLIENT_ACTIVE_CONFIRM", server) \in sent
    <2>1. /\ r \in sent /\ r \in Records /\ r.kind = "CLIENT_ACTIVE_CONFIRM"
          /\ InTime(server, now)
      BY <1>1, <1>2, HeardWasSent
    <2> QED
      BY <1>2, <2>1, RecordOfState
  <1>3. CASE /\ exact /\ server.phase = "SERVER_WAIT_CLIENT_ACTIVE_CONFIRM"
             /\ server' = Enter(server, "SERVER_ACTIVE", now)
    <2>1. /\ server \in ServerStates /\ StateValidate(server) /\ server.nonce # 0
          /\ server.nonce \in Nonce /\ server.floor < server.nonce
          /\ server.generation <= server.epoch
      BY <1>1, <1>3, StateFields
         DEF ServerGood, ServerStates, StateValidate, Nonce
    <2>2. [Enter(server, "SERVER_ACTIVE", now) EXCEPT !.nonce = server.nonce] = server'
      BY <1>3, <2>1, EnterKeepsNonce DEF ServerStates
    <2>3. /\ server'.phase = "SERVER_ACTIVE" /\ server'.epoch = server.epoch
          /\ server'.nonce = server.nonce /\ server'.generation = server.generation
          /\ \A kind : Record(kind, server') = Record(kind, server)
      BY <1>3, <2>1, EnterKeepsNonce DEF ServerStates
    <2>4. ServerGood'
      <3>1. "SERVER_ACTIVE" \in ServerPhase \cup {"RESET"}
        BY DEF ServerPhase
      <3>2. server' \in ServerStates /\ StateValidate(server')
        BY <2>1, <2>2, <3>1, EnterGood DEF ServerStates, WaitingPhase
      <3> QED
        BY <2>1, <2>3, <3>2 DEF ServerGood, ServerStates, StateValidate, States
    <2>5. ServerRecords'
      BY <1>1, <1>2, <1>3, <2>3 DEF ServerRecords
    <2>6. RecordsAnswer'
      BY <1>1 DEF RecordsAnswer
    <2> QED
      BY <1>1, <2>4, <2>5, <2>6, ServerStepInv
  <1>4. CASE exact /\ server' = Again(server, now)
    BY <1>1, <1>2, <1>4, ServerTakesTime
  <1>5. CASE server' = Fail(server, now)
    BY <1>1, <1>5, ServerFails
  <1> QED
    BY <1>3, <1>4, <1>5 DEF ServerObserveClientActiveConfirm
-----------------------------------------------------------------------------
(***************************************************************************)
(* The client's steps.                                                     *)
(***************************************************************************)
LEMMA ClientFails ==
    ASSUME InductiveInv, Live(client), NEW now \in Tick,
           client' = Fail(client, now), UNCHANGED <<server, sent, client_epochs>>
    PROVE  InductiveInv'
  <1>1. /\ ClientGood /\ ClientRecords /\ RecordsAnswer /\ EpochsUsed
        /\ sent \subseteq Records /\ client_epochs \subseteq Epoch
    BY Parts
  <1>2. "FAILED" \in ClientPhase \cup {"RESET"} /\ client.phase # "RESET"
    BY DEF ClientPhase, Live
  <1>3. ClientGood'
    BY <1>1, <1>2, FailGood, FailFields DEF ClientGood, ClientStates
  <1>4. ClientRecords'
    BY <1>1, <1>2, FailFields DEF ClientGood, ClientStates, ClientRecords
  <1>5. RecordsAnswer' /\ EpochsUsed'
    BY <1>1 DEF RecordsAnswer, EpochsUsed
  <1> QED
    BY <1>1, <1>3, <1>4, <1>5, ClientStepInv

\* Taking the time, and perhaps answering the server again.
LEMMA ClientTakesTime ==
    ASSUME InductiveInv, Live(client), NEW now \in Tick, InTime(client, now),
           client' = Again(client, now), UNCHANGED <<server, client_epochs>>,
           RecordsAnswer', sent' \subseteq Records, sent \subseteq sent',
           \A q \in sent' \ sent :
               \/ /\ q.kind = "CLIENT_READY"
                  /\ q.epoch = client.epoch
                  /\ client.phase # "CLIENT_WAIT_CHALLENGE"
               \/ /\ q.kind = "CLIENT_ACTIVE_CONFIRM"
                  /\ client.phase # "CLIENT_WAIT_SERVER_ACTIVE"
    PROVE  InductiveInv'
  <1>1. /\ ClientGood /\ ClientRecords /\ EpochsUsed
        /\ client_epochs \subseteq Epoch /\ client.phase # "RESET"
    BY Parts DEF Live
  <1>2. ClientGood'
    BY <1>1, AgainGood, AgainFields DEF ClientGood, ClientStates
  <1>3. ClientRecords'
    BY <1>1, AgainFields DEF ClientGood, ClientStates, ClientRecords
  <1>4. EpochsUsed'
    BY <1>1 DEF EpochsUsed, ClientRecords
  <1> QED
    BY <1>1, <1>2, <1>3, <1>4, ClientStepInv

LEMMA ClientChecksTime ==
    ASSUME InductiveInv, NEW now \in Tick, ClientCheckTime(now)
    PROVE  InductiveInv'
  <1>1. /\ Live(client) /\ UNCHANGED <<server, sent, client_epochs>>
        /\ client' = CheckedTime(client, now)
        /\ RecordsAnswer /\ sent \subseteq Records
    BY Parts DEF ClientCheckTime
  <1>2. CASE InTime(client, now)
    <2>1. RecordsAnswer'
      BY <1>1 DEF RecordsAnswer
    <2> QED
      BY <1>1, <1>2, <2>1, ClientTakesTime DEF CheckedTime
  <1>3. CASE ~ InTime(client, now)
    BY <1>1, <1>3, ClientFails DEF CheckedTime
  <1> QED
    BY <1>2, <1>3

\* A new epoch: the client has answered nothing in it yet.
LEMMA ClientBegins ==
    ASSUME InductiveInv, ClientGood', client'.phase = "CLIENT_WAIT_CHALLENGE",
           client'.epoch \notin client_epochs, client'.epoch \in Epoch,
           client_epochs' = client_epochs \cup {client'.epoch},
           UNCHANGED <<server, sent>>
    PROVE  InductiveInv'
  <1>1. /\ RecordsAnswer /\ EpochsUsed /\ sent \subseteq Records
        /\ client_epochs \subseteq Epoch
    BY Parts
  <1>2. RecordsAnswer' /\ EpochsUsed'
    BY <1>1 DEF RecordsAnswer, EpochsUsed
  <1>3. ClientRecords'
    BY <1>1 DEF ClientRecords, EpochsUsed
  <1> QED
    BY <1>1, <1>2, <1>3, ClientStepInv

LEMMA ClientInits ==
    ASSUME InductiveInv, NEW epoch \in Epoch, NEW caps \in Capabilities,
           NEW timeout \in Timeouts, NEW now \in Tick,
           ClientInit(epoch, caps, timeout, now)
    PROVE  InductiveInv'
  <1> DEFINE phase == "CLIENT_WAIT_CHALLENGE"
  <1>1. /\ client' = Begin(phase, epoch, caps, 0, timeout, now)
        /\ DeadlineFits(now, timeout) /\ ChallengedEpoch(epoch)
        /\ client_epochs' = client_epochs \cup {epoch} /\ UNCHANGED <<server, sent>>
    BY DEF ClientInit
  <1>2. /\ 0 \in 0 .. MaxNonce /\ MaxNonce # 0
        /\ phase \in ClientPhase \cup {"RESET"}
    BY <1>1, Parts, RecordFields, WidthAssumption
       DEF ChallengedEpoch, Nonce, ClientPhase
  <1>3. client' \in ClientStates /\ StateValidate(client')
    BY <1>1, <1>2, BeginGood DEF ClientStates
  <1>4. client'.phase = phase /\ client'.epoch = epoch /\ client'.generation = 1
    BY <1>1 DEF Begin
  <1>5. ClientGood'
    BY <1>3, <1>4, WidthAssumption DEF ClientGood, Epoch, ClientStates,
       StateValidate, States
  <1> QED
    BY <1>1, <1>4, <1>5, ClientBegins DEF ChallengedEpoch

LEMMA ClientAdvances ==
    ASSUME InductiveInv, NEW epoch \in Epoch, NEW caps \in Capabilities,
           NEW timeout \in Timeouts, NEW now \in Tick,
           ClientAdvanceEpoch(epoch, caps, timeout, now)
    PROVE  InductiveInv'
  <1> DEFINE phase == "CLIENT_WAIT_CHALLENGE"
  <1>1. /\ client' = Advance(client, phase, epoch, caps, 0, timeout, now)
        /\ MayAdvance(client, epoch, timeout, now) /\ ChallengedEpoch(epoch)
        /\ client.nonce # MaxNonce
        /\ client_epochs' = client_epochs \cup {epoch} /\ UNCHANGED <<server, sent>>
    BY DEF ClientAdvanceEpoch
  <1>2. 0 \in 0 .. MaxNonce /\ phase \in ClientPhase \cup {"RESET"}
    BY WidthAssumption DEF ClientPhase
  <1>3. /\ client \in ClientStates /\ StateValidate(client)
        /\ client.generation <= client.epoch
        /\ client.phase # phase => client.nonce # 0
    BY <1>1, Parts DEF ClientGood, MayAdvance, Live, StateValidate
  <1>4. /\ client' \in ClientStates /\ StateValidate(client')
        /\ client'.generation = client.generation + 1
        /\ client'.phase = phase /\ client'.epoch = epoch
    BY <1>1, <1>2, <1>3, AdvanceGood DEF ClientStates
  <1>5. client'.generation <= client'.epoch
    BY <1>1, <1>3, <1>4, StateFields, WidthAssumption
       DEF MayAdvance, ClientStates, Epoch
  <1>6. ClientGood'
    BY <1>4, <1>5 DEF ClientGood, ClientStates, StateValidate, States
  <1> QED
    BY <1>1, <1>4, <1>6, ClientBegins DEF ChallengedEpoch

\* Before the client's first answer of an epoch there is no confirmation.
LEMMA NoEarlyConfirm ==
    ASSUME RecordsAnswer, sent \subseteq Records, NEW epoch,
           \A r \in sent : r.kind = "CLIENT_READY" => r.epoch # epoch
    PROVE  \A r \in sent : r.kind = "CLIENT_ACTIVE_CONFIRM" => r.epoch # epoch
  <1>1. ASSUME NEW r \in sent, r.kind = "SERVER_ACTIVE" PROVE r.epoch # epoch
    <2>1. [r EXCEPT !.kind = "CLIENT_READY"] \in sent
      BY <1>1 DEF RecordsAnswer, Answers
    <2> QED
      BY <2>1 DEF Records
  <1>2. ASSUME NEW r \in sent, r.kind = "CLIENT_ACTIVE_CONFIRM" PROVE r.epoch # epoch
    <2>1. [r EXCEPT !.kind = "SERVER_ACTIVE"] \in sent
      BY <1>2 DEF RecordsAnswer, Answers
    <2> QED
      BY <2>1, <1>1 DEF Records
  <1> QED
    BY <1>2

LEMMA ClientHearsChallenge ==
    ASSUME InductiveInv, NEW now \in Tick, NEW r \in sent \cup {Garbled},
           ClientObserveChallenge(r, now)
    PROVE  InductiveInv'
  <1> DEFINE heard == Hears(client, r, "CHALLENGE", now)
             repeated == /\ client.phase # "CLIENT_WAIT_CHALLENGE"
                         /\ Binding(r) = Binding(client)
             phase == "CLIENT_WAIT_SERVER_ACTIVE"
  <1>1. /\ Live(client) /\ UNCHANGED <<server, client_epochs>>
        /\ ClientGood /\ ClientRecords /\ RecordsAnswer /\ EpochsUsed
        /\ sent \subseteq Records /\ client_epochs \subseteq Epoch
        /\ client.phase # "RESET"
    BY Parts DEF ClientObserveChallenge, Live
  <1>2. ASSUME heard
        PROVE  /\ r \in sent /\ r \in Records /\ r.kind = "CHALLENGE"
               /\ r.kind = Answers["CLIENT_READY"] /\ InTime(client, now)
    BY <1>1, <1>2, HeardWasSent DEF Answers
  <1>3. CASE /\ heard /\ NewChallenge(r, now)
             /\ client' = [Enter(client, phase, now) EXCEPT !.nonce = r.nonce]
             /\ Send(Record("CLIENT_READY", client'))
    <2> DEFINE answer == Record("CLIENT_READY", client')
    <2>1. /\ client.phase = "CLIENT_WAIT_CHALLENGE" /\ r.epoch = client.epoch
          /\ r.caps = client.caps /\ client.floor < r.nonce
          /\ DeadlineFits(now, client.timeout)
      BY <1>1, <1>2, <1>3, RecordFields, StateFields, WidthAssumption
         DEF NewChallenge, ClientGood, ClientStates, Nonce
    <2>2. /\ client'.phase = phase /\ client'.epoch = r.epoch
          /\ client'.caps = r.caps /\ client'.nonce = r.nonce
          /\ client'.generation = client.generation
      BY <1>1, <1>3, <2>1, EnterFields DEF ClientGood, ClientStates
    <2>3. ClientGood'
      <3>1. phase \in ClientPhase \cup {"RESET"} /\ r.nonce \in Nonce
        BY <1>2, <1>3, RecordFields DEF ClientPhase
      <3>2. client \in ClientStates /\ StateValidate(client)
            /\ client.generation <= client.epoch
        BY <1>1 DEF ClientGood
      <3>3. client' \in ClientStates /\ StateValidate(client')
        BY <1>3, <2>1, <3>1, <3>2, EnterGood DEF ClientStates
      <3> QED
        BY <2>1, <2>2, <3>2, <3>3 DEF ClientGood
    <2>4. answer = [r EXCEPT !.kind = "CLIENT_READY"] /\ answer.epoch = client.epoch
          /\ answer.kind = "CLIENT_READY"
      <3>1. Binding(r) = Binding(client') /\ r \in Records
        BY <1>2, <1>3, <2>2 DEF Binding
      <3> QED
        BY <2>1, <2>2, <3>1, RecordOfState, FieldsOfRecord
    <2>5. RecordsAnswer' /\ sent' \subseteq Records
      BY <1>1, <1>2, <1>3, <2>4, SendAnswer
    <2>6. sent \subseteq sent' /\ \A q \in sent' \ sent : q = answer
      BY <1>3 DEF Send
    <2>7. EpochsUsed'
      BY <1>1, <2>4, <2>6 DEF EpochsUsed, ClientRecords
    <2>8. ClientRecords'
      <3>1. \A q \in sent : q.kind = "CLIENT_ACTIVE_CONFIRM" => q.epoch # client.epoch
        BY <1>1, <2>1, NoEarlyConfirm DEF ClientRecords
      <3>2. \A q \in sent' : q.kind = "CLIENT_ACTIVE_CONFIRM" => q.epoch # client'.epoch
        BY <2>1, <2>2, <2>4, <2>6, <3>1
      <3>3. client'.epoch \in client_epochs' /\ answer \in sent'
        BY <1>1, <1>3, <2>1, <2>2 DEF ClientRecords, Send
      <3> QED
        BY <2>2, <3>2, <3>3 DEF ClientRecords
    <2>9. \A q \in sent' \ sent : q.kind = "CLIENT_READY"
      BY <2>4, <2>6
    <2> QED
      BY <1>1, <2>3, <2>5, <2>6, <2>7, <2>8, <2>9, ClientStepInv
  <1>4. CASE /\ heard /\ repeated
             /\ client' = Again(client, now)
             /\ Send(Record("CLIENT_READY", client))
    <2> DEFINE answer == Record("CLIENT_READY", client)
    <2>1. answer = [r EXCEPT !.kind = "CLIENT_READY"] /\ answer.epoch = client.epoch
          /\ answer.kind = "CLIENT_READY"
      BY <1>2, <1>4, RecordOfState, FieldsOfRecord
    <2>2. RecordsAnswer' /\ sent' \subseteq Records
      BY <1>1, <1>2, <1>4, <2>1, SendAnswer
    <2>3. sent \subseteq sent' /\ \A q \in sent' \ sent : q = answer
      BY <1>4 DEF Send
    <2> QED
      BY <1>1, <1>2, <1>4, <2>1, <2>2, <2>3, ClientTakesTime
  <1>5. CASE client' = Fail(client, now) /\ UNCHANGED sent
    BY <1>1, <1>5, ClientFails
  <1> QED
    BY <1>3, <1>4, <1>5 DEF ClientObserveChallenge

LEMMA ClientHearsActive ==
    ASSUME InductiveInv, NEW now \in Tick, NEW r \in sent \cup {Garbled},
           ClientObserveServerActive(r, now)
    PROVE  InductiveInv'
  <1> DEFINE exact == /\ Hears(client, r, "SERVER_ACTIVE", now)
                      /\ Binding(r) = Binding(client)
             fresh == client.phase = "CLIENT_WAIT_SERVER_ACTIVE"
             repeated == client.phase = "CLIENT_ACTIVE"
             answer == Record("CLIENT_ACTIVE_CONFIRM", client)
  <1>1. /\ Live(client) /\ UNCHANGED <<server, client_epochs>>
        /\ ClientGood /\ ClientRecords /\ RecordsAnswer /\ EpochsUsed
        /\ sent \subseteq Records /\ client_epochs \subseteq Epoch
        /\ client.phase # "RESET"
    BY Parts DEF ClientObserveServerActive, Live
  <1>2. ASSUME exact
        PROVE  /\ r \in sent /\ r.kind = Answers["CLIENT_ACTIVE_CONFIRM"]
               /\ InTime(client, now) /\ Record("SERVER_ACTIVE", client) = r
               /\ answer = [r EXCEPT !.kind = "CLIENT_ACTIVE_CONFIRM"]
    <2>1. /\ r \in sent /\ r \in Records /\ r.kind = "SERVER_ACTIVE"
          /\ InTime(client, now)
      BY <1>1, <1>2, HeardWasSent
    <2> QED
      BY <1>2, <2>1, RecordOfState DEF Answers
  <1>3. ASSUME exact, fresh \/ repeated
        PROVE  /\ RecordsAnswer' /\ sent' \subseteq Records /\ sent \subseteq sent'
               /\ \A q \in sent' \ sent : q.kind = "CLIENT_ACTIVE_CONFIRM"
    <2>1. CASE client.caps \in Confirming
      <3>1. Send(answer)
        BY <1>3, <2>1 DEF ClientObserveServerActive
      <3> QED
        BY <1>1, <1>2, <1>3, <3>1, SendAnswer, FieldsOfRecord DEF Send
    <2>2. CASE client.caps \notin Confirming
      <3>1. UNCHANGED sent
        BY <1>3, <2>2 DEF ClientObserveServerActive
      <3> QED
        BY <1>1, <3>1 DEF RecordsAnswer
    <2> QED
      BY <2>1, <2>2
  <1>4. CASE exact /\ fresh /\ client' = Enter(client, "CLIENT_ACTIVE", now)
    <2>1. /\ client \in ClientStates /\ StateValidate(client)
          /\ client.nonce \in Nonce /\ client.floor < client.nonce
          /\ client.generation <= client.epoch
      BY <1>1, <1>4, StateFields
         DEF ClientGood, ClientStates, StateValidate, Nonce
    <2>2. /\ [Enter(client, "CLIENT_ACTIVE", now) EXCEPT !.nonce = client.nonce] = client'
          /\ client'.phase = "CLIENT_ACTIVE" /\ client'.epoch = client.epoch
          /\ client'.generation = client.generation
          /\ \A kind : Record(kind, client') = Record(kind, client)
      BY <1>4, <2>1, EnterKeepsNonce DEF ClientStates
    <2>3. ClientGood'
      <3>1. "CLIENT_ACTIVE" \in ClientPhase \cup {"RESET"}
        BY DEF ClientPhase
      <3>2. client' \in ClientStates /\ StateValidate(client')
        BY <2>1, <2>2, <3>1, EnterGood DEF ClientStates, WaitingPhase
      <3> QED
        BY <2>1, <2>2, <3>2 DEF ClientGood
    <2>4. ClientRecords'
      BY <1>1, <1>2, <1>3, <1>4, <2>2 DEF ClientRecords
    <2>5. EpochsUsed'
      BY <1>1, <1>3, <1>4 DEF EpochsUsed
    <2> QED
      BY <1>1, <1>3, <1>4, <2>3, <2>4, <2>5, ClientStepInv
  <1>5. CASE exact /\ repeated /\ client' = Again(client, now)
    BY <1>1, <1>2, <1>3, <1>5, ClientTakesTime
  <1>6. CASE client' = Fail(client, now) /\ UNCHANGED sent
    BY <1>1, <1>6, ClientFails
  <1> QED
    BY <1>4, <1>5, <1>6 DEF ClientObserveServerActive

-----------------------------------------------------------------------------
(***************************************************************************)
(* The theorems.                                                           *)
(***************************************************************************)
LEMMA ZeroedType ==
    ASSUME NEW phases, "RESET" \in phases
    PROVE  Zeroed \in States(phases) /\ Zeroed.phase = "RESET"
  BY WidthAssumption DEF Zeroed, States, Tick

LEMMA InvInit == Init => InductiveInv
  <1> SUFFICES ASSUME Init PROVE InductiveInv
    OBVIOUS
  <1>1. ServerGood /\ ClientGood /\ server.phase = "RESET" /\ client.phase = "RESET"
    BY ZeroedType DEF Init, ServerGood, ClientGood, ServerStates, ClientStates
  <1>2. sent = {} /\ client_epochs = {}
    BY DEF Init
  <1> QED
    BY <1>1, <1>2, Parts
       DEF RecordsAnswer, EpochsUsed, ServerRecords, ClientRecords

LEMMA InvResets ==
    ASSUME InductiveInv, ServerReset \/ ClientReset
    PROVE  InductiveInv'
  <1>1. /\ RecordsAnswer /\ EpochsUsed /\ sent \subseteq Records
        /\ client_epochs \subseteq Epoch
    BY Parts
  <1>2. UNCHANGED <<sent, client_epochs>> /\ RecordsAnswer' /\ EpochsUsed'
    BY <1>1 DEF ServerReset, ClientReset, RecordsAnswer, EpochsUsed
  <1>3. CASE ServerReset
    <2>1. ServerGood' /\ ServerRecords'
      BY <1>3, ZeroedType DEF ServerReset, ServerGood, ServerStates, ServerRecords
    <2> QED
      BY <1>1, <1>2, <1>3, <2>1, ServerStepInv DEF ServerReset
  <1>4. CASE ClientReset
    <2>1. ClientGood' /\ ClientRecords'
      BY <1>4, ZeroedType DEF ClientReset, ClientGood, ClientStates, ClientRecords
    <2> QED
      BY <1>1, <1>2, <1>4, <2>1, ClientStepInv DEF ClientReset
  <1> QED
    BY <1>3, <1>4

LEMMA InvNext == InductiveInv /\ [Next]_vars => InductiveInv'
  <1> SUFFICES ASSUME InductiveInv, [Next]_vars PROVE InductiveInv'
    OBVIOUS
  <1>1. CASE UNCHANGED vars
    BY <1>1 DEF vars, InductiveInv, TypeOK, StatesValid, RecordsAnswer,
       EpochsUsed, ServerRecords, ClientRecords
  <1>2. CASE \E now \in Tick : ServerStep(now)
    BY <1>2, ServerInits, ServerAdvances, ServerHearsReady, ServerHearsConfirm,
       ServerChecksTime DEF ServerStep
  <1>3. CASE \E now \in Tick : ClientStep(now)
    BY <1>3, ClientInits, ClientAdvances, ClientHearsChallenge,
       ClientHearsActive, ClientChecksTime DEF ClientStep
  <1>4. CASE ServerReset \/ ClientReset
    BY <1>4, InvResets
  <1> QED
    BY <1>1, <1>2, <1>3, <1>4 DEF Next

\* InductiveInv is an invariant, whatever records come late, again, or
\* garbled, and whatever times the callers read.
THEOREM InvariantHolds == Spec => []InductiveInv
  BY InvInit, InvNext, PTL DEF Spec

\* TypeOK: clock, epochs, nonces and generations stay within their widths.
THEOREM TypeCorrect == Spec => []TypeOK
  <1>1. InductiveInv => TypeOK
    BY DEF InductiveInv
  <1> QED
    BY <1>1, InvariantHolds, PTL

\* StatesValid: Worr_NativeReadinessStateValidateV1 accepts every state that
\* the entry points produce.
THEOREM ProducedStatesValid == Spec => []StatesValid
  <1>1. InductiveInv => StatesValid
    BY DEF InductiveInv
  <1> QED
    BY <1>1, InvariantHolds, PTL

\* RecordsAnswer: each record answers one that was sent, and one epoch has
\* one binding.
THEOREM AnswersOnly == Spec => []RecordsAnswer
  <1>1. InductiveInv => RecordsAnswer
    BY DEF InductiveInv
  <1> QED
    BY <1>1, InvariantHolds, PTL

\* GatesAgree: who may send native data has a peer that may receive it.
LEMMA GatesFollow == InductiveInv => GatesAgree
  <1> SUFFICES ASSUME InductiveInv, Live(server), Live(client),
                      server.epoch = client.epoch
               PROVE  /\ CanTransmit(server) =>
                            /\ CanReceive(client)
                            /\ Binding(client) = Binding(server)
                            /\ server.caps \in Confirming => CanTransmit(client)
                      /\ CanTransmit(client) =>
                            /\ CanReceive(server)
                            /\ Binding(server) = Binding(client)
    BY DEF GatesAgree
  <1>1. /\ ServerRecords /\ ClientRecords /\ RecordsAnswer
        /\ server.phase \in ServerPhase \ {"FAILED"}
        /\ client.phase \in ClientPhase \ {"FAILED"}
    BY Parts, StateFields DEF Live, ServerGood, ClientGood, ServerStates, ClientStates
  <1>2. \A k, l : Record(k, server) \in sent /\ Record(l, client) \in sent
                     => Binding(server) = Binding(client)
    BY <1>1, FieldsOfRecord DEF RecordsAnswer
  <1>3. ASSUME CanTransmit(server)
        PROVE  /\ CanReceive(client)
               /\ Binding(client) = Binding(server)
               /\ server.caps \in Confirming => CanTransmit(client)
    <2>1. server.phase = "SERVER_ACTIVE" /\ Record("CLIENT_READY", server) \in sent
      BY <1>1, <1>3 DEF CanTransmit, ServerRecords, ClientPhase, ServerPhase
    <2>2. client.phase \in {"CLIENT_WAIT_SERVER_ACTIVE", "CLIENT_ACTIVE"}
      BY <1>1, <2>1, FieldsOfRecord DEF ClientPhase, ClientRecords
    <2>3. Binding(client) = Binding(server)
      BY <1>1, <1>2, <2>1, <2>2 DEF ClientRecords
    <2>4. ASSUME server.caps \in Confirming PROVE client.phase = "CLIENT_ACTIVE"
      <3>1. Record("CLIENT_ACTIVE_CONFIRM", server) \in sent
        BY <1>1, <2>1, <2>4 DEF ServerRecords
      <3> QED
        BY <1>1, <2>2, <3>1, FieldsOfRecord DEF ClientRecords
    <2> QED
      BY <2>2, <2>3, <2>4 DEF CanReceive, CanTransmit
  <1>4. ASSUME CanTransmit(client)
        PROVE  CanReceive(server) /\ Binding(server) = Binding(client)
    <2>1. client.phase = "CLIENT_ACTIVE" /\ Record("SERVER_ACTIVE", client) \in sent
      BY <1>1, <1>4 DEF CanTransmit, ClientRecords, ClientPhase
    <2>2. server.phase \in {"SERVER_WAIT_CLIENT_ACTIVE_CONFIRM", "SERVER_ACTIVE"}
      BY <1>1, <2>1, FieldsOfRecord DEF ServerPhase, ServerRecords
    <2>3. Binding(server) = Binding(client)
      BY <1>1, <1>2, <2>1 DEF ServerRecords, Live
    <2> QED
      BY <2>2, <2>3 DEF CanReceive
  <1> QED
    BY <1>3, <1>4

\* GatesAgree, for every width and every set of capabilities.
THEOREM GatesAlwaysAgree == Spec => []GatesAgree
  BY GatesFollow, InvariantHolds, PTL
-----------------------------------------------------------------------------
(***************************************************************************)
(* What one step may do to a state.                                        *)
(***************************************************************************)
ResetIsZeroed ==
    /\ server.phase = "RESET" => server = Zeroed
    /\ client.phase = "RESET" => client = Zeroed

\* It stays, is reset, begins, goes on in its epoch, or leaves it for a later.
Stays(s, t) == t = s
Begins(s, t) == s.phase = "RESET" /\ t.phase \notin {"RESET", "FAILED"}
GoesOn(s, t) ==
    /\ s.phase \notin {"RESET", "FAILED"} /\ t.phase # "RESET"
    /\ t.epoch = s.epoch /\ t.floor = s.floor /\ s.last <= t.last
    /\ t.phase = s.phase => t.deadline = s.deadline
Leaves(s, t) ==
    /\ s.phase \notin {"RESET", "FAILED"} /\ t.phase # "RESET"
    /\ t.epoch \in Nat /\ s.epoch < t.epoch /\ s.floor <= t.floor
    /\ s.nonce <= t.floor /\ s.last <= t.last
Moves(s, t) == \/ Stays(s, t)
               \/ t = Zeroed
               \/ Begins(s, t)
               \/ GoesOn(s, t)
               \/ Leaves(s, t)

LEMMA FailMoves ==
    ASSUME NEW phases, NEW s \in States(phases), NEW now \in Tick, Live(s)
    PROVE  Moves(s, Fail(s, now))
  <1>1. /\ Fail(s, now).phase = "FAILED" /\ Fail(s, now).epoch = s.epoch
        /\ Fail(s, now).floor = s.floor
        /\ Fail(s, now).last = IF now < s.last THEN s.last ELSE now
    BY DEF Fail, States
  <1>2. s.last <= Fail(s, now).last
    BY <1>1, StateFields, WidthAssumption DEF Tick
  <1> QED
    BY <1>1, <1>2 DEF Moves, GoesOn, Live

LEMMA AgainMoves ==
    ASSUME NEW phases, NEW s \in States(phases), NEW now \in Tick, Live(s),
           InTime(s, now)
    PROVE  Moves(s, Again(s, now))
  <1>1. /\ Again(s, now).phase = s.phase /\ Again(s, now).epoch = s.epoch
        /\ Again(s, now).floor = s.floor /\ Again(s, now).last = now
        /\ Again(s, now).deadline = s.deadline
    BY DEF Again, States
  <1>2. s.last <= now
    BY StateFields, WidthAssumption DEF InTime, Tick
  <1> QED
    BY <1>1, <1>2 DEF Moves, GoesOn, Live

LEMMA EnterMoves ==
    ASSUME NEW phases, NEW s \in States(phases), NEW now \in Tick, Live(s),
           InTime(s, now), NEW phase, phase # s.phase, phase # "RESET", NEW nonce
    PROVE  /\ Moves(s, Enter(s, phase, now))
           /\ Moves(s, [Enter(s, phase, now) EXCEPT !.nonce = nonce])
  <1>1. /\ Enter(s, phase, now).phase = phase /\ Enter(s, phase, now).epoch = s.epoch
        /\ Enter(s, phase, now).floor = s.floor /\ Enter(s, phase, now).last = now
    BY DEF Enter, States
  <1>2. /\ [Enter(s, phase, now) EXCEPT !.nonce = nonce].phase = phase
        /\ [Enter(s, phase, now) EXCEPT !.nonce = nonce].epoch = s.epoch
        /\ [Enter(s, phase, now) EXCEPT !.nonce = nonce].floor = s.floor
        /\ [Enter(s, phase, now) EXCEPT !.nonce = nonce].last = now
    BY DEF Enter, States
  <1>3. s.last <= now
    BY StateFields, WidthAssumption DEF InTime, Tick
  <1> QED
    BY <1>1, <1>2, <1>3 DEF Moves, GoesOn, Live

LEMMA AdvanceMoves ==
    ASSUME NEW phases, NEW s \in States(phases), StateValidate(s),
           NEW phase, phase # "RESET", NEW epoch \in Epoch, NEW caps, NEW nonce,
           NEW timeout, NEW now \in Tick, MayAdvance(s, epoch, timeout, now)
    PROVE  Moves(s, Advance(s, phase, epoch, caps, nonce, timeout, now))
  <1> DEFINE t == Advance(s, phase, epoch, caps, nonce, timeout, now)
             floor == IF s.nonce # 0 THEN s.nonce ELSE s.floor
  <1>1. /\ t.phase = phase /\ t.epoch = epoch /\ t.floor = floor /\ t.last = now
    BY DEF Begin, Advance
  <1>2. /\ epoch \in Nat /\ s.epoch < epoch /\ s.last <= now /\ s.phase \notin {"RESET", "FAILED"}
        /\ s.floor <= floor /\ s.nonce <= floor
    BY StateFields, WidthAssumption
       DEF MayAdvance, StateValidate, Live, Tick, Epoch
  <1> QED
    BY <1>1, <1>2 DEF Moves, Leaves

LEMMA ServerMoves ==
    ASSUME InductiveInv, Next PROVE Moves(server, server')
  <1>1. ServerGood
    BY Parts
  <1>2. server \in ServerStates /\ (Live(server) => StateValidate(server))
    BY <1>1 DEF ServerGood, Live
  <1>3. ASSUME NEW now \in Tick, NEW epoch \in Epoch, NEW caps \in Capabilities,
               NEW nonce \in Nonce, NEW timeout \in Timeouts,
               ServerInit(epoch, caps, nonce, timeout, now)
        PROVE  Moves(server, server')
    BY <1>3 DEF ServerInit, Begin, Moves, Begins
  <1>4. ASSUME NEW now \in Tick, NEW epoch \in Epoch, NEW caps \in Capabilities,
               NEW nonce \in Nonce, NEW timeout \in Timeouts,
               ServerAdvanceEpoch(epoch, caps, nonce, timeout, now)
        PROVE  Moves(server, server')
    <2>1. MayAdvance(server, epoch, timeout, now) /\ StateValidate(server)
      BY <1>2, <1>4 DEF ServerAdvanceEpoch, MayAdvance
    <2> QED
      BY <1>2, <1>4, <2>1, AdvanceMoves DEF ServerAdvanceEpoch, ServerStates
  <1>5. ASSUME NEW now \in Tick, NEW r \in sent \cup {Garbled},
               ServerObserveClientReady(r, now)
        PROVE  Moves(server, server')
    <2>1. AfterClientReady(server.caps) \notin {"RESET", "SERVER_WAIT_CLIENT_READY"}
      BY DEF AfterClientReady
    <2> QED
      BY <1>2, <1>5, <2>1, FailMoves, AgainMoves, EnterMoves
         DEF ServerObserveClientReady, Hears, ServerStates
  <1>6. ASSUME NEW now \in Tick, NEW r \in sent \cup {Garbled},
               ServerObserveClientActiveConfirm(r, now)
        PROVE  Moves(server, server')
    BY <1>2, <1>6, FailMoves, AgainMoves, EnterMoves
       DEF ServerObserveClientActiveConfirm, Hears, ServerStates
  <1>7. ASSUME NEW now \in Tick, ServerCheckTime(now) PROVE Moves(server, server')
    BY <1>2, <1>7, FailMoves, AgainMoves
       DEF ServerCheckTime, CheckedTime, ServerStates
  <1>8. ASSUME NEW now \in Tick, ServerStep(now) PROVE Moves(server, server')
    BY <1>3, <1>4, <1>5, <1>6, <1>7, <1>8 DEF ServerStep
  <1>9. ASSUME NEW now \in Tick, ClientStep(now) PROVE server' = server
    BY <1>9 DEF ClientStep, ClientInit, ClientAdvanceEpoch,
       ClientObserveChallenge, ClientObserveServerActive, ClientCheckTime
  <1> QED
    BY <1>8, <1>9 DEF Next, ServerReset, ClientReset, Moves, Stays

LEMMA ClientMoves ==
    ASSUME InductiveInv, Next PROVE Moves(client, client')
  <1>1. ClientGood
    BY Parts
  <1>2. client \in ClientStates /\ (Live(client) => StateValidate(client))
    BY <1>1 DEF ClientGood, Live
  <1>3. ASSUME NEW now \in Tick, NEW epoch \in Epoch, NEW caps \in Capabilities,
               NEW timeout \in Timeouts, ClientInit(epoch, caps, timeout, now)
        PROVE  Moves(client, client')
    BY <1>3 DEF ClientInit, Begin, Moves, Begins
  <1>4. ASSUME NEW now \in Tick, NEW epoch \in Epoch, NEW caps \in Capabilities,
               NEW timeout \in Timeouts, ClientAdvanceEpoch(epoch, caps, timeout, now)
        PROVE  Moves(client, client')
    <2>1. MayAdvance(client, epoch, timeout, now) /\ StateValidate(client)
      BY <1>2, <1>4 DEF ClientAdvanceEpoch, MayAdvance
    <2> QED
      BY <1>2, <1>4, <2>1, AdvanceMoves DEF ClientAdvanceEpoch, ClientStates
  <1>5. ASSUME NEW now \in Tick, NEW r \in sent \cup {Garbled},
               ClientObserveChallenge(r, now)
        PROVE  Moves(client, client')
    <2>1. CASE /\ Hears(client, r, "CHALLENGE", now) /\ NewChallenge(r, now)
               /\ client' = [Enter(client, "CLIENT_WAIT_SERVER_ACTIVE", now) EXCEPT
                                !.nonce = r.nonce]
      <3>1. /\ client \in States(ClientPhase \cup {"RESET"})
            /\ Live(client) /\ InTime(client, now)
            /\ "CLIENT_WAIT_SERVER_ACTIVE" # client.phase
        BY <1>2, <1>5, <2>1
           DEF ClientObserveChallenge, NewChallenge, Hears, ClientStates
      <3> QED
        BY <2>1, <3>1, EnterMoves
    <2>2. CASE Hears(client, r, "CHALLENGE", now) /\ client' = Again(client, now)
      BY <1>2, <1>5, <2>2, AgainMoves
         DEF ClientObserveChallenge, Hears, ClientStates
    <2>3. CASE client' = Fail(client, now)
      BY <1>2, <1>5, <2>3, FailMoves DEF ClientObserveChallenge, ClientStates
    <2> QED
      BY <1>5, <2>1, <2>2, <2>3 DEF ClientObserveChallenge
  <1>6. ASSUME NEW now \in Tick, NEW r \in sent \cup {Garbled},
               ClientObserveServerActive(r, now)
        PROVE  Moves(client, client')
    BY <1>2, <1>6, FailMoves, AgainMoves, EnterMoves
       DEF ClientObserveServerActive, Hears, ClientStates
  <1>7. ASSUME NEW now \in Tick, ClientCheckTime(now) PROVE Moves(client, client')
    BY <1>2, <1>7, FailMoves, AgainMoves
       DEF ClientCheckTime, CheckedTime, ClientStates
  <1>8. ASSUME NEW now \in Tick, ClientStep(now) PROVE Moves(client, client')
    BY <1>3, <1>4, <1>5, <1>6, <1>7, <1>8 DEF ClientStep
  <1>9. ASSUME NEW now \in Tick, ServerStep(now) PROVE client' = client
    BY <1>9 DEF ServerStep, ServerInit, ServerAdvanceEpoch,
       ServerObserveClientReady, ServerObserveClientActiveConfirm, ServerCheckTime
  <1> QED
    BY <1>8, <1>9 DEF Next, ServerReset, ClientReset, Moves, Stays

LEMMA ResetInv == Spec => []ResetIsZeroed
  <1>1. Init => ResetIsZeroed
    BY DEF Init, ResetIsZeroed
  <1>2. InductiveInv /\ ResetIsZeroed /\ [Next]_vars => ResetIsZeroed'
    <2> SUFFICES ASSUME InductiveInv, ResetIsZeroed, [Next]_vars PROVE ResetIsZeroed'
      OBVIOUS
    <2>1. CASE UNCHANGED vars
      BY <2>1 DEF vars, ResetIsZeroed
    <2>2. CASE Next
      BY <2>2, ServerMoves, ClientMoves
         DEF ResetIsZeroed, Moves, Stays, Begins, GoesOn, Leaves
    <2> QED
      BY <2>1, <2>2
  <1> QED
    BY <1>1, <1>2, InvariantHolds, PTL DEF Spec

\* One move that keeps phase and epoch keeps the deadline.
LEMMA MoveKeepsDeadline ==
    ASSUME NEW phases, NEW s \in States(phases), NEW t, Moves(s, t),
           s.phase = "RESET" => s = Zeroed, t.phase = s.phase, t.epoch = s.epoch
    PROVE  t.deadline = s.deadline
  <1>1. ~ Leaves(s, t)
    BY StateFields DEF Leaves
  <1>2. Zeroed.phase = "RESET"
    BY DEF Zeroed
  <1> QED
    BY <1>1, <1>2 DEF Moves, Stays, Begins, GoesOn

\* One move between two live or failed states goes forward.
LEMMA MoveGoesForward ==
    ASSUME NEW phases, NEW s \in States(phases), NEW t, Moves(s, t),
           s.phase # "RESET", t.phase # "RESET"
    PROVE  /\ s.epoch <= t.epoch
           /\ s.floor <= t.floor
           /\ s.last <= t.last
           /\ s.epoch < t.epoch => s.nonce <= t.floor
           /\ s.phase = "FAILED" => t = s
  <1>1. Zeroed.phase = "RESET"
    BY DEF Zeroed
  <1> QED
    <2>1. CASE Stays(s, t)
      BY <2>1, StateFields DEF Stays
    <2>2. CASE GoesOn(s, t)
      BY <2>2, StateFields DEF GoesOn
    <2>3. CASE Leaves(s, t)
      BY <2>3, StateFields DEF Leaves
    <2> QED
      BY <1>1, <2>1, <2>2, <2>3 DEF Moves, Begins

\* WaitNotProlonged: no duplicate makes a wait longer.
THEOREM WaitsEnd == Spec => WaitNotProlonged
  <1>1. InductiveInv /\ ResetIsZeroed /\ [Next]_vars =>
            [\A s \in {<<server, server'>>, <<client, client'>>} :
                s[2].phase = s[1].phase /\ s[2].epoch = s[1].epoch
                    => s[2].deadline = s[1].deadline]_vars
    <2> SUFFICES ASSUME InductiveInv, ResetIsZeroed, Next
                 PROVE  \A s \in {<<server, server'>>, <<client, client'>>} :
                            s[2].phase = s[1].phase /\ s[2].epoch = s[1].epoch
                                => s[2].deadline = s[1].deadline
      OBVIOUS
    <2>1. server'.phase = server.phase /\ server'.epoch = server.epoch
              => server'.deadline = server.deadline
      BY ServerMoves, MoveKeepsDeadline, Parts
         DEF ResetIsZeroed, ServerGood, ServerStates
    <2>2. client'.phase = client.phase /\ client'.epoch = client.epoch
              => client'.deadline = client.deadline
      BY ClientMoves, MoveKeepsDeadline, Parts
         DEF ResetIsZeroed, ClientGood, ClientStates
    <2> QED
      BY <2>1, <2>2
  <1> QED
    BY <1>1, InvariantHolds, ResetInv, PTL DEF Spec, WaitNotProlonged

\* OnlyForward: epochs, nonce floors and times grow between resets.
THEOREM NeverBack == Spec => OnlyForward
  <1>1. InductiveInv /\ [Next]_vars =>
            [\A s \in {<<server, server'>>, <<client, client'>>} :
                s[1].phase # "RESET" /\ s[2].phase # "RESET" =>
                    /\ s[1].epoch <= s[2].epoch
                    /\ s[1].floor <= s[2].floor
                    /\ s[1].last <= s[2].last
                    /\ s[1].epoch < s[2].epoch => s[1].nonce <= s[2].floor
                    /\ s[1].phase = "FAILED" => s[2] = s[1]]_vars
    <2> SUFFICES ASSUME InductiveInv, Next,
                        NEW s \in {<<server, server'>>, <<client, client'>>},
                        s[1].phase # "RESET", s[2].phase # "RESET"
                 PROVE  /\ s[1].epoch <= s[2].epoch
                        /\ s[1].floor <= s[2].floor
                        /\ s[1].last <= s[2].last
                        /\ s[1].epoch < s[2].epoch => s[1].nonce <= s[2].floor
                        /\ s[1].phase = "FAILED" => s[2] = s[1]
      OBVIOUS
    <2>1. CASE s = <<server, server'>>
      <3>1. server \in ServerStates /\ s[1] = server /\ s[2] = server'
        BY <2>1, Parts DEF ServerGood
      <3> QED
        BY <3>1, ServerMoves, MoveGoesForward DEF ServerStates
    <2>2. CASE s = <<client, client'>>
      <3>1. client \in ClientStates /\ s[1] = client /\ s[2] = client'
        BY <2>2, Parts DEF ClientGood
      <3> QED
        BY <3>1, ClientMoves, MoveGoesForward DEF ClientStates
    <2> QED
      BY <2>1, <2>2
  <1> QED
    BY <1>1, InvariantHolds, PTL DEF Spec, OnlyForward
=============================================================================
