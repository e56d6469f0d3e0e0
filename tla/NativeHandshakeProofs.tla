----------------------- MODULE NativeHandshakeProofs -----------------------
(***************************************************************************)
(* Proofs about the handshake for every number of maps, of carriers on the *)
(* way and of faults.                                                      *)
(*                                                                         *)
(* The invariant says what each end has learned of an epoch by the time a  *)
(* record or a carrier of it is on the way: KnownToClient(e) holds from    *)
(* the client's CONFIRM of e on, KnownToServer(e) from SERVER_ACTIVE on,   *)
(* and neither is ever unlearned, because an epoch that an end leaves is   *)
(* left below its floor.  The steps of one end are summed up in            *)
(* ServerLearns and ClientLearns, proved of each operator once.            *)
(***************************************************************************)
EXTENDS NativeHandshake, SequenceTheorems, TLAPS

Server == [on : BOOLEAN,
           life : {"WAIT_READINESS", "ACTIVE", "DRAIN", "DETACHED"},
           phase : {"NONE", "WAIT_READY", "WAIT_CONFIRM", "ACTIVE"},
           epoch : Nat, floor : Nat, transport : Nat, wire : Nat,
           owes : BOOLEAN, late : BOOLEAN]
Client == [on : BOOLEAN, mode : {"ARMING", "ACTIVE", "DRAIN"},
           quiesced : BOOLEAN, confirmed : BOOLEAN,
           phase : {"NONE", "WAIT_ACTIVE", "ACTIVE"},
           epoch : Nat, floor : Nat, session : Nat,
           committed : BOOLEAN, owes : BOOLEAN, late : BOOLEAN]
ServerItem == [kind : ToServer, epoch : Nat]
ClientItem == [kind : ToClient, epoch : Nat]

Types ==
    /\ server \in Server
    /\ client \in Client
    /\ to_server \in Seq(ServerItem)
    /\ to_client \in Seq(ClientItem)

\* What holds of the server's peer alone.
ServerInv(s) ==
    /\ s.floor <= s.epoch /\ s.wire <= s.epoch
    /\ s.wire = 0 \/ s.wire = s.epoch \/ s.wire <= s.floor
    /\ s.transport # 0 =>
           /\ s.transport = s.epoch /\ s.transport = s.wire
           /\ s.transport > s.floor
           /\ s.life \in {"ACTIVE", "DRAIN"}
    /\ s.life = "ACTIVE" =>
           s.transport # 0 /\ s.phase \in {"WAIT_CONFIRM", "ACTIVE"}
    /\ s.on <=> s.life \in {"WAIT_READINESS", "ACTIVE"}
    /\ ~s.on => s.phase = "NONE"
    /\ s.phase # "NONE" => s.epoch > 0
    /\ s.life = "DETACHED" => s.wire = 0
    /\ s.life = "DRAIN" => s.wire # 0
    /\ s.owes => s.transport # 0

\* What holds of the client's pilot alone.
ClientInv(c) ==
    /\ c.floor <= c.epoch
    /\ c.session # 0 => c.session = c.epoch /\ c.session > c.floor
    /\ c.epoch # 0 => c.committed
    /\ c.mode = "ACTIVE" => c.session # 0
    /\ c.owes => c.session # 0
    /\ ~c.on => c = Off

KnownToClient(e) ==
    client.on => client.floor >= e \/ client.session = e
KnownToServer(e) ==
    server.wire # 0 /\ (server.floor >= e \/ server.wire = e)

\* What the client has learned.
ClientKnows ==
    /\ \A x \in Range(to_server) :
           x.kind \in {"CONFIRM", "DATA", "ACK"} =>
               x.epoch > 0 /\ KnownToClient(x.epoch)
    /\ \A x \in Range(to_client) :
           x.kind \in Carrier => x.epoch > 0 /\ KnownToClient(x.epoch)
    /\ server.phase = "ACTIVE" => KnownToClient(server.epoch)
    /\ server.owes => KnownToClient(server.transport)

\* What the server has learned.
ServerKnows ==
    /\ \A x \in Range(to_client) :
           x.kind = "SERVER_ACTIVE" => x.epoch > 0 /\ KnownToServer(x.epoch)
    /\ \A x \in Range(to_server) :
           x.kind \in Carrier => KnownToServer(x.epoch)
    /\ client.session # 0 => KnownToServer(client.session)

\* No DATA is sent to a client that is told to do without the transport.
LegacyLast(q) ==
    \A i, j \in DOMAIN q :
        i < j /\ q[i].kind = "LEGACY" => q[j].kind # "DATA"

\* A pilot is disabled before it commits or by a server that has stopped.
OffInv ==
    /\ \A x \in Range(to_client) : x.kind = "LEGACY" => ~server.on
    /\ LegacyLast(to_client)
    /\ ~client.on =>
           /\ \A x \in Range(to_client) : x.kind # "DATA"
           /\ \/ ~server.on
              \/ /\ server.phase # "ACTIVE"
                 /\ \A x \in Range(to_server) : x.kind # "CONFIRM"

IInv ==
    /\ Types /\ ServerInv(server) /\ ClientInv(client)
    /\ ClientKnows /\ ServerKnows /\ OffInv

-----------------------------------------------------------------------------
(***************************************************************************)
(* The operators of the server's peer.                                     *)
(***************************************************************************)
GoodServer(s) == s \in Server /\ ServerInv(s)

\* From s to t the server has unlearned nothing ...
ServerKeeps(s, t) ==
    /\ t.on => s.on
    /\ t.floor >= s.floor
    /\ s.wire # 0 => t.wire # 0 /\ (t.wire = s.wire \/ s.wire <= t.floor)

\* ... and may send no more than it could send before.
ServerLearns(s, t) ==
    /\ ServerKeeps(s, t)
    /\ t.phase = "ACTIVE" => s.phase = "ACTIVE" /\ t.epoch = s.epoch
    /\ t.owes => s.owes /\ t.transport = s.transport

\* Two such steps make one: PacketBegin and what the packet brings.
LEMMA ServerLearnsTransitive ==
    ASSUME NEW s \in Server, NEW t \in Server, NEW u \in Server,
           ServerLearns(s, t), ServerLearns(t, u)
    PROVE  ServerLearns(s, u)
  BY DEF ServerLearns, ServerKeeps, Server

\* A committed peer that fails keeps its transport for the carriers.
LEMMA DrainedGood ==
    ASSUME NEW s, GoodServer(s), s.wire # 0
    PROVE  GoodServer(Drained(s)) /\ ServerLearns(s, Drained(s))
<1>1. Drained(s) \in Server
  BY DEF GoodServer, Server, Drained
<1>2. /\ Drained(s).on = FALSE /\ Drained(s).phase = "NONE"
      /\ Drained(s).life = "DRAIN" /\ Drained(s).epoch = s.epoch
      /\ Drained(s).floor = s.floor /\ Drained(s).wire = s.wire
      /\ Drained(s).transport = s.transport /\ Drained(s).owes = s.owes
  BY DEF GoodServer, Server, Drained
<1> QED
  BY <1>1, <1>2 DEF GoodServer, ServerInv, ServerLearns, ServerKeeps, Server

\* A peer that fails drains, or detaches if it never committed.
LEMMA DisableGood ==
    ASSUME NEW s, GoodServer(s)
    PROVE  /\ GoodServer(Disable(s)) /\ ServerLearns(s, Disable(s))
           /\ ~Disable(s).on
<1>1. CASE s.wire # 0 \/ s.life = "DRAIN"
  <2>1. s.wire # 0
    BY <1>1 DEF GoodServer, ServerInv
  <2>2. Disable(s) = Drained(s) /\ ~Drained(s).on
    BY <1>1 DEF Disable, Drained, GoodServer, Server
  <2> QED
    BY <2>1, <2>2, DrainedGood
<1>2. CASE s.wire = 0 /\ s.life # "DRAIN"
  <2> DEFINE t == [Drained(s) EXCEPT !.life = "DETACHED"]
  <2>1. t \in Server
    BY DEF GoodServer, Server, Drained
  <2>2. /\ t.on = FALSE /\ t.phase = "NONE" /\ t.life = "DETACHED"
        /\ t.epoch = s.epoch /\ t.floor = s.floor /\ t.wire = s.wire
        /\ t.transport = s.transport /\ t.owes = s.owes
    BY DEF GoodServer, Server, Drained
  <2>3. s.transport = 0
    BY <1>2 DEF GoodServer, ServerInv
  <2>4. Disable(s) = t
    BY <1>2 DEF Disable
  <2> HIDE DEF t
  <2> QED
    BY <1>2, <2>1, <2>2, <2>3, <2>4 DEF GoodServer, ServerInv, ServerLearns, ServerKeeps, Server
<1> QED
  BY <1>1, <1>2

LEMMA PacketBeginGood ==
    ASSUME NEW s, GoodServer(s)
    PROVE  /\ GoodServer(ServerPacketBegin(s))
           /\ ServerLearns(s, ServerPacketBegin(s))
<1>1. ServerLearns(s, s)
  BY DEF ServerLearns, ServerKeeps, GoodServer, Server
<1> QED
  BY <1>1, DisableGood DEF ServerPacketBegin

\* A map change leaves the epoch below the floor.
LEMMA QuiesceMapGood ==
    ASSUME NEW s, GoodServer(s)
    PROVE  GoodServer(QuiesceMap(s)) /\ ServerLearns(s, QuiesceMap(s))
<1>1. CASE ~s.on
  BY <1>1 DEF QuiesceMap, ServerLearns, ServerKeeps, GoodServer, Server
<1>2. CASE s.on
  <2> DEFINE t == QuiesceMap(s)
  <2>1. Larger(s.floor, s.epoch) = s.epoch
    BY DEF Larger, GoodServer, ServerInv, Server
  <2>2. t \in Server
    BY <1>2, <2>1 DEF QuiesceMap, Cancelled, GoodServer, Server
  <2>3. /\ t.on /\ t.phase = s.phase /\ t.life = "WAIT_READINESS"
        /\ t.epoch = s.epoch /\ t.floor = s.epoch /\ t.wire = s.wire
        /\ t.transport = 0 /\ t.owes = FALSE
    BY <1>2, <2>1 DEF QuiesceMap, Cancelled, GoodServer, Server
  <2> HIDE DEF t
  <2>4. s.wire \in Nat /\ s.epoch \in Nat /\ s.floor \in Nat
    BY DEF GoodServer, Server
  <2>5. s.floor <= s.epoch /\ s.wire <= s.epoch
    BY DEF GoodServer, ServerInv
  <2>6. ServerInv(t)
    BY <1>2, <2>3, <2>4, <2>5 DEF GoodServer, ServerInv
  <2>7. ServerLearns(s, t)
    BY <1>2, <2>3, <2>4, <2>5 DEF ServerLearns, ServerKeeps
  <2> QED
    BY <2>2, <2>6, <2>7 DEF GoodServer, t
<1> QED
  BY <1>1, <1>2

\* So does a new CHALLENGE.
LEMMA BeginEpochGood ==
    ASSUME NEW s, GoodServer(s), s.on
    PROVE  GoodServer(BeginEpoch(s)) /\ ServerLearns(s, BeginEpoch(s))
<1> DEFINE r == Cancelled(s)
           t == BeginEpoch(s)
<1>1. Larger(s.floor, s.epoch) = s.epoch
  BY DEF Larger, GoodServer, ServerInv, Server
<1>2. /\ r \in Server
      /\ r.on = s.on /\ r.epoch = s.epoch /\ r.floor = s.epoch
      /\ r.wire = s.wire /\ r.transport = 0 /\ r.owes = FALSE
  BY <1>1 DEF Cancelled, GoodServer, Server
<1>3. t = [r EXCEPT !.epoch = @ + 1, !.phase = "WAIT_READY", !.late = FALSE,
                    !.life = "WAIT_READINESS"]
  BY DEF BeginEpoch
<1> HIDE DEF r, t
<1>4. r.epoch \in Nat /\ r.epoch + 1 \in Nat
  BY <1>2 DEF Server
<1>5. t \in Server
  <2> DEFINE n == r.epoch + 1
  <2>1. t = [r EXCEPT !.epoch = n, !.phase = "WAIT_READY", !.late = FALSE,
                      !.life = "WAIT_READINESS"]
    BY <1>3
  <2>2. n \in Nat
    BY <1>4
  <2> HIDE DEF n
  <2> QED
    BY <1>2, <2>1, <2>2 DEF Server
<1>6. /\ t.on = s.on /\ t.phase = "WAIT_READY" /\ t.life = "WAIT_READINESS"
      /\ t.epoch = s.epoch + 1 /\ t.floor = s.epoch /\ t.wire = s.wire
      /\ t.transport = 0 /\ t.owes = FALSE
  BY <1>2, <1>3 DEF Server
<1>7. GoodServer(t) /\ ServerLearns(s, t)
  BY <1>5, <1>6 DEF GoodServer, ServerInv, ServerLearns, ServerKeeps, Server
<1> QED
  BY <1>7 DEF t

\* READY of the epoch that is waited for commits it.
LEMMA OpenedGood ==
    ASSUME NEW s, GoodServer(s), s.on, s.phase = "WAIT_READY",
           s.epoch > s.floor
    PROVE  /\ GoodServer(Opened(Ready(s))) /\ ServerLearns(s, Opened(Ready(s)))
           /\ Opened(Ready(s)).wire = s.epoch
<1> DEFINE t == Opened(Ready(s))
<1>1. t \in Server
  BY DEF Opened, Ready, GoodServer, Server
<1>2. /\ t.on = s.on /\ t.phase = "WAIT_CONFIRM" /\ t.life = "ACTIVE"
      /\ t.epoch = s.epoch /\ t.floor = s.floor /\ t.wire = s.epoch
      /\ t.transport = s.epoch /\ t.owes = s.owes
  BY DEF Opened, Ready, GoodServer, Server
<1>3. s.transport = 0
  BY DEF GoodServer, ServerInv
<1> HIDE DEF t
<1>4. GoodServer(t) /\ ServerLearns(s, t)
  BY <1>1, <1>2, <1>3 DEF GoodServer, ServerInv, ServerLearns, ServerKeeps, Server
<1> QED
  BY <1>2, <1>4 DEF t
\* ... whatever becomes of the transport.
LEMMA NotOpenedGood ==
    ASSUME NEW s, GoodServer(s), s.on, s.phase = "WAIT_READY",
           s.epoch > s.floor
    PROVE  /\ GoodServer(NotOpened(Ready(s)))
           /\ ServerLearns(s, NotOpened(Ready(s)))
           /\ NotOpened(Ready(s)).wire = s.epoch
<1> DEFINE t == [Ready(s) EXCEPT !.wire = s.epoch]
<1>1. t \in Server /\ Ready(s).epoch = s.epoch
  BY DEF Ready, GoodServer, Server
<1>2. /\ t.on = s.on /\ t.phase = "WAIT_CONFIRM" /\ t.life = s.life
      /\ t.epoch = s.epoch /\ t.floor = s.floor /\ t.wire = s.epoch
      /\ t.transport = s.transport /\ t.owes = s.owes
  BY DEF Ready, GoodServer, Server
<1>3. s.transport = 0 /\ s.life = "WAIT_READINESS" /\ s.epoch # 0
  BY DEF GoodServer, ServerInv, Server
<1>4. NotOpened(Ready(s)) = Disable(t)
  BY <1>1 DEF NotOpened
<1> HIDE DEF t
<1>5. GoodServer(t) /\ ServerLearns(s, t)
  BY <1>1, <1>2, <1>3 DEF GoodServer, ServerInv, ServerLearns, ServerKeeps, Server
<1>6. Disable(t) = Drained(t) /\ Drained(t).wire = t.wire
  BY <1>1, <1>2, <1>3 DEF Disable, Drained, Server
<1>7. GoodServer(Disable(t)) /\ ServerLearns(t, Disable(t))
  BY <1>5, DisableGood
<1> QED
  BY <1>2, <1>4, <1>5, <1>6, <1>7, ServerLearnsTransitive DEF GoodServer

\* A READY of which the core could not queue the SERVER_ACTIVE.
LEMMA ReadyFailedGood ==
    ASSUME NEW s, GoodServer(s), s.on, s.phase = "WAIT_READY"
    PROVE  /\ GoodServer(Disable(Ready(s)))
           /\ ServerLearns(s, Disable(Ready(s)))
<1> DEFINE t == Ready(s)
<1>1. t \in Server
  BY DEF Ready, GoodServer, Server
<1>2. /\ t.on = s.on /\ t.phase = "WAIT_CONFIRM" /\ t.life = s.life
      /\ t.epoch = s.epoch /\ t.floor = s.floor /\ t.wire = s.wire
      /\ t.transport = s.transport /\ t.owes = s.owes
  BY DEF Ready, GoodServer, Server
<1> HIDE DEF t
<1>3. GoodServer(t) /\ ServerLearns(s, t)
  BY <1>1, <1>2 DEF GoodServer, ServerInv, ServerLearns, ServerKeeps, Server
<1>4. GoodServer(Disable(t)) /\ ServerLearns(t, Disable(t))
  BY <1>3, DisableGood
<1> QED
  BY <1>3, <1>4, ServerLearnsTransitive DEF GoodServer, t

\* The readiness core becomes active by the client's CONFIRM.
LEMMA ConfirmedGood ==
    ASSUME NEW s, GoodServer(s), s.on, s.transport # 0,
           s.phase = "WAIT_CONFIRM",
           NEW t, t = [s EXCEPT !.phase = "ACTIVE", !.late = FALSE]
    PROVE  /\ GoodServer(t) /\ ServerKeeps(s, t)
           /\ t.epoch = s.epoch /\ t.owes = s.owes
           /\ t.transport = s.transport /\ t.on
<1>1. t \in Server
  BY DEF GoodServer, Server
<1>2. /\ t.on = s.on /\ t.phase = "ACTIVE" /\ t.life = s.life
      /\ t.epoch = s.epoch /\ t.floor = s.floor /\ t.wire = s.wire
      /\ t.transport = s.transport /\ t.owes = s.owes
  BY DEF GoodServer, Server
<1> QED
  BY <1>1, <1>2 DEF GoodServer, ServerInv, ServerKeeps, Server

\* DATA is owed a receipt.
LEMMA OwingGood ==
    ASSUME NEW s, GoodServer(s), s.transport # 0,
           NEW t, t = [s EXCEPT !.owes = TRUE]
    PROVE  /\ GoodServer(t) /\ ServerKeeps(s, t)
           /\ t.epoch = s.epoch /\ t.phase = s.phase
           /\ t.transport = s.transport /\ t.on = s.on
<1>1. t \in Server
  BY DEF GoodServer, Server
<1>2. /\ t.on = s.on /\ t.phase = s.phase /\ t.life = s.life
      /\ t.epoch = s.epoch /\ t.floor = s.floor /\ t.wire = s.wire
      /\ t.transport = s.transport
  BY DEF GoodServer, Server
<1> QED
  BY <1>1, <1>2 DEF GoodServer, ServerInv, ServerKeeps, Server

\* The receipt is sent, or the clock passes the deadline.
LEMMA SmallUpdatesGood ==
    ASSUME NEW s, GoodServer(s)
    PROVE  /\ GoodServer([s EXCEPT !.owes = FALSE])
           /\ ServerLearns(s, [s EXCEPT !.owes = FALSE])
           /\ GoodServer([s EXCEPT !.late = TRUE])
           /\ ServerLearns(s, [s EXCEPT !.late = TRUE])
           /\ ServerLearns(s, s)
<1>1. ASSUME NEW t \in Server, t.on = s.on, t.phase = s.phase,
             t.life = s.life, t.epoch = s.epoch, t.floor = s.floor,
             t.wire = s.wire, t.transport = s.transport, t.owes => s.owes
      PROVE  GoodServer(t) /\ ServerLearns(s, t)
  BY <1>1 DEF GoodServer, ServerInv, ServerLearns, ServerKeeps, Server
<1>2. GoodServer([s EXCEPT !.owes = FALSE])
      /\ ServerLearns(s, [s EXCEPT !.owes = FALSE])
  <2> DEFINE t == [s EXCEPT !.owes = FALSE]
  <2>1. /\ t \in Server /\ t.on = s.on /\ t.phase = s.phase
        /\ t.life = s.life /\ t.epoch = s.epoch /\ t.floor = s.floor
        /\ t.wire = s.wire /\ t.transport = s.transport /\ t.owes = FALSE
    BY DEF GoodServer, Server
  <2> HIDE DEF t
  <2>2. GoodServer(t) /\ ServerLearns(s, t)
    BY <1>1, <2>1
  <2> QED
    BY <2>2 DEF t
<1>3. GoodServer([s EXCEPT !.late = TRUE])
      /\ ServerLearns(s, [s EXCEPT !.late = TRUE])
  <2> DEFINE t == [s EXCEPT !.late = TRUE]
  <2>1. /\ t \in Server /\ t.on = s.on /\ t.phase = s.phase
        /\ t.life = s.life /\ t.epoch = s.epoch /\ t.floor = s.floor
        /\ t.wire = s.wire /\ t.transport = s.transport /\ t.owes = s.owes
    BY DEF GoodServer, Server
  <2> HIDE DEF t
  <2>2. GoodServer(t) /\ ServerLearns(s, t)
    BY <1>1, <2>1
  <2> QED
    BY <2>2 DEF t
<1>4. ServerLearns(s, s)
  BY <1>1 DEF GoodServer
<1> QED
  BY <1>2, <1>3, <1>4

-----------------------------------------------------------------------------
(***************************************************************************)
(* The operators of the client's pilot.                                    *)
(***************************************************************************)
GoodClient(c) == c \in Client /\ ClientInv(c)

\* From c to d a pilot that stays on has unlearned nothing, and a drain is
\* not left for an active session ...
ClientKeeps(c, d) ==
    d.on => /\ c.on
            /\ d.floor >= c.floor
            /\ c.session # 0 => d.session = c.session \/ c.session <= d.floor
            /\ c.mode = "DRAIN" => d.mode # "ACTIVE"

\* ... and neither is anything new known, nor a committed pilot disabled.
ClientLearns(c, d) ==
    /\ ClientKeeps(c, d)
    /\ d.session # 0 => d.session = c.session
    /\ d.on => d.epoch = c.epoch
    /\ d.on /\ c.mode = "DRAIN" => d.mode = "DRAIN"
    /\ c.on /\ ~d.on => c.epoch = 0

LEMMA ClientKeepsTransitive ==
    ASSUME NEW c \in Client, NEW d \in Client, NEW e \in Client,
           ClientLearns(c, d), ClientKeeps(d, e)
    PROVE  ClientKeeps(c, e)
  BY DEF ClientLearns, ClientKeeps, Client

LEMMA ClientLearnsTransitive ==
    ASSUME NEW c \in Client, NEW d \in Client, NEW e \in Client,
           GoodClient(d), ClientLearns(c, d), ClientLearns(d, e)
    PROVE  ClientLearns(c, e)
<1>1. ClientKeeps(c, e) /\ (e.on => e.epoch = c.epoch)
  BY ClientKeepsTransitive DEF ClientLearns, ClientKeeps
<1>2. e.session # 0 => e.session = c.session
  BY DEF ClientLearns
<1>3. e.on /\ c.mode = "DRAIN" => e.mode = "DRAIN"
  BY DEF ClientLearns, ClientKeeps
<1>4. ASSUME c.on, ~e.on PROVE c.epoch = 0
  <2>1. CASE ~d.on
    BY <1>4, <2>1 DEF ClientLearns
  <2>2. CASE d.on
    BY <1>4, <2>2 DEF ClientLearns
  <2> QED
    BY <2>1, <2>2
<1> QED
  BY <1>1, <1>2, <1>3, <1>4 DEF ClientLearns

LEMMA SameClientLearns ==
    ASSUME NEW c, GoodClient(c)
    PROVE  ClientLearns(c, c)
  BY DEF GoodClient, Client, ClientLearns, ClientKeeps

LEMMA OffGood == GoodClient(Off) /\ ~Off.on /\ Off.session = 0
<1>1. Off \in Client /\ Off.on = FALSE /\ Off.floor = 0 /\ Off.epoch = 0
      /\ Off.session = 0 /\ Off.mode = "ARMING" /\ Off.owes = FALSE
  BY DEF Off, FreshClient, Client
<1> QED
  BY <1>1 DEF GoodClient, ClientInv

\* The drain keeps the session for the carriers.
LEMMA DrainingGood ==
    ASSUME NEW c, GoodClient(c), c.on
    PROVE  /\ GoodClient(Draining(c)) /\ ClientLearns(c, Draining(c))
           /\ Draining(c).on
<1> DEFINE d == Draining(c)
<1>1. /\ d \in Client /\ d.on = c.on /\ d.mode = "DRAIN"
      /\ d.epoch = c.epoch /\ d.floor = c.floor /\ d.session = c.session
      /\ d.committed = c.committed /\ d.owes = c.owes
  BY DEF Draining, GoodClient, Client
<1> HIDE DEF d
<1>2. GoodClient(d) /\ ClientLearns(c, d)
  BY <1>1 DEF GoodClient, ClientInv, ClientLearns, ClientKeeps, Client
<1> QED
  BY <1>1, <1>2 DEF d

LEMMA FailedGood ==
    ASSUME NEW c, GoodClient(c)
    PROVE  GoodClient(Failed(c)) /\ ClientLearns(c, Failed(c))
<1>1. CASE ~c.on
  BY <1>1, SameClientLearns DEF Failed
<1>2. CASE c.on /\ c.committed
  BY <1>2, DrainingGood DEF Failed
<1>3. CASE c.on /\ ~c.committed
  <2>1. Failed(c) = Off /\ c.epoch = 0
    BY <1>3 DEF Failed, GoodClient, ClientInv
  <2> QED
    BY <2>1, OffGood DEF ClientLearns, ClientKeeps
<1> QED
  BY <1>1, <1>2, <1>3

LEMMA ClientPacketBeginGood ==
    ASSUME NEW c, GoodClient(c)
    PROVE  /\ GoodClient(ClientPacketBegin(c))
           /\ ClientLearns(c, ClientPacketBegin(c))
  BY FailedGood, SameClientLearns DEF ClientPacketBegin

LEMMA MapBoundaryGood ==
    ASSUME NEW c, GoodClient(c)
    PROVE  /\ GoodClient(MapBoundary(c)) /\ ClientLearns(c, MapBoundary(c))
           /\ MapBoundary(c).on = c.on
<1>1. CASE ~c.on
  BY <1>1, SameClientLearns DEF MapBoundary
<1>2. CASE c.on
  <2> DEFINE d == MapBoundary(c)
  <2>1. /\ d \in Client /\ d.on = c.on /\ d.mode = "DRAIN"
        /\ d.epoch = c.epoch /\ d.floor = c.floor /\ d.session = c.session
        /\ d.committed = c.committed /\ d.owes = c.owes
    BY <1>2 DEF MapBoundary, Draining, GoodClient, Client
  <2> HIDE DEF d
  <2>2. GoodClient(d) /\ ClientLearns(c, d)
    BY <1>2, <2>1 DEF GoodClient, ClientInv, ClientLearns, ClientKeeps, Client
  <2> QED
    BY <2>1, <2>2 DEF d
<1> QED
  BY <1>1, <1>2

\* The server data of an enabled peer.
LEMMA ConfirmedModeGood ==
    ASSUME NEW c, GoodClient(c), c.on,
           NEW d, d = [MapBoundary(c) EXCEPT !.confirmed = TRUE]
    PROVE  GoodClient(d) /\ ClientLearns(c, d) /\ d.on
<1> DEFINE b == MapBoundary(c)
<1>1. GoodClient(b) /\ ClientLearns(c, b) /\ b.on
  BY MapBoundaryGood
<1>2. d = [b EXCEPT !.confirmed = TRUE]
  OBVIOUS
<1> HIDE DEF b
<1>3. /\ d \in Client /\ d.on = b.on /\ d.mode = b.mode
      /\ d.epoch = b.epoch /\ d.floor = b.floor /\ d.session = b.session
      /\ d.committed = b.committed /\ d.owes = b.owes
  BY <1>1, <1>2 DEF GoodClient, Client
<1>4. GoodClient(d)
  BY <1>1, <1>3 DEF GoodClient, ClientInv, Client
<1>5. ClientLearns(c, d)
  BY <1>1, <1>3 DEF ClientLearns, ClientKeeps
<1> QED
  BY <1>1, <1>3, <1>4, <1>5

\* A CHALLENGE leaves the epoch before below the floor.
LEMMA ArmedGood ==
    ASSUME NEW c, GoodClient(c), c.on, NEW epoch \in Nat, MayArm(c, epoch)
    PROVE  /\ GoodClient(Armed(c, epoch)) /\ ClientKeeps(c, Armed(c, epoch))
           /\ Armed(c, epoch).session = 0 /\ Armed(c, epoch).on
<1> DEFINE d == Armed(c, epoch)
<1>1. Larger(c.floor, c.epoch) = c.epoch
  BY DEF Larger, GoodClient, ClientInv, Client
<1>2. /\ d \in Client /\ d.on = c.on /\ d.mode = "ARMING"
      /\ d.epoch = epoch /\ d.floor = c.epoch /\ d.session = 0
      /\ d.committed = TRUE /\ d.owes = FALSE
  BY <1>1 DEF Armed, GoodClient, Client
<1>3. epoch > c.epoch
  BY DEF MayArm
<1> HIDE DEF d
<1>4. GoodClient(d) /\ ClientKeeps(c, d)
  BY <1>2, <1>3 DEF GoodClient, ClientInv, ClientKeeps, Client
<1> QED
  BY <1>2, <1>4 DEF d

\* SERVER_ACTIVE of the epoch that is waited for sets up its session.
LEMMA ActivatedGood ==
    ASSUME NEW c, GoodClient(c), c.on, NEW epoch \in Nat, epoch > c.floor,
           MayActivate(c, epoch)
    PROVE  /\ GoodClient(Activated(c, epoch))
           /\ ClientKeeps(c, Activated(c, epoch))
           /\ Activated(c, epoch).session = epoch
           /\ Activated(c, epoch).on
           /\ Activated(c, epoch).epoch = epoch
           /\ epoch > 0
<1> DEFINE d == Activated(c, epoch)
<1>1. /\ d \in Client /\ d.on = c.on /\ d.mode = "ACTIVE"
      /\ d.epoch = c.epoch /\ d.floor = c.floor /\ d.session = epoch
      /\ d.committed = c.committed /\ d.owes = c.owes
  BY DEF Activated, GoodClient, Client
<1>2. epoch = c.epoch /\ c.mode # "DRAIN"
  BY DEF MayActivate
<1>3. epoch > 0
  BY DEF GoodClient, Client
<1> HIDE DEF d
<1>4. GoodClient(d) /\ ClientKeeps(c, d)
  BY <1>1, <1>2, <1>3 DEF GoodClient, ClientInv, ClientKeeps, Client
<1> QED
  BY <1>1, <1>2, <1>3, <1>4 DEF d

\* Updates of fields that say nothing about an epoch.
LEMMA SmallClientUpdates ==
    ASSUME NEW c, GoodClient(c), NEW d \in Client,
           d.on = c.on, d.mode = c.mode, d.epoch = c.epoch,
           d.floor = c.floor, d.session = c.session,
           d.committed = c.committed, d.owes => d.session # 0, d.on
    PROVE  GoodClient(d) /\ ClientLearns(c, d)
  BY DEF GoodClient, ClientInv, ClientLearns, ClientKeeps, Client

-----------------------------------------------------------------------------
(***************************************************************************)
(* The channel.                                                            *)
(***************************************************************************)
\* What is taken out by a loss or an arrival leaves the rest in its order.
LEMMA RemovalThins ==
    ASSUME NEW S, NEW q \in Seq(S), NEW i \in DOMAIN q
    PROVE  /\ RemoveAt(q, i) \in Seq(S)
           /\ Range(RemoveAt(q, i)) \subseteq Range(q)
           /\ LegacyLast(q) => LegacyLast(RemoveAt(q, i))
<1> DEFINE p == RemoveAt(q, i)
<1>1. /\ p \in Seq(S) /\ Len(p) = Len(q) - 1
      /\ \A j \in 1 .. Len(p) : p[j] = IF j < i THEN q[j] ELSE q[j + 1]
  <2> DEFINE a == SubSeq(q, 1, i - 1)
             b == SubSeq(q, i + 1, Len(q))
  <2>1. /\ a \in Seq(S) /\ Len(a) = i - 1
        /\ \A j \in 1 .. i - 1 : a[j] = q[j]
    OBVIOUS
  <2>2. /\ b \in Seq(S) /\ Len(b) = Len(q) - i
        /\ \A j \in 1 .. Len(q) - i : b[j] = q[j + i]
    OBVIOUS
  <2>3. p = a \o b
    BY DEF RemoveAt
  <2> HIDE DEF a, b, p
  <2>4. /\ p \in Seq(S) /\ Len(p) = Len(a) + Len(b)
        /\ \A j \in 1 .. Len(p) :
               p[j] = IF j <= Len(a) THEN a[j] ELSE b[j - Len(a)]
    BY <2>1, <2>2, <2>3, ConcatProperties
  <2>5. Len(p) = Len(q) - 1
    BY <2>1, <2>2, <2>4
  <2>6. ASSUME NEW j \in 1 .. Len(p)
        PROVE  p[j] = IF j < i THEN q[j] ELSE q[j + 1]
    <3>1. CASE j < i
      BY <2>1, <2>4, <3>1
    <3>2. CASE ~(j < i)
      <4>1. /\ ~(j <= i - 1) /\ j - (i - 1) \in 1 .. Len(q) - i
            /\ (j - (i - 1)) + i = j + 1
        BY <2>5, <3>2
      <4> QED
        BY <2>1, <2>2, <2>4, <3>2, <4>1
    <3> QED
      BY <3>1, <3>2
  <2> QED
    BY <2>4, <2>5, <2>6
<1>2. \A j \in DOMAIN p : \E k \in DOMAIN q : p[j] = q[k]
  <2> SUFFICES ASSUME NEW j \in DOMAIN p PROVE \E k \in DOMAIN q : p[j] = q[k]
    OBVIOUS
  <2>1. CASE j < i
    <3>1. p[j] = q[j] /\ j \in DOMAIN q
      BY <1>1, <2>1
    <3> QED
      BY <3>1
  <2>2. CASE ~(j < i)
    <3>1. p[j] = q[j + 1] /\ j + 1 \in DOMAIN q
      BY <1>1, <2>2
    <3> QED
      BY <3>1
  <2> QED
    BY <2>1, <2>2
<1>3. ASSUME LegacyLast(q), NEW j \in DOMAIN p, NEW k \in DOMAIN p, j < k,
             p[j].kind = "LEGACY"
      PROVE  p[k].kind # "DATA"
  <2> DEFINE a == IF j < i THEN j ELSE j + 1
             b == IF k < i THEN k ELSE k + 1
  <2>1. /\ a \in DOMAIN q /\ b \in DOMAIN q /\ a < b
        /\ p[j] = q[a] /\ p[k] = q[b]
    BY <1>1, <1>3
  <2> HIDE DEF p, a, b
  <2> QED
    BY <1>3, <2>1 DEF LegacyLast
<1> HIDE DEF p
<1>4. Range(p) \subseteq Range(q)
  BY <1>2 DEF Range
<1>5. LegacyLast(q) => LegacyLast(p)
  BY <1>3 DEF LegacyLast
<1> QED
  BY <1>1, <1>4, <1>5 DEF p

\* A record takes the carriers before it with it.
LEMMA SuffixThins ==
    ASSUME NEW S, NEW q \in Seq(S), NEW i \in DOMAIN q
    PROVE  /\ SubSeq(q, i + 1, Len(q)) \in Seq(S)
           /\ Range(SubSeq(q, i + 1, Len(q))) \subseteq Range(q)
           /\ LegacyLast(q) => LegacyLast(SubSeq(q, i + 1, Len(q)))
           /\ LegacyLast(q) /\ q[i].kind = "LEGACY" =>
                  \A x \in Range(SubSeq(q, i + 1, Len(q))) : x.kind # "DATA"
<1> DEFINE p == SubSeq(q, i + 1, Len(q))
<1>1. /\ p \in Seq(S) /\ Len(p) = Len(q) - i
      /\ \A j \in 1 .. Len(p) : p[j] = q[j + i]
  OBVIOUS
<1>2. \A j \in DOMAIN p : j + i \in DOMAIN q /\ i < j + i /\ p[j] = q[j + i]
  BY <1>1
<1>3. ASSUME LegacyLast(q), NEW j \in DOMAIN p, NEW k \in DOMAIN p, j < k,
             p[j].kind = "LEGACY"
      PROVE  p[k].kind # "DATA"
  <2>1. j + i < k + i
    BY <1>1, <1>3
  <2> HIDE DEF p
  <2> QED
    BY <1>2, <1>3, <2>1 DEF LegacyLast
<1> HIDE DEF p
<1>4. Range(p) \subseteq Range(q)
  BY <1>2 DEF Range
<1>5. LegacyLast(q) => LegacyLast(p)
  BY <1>3 DEF LegacyLast
<1>6. ASSUME LegacyLast(q), q[i].kind = "LEGACY"
      PROVE  \A x \in Range(p) : x.kind # "DATA"
  BY <1>2, <1>6 DEF LegacyLast, Range
<1> QED
  BY <1>1, <1>4, <1>5, <1>6 DEF p

LEMMA ArrivalThins ==
    ASSUME NEW S, NEW q \in Seq(S), NEW i \in DOMAIN q
    PROVE  /\ WithoutArrived(q, i) \in Seq(S)
           /\ Range(WithoutArrived(q, i)) \subseteq Range(q)
           /\ LegacyLast(q) => LegacyLast(WithoutArrived(q, i))
           /\ q[i] \in Range(q) /\ q[i] \in S
<1>1. q[i] \in Range(q) /\ q[i] \in S
  BY DEF Range
<1>2. WithoutArrived(q, i) \in {RemoveAt(q, i), SubSeq(q, i + 1, Len(q))}
  BY DEF WithoutArrived
<1> QED
  BY <1>1, <1>2, RemovalThins, SuffixThins

LEMMA AppendAdds ==
    ASSUME NEW S, NEW q \in Seq(S), NEW x \in S
    PROVE  /\ Append(q, x) \in Seq(S)
           /\ Range(Append(q, x)) = Range(q) \cup {x}
           /\ LegacyLast(q) /\ x.kind # "DATA" => LegacyLast(Append(q, x))
           /\ (\A y \in Range(q) : y.kind # "LEGACY") =>
                  LegacyLast(Append(q, x))
<1> DEFINE p == Append(q, x)
<1>1. /\ p \in Seq(S) /\ Len(p) = Len(q) + 1 /\ p[Len(q) + 1] = x
      /\ \A j \in 1 .. Len(q) : p[j] = q[j]
      /\ DOMAIN p = 1 .. Len(q) + 1 /\ DOMAIN q = 1 .. Len(q)
      /\ Len(q) \in Nat
  OBVIOUS
<1> HIDE DEF p
<1>2. DOMAIN p = DOMAIN q \cup {Len(q) + 1}
  BY <1>1
<1>3. Range(p) = Range(q) \cup {x}
  BY <1>1, <1>2 DEF Range
<1>4. ASSUME NEW j \in DOMAIN p, NEW k \in DOMAIN p, j < k
      PROVE  j \in DOMAIN q /\ p[j] = q[j]
  BY <1>1, <1>4
<1>5. LegacyLast(q) /\ x.kind # "DATA" => LegacyLast(p)
  BY <1>1, <1>2, <1>4 DEF LegacyLast
<1>6. (\A y \in Range(q) : y.kind # "LEGACY") => LegacyLast(p)
  BY <1>4 DEF LegacyLast, Range
<1> QED
  BY <1>1, <1>3, <1>5, <1>6 DEF p

-----------------------------------------------------------------------------
(***************************************************************************)
(* A step of one end, in general.                                          *)
(***************************************************************************)
\* What every step of the invariant starts from.
LEMMA Known ==
    ASSUME IInv
    PROVE  /\ GoodServer(server) /\ GoodClient(client)
           /\ server.epoch \in Nat /\ server.transport \in Nat
           /\ client.epoch \in Nat /\ client.session \in Nat
           /\ to_server \in Seq(ServerItem) /\ to_client \in Seq(ClientItem)
           /\ LegacyLast(to_client)
  BY DEF IInv, OffInv, GoodServer, GoodClient, Types, Server, Client

\* What every step does: it keeps the invariant and unlearns nothing.
Kept == IInv' /\ ServerKeeps(server, server') /\ ClientKeeps(client, client')

\* What the server may put on the way.
ServerMaySend(x) ==
    /\ x.kind \in Carrier => x.epoch > 0 /\ KnownToClient(x.epoch)
    /\ x.kind = "SERVER_ACTIVE" => x.epoch > 0 /\ KnownToServer(x.epoch)'
    /\ x.kind = "LEGACY" => ~server'.on
    /\ x.kind = "DATA" => client.on

LEMMA ServerStep ==
    ASSUME IInv,
           GoodServer(server'), ServerKeeps(server, server'),
           server'.phase = "ACTIVE" =>
               client.on /\ KnownToClient(server'.epoch),
           server'.owes => KnownToClient(server'.transport),
           client' = client,
           to_server' \in Seq(ServerItem),
           Range(to_server') \subseteq Range(to_server),
           to_client' \in Seq(ClientItem), LegacyLast(to_client'),
           \A x \in Range(to_client') :
               x \in Range(to_client) \/ ServerMaySend(x)
    PROVE  Kept
<1>1. Types' /\ ServerInv(server')
  BY DEF IInv, Types, GoodServer
<1>2. ClientInv(client')
  BY DEF IInv
<1>3. ASSUME NEW e PROVE KnownToClient(e)' <=> KnownToClient(e)
  BY DEF KnownToClient
<1>4. ASSUME NEW e \in Nat, KnownToServer(e) PROVE KnownToServer(e)'
  <2>1. /\ server.wire \in Nat /\ server'.wire \in Nat
        /\ server.floor \in Nat /\ server'.floor \in Nat
    BY DEF GoodServer, IInv, Types, Server
  <2> QED
    BY <1>4, <2>1 DEF KnownToServer, ServerKeeps
<1>5. ClientKnows'
  <2>1. ASSUME NEW x \in Range(to_server)',
               x.kind \in {"CONFIRM", "DATA", "ACK"}
        PROVE  x.epoch > 0 /\ KnownToClient(x.epoch)'
    BY <1>3, <2>1 DEF IInv, ClientKnows
  <2>2. ASSUME NEW x \in Range(to_client)', x.kind \in Carrier
        PROVE  x.epoch > 0 /\ KnownToClient(x.epoch)'
    BY <1>3, <2>2 DEF IInv, ClientKnows, ServerMaySend
  <2>3. /\ server'.phase = "ACTIVE" => KnownToClient(server.epoch)'
        /\ server'.owes => KnownToClient(server.transport)'
    BY DEF KnownToClient
  <2> QED
    BY <2>1, <2>2, <2>3 DEF ClientKnows
<1>6. ServerKnows'
  <2>1. ASSUME NEW x \in Range(to_client)', x.kind = "SERVER_ACTIVE"
        PROVE  x.epoch > 0 /\ KnownToServer(x.epoch)'
    <3>1. CASE x \in Range(to_client)
      <4>1. x.epoch > 0 /\ KnownToServer(x.epoch)
        BY <2>1, <3>1 DEF IInv, ServerKnows
      <4>2. x \in ClientItem
        BY <3>1 DEF Range, IInv, Types
      <4>3. x.epoch \in Nat
        BY <4>2 DEF ClientItem
      <4> QED
        BY <1>4, <4>1, <4>3
    <3>2. CASE ServerMaySend(x)
      BY <2>1, <3>2 DEF ServerMaySend
    <3> QED
      BY <3>1, <3>2
  <2>2. ASSUME NEW x \in Range(to_server)', x.kind \in Carrier
        PROVE  KnownToServer(x.epoch)'
    <3>1. x \in Range(to_server) /\ KnownToServer(x.epoch)
      BY <2>2 DEF IInv, ServerKnows
    <3>2. x \in ServerItem
      BY <3>1 DEF Range, IInv, Types
    <3>3. x.epoch \in Nat
      BY <3>2 DEF ServerItem
    <3> QED
      BY <1>4, <3>1, <3>3
  <2>3. client'.session # 0 => KnownToServer(client.session)'
    <3>1. client.session \in Nat
      BY DEF IInv, Types, Client
    <3>2. ASSUME client.session # 0 PROVE KnownToServer(client.session)'
      <4>1. KnownToServer(client.session)
        BY <3>2 DEF IInv, ServerKnows
      <4>2. ASSUME NEW e \in Nat, e = client.session
            PROVE  KnownToServer(e)'
        BY <1>4, <4>1, <4>2
      <4>3. KnownToServer(client.session)' <=>
              server'.wire # 0
              /\ (server'.floor >= client'.session
                  \/ server'.wire = client'.session)
        BY DEF KnownToServer
      <4> QED
        BY <3>1, <4>2, <4>3 DEF KnownToServer
    <3> QED
      BY <3>2
  <2> QED
    BY <2>1, <2>2, <2>3 DEF ServerKnows
<1>7. OffInv'
  <2>1. ASSUME NEW x \in Range(to_client)', x.kind = "LEGACY"
        PROVE  ~server'.on
    BY <2>1 DEF IInv, OffInv, ServerMaySend, ServerKeeps
  <2>2. ASSUME ~client'.on
        PROVE  \A x \in Range(to_client)' : x.kind # "DATA"
    BY <2>2 DEF IInv, OffInv, ServerMaySend
  <2>3. ASSUME ~client'.on
        PROVE  \/ ~server'.on
               \/ /\ server'.phase # "ACTIVE"
                  /\ \A x \in Range(to_server)' : x.kind # "CONFIRM"
    BY <2>3 DEF IInv, OffInv, ServerKeeps
  <2> QED
    BY <2>1, <2>2, <2>3 DEF OffInv
<1>8. ClientKeeps(client, client')
  BY Known, SameClientLearns DEF ClientLearns
<1> QED
  BY <1>1, <1>2, <1>5, <1>6, <1>7, <1>8 DEF IInv, Kept

\* A step after which the server may send no more than before.
LEMMA QuietServerStep ==
    ASSUME IInv,
           GoodServer(server'), ServerLearns(server, server'),
           client' = client,
           to_server' \in Seq(ServerItem),
           Range(to_server') \subseteq Range(to_server),
           to_client' \in Seq(ClientItem), LegacyLast(to_client'),
           \A x \in Range(to_client') :
               x \in Range(to_client) \/ ServerMaySend(x)
    PROVE  Kept
<1>1. ServerKeeps(server, server')
  BY DEF ServerLearns
<1>2. ASSUME server'.phase = "ACTIVE"
      PROVE  client.on /\ KnownToClient(server'.epoch)
  <2>1. server.phase = "ACTIVE" /\ server'.epoch = server.epoch
    BY <1>2 DEF ServerLearns
  <2>2. server.on
    BY <2>1 DEF IInv, ServerInv
  <2> QED
    BY <2>1, <2>2 DEF IInv, OffInv, ClientKnows
<1>3. server'.owes => KnownToClient(server'.transport)
  BY DEF ServerLearns, IInv, ClientKnows
<1> QED
  BY <1>1, <1>2, <1>3, ServerStep

\* What the client may put on the way.
ClientMaySend(x) ==
    /\ x.kind \in {"CONFIRM"} \cup Carrier =>
           x.epoch > 0 /\ KnownToClient(x.epoch)'
    /\ x.kind \in Carrier => KnownToServer(x.epoch)
    /\ x.kind = "CONFIRM" => client'.on

LEMMA ClientStep ==
    ASSUME IInv,
           GoodClient(client'), ClientKeeps(client, client'),
           client'.session # 0 => KnownToServer(client'.session),
           client.on /\ ~client'.on =>
               \/ client.epoch = 0
               \/ ~server.on /\ \A x \in Range(to_client') : x.kind # "DATA",
           server' = server,
           to_client' \in Seq(ClientItem), LegacyLast(to_client'),
           Range(to_client') \subseteq Range(to_client),
           to_server' \in Seq(ServerItem),
           \A x \in Range(to_server') :
               x \in Range(to_server) \/ ClientMaySend(x)
    PROVE  Kept
<1>1. Types' /\ ClientInv(client') /\ ServerInv(server')
  BY DEF IInv, Types, GoodClient
<1>2. ASSUME NEW e PROVE KnownToServer(e)' <=> KnownToServer(e)
  BY DEF KnownToServer
<1>3. ASSUME NEW e \in Nat, KnownToClient(e), e > 0 PROVE KnownToClient(e)'
  <2>1. /\ client.session \in Nat /\ client'.session \in Nat
        /\ client.floor \in Nat /\ client'.floor \in Nat
    BY DEF GoodClient, IInv, Types, Client
  <2> QED
    BY <1>3, <2>1 DEF KnownToClient, ClientKeeps
<1>4. \A x \in Range(to_server) : x.epoch \in Nat
  <2>1. \A x \in Range(to_server) : x \in ServerItem
    BY DEF IInv, Types, Range
  <2> QED
    BY <2>1 DEF ServerItem
<1>5. \A x \in Range(to_client) : x.epoch \in Nat
  <2>1. \A x \in Range(to_client) : x \in ClientItem
    BY DEF IInv, Types, Range
  <2> QED
    BY <2>1 DEF ClientItem
<1>6. ClientKnows'
  <2>1. ASSUME NEW x \in Range(to_server)',
               x.kind \in {"CONFIRM", "DATA", "ACK"}
        PROVE  x.epoch > 0 /\ KnownToClient(x.epoch)'
    <3>1. CASE x \in Range(to_server)
      BY <1>3, <1>4, <2>1, <3>1 DEF IInv, ClientKnows
    <3>2. CASE ClientMaySend(x)
      BY <2>1, <3>2 DEF ClientMaySend, Carrier
    <3> QED
      BY <3>1, <3>2
  <2>2. ASSUME NEW x \in Range(to_client)', x.kind \in Carrier
        PROVE  x.epoch > 0 /\ KnownToClient(x.epoch)'
    BY <1>3, <1>5, <2>2 DEF IInv, ClientKnows
  <2>3. server'.phase = "ACTIVE" => KnownToClient(server.epoch)'
    <3>1. ASSUME server.phase = "ACTIVE"
          PROVE  /\ server.epoch \in Nat /\ server.epoch > 0
                 /\ KnownToClient(server.epoch)
      BY <3>1 DEF IInv, ServerInv, ClientKnows, Types, Server
    <3>2. ASSUME server.phase = "ACTIVE", NEW e \in Nat, e = server.epoch
          PROVE  KnownToClient(e)'
      BY <1>3, <3>1, <3>2
    <3> QED
      BY <3>1, <3>2 DEF KnownToClient
  <2>4. server'.owes => KnownToClient(server.transport)'
    <3>1. ASSUME server.owes
          PROVE  /\ server.transport \in Nat /\ server.transport > 0
                 /\ KnownToClient(server.transport)
      BY <3>1 DEF IInv, ServerInv, ClientKnows, Types, Server
    <3>2. ASSUME server.owes, NEW e \in Nat, e = server.transport
          PROVE  KnownToClient(e)'
      BY <1>3, <3>1, <3>2
    <3> QED
      BY <3>1, <3>2 DEF KnownToClient
  <2> QED
    BY <2>1, <2>2, <2>3, <2>4 DEF ClientKnows
<1>7. ServerKnows'
  <2>1. ASSUME NEW x \in Range(to_client)', x.kind = "SERVER_ACTIVE"
        PROVE  x.epoch > 0 /\ KnownToServer(x.epoch)'
    BY <1>2, <2>1 DEF IInv, ServerKnows
  <2>2. ASSUME NEW x \in Range(to_server)', x.kind \in Carrier
        PROVE  KnownToServer(x.epoch)'
    BY <1>2, <2>2 DEF IInv, ServerKnows, ClientMaySend
  <2>3. client'.session # 0 => KnownToServer(client.session)'
    BY DEF KnownToServer
  <2> QED
    BY <2>1, <2>2, <2>3 DEF ServerKnows
<1>8. OffInv'
  <2>1. ASSUME NEW x \in Range(to_client)', x.kind = "LEGACY"
        PROVE  ~server'.on
    BY <2>1 DEF IInv, OffInv
  <2>2. ASSUME ~client'.on
        PROVE  /\ \A x \in Range(to_client)' : x.kind # "DATA"
               /\ \/ ~server'.on
                  \/ /\ server'.phase # "ACTIVE"
                     /\ \A x \in Range(to_server)' : x.kind # "CONFIRM"
    <3>1. \A x \in Range(to_server') :
              x.kind = "CONFIRM" => x \in Range(to_server)
      BY <2>2 DEF ClientMaySend
    <3>2. CASE ~client.on
      BY <3>1, <3>2 DEF IInv, OffInv
    <3>3. CASE client.on /\ client.epoch = 0
      <4>1. client.floor = 0 /\ client.session = 0
        BY <3>3 DEF IInv, ClientInv, Types, Client
      <4>2. ASSUME NEW e \in Nat, e > 0 PROVE ~KnownToClient(e)
        BY <3>3, <4>1, <4>2 DEF KnownToClient
      <4>3. server.phase # "ACTIVE"
        BY <4>2 DEF IInv, ClientKnows, ServerInv, Types, Server
      <4>4. \A x \in Range(to_client) : x.kind # "DATA"
        BY <1>5, <4>2 DEF IInv, ClientKnows, Carrier
      <4>5. \A x \in Range(to_server) : x.kind # "CONFIRM"
        BY <1>4, <4>2 DEF IInv, ClientKnows
      <4> QED
        BY <3>1, <4>3, <4>4, <4>5
    <3>4. CASE ~server.on /\ \A x \in Range(to_client') : x.kind # "DATA"
      BY <3>4
    <3> QED
      BY <2>2, <3>2, <3>3, <3>4
  <2> QED
    BY <2>1, <2>2 DEF OffInv
<1>9. ServerKeeps(server, server')
  BY Known, SmallUpdatesGood DEF ServerLearns
<1> QED
  BY <1>1, <1>6, <1>7, <1>8, <1>9 DEF IInv, Kept

\* A step after which the client knows no more than before.
LEMMA QuietClientStep ==
    ASSUME IInv,
           GoodClient(client'), ClientLearns(client, client'),
           server' = server,
           to_client' \in Seq(ClientItem), LegacyLast(to_client'),
           Range(to_client') \subseteq Range(to_client),
           to_server' \in Seq(ServerItem),
           \A x \in Range(to_server') :
               x \in Range(to_server) \/ ClientMaySend(x)
    PROVE  Kept
<1>1. ClientKeeps(client, client')
  BY DEF ClientLearns
<1>2. client'.session # 0 => KnownToServer(client'.session)
  BY DEF ClientLearns, IInv, ServerKnows
<1>3. client.on /\ ~client'.on => client.epoch = 0
  BY DEF ClientLearns
<1> QED
  BY <1>1, <1>2, <1>3, ClientStep

-----------------------------------------------------------------------------
(***************************************************************************)
(* One lemma per action of the server.                                     *)
(***************************************************************************)
\* An item to append, named apart from the state that it is made of.
LEMMA ItemForServer ==
    ASSUME NEW kind \in ToServer, NEW epoch \in Nat
    PROVE  \E x \in ServerItem :
               x = Item(kind, epoch) /\ x.kind = kind /\ x.epoch = epoch
<1>1. /\ Item(kind, epoch) \in ServerItem
      /\ Item(kind, epoch).kind = kind /\ Item(kind, epoch).epoch = epoch
  BY DEF Item, ServerItem
<1> QED
  BY <1>1

LEMMA InitIInv == Init => IInv
<1> SUFFICES ASSUME Init PROVE IInv
  OBVIOUS
<1>1. /\ to_client = <<>> /\ to_server = <<Item("NEW", 0)>>
      /\ server = FreshServer /\ client = FreshClient
  BY DEF Init
<1>2. Range(to_client) = {}
  BY <1>1 DEF Range
<1>3. \A x \in Range(to_server) : x.kind = "NEW"
  BY <1>1 DEF Range, Item
<1>4. /\ server \in Server /\ server.floor = 0 /\ server.wire = 0
      /\ server.epoch = 0 /\ server.transport = 0 /\ server.on
      /\ server.phase = "NONE" /\ server.life = "WAIT_READINESS"
      /\ ~server.owes
  BY <1>1 DEF FreshServer, Server
<1>5. /\ client \in Client /\ client.on /\ client.floor = 0
      /\ client.epoch = 0 /\ client.session = 0 /\ ~client.owes
      /\ client.mode = "ARMING"
  BY <1>1 DEF FreshClient, Client
<1>6. Types
  <2>1. Item("NEW", 0) \in ServerItem
    BY DEF Item, ServerItem, ToServer
  <2> QED
    BY <1>1, <1>4, <1>5, <2>1 DEF Types
<1>7. ServerInv(server) /\ ClientInv(client)
  BY <1>4, <1>5 DEF ServerInv, ClientInv
<1>8. ClientKnows /\ ServerKnows
  BY <1>2, <1>3, <1>4, <1>5 DEF ClientKnows, ServerKnows, Carrier
<1>9. OffInv
  BY <1>1, <1>2, <1>5 DEF OffInv, LegacyLast
<1> QED
  BY <1>6, <1>7, <1>8, <1>9 DEF IInv

LEMMA ChangeMapKeeps == IInv /\ ChangeMap => Kept
<1> SUFFICES ASSUME IInv, ChangeMap PROVE Kept
  OBVIOUS
<1> DEFINE x == Item("CHANGING", 0)
<1>1. GoodServer(server') /\ ServerLearns(server, server')
  BY Known, QuiesceMapGood DEF ChangeMap
<1>2. x \in ClientItem /\ x.kind = "CHANGING"
  BY DEF Item, ClientItem, ToClient
<1>3. /\ to_client' = Append(to_client, x)
      /\ to_server' = to_server /\ client' = client
  BY DEF ChangeMap
<1> HIDE DEF x
<1>4. /\ to_client' \in Seq(ClientItem) /\ LegacyLast(to_client')
      /\ Range(to_client') = Range(to_client) \cup {x}
  BY <1>2, <1>3, Known, AppendAdds
<1>5. ServerMaySend(x)
  BY <1>2 DEF ServerMaySend, Carrier
<1> QED
  BY <1>1, <1>3, <1>4, <1>5, Known, QuietServerStep

LEMMA LoseCarrierKeeps == IInv /\ LoseCarrier => Kept
<1> SUFFICES ASSUME IInv, LoseCarrier PROVE Kept
  OBVIOUS
<1>1. /\ GoodServer(server') /\ ServerLearns(server, server')
      /\ client' = client /\ server' = server
  BY Known, SmallUpdatesGood DEF LoseCarrier
<1>2. CASE /\ to_client' = to_client
           /\ \E i \in DOMAIN to_server : to_server' = RemoveAt(to_server, i)
  <2>1. /\ to_server' \in Seq(ServerItem)
        /\ Range(to_server') \subseteq Range(to_server)
    BY <1>2, Known, RemovalThins
  <2> QED
    BY <1>1, <1>2, <2>1, Known, QuietServerStep
<1>3. CASE /\ to_server' = to_server
           /\ \E i \in DOMAIN to_client : to_client' = RemoveAt(to_client, i)
  <2>1. /\ to_client' \in Seq(ClientItem) /\ LegacyLast(to_client')
        /\ Range(to_client') \subseteq Range(to_client)
    BY <1>3, Known, RemovalThins
  <2> QED
    BY <1>1, <1>3, <2>1, Known, QuietServerStep
<1> QED
  BY <1>2, <1>3 DEF LoseCarrier

\* A record that is ignored, or that makes the peer stop.
LEMMA IgnoreKeeps ==
    ASSUME IInv, NEW t, GoodServer(t), ServerLearns(server, t), Ignore(t),
           client' = client, to_server' \in Seq(ServerItem),
           Range(to_server') \subseteq Range(to_server)
    PROVE  Kept
<1>1. server' = t /\ to_client' = to_client
  BY DEF Ignore
<1> QED
  BY <1>1, Known, QuietServerStep

\* Another record for the client, and the server may send no more than
\* before.
LEMMA AnswerKeeps ==
    ASSUME IInv, GoodServer(server'), ServerLearns(server, server'),
           client' = client, to_server' \in Seq(ServerItem),
           Range(to_server') \subseteq Range(to_server),
           NEW x \in ClientItem, x.kind # "DATA", ServerMaySend(x),
           to_client' = Append(to_client, x)
    PROVE  Kept
<1>1. /\ to_client' \in Seq(ClientItem) /\ LegacyLast(to_client')
      /\ Range(to_client') = Range(to_client) \cup {x}
  BY Known, AppendAdds
<1> QED
  BY <1>1, QuietServerStep

LEMMA NewKeeps ==
    ASSUME IInv, NEW s, GoodServer(s), ServerLearns(server, s), New(s),
           client' = client, to_server' \in Seq(ServerItem),
           Range(to_server') \subseteq Range(to_server)
    PROVE  Kept
<1> DEFINE x == Item(IF s.on THEN "SERVERDATA" ELSE "LEGACY", 0)
<1>1. to_client' = Append(to_client, x)
  BY DEF New
<1>2. /\ x \in ClientItem
      /\ x.kind = IF s.on THEN "SERVERDATA" ELSE "LEGACY"
  BY DEF Item, ClientItem, ToClient
<1> HIDE DEF x
<1>3. /\ GoodServer(server') /\ ServerLearns(server, server')
      /\ ~s.on => ~server'.on
  <2>1. CASE s.on
    BY <2>1 DEF New
  <2>2. CASE ~s.on
    <3>1. server' = Disable(s)
      BY <2>2 DEF New
    <3> QED
      BY <3>1, <2>2, DisableGood, Known, ServerLearnsTransitive DEF GoodServer
  <2> QED
    BY <2>1, <2>2
<1>4. ServerMaySend(x) /\ x.kind # "DATA"
  BY <1>2, <1>3 DEF ServerMaySend, Carrier
<1> QED
  BY <1>1, <1>2, <1>3, <1>4, AnswerKeeps

LEMMA RxReadyKeeps ==
    ASSUME IInv, NEW s, GoodServer(s), ServerLearns(server, s),
           NEW epoch \in Nat, RxReady(s, epoch),
           client' = client, to_server' \in Seq(ServerItem),
           Range(to_server') \subseteq Range(to_server)
    PROVE  Kept
<1> DEFINE x == Item("SERVER_ACTIVE", epoch)
<1>1. ASSUME NEW t, GoodServer(t), ServerLearns(s, t)
      PROVE  ServerLearns(server, t)
  BY <1>1, Known, ServerLearnsTransitive DEF GoodServer
<1>2. x \in ClientItem /\ x.kind = "SERVER_ACTIVE" /\ x.epoch = epoch
  BY DEF Item, ClientItem, ToClient
<1>3. ASSUME NEW t, GoodServer(t), ServerLearns(s, t), server' = t,
             t.wire = s.epoch, epoch = s.epoch, epoch > s.floor,
             to_client' = Append(to_client, x)
      PROVE  Kept
  <2>1. epoch > 0
    BY <1>3 DEF GoodServer, Server
  <2>2. ServerMaySend(x)
    <3>1. KnownToServer(epoch)'
      BY <1>3, <2>1 DEF KnownToServer
    <3>2. KnownToServer(x.epoch)' <=> KnownToServer(epoch)'
      BY <1>2 DEF KnownToServer
    <3> QED
      BY <1>2, <2>1, <3>1, <3>2 DEF ServerMaySend, Carrier
  <2> HIDE DEF x
  <2> QED
    BY <1>1, <1>2, <1>3, <2>2, AnswerKeeps
<1> HIDE DEF x
<1>4. CASE (~s.on \/ epoch <= s.floor) /\ Ignore(s)
  BY <1>4, IgnoreKeeps
<1>5. CASE Ignore(Disable(s))
  BY <1>1, <1>5, IgnoreKeeps, DisableGood
<1>6. CASE /\ s.on /\ epoch > s.floor
           /\ s.phase = "WAIT_READY" /\ epoch = s.epoch
           /\ server' = Opened(Ready(s)) /\ to_client' = Append(to_client, x)
  BY <1>3, <1>6, OpenedGood
<1>7. CASE /\ s.on /\ epoch > s.floor
           /\ s.phase = "WAIT_READY" /\ epoch = s.epoch
           /\ server' = NotOpened(Ready(s))
           /\ to_client' = Append(to_client, x)
  BY <1>3, <1>7, NotOpenedGood
<1>8. CASE /\ s.on /\ s.phase = "WAIT_READY"
           /\ server' = Disable(Ready(s)) /\ to_client' = to_client
  BY <1>1, <1>8, ReadyFailedGood, Known, QuietServerStep
<1> QED
  BY <1>4, <1>5, <1>6, <1>7, <1>8 DEF RxReady, x

LEMMA RxConfirmKeeps ==
    ASSUME IInv, NEW s, GoodServer(s), ServerLearns(server, s),
           NEW item \in Range(to_server), item.kind = "CONFIRM",
           RxConfirm(s, item.epoch),
           client' = client, to_server' \in Seq(ServerItem),
           Range(to_server') \subseteq Range(to_server)
    PROVE  Kept
<1>1. CASE Ignore(s)
  BY <1>1, IgnoreKeeps
<1>2. CASE Ignore(Disable(s))
  BY <1>2, IgnoreKeeps, DisableGood, Known, ServerLearnsTransitive DEF GoodServer
<1>3. CASE /\ s.on /\ s.transport # 0 /\ s.phase = "WAIT_CONFIRM"
           /\ item.epoch = s.epoch
           /\ Ignore([s EXCEPT !.phase = "ACTIVE", !.late = FALSE])
  <2> DEFINE t == [s EXCEPT !.phase = "ACTIVE", !.late = FALSE]
  <2>1. /\ GoodServer(t) /\ ServerKeeps(s, t) /\ t.epoch = s.epoch
        /\ t.owes = s.owes /\ t.transport = s.transport
    BY <1>3, ConfirmedGood
  <2>2. server' = t /\ to_client' = to_client
    BY <1>3 DEF Ignore
  <2> HIDE DEF t
  <2>3. ServerKeeps(server, t)
    BY <2>1, Known DEF ServerLearns, ServerKeeps, GoodServer, Server
  <2>4. server.on
    BY <1>3 DEF ServerLearns, ServerKeeps
  <2>5. client.on /\ KnownToClient(t.epoch)
    BY <1>3, <2>1, <2>4 DEF IInv, OffInv, ClientKnows
  <2>6. t.owes => KnownToClient(t.transport)
    BY <2>1 DEF ServerLearns, IInv, ClientKnows
  <2> QED
    BY <2>1, <2>2, <2>3, <2>5, <2>6, Known, ServerStep
<1> QED
  BY <1>1, <1>2, <1>3 DEF RxConfirm

LEMMA ServerRxRecordKeeps == IInv /\ ServerRxRecord => Kept
<1> SUFFICES ASSUME IInv, ServerRxRecord PROVE Kept
  OBVIOUS
<1> DEFINE s == ServerPacketBegin(server)
<1>1. PICK i \in DOMAIN to_server :
          /\ to_server' = WithoutArrived(to_server, i)
          /\ \/ RxNew(s)
             \/ RxBegin(s)
             \/ RxReady(s, to_server[i].epoch)
             \/ /\ to_server[i].kind = "CONFIRM"
                /\ RxConfirm(s, to_server[i].epoch)
  BY DEF ServerRxRecord
<1>2. client' = client
  BY DEF ServerRxRecord
<1>3. GoodServer(s) /\ ServerLearns(server, s)
  BY Known, PacketBeginGood
<1> HIDE DEF s
<1>4. /\ to_server' \in Seq(ServerItem)
      /\ Range(to_server') \subseteq Range(to_server)
      /\ to_server[i] \in Range(to_server) /\ to_server[i] \in ServerItem
  BY <1>1, Known, ArrivalThins
<1>5. to_server[i].epoch \in Nat
  BY <1>4 DEF ServerItem
<1>6. CASE RxNew(s)
  BY <1>2, <1>3, <1>4, <1>6, NewKeeps, IgnoreKeeps DEF RxNew
<1>7. CASE RxBegin(s)
  <2>1. CASE New(s)
    BY <1>2, <1>3, <1>4, <2>1, NewKeeps
  <2>2. CASE server' = s /\ to_client' = to_client
    BY <1>2, <1>3, <1>4, <2>2, Known, QuietServerStep
  <2> QED
    BY <1>7, <2>1, <2>2 DEF RxBegin, Ignore
<1>8. CASE RxReady(s, to_server[i].epoch)
  BY <1>2, <1>3, <1>4, <1>5, <1>8, RxReadyKeeps
<1>9. CASE /\ to_server[i].kind = "CONFIRM"
           /\ RxConfirm(s, to_server[i].epoch)
  BY <1>2, <1>3, <1>4, <1>9, RxConfirmKeeps
<1> QED
  BY <1>1, <1>6, <1>7, <1>8, <1>9

LEMMA ServerRxCarrierKeeps == IInv /\ ServerRxCarrier => Kept
<1> SUFFICES ASSUME IInv, ServerRxCarrier PROVE Kept
  OBVIOUS
<1>1. PICK i \in DOMAIN to_server :
          /\ ~IsRecord(to_server[i])
          /\ to_server' = WithoutArrived(to_server, i)
          /\ \/ /\ ServerRejects(server, to_server[i].epoch)
                /\ server' = Drained(server)
             \/ server' = ServerPacketBegin(ServerTakes(server, to_server[i]))
  BY DEF ServerRxCarrier
<1> DEFINE item == to_server[i]
           t == ServerTakes(server, item)
<1>2. /\ to_server' \in Seq(ServerItem)
      /\ Range(to_server') \subseteq Range(to_server)
      /\ item \in Range(to_server)
  BY <1>1, Known, ArrivalThins
<1>3. client' = client /\ to_client' = to_client
  BY DEF ServerRxCarrier
<1>4. item.kind \in Carrier
  BY <1>1 DEF IsRecord
<1>5. KnownToClient(item.epoch) /\ KnownToServer(item.epoch)
  BY <1>2, <1>4 DEF IInv, ClientKnows, ServerKnows, Carrier
<1>6. server.wire # 0
  BY <1>5 DEF KnownToServer
<1>7. GoodServer(Drained(server)) /\ ServerLearns(server, Drained(server))
  BY <1>6, Known, DrainedGood
<1>8. ASSUME server' = ServerPacketBegin(t), GoodServer(t),
             ServerLearns(server, t)
      PROVE  Kept
  <2>1. GoodServer(server') /\ ServerLearns(t, server')
    BY <1>8, PacketBeginGood
  <2>2. ServerLearns(server, server')
    BY <1>8, <2>1, Known, ServerLearnsTransitive DEF GoodServer
  <2> QED
    BY <1>2, <1>3, <2>1, <2>2, Known, QuietServerStep
<1>9. ASSUME server' = ServerPacketBegin(t), t = [server EXCEPT !.owes = TRUE],
             server.transport = item.epoch, server.life = "ACTIVE"
      PROVE  Kept
  <2>1. server.transport # 0
    BY <1>9 DEF IInv, ServerInv
  <2>2. /\ GoodServer(t) /\ ServerKeeps(server, t)
        /\ t.epoch = server.epoch /\ t.phase = server.phase
        /\ t.transport = server.transport /\ t.on = server.on
    BY <1>9, <2>1, Known, OwingGood
  <2>3. GoodServer(server') /\ ServerLearns(t, server')
    BY <1>9, <2>2, PacketBeginGood
  <2> HIDE DEF t, item
  <2>4. ServerKeeps(server, server')
    BY <2>2, <2>3, Known DEF ServerLearns, ServerKeeps, GoodServer, Server
  <2>5. server'.owes => KnownToClient(server'.transport)
    BY <1>5, <1>9, <2>2, <2>3 DEF ServerLearns
  <2>6. ASSUME server'.phase = "ACTIVE"
        PROVE  client.on /\ KnownToClient(server'.epoch)
    <3>1. server.phase = "ACTIVE" /\ server'.epoch = server.epoch
      BY <2>2, <2>3, <2>6 DEF ServerLearns
    <3>2. server.on
      BY <3>1 DEF IInv, ServerInv
    <3> QED
      BY <3>1, <3>2 DEF IInv, OffInv, ClientKnows
  <2> QED
    BY <1>2, <1>3, <2>3, <2>4, <2>5, <2>6, Known, ServerStep
<1>10. CASE server' = Drained(server)
  BY <1>2, <1>3, <1>7, <1>10, Known, QuietServerStep
<1>11. CASE server' = ServerPacketBegin(t)
  <2>1. CASE t = server
    BY <1>8, <1>11, <2>1, Known, SmallUpdatesGood
  <2>2. CASE t = Drained(server)
    BY <1>7, <1>8, <1>11, <2>2
  <2>3. CASE /\ t = [server EXCEPT !.owes = TRUE]
             /\ server.transport = item.epoch /\ server.life = "ACTIVE"
    BY <1>9, <1>11, <2>3
  <2> QED
    BY <2>1, <2>2, <2>3 DEF ServerTakes
<1> QED
  BY <1>1, <1>10, <1>11

\* The steps that touch nothing but the server's peer and its slot.
LEMMA LocalServerKeeps ==
    IInv /\ (ServerRxPlain \/ ServerTxExpired \/ ServerFails
             \/ ServerDeadlinePasses \/ QueueExpires) => Kept
<1> SUFFICES ASSUME IInv,
                    ServerRxPlain \/ ServerTxExpired \/ ServerFails
                    \/ ServerDeadlinePasses \/ QueueExpires
             PROVE  Kept
  OBVIOUS
<1>1. /\ client' = client /\ to_server' = to_server
      /\ to_client' = to_client
  BY DEF ServerRxPlain, ServerTxExpired, ServerFails, ServerDeadlinePasses,
         QueueExpires
<1>2. GoodServer(server') /\ ServerLearns(server, server')
  <2>1. CASE ServerRxPlain
    BY <2>1, Known, PacketBeginGood DEF ServerRxPlain
  <2>2. CASE ServerTxExpired
    <3>1. server.wire # 0
      BY <2>2 DEF ServerTxExpired, IInv, ServerInv
    <3> QED
      BY <2>2, <3>1, Known, DrainedGood DEF ServerTxExpired
  <2>3. CASE ServerFails \/ QueueExpires
    BY <2>3, Known, DisableGood DEF ServerFails, QueueExpires
  <2>4. CASE ServerDeadlinePasses
    BY <2>4, Known, SmallUpdatesGood DEF ServerDeadlinePasses
  <2> QED
    BY <2>1, <2>2, <2>3, <2>4
<1> QED
  BY <1>1, <1>2, Known, QuietServerStep

LEMMA ServiceKeeps == IInv /\ Service => Kept
<1> SUFFICES ASSUME IInv, Service PROVE Kept
  OBVIOUS
<1>1. client' = client /\ to_server' = to_server
  BY DEF Service
<1>2. CASE server.on
  <2> DEFINE x == Item("CHALLENGE", server.epoch + 1)
  <2>1. server' = BeginEpoch(server) /\ to_client' = Append(to_client, x)
    BY <1>2 DEF Service
  <2>2. x \in ClientItem /\ x.kind = "CHALLENGE"
    BY Known DEF Item, ClientItem, ToClient
  <2> HIDE DEF x
  <2>3. ServerMaySend(x)
    BY <2>2 DEF ServerMaySend, Carrier
  <2> QED
    BY <1>1, <1>2, <2>1, <2>2, <2>3, Known, BeginEpochGood, AnswerKeeps
<1>3. CASE ~server.on
  <2>1. server' = Disable(server) /\ to_client' = to_client
    BY <1>3 DEF Service
  <2> QED
    BY <1>1, <2>1, Known, DisableGood, QuietServerStep
<1> QED
  BY <1>2, <1>3

LEMMA ServerSendsCarrierKeeps == IInv /\ ServerSendsCarrier => Kept
<1> SUFFICES ASSUME IInv, ServerSendsCarrier PROVE Kept
  OBVIOUS
<1>1. PICK kind \in Carrier :
          /\ kind = "DATA" => ServerMaySendData(server)
          /\ kind = "ACK" => ServerMaySendAck(server)
          /\ to_client' = Append(to_client, Item(kind, server.transport))
          /\ server' \in {server, [server EXCEPT !.owes = FALSE]}
  BY DEF ServerSendsCarrier
<1>2. client' = client /\ to_server' = to_server
  BY DEF ServerSendsCarrier
<1> DEFINE x == Item(kind, server.transport)
<1>3. x \in ClientItem /\ x.kind = kind /\ x.epoch = server.transport
  BY Known DEF Item, ClientItem, ToClient
<1>4. GoodServer(server') /\ ServerLearns(server, server')
  BY <1>1, Known, SmallUpdatesGood
<1>5. CASE kind = "DATA"
  <2>1. server.life = "ACTIVE" /\ server.phase = "ACTIVE"
    BY <1>1, <1>5 DEF ServerMaySendData
  <2>2. /\ server.on /\ server.transport # 0
        /\ server.transport = server.epoch
    BY <2>1 DEF IInv, ServerInv
  <2>3. client.on /\ KnownToClient(server.transport)
    BY <2>1, <2>2 DEF IInv, OffInv, ClientKnows
  <2>4. \A y \in Range(to_client) : y.kind # "LEGACY"
    BY <2>2 DEF IInv, OffInv
  <2>5. server.transport > 0
    BY <2>2, Known
  <2>6. ServerMaySend(x)
    BY <1>3, <1>5, <2>3, <2>5 DEF ServerMaySend
  <2> HIDE DEF x
  <2>7. /\ to_client' \in Seq(ClientItem) /\ LegacyLast(to_client')
        /\ Range(to_client') = Range(to_client) \cup {x}
    BY <1>1, <1>3, <2>4, Known, AppendAdds DEF x
  <2> QED
    BY <1>2, <1>4, <2>6, <2>7, Known, QuietServerStep
<1>6. CASE kind = "ACK"
  <2>1. server.owes /\ server.transport # 0
    BY <1>1, <1>6 DEF ServerMaySendAck
  <2>2. KnownToClient(server.transport) /\ server.transport > 0
    BY <2>1, Known DEF IInv, ClientKnows
  <2>3. ServerMaySend(x)
    BY <1>3, <1>6, <2>2 DEF ServerMaySend
  <2> QED
    BY <1>1, <1>2, <1>3, <1>4, <1>6, <2>3, Known, AnswerKeeps
<1> QED
  BY <1>5, <1>6 DEF Carrier

-----------------------------------------------------------------------------
(***************************************************************************)
(* One lemma per action of the client.                                     *)
(***************************************************************************)
\* The steps that touch nothing but the pilot.
LEMMA LocalClientKeeps ==
    IInv /\ (ClientRxPlain \/ ClientFails \/ ClientDeadlinePasses) => Kept
<1> SUFFICES ASSUME IInv, ClientRxPlain \/ ClientFails \/ ClientDeadlinePasses
             PROVE  Kept
  OBVIOUS
<1>1. /\ server' = server /\ to_server' = to_server
      /\ to_client' = to_client
  BY DEF ClientRxPlain, ClientFails, ClientDeadlinePasses
<1>2. GoodClient(client') /\ ClientLearns(client, client')
  <2>1. CASE ClientRxPlain
    BY <2>1, Known, ClientPacketBeginGood DEF ClientRxPlain
  <2>2. CASE ClientFails
    BY <2>2, Known, FailedGood DEF ClientFails
  <2>3. CASE ClientDeadlinePasses
    <3> DEFINE d == [client EXCEPT !.late = TRUE]
    <3>1. client' = d /\ client.phase # "NONE"
      BY <2>3 DEF ClientDeadlinePasses, Waiting
    <3>2. client.on
      <4>1. Off.phase = "NONE"
        BY DEF Off, FreshClient
      <4> QED
        BY <3>1, <4>1 DEF IInv, ClientInv
    <3>3. /\ d \in Client /\ d.on = client.on /\ d.mode = client.mode
          /\ d.epoch = client.epoch /\ d.floor = client.floor
          /\ d.session = client.session /\ d.committed = client.committed
          /\ d.owes = client.owes
      BY Known DEF GoodClient, Client
    <3>4. client.owes => client.session # 0
      BY DEF IInv, ClientInv
    <3> HIDE DEF d
    <3> QED
      BY <3>1, <3>2, <3>3, <3>4, Known, SmallClientUpdates
  <2> QED
    BY <2>1, <2>2, <2>3
<1> QED
  BY <1>1, <1>2, Known, QuietClientStep

LEMMA ClientBeginsKeeps == IInv /\ ClientBegins => Kept
<1> SUFFICES ASSUME IInv, ClientBegins PROVE Kept
  OBVIOUS
<1> DEFINE x == Item("BEGIN", 0)
<1>1. x \in ServerItem /\ x.kind = "BEGIN"
  BY DEF Item, ServerItem, ToServer
<1>2. /\ to_server' = Append(to_server, x)
      /\ server' = server /\ client' = client /\ to_client' = to_client
  BY DEF ClientBegins
<1> HIDE DEF x
<1>3. ClientMaySend(x)
  BY <1>1 DEF ClientMaySend, Carrier
<1>4. /\ to_server' \in Seq(ServerItem)
      /\ Range(to_server') = Range(to_server) \cup {x}
  BY <1>1, <1>2, Known, AppendAdds
<1> QED
  BY <1>2, <1>3, <1>4, Known, SameClientLearns, QuietClientStep

LEMMA ClientSendsCarrierKeeps == IInv /\ ClientSendsCarrier => Kept
<1> SUFFICES ASSUME IInv, ClientSendsCarrier PROVE Kept
  OBVIOUS
<1>1. PICK kind \in Carrier :
          /\ kind = "DATA" => ClientMaySendData(client)
          /\ kind = "ACK" => ClientMaySendAck(client)
          /\ to_server' = Append(to_server, Item(kind, client.session))
          /\ client' \in {client, [client EXCEPT !.owes = FALSE]}
  BY DEF ClientSendsCarrier
<1>2. client.on /\ server' = server /\ to_client' = to_client
  BY DEF ClientSendsCarrier
<1> DEFINE d == [client EXCEPT !.owes = FALSE]
<1>3. PICK x \in ServerItem :
          /\ x = Item(kind, client.session)
          /\ x.kind = kind /\ x.epoch = client.session
  BY Known, ItemForServer DEF ToServer
<1>4. /\ GoodClient(client') /\ ClientLearns(client, client')
      /\ client'.session = client.session
  <2>1. /\ d \in Client /\ d.on = client.on /\ d.mode = client.mode
        /\ d.epoch = client.epoch /\ d.floor = client.floor
        /\ d.session = client.session /\ d.committed = client.committed
        /\ d.owes = FALSE
    BY Known DEF GoodClient, Client
  <2> HIDE DEF d
  <2>2. GoodClient(d) /\ ClientLearns(client, d)
    BY <1>2, <2>1, Known, SmallClientUpdates
  <2> QED
    BY <1>1, <2>1, <2>2, Known, SameClientLearns DEF d
<1>5. client.session # 0
  BY <1>1 DEF Carrier, ClientMaySendData, ClientMaySendAck, IInv, ClientInv
<1>6. ClientMaySend(x)
  <2>1. KnownToServer(client.session) /\ client.session > 0
    BY <1>5, Known DEF IInv, ServerKnows
  <2>2. KnownToClient(x.epoch)'
    BY <1>3, <1>4 DEF KnownToClient
  <2>3. x.kind # "CONFIRM"
    BY <1>3 DEF Carrier
  <2> QED
    BY <1>3, <2>1, <2>2, <2>3 DEF ClientMaySend
<1>7. /\ to_server' \in Seq(ServerItem)
      /\ Range(to_server') = Range(to_server) \cup {x}
  BY <1>1, <1>3, Known, AppendAdds
<1> QED
  BY <1>2, <1>4, <1>6, <1>7, Known, QuietClientStep

LEMMA ClientRxCarrierKeeps == IInv /\ ClientRxCarrier => Kept
<1> SUFFICES ASSUME IInv, ClientRxCarrier PROVE Kept
  OBVIOUS
<1> DEFINE owing(item) == [client EXCEPT !.owes = @ \/ item.kind = "DATA"]
<1>1. PICK i \in DOMAIN to_client :
          /\ to_client' = WithoutArrived(to_client, i)
          /\ \/ client.on /\ client' = Draining(client)
             \/ /\ client.on /\ to_client[i].epoch > client.floor
                /\ ClientAccepts(client, to_client[i])
                /\ client' = ClientPacketBegin(owing(to_client[i]))
             \/ client' = ClientPacketBegin(client)
  BY DEF ClientRxCarrier
<1>2. server' = server /\ to_server' = to_server
  BY DEF ClientRxCarrier
<1>3. /\ to_client' \in Seq(ClientItem) /\ LegacyLast(to_client')
      /\ Range(to_client') \subseteq Range(to_client)
      /\ to_client[i] \in ClientItem
  BY <1>1, Known, ArrivalThins
<1>4. ASSUME GoodClient(client'), ClientLearns(client, client') PROVE Kept
  BY <1>2, <1>3, <1>4, Known, QuietClientStep
<1>5. CASE client.on /\ client' = Draining(client)
  BY <1>4, <1>5, Known, DrainingGood
<1>6. CASE client' = ClientPacketBegin(client)
  BY <1>4, <1>6, Known, ClientPacketBeginGood
<1>7. CASE /\ client.on /\ to_client[i].epoch > client.floor
           /\ ClientAccepts(client, to_client[i])
           /\ client' = ClientPacketBegin(owing(to_client[i]))
  <2> DEFINE d == owing(to_client[i])
  <2>1. /\ d \in Client /\ d.on = client.on /\ d.mode = client.mode
        /\ d.epoch = client.epoch /\ d.floor = client.floor
        /\ d.session = client.session /\ d.committed = client.committed
    BY Known DEF GoodClient, Client
  <2>2. client.session # 0
    <3>1. to_client[i].epoch \in Nat
      BY <1>3 DEF ClientItem
    <3>2. client.floor \in Nat
      BY Known DEF GoodClient, Client
    <3> QED
      BY <1>7, <3>1, <3>2 DEF ClientAccepts
  <2> HIDE DEF d
  <2>3. GoodClient(d) /\ ClientLearns(client, d)
    BY <1>7, <2>1, <2>2, Known, SmallClientUpdates
  <2>4. GoodClient(client') /\ ClientLearns(d, client')
    BY <1>7, <2>3, ClientPacketBeginGood DEF d
  <2>5. ClientLearns(client, client')
    BY <2>3, <2>4, Known, ClientLearnsTransitive DEF GoodClient
  <2> QED
    BY <1>4, <2>4, <2>5
<1> QED
  BY <1>1, <1>5, <1>6, <1>7

LEMMA RxChallengeKeeps ==
    ASSUME IInv, NEW c, GoodClient(c), ClientLearns(client, c),
           NEW epoch \in Nat, RxChallenge(c, epoch),
           server' = server, to_client' \in Seq(ClientItem),
           LegacyLast(to_client'), Range(to_client') \subseteq Range(to_client)
    PROVE  Kept
<1>1. CASE client' = c /\ to_server' = to_server
  BY <1>1, Known, QuietClientStep
<1>2. CASE client' = Failed(c) /\ to_server' = to_server
  BY <1>2, Known, FailedGood, ClientLearnsTransitive, QuietClientStep
     DEF GoodClient
<1>3. CASE /\ c.on /\ MayArm(c, epoch)
           /\ client' = Armed(c, epoch)
           /\ to_server' = Append(to_server, Item("READY", epoch))
  <2>1. /\ GoodClient(client') /\ ClientKeeps(c, client')
        /\ client'.session = 0 /\ client'.on
    BY <1>3, ArmedGood
  <2>2. ClientKeeps(client, client')
    BY <2>1, Known, ClientKeepsTransitive DEF GoodClient
  <2>3. PICK x \in ServerItem : x = Item("READY", epoch) /\ x.kind = "READY"
    BY ItemForServer DEF ToServer
  <2>4. ClientMaySend(x)
    BY <2>3 DEF ClientMaySend, Carrier
  <2>5. /\ to_server' \in Seq(ServerItem)
        /\ Range(to_server') = Range(to_server) \cup {x}
    BY <1>3, <2>3, Known, AppendAdds
  <2> QED
    BY <2>1, <2>2, <2>4, <2>5, ClientStep
<1> QED
  BY <1>1, <1>2, <1>3 DEF RxChallenge

LEMMA RxServerActiveKeeps ==
    ASSUME IInv, NEW c, GoodClient(c), ClientLearns(client, c),
           NEW item \in Range(to_client), item.kind = "SERVER_ACTIVE",
           item.epoch \in Nat, RxServerActive(c, item.epoch),
           server' = server, to_client' \in Seq(ClientItem),
           LegacyLast(to_client'), Range(to_client') \subseteq Range(to_client)
    PROVE  Kept
<1>1. CASE client' = c /\ to_server' = to_server
  BY <1>1, Known, QuietClientStep
<1>2. CASE client' = Failed(c) /\ to_server' = to_server
  BY <1>2, Known, FailedGood, ClientLearnsTransitive, QuietClientStep
     DEF GoodClient
<1>3. CASE c.on /\ item.epoch > c.floor /\ MayActivate(c, item.epoch)
  <2> DEFINE a == Activated(c, item.epoch)
             d == [a EXCEPT !.phase = "ACTIVE"]
  <2>1. /\ GoodClient(a) /\ ClientKeeps(c, a) /\ a.session = item.epoch
        /\ a.on /\ a.epoch = item.epoch /\ item.epoch > 0
    BY <1>3, ActivatedGood
  <2>2. KnownToServer(item.epoch)
    BY DEF IInv, ServerKnows
  <2>3. ClientKeeps(client, a)
    BY <2>1, Known, ClientKeepsTransitive DEF GoodClient
  <2> HIDE DEF a
  <2>4. CASE /\ client' = d
             /\ to_server' = Append(to_server, Item("CONFIRM", item.epoch))
    <3>1. /\ d \in Client /\ d.on = a.on /\ d.mode = a.mode
          /\ d.epoch = a.epoch /\ d.floor = a.floor
          /\ d.session = a.session /\ d.committed = a.committed
          /\ d.owes = a.owes
      BY <2>1 DEF GoodClient, Client
    <3> HIDE DEF d
    <3>2. GoodClient(d)
      BY <2>1, <3>1 DEF GoodClient, ClientInv, Client
    <3>3. ClientKeeps(client, d)
      BY <2>3, <3>1 DEF ClientKeeps
    <3>4. PICK x \in ServerItem :
              /\ x = Item("CONFIRM", item.epoch)
              /\ x.kind = "CONFIRM" /\ x.epoch = item.epoch
      BY ItemForServer DEF ToServer
    <3>5. KnownToClient(x.epoch)'
      BY <2>1, <2>4, <3>1, <3>4 DEF KnownToClient
    <3>6. ClientMaySend(x)
      BY <2>1, <2>4, <3>1, <3>4, <3>5 DEF ClientMaySend, Carrier
    <3>7. /\ to_server' \in Seq(ServerItem)
          /\ Range(to_server') = Range(to_server) \cup {x}
      BY <2>4, <3>4, Known, AppendAdds
    <3>8. client'.session # 0 => KnownToServer(client'.session)
      BY <2>1, <2>2, <2>4, <3>1
    <3>9. client'.on
      BY <2>1, <2>4, <3>1
    <3> QED
      BY <2>4, <3>2, <3>3, <3>6, <3>7, <3>8, <3>9, ClientStep
  <2>5. CASE client' = Failed(a) /\ to_server' = to_server
    <3>1. a.committed
      BY <2>1 DEF GoodClient, ClientInv
    <3>2. client' = Draining(a)
      BY <2>1, <2>5, <3>1 DEF Failed
    <3>3. /\ GoodClient(client') /\ ClientLearns(a, client')
          /\ client'.on
      BY <2>1, <3>2, DrainingGood
    <3>4. /\ client'.on /\ client'.session = a.session
          /\ client'.mode = "DRAIN" /\ client'.floor = a.floor
      BY <2>1, <3>2 DEF Draining, GoodClient, Client
    <3>5. ClientKeeps(client, client')
      BY <2>3, <3>4, <2>1 DEF ClientKeeps
    <3> QED
      BY <2>1, <2>2, <2>5, <3>3, <3>4, <3>5, Known, ClientStep
  <2> QED
    BY <1>1, <1>2, <1>3, <2>4, <2>5 DEF RxServerActive, a, d
<1> QED
  BY <1>1, <1>2, <1>3 DEF RxServerActive

LEMMA ClientRxRecordKeeps == IInv /\ ClientRxRecord => Kept
<1> SUFFICES ASSUME IInv, ClientRxRecord PROVE Kept
  OBVIOUS
<1> DEFINE c == ClientPacketBegin(client)
<1>1. PICK i \in DOMAIN to_client :
          /\ IsRecord(to_client[i])
          /\ to_client' = WithoutArrived(to_client, i)
          /\ \/ RxChanging(c)
             \/ RxServerData(c, TRUE)
             \/ to_client[i].kind = "LEGACY" /\ RxServerData(c, FALSE)
             \/ RxChallenge(c, to_client[i].epoch)
             \/ /\ to_client[i].kind = "SERVER_ACTIVE"
                /\ RxServerActive(c, to_client[i].epoch)
  BY DEF ClientRxRecord
<1>2. server' = server
  BY DEF ClientRxRecord
<1>3. GoodClient(c) /\ ClientLearns(client, c)
  BY Known, ClientPacketBeginGood
<1> HIDE DEF c
<1>4. /\ to_client' \in Seq(ClientItem) /\ LegacyLast(to_client')
      /\ Range(to_client') \subseteq Range(to_client)
      /\ to_client[i] \in Range(to_client) /\ to_client[i] \in ClientItem
  BY <1>1, Known, ArrivalThins
<1>5. to_client[i].epoch \in Nat
  BY <1>4 DEF ClientItem
<1>6. ASSUME NEW d, GoodClient(d), ClientLearns(c, d) PROVE ClientLearns(client, d)
  BY <1>3, <1>6, Known, ClientLearnsTransitive DEF GoodClient
<1>7. CASE RxChanging(c)
  <2>1. GoodClient(client') /\ ClientLearns(client, client')
    BY <1>3, <1>6, <1>7, MapBoundaryGood DEF RxChanging
  <2>2. PICK x \in ServerItem : x = Item("NEW", 0) /\ x.kind = "NEW"
    BY ItemForServer DEF ToServer
  <2>3. ClientMaySend(x)
    BY <2>2 DEF ClientMaySend, Carrier
  <2>4. to_server' = Append(to_server, x)
    BY <1>7, <2>2 DEF RxChanging
  <2>5. /\ to_server' \in Seq(ServerItem)
        /\ Range(to_server') = Range(to_server) \cup {x}
    BY <2>4, Known, AppendAdds
  <2> QED
    BY <1>2, <1>4, <2>1, <2>3, <2>5, QuietClientStep
<1>8. CASE RxServerData(c, TRUE)
  <2>1. to_server' = to_server
    BY <1>8 DEF RxServerData
  <2>2. CASE ~c.on
    <3>1. client' = c
      BY <1>3, <1>8, <2>2 DEF RxServerData, GoodClient, ClientInv
    <3> QED
      BY <1>2, <1>3, <1>4, <2>1, <3>1, Known, QuietClientStep
  <2>3. CASE c.on
    <3>1. client' = [MapBoundary(c) EXCEPT !.confirmed = TRUE]
      BY <1>8, <2>3 DEF RxServerData
    <3>2. GoodClient(client') /\ ClientLearns(c, client')
      BY <1>3, <2>3, <3>1, ConfirmedModeGood
    <3> QED
      BY <1>2, <1>4, <1>6, <2>1, <3>2, Known, QuietClientStep
  <2> QED
    BY <2>2, <2>3
<1>9. CASE to_client[i].kind = "LEGACY" /\ RxServerData(c, FALSE)
  <2>1. client' = Off /\ to_server' = to_server
    BY <1>9 DEF RxServerData
  <2>2. /\ GoodClient(client') /\ ~client'.on /\ client'.session = 0
        /\ ClientKeeps(client, client')
    BY <2>1, OffGood DEF ClientKeeps
  <2>3. ~server.on
    BY <1>4, <1>9 DEF IInv, OffInv
  <2>4. \A x \in Range(to_client') : x.kind # "DATA"
    BY <1>1, <1>9, Known, SuffixThins DEF WithoutArrived
  <2> QED
    BY <1>2, <1>4, <2>1, <2>2, <2>3, <2>4, Known, ClientStep
<1>10. CASE RxChallenge(c, to_client[i].epoch)
  BY <1>2, <1>3, <1>4, <1>5, <1>10, RxChallengeKeeps
<1>11. CASE /\ to_client[i].kind = "SERVER_ACTIVE"
            /\ RxServerActive(c, to_client[i].epoch)
  BY <1>2, <1>3, <1>4, <1>5, <1>11, RxServerActiveKeeps
<1> QED
  BY <1>1, <1>7, <1>8, <1>9, <1>10, <1>11

-----------------------------------------------------------------------------
(***************************************************************************)
(* The theorems.                                                           *)
(***************************************************************************)
LEMMA NextKeeps == IInv /\ [Next]_vars => Kept
<1>1. ASSUME IInv, UNCHANGED vars PROVE Kept
  <2>1. /\ server' = server /\ client' = client
        /\ to_server' = to_server /\ to_client' = to_client
    BY <1>1 DEF vars
  <2> QED
    BY <1>1, <2>1, Known, SmallUpdatesGood, QuietServerStep
<1>2. ASSUME IInv, Next PROVE Kept
  BY <1>2, ChangeMapKeeps, LoseCarrierKeeps, ServerRxRecordKeeps,
     ServerRxCarrierKeeps, ServiceKeeps, ServerSendsCarrierKeeps,
     LocalServerKeeps, ClientRxRecordKeeps, ClientRxCarrierKeeps,
     ClientBeginsKeeps, ClientSendsCarrierKeeps, LocalClientKeeps DEF Next
<1> QED
  BY <1>1, <1>2

\* The invariant is inductive, for every number of maps, carriers and faults:
\* an epoch that a carrier or a record on the way names is known to the end
\* it goes to, or lies below that end's floor.
THEOREM Invariance == Spec => []IInv
<1>1. IInv /\ [Next]_vars => IInv'
  BY NextKeeps DEF Kept
<1> QED
  BY InitIInv, <1>1, PTL DEF Spec

\* SV_NativeShadowServerActiveQueuedV1, QuiesceMap and Disable keep the
\* transport, the wire commitment and the lifecycle of the server's peer
\* consistent, whatever fails between two of its steps.
THEOREM CommittedTransport == Spec => []TransportCommitted
<1>1. IInv => TransportCommitted
  BY DEF IInv, ServerInv, TransportCommitted
<1> QED
  BY Invariance, <1>1, PTL

\* A carrier in flight is of the epoch its receiver knows, or of one it has
\* cancelled: native_shadow_rx and pilot_rx_event find no third kind.
THEOREM ExpectedCarriers == Spec => []CarriersExpected
<1>1. IInv => CarriersExpected
  <2> SUFFICES ASSUME IInv PROVE CarriersExpected
    OBVIOUS
  <2>1. ASSUME NEW i \in DOMAIN to_server, ~IsRecord(to_server[i]),
               to_server[i].epoch > server.floor
        PROVE  to_server[i].epoch = server.wire
    <3>1. to_server[i] \in Range(to_server) /\ to_server[i].kind \in Carrier
      BY <2>1 DEF Range, IsRecord
    <3>2. /\ to_server[i].epoch \in Nat /\ server.floor \in Nat
          /\ server.wire \in Nat
      <4>1. to_server[i] \in ServerItem
        BY DEF IInv, Types
      <4> QED
        BY <4>1 DEF IInv, Types, ServerItem, Server
    <3> QED
      BY <2>1, <3>1, <3>2 DEF IInv, ServerKnows, KnownToServer
  <2>2. ASSUME NEW i \in DOMAIN to_client, ~IsRecord(to_client[i]),
               client.on, to_client[i].epoch > client.floor
        PROVE  to_client[i].epoch = client.session
    <3>1. to_client[i] \in Range(to_client) /\ to_client[i].kind \in Carrier
      BY <2>2 DEF Range, IsRecord
    <3>2. /\ to_client[i].epoch \in Nat /\ client.floor \in Nat
          /\ client.session \in Nat
      <4>1. to_client[i] \in ClientItem
        BY DEF IInv, Types
      <4> QED
        BY <4>1 DEF IInv, Types, ClientItem, Client
    <3> QED
      BY <2>2, <3>1, <3>2 DEF IInv, ClientKnows, KnownToClient
  <2> QED
    BY <2>1, <2>2 DEF CarriersExpected
<1> QED
  BY Invariance, <1>1, PTL

\* Floors never sink, transports and sessions are set up above them, and a
\* client that drains is only woken by a CHALLENGE.
THEOREM FloorsHold == Spec => CancelledStaysCancelled
<1> DEFINE Stays ==
      /\ server'.floor >= server.floor
      /\ server'.transport > server.transport =>
             server'.transport > server'.floor
      /\ client'.on =>
             /\ client'.floor >= client.floor
             /\ client'.session # client.session /\ client'.session # 0 =>
                    client'.session > client'.floor
             /\ client.mode = "DRAIN" => client'.mode # "ACTIVE"
<1>1. IInv /\ [Next]_vars => Stays
  <2> SUFFICES ASSUME IInv, [Next]_vars PROVE Stays
    OBVIOUS
  <2>1. IInv' /\ ServerKeeps(server, server') /\ ClientKeeps(client, client')
    BY NextKeeps DEF Kept
  <2>2. server'.transport > server.transport => server'.transport # 0
    <3>1. server.transport \in Nat
      BY Known
    <3> QED
      BY <3>1
  <2>3. /\ server'.transport # 0 => server'.transport > server'.floor
        /\ client'.session # 0 => client'.session > client'.floor
    BY <2>1 DEF IInv, ServerInv, ClientInv
  <2> QED
    BY <2>1, <2>2, <2>3 DEF ServerKeeps, ClientKeeps
<1> QED
  BY Invariance, <1>1, PTL DEF Spec, CancelledStaysCancelled

-----------------------------------------------------------------------------
(***************************************************************************)
(* Epochs are bounded by maps: a map asks for one CHALLENGE at most, so    *)
(* the server's epoch does not overtake its map, and nobody knows a later  *)
(* one.                                                                    *)
(***************************************************************************)
SlotInv ==
    /\ slot \in [state : {"connected", "primed", "spawned"},
                 map : 1 .. MaxMaps, pending : BOOLEAN]
    /\ slot.pending => slot.state = "spawned"
    /\ \/ server.epoch < slot.map
       \/ /\ server.epoch = slot.map
          /\ slot.state = "spawned" /\ ~slot.pending

EpochsBehind ==
    /\ \A x \in Range(to_client) : x.epoch <= server.epoch
    /\ \A x \in Range(to_server) : x.epoch <= server.epoch
    /\ client.epoch <= server.epoch

RestInv ==
    /\ loading \in BOOLEAN
    /\ dropped \in {"none", "server", "client"}
    /\ faults \in FaultChoices

BoundInv == SlotInv /\ EpochsBehind /\ RestInv

LEMMA ItemEpochs ==
    ASSUME IInv
    PROVE  /\ \A x \in Range(to_client) : x \in ClientItem /\ x.epoch \in Nat
           /\ \A x \in Range(to_server) : x \in ServerItem /\ x.epoch \in Nat
<1>1. /\ \A i \in DOMAIN to_client : to_client[i] \in ClientItem
      /\ \A i \in DOMAIN to_server : to_server[i] \in ServerItem
  BY Known
<1> QED
  BY <1>1 DEF Range, ClientItem, ServerItem

LEMMA BoundsInit == Init => BoundInv
<1> SUFFICES ASSUME Init PROVE BoundInv
  OBVIOUS
<1>1. /\ Range(to_client) = {}
      /\ \A x \in Range(to_server) : x.epoch = 0
      /\ server.epoch = 0 /\ client.epoch = 0
  BY DEF Init, Range, Item, FreshServer, FreshClient
<1>2. SlotInv
  BY <1>1, BoundAssumption DEF Init, SlotInv
<1>3. EpochsBehind
  BY <1>1 DEF EpochsBehind
<1>4. RestInv
  BY DEF Init, RestInv
<1> QED
  BY <1>2, <1>3, <1>4 DEF BoundInv

\* What every step does: the server's epoch grows by what the map allows, and
\* what is new on the way or with the client is not above it.
LEMMA BoundsStep ==
    ASSUME IInv, IInv', BoundInv, server.epoch <= server'.epoch,
           SlotInv', RestInv', client'.epoch <= server'.epoch,
           \A x \in Range(to_client') :
               x \in Range(to_client) \/ x.epoch <= server'.epoch,
           \A x \in Range(to_server') :
               x \in Range(to_server) \/ x.epoch <= server'.epoch
    PROVE  BoundInv'
<1>1. server.epoch \in Nat /\ server'.epoch \in Nat
  BY Known DEF IInv, Types, Server
<1>2. EpochsBehind'
  BY <1>1, ItemEpochs DEF BoundInv, EpochsBehind
<1> QED
  BY <1>2 DEF BoundInv

\* No operator but BeginEpoch touches the epoch.
LEMMA EpochsKept ==
    ASSUME NEW s \in Server
    PROVE  /\ Drained(s).epoch = s.epoch
           /\ Disable(s).epoch = s.epoch
           /\ QuiesceMap(s).epoch = s.epoch
           /\ ServerPacketBegin(s).epoch = s.epoch
           /\ Opened(Ready(s)).epoch = s.epoch
           /\ NotOpened(Ready(s)).epoch = s.epoch
           /\ Disable(Ready(s)).epoch = s.epoch
           /\ \A x : ServerPacketBegin(ServerTakes(s, x)).epoch = s.epoch
<1>1. ASSUME NEW t \in Server
      PROVE  /\ Drained(t).epoch = t.epoch
             /\ Disable(t).epoch = t.epoch
             /\ ServerPacketBegin(t).epoch = t.epoch
  BY DEF Drained, Disable, ServerPacketBegin, Server
<1>2. QuiesceMap(s).epoch = s.epoch
  BY DEF QuiesceMap, Cancelled, Server
<1>3. Ready(s) \in Server /\ Ready(s).epoch = s.epoch
  BY DEF Ready, Server
<1>4. Opened(Ready(s)).epoch = s.epoch
  BY <1>3 DEF Opened, Server
<1>5. NotOpened(Ready(s)).epoch = s.epoch
  <2>1. /\ [Ready(s) EXCEPT !.wire = Ready(s).epoch] \in Server
        /\ [Ready(s) EXCEPT !.wire = Ready(s).epoch].epoch = s.epoch
    BY <1>3 DEF Server
  <2> QED
    BY <1>1, <2>1 DEF NotOpened
<1>6. ASSUME NEW x PROVE ServerPacketBegin(ServerTakes(s, x)).epoch = s.epoch
  <2>1. ServerTakes(s, x) \in {s, Drained(s), [s EXCEPT !.owes = TRUE]}
    BY DEF ServerTakes
  <2>2. Drained(s) \in Server /\ [s EXCEPT !.owes = TRUE] \in Server
    BY DEF Drained, Server
  <2>3. [s EXCEPT !.owes = TRUE].epoch = s.epoch
    BY DEF Server
  <2> QED
    BY <1>1, <2>1, <2>2, <2>3
<1> QED
  BY <1>1, <1>2, <1>3, <1>4, <1>5, <1>6

\* The server answers, and leaves its epoch alone.
LEMMA BoundsAnswer ==
    ASSUME IInv, IInv', BoundInv, server'.epoch = server.epoch,
           SlotInv', RestInv', client' = client,
           Range(to_server') \subseteq Range(to_server),
           \A x \in Range(to_client') :
               x \in Range(to_client) \/ x.epoch <= server.epoch
    PROVE  BoundInv'
<1>1. server.epoch \in Nat
  BY Known
<1> QED
  BY <1>1, BoundsStep DEF BoundInv, EpochsBehind

\* Steps of the server that send nothing, or a carrier.
LEMMA BoundsLocal ==
    ASSUME IInv, IInv', BoundInv,
           \/ ServerRxCarrier \/ ServerRxPlain \/ ServerSendsCarrier
           \/ ServerTxExpired \/ ServerFails \/ ServerDeadlinePasses
           \/ QueueExpires \/ LoseCarrier
    PROVE  BoundInv'
<1>1. /\ server \in Server /\ client' = client /\ RestInv'
      /\ to_server \in Seq(ServerItem) /\ to_client \in Seq(ClientItem)
  BY DEF IInv, Types, BoundInv, RestInv, ServerRxCarrier, ServerRxPlain,
         ServerSendsCarrier, ServerTxExpired, ServerFails,
         ServerDeadlinePasses, QueueExpires, LoseCarrier
<1>2. server'.epoch = server.epoch
  <2>1. /\ [server EXCEPT !.late = TRUE].epoch = server.epoch
        /\ [server EXCEPT !.owes = FALSE].epoch = server.epoch
    BY <1>1 DEF Server
  <2>2. CASE ServerRxCarrier
    BY <1>1, <2>2, EpochsKept DEF ServerRxCarrier
  <2>3. CASE ServerSendsCarrier
    BY <2>1, <2>3 DEF ServerSendsCarrier
  <2>4. CASE ServerRxPlain \/ ServerTxExpired \/ ServerFails \/ QueueExpires
    BY <1>1, <2>4, EpochsKept
       DEF ServerRxPlain, ServerTxExpired, ServerFails, QueueExpires
  <2>5. CASE ServerDeadlinePasses \/ LoseCarrier
    BY <2>1, <2>5 DEF ServerDeadlinePasses, LoseCarrier
  <2> QED
    BY <2>2, <2>3, <2>4, <2>5
<1>3. slot' \in {slot, [slot EXCEPT !.pending = FALSE]}
  BY DEF ServerRxCarrier, ServerRxPlain, ServerSendsCarrier,
         ServerTxExpired, ServerFails, ServerDeadlinePasses, QueueExpires,
         LoseCarrier
<1>4. SlotInv'
  BY <1>2, <1>3 DEF BoundInv, SlotInv
<1>5. Range(to_server') \subseteq Range(to_server)
  BY <1>1, ArrivalThins, RemovalThins
     DEF ServerRxCarrier, ServerRxPlain, ServerSendsCarrier,
         ServerTxExpired, ServerFails, ServerDeadlinePasses, QueueExpires,
         LoseCarrier
<1>6. \A x \in Range(to_client') :
          x \in Range(to_client) \/ x.epoch <= server.epoch
  <2>1. CASE ServerSendsCarrier
    <3>1. PICK kind \in Carrier :
              to_client' = Append(to_client, Item(kind, server.transport))
      BY <2>1 DEF ServerSendsCarrier
    <3>2. /\ Item(kind, server.transport) \in ClientItem
          /\ Item(kind, server.transport).epoch = server.transport
      BY <1>1 DEF Item, ClientItem, ToClient, Server
    <3>3. server.transport <= server.epoch
      BY <1>1 DEF IInv, ServerInv, Server
    <3> QED
      BY <1>1, <3>1, <3>2, <3>3, AppendAdds
  <2>2. CASE LoseCarrier
    BY <1>1, <2>2, RemovalThins DEF LoseCarrier
  <2>3. CASE to_client' = to_client
    BY <2>3
  <2> QED
    BY <2>1, <2>2, <2>3
       DEF ServerRxCarrier, ServerRxPlain, ServerTxExpired, ServerFails,
           ServerDeadlinePasses, QueueExpires
<1> QED
  BY <1>1, <1>2, <1>4, <1>5, <1>6, BoundsAnswer

LEMMA BoundsNew ==
    ASSUME IInv, BoundInv, NEW s \in Server, s.epoch = server.epoch, New(s),
           slot.state = "connected"
    PROVE  /\ server'.epoch = server.epoch /\ SlotInv'
           /\ \A x \in Range(to_client') :
                  x \in Range(to_client) \/ x.epoch <= server.epoch
<1> DEFINE x == Item(IF s.on THEN "SERVERDATA" ELSE "LEGACY", 0)
<1>1. server'.epoch = server.epoch
  BY EpochsKept DEF New
<1>2. SlotInv'
  BY <1>1 DEF New, BoundInv, SlotInv
<1>3. to_client' = Append(to_client, x)
  BY DEF New
<1>4. x \in ClientItem /\ x.epoch = 0
  BY DEF Item, ClientItem, ToClient
<1>5. server.epoch \in Nat /\ to_client \in Seq(ClientItem)
  BY Known
<1> HIDE DEF x
<1>6. Range(to_client') = Range(to_client) \cup {x}
  BY <1>3, <1>4, <1>5, AppendAdds
<1> QED
  BY <1>1, <1>2, <1>4, <1>5, <1>6

LEMMA BoundsServerRx ==
    ASSUME IInv, IInv', BoundInv, ServerRxRecord
    PROVE  BoundInv'
<1> DEFINE s == ServerPacketBegin(server)
           Sent == \A x \in Range(to_client') :
                       x \in Range(to_client) \/ x.epoch <= server.epoch
<1>1. PICK i \in DOMAIN to_server :
          /\ to_server' = WithoutArrived(to_server, i)
          /\ \/ RxNew(s)
             \/ RxBegin(s)
             \/ RxReady(s, to_server[i].epoch)
             \/ RxConfirm(s, to_server[i].epoch)
  BY DEF ServerRxRecord
<1>2. client' = client /\ RestInv'
  BY DEF ServerRxRecord, BoundInv, RestInv
<1>3. s \in Server /\ s.epoch = server.epoch
  BY Known, PacketBeginGood, EpochsKept DEF GoodServer
<1>4. Range(to_server') \subseteq Range(to_server)
  BY <1>1, Known, ArrivalThins
<1> HIDE DEF s
<1>5. ASSUME server'.epoch = server.epoch, slot' = slot,
             to_client' = to_client
      PROVE  BoundInv'
  <2>1. SlotInv'
    BY <1>5 DEF BoundInv, SlotInv
  <2> QED
    BY <1>2, <1>4, <1>5, <2>1, BoundsAnswer
<1>6. ASSUME New(s), slot.state = "connected" PROVE BoundInv'
  BY <1>2, <1>3, <1>4, <1>6, BoundsNew, BoundsAnswer
<1>7. CASE RxNew(s)
  BY <1>3, <1>5, <1>6, <1>7 DEF RxNew, Ignore
<1>8. CASE RxBegin(s)
  <2>1. CASE /\ slot.state = "primed"
             /\ slot' = [slot EXCEPT !.state = "spawned", !.pending = TRUE]
             /\ server' = s /\ to_client' = to_client
    <3>1. SlotInv'
      BY <1>3, <2>1 DEF BoundInv, SlotInv
    <3> QED
      BY <1>2, <1>3, <1>4, <2>1, <3>1, BoundsAnswer
  <2> QED
    BY <1>3, <1>5, <1>6, <1>8, <2>1 DEF RxBegin, Ignore
<1>9. CASE RxReady(s, to_server[i].epoch)
  <2> DEFINE x == Item("SERVER_ACTIVE", s.epoch)
  <2>1. CASE /\ server' \in {Opened(Ready(s)), NotOpened(Ready(s))}
             /\ slot' = slot /\ to_client' = Append(to_client, x)
    <3>1. server'.epoch = server.epoch
      BY <1>3, <2>1, EpochsKept
    <3>2. SlotInv'
      BY <2>1, <3>1 DEF BoundInv, SlotInv
    <3>3. server.epoch \in Nat /\ to_client \in Seq(ClientItem)
      BY Known
    <3>4. x \in ClientItem /\ x.epoch = server.epoch
      BY <1>3, <3>3 DEF Item, ClientItem, ToClient
    <3> HIDE DEF x
    <3>5. Range(to_client') = Range(to_client) \cup {x}
      BY <2>1, <3>3, <3>4, AppendAdds
    <3>6. Sent
      BY <3>3, <3>4, <3>5
    <3> QED
      BY <1>2, <1>4, <3>1, <3>2, <3>6, BoundsAnswer
  <2>2. CASE /\ server' \in {s, Disable(s), Disable(Ready(s))}
             /\ slot' = slot /\ to_client' = to_client
    <3>1. server'.epoch = server.epoch
      BY <1>3, <2>2, EpochsKept
    <3> QED
      BY <1>5, <2>2, <3>1
  <2> QED
    BY <1>9, <2>1, <2>2 DEF RxReady, Ignore
<1>10. CASE RxConfirm(s, to_server[i].epoch)
  <2>1. [s EXCEPT !.phase = "ACTIVE", !.late = FALSE].epoch = s.epoch
    BY <1>3 DEF Server
  <2> QED
    BY <1>3, <1>5, <1>10, <2>1, EpochsKept DEF RxConfirm, Ignore
<1> QED
  BY <1>1, <1>7, <1>8, <1>9, <1>10

LEMMA BoundsChangeMap ==
    ASSUME IInv, IInv', BoundInv, ChangeMap
    PROVE  BoundInv'
<1> DEFINE x == Item("CHANGING", 0)
<1>1. /\ client' = client /\ to_server' = to_server /\ RestInv'
      /\ server.epoch \in Nat /\ to_client \in Seq(ClientItem)
  BY Known DEF ChangeMap, BoundInv, RestInv
<1>2. server'.epoch = server.epoch
  BY Known, EpochsKept DEF ChangeMap, GoodServer
<1>3. SlotInv'
  <2>1. slot.map \in 1 .. MaxMaps /\ slot.map < MaxMaps /\ MaxMaps \in Nat
    BY BoundAssumption DEF BoundInv, SlotInv, ChangeMap
  <2>2. /\ slot' = [state |-> "connected", map |-> slot.map + 1,
                    pending |-> FALSE]
        /\ server.epoch <= slot.map
    BY <1>1, <2>1 DEF ChangeMap, BoundInv, SlotInv
  <2>3. slot.map + 1 \in 1 .. MaxMaps /\ server.epoch < slot.map + 1
    BY <1>1, <2>1, <2>2
  <2> QED
    BY <1>2, <2>2, <2>3 DEF SlotInv
<1>4. x \in ClientItem /\ x.epoch = 0 /\ to_client' = Append(to_client, x)
  BY DEF Item, ClientItem, ToClient, ChangeMap
<1> HIDE DEF x
<1>5. Range(to_client') = Range(to_client) \cup {x}
  BY <1>1, <1>4, AppendAdds
<1>6. \A y \in Range(to_client') :
          y \in Range(to_client) \/ y.epoch <= server.epoch
  BY <1>1, <1>4, <1>5
<1> QED
  BY <1>1, <1>2, <1>3, <1>6, BoundsAnswer

LEMMA BoundsService ==
    ASSUME IInv, IInv', BoundInv, Service
    PROVE  BoundInv'
<1> DEFINE x == Item("CHALLENGE", server.epoch + 1)
<1>1. /\ client' = client /\ to_server' = to_server /\ RestInv'
      /\ server \in Server /\ server.epoch \in Nat
      /\ to_client \in Seq(ClientItem)
  BY Known DEF Service, BoundInv, RestInv, GoodServer
<1>2. /\ slot' = [slot EXCEPT !.pending = FALSE]
      /\ slot.pending /\ slot.state = "spawned" /\ server.epoch < slot.map
  BY DEF Service, BoundInv, SlotInv
<1>3. CASE server.on
  <2>1. server'.epoch = server.epoch + 1
    BY <1>1, <1>3 DEF Service, BeginEpoch, Cancelled, Server
  <2>2. SlotInv'
    <3>1. /\ slot'.state = "spawned" /\ ~slot'.pending
          /\ slot'.map = slot.map /\ slot.map \in Nat
      BY <1>2 DEF BoundInv, SlotInv
    <3>2. server'.epoch < slot.map \/ server'.epoch = slot.map
      BY <1>1, <1>2, <2>1, <3>1
    <3>3. slot' \in [state : {"connected", "primed", "spawned"},
                     map : 1 .. MaxMaps, pending : BOOLEAN]
      BY <1>2 DEF BoundInv, SlotInv
    <3> QED
      BY <3>1, <3>2, <3>3 DEF SlotInv
  <2>3. /\ x \in ClientItem /\ x.epoch = server.epoch + 1
        /\ to_client' = Append(to_client, x)
    BY <1>1, <1>3 DEF Service, Item, ClientItem, ToClient
  <2> HIDE DEF x
  <2>4. Range(to_client') = Range(to_client) \cup {x}
    BY <1>1, <2>3, AppendAdds
  <2>5. \A y \in Range(to_client') :
            y \in Range(to_client) \/ y.epoch <= server'.epoch
    BY <1>1, <2>1, <2>3, <2>4
  <2>6. client'.epoch <= server'.epoch /\ server.epoch <= server'.epoch
    BY <1>1, <2>1, Known DEF BoundInv, EpochsBehind
  <2> QED
    BY <1>1, <2>2, <2>5, <2>6, BoundsStep
<1>4. CASE ~server.on
  <2>1. server'.epoch = server.epoch /\ to_client' = to_client
    BY <1>1, <1>4, EpochsKept DEF Service
  <2>2. SlotInv'
    BY <1>2, <2>1 DEF BoundInv, SlotInv
  <2> QED
    BY <1>1, <2>1, <2>2, BoundsAnswer
<1> QED
  BY <1>3, <1>4
\* The client, likewise.
LEMMA BoundsClient ==
    ASSUME IInv, IInv', BoundInv, server' = server, slot' = slot, RestInv',
           client'.epoch <= server.epoch,
           Range(to_client') \subseteq Range(to_client),
           \A x \in Range(to_server') :
               x \in Range(to_server) \/ x.epoch <= server.epoch
    PROVE  BoundInv'
<1>1. server.epoch \in Nat
  BY Known
<1>2. SlotInv'
  BY DEF BoundInv, SlotInv
<1> QED
  BY <1>1, <1>2, BoundsStep

LEMMA ClientEpochs ==
    ASSUME NEW c \in Client
    PROVE  /\ \A d \in {Draining(c), MapBoundary(c),
                        [MapBoundary(c) EXCEPT !.confirmed = TRUE],
                        [c EXCEPT !.owes = TRUE], [c EXCEPT !.owes = FALSE],
                        [c EXCEPT !.late = TRUE]} :
                  d \in Client /\ d.epoch = c.epoch
           /\ \A d \in {Failed(c), ClientPacketBegin(c)} :
                  d \in Client /\ (d.epoch = c.epoch \/ d.epoch = 0)
           /\ Off.epoch = 0
           /\ \A e \in Nat : /\ Armed(c, e).epoch = e
                             /\ Activated(c, e) \in Client
                             /\ Activated(c, e).epoch = c.epoch
                             /\ [Activated(c, e) EXCEPT !.phase = "ACTIVE"].epoch
                                    = c.epoch
<1>1. Off \in Client /\ Off.epoch = 0
  BY DEF Off, FreshClient, Client
<1>2. \A d \in {Draining(c), MapBoundary(c),
                [MapBoundary(c) EXCEPT !.confirmed = TRUE],
                [c EXCEPT !.owes = TRUE], [c EXCEPT !.owes = FALSE],
                [c EXCEPT !.late = TRUE]} :
          d \in Client /\ d.epoch = c.epoch
  <2>1. /\ Draining(c) \in Client /\ Draining(c).epoch = c.epoch
        /\ MapBoundary(c) \in Client /\ MapBoundary(c).epoch = c.epoch
    BY DEF Draining, MapBoundary, Client
  <2>2. ASSUME NEW b \in Client
        PROVE  /\ [b EXCEPT !.confirmed = TRUE] \in Client
               /\ [b EXCEPT !.confirmed = TRUE].epoch = b.epoch
    BY DEF Client
  <2>3. /\ [c EXCEPT !.owes = TRUE] \in Client
        /\ [c EXCEPT !.owes = TRUE].epoch = c.epoch
        /\ [c EXCEPT !.owes = FALSE] \in Client
        /\ [c EXCEPT !.owes = FALSE].epoch = c.epoch
        /\ [c EXCEPT !.late = TRUE] \in Client
        /\ [c EXCEPT !.late = TRUE].epoch = c.epoch
    BY DEF Client
  <2> QED
    BY <2>1, <2>2, <2>3
<1>3. \A d \in {Failed(c), ClientPacketBegin(c)} :
          d \in Client /\ (d.epoch = c.epoch \/ d.epoch = 0)
  BY <1>1, <1>2 DEF Failed, ClientPacketBegin
<1>4. \A e \in Nat : /\ Armed(c, e).epoch = e
                     /\ Activated(c, e) \in Client
                     /\ Activated(c, e).epoch = c.epoch
                     /\ [Activated(c, e) EXCEPT !.phase = "ACTIVE"].epoch
                            = c.epoch
  BY DEF Armed, Activated, Client
<1> QED
  BY <1>1, <1>2, <1>3, <1>4

LEMMA SentBehind ==
    ASSUME NEW S, NEW q \in Seq(S), NEW p, NEW n,
           \/ p = q
           \/ \E x \in S : x.epoch <= n /\ p = Append(q, x)
    PROVE  \A x \in Range(p) : x \in Range(q) \/ x.epoch <= n
<1>1. CASE p = q
  BY <1>1
<1>2. ASSUME NEW x \in S, x.epoch <= n, p = Append(q, x)
      PROVE  \A y \in Range(p) : y \in Range(q) \/ y.epoch <= n
  <2>1. Range(p) = Range(q) \cup {x}
    BY <1>2, AppendAdds
  <2> QED
    BY <1>2, <2>1
<1> QED
  BY <1>1, <1>2

\* Steps of the client without a record: it sends one, or a carrier.
LEMMA BoundsClientLocal ==
    ASSUME IInv, IInv', BoundInv,
           \/ ClientDeadlinePasses \/ ClientRxCarrier \/ ClientRxPlain
           \/ ClientBegins \/ ClientSendsCarrier \/ ClientFails
    PROVE  BoundInv'
<1>1. /\ server' = server /\ slot' = slot /\ RestInv'
      /\ client \in Client /\ client.epoch \in Nat /\ server.epoch \in Nat
      /\ client.session <= client.epoch /\ client.session \in Nat
      /\ client.epoch <= server.epoch
      /\ to_server \in Seq(ServerItem) /\ to_client \in Seq(ClientItem)
  <2>1. /\ server' = server /\ slot' = slot /\ RestInv'
    BY DEF BoundInv, RestInv, ClientDeadlinePasses, ClientRxCarrier,
           ClientRxPlain, ClientBegins, ClientSendsCarrier, ClientFails
  <2>2. client \in Client /\ client.session <= client.epoch
    BY Known DEF IInv, ClientInv, GoodClient, Client
  <2> QED
    BY <2>1, <2>2, Known DEF BoundInv, EpochsBehind
<1>2. client'.epoch = client.epoch \/ client'.epoch = 0
  <2>1. CASE ClientRxCarrier
    <3>1. PICK d \in {client, [client EXCEPT !.owes = TRUE], Draining(client)} :
              client' \in {d, ClientPacketBegin(d)}
      <4>1. PICK i \in DOMAIN to_client :
                \/ client' = Draining(client)
                \/ client' = ClientPacketBegin(client)
                \/ client' = ClientPacketBegin(
                      [client EXCEPT !.owes = client.owes
                                              \/ to_client[i].kind = "DATA"])
        BY <2>1 DEF ClientRxCarrier
      <4>2. ASSUME NEW b \in BOOLEAN
            PROVE  [client EXCEPT !.owes = client.owes \/ b]
                       \in {client, [client EXCEPT !.owes = TRUE]}
        <5>1. [client EXCEPT !.owes = client.owes] = client
          BY <1>1 DEF Client
        <5>2. client.owes \in BOOLEAN
          BY <1>1 DEF Client
        <5>3. (client.owes \/ b) \in {client.owes, TRUE}
          BY <5>2
        <5> QED
          BY <5>1, <5>3
      <4> QED
        BY <4>1, <4>2
    <3>2. d \in Client /\ d.epoch = client.epoch
      BY <1>1, <3>1, ClientEpochs
    <3>3. \/ ClientPacketBegin(d).epoch = d.epoch
          \/ ClientPacketBegin(d).epoch = 0
      BY <3>2, ClientEpochs
    <3> QED
      BY <3>1, <3>2, <3>3
  <2>2. CASE ClientRxPlain \/ ClientFails
    BY <1>1, <2>2, ClientEpochs DEF ClientRxPlain, ClientFails
  <2>3. CASE ClientDeadlinePasses \/ ClientBegins \/ ClientSendsCarrier
    BY <1>1, <2>3, ClientEpochs
       DEF ClientDeadlinePasses, ClientBegins, ClientSendsCarrier
  <2> QED
    BY <2>1, <2>2, <2>3
<1>3. Range(to_client') \subseteq Range(to_client)
  BY <1>1, ArrivalThins
     DEF ClientDeadlinePasses, ClientRxCarrier, ClientRxPlain,
         ClientBegins, ClientSendsCarrier, ClientFails
<1>4. \/ to_server' = to_server
      \/ \E x \in ServerItem : /\ x.epoch <= server.epoch
                               /\ to_server' = Append(to_server, x)
  <2>1. CASE ClientBegins
    <3>1. /\ Item("BEGIN", 0) \in ServerItem
          /\ Item("BEGIN", 0).epoch <= server.epoch
      BY <1>1 DEF Item, ServerItem, ToServer
    <3> QED
      BY <2>1, <3>1 DEF ClientBegins
  <2>2. CASE ClientSendsCarrier
    <3>1. PICK kind \in Carrier :
              to_server' = Append(to_server, Item(kind, client.session))
      BY <2>2 DEF ClientSendsCarrier
    <3>2. /\ Item(kind, client.session) \in ServerItem
          /\ Item(kind, client.session).epoch <= server.epoch
      BY <1>1 DEF Item, ServerItem, ToServer
    <3> QED
      BY <3>1, <3>2
  <2> QED
    BY <2>1, <2>2
       DEF ClientDeadlinePasses, ClientRxCarrier, ClientRxPlain, ClientFails
<1>5. \A x \in Range(to_server') :
          x \in Range(to_server) \/ x.epoch <= server.epoch
  BY <1>1, <1>4, SentBehind
<1>6. client'.epoch <= server.epoch
  BY <1>1, <1>2
<1> QED
  BY <1>1, <1>3, <1>5, <1>6, BoundsClient

LEMMA BoundsClientRx ==
    ASSUME IInv, IInv', BoundInv, ClientRxRecord
    PROVE  BoundInv'
<1> DEFINE c == ClientPacketBegin(client)
<1>1. PICK i \in DOMAIN to_client :
          /\ to_client' = WithoutArrived(to_client, i)
          /\ \/ RxChanging(c)
             \/ RxServerData(c, TRUE)
             \/ RxServerData(c, FALSE)
             \/ RxChallenge(c, to_client[i].epoch) /\ UNCHANGED loading
             \/ RxServerActive(c, to_client[i].epoch) /\ UNCHANGED loading
  BY DEF ClientRxRecord
<1> DEFINE e == to_client[i].epoch
<1>2. /\ Range(to_client') \subseteq Range(to_client)
      /\ to_client[i] \in Range(to_client)
  BY <1>1, Known, ArrivalThins
<1>3. e \in Nat /\ e <= server.epoch /\ server.epoch \in Nat
  BY <1>2, Known, ItemEpochs DEF BoundInv, EpochsBehind
<1>4. /\ client \in Client /\ client.epoch \in Nat
      /\ client.epoch <= server.epoch /\ to_server \in Seq(ServerItem)
  BY Known DEF GoodClient, BoundInv, EpochsBehind
<1>5. c \in Client /\ c.epoch \in Nat /\ c.epoch <= server.epoch
  <2>1. c \in Client /\ (c.epoch = client.epoch \/ c.epoch = 0)
    BY <1>4, ClientEpochs
  <2> QED
    BY <1>3, <1>4, <2>1
<1> HIDE DEF c, e
<1>6. server' = server /\ slot' = slot /\ RestInv'
  BY <1>1 DEF ClientRxRecord, RxChanging, RxServerData, BoundInv, RestInv
<1>7. \/ client'.epoch = 0 \/ client'.epoch = c.epoch \/ client'.epoch = e
  <2>1. ASSUME client' \in {Failed(c), c, MapBoundary(c), Off, Armed(c, e),
                            [MapBoundary(c) EXCEPT !.confirmed = TRUE],
                            [Activated(c, e) EXCEPT !.phase = "ACTIVE"],
                            Failed(Activated(c, e))}
        PROVE  client'.epoch = 0 \/ client'.epoch = c.epoch \/ client'.epoch = e
    <3>1. /\ Activated(c, e) \in Client
          /\ Activated(c, e).epoch = c.epoch
      BY <1>3, <1>5, ClientEpochs
    <3>2. \/ Failed(Activated(c, e)).epoch = 0
          \/ Failed(Activated(c, e)).epoch = c.epoch
      BY <3>1, ClientEpochs
    <3>3. /\ Failed(c).epoch = 0 \/ Failed(c).epoch = c.epoch
          /\ MapBoundary(c).epoch = c.epoch /\ Off.epoch = 0
          /\ [MapBoundary(c) EXCEPT !.confirmed = TRUE].epoch = c.epoch
      BY <1>5, ClientEpochs
    <3>4. /\ Armed(c, e).epoch = e
          /\ [Activated(c, e) EXCEPT !.phase = "ACTIVE"].epoch = c.epoch
      BY <1>3, <1>5, ClientEpochs
    <3> QED
      BY <2>1, <3>2, <3>3, <3>4
  <2> QED
    BY <1>1, <2>1 DEF RxChanging, RxServerData, RxChallenge, RxServerActive, e
<1>8. \/ to_server' = to_server
      \/ \E x \in ServerItem : /\ x.epoch <= server.epoch
                               /\ to_server' = Append(to_server, x)
  <2>1. \A kind \in {"NEW", "READY", "CONFIRM"} : \A n \in {0, e} :
            Item(kind, n) \in ServerItem /\ Item(kind, n).epoch <= server.epoch
    BY <1>3 DEF Item, ServerItem, ToServer
  <2> QED
    BY <1>1, <2>1 DEF RxChanging, RxServerData, RxChallenge, RxServerActive, e
<1>9. \A x \in Range(to_server') :
          x \in Range(to_server) \/ x.epoch <= server.epoch
  BY <1>4, <1>8, SentBehind
<1>10. client'.epoch <= server.epoch
  BY <1>3, <1>5, <1>7
<1> QED
  BY <1>2, <1>6, <1>9, <1>10, BoundsClient

LEMMA BoundsNext == IInv /\ BoundInv /\ [Next]_vars => BoundInv'
<1> SUFFICES ASSUME IInv, BoundInv, [Next]_vars PROVE BoundInv'
  OBVIOUS
<1>1. IInv'
  BY NextKeeps DEF Kept
<1>2. CASE UNCHANGED vars
  BY <1>2 DEF vars, BoundInv, SlotInv, EpochsBehind, RestInv
<1>3. CASE Next
  BY <1>1, <1>3, BoundsLocal, BoundsServerRx, BoundsChangeMap, BoundsService,
     BoundsClientLocal, BoundsClientRx DEF Next
<1> QED
  BY <1>2, <1>3

THEOREM BoundsHold == Spec => []BoundInv
  BY Invariance, BoundsInit, BoundsNext, PTL DEF Spec

\* A sequence whose members lie in a smaller set.
LEMMA SmallerSequence ==
    ASSUME NEW S, NEW T, NEW q \in Seq(S), \A x \in Range(q) : x \in T
    PROVE  q \in Seq(T)
  BY DEF Range

\* TypeOK: the types, and no epoch beyond the number of maps: each map of a
\* connection asks for one CHALLENGE at most, whatever stale "new" and
\* "begin" the server still gets.
THEOREM TypeCorrect == Spec => []TypeOK
<1>1. IInv /\ BoundInv => TypeOK
  <2> SUFFICES ASSUME IInv, BoundInv PROVE TypeOK
    OBVIOUS
  <2>1. MaxMaps \in Nat /\ server.epoch \in Nat /\ server.epoch <= MaxMaps
    <3>1. slot.map \in 1 .. MaxMaps /\ MaxMaps \in Nat /\ server.epoch \in Nat
      BY BoundAssumption, Known DEF BoundInv, SlotInv
    <3> QED
      BY <3>1 DEF BoundInv, SlotInv
  <2>2. ASSUME NEW n \in Nat, n <= server.epoch PROVE n \in Epoch
    BY <2>1, <2>2 DEF Epoch
  <2>3. /\ server.epoch \in Epoch /\ server.floor \in Epoch
        /\ server.transport \in Epoch /\ server.wire \in Epoch
    <3>1. /\ server.floor \in Nat /\ server.wire \in Nat
          /\ server.transport \in Nat
          /\ server.floor <= server.epoch /\ server.wire <= server.epoch
          /\ server.transport <= server.epoch
      BY DEF IInv, Types, Server, ServerInv
    <3> QED
      BY <2>1, <2>2, <3>1
  <2>4. /\ client.epoch \in Epoch /\ client.floor \in Epoch
        /\ client.session \in Epoch
    <3>1. /\ client.floor \in Nat /\ client.session \in Nat
          /\ client.epoch \in Nat /\ client.epoch <= server.epoch
          /\ client.floor <= client.epoch /\ client.session <= client.epoch
      BY DEF IInv, Types, Client, ClientInv, BoundInv, EpochsBehind
    <3>2. client.floor <= server.epoch /\ client.session <= server.epoch
      BY <2>1, <3>1
    <3> QED
      BY <2>2, <3>1, <3>2
  <2>5. /\ \A x \in Range(to_server) : x \in [kind : ToServer, epoch : Epoch]
        /\ \A x \in Range(to_client) : x \in [kind : ToClient, epoch : Epoch]
    <3>1. /\ \A x \in Range(to_server) : x \in ServerItem /\ x.epoch \in Epoch
          /\ \A x \in Range(to_client) : x \in ClientItem /\ x.epoch \in Epoch
      BY <2>2, ItemEpochs DEF BoundInv, EpochsBehind
    <3> QED
      BY <3>1 DEF ServerItem, ClientItem
  <2>6. /\ to_server \in Seq([kind : ToServer, epoch : Epoch])
        /\ to_client \in Seq([kind : ToClient, epoch : Epoch])
    BY <2>5, Known, SmallerSequence
  <2>7. server \in [on : BOOLEAN,
                    life : {"WAIT_READINESS", "ACTIVE", "DRAIN", "DETACHED"},
                    phase : {"NONE", "WAIT_READY", "WAIT_CONFIRM", "ACTIVE"},
                    epoch : Epoch, floor : Epoch, transport : Epoch,
                    wire : Epoch, owes : BOOLEAN, late : BOOLEAN]
    BY <2>3 DEF IInv, Types, Server
  <2>8. client \in [on : BOOLEAN, mode : {"ARMING", "ACTIVE", "DRAIN"},
                    quiesced : BOOLEAN, confirmed : BOOLEAN,
                    phase : {"NONE", "WAIT_ACTIVE", "ACTIVE"},
                    epoch : Epoch, floor : Epoch, session : Epoch,
                    committed : BOOLEAN, owes : BOOLEAN, late : BOOLEAN]
    BY <2>4 DEF IInv, Types, Client
  <2> QED
    BY <2>6, <2>7, <2>8 DEF TypeOK, BoundInv, SlotInv, RestInv
<1> QED
  BY <1>1, Invariance, BoundsHold, PTL

-----------------------------------------------------------------------------
(***************************************************************************)
(* Map changes are harmless.  Without a fault each epoch that is not       *)
(* cancelled has one token: its CHALLENGE, READY, SERVER_ACTIVE or CONFIRM *)
(* is on the way, or both ends are active.  What says so of a record on    *)
(* its way to the client depends on its place among the others.            *)
(***************************************************************************)
NoneBefore(q, i) == \A k \in 1 .. i - 1 : ~IsRecord(q[k])
NoneAfter(q, i) == \A k \in i + 1 .. Len(q) : ~IsRecord(q[k])
NoRecord(q) == \A k \in DOMAIN q : ~IsRecord(q[k])

\* The last record before place i is a SERVERDATA.
AfterData(q, i) ==
    \E j \in 1 .. i - 1 : /\ q[j].kind = "SERVERDATA"
                          /\ \A k \in j + 1 .. i - 1 : ~IsRecord(q[k])

\* Once what is before place i has arrived the client takes a CHALLENGE.
ReadyAt(q, i) ==
    \/ AfterData(q, i)
    \/ NoneBefore(q, i) /\ client.confirmed /\ client.quiesced

\* A record that the server will not ignore.
Live(x) == x.kind \in {"READY", "CONFIRM"} /\ x.epoch > server.floor
Quiet == \A x \in Range(to_server) : ~Live(x)

ChallengeFine(q, i) ==
    q[i].kind = "CHALLENGE" =>
        /\ ReadyAt(q, i)
        /\ client.epoch < q[i].epoch
        /\ \A j \in i + 1 .. Len(q) :
               q[j].kind = "CHALLENGE" => q[i].epoch < q[j].epoch
        /\ q[i].epoch > server.floor =>
               /\ q[i].epoch = server.epoch /\ server.phase = "WAIT_READY"
               /\ NoneAfter(q, i) /\ Quiet

ActiveFine(q, i) ==
    q[i].kind = "SERVER_ACTIVE" =>
        /\ NoneBefore(q, i)
        /\ client.confirmed /\ client.phase = "WAIT_ACTIVE"
        /\ client.mode = "ARMING" /\ client.epoch = q[i].epoch
        /\ q[i].epoch > server.floor =>
               /\ q[i].epoch = server.epoch /\ server.phase = "WAIT_CONFIRM"
               /\ server.transport # 0
               /\ NoneAfter(q, i) /\ Quiet

CarrierFine(q, i) ==
    ~IsRecord(q[i]) /\ q[i].epoch > client.floor =>
        client.mode = "ACTIVE" /\ NoneBefore(q, i)

LiveFine(x) ==
    /\ x.epoch = server.epoch /\ client.epoch = server.epoch
    /\ NoRecord(to_client)
    /\ x.kind = "READY" =>
           /\ server.phase = "WAIT_READY" /\ client.phase = "WAIT_ACTIVE"
           /\ client.mode = "ARMING" /\ client.confirmed
    /\ x.kind = "CONFIRM" =>
           /\ server.phase = "WAIT_CONFIRM" /\ server.transport # 0
           /\ client.mode = "ACTIVE"

EndsFine ==
    /\ dropped = "none" /\ server.on /\ client.on
    /\ ~server.late /\ ~client.late
    /\ client.mode = "DRAIN" => client.quiesced

SlotFine ==
    /\ server.epoch > server.floor => slot.state = "spawned" /\ ~slot.pending
    /\ slot.state = "primed" \/ slot.pending =>
           ReadyAt(to_client, Len(to_client) + 1)

SettledFine ==
    /\ server.wire > server.floor => server.transport = server.wire
    /\ server.phase = "ACTIVE" /\ server.epoch > server.floor =>
           NoRecord(to_client) /\ client.mode = "ACTIVE" /\ Quiet

ToClientFine ==
    \A i \in DOMAIN to_client : /\ ChallengeFine(to_client, i)
                                /\ ActiveFine(to_client, i)
                                /\ CarrierFine(to_client, i)

LiveOnce(q) == \A i, j \in DOMAIN q : Live(q[i]) /\ Live(q[j]) => i = j
ToServerFine ==
    /\ \A x \in Range(to_server) : Live(x) => LiveFine(x)
    /\ LiveOnce(to_server)

HarmlessInv ==
    EndsFine /\ SlotFine /\ SettledFine /\ ToClientFine /\ ToServerFine

\* Carriers are lost or taken, the records keep their order.
Thins(q, p, f) ==
    /\ f \in [1 .. Len(p) + 1 -> 1 .. Len(q) + 1]
    /\ f[Len(p) + 1] = Len(q) + 1
    /\ \A i \in DOMAIN p : f[i] \in DOMAIN q /\ p[i] = q[f[i]]
    /\ \A i, j \in 1 .. Len(p) + 1 : i < j => f[i] < f[j]
    /\ \A k \in DOMAIN q : IsRecord(q[k]) => \E i \in DOMAIN p : f[i] = k

LEMMA SameThins ==
    ASSUME NEW S, NEW q \in Seq(S)
    PROVE  \E f : Thins(q, q, f)
<1> DEFINE f == [i \in 1 .. Len(q) + 1 |-> i]
<1>1. Len(q) \in Nat /\ DOMAIN q = 1 .. Len(q)
  OBVIOUS
<1>2. Thins(q, q, f)
  BY <1>1 DEF Thins
<1> QED
  BY <1>2

LEMMA CarrierThins ==
    ASSUME NEW S, NEW q \in Seq(S), NEW x \in DOMAIN q, ~IsRecord(q[x])
    PROVE  \E f : Thins(q, RemoveAt(q, x), f)
<1> DEFINE p == RemoveAt(q, x)
           f == [i \in 1 .. Len(p) + 1 |-> IF i < x THEN i ELSE i + 1]
<1>1. /\ p \in Seq(S) /\ Len(p) = Len(q) - 1
      /\ \A j \in 1 .. Len(p) : p[j] = IF j < x THEN q[j] ELSE q[j + 1]
  <2> DEFINE a == SubSeq(q, 1, x - 1)
             b == SubSeq(q, x + 1, Len(q))
  <2>1. /\ a \in Seq(S) /\ Len(a) = x - 1
        /\ \A j \in 1 .. x - 1 : a[j] = q[j]
    OBVIOUS
  <2>2. /\ b \in Seq(S) /\ Len(b) = Len(q) - x
        /\ \A j \in 1 .. Len(q) - x : b[j] = q[j + x]
    OBVIOUS
  <2>3. p = a \o b
    BY DEF RemoveAt
  <2> HIDE DEF a, b, p
  <2>4. /\ p \in Seq(S) /\ Len(p) = Len(a) + Len(b)
        /\ \A j \in 1 .. Len(p) :
               p[j] = IF j <= Len(a) THEN a[j] ELSE b[j - Len(a)]
    BY <2>1, <2>2, <2>3, ConcatProperties
  <2>5. Len(p) = Len(q) - 1
    BY <2>1, <2>2, <2>4
  <2>6. ASSUME NEW j \in 1 .. Len(p)
        PROVE  p[j] = IF j < x THEN q[j] ELSE q[j + 1]
    <3>1. CASE j < x
      BY <2>1, <2>4, <3>1
    <3>2. CASE ~(j < x)
      <4>1. /\ ~(j <= x - 1) /\ j - (x - 1) \in 1 .. Len(q) - x
            /\ (j - (x - 1)) + x = j + 1
        BY <2>5, <3>2
      <4> QED
        BY <2>1, <2>2, <2>4, <3>2, <4>1
    <3> QED
      BY <3>1, <3>2
  <2> QED
    BY <2>4, <2>5, <2>6
<1>2. /\ Len(q) \in Nat /\ Len(p) \in Nat /\ x \in 1 .. Len(q)
      /\ DOMAIN q = 1 .. Len(q) /\ DOMAIN p = 1 .. Len(p)
  BY <1>1
<1> HIDE DEF p
<1>3. /\ f \in [1 .. Len(p) + 1 -> 1 .. Len(q) + 1]
      /\ f[Len(p) + 1] = Len(q) + 1
      /\ \A i, j \in 1 .. Len(p) + 1 : i < j => f[i] < f[j]
  BY <1>1, <1>2
<1>4. \A i \in DOMAIN p : f[i] \in DOMAIN q /\ p[i] = q[f[i]]
  BY <1>1, <1>2
<1>5. ASSUME NEW k \in DOMAIN q, k # x PROVE \E i \in DOMAIN p : f[i] = k
  <2>1. CASE k < x
    BY <1>1, <1>2, <2>1
  <2>2. CASE k > x
    <3>1. k - 1 \in DOMAIN p /\ f[k - 1] = k
      BY <1>1, <1>2, <2>2
    <3> QED
      BY <3>1
  <2> QED
    BY <1>2, <1>5, <2>1, <2>2
<1> HIDE DEF f
<1>6. Thins(q, p, f)
  BY <1>3, <1>4, <1>5 DEF Thins
<1> QED
  BY <1>6 DEF p

LEMMA ThinsKeeps ==
    ASSUME NEW S, NEW q \in Seq(S), NEW p \in Seq(S), NEW f, Thins(q, p, f),
           NEW i \in 1 .. Len(p) + 1
    PROVE  /\ NoneBefore(q, f[i]) => NoneBefore(p, i)
           /\ NoneAfter(q, f[i]) => NoneAfter(p, i)
           /\ AfterData(q, f[i]) => AfterData(p, i)
           /\ NoRecord(q) => NoRecord(p)
<1>1. /\ Len(q) \in Nat /\ Len(p) \in Nat
      /\ DOMAIN q = 1 .. Len(q) /\ DOMAIN p = 1 .. Len(p)
      /\ f[i] \in 1 .. Len(q) + 1 /\ i \in Nat
  BY DEF Thins
<1>2. \A j \in 1 .. Len(p) + 1 : f[j] \in Nat /\ (j < i <=> f[j] < f[i])
  BY <1>1 DEF Thins
<1>3. \A j \in DOMAIN p : IsRecord(p[j]) <=> IsRecord(q[f[j]])
  BY DEF Thins
<1>4. ASSUME NoneBefore(q, f[i]), NEW k \in 1 .. i - 1 PROVE ~IsRecord(p[k])
  <2>1. k \in DOMAIN p /\ f[k] \in 1 .. f[i] - 1
    BY <1>1, <1>2 DEF Thins
  <2> QED
    BY <1>3, <1>4, <2>1 DEF NoneBefore
<1>5. ASSUME NoneAfter(q, f[i]), NEW k \in i + 1 .. Len(p) PROVE ~IsRecord(p[k])
  <2>1. k \in DOMAIN p /\ k \in 1 .. Len(p) + 1 /\ i < k
    BY <1>1
  <2>2. f[k] \in DOMAIN q /\ f[i] < f[k]
    BY <2>1 DEF Thins
  <2>3. f[k] \in f[i] + 1 .. Len(q)
    BY <1>1, <2>2
  <2> QED
    BY <1>3, <1>5, <2>1, <2>3 DEF NoneAfter
<1>6. ASSUME AfterData(q, f[i]) PROVE AfterData(p, i)
  <2>1. PICK j \in 1 .. f[i] - 1 :
            /\ q[j].kind = "SERVERDATA"
            /\ \A k \in j + 1 .. f[i] - 1 : ~IsRecord(q[k])
    BY <1>6 DEF AfterData
  <2>2. j \in DOMAIN q /\ IsRecord(q[j])
    BY <1>1, <2>1 DEF IsRecord, Carrier
  <2>3. PICK n \in DOMAIN p : f[n] = j
    BY <2>2 DEF Thins
  <2>4. n \in 1 .. i - 1 /\ p[n].kind = "SERVERDATA"
    <3>1. f[n] < f[i] /\ n \in 1 .. Len(p) + 1
      BY <1>1, <2>3
    <3>2. n < i
      BY <1>2, <3>1
    <3>3. p[n] = q[j]
      BY <2>3 DEF Thins
    <3> QED
      BY <1>1, <2>1, <3>2, <3>3
  <2>5. ASSUME NEW k \in n + 1 .. i - 1 PROVE ~IsRecord(p[k])
    <3>1. /\ k \in DOMAIN p /\ n < k /\ k < i
          /\ k \in 1 .. Len(p) + 1 /\ n \in 1 .. Len(p) + 1
      BY <1>1, <2>4
    <3>2. f[n] < f[k] /\ f[k] < f[i] /\ f[k] \in Nat /\ f[n] \in Nat
      BY <1>2, <3>1 DEF Thins
    <3>3. f[k] \in j + 1 .. f[i] - 1
      BY <1>1, <2>3, <3>2
    <3> QED
      BY <1>3, <2>1, <3>1, <3>3
  <2> QED
    BY <2>4, <2>5 DEF AfterData
<1>7. NoRecord(q) => NoRecord(p)
  BY <1>3 DEF NoRecord, Thins
<1> QED
  BY <1>4, <1>5, <1>6, <1>7 DEF NoneBefore, NoneAfter

\* The first record arrives.
LEMMA RecordArrives ==
    ASSUME NEW S, NEW q \in Seq(S), NEW x \in DOMAIN q, IsRecord(q[x])
    PROVE  LET p == SubSeq(q, x + 1, Len(q))
           IN  /\ p \in Seq(S)
               /\ Len(p) + 1 + x = Len(q) + 1
               /\ Len(p) + 1 \in 1 .. Len(p) + 1
               /\ \A i \in DOMAIN p :
                      /\ i \in 1 .. Len(p) + 1 /\ i + x \in x + 1 .. Len(q)
                      /\ \A j \in i + 1 .. Len(p) :
                             j \in DOMAIN p /\ j + x \in (i + x) + 1 .. Len(q)
               /\ \A i \in DOMAIN p : i + x \in DOMAIN q /\ p[i] = q[i + x]
               /\ NoneAfter(q, x) => NoRecord(p)
               /\ \A i \in 1 .. Len(p) + 1 :
                      /\ ~NoneBefore(q, i + x)
                      /\ NoneAfter(q, i + x) => NoneAfter(p, i)
                      /\ AfterData(q, i + x) /\ NoneBefore(q, x) =>
                             \/ AfterData(p, i)
                             \/ q[x].kind = "SERVERDATA" /\ NoneBefore(p, i)
<1> DEFINE p == SubSeq(q, x + 1, Len(q))
<1>1. /\ p \in Seq(S) /\ Len(p) = Len(q) - x
      /\ \A i \in 1 .. Len(p) : p[i] = q[i + x]
      /\ Len(q) \in Nat /\ x \in 1 .. Len(q)
      /\ DOMAIN q = 1 .. Len(q)
  OBVIOUS
<1> HIDE DEF p
<1>2. /\ Len(p) \in Nat /\ DOMAIN p = 1 .. Len(p)
      /\ Len(p) + 1 + x = Len(q) + 1
  BY <1>1
<1>3. \A i \in DOMAIN p : i + x \in DOMAIN q /\ p[i] = q[i + x]
  <2> SUFFICES ASSUME NEW i \in 1 .. Len(p)
               PROVE  i + x \in 1 .. Len(q) /\ p[i] = q[i + x]
    BY <1>1, <1>2
  <2>1. i + x \in 1 .. Len(q)
    BY <1>1, <1>2
  <2> QED
    BY <1>1, <2>1
<1>4. ASSUME NoneAfter(q, x), NEW i \in DOMAIN p PROVE ~IsRecord(p[i])
  <2>1. i + x \in x + 1 .. Len(q)
    BY <1>1, <1>2
  <2> QED
    BY <1>3, <1>4, <2>1 DEF NoneAfter
<1>5. ASSUME NEW i \in 1 .. Len(p) + 1 PROVE ~NoneBefore(q, i + x)
  <2>1. x \in 1 .. (i + x) - 1
    BY <1>1, <1>2
  <2> QED
    BY <2>1 DEF NoneBefore
<1>6. ASSUME NEW i \in 1 .. Len(p) + 1, NoneAfter(q, i + x)
      PROVE  NoneAfter(p, i)
  <2>1. ASSUME NEW k \in i + 1 .. Len(p) PROVE ~IsRecord(p[k])
    <3>1. k \in DOMAIN p /\ k + x \in (i + x) + 1 .. Len(q)
      BY <1>1, <1>2
    <3> QED
      BY <1>3, <1>6, <3>1 DEF NoneAfter
  <2> QED
    BY <2>1 DEF NoneAfter
<1>7. ASSUME NEW i \in 1 .. Len(p) + 1, AfterData(q, i + x), NoneBefore(q, x)
      PROVE  \/ AfterData(p, i)
             \/ q[x].kind = "SERVERDATA" /\ NoneBefore(p, i)
  <2>1. PICK j \in 1 .. (i + x) - 1 :
            /\ q[j].kind = "SERVERDATA"
            /\ \A k \in j + 1 .. (i + x) - 1 : ~IsRecord(q[k])
    BY <1>7 DEF AfterData
  <2>2. IsRecord(q[j])
    BY <2>1 DEF IsRecord, Carrier
  <2>3. j >= x
    <3>1. j \notin 1 .. x - 1
      BY <1>7, <2>2 DEF NoneBefore
    <3> QED
      BY <1>1, <1>2, <3>1
  <2>4. CASE j = x
    <3>1. ASSUME NEW k \in 1 .. i - 1 PROVE ~IsRecord(p[k])
      <4>1. /\ i \in Nat /\ i <= Len(p) + 1 /\ x \in Nat /\ k \in Nat
            /\ 1 <= k /\ k <= i - 1 /\ Len(p) \in Nat /\ j = x
        BY <1>1, <1>2, <2>4
      <4>2. k \in 1 .. Len(p) /\ k + x \in j + 1 .. (i + x) - 1
        BY <4>1
      <4>3. k \in DOMAIN p
        BY <1>2, <4>2
      <4> QED
        BY <1>3, <2>1, <4>2, <4>3
    <3> QED
      BY <2>1, <2>4, <3>1 DEF NoneBefore
  <2>5. CASE j > x
    <3>1. /\ j - x \in 1 .. i - 1 /\ j - x \in DOMAIN p
          /\ (j - x) + x = j
      BY <1>1, <1>2, <2>5
    <3>2. p[j - x].kind = "SERVERDATA"
      BY <1>3, <2>1, <3>1
    <3>3. ASSUME NEW k \in (j - x) + 1 .. i - 1 PROVE ~IsRecord(p[k])
      <4>1. /\ i \in Nat /\ i <= Len(p) + 1 /\ x \in Nat /\ k \in Int
            /\ j - x + 1 <= k /\ k <= i - 1 /\ Len(p) \in Nat /\ j \in Int
            /\ 1 <= j - x
        BY <1>1, <1>2, <3>1
      <4>2. k \in 1 .. Len(p) /\ k + x \in j + 1 .. (i + x) - 1
        BY <4>1
      <4>3. k \in DOMAIN p
        BY <1>2, <4>2
      <4> QED
        BY <1>3, <2>1, <4>2, <4>3
    <3> QED
      BY <3>1, <3>2, <3>3 DEF AfterData
  <2> QED
    BY <1>1, <1>2, <2>3, <2>4, <2>5
<1>8. ASSUME NEW i \in DOMAIN p
      PROVE  /\ i \in 1 .. Len(p) + 1 /\ i + x \in x + 1 .. Len(q)
             /\ \A j \in i + 1 .. Len(p) :
                    j \in DOMAIN p /\ j + x \in (i + x) + 1 .. Len(q)
  <2>1. /\ i \in Nat /\ 1 <= i /\ i <= Len(p) /\ x \in Nat
        /\ Len(p) \in Nat /\ Len(q) \in Nat /\ Len(p) = Len(q) - x
    BY <1>1, <1>2
  <2>2. /\ i \in 1 .. Len(p) + 1 /\ i + x \in x + 1 .. Len(q)
        /\ \A j \in i + 1 .. Len(p) :
               j \in 1 .. Len(p) /\ j + x \in (i + x) + 1 .. Len(q)
    BY <2>1
  <2> QED
    BY <1>2, <2>2
<1>9. Len(p) + 1 \in 1 .. Len(p) + 1
  BY <1>2
<1> QED
  BY <1>1, <1>2, <1>3, <1>4, <1>5, <1>6, <1>7, <1>8, <1>9 DEF NoRecord, p

\* Something more is sent.
LEMMA ItemSent ==
    ASSUME NEW S, NEW q \in Seq(S), NEW x \in S
    PROVE  LET p == Append(q, x)
               n == Len(q) + 1
           IN  /\ p \in Seq(S) /\ Len(p) = n /\ p[n] = x
               /\ n \in DOMAIN p /\ n \in Nat
               /\ \A i \in DOMAIN q : i \in DOMAIN p /\ p[i] = q[i] /\ i < n
               /\ \A i \in DOMAIN p : i \in DOMAIN q \/ i = n
               /\ NoneAfter(p, n)
               /\ NoRecord(q) => NoneBefore(p, n)
               /\ NoRecord(q) /\ ~IsRecord(x) => NoRecord(p)
               /\ x.kind = "SERVERDATA" => AfterData(p, n + 1)
               /\ \A i \in 1 .. n :
                      /\ NoneBefore(q, i) => NoneBefore(p, i)
                      /\ AfterData(q, i) => AfterData(p, i)
                      /\ NoneAfter(q, i) /\ ~IsRecord(x) => NoneAfter(p, i)
<1> DEFINE p == Append(q, x)
           n == Len(q) + 1
<1>1. /\ p \in Seq(S) /\ Len(p) = n /\ p[n] = x /\ n \in Nat \ {0}
      /\ DOMAIN p = 1 .. n /\ DOMAIN q = 1 .. n - 1 /\ Len(q) = n - 1
      /\ \A i \in 1 .. n - 1 : p[i] = q[i]
  OBVIOUS
<1> HIDE DEF p, n
<1>2. /\ n \in DOMAIN p
      /\ \A i \in DOMAIN q : i \in DOMAIN p /\ p[i] = q[i] /\ i < n
      /\ \A i \in DOMAIN p : i \in DOMAIN q \/ i = n
  BY <1>1
<1>3. NoneAfter(p, n) /\ (NoRecord(q) => NoneBefore(p, n))
  BY <1>1, <1>2 DEF NoneAfter, NoneBefore, NoRecord
<1>4. NoRecord(q) /\ ~IsRecord(x) => NoRecord(p)
  BY <1>1, <1>2 DEF NoRecord
<1>5. ASSUME x.kind = "SERVERDATA" PROVE AfterData(p, n + 1)
  <2>1. n \in 1 .. (n + 1) - 1 /\ n + 1 .. (n + 1) - 1 = {}
    BY <1>1
  <2> QED
    BY <1>1, <1>5, <2>1 DEF AfterData
<1>6. ASSUME NEW i \in 1 .. n
      PROVE  /\ NoneBefore(q, i) => NoneBefore(p, i)
             /\ AfterData(q, i) => AfterData(p, i)
             /\ NoneAfter(q, i) /\ ~IsRecord(x) => NoneAfter(p, i)
  <2>1. \A k \in 1 .. i - 1 : p[k] = q[k]
    BY <1>1
  <2>2. NoneBefore(q, i) => NoneBefore(p, i)
    BY <2>1 DEF NoneBefore
  <2>3. ASSUME AfterData(q, i) PROVE AfterData(p, i)
    <3>1. PICK j \in 1 .. i - 1 :
              /\ q[j].kind = "SERVERDATA"
              /\ \A k \in j + 1 .. i - 1 : ~IsRecord(q[k])
      BY <2>3 DEF AfterData
    <3>2. \A k \in j + 1 .. i - 1 : k \in 1 .. i - 1
      BY <1>1
    <3> QED
      BY <2>1, <3>1, <3>2 DEF AfterData
  <2>4. ASSUME NoneAfter(q, i), ~IsRecord(x), NEW k \in i + 1 .. Len(p)
        PROVE  ~IsRecord(p[k])
    <3>1. CASE k = n
      BY <1>1, <2>4, <3>1
    <3>2. CASE k # n
      <4>1. k \in i + 1 .. Len(q) /\ k \in 1 .. n - 1
        BY <1>1, <3>2
      <4> QED
        BY <1>1, <2>4, <4>1 DEF NoneAfter
    <3> QED
      BY <3>1, <3>2
  <2> QED
    BY <2>2, <2>3, <2>4 DEF NoneAfter
<1> QED
  BY <1>1, <1>2, <1>3, <1>4, <1>5, <1>6 DEF p, n

LEMMA HarmlessFacts ==
    ASSUME IInv, HarmlessInv
    PROVE  /\ ServerPacketBegin(server) = server
           /\ ClientPacketBegin(client) = client
           /\ ~Expired(server) /\ ~Expired(client)
           /\ server.life \in {"WAIT_READINESS", "ACTIVE"}
           /\ \A x \in Range(to_client) : x.kind # "LEGACY"
           /\ server.epoch \in Nat /\ server.floor \in Nat
           /\ server.wire \in Nat /\ server.transport \in Nat
           /\ client.epoch \in Nat /\ client.floor \in Nat
           /\ server.floor <= server.epoch /\ server.wire <= server.epoch
           /\ client.floor <= client.epoch
           /\ server \in Server /\ client \in Client
           /\ to_server \in Seq(ServerItem) /\ to_client \in Seq(ClientItem)
<1>1. /\ ~Expired(server) /\ ~Expired(client)
      /\ server.on /\ client.on
  BY DEF HarmlessInv, EndsFine, Expired
<1>2. /\ server.life \in {"WAIT_READINESS", "ACTIVE"}
      /\ \A x \in Range(to_client) : x.kind # "LEGACY"
  BY <1>1 DEF IInv, ServerInv, OffInv
<1> QED
  BY <1>1, <1>2
     DEF ServerPacketBegin, ClientPacketBegin, IInv, Types, ServerInv,
         ClientInv, Server, Client

\* What the invariant reads of the two ends.
ServerStands ==
    /\ server'.on = server.on /\ server'.late = server.late
    /\ server'.phase = server.phase /\ server'.epoch = server.epoch
    /\ server'.floor = server.floor /\ server'.transport = server.transport
    /\ server'.wire = server.wire
ClientStands ==
    /\ client'.on = client.on /\ client'.late = client.late
    /\ client'.mode = client.mode /\ client'.quiesced = client.quiesced
    /\ client'.confirmed = client.confirmed /\ client'.phase = client.phase
    /\ client'.epoch = client.epoch /\ client'.floor = client.floor

\* No live record is new, and none is there twice.
NoNewLive ==
    /\ \A x \in Range(to_server') : Live(x)' => Live(x) /\ x \in Range(to_server)
    /\ LiveOnce(to_server)'

\* Carriers are lost, taken or ignored, and so are records that are not live.
LEMMA QuietStep ==
    ASSUME IInv, IInv', HarmlessInv, dropped' = "none",
           ServerStands, ClientStands, NoNewLive,
           NEW f, Thins(to_client, to_client', f),
           slot'.state = "primed" \/ slot'.pending =>
               slot.state = "primed" \/ slot.pending,
           server.epoch > server.floor =>
               slot'.state = "spawned" /\ ~slot'.pending
    PROVE  HarmlessInv'
<1> DEFINE q == to_client
           p == to_client'
<1>1. /\ q \in Seq(ClientItem) /\ p \in Seq(ClientItem)
      /\ DOMAIN p = 1 .. Len(p) /\ Len(p) \in Nat
      /\ f[Len(p) + 1] = Len(q) + 1
      /\ \A i \in DOMAIN p : /\ f[i] \in DOMAIN q /\ p[i] = q[f[i]]
                             /\ i \in 1 .. Len(p) + 1
  BY Known DEF IInv, Types, Thins
<1>2. \A i \in 1 .. Len(p) + 1 :
          /\ NoneBefore(q, f[i]) => NoneBefore(p, i)
          /\ NoneAfter(q, f[i]) => NoneAfter(p, i)
          /\ AfterData(q, f[i]) => AfterData(p, i)
  BY <1>1, ThinsKeeps
<1>3. NoRecord(q) => NoRecord(p)
  <2>1. 1 \in 1 .. Len(p) + 1
    BY <1>1
  <2> QED
    BY <1>1, <2>1, ThinsKeeps
<1>4. Quiet => Quiet'
  BY DEF Quiet, NoNewLive
<1>5. \A i \in 1 .. Len(p) + 1 : ReadyAt(q, f[i]) => ReadyAt(to_client, i)'
  BY <1>2 DEF ReadyAt, ClientStands
<1>6. EndsFine'
  BY DEF HarmlessInv, EndsFine, ServerStands, ClientStands
<1>7. SlotFine'
  <2>1. Len(p) + 1 \in 1 .. Len(p) + 1
    BY <1>1
  <2>2. slot.state = "primed" \/ slot.pending => ReadyAt(to_client, Len(to_client) + 1)'
    BY <1>1, <1>5, <2>1 DEF HarmlessInv, SlotFine
  <2> QED
    BY <2>2 DEF SlotFine, ServerStands, ReadyAt
<1>8. SettledFine'
  BY <1>3, <1>4 DEF HarmlessInv, SettledFine, ServerStands, ClientStands
<1>9. ASSUME NEW i \in DOMAIN p
      PROVE  /\ ChallengeFine(to_client, i)' /\ ActiveFine(to_client, i)'
             /\ CarrierFine(to_client, i)'
  <2>1. /\ ChallengeFine(q, f[i]) /\ ActiveFine(q, f[i])
        /\ CarrierFine(q, f[i])
    BY <1>1 DEF HarmlessInv, ToClientFine
  <2>2. ASSUME NEW j \in i + 1 .. Len(p), p[j].kind = "CHALLENGE"
        PROVE  f[j] \in f[i] + 1 .. Len(q) /\ q[f[j]].kind = "CHALLENGE"
               /\ p[j] = q[f[j]]
    <3>1. j \in DOMAIN p /\ i < j /\ i \in 1 .. Len(p) + 1
          /\ j \in 1 .. Len(p) + 1
      BY <1>1
    <3>2. f[j] \in DOMAIN q /\ p[j] = q[f[j]] /\ f[i] < f[j]
          /\ f[i] \in DOMAIN q
      BY <1>1, <3>1 DEF Thins
    <3> QED
      BY <1>1, <2>2, <3>2
  <2>3. p[i] = q[f[i]] /\ i \in 1 .. Len(p) + 1
    BY <1>1
  <2>4. ChallengeFine(to_client, i)'
    <3> SUFFICES ASSUME q[f[i]].kind = "CHALLENGE", p[i].kind = "CHALLENGE"
                 PROVE  ChallengeFine(to_client, i)'
      BY <2>3 DEF ChallengeFine
    <3>1. /\ ReadyAt(to_client, i)' /\ client'.epoch < p[i].epoch
          /\ p[i].epoch > server'.floor =>
                 /\ p[i].epoch = server'.epoch /\ server'.phase = "WAIT_READY"
                 /\ NoneAfter(p, i) /\ Quiet'
      BY <1>2, <1>4, <1>5, <2>1, <2>3
         DEF ChallengeFine, ServerStands, ClientStands
    <3>2. \A j \in i + 1 .. Len(p) :
              p[j].kind = "CHALLENGE" => p[i].epoch < p[j].epoch
      BY <2>1, <2>2, <2>3 DEF ChallengeFine
    <3> QED
      BY <3>1, <3>2 DEF ChallengeFine
  <2>5. ActiveFine(to_client, i)'
    BY <1>2, <1>4, <2>1, <2>3 DEF ActiveFine, ServerStands, ClientStands
  <2>6. CarrierFine(to_client, i)'
    BY <1>2, <2>1, <2>3 DEF CarrierFine, ClientStands
  <2> QED
    BY <2>4, <2>5, <2>6
<1>10. ToServerFine'
  <2>1. ASSUME NEW x \in Range(to_server'), Live(x)' PROVE LiveFine(x)'
    <3>1. LiveFine(x)
      BY <2>1 DEF NoNewLive, HarmlessInv, ToServerFine
    <3> QED
      BY <1>3, <3>1 DEF LiveFine, ServerStands, ClientStands
  <2> QED
    BY <2>1 DEF ToServerFine, NoNewLive
<1> QED
  BY <1>6, <1>7, <1>8, <1>9, <1>10 DEF HarmlessInv, ToClientFine

\* What has arrived or is lost is one item less on the way.
LEMMA RemovedOnce ==
    ASSUME NEW q \in Seq(ServerItem), NEW x \in DOMAIN q, ~IsRecord(q[x]),
           LiveOnce(q)
    PROVE  /\ \A y \in Range(RemoveAt(q, x)) : y \in Range(q)
           /\ LiveOnce(RemoveAt(q, x))
<1> DEFINE p == RemoveAt(q, x)
<1>1. PICK f : Thins(q, p, f)
  BY CarrierThins
<1>2. p \in Seq(ServerItem) /\ Range(p) \subseteq Range(q)
  BY RemovalThins
<1>3. Len(p) \in Nat /\ DOMAIN p = 1 .. Len(p)
  BY <1>2
<1> HIDE DEF p
<1>4. ASSUME NEW i \in DOMAIN p, NEW j \in DOMAIN p, Live(p[i]), Live(p[j])
      PROVE  i = j
  <2>1. f[i] \in DOMAIN q /\ f[j] \in DOMAIN q /\ Live(q[f[i]]) /\ Live(q[f[j]])
    BY <1>1, <1>4 DEF Thins
  <2>2. f[i] = f[j]
    BY <2>1 DEF LiveOnce
  <2>3. f[i] \in Nat
    BY <2>1
  <2>4. ~(i < j) /\ ~(j < i)
    <3>1. i \in 1 .. Len(p) + 1 /\ j \in 1 .. Len(p) + 1
      BY <1>3
    <3>2. ~(f[i] < f[j]) /\ ~(f[j] < f[i])
      BY <2>2, <2>3
    <3> QED
      BY <1>1, <3>1, <3>2 DEF Thins
  <2> QED
    BY <1>3, <2>4
<1> QED
  BY <1>2, <1>4 DEF LiveOnce, p

LEMMA TakenOnce ==
    ASSUME NEW q \in Seq(ServerItem), NEW x \in DOMAIN q, LiveOnce(q)
    PROVE  LET p == SubSeq(q, x + 1, Len(q))
           IN  /\ \A y \in Range(p) : y \in Range(q)
               /\ LiveOnce(p)
               /\ Live(q[x]) => \A y \in Range(p) : ~Live(y)
<1> DEFINE p == SubSeq(q, x + 1, Len(q))
<1>1. /\ p \in Seq(ServerItem) /\ Len(p) = Len(q) - x
      /\ \A i \in 1 .. Len(p) : p[i] = q[i + x]
      /\ Len(q) \in Nat /\ x \in 1 .. Len(q)
      /\ DOMAIN q = 1 .. Len(q)
  OBVIOUS
<1> HIDE DEF p
<1>2. /\ Len(p) \in Nat /\ DOMAIN p = 1 .. Len(p)
  BY <1>1
<1>3. ASSUME NEW i \in DOMAIN p
      PROVE  i + x \in DOMAIN q /\ p[i] = q[i + x] /\ i + x # x
  <2>1. i + x \in 1 .. Len(q) /\ i + x # x
    BY <1>1, <1>2
  <2> QED
    BY <1>1, <1>2, <2>1
<1>4. ASSUME NEW i \in DOMAIN p, NEW j \in DOMAIN p, Live(p[i]), Live(p[j])
      PROVE  i = j
  <2>1. i + x = j + x
    BY <1>3, <1>4 DEF LiveOnce
  <2> QED
    BY <1>1, <1>2, <2>1
<1>5. ASSUME Live(q[x]), NEW i \in DOMAIN p PROVE ~Live(p[i])
  BY <1>3, <1>5 DEF LiveOnce
<1>6. \A y \in Range(p) : y \in Range(q)
  BY <1>3 DEF Range
<1> QED
  BY <1>4, <1>5, <1>6 DEF LiveOnce, Range, p

LEMMA SentOnce ==
    ASSUME NEW q \in Seq(ServerItem), NEW x \in ServerItem, LiveOnce(q),
           ~Live(x) \/ \A y \in Range(q) : ~Live(y)
    PROVE  LiveOnce(Append(q, x))
<1> DEFINE p == Append(q, x)
           n == Len(q) + 1
<1>1. /\ p[n] = x
      /\ \A i \in DOMAIN q : p[i] = q[i]
      /\ \A i \in DOMAIN p : i \in DOMAIN q \/ i = n
  BY ItemSent
<1> HIDE DEF p, n
<1>2. ASSUME NEW i \in DOMAIN p, NEW j \in DOMAIN p, Live(p[i]), Live(p[j])
      PROVE  i = j
  BY <1>1, <1>2 DEF LiveOnce, Range
<1> QED
  BY <1>2 DEF LiveOnce, p

\* `Live' is about the server's floor alone.
LEMMA SameLive ==
    ASSUME server'.floor = server.floor
    PROVE  \A x : Live(x)' <=> x.kind \in {"READY", "CONFIRM"}
                               /\ x.epoch > server.floor
  BY DEF Live

LEMMA LiveKept ==
    ASSUME HarmlessInv, IInv, server'.floor = server.floor,
           \/ to_server' = to_server
           \/ \E i \in DOMAIN to_server :
                 /\ ~IsRecord(to_server[i])
                 /\ to_server' = RemoveAt(to_server, i)
           \/ \E i \in DOMAIN to_server :
                 to_server' = SubSeq(to_server, i + 1, Len(to_server))
           \/ \E x \in ServerItem :
                 /\ x.kind \notin {"READY", "CONFIRM"}
                 /\ to_server' = Append(to_server, x)
    PROVE  NoNewLive
<1>1. LiveOnce(to_server) /\ to_server \in Seq(ServerItem)
  BY Known DEF HarmlessInv, ToServerFine
<1>2. \A x : Live(x)' <=> Live(x)
  BY SameLive DEF Live
<1>3. ASSUME NEW p, LiveOnce(p), to_server' = p PROVE LiveOnce(to_server)'
  BY <1>2, <1>3 DEF LiveOnce
<1>4. CASE to_server' = to_server
  BY <1>1, <1>2, <1>3, <1>4 DEF NoNewLive
<1>5. ASSUME NEW i \in DOMAIN to_server, ~IsRecord(to_server[i]),
             to_server' = RemoveAt(to_server, i)
      PROVE  NoNewLive
  BY <1>1, <1>2, <1>3, <1>5, RemovedOnce DEF NoNewLive
<1>6. ASSUME NEW i \in DOMAIN to_server,
             to_server' = SubSeq(to_server, i + 1, Len(to_server))
      PROVE  NoNewLive
  BY <1>1, <1>2, <1>3, <1>6, TakenOnce DEF NoNewLive
<1>7. ASSUME NEW x \in ServerItem, x.kind \notin {"READY", "CONFIRM"},
             to_server' = Append(to_server, x)
      PROVE  NoNewLive
  <2>1. ~Live(x)
    BY <1>7 DEF Live
  <2>2. LiveOnce(Append(to_server, x))
    BY <1>1, <2>1, SentOnce
  <2>3. Range(to_server') = Range(to_server) \cup {x}
    BY <1>1, <1>7, AppendAdds
  <2> QED
    BY <1>2, <1>3, <1>7, <2>1, <2>2, <2>3 DEF NoNewLive
<1> QED
  BY <1>4, <1>5, <1>6, <1>7

\* The fields that a receipt owed does not touch.
LEMMA OwesAside ==
    ASSUME NEW s \in Server, NEW c \in Client, NEW b \in BOOLEAN
    PROVE  /\ server = s /\ server' \in {s, [s EXCEPT !.owes = b]} => ServerStands
           /\ client = c /\ client' \in {c, [c EXCEPT !.owes = b]} => ClientStands
  BY DEF ServerStands, ClientStands, Server, Client

LEMMA HarmlessLoss ==
    ASSUME IInv, IInv', HarmlessInv, LoseCarrier
    PROVE  HarmlessInv'
<1>1. /\ ServerStands /\ ClientStands /\ dropped' = "none" /\ slot' = slot
      /\ server'.floor = server.floor
  BY DEF LoseCarrier, HarmlessInv, EndsFine, ServerStands, ClientStands
<1>2. /\ to_server \in Seq(ServerItem) /\ to_client \in Seq(ClientItem)
  BY Known
<1>3. NoNewLive
  BY <1>1, LiveKept DEF LoseCarrier
<1>4. \E f : Thins(to_client, to_client', f)
  <2>1. \/ to_client' = to_client
        \/ \E i \in DOMAIN to_client :
              /\ ~IsRecord(to_client[i])
              /\ to_client' = RemoveAt(to_client, i)
    BY DEF LoseCarrier
  <2> QED
    BY <1>2, <2>1, SameThins, CarrierThins
<1> QED
  BY <1>1, <1>3, <1>4, QuietStep DEF HarmlessInv, SlotFine

\* What is no carrier to the server takes nothing from what it sends.
LEMMA HarmlessServerRxCarrier ==
    ASSUME IInv, IInv', HarmlessInv, ServerRxCarrier
    PROVE  HarmlessInv'
<1>1. PICK i \in DOMAIN to_server :
          /\ ~IsRecord(to_server[i])
          /\ to_server' = WithoutArrived(to_server, i)
          /\ IF ServerRejects(server, to_server[i].epoch)
             THEN /\ server' = Drained(server)
                  /\ dropped' = "server"
             ELSE /\ server' = ServerPacketBegin(
                                   ServerTakes(server, to_server[i]))
                  /\ dropped' = IF server.life = "DETACHED" THEN "server"
                                                            ELSE dropped
          /\ UNCHANGED <<slot, client, loading, to_client, faults>>
  BY DEF ServerRxCarrier
<1> DEFINE x == to_server[i]
<1>2. /\ to_server' = RemoveAt(to_server, i)
      /\ x \in Range(to_server) /\ x.epoch \in Nat /\ x.kind \in Carrier
  BY <1>1, Known, ItemEpochs DEF WithoutArrived, Range, IsRecord
<1>3. x.epoch > server.floor =>
          server.wire = x.epoch /\ server.transport = x.epoch
  <2>1. server.floor >= x.epoch \/ server.wire = x.epoch
    BY <1>2 DEF IInv, ServerKnows, KnownToServer
  <2> QED
    BY <1>2, <2>1, HarmlessFacts DEF HarmlessInv, SettledFine
<1>4. ~ServerRejects(server, x.epoch)
  BY <1>3, HarmlessFacts DEF ServerRejects
<1>5. ServerTakes(server, x) \in {server, [server EXCEPT !.owes = TRUE]}
  <2>1. x.epoch <= server.floor \/ x.epoch > server.floor
    BY <1>2, HarmlessFacts
  <2> QED
    BY <1>3, <2>1 DEF ServerTakes
<1>6. ASSUME NEW s \in {server, [server EXCEPT !.owes = TRUE]}
      PROVE  ServerPacketBegin(s) = s
  <2>1. s.late = server.late
    BY HarmlessFacts DEF Server
  <2> QED
    BY <2>1 DEF HarmlessInv, EndsFine, ServerPacketBegin, Expired
<1>7. /\ server' \in {server, [server EXCEPT !.owes = TRUE]}
      /\ dropped' = "none" /\ slot' = slot /\ client' = client
      /\ to_client' = to_client
  <2>1. server.life # "DETACHED"
    BY DEF HarmlessInv, EndsFine, IInv, ServerInv
  <2> QED
    BY <1>1, <1>4, <1>5, <1>6, <2>1 DEF HarmlessInv, EndsFine
<1>8. ServerStands /\ ClientStands /\ server'.floor = server.floor
  BY <1>7, HarmlessFacts, OwesAside DEF ServerStands, ClientStands
<1>9. NoNewLive
  BY <1>1, <1>2, <1>8, LiveKept
<1>10. \E f : Thins(to_client, to_client', f)
  BY <1>7, Known, SameThins
<1> QED
  BY <1>7, <1>8, <1>9, <1>10, QuietStep DEF HarmlessInv, SlotFine

LEMMA HarmlessClientRxCarrier ==
    ASSUME IInv, IInv', HarmlessInv, ClientRxCarrier
    PROVE  HarmlessInv'
<1>1. PICK i \in DOMAIN to_client :
          /\ ~IsRecord(to_client[i])
          /\ to_client' = WithoutArrived(to_client, i)
          /\ IF /\ client.on /\ to_client[i].epoch > client.floor
                /\ ~ClientAccepts(client, to_client[i])
             THEN client' = Draining(client) /\ dropped' = "client"
             ELSE /\ client' = ClientPacketBegin(
                        IF client.on /\ to_client[i].epoch > client.floor
                        THEN [client EXCEPT !.owes =
                                  @ \/ to_client[i].kind = "DATA"]
                        ELSE client)
                  /\ dropped' = IF client.on THEN dropped ELSE "client"
          /\ UNCHANGED <<server, slot, loading, to_server, faults>>
  BY DEF ClientRxCarrier
<1> DEFINE x == to_client[i]
           owing == [client EXCEPT !.owes = client.owes \/ x.kind = "DATA"]
<1>2. /\ to_client' = RemoveAt(to_client, i)
      /\ x \in Range(to_client) /\ x.epoch \in Nat /\ x.kind \in Carrier
  BY <1>1, Known, ItemEpochs DEF WithoutArrived, Range, IsRecord
<1>3. x.epoch > client.floor => ClientAccepts(client, x)
  <2>1. client.floor >= x.epoch \/ client.session = x.epoch
    BY <1>2 DEF IInv, ClientKnows, KnownToClient, HarmlessInv, EndsFine
  <2>2. x.epoch > client.floor => client.mode = "ACTIVE"
    BY <1>1 DEF HarmlessInv, ToClientFine, CarrierFine
  <2> QED
    BY <1>2, <2>1, <2>2, HarmlessFacts DEF ClientAccepts
<1>4. PICK b \in BOOLEAN : owing = [client EXCEPT !.owes = b]
  <2>1. client.owes \in BOOLEAN
    BY HarmlessFacts DEF Client
  <2>2. (client.owes \/ x.kind = "DATA") \in BOOLEAN
    OBVIOUS
  <2> QED
    BY <2>2
<1>5. ASSUME NEW c \in {client, [client EXCEPT !.owes = b]}
      PROVE  ClientPacketBegin(c) = c
  <2>1. c.late = client.late
    BY HarmlessFacts DEF Client
  <2> QED
    BY <2>1 DEF HarmlessInv, EndsFine, ClientPacketBegin, Expired
<1>6. /\ client' \in {client, [client EXCEPT !.owes = b]}
      /\ dropped' = "none" /\ slot' = slot /\ server' = server
      /\ to_server' = to_server
  <2>1. dropped = "none" /\ client.on
    BY DEF HarmlessInv, EndsFine
  <2>2. /\ dropped' = "none"
        /\ \/ client' = ClientPacketBegin(owing)
           \/ client' = ClientPacketBegin(client)
    BY <1>1, <1>3, <2>1
  <2> QED
    BY <1>1, <1>4, <1>5, <2>2
<1>7. ServerStands /\ ClientStands /\ server'.floor = server.floor
  BY <1>6, HarmlessFacts, OwesAside DEF ServerStands, ClientStands
<1>8. NoNewLive
  BY <1>6, <1>7, LiveKept
<1>9. \E f : Thins(to_client, to_client', f)
  BY <1>1, <1>2, Known, CarrierThins
<1> QED
  BY <1>6, <1>7, <1>8, <1>9, QuietStep DEF HarmlessInv, SlotFine

LEMMA HarmlessClientSends ==
    ASSUME IInv, IInv', HarmlessInv, ClientBegins \/ ClientSendsCarrier
    PROVE  HarmlessInv'
<1>1. /\ server' = server /\ slot' = slot /\ to_client' = to_client
      /\ dropped' = "none"
      /\ client' \in {client, [client EXCEPT !.owes = FALSE]}
  BY DEF ClientBegins, ClientSendsCarrier
<1>2. PICK x \in ServerItem : /\ x.kind \notin {"READY", "CONFIRM"}
                              /\ to_server' = Append(to_server, x)
  <2>1. CASE ClientBegins
    BY <2>1 DEF ClientBegins, Item, ServerItem, ToServer
  <2>2. CASE ClientSendsCarrier
    <3>1. PICK kind \in Carrier :
              to_server' = Append(to_server, Item(kind, client.session))
      BY <2>2 DEF ClientSendsCarrier
    <3>2. /\ Item(kind, client.session) \in ServerItem
          /\ Item(kind, client.session).kind \notin {"READY", "CONFIRM"}
      BY Known DEF Item, ServerItem, ToServer, Carrier
    <3> QED
      BY <3>1, <3>2
  <2> QED
    BY <2>1, <2>2
<1>3. ServerStands /\ ClientStands /\ server'.floor = server.floor
  BY <1>1, HarmlessFacts, OwesAside DEF ServerStands, ClientStands
<1>4. NoNewLive
  BY <1>2, <1>3, LiveKept
<1>5. \E f : Thins(to_client, to_client', f)
  BY <1>1, Known, SameThins
<1> QED
  BY <1>1, <1>3, <1>4, <1>5, QuietStep DEF HarmlessInv, SlotFine

\* Between two maps no epoch is live: the server announces the next one.
LEMMA NothingLive ==
    ASSUME IInv, IInv', BoundInv, BoundInv', HarmlessInv,
           server'.on, ~server'.late, client' = client, dropped' = "none",
           server'.epoch <= server'.floor,
           NEW x \in ClientItem, x.kind \in {"CHANGING", "SERVERDATA"},
           to_client' = Append(to_client, x),
           slot'.state = "primed" \/ slot'.pending => x.kind = "SERVERDATA"
    PROVE  HarmlessInv'
<1> DEFINE q == to_client
           p == to_client'
           n == Len(q) + 1
<1>1. /\ Len(p) = n /\ p[n] = x /\ q \in Seq(ClientItem)
      /\ \A i \in DOMAIN q : p[i] = q[i] /\ i \in 1 .. n
      /\ \A i \in DOMAIN p : i \in DOMAIN q \/ i = n
      /\ x.kind = "SERVERDATA" => AfterData(p, n + 1)
      /\ \A i \in 1 .. n : /\ NoneBefore(q, i) => NoneBefore(p, i)
                           /\ AfterData(q, i) => AfterData(p, i)
  BY Known, ItemSent
<1>2. /\ \A i \in DOMAIN p : p[i].epoch <= server'.floor /\ p[i].epoch \in Nat
      /\ server'.floor \in Nat /\ server'.wire <= server'.floor
      /\ \A y \in Range(to_server') : ~Live(y)'
  <2>1. /\ \A y \in Range(p) : y.epoch <= server'.epoch /\ y.epoch \in Nat
        /\ \A y \in Range(to_server') : y.epoch <= server'.epoch /\ y.epoch \in Nat
        /\ server'.floor \in Nat /\ server'.epoch \in Nat
        /\ server'.wire \in Nat /\ server'.wire <= server'.epoch
    <3>1. /\ \A y \in Range(p) : y \in ClientItem
          /\ \A y \in Range(to_server') : y \in ServerItem
      BY DEF IInv, Types, Range
    <3>2. /\ \A y \in Range(p) : y.epoch <= server'.epoch
          /\ \A y \in Range(to_server') : y.epoch <= server'.epoch
      BY DEF BoundInv, EpochsBehind
    <3>3. /\ server'.floor \in Nat /\ server'.epoch \in Nat
          /\ server'.wire \in Nat /\ server'.wire <= server'.epoch
      BY DEF IInv, Types, Server, ServerInv
    <3> QED
      BY <3>1, <3>2, <3>3 DEF ClientItem, ServerItem
  <2>2. \A e \in Nat : e <= server'.epoch => e <= server'.floor
                                             /\ ~(e > server'.floor)
    BY <2>1
  <2> QED
    BY <2>1, <2>2 DEF Range, Live
<1>3. EndsFine'
  BY DEF HarmlessInv, EndsFine
<1>4. SlotFine'
  <2>1. ~(server'.epoch > server'.floor)
    BY <1>2 DEF IInv, Types, Server
  <2>2. slot'.state = "primed" \/ slot'.pending =>
            AfterData(to_client, Len(to_client) + 1)'
    BY <1>1
  <2> QED
    BY <2>1, <2>2 DEF SlotFine, ReadyAt
<1>5. SettledFine'
  <2>1. ~(server'.epoch > server'.floor) /\ ~(server'.wire > server'.floor)
    BY <1>2 DEF IInv, Types, Server
  <2> QED
    BY <2>1 DEF SettledFine
<1>6. ASSUME NEW i \in DOMAIN p
      PROVE  /\ ChallengeFine(to_client, i)' /\ ActiveFine(to_client, i)'
             /\ CarrierFine(to_client, i)'
  <2>1. CASE i = n
    <3>1. p[i].kind \notin {"CHALLENGE", "SERVER_ACTIVE"} /\ IsRecord(p[i])
      BY <1>1, <2>1 DEF IsRecord, Carrier
    <3> QED
      BY <3>1 DEF ChallengeFine, ActiveFine, CarrierFine
  <2>2. CASE i \in DOMAIN q
    <3>1. /\ ChallengeFine(q, i) /\ ActiveFine(q, i) /\ CarrierFine(q, i)
      BY <2>2 DEF HarmlessInv, ToClientFine
    <3>2. p[i] = q[i] /\ i \in 1 .. n /\ ~(p[i].epoch > server'.floor)
      BY <1>1, <1>2, <2>2
    <3>3. ASSUME NEW j \in i + 1 .. Len(p), p[j].kind = "CHALLENGE"
          PROVE  j \in i + 1 .. Len(q) /\ p[j] = q[j]
      <4>1. j \in DOMAIN p /\ j # n
        BY <1>1, <2>2, <3>3
      <4> QED
        BY <1>1, <3>3, <4>1
    <3>4. ReadyAt(q, i) => ReadyAt(to_client, i)'
      BY <1>1, <3>2 DEF ReadyAt
    <3>5. ChallengeFine(to_client, i)'
      BY <3>1, <3>2, <3>3, <3>4 DEF ChallengeFine
    <3>6. ActiveFine(to_client, i)' /\ CarrierFine(to_client, i)'
      BY <1>1, <3>1, <3>2 DEF ActiveFine, CarrierFine
    <3> QED
      BY <3>5, <3>6
  <2> QED
    BY <1>1, <2>1, <2>2
<1>7. ToServerFine'
  BY <1>2 DEF ToServerFine, LiveOnce, Range
<1> QED
  BY <1>3, <1>4, <1>5, <1>6, <1>7 DEF HarmlessInv, ToClientFine

LEMMA HarmlessChangeMap ==
    ASSUME IInv, IInv', BoundInv, BoundInv', HarmlessInv, ChangeMap
    PROVE  HarmlessInv'
<1>1. server' = QuiesceMap(server) /\ server \in Server /\ server.on
  BY HarmlessFacts DEF ChangeMap, HarmlessInv, EndsFine
<1>2. /\ server'.on /\ server'.late = server.late
      /\ server'.epoch <= server'.floor
  <2>1. Larger(server.floor, server.epoch) = server.epoch
    BY HarmlessFacts DEF Larger
  <2>2. /\ server'.on /\ server'.late = server.late
        /\ server'.epoch = server.epoch /\ server'.floor = server.epoch
    BY <1>1, <2>1 DEF QuiesceMap, Cancelled, Server
  <2> QED
    BY <2>2, HarmlessFacts
<1>3. Item("CHANGING", 0) \in ClientItem
  BY DEF Item, ClientItem, ToClient
<1>4. /\ slot'.state = "connected" /\ ~slot'.pending /\ client' = client
      /\ dropped' = "none" /\ ~server'.late
      /\ to_client' = Append(to_client, Item("CHANGING", 0))
  BY <1>2 DEF ChangeMap, HarmlessInv, EndsFine
<1> QED
  BY <1>1, <1>2, <1>3, <1>4, NothingLive DEF Item

LEMMA HarmlessNew ==
    ASSUME IInv, IInv', BoundInv, BoundInv', HarmlessInv,
           slot.state = "connected", New(server),
           client' = client, dropped' = "none"
    PROVE  HarmlessInv'
<1>1. server' = server /\ server.on /\ ~server.late
  BY DEF New, HarmlessInv, EndsFine
<1>2. server.epoch <= server.floor
  BY HarmlessFacts DEF HarmlessInv, SlotFine
<1>3. /\ Item("SERVERDATA", 0) \in ClientItem
      /\ to_client' = Append(to_client, Item("SERVERDATA", 0))
  BY <1>1 DEF New, Item, ClientItem, ToClient
<1> QED
  BY <1>1, <1>2, <1>3, NothingLive DEF Item

\* The CHALLENGE of a map makes its epoch live.
LEMMA HarmlessService ==
    ASSUME IInv, IInv', BoundInv, BoundInv', HarmlessInv, Service
    PROVE  HarmlessInv'
<1> DEFINE q == to_client
           p == to_client'
           n == Len(q) + 1
           x == Item("CHALLENGE", server.epoch + 1)
<1>1. /\ server \in Server /\ server.on /\ slot.pending /\ dropped' = "none"
      /\ slot' = [slot EXCEPT !.pending = FALSE]
      /\ server' = BeginEpoch(server) /\ p = Append(q, x)
      /\ client' = client /\ to_server' = to_server
  BY HarmlessFacts DEF Service, HarmlessInv, EndsFine
<1>2. /\ slot'.state = "spawned" /\ ~slot'.pending
      /\ x \in ClientItem /\ x.kind = "CHALLENGE"
      /\ x.epoch = server.epoch + 1
  BY <1>1, HarmlessFacts DEF BoundInv, SlotInv, Item, ClientItem, ToClient
<1>3. /\ server'.on /\ server'.phase = "WAIT_READY" /\ ~server'.late
      /\ server'.epoch = server.epoch + 1 /\ server'.floor = server.epoch
      /\ server'.wire = server.wire
  <2> DEFINE r == Cancelled(server)
  <2>1. Larger(server.floor, server.epoch) = server.epoch
    BY HarmlessFacts DEF Larger
  <2>2. /\ r \in Server /\ r.on = server.on /\ r.epoch = server.epoch
        /\ r.floor = server.epoch /\ r.wire = server.wire
    BY <1>1, <2>1 DEF Cancelled, Server
  <2>3. server' = [r EXCEPT !.epoch = @ + 1, !.phase = "WAIT_READY",
                            !.late = FALSE, !.life = "WAIT_READINESS"]
    BY <1>1 DEF BeginEpoch
  <2> HIDE DEF r
  <2>4. /\ server'.epoch = r.epoch + 1 /\ server'.floor = r.floor
        /\ server'.wire = r.wire /\ server'.phase = "WAIT_READY"
        /\ server'.on = r.on /\ server'.late = FALSE
    BY <2>2, <2>3 DEF Server
  <2> QED
    BY <1>1, <2>2, <2>4
<1>4. /\ Len(p) = n /\ p[n] = x /\ q \in Seq(ClientItem) /\ n \in Nat
      /\ \A i \in DOMAIN q : p[i] = q[i] /\ i \in 1 .. n
      /\ \A i \in DOMAIN p : i \in DOMAIN q \/ i = n
      /\ NoneAfter(p, n) /\ n \in 1 .. n
      /\ \A i \in 1 .. n : /\ NoneBefore(q, i) => NoneBefore(p, i)
                           /\ AfterData(q, i) => AfterData(p, i)
  <2>1. n \in Nat /\ n \in 1 .. n
    BY Known
  <2> QED
    BY <1>1, <1>2, <2>1, Known, ItemSent
<1> HIDE DEF x
<1>5. /\ \A i \in DOMAIN q : q[i].epoch <= server.epoch /\ q[i].epoch \in Nat
      /\ \A y \in Range(to_server') : ~Live(y)'
      /\ client.epoch <= server.epoch
      /\ server.epoch \in Nat /\ client.epoch \in Nat
  <2>1. /\ \A y \in Range(q) : y.epoch <= server.epoch /\ y.epoch \in Nat
        /\ \A y \in Range(to_server) : y.epoch <= server.epoch /\ y.epoch \in Nat
        /\ client.epoch <= server.epoch
        /\ server.epoch \in Nat /\ client.epoch \in Nat
    BY ItemEpochs, HarmlessFacts DEF BoundInv, EpochsBehind
  <2> QED
    BY <1>1, <1>3, <2>1 DEF Range, Live
<1>6. EndsFine'
  BY <1>1, <1>3 DEF HarmlessInv, EndsFine
<1>7. SlotFine'
  BY <1>2 DEF SlotFine
<1>8. SettledFine'
  <2>1. ~(server'.wire > server'.floor)
    BY <1>3, HarmlessFacts
  <2> QED
    BY <1>3, <2>1 DEF SettledFine
<1>9. \A i \in 1 .. n : ReadyAt(q, i) => ReadyAt(to_client, i)'
  BY <1>1, <1>4 DEF ReadyAt
<1>10. ASSUME NEW i \in DOMAIN p
       PROVE  /\ ChallengeFine(to_client, i)' /\ ActiveFine(to_client, i)'
              /\ CarrierFine(to_client, i)'
  <2>1. CASE i = n
    <3>1. ReadyAt(to_client, i)'
      BY <1>1, <1>4, <1>9, <2>1 DEF HarmlessInv, SlotFine
    <3>2. p[i] = x /\ client'.epoch < x.epoch
      BY <1>1, <1>2, <1>4, <1>5, <2>1
    <3>3. i + 1 .. Len(p) = {}
      BY <1>4, <2>1
    <3>4. ChallengeFine(to_client, i)'
      BY <1>2, <1>3, <1>4, <1>5, <2>1, <3>1, <3>2, <3>3
         DEF ChallengeFine, Quiet
    <3>5. ActiveFine(to_client, i)' /\ CarrierFine(to_client, i)'
      BY <1>2, <3>2 DEF ActiveFine, CarrierFine, IsRecord, Carrier
    <3> QED
      BY <3>4, <3>5
  <2>2. CASE i \in DOMAIN q
    <3>1. /\ ChallengeFine(q, i) /\ ActiveFine(q, i) /\ CarrierFine(q, i)
      BY <2>2 DEF HarmlessInv, ToClientFine
    <3>2. /\ p[i] = q[i] /\ i \in 1 .. n /\ ~(p[i].epoch > server'.floor)
          /\ q[i].epoch <= server.epoch /\ q[i].epoch \in Nat
      BY <1>3, <1>4, <1>5, <2>2
    <3>3. ASSUME NEW j \in i + 1 .. Len(p), p[j].kind = "CHALLENGE",
                 q[i].kind = "CHALLENGE"
          PROVE  p[i].epoch < p[j].epoch
      <4>1. CASE j = n
        BY <1>2, <1>4, <1>5, <3>2, <4>1
      <4>2. CASE j # n
        <5>1. j \in DOMAIN p
          BY <1>4, <2>2, <3>3
        <5>2. p[j] = q[j] /\ j \in i + 1 .. Len(q)
          BY <1>4, <3>3, <4>2, <5>1
        <5> QED
          BY <3>1, <3>2, <3>3, <5>2 DEF ChallengeFine
      <4> QED
        BY <4>1, <4>2
    <3>4. ChallengeFine(to_client, i)'
      BY <1>1, <1>9, <3>1, <3>2, <3>3 DEF ChallengeFine
    <3>5. ActiveFine(to_client, i)' /\ CarrierFine(to_client, i)'
      BY <1>1, <1>4, <3>1, <3>2 DEF ActiveFine, CarrierFine
    <3> QED
      BY <3>4, <3>5
  <2> QED
    BY <1>4, <2>1, <2>2
<1>11. ToServerFine'
  BY <1>5 DEF ToServerFine, LiveOnce, Range
<1> QED
  BY <1>6, <1>7, <1>8, <1>10, <1>11 DEF HarmlessInv, ToClientFine

\* The server sends carriers when both ends are active and no record is on
\* its way to the client.
LEMMA HarmlessServerSends ==
    ASSUME IInv, IInv', HarmlessInv, ServerSendsCarrier
    PROVE  HarmlessInv'
<1> DEFINE q == to_client
           p == to_client'
<1>1. PICK kind \in Carrier :
          /\ kind = "DATA" => ServerMaySendData(server)
          /\ kind = "ACK" => ServerMaySendAck(server)
          /\ p = Append(q, Item(kind, server.transport))
          /\ server' \in {server} \cup
                         IF kind = "ACK" THEN {[server EXCEPT !.owes = FALSE]}
                                         ELSE {}
          /\ UNCHANGED <<slot, client, loading, to_server, dropped, faults>>
  BY DEF ServerSendsCarrier
<1> DEFINE x == Item(kind, server.transport)
<1>2. server.life = "ACTIVE" /\ server.phase = "ACTIVE"
  <2>1. server.life # "DRAIN"
    BY HarmlessFacts
  <2> QED
    BY <1>1, <2>1 DEF ServerMaySendData, ServerMaySendAck, Carrier
<1>3. server.epoch > server.floor
  BY <1>2, HarmlessFacts DEF IInv, ServerInv
<1>4. NoRecord(q) /\ client.mode = "ACTIVE" /\ Quiet
  BY <1>2, <1>3 DEF HarmlessInv, SettledFine
<1>5. /\ ServerStands /\ client' = client /\ slot' = slot
      /\ to_server' = to_server /\ dropped' = "none"
  <2>1. server' \in {server, [server EXCEPT !.owes = FALSE]}
    BY <1>1
  <2> QED
    BY <1>1, <2>1, HarmlessFacts, OwesAside DEF HarmlessInv, EndsFine
<1>6. x \in ClientItem /\ ~IsRecord(x)
  BY HarmlessFacts DEF Item, ClientItem, ToClient, Carrier, IsRecord
<1>7. p \in Seq(ClientItem) /\ NoRecord(p)
  BY <1>1, <1>4, <1>6, Known, ItemSent
<1>8. \A i \in DOMAIN p : ~IsRecord(p[i]) /\ NoneBefore(p, i)
  <2>1. DOMAIN p = 1 .. Len(p) /\ Len(p) \in Nat
    BY <1>7
  <2>2. ASSUME NEW i \in DOMAIN p, NEW k \in 1 .. i - 1 PROVE ~IsRecord(p[k])
    <3>1. k \in DOMAIN p
      BY <2>1
    <3> QED
      BY <1>7, <3>1 DEF NoRecord
  <2> QED
    BY <1>7, <2>2 DEF NoRecord, NoneBefore
<1>9. Quiet'
  BY <1>4, <1>5 DEF Quiet, Live, ServerStands
<1>10. EndsFine'
  BY <1>5 DEF HarmlessInv, EndsFine, ServerStands
<1>11. SlotFine'
  BY <1>3, <1>5, HarmlessFacts DEF HarmlessInv, SlotFine, ServerStands, BoundInv, SlotInv
<1>12. SettledFine'
  BY <1>4, <1>5, <1>7, <1>9 DEF HarmlessInv, SettledFine, ServerStands
<1>13. ToClientFine'
  <2> SUFFICES ASSUME NEW i \in DOMAIN p
               PROVE  /\ ChallengeFine(to_client, i)'
                      /\ ActiveFine(to_client, i)'
                      /\ CarrierFine(to_client, i)'
    BY DEF ToClientFine
  <2>1. p[i].kind \notin {"CHALLENGE", "SERVER_ACTIVE"}
    BY <1>8 DEF IsRecord, Carrier
  <2> QED
    BY <1>4, <1>5, <1>8, <2>1 DEF ChallengeFine, ActiveFine, CarrierFine
<1>14. ToServerFine'
  BY <1>9 DEF Quiet, ToServerFine, LiveOnce, Range
<1> QED
  BY <1>10, <1>11, <1>12, <1>13, <1>14 DEF HarmlessInv

\* A record that the server ignores, and the "begin" that asks for the
\* CHALLENGE of the map.
LEMMA HarmlessIgnored ==
    ASSUME IInv, IInv', HarmlessInv, server' = server, client' = client,
           dropped' = "none", to_client' = to_client,
           NEW i \in DOMAIN to_server,
           to_server' = SubSeq(to_server, i + 1, Len(to_server)),
           \/ slot' = slot
           \/ /\ slot.state = "primed"
              /\ slot' = [slot EXCEPT !.state = "spawned", !.pending = TRUE],
           BoundInv
    PROVE  HarmlessInv'
<1>1. ServerStands /\ ClientStands
  BY DEF ServerStands, ClientStands
<1>2. NoNewLive
  BY LiveKept
<1>3. \E f : Thins(to_client, to_client', f)
  BY Known, SameThins
<1>4. /\ slot'.state = "primed" \/ slot'.pending =>
             slot.state = "primed" \/ slot.pending
      /\ server.epoch > server.floor =>
             slot'.state = "spawned" /\ ~slot'.pending
  BY DEF HarmlessInv, SlotFine
<1> QED
  BY <1>1, <1>2, <1>3, <1>4, QuietStep

LEMMA HarmlessReady ==
    ASSUME IInv, IInv', HarmlessInv, NEW i \in DOMAIN to_server,
           Live(to_server[i]), to_server[i].kind = "READY",
           to_server' = SubSeq(to_server, i + 1, Len(to_server)),
           server' = Opened(Ready(server)), slot' = slot, client' = client,
           dropped' = "none",
           to_client' = Append(to_client, Item("SERVER_ACTIVE", server.epoch))
    PROVE  HarmlessInv'
<1> DEFINE q == to_client
           p == to_client'
           n == Len(q) + 1
           x == Item("SERVER_ACTIVE", server.epoch)
<1>1. LiveFine(to_server[i]) /\ server.epoch > server.floor
  BY DEF HarmlessInv, ToServerFine, Range, Live, LiveFine
<1>2. /\ server'.on = server.on /\ server'.late = FALSE
      /\ server'.phase = "WAIT_CONFIRM" /\ server'.epoch = server.epoch
      /\ server'.floor = server.floor /\ server'.wire = server.epoch
      /\ server'.transport = server.epoch
  BY HarmlessFacts DEF Opened, Ready, Server
<1>3. x \in ClientItem /\ x.kind = "SERVER_ACTIVE" /\ x.epoch = server.epoch
  BY HarmlessFacts DEF Item, ClientItem, ToClient
<1>4. /\ Len(p) = n /\ p[n] = x /\ n \in Nat
      /\ \A j \in DOMAIN q : p[j] = q[j] /\ j \in 1 .. n
      /\ \A j \in DOMAIN p : j \in DOMAIN q \/ j = n
      /\ NoneAfter(p, n) /\ NoneBefore(p, n)
      /\ \A j \in 1 .. n : NoneBefore(q, j) => NoneBefore(p, j)
  <2>1. n \in Nat /\ NoRecord(q)
    BY <1>1, Known DEF LiveFine
  <2> QED
    BY <1>3, <2>1, Known, ItemSent
<1> HIDE DEF x
<1>5. \A y \in Range(to_server') : ~Live(y)'
  <2>1. \A y \in Range(to_server') : ~Live(y)
    BY Known, TakenOnce DEF HarmlessInv, ToServerFine
  <2> QED
    BY <1>2, <2>1 DEF Live
<1>6. EndsFine'
  BY <1>2 DEF HarmlessInv, EndsFine
<1>7. SlotFine'
  BY <1>1, <1>2 DEF HarmlessInv, SlotFine
<1>8. SettledFine'
  BY <1>2 DEF SettledFine
<1>9. ASSUME NEW j \in DOMAIN p
      PROVE  /\ ChallengeFine(to_client, j)' /\ ActiveFine(to_client, j)'
             /\ CarrierFine(to_client, j)'
  <2>1. CASE j = n
    <3>1. p[j] = x /\ p[j].kind = "SERVER_ACTIVE" /\ IsRecord(p[j])
      BY <1>3, <1>4, <2>1 DEF IsRecord, Carrier
    <3>2. Quiet'
      BY <1>5 DEF Quiet
    <3>3. server'.transport # 0
      BY <1>1, <1>2, HarmlessFacts
    <3>4. ActiveFine(to_client, j)'
      BY <1>1, <1>2, <1>3, <1>4, <2>1, <3>1, <3>2, <3>3
         DEF ActiveFine, LiveFine
    <3> QED
      BY <3>1, <3>4 DEF ChallengeFine, CarrierFine
  <2>2. CASE j \in DOMAIN q
    <3>1. ~IsRecord(p[j]) /\ p[j] = q[j] /\ CarrierFine(q, j)
          /\ j \in 1 .. n
      BY <1>1, <1>4, <2>2
         DEF LiveFine, NoRecord, HarmlessInv, ToClientFine
    <3>2. p[j].kind \notin {"CHALLENGE", "SERVER_ACTIVE"}
      BY <3>1 DEF IsRecord, Carrier
    <3> QED
      BY <1>4, <3>1, <3>2 DEF ChallengeFine, ActiveFine, CarrierFine
  <2> QED
    BY <1>4, <2>1, <2>2
<1>10. ToServerFine'
  BY <1>5 DEF ToServerFine, LiveOnce, Range
<1> QED
  BY <1>6, <1>7, <1>8, <1>9, <1>10 DEF HarmlessInv, ToClientFine

LEMMA HarmlessConfirm ==
    ASSUME IInv, IInv', HarmlessInv, NEW i \in DOMAIN to_server,
           Live(to_server[i]), to_server[i].kind = "CONFIRM",
           to_server' = SubSeq(to_server, i + 1, Len(to_server)),
           server' = [server EXCEPT !.phase = "ACTIVE", !.late = FALSE],
           slot' = slot, client' = client, dropped' = "none",
           to_client' = to_client
    PROVE  HarmlessInv'
<1>1. LiveFine(to_server[i])
  BY DEF HarmlessInv, ToServerFine, Range
<1>2. /\ server'.on = server.on /\ server'.late = FALSE
      /\ server'.phase = "ACTIVE" /\ server'.epoch = server.epoch
      /\ server'.floor = server.floor /\ server'.wire = server.wire
      /\ server'.transport = server.transport
  BY HarmlessFacts DEF Server
<1>3. \A y \in Range(to_server') : ~Live(y)'
  <2>1. \A y \in Range(to_server') : ~Live(y)
    BY Known, TakenOnce DEF HarmlessInv, ToServerFine
  <2> QED
    BY <1>2, <2>1 DEF Live
<1>4. EndsFine' /\ SlotFine'
  BY <1>2 DEF HarmlessInv, EndsFine, SlotFine, ReadyAt
<1>5. SettledFine'
  BY <1>1, <1>2, <1>3 DEF HarmlessInv, SettledFine, LiveFine, Quiet
<1>6. ToClientFine'
  <2> SUFFICES ASSUME NEW j \in DOMAIN to_client
               PROVE  /\ ChallengeFine(to_client, j)'
                      /\ ActiveFine(to_client, j)'
                      /\ CarrierFine(to_client, j)'
    BY DEF ToClientFine
  <2>1. ~IsRecord(to_client[j]) /\ CarrierFine(to_client, j)
    BY <1>1 DEF LiveFine, NoRecord, HarmlessInv, ToClientFine
  <2> QED
    BY <2>1 DEF ChallengeFine, ActiveFine, CarrierFine, IsRecord, Carrier
<1>7. ToServerFine'
  BY <1>3 DEF ToServerFine, LiveOnce, Range
<1> QED
  BY <1>4, <1>5, <1>6, <1>7 DEF HarmlessInv

LEMMA HarmlessServerRxRecord ==
    ASSUME IInv, IInv', BoundInv, BoundInv', HarmlessInv, faults = {},
           ServerRxRecord
    PROVE  HarmlessInv'
<1>1. PICK i \in DOMAIN to_server :
          /\ IsRecord(to_server[i])
          /\ to_server' = WithoutArrived(to_server, i)
          /\ LET s == ServerPacketBegin(server)
                 item == to_server[i]
             IN  \/ item.kind = "NEW" /\ RxNew(s)
                 \/ item.kind = "BEGIN" /\ RxBegin(s)
                 \/ item.kind = "READY" /\ RxReady(s, item.epoch)
                 \/ item.kind = "CONFIRM" /\ RxConfirm(s, item.epoch)
  BY DEF ServerRxRecord
<1> DEFINE x == to_server[i]
           Ignored == /\ server' = server /\ slot' = slot
                      /\ to_client' = to_client
<1>2. /\ x \in Range(to_server) /\ x.epoch \in Nat /\ server.on
      /\ to_server' = SubSeq(to_server, i + 1, Len(to_server))
      /\ dropped' = "none" /\ client' = client
      /\ ServerPacketBegin(server) = server
      /\ server.floor \in Nat
  BY <1>1, ItemEpochs, HarmlessFacts
     DEF ServerRxRecord, WithoutArrived, Range, HarmlessInv, EndsFine
<1>3. CASE Ignored
  BY <1>2, <1>3, HarmlessIgnored
<1>4. CASE RxNew(server)
  BY <1>2, <1>3, <1>4, HarmlessNew DEF RxNew, Ignore
<1>5. CASE RxBegin(server)
  <2>1. CASE slot.state = "connected" /\ New(server)
    BY <1>2, <2>1, HarmlessNew
  <2>2. CASE /\ slot.state = "primed"
             /\ slot' = [slot EXCEPT !.state = "spawned", !.pending = TRUE]
             /\ server' = server /\ to_client' = to_client
    BY <1>2, <2>2, HarmlessIgnored
  <2> QED
    BY <1>3, <1>5, <2>1, <2>2 DEF RxBegin, Ignore
<1>6. CASE x.kind = "READY" /\ RxReady(server, x.epoch)
  <2>1. CASE x.epoch <= server.floor
    <3>1. ~(x.epoch > server.floor)
      BY <1>2, <2>1
    <3> QED
      BY <1>2, <1>3, <1>6, <3>1 DEF RxReady, Ignore
  <2>2. CASE ~(x.epoch <= server.floor)
    <3>1. Live(x) /\ x.epoch > server.floor
      BY <1>2, <1>6, <2>2 DEF Live
    <3>2. LiveFine(x)
      BY <1>2, <3>1 DEF HarmlessInv, ToServerFine
    <3>3. /\ server' = Opened(Ready(server)) /\ slot' = slot
          /\ to_client' = Append(to_client, Item("SERVER_ACTIVE", server.epoch))
      BY <1>2, <1>6, <2>2, <3>1, <3>2 DEF RxReady, LiveFine
    <3> QED
      BY <1>2, <1>6, <3>1, <3>3, HarmlessReady
  <2> QED
    BY <2>1, <2>2
<1>7. CASE x.kind = "CONFIRM" /\ RxConfirm(server, x.epoch)
  <2>1. CASE x.epoch <= server.floor
    BY <1>2, <1>3, <1>7, <2>1 DEF RxConfirm, Ignore
  <2>2. CASE ~(x.epoch <= server.floor)
    <3>1. Live(x)
      BY <1>2, <1>7, <2>2 DEF Live
    <3>2. LiveFine(x)
      BY <1>2, <3>1 DEF HarmlessInv, ToServerFine
    <3>3. /\ server' = [server EXCEPT !.phase = "ACTIVE", !.late = FALSE]
          /\ slot' = slot /\ to_client' = to_client
      BY <1>2, <1>7, <2>2, <3>2 DEF RxConfirm, LiveFine, Ignore
    <3> QED
      BY <1>2, <1>7, <3>1, <3>3, HarmlessConfirm
  <2> QED
    BY <2>1, <2>2
<1> QED
  BY <1>1, <1>2, <1>4, <1>5, <1>6, <1>7

\* A record that the client sends for one it takes fits where both ends are.
Fits(y) ==
    /\ y.epoch = server.epoch /\ client'.epoch = server.epoch
    /\ y.kind = "READY" =>
           /\ server.phase = "WAIT_READY" /\ client'.phase = "WAIT_ACTIVE"
           /\ client'.mode = "ARMING" /\ client'.confirmed
    /\ y.kind = "CONFIRM" =>
           /\ server.phase = "WAIT_CONFIRM" /\ server.transport # 0
           /\ client'.mode = "ACTIVE"

\* What a floor has passed, a higher floor has passed too.
LEMMA PassedStays ==
    ASSUME NEW e \in Nat, NEW f \in Nat, NEW g \in Nat, f <= g, ~(e > f)
    PROVE  ~(e > g)
OBVIOUS

LEMMA FloorsAreNumbers ==
    ASSUME IInv, IInv' PROVE client.floor \in Nat /\ client'.floor \in Nat
BY DEF IInv, Types, Client

LEMMA EpochIsNumber ==
    ASSUME NEW p \in Seq(ClientItem), NEW i \in DOMAIN p PROVE p[i].epoch \in Nat
<1>1. p[i] \in ClientItem
  OBVIOUS
<1> QED
  BY <1>1 DEF ClientItem

\* The client takes a record: what waited behind it moves up.
LEMMA RecordTaken ==
    ASSUME IInv, IInv', HarmlessInv, server' = server, slot' = slot,
           dropped' = "none",
           NEW x \in DOMAIN to_client, IsRecord(to_client[x]),
           NoneBefore(to_client, x),
           to_client' = SubSeq(to_client, x + 1, Len(to_client)),
           client'.on, ~client'.late, client.floor <= client'.floor,
           client'.mode = "DRAIN" => client'.quiesced,
           to_client[x].kind = "SERVERDATA" =>
               client'.confirmed /\ client'.quiesced,
           \A i \in x + 1 .. Len(to_client) :
               to_client[i].kind = "CHALLENGE" =>
                   client'.epoch < to_client[i].epoch,
           \/ to_server' = to_server
           \/ \E y \in ServerItem :
                 /\ to_server' = Append(to_server, y)
                 /\ Live(y) => NoneAfter(to_client, x) /\ Fits(y)
    PROVE  HarmlessInv'
<1> DEFINE q == to_client
           p == to_client'
<1>1. /\ q \in Seq(ClientItem) /\ p \in Seq(ClientItem)
      /\ Len(p) + 1 + x = Len(q) + 1
      /\ Len(p) + 1 \in 1 .. Len(p) + 1
      /\ \A i \in DOMAIN p :
             /\ i + x \in DOMAIN q /\ p[i] = q[i + x]
             /\ i \in 1 .. Len(p) + 1 /\ i + x \in x + 1 .. Len(q)
             /\ \A j \in i + 1 .. Len(p) :
                    j \in DOMAIN p /\ j + x \in (i + x) + 1 .. Len(q)
  BY Known, RecordArrives
<1>2. /\ NoneAfter(q, x) => NoRecord(p)
      /\ \A i \in 1 .. Len(p) + 1 :
             /\ ~NoneBefore(q, i + x)
             /\ NoneAfter(q, i + x) => NoneAfter(p, i)
             /\ AfterData(q, i + x) =>
                    \/ AfterData(p, i)
                    \/ q[x].kind = "SERVERDATA" /\ NoneBefore(p, i)
  BY Known, RecordArrives
<1>3. \A i \in 1 .. Len(p) + 1 : ReadyAt(q, i + x) => ReadyAt(to_client, i)'
  BY <1>2 DEF ReadyAt
<1>4. ~NoRecord(q)
  BY DEF NoRecord
<1>5. Quiet
  BY <1>4 DEF Quiet, HarmlessInv, ToServerFine, LiveFine
<1>6. /\ \A y : Live(y)' <=> Live(y)
      /\ to_server \in Seq(ServerItem)
  BY Known DEF Live
<1>7. \/ Quiet'
      \/ NoRecord(p)
  <2>1. CASE to_server' = to_server
    BY <1>5, <1>6, <2>1 DEF Quiet
  <2>2. ASSUME NEW y \in ServerItem, to_server' = Append(to_server, y),
               Live(y) => NoneAfter(q, x)
        PROVE  Quiet' \/ NoRecord(p)
    <3>1. Range(to_server') = Range(to_server) \cup {y}
      BY <1>6, <2>2, AppendAdds
    <3> QED
      BY <1>2, <1>5, <1>6, <2>2, <3>1 DEF Quiet
  <2> QED
    BY <2>1, <2>2
<1>8. EndsFine'
  BY DEF HarmlessInv, EndsFine
<1>9. SlotFine'
  <2>1. ReadyAt(q, Len(q) + 1) => ReadyAt(to_client, Len(to_client) + 1)'
    BY <1>1, <1>2 DEF ReadyAt
  <2> QED
    BY <2>1 DEF HarmlessInv, SlotFine
<1>10. SettledFine'
  BY <1>4 DEF HarmlessInv, SettledFine
<1>11. ASSUME NEW i \in DOMAIN p
       PROVE  /\ ChallengeFine(to_client, i)' /\ ActiveFine(to_client, i)'
              /\ CarrierFine(to_client, i)'
  <2>1. /\ i + x \in DOMAIN q /\ p[i] = q[i + x] /\ i \in 1 .. Len(p) + 1
        /\ i + x \in x + 1 .. Len(q)
    BY <1>1
  <2>2. /\ ChallengeFine(q, i + x) /\ ActiveFine(q, i + x)
        /\ CarrierFine(q, i + x)
    BY <2>1 DEF HarmlessInv, ToClientFine
  <2>3. ChallengeFine(to_client, i)'
    <3> SUFFICES ASSUME q[i + x].kind = "CHALLENGE", p[i].kind = "CHALLENGE"
                 PROVE  ChallengeFine(to_client, i)'
      BY <2>1 DEF ChallengeFine
    <3>1. ReadyAt(to_client, i)'
      BY <1>3, <2>1, <2>2 DEF ChallengeFine
    <3>2. client'.epoch < p[i].epoch
      BY <2>1
    <3>3. ASSUME NEW j \in i + 1 .. Len(p), p[j].kind = "CHALLENGE"
          PROVE  p[i].epoch < p[j].epoch
      <4>1. j + x \in (i + x) + 1 .. Len(q) /\ p[j] = q[j + x]
        BY <1>1
      <4> QED
        BY <2>1, <2>2, <3>3, <4>1 DEF ChallengeFine
    <3>4. p[i].epoch > server'.floor =>
              /\ p[i].epoch = server'.epoch /\ server'.phase = "WAIT_READY"
              /\ NoneAfter(p, i)
      BY <1>2, <2>1, <2>2 DEF ChallengeFine
    <3>5. Quiet'
      <4>1. IsRecord(p[i])
        BY DEF IsRecord, Carrier
      <4> QED
        BY <1>7, <4>1 DEF NoRecord
    <3> QED
      BY <3>1, <3>2, <3>3, <3>4, <3>5 DEF ChallengeFine
  <2>4. ActiveFine(to_client, i)'
    BY <1>2, <2>1, <2>2 DEF ActiveFine
  <2>5. CarrierFine(to_client, i)'
    <3>1. ~IsRecord(p[i]) => ~(p[i].epoch > client.floor)
      BY <1>2, <2>1, <2>2 DEF CarrierFine
    <3>2. p[i].epoch \in Nat /\ client.floor \in Nat /\ client'.floor \in Nat
      <4>1. p \in Seq(ClientItem)
        BY <1>1
      <4> QED
        BY <4>1, EpochIsNumber, FloorsAreNumbers, Zenon
    <3>3. ~IsRecord(p[i]) => ~(p[i].epoch > client'.floor)
      BY <3>1, <3>2, PassedStays, Zenon
    <3> QED
      BY <3>3 DEF CarrierFine
  <2> QED
    BY <2>3, <2>4, <2>5
<1>12. ToServerFine'
  <2>1. CASE to_server' = to_server
    BY <1>5, <1>6, <2>1 DEF Quiet, ToServerFine, LiveOnce, Range
  <2>2. CASE to_server' # to_server
    <3>1. PICK y \in ServerItem :
              /\ to_server' = Append(to_server, y)
              /\ Live(y) => NoneAfter(to_client, x) /\ Fits(y)
      BY <2>2
    <3>2. Range(to_server') = Range(to_server) \cup {y}
      BY <1>6, <3>1, AppendAdds
    <3>3. ASSUME NEW z \in Range(to_server'), Live(z)' PROVE LiveFine(z)'
      <4>1. z = y
        BY <1>5, <1>6, <3>2, <3>3 DEF Quiet
      <4> QED
        BY <1>2, <1>6, <3>1, <3>3, <4>1 DEF LiveFine, Fits
    <3>4. LiveOnce(Append(to_server, y))
      BY <1>5, <1>6, SentOnce DEF Quiet, HarmlessInv, ToServerFine
    <3>5. LiveOnce(to_server)'
      BY <1>6, <3>1, <3>4 DEF LiveOnce
    <3> QED
      BY <3>3, <3>5 DEF ToServerFine
  <2> QED
    BY <2>1, <2>2
<1> QED
  BY <1>8, <1>9, <1>10, <1>11, <1>12 DEF HarmlessInv, ToClientFine

LEMMA HarmlessClientRxRecord ==
    ASSUME IInv, IInv', HarmlessInv, faults = {}, ClientRxRecord
    PROVE  HarmlessInv'
<1>1. PICK x \in DOMAIN to_client :
          /\ IsRecord(to_client[x]) /\ MayArrive(to_client, x)
          /\ to_client' = WithoutArrived(to_client, x)
          /\ LET c == ClientPacketBegin(client)
                 item == to_client[x]
             IN  \/ item.kind = "CHANGING" /\ RxChanging(c)
                 \/ item.kind = "SERVERDATA" /\ RxServerData(c, TRUE)
                 \/ item.kind = "LEGACY" /\ RxServerData(c, FALSE)
                 \/ /\ item.kind = "CHALLENGE" /\ RxChallenge(c, item.epoch)
                    /\ UNCHANGED loading
                 \/ /\ item.kind = "SERVER_ACTIVE" /\ RxServerActive(c, item.epoch)
                    /\ UNCHANGED loading
  BY DEF ClientRxRecord
<1> DEFINE r == to_client[x]
           Later(n) == \A i \in x + 1 .. Len(to_client) :
                           to_client[i].kind = "CHALLENGE" =>
                               n < to_client[i].epoch
<1>2. /\ server' = server /\ slot' = slot /\ dropped' = "none"
      /\ ClientPacketBegin(client) = client
      /\ r \in Range(to_client) /\ r.epoch \in Nat /\ r.kind # "LEGACY"
      /\ to_client' = SubSeq(to_client, x + 1, Len(to_client))
  BY <1>1, ItemEpochs, HarmlessFacts DEF ClientRxRecord, WithoutArrived, Range
<1>3. NoneBefore(to_client, x)
  BY <1>1 DEF MayArrive, NoneBefore
<1>4. /\ client \in Client /\ client.on /\ ~client.late
      /\ client.mode = "DRAIN" => client.quiesced
      /\ client.floor \in Nat /\ client.epoch \in Nat
      /\ client.floor <= client.epoch
  BY HarmlessFacts DEF HarmlessInv, EndsFine
<1>5. /\ ChallengeFine(to_client, x) /\ ActiveFine(to_client, x)
      /\ \A i \in x + 1 .. Len(to_client) : ChallengeFine(to_client, i)
  <2>1. \A i \in x + 1 .. Len(to_client) : i \in DOMAIN to_client
    BY Known
  <2> QED
    BY <2>1 DEF HarmlessInv, ToClientFine
<1>6. Later(client.epoch)
  BY <1>5 DEF ChallengeFine
<1>7. CASE r.kind = "CHANGING" /\ RxChanging(client)
  <2>1. client' = [Draining(client) EXCEPT !.quiesced = TRUE]
    BY <1>4, <1>7 DEF RxChanging, MapBoundary
  <2>2. /\ client'.on /\ ~client'.late /\ client'.quiesced
        /\ client'.floor = client.floor /\ client'.epoch = client.epoch
    BY <1>4, <2>1 DEF Draining, Client
  <2>3. /\ Item("NEW", 0) \in ServerItem /\ ~Live(Item("NEW", 0))
        /\ to_server' = Append(to_server, Item("NEW", 0))
    BY <1>7 DEF RxChanging, Item, ServerItem, ToServer, Live
  <2> HIDE DEF Later
  <2>4. client.floor <= client'.floor /\ Later(client'.epoch)
    BY <1>4, <1>6, <2>2
  <2> QED
    BY <1>1, <1>2, <1>3, <1>7, <2>2, <2>3, <2>4, RecordTaken DEF Later
<1>8. CASE r.kind = "SERVERDATA" /\ RxServerData(client, TRUE)
  <2>1. client' = [[Draining(client) EXCEPT !.quiesced = TRUE]
                       EXCEPT !.confirmed = TRUE]
    BY <1>4, <1>8 DEF RxServerData, MapBoundary
  <2>2. /\ client'.on /\ ~client'.late /\ client'.quiesced /\ client'.confirmed
        /\ client'.floor = client.floor /\ client'.epoch = client.epoch
    BY <1>4, <2>1 DEF Draining, Client
  <2>3. to_server' = to_server
    BY <1>8 DEF RxServerData
  <2> HIDE DEF Later
  <2>4. client.floor <= client'.floor /\ Later(client'.epoch)
    BY <1>4, <1>6, <2>2
  <2> QED
    BY <1>1, <1>2, <1>3, <2>2, <2>3, <2>4, RecordTaken DEF Later
<1>9. CASE r.kind = "CHALLENGE" /\ RxChallenge(client, r.epoch)
  <2>1. client.confirmed /\ client.quiesced /\ client.epoch < r.epoch
    <3>1. ~AfterData(to_client, x)
      <4> SUFFICES ASSUME NEW j \in 1 .. x - 1,
                          to_client[j].kind = "SERVERDATA"
                   PROVE  FALSE
        BY DEF AfterData
      <4> QED
        BY <1>3 DEF NoneBefore, IsRecord, Carrier
    <3> QED
      BY <1>5, <1>9, <3>1 DEF ChallengeFine, ReadyAt
  <2>2. r.epoch > client.floor /\ ~(r.epoch <= client.floor)
        /\ MayArm(client, r.epoch)
    BY <1>2, <1>4, <2>1 DEF MayArm
  <2>3. /\ client' = Armed(client, r.epoch)
        /\ to_server' = Append(to_server, Item("READY", r.epoch))
    BY <1>4, <1>9, <2>1, <2>2 DEF RxChallenge
  <2>4. /\ client'.on /\ ~client'.late /\ client'.mode = "ARMING"
        /\ client'.epoch = r.epoch /\ client'.phase = "WAIT_ACTIVE"
        /\ client'.confirmed
        /\ client'.floor = Larger(client.floor, client.epoch)
    BY <1>4, <2>1, <2>3 DEF Armed, Client
  <2>5. client.floor <= client'.floor
    BY <1>4, <2>4 DEF Larger
  <2>6. Later(client'.epoch)
    BY <1>5, <1>9, <2>4 DEF ChallengeFine
  <2> DEFINE y == Item("READY", r.epoch)
  <2>7. y \in ServerItem /\ y.kind = "READY" /\ y.epoch = r.epoch
    BY <1>2 DEF Item, ServerItem, ToServer
  <2>8. Live(y) => NoneAfter(to_client, x) /\ Fits(y)
    BY <1>5, <1>9, <2>4, <2>7 DEF ChallengeFine, Live, Fits
  <2> HIDE DEF y
  <2>9. to_server' = Append(to_server, y)
    BY <2>3 DEF y
  <2> QED
    BY <1>1, <1>2, <1>3, <1>9, <2>4, <2>5, <2>6, <2>7, <2>8, <2>9, RecordTaken
<1>10. CASE r.kind = "SERVER_ACTIVE" /\ RxServerActive(client, r.epoch)
  <2>1. /\ client.confirmed /\ client.phase = "WAIT_ACTIVE"
        /\ client.mode = "ARMING" /\ client.epoch = r.epoch
    BY <1>5, <1>10 DEF ActiveFine
  <2>2. CASE r.epoch <= client.floor
    <3>1. ~(r.epoch > client.floor)
      BY <1>2, <1>4, <2>2
    <3>2. client' = client /\ to_server' = to_server
      BY <1>10, <3>1 DEF RxServerActive
    <3>3. client.floor <= client'.floor /\ Later(client'.epoch)
      BY <1>4, <1>6, <3>2
    <3> QED
      BY <1>1, <1>2, <1>3, <1>4, <1>10, <3>2, <3>3, RecordTaken
  <2>3. CASE ~(r.epoch <= client.floor)
    <3>1. MayActivate(client, r.epoch)
      BY <2>1 DEF MayActivate
    <3>2. /\ client' = [Activated(client, r.epoch) EXCEPT !.phase = "ACTIVE"]
          /\ to_server' = Append(to_server, Item("CONFIRM", r.epoch))
      BY <1>4, <1>10, <2>1, <2>3, <3>1 DEF RxServerActive
    <3>3. /\ client'.on /\ ~client'.late /\ client'.mode = "ACTIVE"
          /\ client'.epoch = client.epoch /\ client'.floor = client.floor
      BY <1>4, <3>2 DEF Activated, Client
    <3>4. client.floor <= client'.floor /\ Later(client'.epoch)
      BY <1>4, <1>6, <3>3
    <3> DEFINE y == Item("CONFIRM", r.epoch)
    <3>5. y \in ServerItem /\ y.kind = "CONFIRM" /\ y.epoch = r.epoch
      BY <1>2 DEF Item, ServerItem, ToServer
    <3>6. Live(y) => NoneAfter(to_client, x) /\ Fits(y)
      BY <1>5, <1>10, <2>1, <3>3, <3>5 DEF ActiveFine, Live, Fits
    <3> HIDE DEF y
    <3>7. to_server' = Append(to_server, y)
      BY <3>2 DEF y
    <3> QED
      BY <1>1, <1>2, <1>3, <1>10, <3>3, <3>4, <3>5, <3>6, <3>7, RecordTaken
  <2> QED
    BY <2>2, <2>3
<1> QED
  BY <1>1, <1>2, <1>7, <1>8, <1>9, <1>10

LEMMA HarmlessInit == Init => HarmlessInv
<1> SUFFICES ASSUME Init PROVE HarmlessInv
  OBVIOUS
<1>1. /\ to_client = <<>> /\ to_server = <<Item("NEW", 0)>>
      /\ server = FreshServer /\ client = FreshClient
      /\ slot.state = "connected" /\ ~slot.pending /\ dropped = "none"
  BY DEF Init
<1>2. DOMAIN to_client = {} /\ \A x \in Range(to_server) : ~Live(x)
  BY <1>1 DEF Range, Live, Item
<1>3. EndsFine /\ SlotFine /\ SettledFine
  BY <1>1 DEF EndsFine, SlotFine, SettledFine, FreshServer, FreshClient
<1>4. ToClientFine
  BY <1>2 DEF ToClientFine
<1>5. ToServerFine
  BY <1>2 DEF ToServerFine, LiveOnce, Range
<1> QED
  BY <1>3, <1>4, <1>5 DEF HarmlessInv

LEMMA HarmlessNext ==
    ASSUME IInv, IInv', BoundInv, BoundInv', HarmlessInv, faults = {},
           [Next]_vars
    PROVE  HarmlessInv'
<1>1. CASE UNCHANGED vars
  <2>1. /\ ServerStands /\ ClientStands /\ dropped' = "none" /\ slot' = slot
        /\ to_server' = to_server /\ to_client' = to_client
    BY <1>1 DEF vars, HarmlessInv, EndsFine, ServerStands, ClientStands
  <2>2. NoNewLive
    BY <2>1, LiveKept DEF ServerStands
  <2>3. \E f : Thins(to_client, to_client', f)
    BY <2>1, Known, SameThins
  <2> QED
    BY <2>1, <2>2, <2>3, QuietStep DEF HarmlessInv, SlotFine
<1>2. ~ServerRxPlain /\ ~ServerTxExpired /\ ~ClientRxPlain
  BY HarmlessFacts DEF ServerRxPlain, ServerTxExpired, ClientRxPlain
<1>3. /\ ~ServerFails /\ ~ClientFails /\ ~ServerDeadlinePasses
      /\ ~ClientDeadlinePasses /\ ~QueueExpires
  BY DEF ServerFails, ClientFails, ServerDeadlinePasses,
         ClientDeadlinePasses, QueueExpires
<1>4. CASE Next
  BY <1>2, <1>3, <1>4, HarmlessChangeMap, HarmlessLoss,
     HarmlessServerRxRecord, HarmlessServerRxCarrier, HarmlessService,
     HarmlessServerSends, HarmlessClientRxRecord, HarmlessClientRxCarrier,
     HarmlessClientSends DEF Next
<1> QED
  BY <1>1, <1>4

\* Map changes alone, however many and wherever they hit the handshake, make
\* neither end fail: SV_NativeShadowPeerQuiesceMapV1 and enter_map_boundary
\* leave nothing of the old epoch that either end would take for its new one.
THEOREM MapChangesAreHarmless == Spec => []MapChangesHarmless
<1> DEFINE J == faults = {} => HarmlessInv
<1>1. Init => J
  BY HarmlessInit
<1>2. IInv /\ IInv' /\ BoundInv /\ BoundInv' /\ J /\ [Next]_vars => J'
  <2>1. [Next]_vars => faults' = faults
    BY DEF Next, vars, ChangeMap, LoseCarrier, ServerRxRecord,
           ServerRxCarrier, ServerRxPlain, Service, ServerSendsCarrier,
           ServerTxExpired, ServerFails, ServerDeadlinePasses,
           ClientDeadlinePasses, QueueExpires, ClientRxRecord,
           ClientRxCarrier, ClientRxPlain, ClientBegins, ClientSendsCarrier,
           ClientFails
  <2> QED
    BY <2>1, HarmlessNext
<1>3. IInv /\ J => MapChangesHarmless
  BY HarmlessFacts DEF MapChangesHarmless, HarmlessInv, EndsFine
<1> HIDE DEF J
<1> QED
  BY <1>1, <1>2, <1>3, Invariance, BoundsHold, PTL DEF Spec

-----------------------------------------------------------------------------
(***************************************************************************)
(* What a client without hooks can still meet.  A client takes its hooks   *)
(* off before it commits, when no carrier can be on the way, or when a     *)
(* legacy serverdata tells it to, and only a server that has stopped sends *)
(* one.  What such a server still sends are the receipts of its drain, and *)
(* a drain is for the rest of the connection.                              *)
(***************************************************************************)
FromDrain(x) == server.life = "DRAIN" /\ x.epoch = server.transport

ToldBefore(q, i) == \E k \in 1 .. i - 1 : q[k].kind = "LEGACY"

HooklessInv ==
    \A i \in DOMAIN to_client :
        /\ to_client[i].kind = "ACK"
        /\ ~client.on \/ ToldBefore(to_client, i)
        => FromDrain(to_client[i])

DrainStays ==
    server.life = "DRAIN" =>
        server'.life = "DRAIN" /\ server'.transport = server.transport

LEMMA DrainingServer ==
    ASSUME NEW s \in Server, ServerInv(s), s.life = "DRAIN"
    PROVE  /\ ~s.on /\ ServerPacketBegin(s) = s /\ QuiesceMap(s) = s
           /\ \A t \in {s, Drained(s), Disable(s), [s EXCEPT !.owes = FALSE],
                        [s EXCEPT !.late = TRUE]} :
                  t.life = "DRAIN" /\ t.transport = s.transport
<1>1. ~s.on
  BY DEF ServerInv
<1>2. Drained(s).life = "DRAIN" /\ Drained(s).transport = s.transport
  BY DEF Drained, Server
<1>3. Disable(s) = Drained(s)
  BY DEF Disable
<1>4. \A t \in {[s EXCEPT !.owes = FALSE], [s EXCEPT !.late = TRUE]} :
          t.life = "DRAIN" /\ t.transport = s.transport
  BY DEF Server
<1> QED
  BY <1>1, <1>2, <1>3, <1>4 DEF ServerPacketBegin, QuiesceMap

LEMMA DrainIsFinal ==
    ASSUME IInv, [Next]_vars
    PROVE  DrainStays
<1> SUFFICES ASSUME server.life = "DRAIN"
             PROVE  /\ server'.life = "DRAIN"
                    /\ server'.transport = server.transport
  BY DEF DrainStays
<1>1. /\ ~server.on /\ ServerPacketBegin(server) = server
      /\ QuiesceMap(server) = server
      /\ \A t \in {server, Drained(server), Disable(server),
                   [server EXCEPT !.owes = FALSE],
                   [server EXCEPT !.late = TRUE]} :
             t.life = "DRAIN" /\ t.transport = server.transport
  BY Known, DrainingServer DEF GoodServer
<1>2. CASE ServerRxRecord
  <2>1. PICK i \in DOMAIN to_server :
            \/ RxNew(server) \/ RxBegin(server)
            \/ RxReady(server, to_server[i].epoch)
            \/ RxConfirm(server, to_server[i].epoch)
    BY <1>1, <1>2 DEF ServerRxRecord
  <2>2. server' \in {server, Disable(server)}
    BY <1>1, <2>1 DEF RxNew, RxBegin, New, Ignore, RxReady, RxConfirm
  <2> QED
    BY <1>1, <2>2
<1>3. CASE ServerRxCarrier
  <2>1. PICK i \in DOMAIN to_server :
            \/ server' = Drained(server)
            \/ server' = ServerPacketBegin(ServerTakes(server, to_server[i]))
    BY <1>3 DEF ServerRxCarrier
  <2>2. ServerTakes(server, to_server[i]) \in {server, Drained(server)}
    BY DEF ServerTakes
  <2>3. Drained(server).on = FALSE
    BY Known DEF Drained, GoodServer, Server
  <2>4. ServerPacketBegin(Drained(server)) = Drained(server)
    BY <2>3 DEF ServerPacketBegin
  <2> QED
    BY <1>1, <2>1, <2>2, <2>4
<1>4. CASE \/ ChangeMap \/ ServerRxPlain \/ Service \/ ServerTxExpired
           \/ ServerFails \/ ServerDeadlinePasses \/ QueueExpires
  BY <1>1, <1>4
     DEF ChangeMap, ServerRxPlain, Service, ServerTxExpired, ServerFails,
         ServerDeadlinePasses, QueueExpires
<1>5. CASE ServerSendsCarrier
  <2>1. server' \in {server, [server EXCEPT !.owes = FALSE]}
    BY <1>5 DEF ServerSendsCarrier
  <2> QED
    BY <1>1, <2>1
<1>6. CASE server' = server
  BY <1>6
<1> QED
  BY <1>2, <1>3, <1>4, <1>5, <1>6
     DEF Next, vars, LoseCarrier, ClientDeadlinePasses, ClientRxRecord,
         ClientRxCarrier, ClientRxPlain, ClientBegins, ClientSendsCarrier,
         ClientFails

\* Nothing was ever sent to a pilot that has not committed.
LEMMA UncommittedUnsent ==
    ASSUME IInv, client.on, client.epoch = 0, NEW i \in DOMAIN to_client
    PROVE  to_client[i].kind # "ACK"
<1> SUFFICES ASSUME to_client[i].kind = "ACK" PROVE FALSE
  OBVIOUS
<1>1. to_client[i] \in Range(to_client) /\ to_client[i] \in ClientItem
  BY Known DEF Range
<1>2. to_client[i].epoch > 0 /\ KnownToClient(to_client[i].epoch)
  BY <1>1 DEF IInv, ClientKnows, Carrier
<1> QED
  BY <1>1, <1>2 DEF KnownToClient, IInv, Types, Client, ClientItem, ClientInv

\* A receipt was on the way before, and the client had been told as well.
LEMMA HooklessKept ==
    ASSUME HooklessInv, DrainStays,
           \A i \in DOMAIN to_client' :
               /\ to_client'[i].kind = "ACK"
               /\ ~client'.on \/ ToldBefore(to_client', i)
               => \E j \in DOMAIN to_client :
                      /\ to_client[j] = to_client'[i]
                      /\ ~client.on \/ ToldBefore(to_client, j)
    PROVE  HooklessInv'
  BY DEF HooklessInv, DrainStays, FromDrain

LEMMA HooklessThins ==
    ASSUME IInv, HooklessInv, DrainStays, NEW f,
           to_client' \in Seq(ClientItem), Thins(to_client, to_client', f),
           client.on /\ ~client'.on => client.epoch = 0
    PROVE  HooklessInv'
<1> DEFINE q == to_client
           p == to_client'
<1>1. q \in Seq(ClientItem)
  BY Known
<1>2. ASSUME NEW i \in DOMAIN p, p[i].kind = "ACK",
             ~client'.on \/ ToldBefore(p, i)
      PROVE  /\ f[i] \in DOMAIN q /\ q[f[i]] = p[i]
             /\ ~client.on \/ ToldBefore(q, f[i])
  <2>1. f[i] \in DOMAIN q /\ q[f[i]] = p[i]
    BY DEF Thins
  <2>2. CASE ~client'.on
    BY <1>2, <2>1, <2>2, UncommittedUnsent
  <2>3. ASSUME NEW k \in 1 .. i - 1, p[k].kind = "LEGACY"
        PROVE  ToldBefore(q, f[i])
    <3>1. /\ k \in DOMAIN p /\ k \in 1 .. Len(p) + 1 /\ i \in 1 .. Len(p) + 1
          /\ k < i
      OBVIOUS
    <3>2. f[k] \in DOMAIN q /\ q[f[k]].kind = "LEGACY" /\ f[k] < f[i]
      BY <2>3, <3>1 DEF Thins
    <3>3. f[k] \in 1 .. f[i] - 1
      BY <1>1, <2>1, <3>2
    <3> QED
      BY <3>2, <3>3 DEF ToldBefore
  <2> QED
    BY <1>2, <2>1, <2>2, <2>3 DEF ToldBefore
<1> QED
  BY <1>2, HooklessKept

\* Something else than a receipt is sent.
LEMMA HooklessSent ==
    ASSUME IInv, HooklessInv, DrainStays, client' = client,
           NEW x \in ClientItem, x.kind # "ACK",
           to_client' = Append(to_client, x)
    PROVE  HooklessInv'
<1> DEFINE q == to_client
           p == to_client'
<1>1. q \in Seq(ClientItem)
  BY Known
<1>2. /\ p[Len(q) + 1] = x
      /\ \A i \in DOMAIN q : i \in DOMAIN p /\ p[i] = q[i]
      /\ \A i \in DOMAIN p : i \in DOMAIN q \/ i = Len(q) + 1
  BY <1>1, ItemSent
<1>3. ASSUME NEW i \in DOMAIN p, p[i].kind = "ACK",
             ~client.on \/ ToldBefore(p, i)
      PROVE  i \in DOMAIN q /\ q[i] = p[i] /\ (~client.on \/ ToldBefore(q, i))
  <2>1. i \in DOMAIN q /\ q[i] = p[i]
    BY <1>2, <1>3
  <2>2. \A k \in 1 .. i - 1 : k \in DOMAIN q /\ p[k] = q[k]
    BY <1>1, <1>2, <2>1
  <2> QED
    BY <1>3, <2>1, <2>2 DEF ToldBefore
<1> QED
  BY <1>3, HooklessKept

LEMMA HooklessServerSends ==
    ASSUME IInv, HooklessInv, DrainStays, ServerSendsCarrier
    PROVE  HooklessInv'
<1> DEFINE q == to_client
           p == to_client'
           n == Len(q) + 1
<1>1. PICK kind \in Carrier :
          /\ kind = "DATA" => ServerMaySendData(server)
          /\ kind = "ACK" => ServerMaySendAck(server)
          /\ p = Append(q, Item(kind, server.transport))
          /\ server' \in {server} \cup
                         IF kind = "ACK" THEN {[server EXCEPT !.owes = FALSE]}
                                         ELSE {}
          /\ client' = client
  BY DEF ServerSendsCarrier
<1> DEFINE x == Item(kind, server.transport)
<1>2. x \in ClientItem /\ x.kind = kind /\ x.epoch = server.transport
  BY Known DEF Item, ClientItem, ToClient, Carrier
<1>3. CASE kind = "DATA"
  BY <1>1, <1>2, <1>3, HooklessSent
<1>4. CASE kind = "ACK"
  <2>1. server'.life = server.life /\ server'.transport = server.transport
    BY <1>1, Known DEF GoodServer, Server
  <2>2. q \in Seq(ClientItem)
    BY Known
  <2>3. /\ p[n] = x
        /\ \A i \in DOMAIN q : i \in DOMAIN p /\ p[i] = q[i]
        /\ \A i \in DOMAIN p : i \in DOMAIN q \/ i = n
    BY <1>1, <1>2, <2>2, ItemSent
  <2>4. \A i \in 1 .. n : \A k \in 1 .. i - 1 : k \in DOMAIN q /\ p[k] = q[k]
    BY <2>2, <2>3
  <2>5. ASSUME NEW i \in DOMAIN q, p[i].kind = "ACK",
               ~client.on \/ ToldBefore(p, i)
        PROVE  FromDrain(p[i])
    <3>1. i \in 1 .. n
      BY <2>2
    <3>2. ~client.on \/ ToldBefore(q, i)
      BY <2>4, <2>5, <3>1 DEF ToldBefore
    <3> QED
      BY <2>3, <2>5, <3>2 DEF HooklessInv
  <2>6. ASSUME ~client.on \/ ToldBefore(p, n)
        PROVE  FromDrain(x)
    <3>1. n \in 1 .. n
      BY <2>2
    <3>2. ~client.on \/ \E k \in DOMAIN q : q[k].kind = "LEGACY"
      BY <2>4, <2>6, <3>1 DEF ToldBefore
    <3>3. ~client.on \/ ~server.on
      BY <3>2 DEF IInv, OffInv, Range
    <3>4. ~ServerMaySendData(server)
      BY <3>3 DEF ServerMaySendData, IInv, OffInv, ServerInv
    <3> QED
      BY <1>1, <1>2, <1>4, <3>4 DEF ServerMaySendAck, FromDrain
  <2>7. ASSUME NEW i \in DOMAIN p, p[i].kind = "ACK",
               ~client.on \/ ToldBefore(p, i)
        PROVE  FromDrain(p[i])
    BY <2>3, <2>5, <2>6, <2>7
  <2> HIDE DEF q, p, n, x
  <2> QED
    BY <1>1, <2>1, <2>7 DEF HooklessInv, FromDrain, p
<1> QED
  BY <1>3, <1>4 DEF Carrier

\* A record reaches the client.  If it is the legacy serverdata, all that is
\* left was sent after it.
LEMMA HooklessClientRxRecord ==
    ASSUME IInv, HooklessInv, DrainStays, ClientRxRecord
    PROVE  HooklessInv'
<1> DEFINE c == ClientPacketBegin(client)
           q == to_client
           p == to_client'
<1>1. PICK x \in DOMAIN q :
          /\ IsRecord(q[x])
          /\ p = WithoutArrived(q, x)
          /\ \/ RxChanging(c)
             \/ RxServerData(c, TRUE)
             \/ q[x].kind = "LEGACY" /\ RxServerData(c, FALSE)
             \/ RxChallenge(c, q[x].epoch)
             \/ RxServerActive(c, q[x].epoch)
  BY DEF ClientRxRecord
<1>2. /\ GoodClient(c) /\ GoodClient(client) /\ ClientLearns(client, c)
      /\ q \in Seq(ClientItem)
  BY Known, ClientPacketBeginGood
<1> HIDE DEF c
<1>3. /\ Failed(c).on \/ c.epoch = 0 \/ ~c.on
      /\ MapBoundary(c).on = c.on
  BY <1>2, FailedGood, MapBoundaryGood DEF ClientLearns
<1>4. q[x].kind = "LEGACY" \/ (c.on => client'.on \/ c.epoch = 0)
  <2>1. CASE RxChanging(c)
    BY <1>3, <2>1 DEF RxChanging
  <2>2. CASE RxServerData(c, TRUE)
    <3>1. ASSUME c.on PROVE [MapBoundary(c) EXCEPT !.confirmed = TRUE].on
      BY <1>2, <1>3, <3>1, MapBoundaryGood DEF GoodClient, Client
    <3> QED
      BY <2>2, <3>1 DEF RxServerData
  <2>3. CASE RxChallenge(c, q[x].epoch)
    <3>1. Armed(c, q[x].epoch).on = c.on
      BY <1>2 DEF Armed, GoodClient, Client
    <3> QED
      BY <1>3, <2>3, <3>1 DEF RxChallenge
  <2>4. CASE RxServerActive(c, q[x].epoch)
    <3> DEFINE a == Activated(c, q[x].epoch)
    <3>1. /\ a.on = c.on /\ a.committed = c.committed
          /\ [a EXCEPT !.phase = "ACTIVE"].on = c.on
          /\ Draining(a).on = a.on
      BY <1>2 DEF Activated, Draining, GoodClient, Client
    <3>2. c.epoch # 0 => c.committed
      BY <1>2 DEF GoodClient, ClientInv
    <3> HIDE DEF a
    <3>3. c.on /\ c.epoch # 0 => Failed(a).on
      BY <3>1, <3>2 DEF Failed
    <3>4. client' \in {c, Failed(c), [a EXCEPT !.phase = "ACTIVE"], Failed(a)}
      BY <2>4 DEF RxServerActive, a
    <3> QED
      BY <1>3, <3>1, <3>3, <3>4
  <2> QED
    BY <1>1, <2>1, <2>2, <2>3, <2>4
<1>5. q[x].kind = "LEGACY" \/ (client.on => client'.on \/ client.epoch = 0)
  BY <1>2, <1>4 DEF ClientLearns
<1>6. /\ x \in 1 .. Len(q) /\ Len(q) \in Nat
      /\ \A i \in DOMAIN p : i + x \in DOMAIN q /\ p[i] = q[i + x]
  <2>1. p = SubSeq(q, x + 1, Len(q))
    BY <1>1 DEF WithoutArrived
  <2> QED
    BY <1>1, <1>2, <2>1, RecordArrives
<1>7. /\ DOMAIN p \subseteq Nat \ {0}
      /\ \A i \in DOMAIN p : \A k \in 1 .. i - 1 : k \in DOMAIN p
  <2>1. p \in Seq(ClientItem)
    BY <1>1, <1>2, ArrivalThins
  <2> QED
    BY <2>1
<1>8. ASSUME NEW i \in DOMAIN p, p[i].kind = "ACK",
             ~client'.on \/ ToldBefore(p, i)
      PROVE  \E j \in DOMAIN q : /\ q[j] = p[i]
                                 /\ ~client.on \/ ToldBefore(q, j)
  <2>1. i + x \in DOMAIN q /\ q[i + x] = p[i]
    BY <1>6
  <2>2. CASE q[x].kind = "LEGACY"
    <3>1. x \in 1 .. (i + x) - 1
      BY <1>6, <1>7
    <3> QED
      BY <2>1, <2>2, <3>1 DEF ToldBefore
  <2>3. CASE ~client'.on /\ q[x].kind # "LEGACY"
    <3>1. client.on => client.epoch = 0
      BY <1>5, <2>3
    <3>2. ~client.on
      BY <1>8, <2>1, <3>1, UncommittedUnsent
    <3> QED
      BY <2>1, <3>2
  <2>4. CASE ToldBefore(p, i)
    <3>1. PICK k \in 1 .. i - 1 : p[k].kind = "LEGACY"
      BY <2>4 DEF ToldBefore
    <3>2. q[k + x].kind = "LEGACY" /\ k + x \in 1 .. (i + x) - 1
      BY <1>6, <1>7, <3>1
    <3>3. ToldBefore(q, i + x)
      BY <3>2 DEF ToldBefore
    <3> QED
      BY <2>1, <3>3
  <2> QED
    BY <1>8, <2>2, <2>3, <2>4
<1> QED
  BY <1>8, HooklessKept

LEMMA HooklessClientRxCarrier ==
    ASSUME IInv, IInv', HooklessInv, DrainStays, ClientRxCarrier
    PROVE  HooklessInv'
<1>1. PICK i \in DOMAIN to_client :
          /\ ~IsRecord(to_client[i])
          /\ to_client' = WithoutArrived(to_client, i)
          /\ LET d == [client EXCEPT
                           !.owes = client.owes \/ to_client[i].kind = "DATA"]
             IN  client' \in {Draining(client), ClientPacketBegin(client),
                              ClientPacketBegin(d)}
  BY DEF ClientRxCarrier
<1>2. \E f : Thins(to_client, to_client', f)
  <2>1. to_client' = RemoveAt(to_client, i)
    BY <1>1 DEF WithoutArrived
  <2> QED
    BY <1>1, <2>1, Known, CarrierThins
<1>3. client.on => to_client[i].kind \in Carrier /\ client.epoch # 0
  <2>1. to_client[i] \in Range(to_client) /\ to_client[i] \in ClientItem
        /\ to_client[i].kind \in Carrier
    BY <1>1, Known DEF Range, IsRecord
  <2>2. to_client[i].epoch > 0 /\ KnownToClient(to_client[i].epoch)
    BY <2>1 DEF IInv, ClientKnows
  <2> QED
    BY <2>1, <2>2
       DEF KnownToClient, IInv, Types, Client, ClientItem, ClientInv
<1>4. client.on => client'.on
  <2> SUFFICES ASSUME client.on PROVE client'.on
    OBVIOUS
  <2> DEFINE owing == [client EXCEPT
                           !.owes = client.owes \/ to_client[i].kind = "DATA"]
  <2>1. client \in Client /\ client.committed
    BY <1>3 DEF IInv, Types, ClientInv
  <2>2. ASSUME NEW d \in {client, owing}
        PROVE  ClientPacketBegin(d).on /\ Draining(d).on
    <3>1. d.on /\ d.committed /\ Draining(d).on
      BY <2>1 DEF Draining, Client
    <3> HIDE DEF owing
    <3> QED
      BY <3>1 DEF ClientPacketBegin, Failed
  <2>3. client' \in {Draining(client), ClientPacketBegin(client),
                     ClientPacketBegin(owing)}
    BY <1>1
  <2> HIDE DEF owing
  <2> QED
    BY <2>2, <2>3
<1> QED
  BY <1>2, <1>4, HooklessThins DEF IInv, Types

LEMMA HooklessSame ==
    ASSUME HooklessInv, DrainStays, client' = client, to_client' = to_client
    PROVE  HooklessInv'
  BY HooklessKept

\* The steps of the server that send a record or nothing.
LEMMA HooklessServer ==
    ASSUME IInv, IInv', HooklessInv, DrainStays,
           ChangeMap \/ ServerRxRecord \/ Service
    PROVE  HooklessInv'
<1>1. \A kind \in ToClient, e \in Nat :
          Item(kind, e) \in ClientItem /\ Item(kind, e).kind = kind
  BY DEF Item, ClientItem
<1>2. ASSUME client' = client, NEW kind \in ToClient \ {"ACK"}, NEW e \in Nat,
             to_client' = Append(to_client, Item(kind, e))
      PROVE  HooklessInv'
  BY <1>1, <1>2, HooklessSent
<1>3. CASE ChangeMap
  <2>1. client' = client /\ to_client' = Append(to_client, Item("CHANGING", 0))
    BY <1>3 DEF ChangeMap
  <2> QED
    BY <1>2, <2>1 DEF ToClient
<1>4. CASE Service
  <2>1. /\ client' = client /\ server.epoch + 1 \in Nat
        /\ \/ to_client' = to_client
           \/ to_client' = Append(to_client,
                                  Item("CHALLENGE", server.epoch + 1))
    BY <1>4, Known DEF Service
  <2>2. CASE to_client' = to_client
    BY <2>1, <2>2, HooklessSame
  <2>3. CASE to_client' = Append(to_client, Item("CHALLENGE", server.epoch + 1))
    BY <1>2, <2>1, <2>3 DEF ToClient
  <2> QED
    BY <2>1, <2>2, <2>3
<1>5. CASE ServerRxRecord
  <2>1. PICK i \in DOMAIN to_server :
            LET s == ServerPacketBegin(server)
                e == to_server[i].epoch
            IN  RxNew(s) \/ RxBegin(s) \/ RxReady(s, e) \/ RxConfirm(s, e)
    BY <1>5 DEF ServerRxRecord
  <2>2. client' = client /\ to_server[i].epoch \in Nat
    BY <1>5, ItemEpochs DEF ServerRxRecord, Range
  <2>3. \/ to_client' = to_client
        \/ \E kind \in {"SERVERDATA", "LEGACY", "SERVER_ACTIVE"}, e \in Nat :
               to_client' = Append(to_client, Item(kind, e))
    <3>1. RxNew(ServerPacketBegin(server)) \/ RxBegin(ServerPacketBegin(server))
          => \/ to_client' = to_client
             \/ \E kind \in {"SERVERDATA", "LEGACY"} :
                    to_client' = Append(to_client, Item(kind, 0))
      BY DEF RxNew, RxBegin, New, Ignore
    <3>2. RxReady(ServerPacketBegin(server), to_server[i].epoch)
          => \/ to_client' = to_client
             \/ to_client' = Append(to_client, Item("SERVER_ACTIVE",
                                                    to_server[i].epoch))
      BY DEF RxReady, Ignore
    <3>3. RxConfirm(ServerPacketBegin(server), to_server[i].epoch)
          => to_client' = to_client
      BY DEF RxConfirm, Ignore
    <3> QED
      BY <2>1, <2>2, <3>1, <3>2, <3>3
  <2>4. CASE to_client' = to_client
    BY <2>2, <2>4, HooklessSame
  <2>5. \A kind \in {"SERVERDATA", "LEGACY", "SERVER_ACTIVE"} :
            kind \in ToClient \ {"ACK"}
    BY DEF ToClient
  <2> QED
    BY <1>2, <2>2, <2>3, <2>4, <2>5
<1> QED
  BY <1>3, <1>4, <1>5

\* What the ends do by themselves.
LEMMA HooklessLocal ==
    ASSUME IInv, IInv', HooklessInv, DrainStays,
           \/ UNCHANGED vars
           \/ LoseCarrier \/ ServerRxCarrier \/ ServerRxPlain
           \/ ServerTxExpired \/ ServerFails \/ ServerDeadlinePasses
           \/ ClientDeadlinePasses \/ QueueExpires \/ ClientRxPlain
           \/ ClientBegins \/ ClientSendsCarrier \/ ClientFails
    PROVE  HooklessInv'
<1>1. /\ GoodClient(client) /\ client \in Client
      /\ to_client \in Seq(ClientItem) /\ to_client' \in Seq(ClientItem)
  BY Known DEF GoodClient, IInv, Types
<1>2. \E f : Thins(to_client, to_client', f)
  <2>1. CASE LoseCarrier
    BY <1>1, <2>1, SameThins, CarrierThins DEF LoseCarrier
  <2>2. CASE ~LoseCarrier
    <3>1. to_client' = to_client
      BY <2>2
         DEF vars, ServerRxCarrier, ServerRxPlain, ServerTxExpired,
             ServerFails, ServerDeadlinePasses, ClientDeadlinePasses,
             QueueExpires, ClientRxPlain, ClientBegins, ClientSendsCarrier,
             ClientFails
    <3> QED
      BY <1>1, <3>1, SameThins
  <2> QED
    BY <2>1, <2>2
<1>3. client.on /\ ~client'.on => client.epoch = 0
  <2>1. CASE ClientRxPlain \/ ClientFails
    BY <1>1, <2>1, FailedGood, ClientPacketBeginGood
       DEF ClientRxPlain, ClientFails, ClientLearns
  <2>2. CASE client' \in {client, [client EXCEPT !.late = TRUE],
                          [client EXCEPT !.owes = FALSE]}
    <3>1. client'.on = client.on
      BY <1>1, <2>2 DEF Client
    <3> QED
      BY <3>1
  <2> QED
    BY <2>1, <2>2
       DEF vars, LoseCarrier, ServerRxCarrier, ServerRxPlain, ServerTxExpired,
           ServerFails, ServerDeadlinePasses, ClientDeadlinePasses,
           QueueExpires, ClientBegins, ClientSendsCarrier
<1> QED
  BY <1>1, <1>2, <1>3, HooklessThins

THEOREM HooklessHolds == Spec => []HooklessInv
<1>1. Init => HooklessInv
  BY DEF Init, HooklessInv
<1>2. IInv /\ IInv' /\ HooklessInv /\ [Next]_vars => HooklessInv'
  BY DrainIsFinal, HooklessServer, HooklessServerSends,
     HooklessClientRxRecord, HooklessClientRxCarrier, HooklessLocal DEF Next
<1> QED
  BY <1>1, <1>2, Invariance, PTL DEF Spec

\* The wire commitment keeps all carriers from a server peer that has detached
\* its hooks, and DATA from a client whose pilot is disabled.  What such a
\* client may still get, against inc/common/net/native_carrier.h:24, is the
\* receipt of a server that drains, and nothing else.
THEOREM CarriersMeetHooks == Spec => []OnlyReceiptsToHookless
<1>1. IInv /\ HooklessInv => OnlyReceiptsToHookless
  <2> SUFFICES ASSUME IInv, HooklessInv PROVE OnlyReceiptsToHookless
    OBVIOUS
  <2>1. ASSUME server.life = "DETACHED", NEW i \in DOMAIN to_server
        PROVE  IsRecord(to_server[i])
    <3>1. to_server[i] \in Range(to_server) /\ server.wire = 0
      BY <2>1 DEF Range, IInv, ServerInv
    <3> QED
      BY <3>1 DEF IInv, ServerKnows, KnownToServer, IsRecord
  <2>2. ASSUME ~client.on, NEW i \in DOMAIN to_client, ~IsRecord(to_client[i])
        PROVE  to_client[i].kind = "ACK" /\ FromDrain(to_client[i])
    <3>1. to_client[i] \in Range(to_client) /\ to_client[i].kind \in Carrier
      BY <2>2 DEF Range, IsRecord
    <3>2. to_client[i].kind = "ACK"
      BY <2>2, <3>1 DEF IInv, OffInv, Carrier
    <3> QED
      BY <2>2, <3>2 DEF HooklessInv
  <2> QED
    BY <2>1, <2>2 DEF OnlyReceiptsToHookless, FromDrain
<1> QED
  BY Invariance, HooklessHolds, <1>1, PTL

-----------------------------------------------------------------------------
(***************************************************************************)
(* What only time can do.  A deadline is the one thing that an epoch       *)
(* outlives its floor with: NoDrainByCancelledEpoch fails in a run in      *)
(* which time passes, and here is what remains of it without.              *)
(***************************************************************************)
LateInv == "time" \notin faults => ~server.late /\ ~client.late

LEMMA LateKept ==
    ASSUME NEW s \in Server, ~s.late
    PROVE  /\ ServerPacketBegin(s) = s
           /\ ~Drained(s).late /\ ~Disable(s).late
           /\ ~QuiesceMap(s).late /\ ~BeginEpoch(s).late
           /\ ~Opened(Ready(s)).late /\ ~NotOpened(Ready(s)).late
           /\ ~Disable(Ready(s)).late
           /\ ~[s EXCEPT !.owes = FALSE].late
           /\ ~[s EXCEPT !.phase = "ACTIVE", !.late = FALSE].late
           /\ \A x : ~ServerPacketBegin(ServerTakes(s, x)).late
<1>1. ASSUME NEW t \in Server
      PROVE  ~Drained(t).late /\ ~Disable(t).late
  BY DEF Drained, Disable, Server
<1>2. ASSUME NEW t, ~t.late PROVE ServerPacketBegin(t) = t
  BY <1>2 DEF ServerPacketBegin, Expired
<1>3. ~QuiesceMap(s).late
  BY DEF QuiesceMap, Cancelled, Server
<1>4. ~BeginEpoch(s).late
  BY DEF BeginEpoch, Cancelled, Server
<1>5. Ready(s) \in Server /\ ~Ready(s).late
  BY DEF Ready, Server
<1>6. ~Opened(Ready(s)).late
  BY <1>5 DEF Opened, Server
<1>7. ~NotOpened(Ready(s)).late
  <2>1. [Ready(s) EXCEPT !.wire = Ready(s).epoch] \in Server
    BY <1>5 DEF Server
  <2> QED
    BY <1>1, <2>1 DEF NotOpened
<1>8. ~[s EXCEPT !.owes = FALSE].late /\ ~[s EXCEPT !.owes = TRUE].late
  BY DEF Server
<1>9. ~[s EXCEPT !.phase = "ACTIVE", !.late = FALSE].late
  BY DEF Server
<1>10. ASSUME NEW x PROVE ~ServerPacketBegin(ServerTakes(s, x)).late
  <2>1. ServerTakes(s, x) \in {s, Drained(s), [s EXCEPT !.owes = TRUE]}
    BY DEF ServerTakes
  <2> QED
    BY <1>1, <1>2, <1>8, <2>1
<1> QED
  BY <1>1, <1>2, <1>3, <1>4, <1>5, <1>6, <1>7, <1>8, <1>9, <1>10

LEMMA ClientLateKept ==
    ASSUME NEW c \in Client, ~c.late
    PROVE  /\ ClientPacketBegin(c) = c
           /\ ~Off.late /\ ~Draining(c).late /\ ~Failed(c).late
           /\ ~MapBoundary(c).late
           /\ ~[MapBoundary(c) EXCEPT !.confirmed = TRUE].late
           /\ \A b \in BOOLEAN : ~[c EXCEPT !.owes = b].late
           /\ \A e : /\ ~Armed(c, e).late
                     /\ ~[Activated(c, e) EXCEPT !.phase = "ACTIVE"].late
                     /\ ~Failed(Activated(c, e)).late
<1>1. ~Off.late
  BY DEF Off, FreshClient
<1>2. ClientPacketBegin(c) = c
  BY DEF ClientPacketBegin, Expired
<1>3. ~Draining(c).late /\ ~Failed(c).late
  BY <1>1 DEF Draining, Failed, Client
<1>4. /\ ~MapBoundary(c).late
      /\ ~[MapBoundary(c) EXCEPT !.confirmed = TRUE].late
  BY DEF MapBoundary, Draining, Client
<1>5. \A b \in BOOLEAN : ~[c EXCEPT !.owes = b].late
  BY DEF Client
<1>6. ASSUME NEW e
      PROVE  /\ ~Armed(c, e).late
             /\ ~[Activated(c, e) EXCEPT !.phase = "ACTIVE"].late
             /\ ~Failed(Activated(c, e)).late
  <2>1. ~Armed(c, e).late
    BY DEF Armed, Client
  <2>2. ~Activated(c, e).late
        /\ ~[Activated(c, e) EXCEPT !.phase = "ACTIVE"].late
    BY DEF Activated, Client
  <2>3. ~[Activated(c, e) EXCEPT !.mode = "DRAIN"].late
    BY DEF Activated, Client
  <2> QED
    BY <1>1, <2>1, <2>2, <2>3 DEF Failed, Draining
<1> QED
  BY <1>1, <1>2, <1>3, <1>4, <1>5, <1>6

LEMMA LateInit == Init => LateInv
  BY DEF Init, LateInv, FreshServer, FreshClient

LEMMA LateServer ==
    ASSUME IInv, ~server.late,
           \/ ChangeMap \/ ServerRxRecord \/ ServerRxCarrier \/ ServerRxPlain
           \/ Service \/ ServerSendsCarrier \/ ServerTxExpired
           \/ ServerFails \/ QueueExpires
    PROVE  ~server'.late /\ client' = client /\ faults' = faults
<1>1. server \in Server
  BY DEF IInv, Types
<1>2. CASE ChangeMap \/ Service \/ QueueExpires \/ ServerFails \/ ServerTxExpired
  BY <1>1, <1>2, LateKept
     DEF ChangeMap, Service, QueueExpires, ServerFails, ServerTxExpired
<1>3. CASE ServerSendsCarrier
  <2>1. server' \in {server, [server EXCEPT !.owes = FALSE]}
        /\ client' = client /\ faults' = faults
    BY <1>3 DEF ServerSendsCarrier
  <2> QED
    BY <1>1, <2>1, LateKept
<1>4. CASE ServerRxPlain
  BY <1>1, <1>4, LateKept DEF ServerRxPlain
<1>5. CASE ServerRxCarrier
  BY <1>1, <1>5, LateKept DEF ServerRxCarrier
<1>6. CASE ServerRxRecord
  <2>1. ServerPacketBegin(server) = server
    BY <1>1, LateKept
  <2>2. PICK e :
            \/ RxNew(server) \/ RxBegin(server)
            \/ RxReady(server, e) \/ RxConfirm(server, e)
    BY <1>6, <2>1 DEF ServerRxRecord
  <2>3. server' \in {server, Disable(server), Opened(Ready(server)),
                     NotOpened(Ready(server)), Disable(Ready(server)),
                     [server EXCEPT !.phase = "ACTIVE", !.late = FALSE]}
    BY <2>2 DEF RxNew, RxBegin, RxReady, RxConfirm, New, Ignore
  <2> QED
    BY <1>1, <1>6, <2>3, LateKept DEF ServerRxRecord
<1> QED
  BY <1>2, <1>3, <1>4, <1>5, <1>6

LEMMA LateClient ==
    ASSUME IInv, ~client.late,
           \/ ClientRxRecord \/ ClientRxCarrier \/ ClientRxPlain
           \/ ClientBegins \/ ClientSendsCarrier \/ ClientFails
    PROVE  ~client'.late /\ server' = server /\ faults' = faults
<1>1. client \in Client
  BY DEF IInv, Types
<1>2. CASE ClientBegins \/ ClientRxPlain \/ ClientFails
  BY <1>1, <1>2, ClientLateKept DEF ClientBegins, ClientRxPlain, ClientFails
<1>3. CASE ClientSendsCarrier
  <2>1. client' \in {client, [client EXCEPT !.owes = FALSE]}
        /\ server' = server /\ faults' = faults
    BY <1>3 DEF ClientSendsCarrier
  <2> QED
    BY <1>1, <2>1, ClientLateKept
<1>4. CASE ClientRxCarrier
  <2>1. PICK i \in DOMAIN to_client :
            \/ client' = Draining(client)
            \/ client' = ClientPacketBegin(client)
            \/ client' = ClientPacketBegin(
                  [client EXCEPT !.owes = client.owes
                                          \/ to_client[i].kind = "DATA"])
    BY <1>4 DEF ClientRxCarrier
  <2>2. PICK b \in BOOLEAN : b = (client.owes \/ to_client[i].kind = "DATA")
    <3>1. client.owes \in BOOLEAN
      BY <1>1 DEF Client
    <3> QED
      BY <3>1
  <2>3. /\ ~[client EXCEPT !.owes = b].late
        /\ ClientPacketBegin([client EXCEPT !.owes = b])
               = [client EXCEPT !.owes = b]
    <3>1. ~[client EXCEPT !.owes = b].late
      BY <1>1, ClientLateKept
    <3> QED
      BY <3>1 DEF ClientPacketBegin, Expired
  <2>4. ~client'.late
    BY <1>1, <2>1, <2>2, <2>3, ClientLateKept
  <2> QED
    BY <1>4, <2>4 DEF ClientRxCarrier
<1>5. CASE ClientRxRecord
  <2>1. ClientPacketBegin(client) = client
    BY <1>1, ClientLateKept
  <2>2. PICK e :
            \/ RxChanging(client) \/ RxServerData(client, TRUE)
            \/ RxServerData(client, FALSE)
            \/ RxChallenge(client, e) \/ RxServerActive(client, e)
    BY <1>5, <2>1 DEF ClientRxRecord
  <2>3. client' \in {client, Failed(client), MapBoundary(client), Off,
                     [MapBoundary(client) EXCEPT !.confirmed = TRUE],
                     Armed(client, e), Failed(Activated(client, e)),
                     [Activated(client, e) EXCEPT !.phase = "ACTIVE"]}
    BY <2>2 DEF RxChanging, RxServerData, RxChallenge, RxServerActive
  <2> QED
    BY <1>1, <1>5, <2>3, ClientLateKept DEF ClientRxRecord
<1> QED
  BY <1>2, <1>3, <1>4, <1>5

LEMMA LateNext == IInv /\ LateInv /\ [Next]_vars => LateInv'
<1> SUFFICES ASSUME IInv, LateInv, [Next]_vars, "time" \notin faults
             PROVE  ~server'.late /\ ~client'.late /\ faults' = faults
  BY DEF LateInv, Next, vars, ChangeMap, LoseCarrier, ServerRxRecord,
         ServerRxCarrier, ServerRxPlain, Service, ServerSendsCarrier,
         ServerTxExpired, ServerFails, ServerDeadlinePasses,
         ClientDeadlinePasses, QueueExpires, ClientRxRecord,
         ClientRxCarrier, ClientRxPlain, ClientBegins, ClientSendsCarrier,
         ClientFails
<1>1. ~server.late /\ ~client.late
  BY DEF LateInv
<1>2. CASE UNCHANGED vars \/ LoseCarrier
  BY <1>1, <1>2 DEF vars, LoseCarrier
<1>3. CASE Next
  <2>1. ~ServerDeadlinePasses /\ ~ClientDeadlinePasses
    BY DEF ServerDeadlinePasses, ClientDeadlinePasses
  <2> QED
    BY <1>1, <1>2, <1>3, <2>1, LateServer, LateClient DEF Next
<1> QED
  BY <1>2, <1>3

THEOREM LateHolds == Spec => []LateInv
  BY Invariance, LateInit, LateNext, PTL DEF Spec

\* native_shadow_rx takes the connection down for one reason only: a carrier
\* comes to a peer whose wait for the CONFIRM has passed its deadline
\* (src/server/native_shadow.c:1658).  Map changes, lost carriers and local
\* failures of either end never bring a carrier that the server refuses.
DroppedOverTime == dropped = "server" => "time" \in faults

THEOREM ServerDropsOverTime == Spec => []DroppedOverTime
<1>1. Init => DroppedOverTime
  BY DEF Init, DroppedOverTime
<1>2. ASSUME IInv, LateInv, DroppedOverTime, [Next]_vars
      PROVE  DroppedOverTime'
  <2>1. faults' = faults
    BY <1>2
       DEF Next, vars, ChangeMap, LoseCarrier, ServerRxRecord,
           ServerRxCarrier, ServerRxPlain, Service, ServerSendsCarrier,
           ServerTxExpired, ServerFails, ServerDeadlinePasses,
           ClientDeadlinePasses, QueueExpires, ClientRxRecord,
           ClientRxCarrier, ClientRxPlain, ClientBegins, ClientSendsCarrier,
           ClientFails
  <2>2. CASE dropped' = dropped \/ dropped' = "client"
    BY <1>2, <2>1, <2>2 DEF DroppedOverTime
  <2>3. CASE ServerRxCarrier /\ dropped' # dropped
    <3>1. PICK i \in DOMAIN to_server :
              /\ ~IsRecord(to_server[i])
              /\ \/ ServerRejects(server, to_server[i].epoch)
                 \/ server.life = "DETACHED"
      BY <2>3 DEF ServerRxCarrier
    <3>2. server.floor >= to_server[i].epoch \/ server.wire = to_server[i].epoch
      BY <1>2, <3>1
         DEF IInv, ServerKnows, KnownToServer, Range, IsRecord
    <3>3. server.floor \in Nat /\ to_server[i].epoch \in Nat
      BY <1>2, ItemEpochs DEF IInv, Types, Server, Range
    <3>4. server.wire # 0
      BY <1>2, <3>1 DEF IInv, ServerKnows, KnownToServer, Range, IsRecord
    <3>5. ServerRejects(server, to_server[i].epoch)
      BY <1>2, <3>1, <3>4 DEF IInv, ServerInv
    <3>6. Expired(server)
      BY <3>2, <3>3, <3>5 DEF ServerRejects
    <3> QED
      BY <1>2, <2>1, <3>6 DEF Expired, LateInv, DroppedOverTime
  <2>4. dropped' = dropped \/ dropped' = "client" \/ ServerRxCarrier
    BY <1>2
       DEF Next, vars, ChangeMap, LoseCarrier, ServerRxRecord,
           ServerRxPlain, Service, ServerSendsCarrier,
           ServerTxExpired, ServerFails, ServerDeadlinePasses,
           ClientDeadlinePasses, QueueExpires, ClientRxRecord,
           ClientRxCarrier, ClientRxPlain, ClientBegins, ClientSendsCarrier,
           ClientFails
  <2> QED
    BY <2>2, <2>3, <2>4
<1> QED
  BY <1>1, <1>2, Invariance, LateHolds, PTL DEF Spec

\* Without a deadline that passes and without a local failure, a peer never
\* drains over an epoch that a map change has cancelled: what
\* src/server/init.c:46 says of SV_NativeShadowPeerQuiesceMapV1 is true but
\* for the deadline, which is not cancelled with the epoch.
CancelledEpochIsQuiet ==
    faults \cap {"server", "time"} = {} /\ server.on /\ server'.life = "DRAIN"
        => server.epoch > server.floor

LEMMA QuietlyCancelled ==
    ASSUME IInv, BoundInv, LateInv, [Next]_vars,
           faults \cap {"server", "time"} = {}, server.on,
           server'.life = "DRAIN"
    PROVE  server.epoch > server.floor
<1>1. /\ server \in Server /\ ~server.late /\ server.life # "DRAIN"
      /\ server.epoch \in Nat /\ server.floor \in Nat
      /\ ServerPacketBegin(server) = server /\ ~Expired(server)
      /\ "server" \notin faults /\ "time" \notin faults
  <2>1. ~server.late /\ "server" \notin faults /\ "time" \notin faults
    BY DEF LateInv
  <2> QED
    BY <2>1, LateKept DEF IInv, Types, Server, ServerInv, Expired
<1>2. \A i \in DOMAIN to_server : /\ to_server[i].epoch \in Nat
                                  /\ to_server[i].epoch <= server.epoch
  BY ItemEpochs DEF BoundInv, EpochsBehind, Range
<1>3. CASE server' = server
  BY <1>1, <1>3
<1>4. CASE ServerSendsCarrier
  <2>1. server' \in {server, [server EXCEPT !.owes = FALSE]}
    BY <1>4 DEF ServerSendsCarrier
  <2>2. server'.life = server.life
    BY <1>1, <2>1 DEF Server
  <2> QED
    BY <1>1, <2>2
<1>5. CASE ChangeMap \/ Service
  <2>1. /\ QuiesceMap(server).life # "DRAIN"
        /\ BeginEpoch(server).life # "DRAIN"
    BY <1>1 DEF QuiesceMap, BeginEpoch, Cancelled, Server
  <2> QED
    BY <1>5, <2>1 DEF ChangeMap, Service
<1>6. CASE ServerRxCarrier
  <2>1. PICK i \in DOMAIN to_server :
            \/ ServerRejects(server, to_server[i].epoch)
            \/ server' = ServerPacketBegin(ServerTakes(server, to_server[i]))
    BY <1>6 DEF ServerRxCarrier
  <2>2. CASE to_server[i].epoch <= server.floor
    <3>1. ~ServerRejects(server, to_server[i].epoch)
      BY <1>1, <1>2, <2>2 DEF ServerRejects
    <3>2. server' = server
      BY <1>1, <2>1, <2>2, <3>1 DEF ServerTakes
    <3> QED
      BY <1>3, <3>2
  <2>3. CASE ~(to_server[i].epoch <= server.floor)
    BY <1>1, <1>2, <2>3
  <2> QED
    BY <2>2, <2>3
<1>7. CASE ServerRxRecord
  <2>1. PICK i \in DOMAIN to_server :
            \/ RxNew(server) \/ RxBegin(server)
            \/ RxReady(server, to_server[i].epoch)
            \/ RxConfirm(server, to_server[i].epoch)
    BY <1>1, <1>7 DEF ServerRxRecord
  <2>2. CASE RxNew(server) \/ RxBegin(server)
    BY <1>3, <2>2 DEF RxNew, RxBegin, New, Ignore
  <2>3. CASE /\ RxReady(server, to_server[i].epoch)
                \/ RxConfirm(server, to_server[i].epoch)
             /\ to_server[i].epoch <= server.floor
    <3>1. ~(to_server[i].epoch > server.floor)
      BY <1>1, <1>2, <2>3
    <3> QED
      BY <1>3, <2>3, <3>1 DEF RxReady, RxConfirm, Ignore
  <2>4. CASE ~(to_server[i].epoch <= server.floor)
    BY <1>1, <1>2, <2>4
  <2> QED
    BY <2>1, <2>2, <2>3, <2>4
<1>8. \/ server' = server \/ ServerSendsCarrier \/ ChangeMap \/ Service
      \/ ServerRxCarrier \/ ServerRxRecord
  BY <1>1
     DEF Next, vars, LoseCarrier, ServerRxPlain,
         ServerTxExpired, ServerFails, ServerDeadlinePasses,
         ClientDeadlinePasses, QueueExpires, ClientRxRecord,
         ClientRxCarrier, ClientRxPlain, ClientBegins, ClientSendsCarrier,
         ClientFails
<1> QED
  BY <1>3, <1>4, <1>5, <1>6, <1>7, <1>8

THEOREM CancelledEpochsDrainOverTime == Spec => [][CancelledEpochIsQuiet]_vars
<1>1. IInv /\ BoundInv /\ LateInv /\ [Next]_vars => [CancelledEpochIsQuiet]_vars
  BY QuietlyCancelled DEF CancelledEpochIsQuiet
<1> QED
  BY <1>1, Invariance, BoundsHold, LateHolds, PTL DEF Spec

-----------------------------------------------------------------------------
(***************************************************************************)
(* What only a failing client can do.  From SERVER_ACTIVE on nothing but   *)
(* carriers is on the way to the client, until the server gives the epoch  *)
(* up: so what takes the client out of ACTIVE is behind all DATA of the    *)
(* epoch, and it arrives when they have arrived or are lost.               *)
(***************************************************************************)
LiveEpoch == server.on /\ server.epoch > server.floor
LiveConfirm(x) == x.kind = "CONFIRM" /\ x.epoch > server.floor
LiveActive(x) ==
    x.kind = "SERVER_ACTIVE" /\ server.on /\ x.epoch > server.floor

\* Both ends are active, or will be when the CONFIRM arrives.
Agreed ==
    /\ LiveEpoch
    /\ server.phase = "ACTIVE" \/ \E x \in Range(to_server) : LiveConfirm(x)

ClientShape(c) ==
    /\ c.mode = "ACTIVE" => c.phase = "ACTIVE"
    /\ c.mode = "ARMING" => c.session = 0

SpawnedInv == LiveEpoch => slot.state = "spawned" /\ ~slot.pending

ActiveLast ==
    \A i \in DOMAIN to_client :
        LiveActive(to_client[i]) =>
            NoneAfter(to_client, i) /\ server.phase # "WAIT_READY"

AgreedInv ==
    Agreed => /\ NoRecord(to_client) /\ server.phase # "WAIT_READY"
              /\ client.on /\ client.mode = "ACTIVE"

DataFirst ==
    \A i \in DOMAIN to_client :
        /\ to_client[i].kind = "DATA"
        /\ client.on /\ to_client[i].epoch > client.floor
        => client.mode = "ACTIVE" /\ NoneBefore(to_client, i)

Steady ==
    /\ ClientShape(client)
    /\ SpawnedInv /\ ActiveLast /\ AgreedInv /\ DataFirst

SteadyInv == "client" \notin faults => Steady

\* The server stops, or goes on with the epoch as it is.
ServerHolds ==
    server'.on => /\ server.on
                  /\ server'.phase = server.phase
                  /\ server'.epoch = server.epoch
                  /\ server'.floor = server.floor

\* A client that is active stays so, and one that is not becomes it not.
ClientHolds ==
    /\ ClientShape(client')
    /\ client'.on => client.on /\ client'.floor >= client.floor
    /\ client.mode = "ACTIVE" => client'.mode = "ACTIVE" /\ client'.on = client.on

NoNewConfirm ==
    \A x \in Range(to_server') : x.kind = "CONFIRM" => x \in Range(to_server)

LEMMA AgreedBefore ==
    ASSUME ServerHolds, NoNewConfirm
    PROVE  Agreed' => Agreed
  BY DEF ServerHolds, NoNewConfirm, Agreed, LiveEpoch, LiveConfirm

\* Steps without a record to the client.
LEMMA SteadyQuiet ==
    ASSUME IInv, IInv', Steady,
           ServerHolds, ClientHolds, NoNewConfirm,
           NEW f, Thins(to_client, to_client', f),
           LiveEpoch => \/ slot'.state = "spawned" /\ ~slot'.pending
                        \/ ~server'.on
    PROVE  Steady'
<1> DEFINE q == to_client
           p == to_client'
<1>1. q \in Seq(ClientItem) /\ p \in Seq(ClientItem)
  BY Known DEF IInv, Types
<1>2. ASSUME NEW i \in DOMAIN p
      PROVE  /\ f[i] \in DOMAIN q /\ p[i] = q[f[i]]
             /\ NoneBefore(q, f[i]) => NoneBefore(p, i)
             /\ NoneAfter(q, f[i]) => NoneAfter(p, i)
  <2>1. i \in 1 .. Len(p) + 1
    BY <1>1
  <2> QED
    BY <1>1, <2>1, ThinsKeeps DEF Thins
<1>3. NoRecord(q) => NoRecord(p)
  <2>1. 1 \in 1 .. Len(p) + 1
    BY <1>1
  <2> QED
    BY <1>1, <2>1, ThinsKeeps
<1>4. SpawnedInv'
  BY DEF Steady, SpawnedInv, LiveEpoch, ServerHolds
<1>5. ActiveLast'
  BY <1>2 DEF Steady, ActiveLast, LiveActive, ServerHolds
<1>6. AgreedInv'
  <2> SUFFICES ASSUME Agreed'
               PROVE  /\ NoRecord(p) /\ server'.phase # "WAIT_READY"
                      /\ client'.on /\ client'.mode = "ACTIVE"
    BY DEF AgreedInv
  <2>1. Agreed /\ server'.phase = server.phase
    BY AgreedBefore DEF ServerHolds, Agreed, LiveEpoch
  <2> QED
    BY <1>3, <2>1 DEF Steady, AgreedInv, ClientHolds
<1>7. DataFirst'
  <2> SUFFICES ASSUME NEW i \in DOMAIN p, p[i].kind = "DATA", client'.on,
                      p[i].epoch > client'.floor
               PROVE  client'.mode = "ACTIVE" /\ NoneBefore(p, i)
    BY DEF DataFirst
  <2>1. client.on /\ p[i].epoch > client.floor
    <3>1. p[i] \in ClientItem /\ client \in Client /\ client' \in Client
      BY <1>1 DEF IInv, Types
    <3>2. p[i].epoch \in Nat
      BY <3>1 DEF ClientItem
    <3>3. client.floor \in Nat /\ client'.floor \in Nat
      BY <3>1 DEF Client
    <3>4. client.on /\ client'.floor >= client.floor
      BY DEF ClientHolds
    <3>5. p[i].epoch > client'.floor
      OBVIOUS
    <3> HIDE DEF p
    <3> QED
      BY ONLY <3>2, <3>3, <3>4, <3>5
  <2>2. client.mode = "ACTIVE" /\ NoneBefore(q, f[i])
    BY <1>2, <2>1 DEF Steady, DataFirst
  <2> QED
    BY <1>2, <2>2 DEF ClientHolds
<1> QED
  BY <1>4, <1>5, <1>6, <1>7 DEF Steady, ClientHolds

\* The server sends a record: it has given up what was live, or it is the
\* SERVER_ACTIVE of an epoch nobody has heard of.
LEMMA SteadyRecordSent ==
    ASSUME IInv, IInv', Steady, client' = client,
           NEW x \in ClientItem, IsRecord(x), to_client' = Append(to_client, x),
           server'.on => \A y \in Range(to_client) :
               ~(y.kind = "SERVER_ACTIVE" /\ y.epoch > server'.floor),
           x.kind = "SERVER_ACTIVE" /\ server'.on =>
               server'.phase # "WAIT_READY",
           ~Agreed', SpawnedInv'
    PROVE  Steady'
<1> DEFINE q == to_client
           p == to_client'
           n == Len(q) + 1
<1>1. /\ q \in Seq(ClientItem)
      /\ n \in DOMAIN p /\ p[n] = x /\ NoneAfter(p, n)
      /\ \A i \in DOMAIN p : i \in DOMAIN q \/ i = n
      /\ \A i \in DOMAIN q : /\ p[i] = q[i] /\ i \in 1 .. n
                             /\ NoneBefore(q, i) => NoneBefore(p, i)
  <2>1. q \in Seq(ClientItem)
    BY Known
  <2>2. \A i \in DOMAIN q : i \in 1 .. n
    BY <2>1
  <2> QED
    BY <2>1, <2>2, ItemSent
<1>2. ActiveLast'
  <2> SUFFICES ASSUME NEW i \in DOMAIN p, p[i].kind = "SERVER_ACTIVE",
                      server'.on, p[i].epoch > server'.floor
               PROVE  NoneAfter(p, i) /\ server'.phase # "WAIT_READY"
    BY DEF ActiveLast, LiveActive
  <2>1. ~(i \in DOMAIN q)
    BY <1>1 DEF Range
  <2> QED
    BY <1>1, <2>1
<1>3. DataFirst'
  <2> SUFFICES ASSUME NEW i \in DOMAIN p, p[i].kind = "DATA", client.on,
                      p[i].epoch > client.floor
               PROVE  client.mode = "ACTIVE" /\ NoneBefore(p, i)
    BY DEF DataFirst
  <2>1. i \in DOMAIN q
    BY <1>1 DEF IsRecord, Carrier
  <2> QED
    BY <1>1, <2>1 DEF Steady, DataFirst
<1> QED
  BY <1>2, <1>3 DEF Steady, AgreedInv, ClientShape

LEMMA StoppedServers ==
    ASSUME NEW s \in Server
    PROVE  /\ ~Drained(s).on /\ ~Disable(s).on /\ ~NotOpened(s).on
           /\ ServerPacketBegin(s).on => ServerPacketBegin(s) = s
<1>1. ASSUME NEW t \in Server PROVE ~Drained(t).on /\ ~Disable(t).on
  BY DEF Drained, Disable, Server
<1>2. [s EXCEPT !.wire = s.epoch] \in Server
  BY DEF Server
<1> QED
  BY <1>1, <1>2 DEF NotOpened, ServerPacketBegin

LEMMA SteadyFacts ==
    ASSUME IInv, BoundInv
    PROVE  /\ server \in Server /\ client \in Client
           /\ server.epoch \in Nat /\ server.floor \in Nat
           /\ client.floor \in Nat
           /\ \A y \in Range(to_client) :
                  y.epoch \in Nat /\ y.epoch <= server.epoch
           /\ \A y \in Range(to_server) :
                  y.epoch \in Nat /\ y.epoch <= server.epoch
  BY ItemEpochs DEF IInv, Types, Server, Client, BoundInv, EpochsBehind

LEMMA SameClientHolds ==
    ASSUME IInv, Steady
    PROVE  /\ client' = client => ClientHolds
           /\ \A b \in BOOLEAN :
                  client' = [client EXCEPT !.owes = b] => ClientHolds
<1>1. client \in Client /\ client.floor \in Nat
  BY DEF IInv, Types, Client
<1> QED
  BY <1>1 DEF ClientHolds, Steady, ClientShape, Client

\* The server gives up the epoch it had, and says so with a record.
LEMMA SteadyGivenUp ==
    ASSUME IInv, IInv', BoundInv, Steady, client' = client,
           to_server' = to_server,
           NEW x \in ClientItem, IsRecord(x), x.kind # "SERVER_ACTIVE",
           to_client' = Append(to_client, x),
           server'.floor >= server.epoch, server'.phase # "ACTIVE",
           SpawnedInv'
    PROVE  Steady'
<1>1. server'.floor \in Nat
  BY DEF IInv, Types, Server
<1>2. ~Agreed'
  BY <1>1, SteadyFacts DEF Agreed, LiveConfirm
<1>3. \A y \in Range(to_client) : ~(y.epoch > server'.floor)
  BY <1>1, SteadyFacts
<1> QED
  BY <1>2, <1>3, SteadyRecordSent

LEMMA SteadyChangeMap ==
    ASSUME IInv, IInv', BoundInv, Steady, ChangeMap
    PROVE  Steady'
<1> DEFINE x == Item("CHANGING", 0)
<1>1. /\ server' = QuiesceMap(server) /\ client' = client
      /\ to_server' = to_server
      /\ to_client' = Append(to_client, x)
  BY DEF ChangeMap, Steady
<1>2. /\ x \in ClientItem /\ IsRecord(x) /\ x.kind # "SERVER_ACTIVE"
  BY DEF Item, ClientItem, ToClient, IsRecord, Carrier
<1>3. ASSUME server'.on
      PROVE  /\ server'.floor = Larger(server.floor, server.epoch)
             /\ server'.epoch = server.epoch
  <2>1. server.on
    BY <1>1, <1>3 DEF QuiesceMap
  <2> QED
    BY <1>1, <2>1, SteadyFacts DEF QuiesceMap, Cancelled, Server
<1>4. server'.on => server'.floor >= server.epoch
  BY <1>3, SteadyFacts DEF Larger
<1>5. ~LiveEpoch'
  BY <1>3, <1>4, SteadyFacts DEF LiveEpoch, Larger
<1>6. server'.on => \A y \in Range(to_client) : ~(y.epoch > server'.floor)
  <2>1. server'.floor \in Nat
    BY DEF IInv, Types, Server
  <2> QED
    BY <1>4, <2>1, SteadyFacts
<1> HIDE DEF x
<1> QED
  BY <1>1, <1>2, <1>5, <1>6, SteadyRecordSent DEF Agreed, SpawnedInv

LEMMA SteadyService ==
    ASSUME IInv, IInv', BoundInv, Steady, Service
    PROVE  Steady'
<1>1. /\ client' = client /\ to_server' = to_server
      /\ slot.pending /\ slot' = [slot EXCEPT !.pending = FALSE]
  BY DEF Service, Steady
<1>2. CASE server.on
  <2> DEFINE x == Item("CHALLENGE", server.epoch + 1)
  <2>1. /\ server' = BeginEpoch(server) /\ to_client' = Append(to_client, x)
    BY <1>2 DEF Service
  <2>2. x \in ClientItem /\ IsRecord(x) /\ x.kind # "SERVER_ACTIVE"
    BY SteadyFacts DEF Item, ClientItem, ToClient, IsRecord, Carrier
  <2>3. /\ server'.floor = Larger(server.floor, server.epoch)
        /\ server'.phase = "WAIT_READY"
    BY <2>1, SteadyFacts DEF BeginEpoch, Cancelled, Server
  <2>4. server'.floor >= server.epoch
    BY <2>3, SteadyFacts DEF Larger
  <2>5. SpawnedInv'
    BY <1>1 DEF BoundInv, SlotInv, SpawnedInv
  <2> HIDE DEF x
  <2> QED
    BY <1>1, <2>1, <2>2, <2>3, <2>4, <2>5, SteadyGivenUp
<1>3. CASE ~server.on
  <2>1. server' = Disable(server) /\ to_client' = to_client
    BY <1>3 DEF Service
  <2>2. ~server'.on
    BY <2>1, SteadyFacts, StoppedServers
  <2>3. PICK f : Thins(to_client, to_client', f)
    BY <2>1, Known, SameThins
  <2> QED
    BY <1>1, <2>2, <2>3, SteadyQuiet, SameClientHolds
       DEF ServerHolds, NoNewConfirm
<1> QED
  BY <1>2, <1>3

LEMMA SteadyServerSends ==
    ASSUME IInv, IInv', BoundInv, Steady, ServerSendsCarrier
    PROVE  Steady'
<1> DEFINE q == to_client
           p == to_client'
           n == Len(q) + 1
<1>1. PICK kind \in Carrier :
          /\ kind = "DATA" => ServerMaySendData(server)
          /\ p = Append(q, Item(kind, server.transport))
          /\ server' \in {server} \cup
                         IF kind = "ACK" THEN {[server EXCEPT !.owes = FALSE]}
                                         ELSE {}
          /\ UNCHANGED <<slot, client, loading, to_server, dropped, faults>>
  BY DEF ServerSendsCarrier
<1> DEFINE x == Item(kind, server.transport)
<1>2. x \in ClientItem /\ ~IsRecord(x) /\ x.kind = kind
  BY Known DEF Item, ClientItem, ToClient, Carrier, IsRecord
<1>3. /\ server'.on = server.on /\ server'.phase = server.phase
      /\ server'.epoch = server.epoch /\ server'.floor = server.floor
  <2>1. server' \in {server, [server EXCEPT !.owes = FALSE]}
    BY <1>1
  <2> QED
    BY <2>1, SteadyFacts DEF Server
<1>4. kind = "DATA" => Agreed
  <2>1. ASSUME kind = "DATA" PROVE Agreed
    <3>1. server.life = "ACTIVE" /\ server.phase = "ACTIVE"
      BY <1>1, <2>1 DEF ServerMaySendData
    <3> QED
      BY <3>1 DEF IInv, ServerInv, Agreed, LiveEpoch
  <2> QED
    BY <2>1
<1> HIDE DEF x
<1>5. /\ n \in DOMAIN p /\ p[n] = x
      /\ \A i \in DOMAIN p : i \in DOMAIN q \/ i = n
      /\ \A i \in DOMAIN q : /\ p[i] = q[i] /\ i \in 1 .. n
                             /\ NoneBefore(q, i) => NoneBefore(p, i)
                             /\ NoneAfter(q, i) => NoneAfter(p, i)
      /\ NoRecord(q) => NoRecord(p) /\ NoneBefore(p, n)
  <2>1. q \in Seq(ClientItem)
    BY Known
  <2>2. \A i \in DOMAIN q : i \in 1 .. n
    BY <2>1
  <2>3. p = Append(q, x)
    BY <1>1 DEF x
  <2> QED
    BY <1>2, <2>1, <2>2, <2>3, ItemSent
<1>6. SpawnedInv'
  BY <1>1, <1>3 DEF Steady, SpawnedInv, LiveEpoch
<1>7. ActiveLast'
  <2> SUFFICES ASSUME NEW i \in DOMAIN p, p[i].kind = "SERVER_ACTIVE",
                      server'.on, p[i].epoch > server'.floor
               PROVE  NoneAfter(p, i) /\ server'.phase # "WAIT_READY"
    BY DEF ActiveLast, LiveActive
  <2>1. i \in DOMAIN q
    BY <1>2, <1>5 DEF Carrier
  <2> QED
    BY <1>3, <1>5, <2>1 DEF Steady, ActiveLast, LiveActive
<1>8. AgreedInv'
  <2>1. Agreed' => Agreed
    BY <1>1, <1>3 DEF Agreed, LiveEpoch, LiveConfirm
  <2> QED
    BY <1>1, <1>3, <1>5, <2>1 DEF Steady, AgreedInv
<1>9. DataFirst'
  <2> SUFFICES ASSUME NEW i \in DOMAIN p, p[i].kind = "DATA", client.on,
                      p[i].epoch > client.floor
               PROVE  client.mode = "ACTIVE" /\ NoneBefore(p, i)
    BY <1>1 DEF DataFirst
  <2>1. CASE i \in DOMAIN q
    BY <1>5, <2>1 DEF Steady, DataFirst
  <2>2. CASE i = n
    BY <1>2, <1>4, <1>5, <2>2 DEF Steady, AgreedInv
  <2> QED
    BY <1>5, <2>1, <2>2
<1> QED
  BY <1>1, <1>6, <1>7, <1>8, <1>9 DEF Steady, ClientShape

LEMMA SteadyNew ==
    ASSUME IInv, IInv', BoundInv, Steady, slot.state = "connected",
           New(ServerPacketBegin(server)), client' = client,
           \A x \in Range(to_server') : x \in Range(to_server)
    PROVE  Steady'
<1> DEFINE s == ServerPacketBegin(server)
           x == Item(IF s.on THEN "SERVERDATA" ELSE "LEGACY", 0)
<1>1. /\ server' = IF s.on THEN s ELSE Disable(s)
      /\ to_client' = Append(to_client, x)
  BY DEF New
<1>2. x \in ClientItem /\ IsRecord(x) /\ x.kind # "SERVER_ACTIVE"
  BY DEF Item, ClientItem, ToClient, IsRecord, Carrier
<1>3. server'.on => server' = server
  <2>1. s \in Server
    BY Known, PacketBeginGood DEF GoodServer
  <2> QED
    BY <1>1, <2>1, SteadyFacts, StoppedServers
<1>4. ~LiveEpoch
  BY DEF Steady, SpawnedInv
<1>5. ~LiveEpoch' /\ ~Agreed'
  BY <1>3, <1>4 DEF LiveEpoch, Agreed
<1>6. server'.on => \A y \in Range(to_client) : ~(y.epoch > server'.floor)
  BY <1>3, <1>4, SteadyFacts DEF LiveEpoch
<1> HIDE DEF x
<1> QED
  BY <1>1, <1>2, <1>5, <1>6, SteadyRecordSent DEF SpawnedInv

LEMMA SteadyReady ==
    ASSUME IInv, IInv', BoundInv, Steady, client' = client,
           slot' = slot,
           \A x \in Range(to_server') : x \in Range(to_server),
           server.on, server.phase = "WAIT_READY",
           server.epoch > server.floor,
           server' \in {Opened(Ready(server)), NotOpened(Ready(server))},
           to_client' = Append(to_client, Item("SERVER_ACTIVE", server.epoch))
    PROVE  Steady'
<1> DEFINE x == Item("SERVER_ACTIVE", server.epoch)
<1>1. Ready(server) \in Server
  BY SteadyFacts DEF Ready, Server
<1>2. server'.on => /\ server'.phase = "WAIT_CONFIRM"
                    /\ server'.epoch = server.epoch
                    /\ server'.floor = server.floor
  <2>1. CASE server' = Opened(Ready(server))
    BY <2>1, SteadyFacts DEF Opened, Ready, Server
  <2>2. CASE server' = NotOpened(Ready(server))
    BY <1>1, <2>2, StoppedServers
  <2> QED
    BY <2>1, <2>2
<1>3. ~Agreed
  BY DEF Steady, AgreedInv
<1>4. ~Agreed'
  BY <1>2, <1>3 DEF Agreed, LiveEpoch, LiveConfirm
<1>5. server'.on => \A y \in Range(to_client) :
                        ~(y.kind = "SERVER_ACTIVE" /\ y.epoch > server'.floor)
  BY <1>2 DEF Steady, ActiveLast, LiveActive, Range
<1>6. x \in ClientItem /\ IsRecord(x)
  BY SteadyFacts DEF Item, ClientItem, ToClient, IsRecord, Carrier
<1>7. SpawnedInv'
  BY DEF Steady, SpawnedInv, LiveEpoch
<1> HIDE DEF x
<1>8. to_client' = Append(to_client, x)
  BY DEF x
<1> QED
  BY <1>2, <1>4, <1>5, <1>6, <1>7, <1>8, SteadyRecordSent

LEMMA SteadyServerRxRecord ==
    ASSUME IInv, IInv', BoundInv, Steady, ServerRxRecord
    PROVE  Steady'
<1> DEFINE s == ServerPacketBegin(server)
<1>1. PICK i \in DOMAIN to_server :
          /\ to_server' = WithoutArrived(to_server, i)
          /\ \/ to_server[i].kind = "NEW" /\ RxNew(s)
             \/ to_server[i].kind = "BEGIN" /\ RxBegin(s)
             \/ to_server[i].kind = "READY" /\ RxReady(s, to_server[i].epoch)
             \/ to_server[i].kind = "CONFIRM" /\ RxConfirm(s, to_server[i].epoch)
          /\ UNCHANGED <<client, loading, dropped, faults>>
  BY DEF ServerRxRecord
<1> DEFINE r == to_server[i]
<1>2. /\ \A x \in Range(to_server') : x \in Range(to_server)
      /\ r \in Range(to_server)
      /\ client' = client
  BY <1>1, Known, ArrivalThins DEF Steady
<1>3. /\ s \in Server /\ ~Disable(s).on
      /\ s.on => s = server
  <2>1. s \in Server
    BY Known, PacketBeginGood DEF GoodServer
  <2> QED
    BY <2>1, SteadyFacts, StoppedServers
<1> HIDE DEF s
<1>4. ASSUME to_client' = to_client, server' \in {s} \/ ~server'.on,
             \/ slot' = slot
             \/ slot.state = "primed"
      PROVE  Steady'
  <2>1. ServerHolds
    BY <1>3, <1>4 DEF ServerHolds
  <2>2. LiveEpoch => \/ slot'.state = "spawned" /\ ~slot'.pending
                     \/ ~server'.on
    BY <1>4 DEF Steady, SpawnedInv
  <2>3. PICK f : Thins(to_client, to_client', f)
    BY <1>4, Known, SameThins
  <2> QED
    BY <1>2, <2>1, <2>2, <2>3, SteadyQuiet, SameClientHolds DEF NoNewConfirm
<1>5. CASE slot.state = "connected" /\ New(s)
  BY <1>2, <1>5, SteadyNew DEF s
<1>6. CASE RxNew(s) \/ RxBegin(s)
  <2>1. CASE Ignore(s)
    BY <1>4, <2>1 DEF Ignore
  <2>2. CASE /\ slot.state = "primed"
             /\ server' = s /\ to_client' = to_client
    BY <1>4, <2>2
  <2> QED
    BY <1>5, <1>6, <2>1, <2>2 DEF RxNew, RxBegin
<1>7. CASE RxReady(s, r.epoch)
  <2>1. CASE Ignore(s) \/ Ignore(Disable(s))
    BY <1>3, <1>4, <2>1 DEF Ignore
  <2>2. CASE server' = Disable(Ready(s)) /\ to_client' = to_client /\ slot' = slot
    <3>1. Ready(s) \in Server
      BY <1>3 DEF Ready, Server
    <3> QED
      BY <1>4, <2>2, <3>1, StoppedServers
  <2>3. CASE /\ s.on /\ r.epoch > s.floor
             /\ s.phase = "WAIT_READY" /\ r.epoch = s.epoch
             /\ slot' = slot
             /\ server' \in {Opened(Ready(s)), NotOpened(Ready(s))}
             /\ to_client' = Append(to_client, Item("SERVER_ACTIVE", r.epoch))
    BY <1>2, <1>3, <2>3, SteadyReady
  <2> QED
    BY <1>7, <2>1, <2>2, <2>3 DEF RxReady
<1>8. CASE r.kind = "CONFIRM" /\ RxConfirm(s, r.epoch)
  <2>1. CASE Ignore(s) \/ Ignore(Disable(s))
    BY <1>3, <1>4, <2>1 DEF Ignore
  <2>2. CASE /\ s.on /\ ~(r.epoch <= s.floor) /\ r.epoch = s.epoch
             /\ Ignore([s EXCEPT !.phase = "ACTIVE", !.late = FALSE])
    <3>1. /\ s = server /\ r.epoch > server.floor /\ r.epoch = server.epoch
          /\ server.on
      BY <1>2, <1>3, <2>2, SteadyFacts
    <3>2. Agreed
      BY <1>2, <1>8, <3>1 DEF Agreed, LiveEpoch, LiveConfirm
    <3>3. /\ server' = [server EXCEPT !.phase = "ACTIVE", !.late = FALSE]
          /\ slot' = slot /\ to_client' = to_client
      BY <2>2, <3>1 DEF Ignore
    <3>4. /\ server'.on /\ server'.phase = "ACTIVE"
          /\ server'.epoch = server.epoch /\ server'.floor = server.floor
      BY <3>1, <3>3, SteadyFacts DEF Server
    <3>5. /\ NoRecord(to_client) /\ client.on /\ client.mode = "ACTIVE"
      BY <3>2 DEF Steady, AgreedInv
    <3>6. ActiveLast'
      BY <3>3, <3>5 DEF ActiveLast, LiveActive, NoRecord, IsRecord, Carrier
    <3>7. SpawnedInv'
      BY <3>3, <3>4 DEF Steady, SpawnedInv, LiveEpoch
    <3> QED
      BY <1>2, <3>3, <3>4, <3>5, <3>6, <3>7
         DEF Steady, AgreedInv, DataFirst, ClientShape
  <2> QED
    BY <1>8, <2>1, <2>2 DEF RxConfirm
<1> QED
  BY <1>1, <1>6, <1>7, <1>8

LEMMA ShapesKept ==
    ASSUME NEW c \in Client, ClientShape(c)
    PROVE  /\ ClientShape(Off) /\ ClientShape(Draining(c))
           /\ ClientShape(Failed(c)) /\ ClientShape(MapBoundary(c))
           /\ ClientShape([MapBoundary(c) EXCEPT !.confirmed = TRUE])
           /\ ClientShape(ClientPacketBegin(c))
           /\ \A e : /\ ClientShape(Armed(c, e))
                     /\ ClientShape([Activated(c, e) EXCEPT !.phase = "ACTIVE"])
<1>1. ClientShape(Off)
  BY DEF Off, FreshClient, ClientShape
<1>2. ClientShape(Draining(c)) /\ Draining(c) \in Client
  BY DEF Draining, Client, ClientShape
<1>3. ClientShape(Failed(c))
  BY <1>1, <1>2 DEF Failed
<1>4. /\ ClientShape(MapBoundary(c)) /\ MapBoundary(c) \in Client
      /\ ClientShape([MapBoundary(c) EXCEPT !.confirmed = TRUE])
  <2>1. CASE c.on
    BY <2>1 DEF MapBoundary, Draining, Client, ClientShape
  <2>2. CASE ~c.on
    BY <2>2 DEF MapBoundary, Client, ClientShape
  <2> QED
    BY <2>1, <2>2
<1>5. \A e : ClientShape(Armed(c, e))
  BY DEF Armed, Client, ClientShape
<1>6. \A e : ClientShape([Activated(c, e) EXCEPT !.phase = "ACTIVE"])
  BY DEF Activated, Client, ClientShape
<1> QED
  BY <1>1, <1>2, <1>3, <1>4, <1>5, <1>6 DEF ClientPacketBegin

\* A client whose wait has expired is not active, and fails to be.
LEMMA PacketBeginHolds ==
    ASSUME NEW c, GoodClient(c), ClientShape(c),
           NEW d, d = ClientPacketBegin(c)
    PROVE  /\ ClientShape(d)
           /\ d.on => c.on /\ d.floor >= c.floor
           /\ c.mode = "ACTIVE" => d = c
<1>1. c \in Client
  BY DEF GoodClient
<1>2. ClientShape(d)
  BY <1>1, ShapesKept
<1>3. d.on => c.on /\ d.floor >= c.floor
  BY ClientPacketBeginGood DEF ClientLearns, ClientKeeps
<1>4. c.mode = "ACTIVE" => d = c
  BY DEF ClientPacketBegin, Expired, Waiting, ClientShape
<1> QED
  BY <1>2, <1>3, <1>4

\* A record arrives at the client: what was before it has arrived.
LEMMA SteadyRecordTaken ==
    ASSUME IInv, IInv', Steady, server' = server, slot' = slot,
           ClientShape(client'),
           client'.on => client.on /\ client'.floor >= client.floor,
           NEW x \in DOMAIN to_client, IsRecord(to_client[x]),
           to_client' = SubSeq(to_client, x + 1, Len(to_client)),
           \A y \in Range(to_server') : LiveConfirm(y) =>
               \/ y \in Range(to_server)
               \/ /\ server.on => LiveActive(to_client[x])
                  /\ client'.on /\ client'.mode = "ACTIVE"
    PROVE  Steady'
<1> DEFINE q == to_client
           p == to_client'
<1>1. /\ q \in Seq(ClientItem) /\ p \in Seq(ClientItem)
      /\ NoneAfter(q, x) => NoRecord(p)
      /\ \A i \in DOMAIN p : /\ i + x \in DOMAIN q /\ p[i] = q[i + x]
                             /\ ~NoneBefore(q, i + x)
                             /\ NoneAfter(q, i + x) => NoneAfter(p, i)
  <2>1. q \in Seq(ClientItem)
    BY Known
  <2> QED
    BY <2>1, RecordArrives
<1>2. SpawnedInv'
  BY DEF Steady, SpawnedInv, LiveEpoch
<1>3. ActiveLast'
  BY <1>1 DEF Steady, ActiveLast, LiveActive
<1>4. ~Agreed
  BY DEF Steady, AgreedInv, NoRecord
<1>5. AgreedInv'
  <2> SUFFICES ASSUME Agreed'
               PROVE  /\ NoRecord(p) /\ server.phase # "WAIT_READY"
                      /\ client'.on /\ client'.mode = "ACTIVE"
    BY DEF AgreedInv
  <2>1. server.on /\ LiveEpoch /\ server.phase # "ACTIVE"
    BY <1>4 DEF Agreed, LiveEpoch
  <2>2. PICK y \in Range(to_server') : LiveConfirm(y)
    BY <2>1 DEF Agreed, LiveConfirm
  <2>3. ~(y \in Range(to_server))
    BY <1>4, <2>1, <2>2 DEF Agreed
  <2>4. LiveActive(q[x]) /\ client'.on /\ client'.mode = "ACTIVE"
    BY <2>1, <2>2, <2>3
  <2> QED
    BY <1>1, <2>4 DEF Steady, ActiveLast
<1>6. DataFirst'
  <2> SUFFICES ASSUME NEW i \in DOMAIN p, p[i].kind = "DATA", client'.on,
                      p[i].epoch > client'.floor
               PROVE  FALSE
    BY DEF DataFirst
  <2>1. client.on /\ p[i].epoch > client.floor
    <3>1. p[i] \in ClientItem /\ client \in Client /\ client' \in Client
      BY <1>1 DEF IInv, Types
    <3>2. p[i].epoch \in Nat
      BY <3>1 DEF ClientItem
    <3>3. client.floor \in Nat /\ client'.floor \in Nat
      BY <3>1 DEF Client
    <3>4. client.on /\ client'.floor >= client.floor
      OBVIOUS
    <3>5. p[i].epoch > client'.floor
      OBVIOUS
    <3> HIDE DEF p
    <3> QED
      BY ONLY <3>2, <3>3, <3>4, <3>5
  <2> QED
    BY <1>1, <2>1 DEF Steady, DataFirst
<1> QED
  BY <1>2, <1>3, <1>5, <1>6 DEF Steady

LEMMA SteadyClientRxRecord ==
    ASSUME IInv, IInv', Steady, "client" \notin faults, ClientRxRecord
    PROVE  Steady'
<1> DEFINE c == ClientPacketBegin(client)
<1>1. PICK x \in DOMAIN to_client :
          /\ IsRecord(to_client[x])
          /\ to_client' = WithoutArrived(to_client, x)
          /\ \/ RxChanging(c) \/ RxServerData(c, TRUE) \/ RxServerData(c, FALSE)
             \/ RxChallenge(c, to_client[x].epoch)
             \/ /\ to_client[x].kind = "SERVER_ACTIVE"
                /\ RxServerActive(c, to_client[x].epoch)
          /\ UNCHANGED <<server, slot, dropped, faults>>
  BY DEF ClientRxRecord
<1> DEFINE r == to_client[x]
<1>2. c \in Client /\ ClientShape(c)
  <2>1. GoodClient(c)
    BY Known, ClientPacketBeginGood
  <2>2. GoodClient(client) /\ ClientShape(client)
    BY Known DEF Steady
  <2> QED
    BY <2>1, <2>2, PacketBeginHolds DEF GoodClient
<1> HIDE DEF c
<1>3. client'.on => client.on /\ client'.floor >= client.floor
  <2>1. ClientKeeps(client, client')
    <3>1. [Next]_vars
      BY DEF Next
    <3> QED
      BY <3>1, NextKeeps DEF Kept
  <2> QED
    BY <2>1 DEF ClientKeeps
<1>4. /\ ClientShape(client')
      /\ \/ to_server' = to_server
         \/ \E y : to_server' = Append(to_server, y) /\ y.kind # "CONFIRM"
                   /\ y \in ServerItem
         \/ /\ to_server' = Append(to_server, Item("CONFIRM", r.epoch))
            /\ r.kind = "SERVER_ACTIVE"
            /\ client' = [Activated(c, r.epoch) EXCEPT !.phase = "ACTIVE"]
            /\ c.on
  <2>1. r.epoch \in Nat
    BY ItemEpochs DEF Range
  <2>2. CASE RxChanging(c)
    <3>1. Item("NEW", 0) \in ServerItem /\ Item("NEW", 0).kind # "CONFIRM"
      BY DEF Item, ServerItem, ToServer
    <3> QED
      BY <1>2, <2>2, <3>1, ShapesKept DEF RxChanging
  <2>3. CASE RxServerData(c, TRUE) \/ RxServerData(c, FALSE)
    BY <1>2, <2>3, ShapesKept DEF RxServerData
  <2>4. CASE RxChallenge(c, r.epoch)
    <3>1. /\ Item("READY", r.epoch) \in ServerItem
          /\ Item("READY", r.epoch).kind # "CONFIRM"
      BY <2>1 DEF Item, ServerItem, ToServer
    <3> QED
      BY <1>2, <2>4, <3>1, ShapesKept DEF RxChallenge
  <2>5. CASE r.kind = "SERVER_ACTIVE" /\ RxServerActive(c, r.epoch)
    BY <1>2, <2>5, ShapesKept DEF RxServerActive
  <2> QED
    BY <1>1, <2>2, <2>3, <2>4, <2>5
<1>5. ASSUME NEW y \in Range(to_server'), LiveConfirm(y)
      PROVE  \/ y \in Range(to_server)
             \/ /\ server.on => LiveActive(r)
                /\ client'.on /\ client'.mode = "ACTIVE"
  <2>1. to_server \in Seq(ServerItem) /\ r.epoch \in Nat
    BY Known, ItemEpochs DEF Range
  <2>2. CASE to_server' = to_server
    BY <2>2
  <2>3. ASSUME NEW z, to_server' = Append(to_server, z), z.kind # "CONFIRM",
               z \in ServerItem
        PROVE  y \in Range(to_server)
    BY <1>5, <2>1, <2>3, AppendAdds DEF LiveConfirm
  <2>4. CASE /\ to_server' = Append(to_server, Item("CONFIRM", r.epoch))
             /\ r.kind = "SERVER_ACTIVE"
             /\ client' = [Activated(c, r.epoch) EXCEPT !.phase = "ACTIVE"]
             /\ c.on
    <3> DEFINE z == Item("CONFIRM", r.epoch)
    <3>1. z \in ServerItem /\ z.epoch = r.epoch
      BY <2>1 DEF Item, ServerItem, ToServer
    <3>2. client'.on /\ client'.mode = "ACTIVE"
      BY <1>2, <2>4 DEF Activated, Client
    <3> HIDE DEF z
    <3>3. y \in Range(to_server) \/ y = z
      BY <2>1, <2>4, <3>1, AppendAdds DEF z
    <3> QED
      BY <1>5, <2>4, <3>1, <3>2, <3>3 DEF LiveConfirm, LiveActive
  <2> QED
    BY <1>4, <2>2, <2>3, <2>4
<1>6. to_client' = SubSeq(to_client, x + 1, Len(to_client))
  BY <1>1 DEF WithoutArrived
<1> QED
  BY <1>1, <1>3, <1>4, <1>5, <1>6, SteadyRecordTaken

\* pilot_rx_event finds every carrier to be of its session, and DATA only
\* while it is active.
LEMMA CarrierAccepted ==
    ASSUME IInv, Steady, client.on, NEW i \in DOMAIN to_client,
           ~IsRecord(to_client[i]), to_client[i].epoch > client.floor
    PROVE  ClientAccepts(client, to_client[i])
<1> DEFINE x == to_client[i]
<1>1. /\ x \in Range(to_client) /\ x.kind \in {"DATA", "ACK"}
      /\ x.epoch \in Nat /\ client.floor \in Nat /\ client \in Client
  BY ItemEpochs DEF Range, IsRecord, Carrier, IInv, Types, Client
<1>2. x.epoch > 0 /\ client.session = x.epoch
  BY <1>1 DEF IInv, ClientKnows, KnownToClient, Carrier
<1>3. client.mode \in {"ACTIVE", "DRAIN"}
  BY <1>1, <1>2 DEF Steady, ClientShape, Client
<1>4. x.kind = "DATA" => client.mode = "ACTIVE"
  BY DEF Steady, DataFirst
<1> QED
  BY <1>1, <1>2, <1>3, <1>4 DEF ClientAccepts

LEMMA SteadyClientRxCarrier ==
    ASSUME IInv, IInv', Steady, ClientRxCarrier
    PROVE  Steady'
<1>1. PICK i \in DOMAIN to_client :
          /\ ~IsRecord(to_client[i])
          /\ to_client' = WithoutArrived(to_client, i)
          /\ IF /\ client.on /\ to_client[i].epoch > client.floor
                /\ ~ClientAccepts(client, to_client[i])
             THEN client' = Draining(client) /\ dropped' = "client"
             ELSE /\ client' = ClientPacketBegin(
                        IF client.on /\ to_client[i].epoch > client.floor
                        THEN [client EXCEPT !.owes =
                                  @ \/ to_client[i].kind = "DATA"]
                        ELSE client)
                  /\ dropped' = IF client.on THEN dropped ELSE "client"
          /\ UNCHANGED <<server, slot, loading, to_server, faults>>
  BY DEF ClientRxCarrier
<1> DEFINE x == to_client[i]
           owing == [client EXCEPT !.owes = client.owes \/ x.kind = "DATA"]
<1>2. /\ client' = ClientPacketBegin(
                       IF client.on /\ x.epoch > client.floor
                       THEN owing ELSE client)
  BY <1>1, CarrierAccepted DEF Steady
<1>3. /\ GoodClient(client) /\ ClientShape(client)
      /\ client \in Client /\ client.floor \in Nat
  BY Known DEF Steady, GoodClient, Client
<1>4. ClientHolds
  <2>1. CASE client' = ClientPacketBegin(client)
    BY <1>3, <2>1, PacketBeginHolds DEF ClientHolds
  <2>2. CASE /\ client.on /\ x.epoch > client.floor
             /\ client' = ClientPacketBegin(owing)
    <3>1. client.session # 0
      <4>1. ClientAccepts(client, x) /\ x \in Range(to_client)
            /\ x.kind \in Carrier
        BY <1>1, <2>2, CarrierAccepted DEF Range, IsRecord
      <4> QED
        BY <4>1 DEF ClientAccepts, IInv, ClientKnows
    <3>2. /\ owing \in Client /\ owing.on = client.on
          /\ owing.mode = client.mode /\ owing.epoch = client.epoch
          /\ owing.floor = client.floor /\ owing.session = client.session
          /\ owing.committed = client.committed /\ owing.phase = client.phase
      <4>1. (client.owes \/ x.kind = "DATA") \in BOOLEAN
        BY <1>3 DEF Client
      <4> QED
        BY <1>3, <4>1 DEF Client
    <3> HIDE DEF owing
    <3>3. GoodClient(owing) /\ ClientShape(owing)
      BY <1>3, <2>2, <3>1, <3>2, SmallClientUpdates DEF ClientShape
    <3> QED
      BY <2>2, <3>2, <3>3, PacketBeginHolds DEF ClientHolds
  <2> QED
    BY <1>2, <2>1, <2>2
<1>5. ServerHolds /\ NoNewConfirm
  BY <1>1 DEF ServerHolds, NoNewConfirm
<1>6. PICK f : Thins(to_client, to_client', f)
  <2>1. to_client' = RemoveAt(to_client, i)
    BY <1>1 DEF WithoutArrived
  <2> QED
    BY <1>1, <2>1, Known, CarrierThins
<1> QED
  BY <1>1, <1>2, <1>4, <1>5, <1>6, SteadyQuiet DEF Steady, SpawnedInv

\* What the ends do by themselves.
LEMMA SteadyLocal ==
    ASSUME IInv, IInv', BoundInv, Steady,
           \/ UNCHANGED vars
           \/ LoseCarrier \/ ServerRxCarrier \/ ServerRxPlain
           \/ ServerTxExpired \/ ServerFails \/ ServerDeadlinePasses
           \/ ClientDeadlinePasses \/ QueueExpires \/ ClientRxPlain
           \/ ClientBegins \/ ClientSendsCarrier
    PROVE  Steady'
<1>1. /\ server \in Server /\ client \in Client
      /\ GoodClient(client) /\ ClientShape(client) /\ client.floor \in Nat
      /\ ~Drained(server).on /\ ~Disable(server).on
      /\ ServerPacketBegin(server).on => ServerPacketBegin(server) = server
      /\ to_server \in Seq(ServerItem) /\ to_client \in Seq(ClientItem)
  BY Known, SteadyFacts, StoppedServers DEF Steady
<1>2. ASSUME ServerHolds, ClientHolds, NoNewConfirm,
             \E f : Thins(to_client, to_client', f),
             slot' = slot \/ ~server'.on
      PROVE  Steady'
  BY <1>2, SteadyQuiet DEF Steady, SpawnedInv
<1>3. \E f : Thins(to_client, to_client, f)
  BY <1>1, SameThins
<1>4. /\ client' = client => ClientHolds
      /\ server' = server \/ ~server'.on => ServerHolds
      /\ to_server' = to_server => NoNewConfirm
  BY SameClientHolds DEF ServerHolds, NoNewConfirm
<1>6. CASE UNCHANGED vars
  BY <1>2, <1>3, <1>4, <1>6 DEF vars
<1>7. CASE LoseCarrier
  <2>1. \E f : Thins(to_client, to_client', f)
    BY <1>1, <1>3, <1>7, CarrierThins DEF LoseCarrier
  <2>2. NoNewConfirm
    <3>1. ASSUME NEW i \in DOMAIN to_server,
                 to_server' = RemoveAt(to_server, i)
          PROVE  NoNewConfirm
      BY <1>1, <3>1, RemovalThins DEF NoNewConfirm
    <3> QED
      BY <1>4, <1>7, <3>1 DEF LoseCarrier
  <2> QED
    BY <1>2, <1>4, <1>7, <2>1, <2>2 DEF LoseCarrier
<1>8. CASE ServerRxCarrier
  <2>1. PICK i \in DOMAIN to_server :
            /\ to_server' = WithoutArrived(to_server, i)
            /\ IF ServerRejects(server, to_server[i].epoch)
               THEN server' = Drained(server) /\ dropped' = "server"
               ELSE /\ server' = ServerPacketBegin(
                                     ServerTakes(server, to_server[i]))
            /\ UNCHANGED <<slot, client, loading, to_client, faults>>
    BY <1>8 DEF ServerRxCarrier
  <2>2. NoNewConfirm
    BY <1>1, <2>1, ArrivalThins DEF NoNewConfirm
  <2>3. ServerHolds
    <3>1. ASSUME NEW s \in {server, Drained(server), [server EXCEPT !.owes = TRUE]},
                 server' = ServerPacketBegin(s)
          PROVE  ServerHolds
      <4>1. s \in Server
        BY <1>1 DEF Drained, Server
      <4>2. server'.on => server' = s
        BY <3>1, <4>1, StoppedServers
      <4>3. s.on => /\ server.on /\ s.phase = server.phase
                    /\ s.epoch = server.epoch /\ s.floor = server.floor
        BY <1>1 DEF Server
      <4> QED
        BY <4>2, <4>3 DEF ServerHolds
    <3>2. ServerTakes(server, to_server[i])
              \in {server, Drained(server), [server EXCEPT !.owes = TRUE]}
      BY DEF ServerTakes
    <3> QED
      BY <1>1, <1>4, <2>1, <3>1, <3>2
  <2> QED
    BY <1>2, <1>3, <1>4, <2>1, <2>2, <2>3
<1>9. CASE ServerRxPlain \/ ServerTxExpired
  BY <1>1, <1>2, <1>3, <1>4, <1>9 DEF ServerRxPlain, ServerTxExpired
<1>10. CASE ServerFails \/ QueueExpires
  BY <1>1, <1>2, <1>3, <1>4, <1>10 DEF ServerFails, QueueExpires
<1>11. CASE ServerDeadlinePasses
  <2>1. ServerHolds
    BY <1>1, <1>11 DEF ServerDeadlinePasses, ServerHolds, Server
  <2> QED
    BY <1>2, <1>3, <1>4, <1>11, <2>1 DEF ServerDeadlinePasses
<1>12. CASE ClientDeadlinePasses
  <2>1. ClientHolds
    BY <1>1, <1>12 DEF ClientDeadlinePasses, ClientHolds, ClientShape, Client
  <2> QED
    BY <1>2, <1>3, <1>4, <1>12, <2>1 DEF ClientDeadlinePasses
<1>13. CASE ClientRxPlain
  <2>1. ClientHolds
    BY <1>1, <1>13, PacketBeginHolds DEF ClientRxPlain, ClientHolds
  <2> QED
    BY <1>2, <1>3, <1>4, <1>13, <2>1 DEF ClientRxPlain
<1>14. CASE ClientBegins
  <2>1. Item("BEGIN", 0) \in ServerItem /\ Item("BEGIN", 0).kind # "CONFIRM"
    BY DEF Item, ServerItem, ToServer
  <2>2. NoNewConfirm
    BY <1>1, <1>14, <2>1, AppendAdds DEF ClientBegins, NoNewConfirm
  <2> QED
    BY <1>2, <1>3, <1>4, <1>14, <2>2 DEF ClientBegins
<1>15. CASE ClientSendsCarrier
  <2>1. PICK kind \in Carrier :
            /\ to_server' = Append(to_server, Item(kind, client.session))
            /\ client' \in {client} \cup
                           IF kind = "ACK" THEN {[client EXCEPT !.owes = FALSE]}
                                           ELSE {}
            /\ UNCHANGED <<server, slot, loading, to_client, dropped, faults>>
    BY <1>15 DEF ClientSendsCarrier
  <2>2. /\ Item(kind, client.session) \in ServerItem
        /\ Item(kind, client.session).kind # "CONFIRM"
    BY <1>1 DEF Item, ServerItem, ToServer, Carrier, Client
  <2>3. NoNewConfirm
    BY <1>1, <2>1, <2>2, AppendAdds DEF NoNewConfirm
  <2>4. ClientHolds
    <3>1. client' \in {client, [client EXCEPT !.owes = FALSE]}
      BY <2>1
    <3> QED
      BY <3>1, SameClientHolds
  <2> QED
    BY <1>2, <1>3, <1>4, <2>1, <2>3, <2>4
<1> QED
  BY <1>6, <1>7, <1>8, <1>9, <1>10, <1>11, <1>12, <1>13, <1>14, <1>15

LEMMA SteadyInit == Init => Steady
<1> SUFFICES ASSUME Init PROVE Steady
  OBVIOUS
<1>1. DOMAIN to_client = {}
  BY DEF Init
<1> QED
  BY <1>1
     DEF Init, FreshServer, FreshClient, Steady, ClientShape, SpawnedInv,
         LiveEpoch, ActiveLast, AgreedInv, Agreed, DataFirst

LEMMA SteadyNext ==
    ASSUME IInv, IInv', BoundInv, SteadyInv, [Next]_vars
    PROVE  SteadyInv'
<1>1. faults' = faults
  BY DEF Next, vars, ChangeMap, LoseCarrier, ServerRxRecord,
         ServerRxCarrier, ServerRxPlain, Service, ServerSendsCarrier,
         ServerTxExpired, ServerFails, ServerDeadlinePasses,
         ClientDeadlinePasses, QueueExpires, ClientRxRecord,
         ClientRxCarrier, ClientRxPlain, ClientBegins, ClientSendsCarrier,
         ClientFails
<1> SUFFICES ASSUME "client" \notin faults PROVE Steady'
  BY <1>1 DEF SteadyInv
<1>2. Steady /\ ~ClientFails
  BY DEF SteadyInv, ClientFails
<1> QED
  BY <1>2, SteadyChangeMap, SteadyService, SteadyServerSends,
     SteadyServerRxRecord, SteadyClientRxRecord, SteadyClientRxCarrier,
     SteadyLocal DEF Next

THEOREM SteadyHolds == Spec => []SteadyInv
<1>1. Init => SteadyInv
  BY SteadyInit DEF SteadyInv
<1> QED
  BY <1>1, SteadyNext, Invariance, BoundsHold, PTL DEF Spec

\* The client takes the connection down over a carrier only when its pilot has
\* failed by itself, or when it has taken its hooks off for a server that
\* drains, of which it gets a receipt.  No deadline and no map change brings a
\* carrier that an intact client refuses.
DroppedByFailure ==
    dropped = "client" =>
        IF client.on THEN "client" \in faults
                     ELSE server.life = "DRAIN" /\ server.transport # 0

LEMMA ClientDrops ==
    ASSUME IInv, IInv', SteadyInv, HooklessInv, ClientRxCarrier,
           dropped # "client"
    PROVE  DroppedByFailure'
<1>1. PICK i \in DOMAIN to_client :
          /\ ~IsRecord(to_client[i])
          /\ \/ /\ client.on /\ to_client[i].epoch > client.floor
                /\ ~ClientAccepts(client, to_client[i])
                /\ client' = Draining(client)
             \/ client.on /\ dropped' = dropped
             \/ ~client.on /\ client' = ClientPacketBegin(client)
          /\ server' = server /\ faults' = faults
  BY DEF ClientRxCarrier
<1> DEFINE x == to_client[i]
<1>2. CASE client.on /\ dropped' = dropped
  BY <1>2 DEF DroppedByFailure
<1>3. CASE /\ client.on /\ x.epoch > client.floor /\ ~ClientAccepts(client, x)
           /\ client' = Draining(client)
  <2>1. "client" \in faults
    BY <1>1, <1>3, CarrierAccepted DEF SteadyInv
  <2>2. client'.on
    BY <1>3, Known, DrainingGood
  <2> QED
    BY <1>1, <2>1, <2>2 DEF DroppedByFailure
<1>4. CASE ~client.on /\ client' = ClientPacketBegin(client)
  <2>1. x \in Range(to_client) /\ x.kind \in Carrier /\ x \in ClientItem
    BY <1>1, Known DEF Range, IsRecord
  <2>2. x.kind = "ACK" /\ x.epoch > 0
    BY <1>4, <2>1 DEF IInv, OffInv, ClientKnows, Carrier
  <2>3. server.life = "DRAIN" /\ x.epoch = server.transport
    BY <1>4, <2>2 DEF HooklessInv, FromDrain
  <2>4. client' = client /\ server.transport # 0
    BY <1>4, <2>1, <2>2, <2>3 DEF ClientPacketBegin, ClientItem
  <2> QED
    BY <1>1, <1>4, <2>3, <2>4 DEF DroppedByFailure
<1> QED
  BY <1>1, <1>2, <1>3, <1>4

THEOREM ClientDropsByFailure == Spec => []DroppedByFailure
<1>1. Init => DroppedByFailure
  BY DEF Init, DroppedByFailure
<1>2. ASSUME IInv, IInv', SteadyInv, HooklessInv, DroppedByFailure, [Next]_vars
      PROVE  DroppedByFailure'
  <2>1. CASE UNCHANGED vars
    BY <1>2, <2>1 DEF vars, DroppedByFailure
  <2>2. CASE ClientRxCarrier
    <3>1. dropped # "client"
      BY <2>2 DEF ClientRxCarrier
    <3> QED
      BY <1>2, <2>2, <3>1, ClientDrops
  <2>3. CASE dropped' # "client"
    BY <2>3 DEF DroppedByFailure
  <2>4. dropped' # "client" \/ ClientRxCarrier \/ UNCHANGED vars
    BY <1>2
       DEF Next, ChangeMap, LoseCarrier, ServerRxRecord, ServerRxCarrier,
           ServerRxPlain, Service, ServerSendsCarrier, ServerTxExpired,
           ServerFails, ServerDeadlinePasses, ClientDeadlinePasses,
           QueueExpires, ClientRxRecord, ClientRxPlain, ClientBegins,
           ClientSendsCarrier, ClientFails
  <2> QED
    BY <2>1, <2>2, <2>3, <2>4
<1> QED
  BY <1>1, <1>2, Invariance, SteadyHolds, HooklessHolds, PTL DEF Spec

\* The failures of the server's adapter fall back silently with one exception,
\* the receipt of its drain that finds no hooks: FailureKeepsConnection, which
\* native_handshake_dropped refutes with a client that fails, is almost, but
\* not altogether, true of them.
HooklessDrop ==
    /\ dropped = "client" /\ ~client.on
    /\ server.life = "DRAIN" /\ server.transport # 0

THEOREM ServerFailuresFallBack ==
    Spec => [](faults \subseteq {"server"} =>
                   FailureKeepsConnection \/ HooklessDrop)
<1>1. BoundInv /\ DroppedOverTime /\ DroppedByFailure =>
          (faults \subseteq {"server"} =>
               FailureKeepsConnection \/ HooklessDrop)
  BY DEF BoundInv, RestInv, DroppedOverTime, DroppedByFailure,
         FailureKeepsConnection, HooklessDrop
<1> QED
  BY <1>1, BoundsHold, ServerDropsOverTime, ClientDropsByFailure, PTL

=============================================================================
