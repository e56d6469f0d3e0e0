-------------------------- MODULE NativeHandshake --------------------------
(***************************************************************************)
(* The readiness handshake between its two adapters over one net channel:  *)
(* src/server/native_shadow.c with the calls of user.c, init.c and         *)
(* send.c on the server, src/client/native_readiness_pilot.cpp on the      *)
(* client, in a mode with server data (events, snapshots).                 *)
(*                                                                         *)
(*   CHANGING -> NEW -> SERVERDATA -> BEGIN                                *)
(*     -> CHALLENGE -> READY -> SERVER_ACTIVE -> CONFIRM                   *)
(*                                                                         *)
(* starts anew on each map.  The records are reliable, the carriers (DATA, *)
(* ACK) ride on any packet: they get lost, and they overtake records that  *)
(* wait for a retransmission.  Either adapter may fail alone, and time may *)
(* run out; `faults' says which of these a behaviour has.                  *)
(*                                                                         *)
(* Of the readiness core (NativeReadiness) only the phase is kept: a       *)
(* record is its epoch.  `late' says that the deadline of the waiting      *)
(* phase has passed on the clock the adapter reads.  carrier_traffic_seen  *)
(* is left out: it never holds before the wire commitment.                 *)
(***************************************************************************)
EXTENDS Integers, FiniteSets, SequencesExt

CONSTANTS MaxMaps,      \* bound: maps of one connection
          MaxCarriers,  \* bound: carriers on the way in one direction
          FaultChoices  \* which of "server", "client", "time" may fail

ASSUME BoundAssumption ==
    /\ MaxMaps \in Nat \ {0}
    /\ MaxCarriers \in Nat
    /\ FaultChoices \subseteq SUBSET {"server", "client", "time"}

VARIABLES server,     \* sv_native_shadow_peer_v1
          slot,       \* the client_t: state, map, challenge pending
          client,     \* the client's pilot
          loading,    \* the client precaches a map and will send "begin"
          to_server,  \* what is on the way, oldest first
          to_client,
          dropped,    \* who ended the connection over a carrier
          faults      \* constant in a behaviour

vars == <<server, slot, client, loading, to_server, to_client, dropped, faults>>

Epoch == 0 .. MaxMaps
Carrier == {"DATA", "ACK"}
ToServer == {"NEW", "BEGIN", "READY", "CONFIRM"} \cup Carrier
ToClient == {"CHANGING", "SERVERDATA", "LEGACY", "CHALLENGE", "SERVER_ACTIVE"}
            \cup Carrier
Waiting == {"WAIT_READY", "WAIT_CONFIRM", "WAIT_ACTIVE"}
Larger(a, b) == IF a < b THEN b ELSE a

-----------------------------------------------------------------------------
(***************************************************************************)
(* The channel.  Packets arrive in order or not at all; a record is sent   *)
(* again until it arrives, a carrier is not.  So records arrive in order,  *)
(* carriers arrive in order or get lost, and a carrier may overtake the    *)
(* records before it, but no record a carrier: those are lost.             *)
(***************************************************************************)
Item(kind, epoch) == [kind |-> kind, epoch |-> epoch]
IsRecord(item) == item.kind \notin Carrier

MayArrive(q, i) ==
    \A j \in 1 .. i - 1 : IsRecord(q[j]) # IsRecord(q[i])

WithoutArrived(q, i) ==
    IF IsRecord(q[i]) THEN SubSeq(q, i + 1, Len(q)) ELSE RemoveAt(q, i)

MayCarry(q) ==
    Cardinality({i \in DOMAIN q : ~IsRecord(q[i])}) < MaxCarriers

-----------------------------------------------------------------------------
(***************************************************************************)
(* The server's peer.                                                      *)
(***************************************************************************)
FreshServer ==
    [on |-> TRUE, life |-> "WAIT_READINESS", phase |-> "NONE", epoch |-> 0,
     floor |-> 0, transport |-> 0, wire |-> 0, owes |-> FALSE, late |-> FALSE]

\* enter_drain with disable_readiness: only the carriers stay understood.
Drained(s) ==
    [s EXCEPT !.on = FALSE, !.phase = "NONE", !.late = FALSE, !.life = "DRAIN"]

\* SV_NativeShadowPeerDisableV1
Disable(s) ==
    IF s.wire # 0 \/ s.life = "DRAIN"
    THEN Drained(s)
    ELSE [Drained(s) EXCEPT !.life = "DETACHED"]

\* cancel_prior_native_epochs
Cancelled(s) ==
    [s EXCEPT !.floor = Larger(s.floor, s.epoch), !.transport = 0,
              !.owes = FALSE]

\* Mutant of QuiesceMap: the floor moves only with the next CHALLENGE.
QuiesceWithoutFloor(s) ==
    IF s.on
    THEN [s EXCEPT !.transport = 0, !.owes = FALSE, !.life = "WAIT_READINESS"]
    ELSE s

\* SV_NativeShadowPeerQuiesceMapV1: the readiness core is not touched.
QuiesceMap(s) ==
    IF s.on THEN [Cancelled(s) EXCEPT !.life = "WAIT_READINESS"] ELSE s

\* Mutant of BeginEpoch: the allocation counts twice.
BeginSkipping(s) ==
    [Cancelled(s) EXCEPT !.epoch = @ + 2, !.phase = "WAIT_READY",
                         !.late = FALSE, !.life = "WAIT_READINESS"]

\* SV_NativeShadowBeginEpochBoundV1; epochs are allocated in order.
BeginEpoch(s) ==
    [Cancelled(s) EXCEPT !.epoch = @ + 1, !.phase = "WAIT_READY",
                         !.late = FALSE, !.life = "WAIT_READINESS"]

\* A wait whose deadline has passed, on the clock the adapter reads.
Expired(end) == end.late /\ end.phase \in Waiting

\* SV_NativeShadowPacketBeginV1, once per packet before its records.
ServerPacketBegin(s) == IF s.on /\ Expired(s) THEN Disable(s) ELSE s

\* The client answers the CHALLENGE; the core starts to wait for CONFIRM.
Ready(s) == [s EXCEPT !.phase = "WAIT_CONFIRM", !.late = FALSE]

\* Mutant of Opened: only the first epoch of a connection is committed.
OpenedCommitsOnce(s) ==
    [s EXCEPT !.wire = IF @ = 0 THEN s.epoch ELSE @, !.transport = s.epoch,
              !.life = "ACTIVE"]

\* SV_NativeShadowServerActiveQueuedV1: the record is in the queue, so the
\* epoch is committed whatever the set-up of the transport does then.
Opened(s) ==
    [s EXCEPT !.wire = s.epoch, !.transport = s.epoch, !.life = "ACTIVE"]

\* Mutant of NotOpened: the commitment waits for the set-up to succeed.
NotOpenedUncommitted(s) == Disable(s)

\* ... and one of the fallible calls after the commitment failed.
NotOpened(s) == Disable([s EXCEPT !.wire = s.epoch])

\* Mutant of ServerMaySendData: the CONFIRM is not waited for.
DataWithoutConfirm(s) == s.life = "ACTIVE"

\* native_shadow_tx_prepare: DATA while active, receipts in DRAIN too.
ServerMaySendData(s) == s.life = "ACTIVE" /\ s.phase = "ACTIVE"
ServerMaySendAck(s) ==
    /\ s.owes
    /\ s.transport # 0
    /\ ServerMaySendData(s) \/ s.life = "DRAIN"

-----------------------------------------------------------------------------
(***************************************************************************)
(* The client's pilot.                                                     *)
(***************************************************************************)
\* CL_NativeReadinessPilotBeginConnection
FreshClient ==
    [on |-> TRUE, mode |-> "ARMING", quiesced |-> TRUE, confirmed |-> FALSE,
     phase |-> "NONE", epoch |-> 0, floor |-> 0, session |-> 0,
     committed |-> FALSE, owes |-> FALSE, late |-> FALSE]

\* disable_pilot
Off == [FreshClient EXCEPT !.on = FALSE, !.quiesced = FALSE]

\* enter_drain
Draining(c) == [c EXCEPT !.mode = "DRAIN"]

\* pilot_failure
Failed(c) ==
    IF ~c.on THEN c ELSE IF c.committed THEN Draining(c) ELSE Off

\* Mutant of MapBoundary: the quiesced map is not remembered.
BoundaryForgotten(c) == IF c.on THEN Draining(c) ELSE c

\* enter_map_boundary
MapBoundary(c) ==
    IF c.on THEN [Draining(c) EXCEPT !.quiesced = TRUE] ELSE c

\* CL_NativeReadinessPilotPacketBegin, once per packet before its records;
\* the failed phase is not stored.
ClientPacketBegin(c) == IF c.on /\ Expired(c) THEN Failed(c) ELSE c

\* observe_challenge accepts the epoch: the first one of a map.
MayArm(c, epoch) == c.quiesced /\ epoch > c.epoch /\ epoch > c.floor

\* stage_ and commit_prior_native_epoch_cancellation, with READY queued.
Armed(c, epoch) ==
    [c EXCEPT !.floor = Larger(c.floor, c.epoch), !.session = 0,
              !.owes = FALSE, !.phase = "WAIT_ACTIVE", !.epoch = epoch,
              !.committed = TRUE, !.quiesced = FALSE, !.mode = "ARMING",
              !.late = FALSE]

\* Mutant of MayActivate: DRAIN is left by a late SERVER_ACTIVE.
ActivateFromDrain(c, epoch) == c.phase = "WAIT_ACTIVE" /\ epoch = c.epoch

\* observe_server_active accepts the epoch.
MayActivate(c, epoch) ==
    c.phase = "WAIT_ACTIVE" /\ c.mode # "DRAIN" /\ epoch = c.epoch

\* activate_native_session
Activated(c, epoch) == [c EXCEPT !.session = epoch, !.mode = "ACTIVE"]

\* pilot_tx_prepare_event: a quiesced map still gets its receipts released.
ClientMaySendData(c) == c.mode = "ACTIVE" /\ ~c.quiesced
ClientMaySendAck(c) ==
    /\ c.owes
    /\ c.session # 0
    /\ ClientMaySendData(c) \/ (c.mode = "DRAIN" /\ c.quiesced)

-----------------------------------------------------------------------------
Init ==
    /\ server = FreshServer
    /\ slot = [state |-> "connected", map |-> 1, pending |-> FALSE]
    /\ client = FreshClient
    /\ loading = FALSE
    /\ to_server = <<Item("NEW", 0)>>
    /\ to_client = <<>>
    /\ dropped = "none"
    /\ faults \in FaultChoices

LoseCarrier ==
    /\ dropped = "none"
    /\ \/ \E i \in DOMAIN to_server :
             /\ ~IsRecord(to_server[i])
             /\ to_server' = RemoveAt(to_server, i)
             /\ UNCHANGED to_client
       \/ \E i \in DOMAIN to_client :
             /\ ~IsRecord(to_client[i])
             /\ to_client' = RemoveAt(to_client, i)
             /\ UNCHANGED to_server
    /\ UNCHANGED <<server, slot, client, loading, dropped, faults>>

-----------------------------------------------------------------------------
(***************************************************************************)
(* Steps of the server.                                                    *)
(***************************************************************************)
\* SV_SpawnServer: SV_ClientReset, then "changing" and "reconnect", which
\* reach the client back to back.
ChangeMap ==
    /\ dropped = "none"
    /\ slot.map < MaxMaps
    /\ slot' = [state |-> "connected", map |-> slot.map + 1, pending |-> FALSE]
    /\ server' = QuiesceMap(server)
    /\ to_client' = Append(to_client, Item("CHANGING", 0))
    /\ UNCHANGED <<client, loading, to_server, dropped, faults>>

\* SV_New_f with SV_ConfirmWorrCapabilities; s is the peer after PacketBegin.
New(s) ==
    /\ slot' = [slot EXCEPT !.state = "primed", !.pending = FALSE]
    /\ server' = IF s.on THEN s ELSE Disable(s)
    /\ to_client' =
         Append(to_client, Item(IF s.on THEN "SERVERDATA" ELSE "LEGACY", 0))

Ignore(s) == server' = s /\ UNCHANGED <<slot, to_client>>

RxNew(s) == IF slot.state = "connected" THEN New(s) ELSE Ignore(s)

\* SV_Begin_f: no map is named, "begin" of an earlier one counts as well.
RxBegin(s) ==
    \/ slot.state = "connected" /\ New(s)
    \/ /\ slot.state = "primed"
       /\ slot' = [slot EXCEPT !.state = "spawned", !.pending = TRUE]
       /\ server' = s
       /\ UNCHANGED to_client
    \/ slot.state = "spawned" /\ Ignore(s)

\* SV_NativeShadowObserveSettingV1 with a CLIENT_READY, and what the packet
\* loop of user.c does with its result.
RxReady(s, epoch) ==
    \/ (~s.on \/ epoch <= s.floor) /\ Ignore(s)
    \/ /\ s.on /\ epoch > s.floor
       /\ s.phase # "WAIT_READY" \/ epoch # s.epoch
       /\ Ignore(Disable(s))
    \/ /\ s.on /\ epoch > s.floor
       /\ s.phase = "WAIT_READY" /\ epoch = s.epoch
       /\ UNCHANGED slot
       /\ \/ /\ server' = Opened(Ready(s))
             /\ to_client' = Append(to_client, Item("SERVER_ACTIVE", epoch))
          \/ /\ "server" \in faults
             /\ server' = NotOpened(Ready(s))
             /\ to_client' = Append(to_client, Item("SERVER_ACTIVE", epoch))
          \/ /\ "server" \in faults
             /\ server' = Disable(Ready(s))
             /\ UNCHANGED to_client

\* ... with a CLIENT_ACTIVE_CONFIRM.
RxConfirm(s, epoch) ==
    IF ~s.on \/ epoch <= s.floor THEN Ignore(s)
    ELSE IF s.transport # 0 /\ s.phase = "WAIT_CONFIRM" /\ epoch = s.epoch
         THEN Ignore([s EXCEPT !.phase = "ACTIVE", !.late = FALSE])
         ELSE Ignore(Disable(s))

ServerRxRecord ==
    \E i \in DOMAIN to_server :
        /\ dropped = "none"
        /\ IsRecord(to_server[i]) /\ MayArrive(to_server, i)
        /\ to_server' = WithoutArrived(to_server, i)
        /\ LET s == ServerPacketBegin(server)
               item == to_server[i]
           IN  \/ item.kind = "NEW" /\ RxNew(s)
               \/ item.kind = "BEGIN" /\ RxBegin(s)
               \/ item.kind = "READY" /\ RxReady(s, item.epoch)
               \/ item.kind = "CONFIRM" /\ RxConfirm(s, item.epoch)
        /\ UNCHANGED <<client, loading, dropped, faults>>

\* native_shadow_rx rejects the packet of a carrier.
ServerRejects(s, epoch) ==
    /\ s.life # "DETACHED"
    /\ epoch > s.floor
    /\ \/ s.transport # epoch /\ s.wire # epoch
       \/ s.transport = epoch /\ s.life = "ACTIVE" /\ Expired(s)

\* native_shadow_rx otherwise: the legacy prefix is read, and the carrier is
\* taken or drained.
ServerTakes(s, item) ==
    IF s.life = "DETACHED" \/ item.epoch <= s.floor THEN s
    ELSE IF s.transport # item.epoch THEN Drained(s)
    ELSE IF s.life = "ACTIVE" /\ item.kind = "DATA" THEN [s EXCEPT !.owes = TRUE]
    ELSE s

\* To a channel without hooks the carrier is part of the message: its bytes
\* are read as commands, and a bad one ends the connection.
ServerRxCarrier ==
    \E i \in DOMAIN to_server :
        /\ dropped = "none"
        /\ ~IsRecord(to_server[i]) /\ MayArrive(to_server, i)
        /\ to_server' = WithoutArrived(to_server, i)
        /\ IF ServerRejects(server, to_server[i].epoch)
           THEN /\ server' = Drained(server)
                /\ dropped' = "server"
           ELSE /\ server' = ServerPacketBegin(ServerTakes(server, to_server[i]))
                /\ dropped' = IF server.life = "DETACHED" THEN "server" ELSE dropped
        /\ UNCHANGED <<slot, client, loading, to_client, faults>>

\* A packet with neither record nor carrier still runs PacketBegin.
ServerRxPlain ==
    /\ dropped = "none"
    /\ Expired(server)
    /\ server' = ServerPacketBegin(server)
    /\ UNCHANGED <<slot, client, loading, to_server, to_client, dropped, faults>>

\* SV_ServiceNativeShadowChallenge once the reliable prefix of "begin" is
\* out, with SV_MaintainNativeShadowChallengePending.
Service ==
    /\ dropped = "none"
    /\ slot.pending
    /\ slot' = [slot EXCEPT !.pending = FALSE]
    /\ IF server.on
       THEN /\ server' = BeginEpoch(server)
            /\ to_client' = Append(to_client,
                                   Item("CHALLENGE", server.epoch + 1))
       ELSE server' = Disable(server) /\ UNCHANGED to_client
    /\ UNCHANGED <<client, loading, to_server, dropped, faults>>

ServerSendsCarrier ==
    \E kind \in Carrier :
        /\ dropped = "none"
        /\ MayCarry(to_client)
        /\ kind = "DATA" => ServerMaySendData(server)
        /\ kind = "ACK" => ServerMaySendAck(server)
        /\ to_client' = Append(to_client, Item(kind, server.transport))
        /\ server' \in {server} \cup
                       IF kind = "ACK" THEN {[server EXCEPT !.owes = FALSE]}
                                       ELSE {}
        /\ UNCHANGED <<slot, client, loading, to_server, dropped, faults>>

\* The transmission of a packet finds the deadline of an active peer passed.
ServerTxExpired ==
    /\ dropped = "none"
    /\ server.life = "ACTIVE" /\ Expired(server)
    /\ server' = Drained(server)
    /\ UNCHANGED <<slot, client, loading, to_server, to_client, dropped, faults>>

\* Any local check of the adapter fails: a queue, a clock, a sender.
ServerFails ==
    /\ "server" \in faults
    /\ dropped = "none"
    /\ server.on
    /\ server' = Disable(server)
    /\ slot' \in {slot, [slot EXCEPT !.pending = FALSE]}
    /\ UNCHANGED <<client, loading, to_server, to_client, dropped, faults>>

-----------------------------------------------------------------------------
(***************************************************************************)
(* Time.                                                                   *)
(***************************************************************************)
ServerDeadlinePasses ==
    /\ "time" \in faults
    /\ dropped = "none"
    /\ server.phase \in Waiting /\ ~server.late
    /\ server' = [server EXCEPT !.late = TRUE]
    /\ UNCHANGED <<slot, client, loading, to_server, to_client, dropped, faults>>

ClientDeadlinePasses ==
    /\ "time" \in faults
    /\ dropped = "none"
    /\ client.phase \in Waiting /\ ~client.late
    /\ client' = [client EXCEPT !.late = TRUE]
    /\ UNCHANGED <<server, slot, loading, to_server, to_client, dropped, faults>>

\* SV_NativeShadowChallengeQueueExpiredV1: the request outlived its bound.
QueueExpires ==
    /\ "time" \in faults
    /\ dropped = "none"
    /\ slot.pending
    /\ slot' = [slot EXCEPT !.pending = FALSE]
    /\ server' = Disable(server)
    /\ UNCHANGED <<client, loading, to_server, to_client, dropped, faults>>

-----------------------------------------------------------------------------
(***************************************************************************)
(* Steps of the client.                                                    *)
(***************************************************************************)
\* observe_record with a CHALLENGE
RxChallenge(c, epoch) ==
    \/ (~c.on \/ (c.confirmed /\ epoch <= c.floor))
       /\ client' = c /\ UNCHANGED to_server
    \/ /\ c.on /\ epoch > c.floor /\ ~(c.confirmed /\ MayArm(c, epoch))
       /\ client' = Failed(c) /\ UNCHANGED to_server
    \/ /\ c.on /\ c.confirmed /\ MayArm(c, epoch)
       /\ \/ /\ client' = Armed(c, epoch)
             /\ to_server' = Append(to_server, Item("READY", epoch))
          \/ /\ "client" \in faults
             /\ client' = Failed(c) /\ UNCHANGED to_server

\* observe_record with a SERVER_ACTIVE; the CONFIRM may not fit the queue.
RxServerActive(c, epoch) ==
    \/ (~c.on \/ (c.confirmed /\ epoch <= c.floor))
       /\ client' = c /\ UNCHANGED to_server
    \/ /\ c.on /\ epoch > c.floor /\ ~(c.confirmed /\ MayActivate(c, epoch))
       /\ client' = Failed(c) /\ UNCHANGED to_server
    \/ /\ c.on /\ c.confirmed /\ epoch > c.floor /\ MayActivate(c, epoch)
       /\ \/ /\ client' = [Activated(c, epoch) EXCEPT !.phase = "ACTIVE"]
             /\ to_server' = Append(to_server, Item("CONFIRM", epoch))
          \/ /\ "client" \in faults
             /\ client' \in {Failed(c), Failed(Activated(c, epoch))}
             /\ UNCHANGED to_server

\* CL_Changing_f, and "new" for the "reconnect" that follows.
RxChanging(c) ==
    /\ client' = MapBoundary(c)
    /\ loading' = FALSE
    /\ to_server' = Append(to_server, Item("NEW", 0))

\* CL_ParseServerData, then the capabilities it brings: the exact native set
\* or, from a peer that is not enabled, the legacy one.
RxServerData(c, native) ==
    /\ client' = IF c.on /\ native
                 THEN [MapBoundary(c) EXCEPT !.confirmed = TRUE]
                 ELSE Off
    /\ loading' = TRUE
    /\ UNCHANGED to_server

ClientRxRecord ==
    \E i \in DOMAIN to_client :
        /\ dropped = "none"
        /\ IsRecord(to_client[i]) /\ MayArrive(to_client, i)
        /\ to_client' = WithoutArrived(to_client, i)
        /\ LET c == ClientPacketBegin(client)
               item == to_client[i]
           IN  \/ item.kind = "CHANGING" /\ RxChanging(c)
               \/ item.kind = "SERVERDATA" /\ RxServerData(c, TRUE)
               \/ item.kind = "LEGACY" /\ RxServerData(c, FALSE)
               \/ /\ item.kind = "CHALLENGE" /\ RxChallenge(c, item.epoch)
                  /\ UNCHANGED loading
               \/ /\ item.kind = "SERVER_ACTIVE" /\ RxServerActive(c, item.epoch)
                  /\ UNCHANGED loading
        /\ UNCHANGED <<server, slot, dropped, faults>>

\* pilot_rx_event: is this carrier of the session, and DATA when it is active?
ClientAccepts(c, item) ==
    /\ c.session = item.epoch
    /\ c.mode = "ACTIVE" \/ (c.mode = "DRAIN" /\ item.kind = "ACK")

\* Without the pilot's hooks CL_ParseServerMessage reads the carrier too: an
\* ACK is a muzzle flash followed by a bad command, which is ERR_DROP.
ClientRxCarrier ==
    \E i \in DOMAIN to_client :
        /\ dropped = "none"
        /\ ~IsRecord(to_client[i]) /\ MayArrive(to_client, i)
        /\ to_client' = WithoutArrived(to_client, i)
        /\ LET c == client
               item == to_client[i]
               owing == [c EXCEPT !.owes = @ \/ item.kind = "DATA"]
           IN  IF c.on /\ item.epoch > c.floor /\ ~ClientAccepts(c, item)
               THEN client' = Draining(c) /\ dropped' = "client"
               ELSE /\ client' = ClientPacketBegin(
                                   IF c.on /\ item.epoch > c.floor
                                   THEN owing ELSE c)
                    /\ dropped' = IF c.on THEN dropped ELSE "client"
        /\ UNCHANGED <<server, slot, loading, to_server, faults>>

ClientRxPlain ==
    /\ dropped = "none"
    /\ Expired(client)
    /\ client' = ClientPacketBegin(client)
    /\ client' # client
    /\ UNCHANGED <<server, slot, loading, to_server, to_client, dropped, faults>>

\* The map is precached: CL_Begin sends "begin".
ClientBegins ==
    /\ dropped = "none"
    /\ loading
    /\ loading' = FALSE
    /\ to_server' = Append(to_server, Item("BEGIN", 0))
    /\ UNCHANGED <<server, slot, client, to_client, dropped, faults>>

ClientSendsCarrier ==
    \E kind \in Carrier :
        /\ dropped = "none"
        /\ client.on
        /\ MayCarry(to_server)
        /\ kind = "DATA" => ClientMaySendData(client)
        /\ kind = "ACK" => ClientMaySendAck(client)
        /\ to_server' = Append(to_server, Item(kind, client.session))
        /\ client' \in {client} \cup
                       IF kind = "ACK" THEN {[client EXCEPT !.owes = FALSE]}
                                       ELSE {}
        /\ UNCHANGED <<server, slot, loading, to_client, dropped, faults>>

\* Any local check of the pilot fails.
ClientFails ==
    /\ "client" \in faults
    /\ dropped = "none"
    /\ client.on
    /\ client' = Failed(client)
    /\ client' # client
    /\ UNCHANGED <<server, slot, loading, to_server, to_client, dropped, faults>>

-----------------------------------------------------------------------------
Next ==
    \/ ChangeMap \/ LoseCarrier
    \/ ServerRxRecord \/ ServerRxCarrier \/ ServerRxPlain
    \/ Service \/ ServerSendsCarrier \/ ServerTxExpired \/ ServerFails
    \/ ServerDeadlinePasses \/ ClientDeadlinePasses \/ QueueExpires
    \/ ClientRxRecord \/ ClientRxCarrier \/ ClientRxPlain
    \/ ClientBegins \/ ClientSendsCarrier \/ ClientFails

Spec == Init /\ [][Next]_vars

(***************************************************************************)
(* Fairness: the channel delivers each record (Netchan, NetchanLive), the  *)
(* server services a pending challenge on every frame, and a client that   *)
(* was told to load a map finishes doing so.                               *)
(***************************************************************************)
Fairness ==
    /\ WF_vars(ServerRxRecord)
    /\ WF_vars(ClientRxRecord)
    /\ WF_vars(Service)
    /\ WF_vars(ClientBegins)

LiveSpec == Spec /\ Fairness

-----------------------------------------------------------------------------
(***************************************************************************)
(* Properties.                                                             *)
(***************************************************************************)
\* The type of every part, and the few facts that tie the fields of one end
\* together.
TypeOK ==
    /\ server \in [on : BOOLEAN,
                   life : {"WAIT_READINESS", "ACTIVE", "DRAIN", "DETACHED"},
                   phase : {"NONE", "WAIT_READY", "WAIT_CONFIRM", "ACTIVE"},
                   epoch : Epoch, floor : Epoch, transport : Epoch,
                   wire : Epoch, owes : BOOLEAN, late : BOOLEAN]
    /\ slot \in [state : {"connected", "primed", "spawned"},
                 map : 1 .. MaxMaps, pending : BOOLEAN]
    /\ client \in [on : BOOLEAN, mode : {"ARMING", "ACTIVE", "DRAIN"},
                   quiesced : BOOLEAN, confirmed : BOOLEAN,
                   phase : {"NONE", "WAIT_ACTIVE", "ACTIVE"},
                   epoch : Epoch, floor : Epoch, session : Epoch,
                   committed : BOOLEAN, owes : BOOLEAN, late : BOOLEAN]
    /\ loading \in BOOLEAN
    /\ to_server \in Seq([kind : ToServer, epoch : Epoch])
    /\ to_client \in Seq([kind : ToClient, epoch : Epoch])
    /\ dropped \in {"none", "server", "client"}
    /\ faults \in FaultChoices

\* The transport of the server is that of the epoch it challenged with, which
\* is above the floor and committed to the wire; while it is active, and only
\* then, the readiness core has seen the client's READY.  A peer that is
\* detached has never committed: the client cannot have been made active.
TransportCommitted ==
    /\ server.transport # 0 =>
           /\ server.transport = server.epoch
           /\ server.transport = server.wire
           /\ server.transport > server.floor
           /\ server.life \in {"ACTIVE", "DRAIN"}
    /\ server.life = "ACTIVE" <=>
           server.on /\ server.transport # 0
    /\ server.life = "ACTIVE" => server.phase \in {"WAIT_CONFIRM", "ACTIVE"}
    /\ server.life = "DETACHED" => server.wire = 0
    /\ server.life = "DRAIN" => server.wire # 0

\* inc/common/net/native_carrier.h:24 says that an end without native hooks
\* never sees a carrier.  The wire commitment keeps this promise to a server
\* peer that has detached its hooks, and it keeps DATA from a client whose
\* pilot is disabled.  It is broken in one case only: a server that drains
\* still sends the receipt it owes for the epoch of its transport, although it
\* has told the client by a legacy serverdata to take its hooks off.
OnlyReceiptsToHookless ==
    /\ server.life = "DETACHED" =>
           \A i \in DOMAIN to_server : IsRecord(to_server[i])
    /\ ~client.on =>
           \A i \in DOMAIN to_client :
               ~IsRecord(to_client[i]) =>
                   /\ to_client[i].kind = "ACK"
                   /\ server.life = "DRAIN"
                   /\ to_client[i].epoch = server.transport

\* A carrier in flight that its receiver has not cancelled belongs to the
\* epoch the receiver knows: the server has committed it to the wire, the
\* client holds its session.  The four records are exchanged for this.
CarriersExpected ==
    dropped = "none" =>
        /\ \A i \in DOMAIN to_server :
               ~IsRecord(to_server[i]) /\ to_server[i].epoch > server.floor
               => to_server[i].epoch = server.wire
        /\ \A i \in DOMAIN to_client :
               /\ ~IsRecord(to_client[i])
               /\ client.on /\ to_client[i].epoch > client.floor
               => to_client[i].epoch = client.session

\* Map changes alone, at any point of the handshake and with any carriers
\* still in flight, make neither end fail: nobody drops the connection, the
\* server never drains, and the client does so only between two maps.
MapChangesHarmless ==
    faults = {} =>
        /\ dropped = "none"
        /\ server.on /\ server.life \in {"WAIT_READINESS", "ACTIVE"}
        /\ client.on
        /\ client.mode = "DRAIN" => client.quiesced

\* A cancelled epoch stays cancelled: the floor of an end never sinks, a
\* transport or session is only ever set up above it, and a client that
\* drains is not made active by a late SERVER_ACTIVE: it takes a CHALLENGE.
CancelledStaysCancelled ==
    [][/\ server'.floor >= server.floor
       /\ server'.transport > server.transport =>
              server'.transport > server'.floor
       /\ client'.on =>
              /\ client'.floor >= client.floor
              /\ client'.session # client.session /\ client'.session # 0 =>
                     client'.session > client'.floor
              /\ client.mode = "DRAIN" => client'.mode # "ACTIVE"]_vars

\* Once the maps stop changing, an undisturbed handshake ends with both ends
\* active in the same epoch.
Settled ==
    /\ server.life = "ACTIVE" /\ server.phase = "ACTIVE"
    /\ client.mode = "ACTIVE" /\ client.session = server.transport
HandshakeSettles == faults = {} => <>[]Settled

\* docs-dev/fr-10-t04-t05-live-per-peer-event-stream-shadow-2026-07-14.md:290
\* says that a failure after native traffic enters drain, where recognized
\* trailers are still stripped: it never costs the connection.
FailureKeepsConnection == dropped = "none"

\* src/server/init.c:46 says that the map boundary keeps an unfinished
\* handshake from expiring against the next map and turning a healthy peer
\* into terminal DRAIN.  Other than over its challenge request, a peer drains
\* only in an epoch that is not cancelled.
NoDrainByCancelledEpoch ==
    [][server.on /\ server'.life = "DRAIN" =>
           server.epoch > server.floor \/ slot.pending]_vars
=============================================================================
