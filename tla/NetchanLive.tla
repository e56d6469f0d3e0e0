---------------------------- MODULE NetchanLive ----------------------------
(***************************************************************************)
(* Two NEW channels driven as the server and the client drive them while   *)
(* a connection is being set up: SV_SendAsyncPackets (server/send.c) and   *)
(* the keep-alive path of CL_SendCmd (client/input.cpp).  Who may send,    *)
(* and when a quiet second makes an end speak up, is what makes reliable   *)
(* messages arrive at all.                                                 *)
(***************************************************************************)
EXTENDS NetchanNew, SequencesExt

CONSTANT MaxFaults     \* bound: packets the network loses or reorders

ASSUME FaultAssumption == MaxFaults \in Nat

VARIABLES inflight,  \* inflight[e]: packets of e on their way, oldest first
          quiet,     \* quiet[e]: more than a second since e's last_sent
          faults     \* history: packets lost or overtaking so far

liveVars == <<vars, inflight, quiet, faults>>

LiveInit ==
    /\ Init
    /\ inflight = [e \in Ends |-> <<>>]
    /\ quiet = [e \in Ends |-> FALSE]
    /\ faults = 0

\* Netchan_Transmit without a datagram: the next fragment, if one is due.
\* Only a complete message restarts the clock of last_sent.
TransmitNothing(e) ==
    /\ IF fragment_pending[e] THEN TransmitNextFragment(e) ELSE Transmit(e, 0)
    /\ inflight' = [inflight EXCEPT
                       ![e] = @ \o SetToSeq(network'[e] \ network[e])]
    /\ quiet' = [quiet EXCEPT ![e] = @ /\ outgoing_sequence' = outgoing_sequence]
    /\ UNCHANGED faults

\* Mutant of ServerReady: never retransmits.
ServerReadyOnce ==
    \/ fragment_pending[Server]
    \/ /\ reliable_buf[Server] = <<>>
       /\ message[Server] # <<>> \/ reliable_ack_pending[Server]

\* SV_SendAsyncPackets, client not yet active: fragments first; while a batch
\* is unacknowledged only a quiet second lets anything out.
ServerReady ==
    \/ fragment_pending[Server]
    \/ quiet[Server]
    \/ /\ reliable_buf[Server] = <<>>
       /\ message[Server] # <<>> \/ reliable_ack_pending[Server]

\* Mutant of ClientReady: no keep-alive after a quiet second.
ClientReadyNoKeepAlive ==
    \/ message[Client] # <<>>
    \/ reliable_ack_pending[Client]
    \/ fragment_out[Client] # <<>>

\* Netchan_ShouldUpdate.
ClientReady ==
    \/ message[Client] # <<>>
    \/ reliable_ack_pending[Client]
    \/ fragment_out[Client] # <<>>
    \/ quiet[Client]

SendAsyncPackets == ServerReady /\ TransmitNothing(Server)
SendKeepAlive == ClientReady /\ TransmitNothing(Client)

WriteReliable(e) == Write(e) /\ UNCHANGED <<inflight, quiet, faults>>

Arrive(e) ==
    /\ inflight[Peer(e)] # <<>>
    /\ Process(e, Head(inflight[Peer(e)]))
    /\ inflight' = [inflight EXCEPT ![Peer(e)] = Tail(@)]
    /\ UNCHANGED <<quiet, faults>>

\* The network misbehaves: a packet overtakes older ones, or is lost.
Misbehave(e) ==
    /\ faults < MaxFaults
    /\ faults' = faults + 1
    /\ UNCHANGED quiet
    /\ \E i \in 1 .. Len(inflight[Peer(e)]) :
           /\ inflight' = [inflight EXCEPT ![Peer(e)] = RemoveAt(@, i)]
           /\ \/ i > 1 /\ Process(e, inflight[Peer(e)][i])
              \/ UNCHANGED vars

Outstanding(e) == message[e] # <<>> \/ reliable_buf[e] # <<>>

\* A second passes: packets under way have arrived or are lost, and nobody
\* had anything to send at once.  Once nothing is outstanding the clock stops:
\* the keep-alives that would follow carry nothing.
SecondPasses ==
    /\ \E e \in Ends : Outstanding(e)
    /\ \A e \in Ends : inflight[e] = <<>>
    /\ ~ ServerReady /\ ~ ClientReady
    /\ quiet' = [e \in Ends |-> TRUE]
    /\ UNCHANGED <<vars, inflight, faults>>

LiveNext ==
    \/ SendAsyncPackets
    \/ SendKeepAlive
    \/ SecondPasses
    \/ \E e \in Ends : WriteReliable(e) \/ Arrive(e) \/ Misbehave(e)

\* Both main loops run every frame, the clock runs, and a packet that is not
\* lost arrives.  Nothing obliges anyone to write, or the network to misbehave
\* (a network that always swaps the fragments of a message never delivers it).
Fairness ==
    /\ WF_liveVars(SendAsyncPackets)
    /\ WF_liveVars(SendKeepAlive)
    /\ WF_liveVars(SecondPasses)
    /\ \A e \in Ends : WF_liveVars(Arrive(e))

LiveSpec == LiveInit /\ [][LiveNext]_liveVars /\ Fairness

-----------------------------------------------------------------------------
\* Every reliable message written is read by the peer in the end, and the
\* sender learns of it, whichever packets are lost or overtaken.
EventuallyDelivered ==
    \A e \in Ends : \A n \in 1 .. MaxWritten[e] :
        written[e] >= n ~> n <= Len(delivered[e])

EventuallyReleased == \A e \in Ends : Outstanding(e) ~> ~ Outstanding(e)
=============================================================================
