------------------------------ MODULE Reliable ------------------------------
(***************************************************************************)
(* The reliability layer of the TLS control channel (reliable.c), as two   *)
(* peers use it over a datagram network that loses, duplicates and         *)
(* reorders packets.  Each peer keeps                                      *)
(*   - send_reliable: copies of outgoing packets until they are ACKed,     *)
(*   - rec_reliable:  received packets waiting to be handed to TLS in      *)
(*                    sequence,                                            *)
(*   - rec_ack:       packet ids it still has to acknowledge.              *)
(* A struct reliable is modelled by the SET of its active entries: every   *)
(* function of reliable.c scans the whole array, so the slot an entry sits *)
(* in is never observable; "no free slot" is Cardinality = size.           *)
(* The actions are the steps of tls_process and tls_pre_decrypt that use   *)
(* the layer; the module allows them in any order.                         *)
(***************************************************************************)
EXTENDS Naturals, Sequences, FiniteSets

CONSTANTS
  Client, Server,   \* the two ends of the control channel
  Data,             \* TLS ciphertext payloads
  NSend,            \* TLS_RELIABLE_N_SEND_BUFFERS (4 in the build)
  NRec,             \* TLS_RELIABLE_N_REC_BUFFERS  (8 in the build)
  AckSize,          \* RELIABLE_ACK_SIZE           (8 in the build)
  AckMax,           \* CONTROL_SEND_ACK_MAX        (4 in the build)
  MaxPackets,       \* bound: packets each peer may produce
  MaxNet            \* bound: datagrams in flight

ASSUME PeerAssumption == Client # Server
ASSUME SizeAssumption == /\ NSend \in Nat \ {0}
                         /\ NRec \in Nat \ {0}
                         /\ AckSize \in Nat \ {0}
                         /\ AckMax \in Nat
ASSUME BoundAssumption == /\ MaxPackets \in [{Client, Server} -> Nat]
                          /\ MaxNet \in Nat

VARIABLES
  sndBuf,     \* send_reliable: active entries of each peer
  sndId,      \* send_reliable->packet_id: next id to assign
  recBuf,     \* rec_reliable: active entries of each peer
  recId,      \* rec_reliable->packet_id: next id to hand to TLS
  recAck,     \* rec_ack: ids to acknowledge, oldest first
  net,        \* datagrams in flight
  produced,   \* history: payloads each peer gave to the layer
  delivered   \* history: payloads the layer gave to each peer's TLS object

vars == <<sndBuf, sndId, recBuf, recId, recAck, net, produced, delivered>>

Peer == {Client, Server}
Other(p) == IF p = Client THEN Server ELSE Client

\* struct reliable_entry; due stands for now >= next_try.
SendEntry == [id : Nat, data : Data, due : BOOLEAN]
RecEntry  == [id : Nat, data : Data]

\* P_CONTROL_V1 with acknowledgements prepended, and the dedicated P_ACK_V1.
ControlPacket == [op : {"P_CONTROL_V1"}, from : Peer, acks : Seq(Nat), id : Nat, data : Data]
AckPacket     == [op : {"P_ACK_V1"}, from : Peer, acks : Seq(Nat)]

Elems(s) == {s[i] : i \in 1..Len(s)}
Ids(S)   == {e.id : e \in S}

\* A datagram handed to the network; one that finds MaxNet others in flight
\* is lost, so that sending never blocks.
Transmit(m) == net' = IF Cardinality(net) < MaxNet THEN net \cup {m} ELSE net

-----------------------------------------------------------------------------
(* The predicates of reliable.c.                                           *)

\* A free buffer exists and the oldest unacknowledged id is inside the window.
reliable_get_buf_output_sequenced(p) ==
  /\ Cardinality(sndBuf[p]) < NSend
  /\ \A e \in sndBuf[p] : sndId[p] - e.id < NSend

reliable_can_get(p) == Cardinality(recBuf[p]) < NRec

reliable_wont_break_sequentiality(p, id) == id < recId[p] + NRec

\* mutant: ids already handed to TLS pass.
reliable_not_replay_Below(p, id) == \A e \in recBuf[p] : e.id # id

reliable_not_replay(p, id) ==
  /\ id >= recId[p]
  /\ \A e \in recBuf[p] : e.id # id

\* mutant: the array is taken to have one entry more than it has.
reliable_ack_acknowledge_packet_id_OffByOne(p, id) ==
  IF id \notin Elems(recAck[p]) /\ Len(recAck[p]) <= AckSize
  THEN Append(recAck[p], id)
  ELSE recAck[p]

\* rec_ack after reliable_ack_acknowledge_packet_id: no duplicates, and the
\* id is dropped when the array is full.
reliable_ack_acknowledge_packet_id(p, id) ==
  IF id \notin Elems(recAck[p]) /\ Len(recAck[p]) < AckSize
  THEN Append(recAck[p], id)
  ELSE recAck[p]

\* reliable_ack_write: how many ids fit, which are written, which stay.
AckCount(p, max)   == IF Len(recAck[p]) > max THEN max ELSE Len(recAck[p])
AckWritten(p, max) == SubSeq(recAck[p], 1, AckCount(p, max))
AckLeft(p, max)    == SubSeq(recAck[p], AckCount(p, max) + 1, Len(recAck[p]))

-----------------------------------------------------------------------------
Init ==
  /\ sndBuf = [p \in Peer |-> {}]
  /\ sndId = [p \in Peer |-> 0]
  /\ recBuf = [p \in Peer |-> {}]
  /\ recId = [p \in Peer |-> 0]
  /\ recAck = [p \in Peer |-> <<>>]
  /\ net = {}
  /\ produced = [p \in Peer |-> <<>>]
  /\ delivered = [p \in Peer |-> <<>>]

\* tls_process, "Outgoing Ciphertext to reliable buffer": take a buffer, fill
\* it from the TLS object and mark it active; next_try = 0 makes it due.
Produce(p, d) ==
  /\ Len(produced[p]) < MaxPackets[p]
  /\ reliable_get_buf_output_sequenced(p)
  /\ sndBuf' = [sndBuf EXCEPT ![p] = @ \cup {[id |-> sndId[p], data |-> d, due |-> TRUE]}]
  /\ sndId' = [sndId EXCEPT ![p] = @ + 1]
  /\ produced' = [produced EXCEPT ![p] = Append(@, d)]
  /\ UNCHANGED <<recBuf, recId, recAck, net, delivered>>

\* mutant: the entry is released once sent.
Send_Forget(p) ==
  /\ \E best \in sndBuf[p] :
       /\ best.due
       /\ \A e \in sndBuf[p] : e.due => best.id <= e.id
       /\ sndBuf' = [sndBuf EXCEPT ![p] = @ \ {best}]
       /\ Transmit([op |-> "P_CONTROL_V1", from |-> p, acks |-> AckWritten(p, AckMax),
                    id |-> best.id, data |-> best.data])
  /\ recAck' = [recAck EXCEPT ![p] = AckLeft(p, AckMax)]
  /\ UNCHANGED <<sndId, recBuf, recId, produced, delivered>>

\* tls_process, "Reliable buffer to outgoing TCP/UDP": reliable_send picks the
\* due entry with the lowest id and schedules its retransmission; up to AckMax
\* acknowledgements travel with it.
Send(p) ==
  /\ \E best \in sndBuf[p] :
       /\ best.due
       /\ \A e \in sndBuf[p] : e.due => best.id <= e.id
       /\ sndBuf' = [sndBuf EXCEPT ![p] = (@ \ {best}) \cup {[best EXCEPT !.due = FALSE]}]
       /\ Transmit([op |-> "P_CONTROL_V1", from |-> p, acks |-> AckWritten(p, AckMax),
                    id |-> best.id, data |-> best.data])
  /\ recAck' = [recAck EXCEPT ![p] = AckLeft(p, AckMax)]
  /\ UNCHANGED <<sndId, recBuf, recId, produced, delivered>>

\* tls_process, "Send 1 or more ACKs" (TLS_AGGREGATE_ACK): a dedicated P_ACK_V1.
\* It follows the loop that sends what is due, but update_time runs between the
\* two, so an entry may have become due again: no guard on reliable_can_send.
SendAck(p) ==
  /\ recAck[p] # <<>>
  /\ Transmit([op |-> "P_ACK_V1", from |-> p, acks |-> AckWritten(p, AckSize)])
  /\ recAck' = [recAck EXCEPT ![p] = AckLeft(p, AckSize)]
  /\ UNCHANGED <<sndBuf, sndId, recBuf, recId, produced, delivered>>

\* mutant: the acknowledgement is queued before the window is tested.
Receive_AckFirst(p, m) ==
  /\ m.from = Other(p)
  /\ net' \in {net, net \ {m}}
  /\ sndBuf' = [sndBuf EXCEPT ![p] = {e \in @ : e.id \notin Elems(m.acks)}]
  /\ IF m.op # "P_ACK_V1"
     THEN /\ recBuf' = [recBuf EXCEPT ![p] =
                          IF /\ reliable_can_get(p)
                             /\ reliable_wont_break_sequentiality(p, m.id)
                             /\ reliable_not_replay(p, m.id)
                          THEN @ \cup {[id |-> m.id, data |-> m.data]} ELSE @]
          /\ recAck' = [recAck EXCEPT ![p] = reliable_ack_acknowledge_packet_id(p, m.id)]
     ELSE UNCHANGED <<recBuf, recAck>>
  /\ UNCHANGED <<sndId, recId, produced, delivered>>

\* mutant: a replay is not acknowledged again.
Receive_NoReack(p, m) ==
  /\ m.from = Other(p)
  /\ net' \in {net, net \ {m}}
  /\ sndBuf' = [sndBuf EXCEPT ![p] = {e \in @ : e.id \notin Elems(m.acks)}]
  /\ IF /\ m.op # "P_ACK_V1"
        /\ reliable_can_get(p)
        /\ reliable_wont_break_sequentiality(p, m.id)
        /\ reliable_not_replay(p, m.id)
     THEN /\ recBuf' = [recBuf EXCEPT ![p] = @ \cup {[id |-> m.id, data |-> m.data]}]
          /\ recAck' = [recAck EXCEPT ![p] = reliable_ack_acknowledge_packet_id(p, m.id)]
     ELSE UNCHANGED <<recBuf, recAck>>
  /\ UNCHANGED <<sndId, recId, produced, delivered>>

\* The part of tls_pre_decrypt that follows authentication: purge what the
\* packet acknowledges, then store its payload (unless it is a replay) and
\* queue an acknowledgement.  The network may keep a copy of the datagram.
Receive(p, m) ==
  /\ m.from = Other(p)
  /\ net' \in {net, net \ {m}}
  /\ sndBuf' = [sndBuf EXCEPT ![p] = {e \in @ : e.id \notin Elems(m.acks)}]
  /\ IF /\ m.op # "P_ACK_V1"
        /\ reliable_can_get(p)
        /\ reliable_wont_break_sequentiality(p, m.id)
     THEN /\ recBuf' = [recBuf EXCEPT ![p] =
                          IF reliable_not_replay(p, m.id)
                          THEN @ \cup {[id |-> m.id, data |-> m.data]} ELSE @]
          /\ recAck' = [recAck EXCEPT ![p] = reliable_ack_acknowledge_packet_id(p, m.id)]
     ELSE UNCHANGED <<recBuf, recAck>>
  /\ UNCHANGED <<sndId, recId, produced, delivered>>

\* mutant: any received packet is handed to TLS, in order of arrival.
Deliver_AnyOrder(p) ==
  \E e \in recBuf[p] :
    /\ recBuf' = [recBuf EXCEPT ![p] = @ \ {e}]
    /\ recId' = [recId EXCEPT ![p] = e.id + 1]
    /\ delivered' = [delivered EXCEPT ![p] = Append(@, e.data)]
    /\ UNCHANGED <<sndBuf, sndId, recAck, net, produced>>

\* tls_process, "Write incoming ciphertext to TLS object":
\* reliable_get_buf_sequenced and reliable_mark_deleted (inc_pid).
Deliver(p) ==
  \E e \in recBuf[p] :
    /\ e.id = recId[p]
    /\ recBuf' = [recBuf EXCEPT ![p] = @ \ {e}]
    /\ recId' = [recId EXCEPT ![p] = e.id + 1]
    /\ delivered' = [delivered EXCEPT ![p] = Append(@, e.data)]
    /\ UNCHANGED <<sndBuf, sndId, recAck, net, produced>>

\* The retransmit timer of one entry runs out (constant timeout, no backoff).
Timeout(p) ==
  \E e \in sndBuf[p] :
    /\ ~ e.due
    /\ sndBuf' = [sndBuf EXCEPT ![p] = (@ \ {e}) \cup {[e EXCEPT !.due = TRUE]}]
    /\ UNCHANGED <<sndId, recBuf, recId, recAck, net, produced, delivered>>

\* reliable_schedule_now: the burst of retransmissions once the peer appears.
reliable_schedule_now(p) ==
  /\ \E e \in sndBuf[p] : ~ e.due
  /\ sndBuf' = [sndBuf EXCEPT ![p] = {[e EXCEPT !.due = TRUE] : e \in @}]
  /\ UNCHANGED <<sndId, recBuf, recId, recAck, net, produced, delivered>>

\* The network drops a datagram.
Lose(m) ==
  /\ net' = net \ {m}
  /\ UNCHANGED <<sndBuf, sndId, recBuf, recId, recAck, produced, delivered>>

Next ==
  \/ \E p \in Peer :
       \/ \E d \in Data : Produce(p, d)
       \/ Send(p)
       \/ SendAck(p)
       \/ Deliver(p)
       \/ Timeout(p)
       \/ reliable_schedule_now(p)
       \/ \E m \in net : Receive(p, m)
  \/ \E m \in net : Lose(m)

Spec == Init /\ [][Next]_vars

-----------------------------------------------------------------------------
(* Fairness.  tls_multi_process runs at least every TLS_MULTI_REFRESH      *)
(* seconds and when reliable_send_timeout asks for it, so a peer's own     *)
(* steps are weakly fair; Produce is not: TLS need not have anything to    *)
(* say.  The network may lose any datagram, but not every copy of the same *)
(* packet or acknowledgement for ever.                                     *)

ReceiveId(p, i) ==
  \E m \in net : m.op = "P_CONTROL_V1" /\ m.id = i /\ Receive(p, m)

ReceiveAckOf(p, i) == \E m \in net : i \in Elems(m.acks) /\ Receive(p, m)

Fairness ==
  \A p \in Peer :
    /\ WF_vars(Send(p)) /\ WF_vars(SendAck(p))
    /\ WF_vars(Deliver(p)) /\ WF_vars(Timeout(p))
    /\ \A i \in 0 .. MaxPackets[Other(p)] - 1 : SF_vars(ReceiveId(p, i))
    /\ \A i \in 0 .. MaxPackets[p] - 1 : SF_vars(ReceiveAckOf(p, i))

FairSpec == Spec /\ Fairness

-----------------------------------------------------------------------------
(* Properties.                                                             *)

\* Every variable has its type, the two buffer arrays never overflow and the
\* acknowledgement array never holds more than RELIABLE_ACK_SIZE ids.
TypeOK ==
  /\ sndBuf \in [Peer -> SUBSET SendEntry]
  /\ sndId \in [Peer -> Nat]
  /\ recBuf \in [Peer -> SUBSET RecEntry]
  /\ recId \in [Peer -> Nat]
  /\ recAck \in [Peer -> Seq(Nat)]
  /\ net \in SUBSET (ControlPacket \cup AckPacket)
  /\ produced \in [Peer -> Seq(Data)]
  /\ delivered \in [Peer -> Seq(Data)]
  /\ \A p \in Peer : /\ IsFiniteSet(sndBuf[p]) /\ Cardinality(sndBuf[p]) <= NSend
                     /\ IsFiniteSet(recBuf[p]) /\ Cardinality(recBuf[p]) <= NRec
                     /\ Len(recAck[p]) <= AckSize

\* The packets p has received and stored or already handed to TLS.
Holds(p, i) == i < recId[p] \/ i \in Ids(recBuf[p])

\* Each copy of packet i of a peer (in its send buffer, in flight, in the
\* other's receive buffer) carries the payload its TLS produced i-th, a send
\* buffer has one entry per id, and ids are assigned without a gap.
SndContent ==
  \A p \in Peer :
    /\ Len(produced[p]) = sndId[p]
    /\ \A e \in sndBuf[p] : e.id < sndId[p] /\ e.data = produced[p][e.id + 1]
    /\ \A e, f \in sndBuf[p] : e.id = f.id => e = f
NetContent ==
  \A m \in net : m.op = "P_CONTROL_V1" =>
    m.id < sndId[m.from] /\ m.data = produced[m.from][m.id + 1]
RecContent ==
  \A p \in Peer : \A e \in recBuf[p] :
    e.id < sndId[Other(p)] /\ e.data = produced[Other(p)][e.id + 1]

\* The receive buffer only holds ids of the window that starts at the next id
\* to deliver (reliable_wont_break_sequentiality, reliable_not_replay).
RecWindow ==
  \A p \in Peer : \A e \in recBuf[p] : recId[p] <= e.id /\ e.id < recId[p] + NRec

\* What reaches a peer's TLS object is what the other's TLS object produced,
\* in order, nothing twice and nothing left out, whatever the network does.
InOrderDelivery ==
  \A p \in Peer :
    /\ Len(delivered[p]) = recId[p]
    /\ recId[p] <= Len(produced[Other(p)])
    /\ \A i \in 1 .. recId[p] : delivered[p][i] = produced[Other(p)][i]

\* An acknowledgement, queued or in flight, only names a packet its sender
\* holds: reliable_ack_acknowledge_packet_id comes after the packet is stored.
AckSound ==
  /\ \A p \in Peer : \A i \in Elems(recAck[p]) : Holds(p, i)
  /\ \A m \in net : \A i \in Elems(m.acks) : Holds(m.from, i)

\* A packet leaves the send buffer only when the other side holds it, so at
\* every moment some copy the layer itself keeps can still be delivered.
NoLoss ==
  \A p \in Peer : \A i \in 0 .. sndId[p] - 1 :
    i \in Ids(sndBuf[p]) \/ Holds(Other(p), i)

\* A full receive buffer contains the packet TLS waits for, so it can always
\* be drained: the deadlock reliable_wont_break_sequentiality is there to avoid.
NoReceiveDeadlock ==
  \A p \in Peer : ~ reliable_can_get(p) => recId[p] \in Ids(recBuf[p])

\* Every packet TLS produced reaches the other TLS object.
EventuallyDelivered ==
  \A p \in Peer : \A n \in 1 .. MaxPackets[p] :
    (Len(produced[p]) >= n) ~> (Len(delivered[Other(p)]) >= n)

\* The layer implements a pair of first-in first-out channels.
Fifo == INSTANCE FifoChannel WITH produced <- produced, delivered <- delivered
FifoSpec == Fifo!Spec
=============================================================================
