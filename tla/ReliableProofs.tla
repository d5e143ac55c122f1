--------------------------- MODULE ReliableProofs ---------------------------
(***************************************************************************)
(* Safety of the reliability layer for every number of buffers, window and *)
(* payload set: the inductive invariant IInv, the invariants it implies,   *)
(* and the refinement of FifoChannel.                                      *)
(***************************************************************************)
EXTENDS Reliable, FiniteSetTheorems, SequenceTheorems, TLAPS

\* The inductive invariant.  In-order delivery rests on the contents of the
\* buffers and of the network, no loss on the soundness of acknowledgements.
IInv ==
  /\ TypeOK
  /\ SndContent
  /\ NetContent
  /\ RecContent
  /\ RecWindow
  /\ InOrderDelivery
  /\ AckSound
  /\ NoLoss

-----------------------------------------------------------------------------
(* Lemmas on the operators.                                                *)

\* The two ends face each other.
LEMMA OtherPeer ==
  ASSUME NEW p \in Peer
  PROVE  Other(p) \in Peer /\ Other(Other(p)) = p /\ Other(p) # p
BY PeerAssumption DEF Peer, Other

\* Appending adds its element and nothing else.
LEMMA ElemsAppend ==
  ASSUME NEW S, NEW s \in Seq(S), NEW x \in S
  PROVE  Elems(Append(s, x)) = Elems(s) \cup {x}
<1>1. Len(Append(s, x)) = Len(s) + 1 /\ Len(s) \in Nat
  OBVIOUS
<1>2. \A i \in 1 .. Len(s) : Append(s, x)[i] = s[i]
  OBVIOUS
<1>3. Append(s, x)[Len(s) + 1] = x
  OBVIOUS
<1> QED
  BY <1>1, <1>2, <1>3 DEF Elems

\* A subsequence has no element of its own.
LEMMA SubSeqElems ==
  ASSUME NEW s \in Seq(Nat), NEW m \in Nat \ {0}, NEW n \in Nat, n <= Len(s)
  PROVE  /\ SubSeq(s, m, n) \in Seq(Nat)
         /\ Len(SubSeq(s, m, n)) <= Len(s)
         /\ Elems(SubSeq(s, m, n)) \subseteq Elems(s)
<1>1. \A i \in m .. n : s[i] \in Nat
  BY ElementOfSeq
<1>2. /\ SubSeq(s, m, n) \in Seq(Nat)
      /\ Len(SubSeq(s, m, n)) = IF m <= n THEN n - m + 1 ELSE 0
      /\ \A i \in 1 .. n - m + 1 : SubSeq(s, m, n)[i] = s[m + i - 1]
  BY <1>1, SubSeqProperties
<1>3. Len(s) \in Nat
  BY LenProperties
<1>4. Elems(SubSeq(s, m, n)) \subseteq Elems(s)
  <2> SUFFICES ASSUME NEW i \in 1 .. Len(SubSeq(s, m, n))
               PROVE  SubSeq(s, m, n)[i] \in Elems(s)
    BY DEF Elems
  <2>1. SubSeq(s, m, n)[i] = s[m + i - 1] /\ m + i - 1 \in 1 .. Len(s)
    BY <1>2, <1>3
  <2> QED
    BY <2>1 DEF Elems
<1> QED
  BY <1>2, <1>3, <1>4

\* reliable_ack_write splits rec_ack: both parts only name ids it held.
LEMMA AckSplit ==
  ASSUME TypeOK, NEW p \in Peer, NEW max \in Nat
  PROVE  /\ AckWritten(p, max) \in Seq(Nat)
         /\ Elems(AckWritten(p, max)) \subseteq Elems(recAck[p])
         /\ AckLeft(p, max) \in Seq(Nat)
         /\ Len(AckLeft(p, max)) <= AckSize
         /\ Elems(AckLeft(p, max)) \subseteq Elems(recAck[p])
<1>1. recAck[p] \in Seq(Nat) /\ Len(recAck[p]) \in Nat /\ Len(recAck[p]) <= AckSize
  BY LenProperties DEF TypeOK
<1>2. AckCount(p, max) \in Nat /\ AckCount(p, max) <= Len(recAck[p])
  BY <1>1 DEF AckCount
<1>3. /\ AckWritten(p, max) \in Seq(Nat)
      /\ Elems(AckWritten(p, max)) \subseteq Elems(recAck[p])
  BY <1>1, <1>2, SubSeqElems DEF AckWritten
<1>4. /\ AckLeft(p, max) \in Seq(Nat)
      /\ Len(AckLeft(p, max)) <= Len(recAck[p])
      /\ Elems(AckLeft(p, max)) \subseteq Elems(recAck[p])
  <2>1. AckCount(p, max) + 1 \in Nat \ {0}
    BY <1>2
  <2> QED
    BY <1>1, <2>1, SubSeqElems DEF AckLeft
<1>5. Len(AckLeft(p, max)) \in Nat
  BY <1>4, LenProperties
<1> QED
  BY <1>1, <1>3, <1>4, <1>5, SizeAssumption

\* reliable_ack_acknowledge_packet_id adds at most the id it is given.
LEMMA AckAdd ==
  ASSUME TypeOK, NEW p \in Peer, NEW i \in Nat
  PROVE  LET a == reliable_ack_acknowledge_packet_id(p, i)
         IN  /\ a \in Seq(Nat)
             /\ Len(a) <= AckSize
             /\ Elems(a) \subseteq Elems(recAck[p]) \cup {i}
<1>1. recAck[p] \in Seq(Nat) /\ Len(recAck[p]) \in Nat /\ Len(recAck[p]) <= AckSize
  BY LenProperties DEF TypeOK
<1>2. Elems(Append(recAck[p], i)) = Elems(recAck[p]) \cup {i}
  BY <1>1, ElemsAppend
<1> QED
  BY <1>1, <1>2, SizeAssumption DEF reliable_ack_acknowledge_packet_id

\* A received entry is determined by its fields.
LEMMA RecEntryEqual ==
  ASSUME NEW e \in RecEntry, NEW f \in RecEntry, e.id = f.id, e.data = f.data
  PROVE  e = f
BY DEF RecEntry

\* Making an entry due keeps its id and payload.
LEMMA DueEntry ==
  ASSUME NEW e \in SendEntry
  PROVE  LET d == [e EXCEPT !.due = TRUE]
         IN  d \in SendEntry /\ d.id = e.id /\ d.data = e.data
BY DEF SendEntry

\* Adding one element to a set below a bound stays within the bound.
LEMMA AddCard ==
  ASSUME NEW S, IsFiniteSet(S), NEW x, NEW n \in Nat, Cardinality(S) < n
  PROVE  IsFiniteSet(S \cup {x}) /\ Cardinality(S \cup {x}) <= n
<1>1. Cardinality(S) \in Nat
  BY FS_CardinalityType
<1>2. /\ IsFiniteSet(S \cup {x})
      /\ Cardinality(S \cup {x}) = IF x \in S THEN Cardinality(S) ELSE Cardinality(S) + 1
  BY FS_AddElement
<1> QED
  BY <1>1, <1>2

\* Replacing one element of a finite set does not make it larger.
LEMMA ReplaceCard ==
  ASSUME NEW S, IsFiniteSet(S), NEW x \in S, NEW y
  PROVE  /\ IsFiniteSet((S \ {x}) \cup {y})
         /\ Cardinality((S \ {x}) \cup {y}) <= Cardinality(S)
<1>1. Cardinality(S) \in Nat
  BY FS_CardinalityType
<1>2. IsFiniteSet(S \ {x}) /\ Cardinality(S \ {x}) = Cardinality(S) - 1
  BY FS_RemoveElement
<1> DEFINE R == S \ {x}
<1>3. /\ IsFiniteSet(R \cup {y})
      /\ Cardinality(R \cup {y}) = IF y \in R THEN Cardinality(R) ELSE Cardinality(R) + 1
  <2>1. IsFiniteSet(R)
    BY <1>2
  <2> HIDE DEF R
  <2> QED
    BY <2>1, FS_AddElement
<1> QED
  BY <1>1, <1>2, <1>3

\* Making every entry due does not add entries.
LEMMA DueCard ==
  ASSUME NEW S \in SUBSET SendEntry, IsFiniteSet(S)
  PROVE  LET T == {[e EXCEPT !.due = TRUE] : e \in S}
         IN  IsFiniteSet(T) /\ Cardinality(T) <= Cardinality(S)
<1> DEFINE T == {[e EXCEPT !.due = TRUE] : e \in S}
           f == [e \in S |-> [e EXCEPT !.due = TRUE]]
<1>1. f \in Surjection(S, T)
  BY DEF Surjection
<1> QED
  BY <1>1, FS_Surjection

-----------------------------------------------------------------------------
(* Each action preserves IInv.                                             *)

LEMMA InitIInv == Init => IInv
<1> SUFFICES ASSUME Init PROVE IInv
  OBVIOUS
<1>1. TypeOK
  BY FS_EmptySet, SizeAssumption, EmptySeq DEF Init, TypeOK
<1>2. SndContent /\ NetContent /\ RecContent /\ RecWindow /\ NoLoss
  BY EmptySeq DEF Init, SndContent, NetContent, RecContent, RecWindow, NoLoss
<1>3. InOrderDelivery
  BY OtherPeer DEF Init, InOrderDelivery
<1>4. AckSound
  BY DEF Init, AckSound, Elems
<1> QED
  BY <1>1, <1>2, <1>3, <1>4 DEF IInv

\* Produce assigns the next id and keeps the old ones.
LEMMA ProduceIInv ==
  ASSUME IInv, NEW p \in Peer, NEW d \in Data, Produce(p, d)
  PROVE  IInv'
<1> USE DEF IInv
<1> DEFINE new == [id |-> sndId[p], data |-> d, due |-> TRUE]
<1>1. /\ sndBuf' = [sndBuf EXCEPT ![p] = @ \cup {new}]
      /\ sndId' = [sndId EXCEPT ![p] = @ + 1]
      /\ produced' = [produced EXCEPT ![p] = Append(@, d)]
      /\ Cardinality(sndBuf[p]) < NSend
      /\ UNCHANGED <<recBuf, recId, recAck, net, delivered>>
  BY DEF Produce, reliable_get_buf_output_sequenced
<1>2. new \in SendEntry
  BY DEF SendEntry, TypeOK
<1>3. \A q \in Peer : /\ produced[q] \in Seq(Data)
                      /\ produced'[q] \in Seq(Data)
                      /\ Len(produced[q]) = sndId[q]
                      /\ Len(produced'[q]) = sndId'[q]
                      /\ \A i \in 1 .. sndId[q] : produced'[q][i] = produced[q][i]
                      /\ sndId[q] \in Nat /\ sndId'[q] \in Nat
                      /\ sndId[q] <= sndId'[q]
  BY <1>1 DEF TypeOK, SndContent
<1>4. TypeOK'
  <2>1. /\ IsFiniteSet(sndBuf[p] \cup {new})
        /\ Cardinality(sndBuf[p] \cup {new}) <= NSend
    <3>1. IsFiniteSet(sndBuf[p]) /\ NSend \in Nat
      BY SizeAssumption DEF TypeOK
    <3> HIDE DEF new
    <3> QED
      BY <1>1, <3>1, AddCard
  <2> HIDE DEF new
  <2>2. \A q \in Peer : IsFiniteSet(sndBuf'[q]) /\ Cardinality(sndBuf'[q]) <= NSend
    BY <1>1, <2>1 DEF TypeOK
  <2>3. sndBuf' \in [Peer -> SUBSET SendEntry]
    BY <1>1, <1>2 DEF TypeOK
  <2> QED
    BY <1>1, <1>3, <2>2, <2>3 DEF TypeOK
<1>5. SndContent'
  <2>1. produced'[p][sndId[p] + 1] = d
    BY <1>1, <1>3 DEF TypeOK
  <2>2. \A q \in Peer : \A e \in sndBuf[q] : e.id \in Nat
    BY DEF TypeOK, SendEntry
  <2>3. \A q \in Peer : \A e \in sndBuf'[q] :
          e.id < sndId'[q] /\ e.data = produced'[q][e.id + 1]
    BY <1>1, <1>3, <2>1, <2>2 DEF TypeOK, SndContent
  <2>4. \A q \in Peer : \A e, f \in sndBuf'[q] : e.id = f.id => e = f
    <3> SUFFICES ASSUME NEW q \in Peer, NEW e \in sndBuf'[q], NEW f \in sndBuf'[q],
                        e.id = f.id
                 PROVE  e = f
      OBVIOUS
    <3>1. (e \in sndBuf[q] \/ (q = p /\ e = new)) /\ (f \in sndBuf[q] \/ (q = p /\ f = new))
      BY <1>1 DEF TypeOK
    <3>2. new.id = sndId[p] /\ \A g \in sndBuf[q] : g.id \in Nat /\ g.id < sndId[q]
      BY <2>2 DEF SndContent
    <3> HIDE DEF new
    <3> QED
      BY <1>3, <3>1, <3>2 DEF SndContent
  <2> QED
    BY <1>3, <2>3, <2>4 DEF SndContent
<1>6. NetContent'
  <2>1. \A m \in net : m.from \in Peer /\ (m.op = "P_CONTROL_V1" => m.id \in Nat)
    BY DEF TypeOK, ControlPacket, AckPacket
  <2> QED
    BY <1>1, <1>3, <2>1 DEF NetContent
<1>7. RecContent'
  <2>1. \A q \in Peer : \A e \in recBuf[q] : e.id \in Nat
    BY DEF TypeOK, RecEntry
  <2> QED
    BY <1>1, <1>3, <2>1, OtherPeer DEF RecContent
<1>8. RecWindow'
  BY <1>1 DEF RecWindow
<1>9. InOrderDelivery'
  <2> SUFFICES ASSUME NEW q \in Peer
               PROVE  /\ Len(delivered'[q]) = recId'[q]
                      /\ recId'[q] <= Len(produced'[Other(q)])
                      /\ \A i \in 1 .. recId'[q] : delivered'[q][i] = produced'[Other(q)][i]
    BY DEF InOrderDelivery
  <2>1. Other(q) \in Peer /\ recId[q] \in Nat
    BY OtherPeer DEF TypeOK
  <2> QED
    BY <1>1, <1>3, <2>1 DEF InOrderDelivery
<1>10. AckSound'
  BY <1>1 DEF AckSound, Holds
<1>11. NoLoss'
  <2>1. \A q \in Peer : \A i \in 0 .. sndId'[q] - 1 :
           i \in 0 .. sndId[q] - 1 \/ (q = p /\ i = sndId[p])
    BY <1>1, <1>3 DEF TypeOK
  <2>2. \A q \in Peer : Ids(sndBuf[q]) \subseteq Ids(sndBuf'[q])
    BY <1>1 DEF Ids, TypeOK
  <2>3. sndId[p] \in Ids(sndBuf'[p])
    BY <1>1, ZenonT(30) DEF Ids, TypeOK
  <2>4. \A q \in Peer, i \in Nat : Holds(q, i) => Holds(q, i)'
    BY <1>1 DEF Holds
  <2> QED
    <3> SUFFICES ASSUME NEW q \in Peer, NEW i \in 0 .. sndId'[q] - 1
                 PROVE  i \in Ids(sndBuf'[q]) \/ Holds(Other(q), i)'
      BY DEF NoLoss
    <3>1. CASE i \in 0 .. sndId[q] - 1
      BY <3>1, <2>2, <2>4, OtherPeer DEF NoLoss
    <3>2. CASE q = p /\ i = sndId[p]
      BY <3>2, <2>3
    <3> QED
      BY <2>1, <3>1, <3>2
<1> QED
  BY <1>4, <1>5, <1>6, <1>7, <1>8, <1>9, <1>10, <1>11

\* A step that only makes entries of send buffers due or not due keeps what
\* depends on their ids and payloads.
LEMMA DueOnly ==
  ASSUME IInv,
         \A q \in Peer : /\ Ids(sndBuf'[q]) = Ids(sndBuf[q])
                         /\ \A e \in sndBuf'[q] : \E f \in sndBuf[q] :
                              e.id = f.id /\ e.data = f.data
                         /\ \A e, f \in sndBuf'[q] : e.id = f.id => e = f,
         UNCHANGED <<sndId, recBuf, recId, produced, delivered>>
  PROVE  SndContent' /\ RecContent' /\ RecWindow' /\ InOrderDelivery' /\ NoLoss'
<1>1. SndContent'
  BY DEF IInv, SndContent
<1>2. RecContent' /\ RecWindow' /\ InOrderDelivery'
  BY DEF IInv, RecContent, RecWindow, InOrderDelivery
<1>3. NoLoss'
  BY DEF IInv, NoLoss, Holds
<1> QED
  BY <1>1, <1>2, <1>3

\* A datagram that carries a packet of its sender's send buffer, or none, and
\* acknowledges only queued ids may be added to the network.
LEMMA TransmitOK ==
  ASSUME IInv, NEW m \in ControlPacket \cup AckPacket, Transmit(m),
         m.op = "P_CONTROL_V1" => m.id < sndId[m.from] /\ m.data = produced[m.from][m.id + 1],
         \A i \in Elems(m.acks) : i \in Elems(recAck[m.from]),
         \A q \in Peer : Elems(recAck'[q]) \subseteq Elems(recAck[q]),
         UNCHANGED <<sndId, recBuf, recId, produced>>
  PROVE  net' \in SUBSET (ControlPacket \cup AckPacket) /\ NetContent' /\ AckSound'
<1>1. net' \subseteq net \cup {m}
  BY DEF Transmit
<1>2. m.from \in Peer
  BY DEF ControlPacket, AckPacket
<1>3. net' \in SUBSET (ControlPacket \cup AckPacket)
  BY <1>1 DEF IInv, TypeOK
<1>4. NetContent'
  BY <1>1 DEF IInv, NetContent
<1>5. AckSound'
  <2>1. \A q \in Peer : \A i : Holds(q, i) => Holds(q, i)'
    BY DEF Holds
  <2>2. \A q \in Peer : \A i \in Elems(recAck'[q]) : Holds(q, i)'
    BY <2>1 DEF IInv, AckSound
  <2>3. \A n \in net : n.from \in Peer
    BY DEF IInv, TypeOK, ControlPacket, AckPacket
  <2>4. \A n \in net' : \A i \in Elems(n.acks) : Holds(n.from, i)'
    BY <1>1, <1>2, <2>1, <2>3 DEF IInv, AckSound
  <2> QED
    BY <2>2, <2>4 DEF AckSound
<1> QED
  BY <1>3, <1>4, <1>5

\* Send retransmits a packet of the send buffer and moves acknowledgements.
LEMMA SendIInv ==
  ASSUME IInv, NEW p \in Peer, Send(p)
  PROVE  IInv'
<1>1. PICK best \in sndBuf[p] :
        /\ sndBuf' = [sndBuf EXCEPT ![p] = (@ \ {best}) \cup {[best EXCEPT !.due = FALSE]}]
        /\ Transmit([op |-> "P_CONTROL_V1", from |-> p, acks |-> AckWritten(p, AckMax),
                     id |-> best.id, data |-> best.data])
  BY DEF Send
<1>2. /\ recAck' = [recAck EXCEPT ![p] = AckLeft(p, AckMax)]
      /\ UNCHANGED <<sndId, recBuf, recId, produced, delivered>>
  BY DEF Send
<1> DEFINE new == [best EXCEPT !.due = FALSE]
           m == [op |-> "P_CONTROL_V1", from |-> p, acks |-> AckWritten(p, AckMax),
                 id |-> best.id, data |-> best.data]
<1>3. best \in SendEntry
  BY DEF IInv, TypeOK
<1>4. new \in SendEntry /\ new.id = best.id /\ new.data = best.data
  BY <1>3 DEF SendEntry
<1>5. /\ AckWritten(p, AckMax) \in Seq(Nat)
      /\ Elems(AckWritten(p, AckMax)) \subseteq Elems(recAck[p])
      /\ AckLeft(p, AckMax) \in Seq(Nat)
      /\ Len(AckLeft(p, AckMax)) <= AckSize
      /\ Elems(AckLeft(p, AckMax)) \subseteq Elems(recAck[p])
  BY AckSplit, SizeAssumption DEF IInv
<1>6. SndContent' /\ RecContent' /\ RecWindow' /\ InOrderDelivery' /\ NoLoss'
  <2> SUFFICES ASSUME NEW q \in Peer
               PROVE  /\ Ids(sndBuf'[q]) = Ids(sndBuf[q])
                      /\ \A e \in sndBuf'[q] : \E f \in sndBuf[q] :
                           e.id = f.id /\ e.data = f.data
                      /\ \A e, f \in sndBuf'[q] : e.id = f.id => e = f
    BY <1>2, DueOnly
  <2> HIDE DEF new
  <2>1. CASE q # p
    BY <2>1, <1>1 DEF IInv, TypeOK, SndContent
  <2>2. CASE q = p
    <3>1. sndBuf'[q] = (sndBuf[p] \ {best}) \cup {new}
      BY <2>2, <1>1 DEF IInv, TypeOK, new
    <3> QED
      BY <2>2, <3>1, <1>4 DEF IInv, SndContent, Ids
  <2> QED
    BY <2>1, <2>2
<1>7. net' \in SUBSET (ControlPacket \cup AckPacket) /\ NetContent' /\ AckSound'
  <2>1. m \in ControlPacket
    BY <1>3, <1>5 DEF ControlPacket, SendEntry
  <2>2. m.id < sndId[m.from] /\ m.data = produced[m.from][m.id + 1]
    BY DEF IInv, SndContent
  <2>3. \A i \in Elems(m.acks) : i \in Elems(recAck[m.from])
    BY <1>5
  <2>4. \A q \in Peer : Elems(recAck'[q]) \subseteq Elems(recAck[q])
    BY <1>2, <1>5 DEF IInv, TypeOK
  <2>5. Transmit(m)
    BY <1>1
  <2> HIDE DEF m
  <2> QED
    BY <1>2, <2>1, <2>2, <2>3, <2>4, <2>5, TransmitOK
<1>8. TypeOK'
  <2>1. IsFiniteSet(sndBuf[p])
    BY DEF IInv, TypeOK
  <2>2. /\ IsFiniteSet((sndBuf[p] \ {best}) \cup {new})
        /\ Cardinality((sndBuf[p] \ {best}) \cup {new}) <= Cardinality(sndBuf[p])
    BY <2>1, ReplaceCard
  <2>3. Cardinality(sndBuf[p]) \in Nat /\ Cardinality((sndBuf[p] \ {best}) \cup {new}) \in Nat
    BY <2>1, <2>2, FS_CardinalityType
  <2> HIDE DEF new
  <2>4. sndBuf'[p] = (sndBuf[p] \ {best}) \cup {new} /\ \A q \in Peer \ {p} : sndBuf'[q] = sndBuf[q]
    BY <1>1 DEF IInv, TypeOK, new
  <2>5. \A q \in Peer : IsFiniteSet(sndBuf'[q]) /\ Cardinality(sndBuf'[q]) <= NSend
    <3> SUFFICES ASSUME NEW q \in Peer
                 PROVE  IsFiniteSet(sndBuf'[q]) /\ Cardinality(sndBuf'[q]) <= NSend
      OBVIOUS
    <3>1. Cardinality(sndBuf[p]) <= NSend /\ NSend \in Nat
      BY SizeAssumption DEF IInv, TypeOK
    <3>2. CASE q = p
      BY <3>1, <3>2, <2>2, <2>3, <2>4
    <3>3. CASE q # p
      BY <3>3, <2>4 DEF IInv, TypeOK
    <3> QED
      BY <3>2, <3>3
  <2>6. sndBuf' \in [Peer -> SUBSET SendEntry]
    BY <1>1, <1>4 DEF IInv, TypeOK, new
  <2>7. recAck' \in [Peer -> Seq(Nat)] /\ \A q \in Peer : Len(recAck'[q]) <= AckSize
    BY <1>2, <1>5 DEF IInv, TypeOK
  <2> QED
    BY <1>2, <1>7, <2>5, <2>6, <2>7 DEF IInv, TypeOK
<1> QED
  BY <1>6, <1>7, <1>8 DEF IInv

\* SendAck only moves acknowledgements from rec_ack into a datagram.
LEMMA SendAckIInv ==
  ASSUME IInv, NEW p \in Peer, SendAck(p)
  PROVE  IInv'
<1> DEFINE m == [op |-> "P_ACK_V1", from |-> p, acks |-> AckWritten(p, AckSize)]
<1>1. /\ Transmit(m)
      /\ recAck' = [recAck EXCEPT ![p] = AckLeft(p, AckSize)]
      /\ UNCHANGED <<sndBuf, sndId, recBuf, recId, produced, delivered>>
  BY DEF SendAck
<1>2. /\ AckWritten(p, AckSize) \in Seq(Nat)
      /\ Elems(AckWritten(p, AckSize)) \subseteq Elems(recAck[p])
      /\ AckLeft(p, AckSize) \in Seq(Nat)
      /\ Len(AckLeft(p, AckSize)) <= AckSize
      /\ Elems(AckLeft(p, AckSize)) \subseteq Elems(recAck[p])
  BY AckSplit, SizeAssumption DEF IInv
<1>3. net' \in SUBSET (ControlPacket \cup AckPacket) /\ NetContent' /\ AckSound'
  <2>1. m \in AckPacket /\ m.op # "P_CONTROL_V1"
    BY <1>2 DEF AckPacket
  <2>2. \A i \in Elems(m.acks) : i \in Elems(recAck[m.from])
    BY <1>2
  <2>3. \A q \in Peer : Elems(recAck'[q]) \subseteq Elems(recAck[q])
    BY <1>1, <1>2 DEF IInv, TypeOK
  <2> HIDE DEF m
  <2> QED
    BY <1>1, <2>1, <2>2, <2>3, TransmitOK
<1>4. recAck' \in [Peer -> Seq(Nat)] /\ \A q \in Peer : Len(recAck'[q]) <= AckSize
  BY <1>1, <1>2 DEF IInv, TypeOK
<1>5. TypeOK'
  BY <1>1, <1>3, <1>4 DEF IInv, TypeOK
<1>6. SndContent' /\ RecContent' /\ RecWindow' /\ InOrderDelivery'
  BY <1>1 DEF IInv, SndContent, RecContent, RecWindow, InOrderDelivery
<1>7. NoLoss'
  BY <1>1 DEF IInv, NoLoss, Holds
<1> QED
  BY <1>3, <1>5, <1>6, <1>7 DEF IInv

\* Receive frees what the other side holds, and acknowledges what it stores.
LEMMA ReceiveIInv ==
  ASSUME IInv, NEW p \in Peer, NEW m \in net, Receive(p, m)
  PROVE  IInv'
<1> DEFINE entry == [id |-> m.id, data |-> m.data]
<1>1. /\ m.from = Other(p)
      /\ net' \subseteq net
      /\ sndBuf' = [sndBuf EXCEPT ![p] = {e \in @ : e.id \notin Elems(m.acks)}]
      /\ UNCHANGED <<sndId, recId, produced, delivered>>
  BY DEF Receive
<1>2. m \in ControlPacket \cup AckPacket
  BY DEF IInv, TypeOK
<1>3. Other(p) \in Peer /\ Other(p) # p /\ Other(Other(p)) = p
  BY OtherPeer
<1>4. \/ UNCHANGED <<recBuf, recAck>>
      \/ /\ m \in ControlPacket
         /\ recAck' = [recAck EXCEPT ![p] = reliable_ack_acknowledge_packet_id(p, m.id)]
         /\ \/ UNCHANGED recBuf /\ Holds(p, m.id)
            \/ /\ recBuf' = [recBuf EXCEPT ![p] = @ \cup {entry}]
               /\ Cardinality(recBuf[p]) < NRec
               /\ m.id < recId[p] + NRec
               /\ m.id >= recId[p]
  <2>1. CASE /\ m.op # "P_ACK_V1"
             /\ reliable_can_get(p)
             /\ reliable_wont_break_sequentiality(p, m.id)
    <3>1. m \in ControlPacket /\ m.id \in Nat
      BY <1>2, <2>1 DEF AckPacket, ControlPacket
    <3>2. /\ recAck' = [recAck EXCEPT ![p] = reliable_ack_acknowledge_packet_id(p, m.id)]
          /\ recBuf' = [recBuf EXCEPT ![p] = IF reliable_not_replay(p, m.id)
                                             THEN @ \cup {entry} ELSE @]
      BY <2>1 DEF Receive
    <3>3. CASE reliable_not_replay(p, m.id)
      <4>1. recBuf' = [recBuf EXCEPT ![p] = @ \cup {entry}]
        BY <3>2, <3>3
      <4>2. m.id >= recId[p] /\ Cardinality(recBuf[p]) < NRec /\ m.id < recId[p] + NRec
        BY <3>3, <2>1 DEF reliable_not_replay, reliable_can_get, reliable_wont_break_sequentiality
      <4> QED
        BY <3>1, <3>2, <4>1, <4>2
    <3>4. CASE ~ reliable_not_replay(p, m.id)
      <4>1. recBuf' = recBuf
        BY <3>2, <3>4 DEF IInv, TypeOK
      <4>2. Holds(p, m.id)
        BY <3>1, <3>4 DEF reliable_not_replay, Holds, Ids, IInv, TypeOK
      <4> QED
        BY <3>1, <3>2, <4>1, <4>2
    <3> QED
      BY <3>3, <3>4
  <2>2. CASE ~ (/\ m.op # "P_ACK_V1"
                /\ reliable_can_get(p)
                /\ reliable_wont_break_sequentiality(p, m.id))
    BY <2>2 DEF Receive
  <2> QED
    BY <2>1, <2>2
<1>5. m \in ControlPacket =>
        m.id \in Nat /\ m.id < sndId[Other(p)] /\ m.data = produced[Other(p)][m.id + 1]
  BY <1>1 DEF IInv, NetContent, ControlPacket
<1>6. m \in ControlPacket =>
        LET a == reliable_ack_acknowledge_packet_id(p, m.id)
        IN  a \in Seq(Nat) /\ Len(a) <= AckSize /\ Elems(a) \subseteq Elems(recAck[p]) \cup {m.id}
  BY <1>5, AckAdd DEF IInv
<1>7. TypeOK'
  <2>1. sndBuf' \in [Peer -> SUBSET SendEntry]
    BY <1>1 DEF IInv, TypeOK
  <2>2. \A q \in Peer : IsFiniteSet(sndBuf'[q]) /\ Cardinality(sndBuf'[q]) <= NSend
    <3> SUFFICES ASSUME NEW q \in Peer
                 PROVE  IsFiniteSet(sndBuf'[q]) /\ Cardinality(sndBuf'[q]) <= NSend
      OBVIOUS
    <3>1. sndBuf'[q] \in SUBSET sndBuf[q]
      BY <1>1 DEF IInv, TypeOK
    <3>2. IsFiniteSet(sndBuf[q]) /\ Cardinality(sndBuf[q]) <= NSend /\ NSend \in Nat
      BY SizeAssumption DEF IInv, TypeOK
    <3>3. IsFiniteSet(sndBuf'[q]) /\ Cardinality(sndBuf'[q]) <= Cardinality(sndBuf[q])
      BY <3>1, <3>2, FS_Subset
    <3>4. Cardinality(sndBuf'[q]) \in Nat /\ Cardinality(sndBuf[q]) \in Nat
      BY <3>2, <3>3, FS_CardinalityType
    <3> QED
      BY <3>2, <3>3, <3>4
  <2>3. recAck' \in [Peer -> Seq(Nat)] /\ \A q \in Peer : Len(recAck'[q]) <= AckSize
    <3>1. CASE UNCHANGED recAck
      BY <3>1 DEF IInv, TypeOK
    <3>2. CASE /\ m \in ControlPacket
               /\ recAck' = [recAck EXCEPT ![p] = reliable_ack_acknowledge_packet_id(p, m.id)]
      BY <3>2, <1>6 DEF IInv, TypeOK
    <3> QED
      BY <1>4, <3>1, <3>2
  <2>4. /\ recBuf' \in [Peer -> SUBSET RecEntry]
        /\ \A q \in Peer : IsFiniteSet(recBuf'[q]) /\ Cardinality(recBuf'[q]) <= NRec
    <3>1. CASE UNCHANGED recBuf
      BY <3>1 DEF IInv, TypeOK
    <3>2. CASE /\ m \in ControlPacket
               /\ recBuf' = [recBuf EXCEPT ![p] = @ \cup {entry}]
               /\ Cardinality(recBuf[p]) < NRec
      <4>1. entry \in RecEntry
        BY <3>2 DEF ControlPacket, RecEntry
      <4>2. IsFiniteSet(recBuf[p]) /\ NRec \in Nat
        BY SizeAssumption DEF IInv, TypeOK
      <4> HIDE DEF entry
      <4>3. IsFiniteSet(recBuf[p] \cup {entry}) /\ Cardinality(recBuf[p] \cup {entry}) <= NRec
        BY <3>2, <4>2, AddCard
      <4> QED
        BY <3>2, <4>1, <4>3 DEF IInv, TypeOK
    <3> QED
      BY <1>4, <3>1, <3>2
  <2> QED
    BY <1>1, <2>1, <2>2, <2>3, <2>4 DEF IInv, TypeOK
<1>8. SndContent'
  BY <1>1 DEF IInv, TypeOK, SndContent
<1>9. NetContent'
  BY <1>1 DEF IInv, NetContent
<1>10. \A q \in Peer : \A e \in recBuf'[q] :
         \/ e \in recBuf[q]
         \/ /\ q = p /\ e = entry /\ m \in ControlPacket
            /\ m.id < recId[p] + NRec /\ m.id >= recId[p]
  BY <1>4 DEF IInv, TypeOK
<1>11. RecContent'
  BY <1>1, <1>5, <1>10 DEF IInv, RecContent
<1>12. RecWindow'
  BY <1>1, <1>5, <1>10 DEF IInv, TypeOK, RecWindow
<1>13. InOrderDelivery'
  BY <1>1 DEF IInv, InOrderDelivery
<1>14. \A q \in Peer : \A i : Holds(q, i) => Holds(q, i)'
  <2>1. \A q \in Peer : recBuf[q] \subseteq recBuf'[q]
    BY <1>4 DEF IInv, TypeOK
  <2> QED
    BY <1>1, <2>1 DEF Holds, Ids
<1>15. AckSound'
  <2>1. \A n \in net' : \A i \in Elems(n.acks) : Holds(n.from, i)'
    <3>1. \A n \in net : n.from \in Peer
      BY DEF IInv, TypeOK, ControlPacket, AckPacket
    <3> QED
      BY <1>1, <1>14, <3>1 DEF IInv, AckSound
  <2>2. \A q \in Peer : \A i \in Elems(recAck'[q]) : Holds(q, i)'
    <3>1. CASE UNCHANGED recAck
      BY <3>1, <1>14 DEF IInv, AckSound
    <3>2. CASE /\ m \in ControlPacket
               /\ recAck' = [recAck EXCEPT ![p] = reliable_ack_acknowledge_packet_id(p, m.id)]
               /\ Holds(p, m.id) \/ recBuf' = [recBuf EXCEPT ![p] = @ \cup {entry}]
      <4>1. Holds(p, m.id)'
        <5>1. CASE Holds(p, m.id)
          BY <5>1, <1>14
        <5>2. CASE recBuf' = [recBuf EXCEPT ![p] = @ \cup {entry}]
          <6>1. entry \in recBuf'[p] /\ entry.id = m.id
            BY <5>2 DEF IInv, TypeOK
          <6> QED
            BY <6>1 DEF Holds, Ids
        <5> QED
          BY <3>2, <5>1, <5>2
      <4>2. \A q \in Peer : \A i \in Elems(recAck'[q]) :
              i \in Elems(recAck[q]) \/ (q = p /\ i = m.id)
        BY <3>2, <1>6 DEF IInv, TypeOK
      <4> QED
        BY <4>1, <4>2, <1>14 DEF IInv, AckSound
    <3> QED
      BY <1>4, <3>1, <3>2
  <2> QED
    BY <2>1, <2>2 DEF AckSound
<1>16. NoLoss'
  <2> SUFFICES ASSUME NEW q \in Peer, NEW i \in 0 .. sndId[q] - 1
               PROVE  i \in Ids(sndBuf'[q]) \/ Holds(Other(q), i)'
    BY <1>1 DEF NoLoss
  <2>1. CASE Holds(Other(q), i)
    BY <2>1, <1>14, OtherPeer
  <2>2. CASE i \in Ids(sndBuf[q]) /\ ~ (q = p /\ i \in Elems(m.acks))
    BY <2>2, <1>1 DEF IInv, TypeOK, Ids
  <2>3. CASE q = p /\ i \in Elems(m.acks)
    BY <2>3, <1>1, <1>3, <1>14 DEF IInv, AckSound
  <2> QED
    BY <2>1, <2>2, <2>3 DEF IInv, NoLoss
<1> QED
  BY <1>7, <1>8, <1>9, <1>11, <1>12, <1>13, <1>15, <1>16 DEF IInv

\* Deliver takes the packet at the start of the window.
LEMMA DeliverIInv ==
  ASSUME IInv, NEW p \in Peer, Deliver(p)
  PROVE  IInv'
<1>1. PICK e \in recBuf[p] :
        /\ e.id = recId[p]
        /\ recBuf' = [recBuf EXCEPT ![p] = @ \ {e}]
        /\ recId' = [recId EXCEPT ![p] = e.id + 1]
        /\ delivered' = [delivered EXCEPT ![p] = Append(@, e.data)]
        /\ UNCHANGED <<sndBuf, sndId, recAck, net, produced>>
  BY DEF Deliver
<1>2. e \in RecEntry /\ e.id \in Nat /\ e.data \in Data
  BY DEF IInv, TypeOK, RecEntry
<1>3. TypeOK'
  <2>1. /\ IsFiniteSet(recBuf[p]) /\ Cardinality(recBuf[p]) <= NRec
    BY DEF IInv, TypeOK
  <2>2. /\ IsFiniteSet(recBuf[p] \ {e}) /\ Cardinality(recBuf[p] \ {e}) <= NRec
    BY <2>1, FS_RemoveElement, FS_CardinalityType, SizeAssumption
  <2>3. \A q \in Peer : IsFiniteSet(recBuf'[q]) /\ Cardinality(recBuf'[q]) <= NRec
    BY <1>1, <2>2 DEF IInv, TypeOK
  <2>4. recBuf' \in [Peer -> SUBSET RecEntry] /\ recId' \in [Peer -> Nat]
    BY <1>1, <1>2 DEF IInv, TypeOK
  <2>5. delivered' \in [Peer -> Seq(Data)]
    BY <1>1, <1>2 DEF IInv, TypeOK
  <2> QED
    BY <1>1, <2>3, <2>4, <2>5 DEF IInv, TypeOK
<1>4. SndContent' /\ NetContent'
  BY <1>1 DEF IInv, SndContent, NetContent
<1>5. RecContent'
  BY <1>1 DEF IInv, TypeOK, RecContent
<1>6. RecWindow'
  <2> SUFFICES ASSUME NEW q \in Peer, NEW f \in recBuf'[q]
               PROVE  recId'[q] <= f.id /\ f.id < recId'[q] + NRec
    BY DEF RecWindow
  <2>1. f \in recBuf[q] /\ f.id \in Nat /\ recId[q] <= f.id /\ f.id < recId[q] + NRec
    BY <1>1 DEF IInv, TypeOK, RecEntry, RecWindow
  <2>2. CASE q # p
    BY <2>1, <2>2, <1>1 DEF IInv, TypeOK
  <2>3. CASE q = p
    <3>1. f # e
      BY <2>3, <1>1 DEF IInv, TypeOK
    <3>2. f.id # e.id
      <4>1. f \in RecEntry
        BY <2>1 DEF IInv, TypeOK
      <4>2. f.id = e.id => f.data = e.data
        BY <2>1, <2>3 DEF IInv, RecContent
      <4> QED
        BY <3>1, <4>1, <4>2, <1>2, RecEntryEqual
    <3> QED
      BY <2>1, <2>3, <3>2, <1>1, <1>2, SizeAssumption DEF IInv, TypeOK
  <2> QED
    BY <2>2, <2>3
<1>7. InOrderDelivery'
  <2> SUFFICES ASSUME NEW q \in Peer
               PROVE  /\ Len(delivered'[q]) = recId'[q]
                      /\ recId'[q] <= Len(produced'[Other(q)])
                      /\ \A i \in 1 .. recId'[q] : delivered'[q][i] = produced'[Other(q)][i]
    BY DEF InOrderDelivery
  <2>1. CASE q # p
    BY <2>1, <1>1 DEF IInv, TypeOK, InOrderDelivery
  <2>2. CASE q = p
    <3>1. /\ Len(delivered[p]) = recId[p] /\ recId[p] \in Nat /\ delivered[p] \in Seq(Data)
          /\ \A i \in 1 .. recId[p] : delivered[p][i] = produced[Other(p)][i]
      BY DEF IInv, TypeOK, InOrderDelivery
    <3>2. e.data = produced[Other(p)][recId[p] + 1] /\ recId[p] < Len(produced[Other(p)])
      BY <1>1, OtherPeer DEF IInv, RecContent, SndContent
    <3>3. delivered'[p] = Append(delivered[p], e.data) /\ recId'[p] = recId[p] + 1
      BY <1>1 DEF IInv, TypeOK
    <3>4. Len(produced[Other(p)]) \in Nat
      BY OtherPeer DEF IInv, TypeOK
    <3> QED
      BY <2>2, <3>1, <3>2, <3>3, <3>4, <1>1, <1>2
  <2> QED
    BY <2>1, <2>2
<1>8. \A q \in Peer : \A i \in Nat : Holds(q, i) => Holds(q, i)'
  BY <1>1, <1>2 DEF IInv, TypeOK, Holds, Ids
<1>9. AckSound'
  <2>1. \A n \in net : n.from \in Peer /\ n.acks \in Seq(Nat)
    BY DEF IInv, TypeOK, ControlPacket, AckPacket
  <2>2. \A s \in Seq(Nat) : \A i \in Elems(s) : i \in Nat
    BY DEF Elems
  <2>3. \A q \in Peer : recAck[q] \in Seq(Nat)
    BY DEF IInv, TypeOK
  <2> QED
    BY <1>1, <1>8, <2>1, <2>2, <2>3 DEF IInv, AckSound
<1>10. NoLoss'
  <2>1. \A q \in Peer : \A i \in 0 .. sndId[q] - 1 : i \in Nat
    BY DEF IInv, TypeOK
  <2> QED
    BY <1>1, <1>8, <2>1, OtherPeer DEF IInv, NoLoss
<1> QED
  BY <1>3, <1>4, <1>5, <1>6, <1>7, <1>9, <1>10 DEF IInv

\* Timeout makes one entry due.
LEMMA TimeoutIInv ==
  ASSUME IInv, NEW p \in Peer, Timeout(p)
  PROVE  IInv'
<1>1. PICK e \in sndBuf[p] :
        /\ sndBuf' = [sndBuf EXCEPT ![p] = (@ \ {e}) \cup {[e EXCEPT !.due = TRUE]}]
        /\ UNCHANGED <<sndId, recBuf, recId, recAck, net, produced, delivered>>
  BY DEF Timeout
<1> DEFINE new == [e EXCEPT !.due = TRUE]
<1>2. new \in SendEntry /\ new.id = e.id /\ new.data = e.data
  <2>1. e \in SendEntry
    BY DEF IInv, TypeOK
  <2> QED
    BY <2>1, DueEntry
<1>3. sndBuf'[p] = (sndBuf[p] \ {e}) \cup {new} /\ \A q \in Peer \ {p} : sndBuf'[q] = sndBuf[q]
  BY <1>1 DEF IInv, TypeOK
<1>4. SndContent' /\ RecContent' /\ RecWindow' /\ InOrderDelivery' /\ NoLoss'
  <2> SUFFICES ASSUME NEW q \in Peer
               PROVE  /\ Ids(sndBuf'[q]) = Ids(sndBuf[q])
                      /\ \A g \in sndBuf'[q] : \E f \in sndBuf[q] :
                           g.id = f.id /\ g.data = f.data
                      /\ \A g, f \in sndBuf'[q] : g.id = f.id => g = f
    BY <1>1, DueOnly
  <2> HIDE DEF new
  <2>1. CASE q # p
    BY <2>1, <1>3 DEF IInv, SndContent
  <2>2. CASE q = p
    BY <2>2, <1>2, <1>3 DEF IInv, SndContent, Ids
  <2> QED
    BY <2>1, <2>2
<1>5. TypeOK'
  <2>1. IsFiniteSet(sndBuf[p]) /\ Cardinality(sndBuf[p]) <= NSend /\ NSend \in Nat
    BY SizeAssumption DEF IInv, TypeOK
  <2> HIDE DEF new
  <2>2. /\ IsFiniteSet((sndBuf[p] \ {e}) \cup {new})
        /\ Cardinality((sndBuf[p] \ {e}) \cup {new}) <= Cardinality(sndBuf[p])
    BY <2>1, ReplaceCard
  <2>3. Cardinality(sndBuf[p]) \in Nat /\ Cardinality((sndBuf[p] \ {e}) \cup {new}) \in Nat
    BY <2>1, <2>2, FS_CardinalityType
  <2>4. IsFiniteSet(sndBuf'[p]) /\ Cardinality(sndBuf'[p]) <= NSend
    BY <1>3, <2>1, <2>2, <2>3
  <2>5. sndBuf' \in [Peer -> SUBSET SendEntry]
    BY <1>1, <1>2 DEF IInv, TypeOK, new
  <2> QED
    BY <1>1, <1>3, <2>4, <2>5 DEF IInv, TypeOK
<1>6. NetContent'
  BY <1>1 DEF IInv, NetContent
<1>7. AckSound'
  BY <1>1 DEF IInv, AckSound, Holds
<1> QED
  BY <1>4, <1>5, <1>6, <1>7 DEF IInv

\* reliable_schedule_now makes every entry due.
LEMMA ScheduleNowIInv ==
  ASSUME IInv, NEW p \in Peer, reliable_schedule_now(p)
  PROVE  IInv'
<1> DEFINE T == {[e EXCEPT !.due = TRUE] : e \in sndBuf[p]}
<1>1. /\ sndBuf' = [sndBuf EXCEPT ![p] = {[e EXCEPT !.due = TRUE] : e \in @}]
      /\ UNCHANGED <<sndId, recBuf, recId, recAck, net, produced, delivered>>
  BY DEF reliable_schedule_now
<1>2. sndBuf[p] \in SUBSET SendEntry
  BY DEF IInv, TypeOK
<1>3. /\ T \in SUBSET SendEntry
      /\ \A g \in T : \E f \in sndBuf[p] : g = [f EXCEPT !.due = TRUE]
                                           /\ g.id = f.id /\ g.data = f.data
      /\ \A f \in sndBuf[p] : \E g \in T : g.id = f.id
  <2>1. \A f \in sndBuf[p] : LET d == [f EXCEPT !.due = TRUE]
                             IN  d \in SendEntry /\ d.id = f.id /\ d.data = f.data
    BY <1>2, DueEntry
  <2> QED
    BY <2>1
<1>4. sndBuf'[p] = T /\ \A q \in Peer \ {p} : sndBuf'[q] = sndBuf[q]
  BY <1>1 DEF IInv, TypeOK
<1>5. SndContent' /\ RecContent' /\ RecWindow' /\ InOrderDelivery' /\ NoLoss'
  <2> SUFFICES ASSUME NEW q \in Peer
               PROVE  /\ Ids(sndBuf'[q]) = Ids(sndBuf[q])
                      /\ \A g \in sndBuf'[q] : \E f \in sndBuf[q] :
                           g.id = f.id /\ g.data = f.data
                      /\ \A g, f \in sndBuf'[q] : g.id = f.id => g = f
    BY <1>1, DueOnly
  <2> HIDE DEF T
  <2>1. CASE q # p
    BY <2>1, <1>4 DEF IInv, SndContent
  <2>2. CASE q = p
    <3>1. \A g, f \in T : g.id = f.id => g = f
      <4> SUFFICES ASSUME NEW g \in T, NEW f \in T, g.id = f.id PROVE g = f
        OBVIOUS
      <4>1. PICK a \in sndBuf[p] : g = [a EXCEPT !.due = TRUE] /\ g.id = a.id
        BY <1>3
      <4>2. PICK b \in sndBuf[p] : f = [b EXCEPT !.due = TRUE] /\ f.id = b.id
        BY <1>3
      <4>3. a = b
        BY <4>1, <4>2 DEF IInv, SndContent
      <4> QED
        BY <4>1, <4>2, <4>3
    <3>2. Ids(T) = Ids(sndBuf[p])
      BY <1>3 DEF Ids
    <3> QED
      BY <2>2, <3>1, <3>2, <1>3, <1>4
  <2> QED
    BY <2>1, <2>2
<1>6. TypeOK'
  <2>1. IsFiniteSet(sndBuf[p]) /\ Cardinality(sndBuf[p]) <= NSend /\ NSend \in Nat
    BY SizeAssumption DEF IInv, TypeOK
  <2>2. IsFiniteSet(T) /\ Cardinality(T) <= Cardinality(sndBuf[p])
    BY <1>2, <2>1, DueCard
  <2> HIDE DEF T
  <2>3. Cardinality(sndBuf[p]) \in Nat /\ Cardinality(T) \in Nat
    BY <2>1, <2>2, FS_CardinalityType
  <2>4. IsFiniteSet(sndBuf'[p]) /\ Cardinality(sndBuf'[p]) <= NSend
    BY <1>4, <2>1, <2>2, <2>3
  <2>5. sndBuf' \in [Peer -> SUBSET SendEntry]
    BY <1>1, <1>3 DEF IInv, TypeOK, T
  <2> QED
    BY <1>1, <1>4, <2>4, <2>5 DEF IInv, TypeOK
<1>7. NetContent'
  BY <1>1 DEF IInv, NetContent
<1>8. AckSound'
  BY <1>1 DEF IInv, AckSound, Holds
<1> QED
  BY <1>5, <1>6, <1>7, <1>8 DEF IInv

\* A lost datagram takes nothing along.
LEMMA LoseIInv ==
  ASSUME IInv, NEW m \in net, Lose(m)
  PROVE  IInv'
<1>1. net' \subseteq net /\ UNCHANGED <<sndBuf, sndId, recBuf, recId, recAck, produced, delivered>>
  BY DEF Lose
<1>2. TypeOK'
  BY <1>1 DEF IInv, TypeOK
<1>3. SndContent' /\ NetContent' /\ RecContent' /\ RecWindow' /\ InOrderDelivery'
  BY <1>1 DEF IInv, SndContent, NetContent, RecContent, RecWindow, InOrderDelivery
<1>4. AckSound' /\ NoLoss'
  BY <1>1 DEF IInv, AckSound, NoLoss, Holds
<1> QED
  BY <1>2, <1>3, <1>4 DEF IInv

\* Every step preserves IInv.
LEMMA NextIInv == IInv /\ [Next]_vars => IInv'
<1> SUFFICES ASSUME IInv, [Next]_vars PROVE IInv'
  OBVIOUS
<1>1. ASSUME NEW p \in Peer, NEW d \in Data, Produce(p, d) PROVE IInv'
  BY <1>1, ProduceIInv
<1>2. ASSUME NEW p \in Peer, Send(p) PROVE IInv'
  BY <1>2, SendIInv
<1>3. ASSUME NEW p \in Peer, SendAck(p) PROVE IInv'
  BY <1>3, SendAckIInv
<1>4. ASSUME NEW p \in Peer, Deliver(p) PROVE IInv'
  BY <1>4, DeliverIInv
<1>5. ASSUME NEW p \in Peer, Timeout(p) PROVE IInv'
  BY <1>5, TimeoutIInv
<1>6. ASSUME NEW p \in Peer, reliable_schedule_now(p) PROVE IInv'
  BY <1>6, ScheduleNowIInv
<1>7. ASSUME NEW p \in Peer, NEW m \in net, Receive(p, m) PROVE IInv'
  BY <1>7, ReceiveIInv
<1>8. ASSUME NEW m \in net, Lose(m) PROVE IInv'
  BY <1>8, LoseIInv
<1>9. CASE UNCHANGED vars
  BY <1>9 DEF vars, IInv, TypeOK, SndContent, NetContent, RecContent, RecWindow,
              InOrderDelivery, AckSound, NoLoss, Holds
<1> QED
  BY <1>1, <1>2, <1>3, <1>4, <1>5, <1>6, <1>7, <1>8, <1>9 DEF Next

-----------------------------------------------------------------------------
(* The theorems.                                                           *)

\* IInv holds in every reachable state.
LEMMA IInvCorrect == Spec => []IInv
  BY InitIInv, NextIInv, PTL DEF Spec

\* Type correctness: in particular neither buffer array nor rec_ack overflows.
THEOREM TypeCorrect == Spec => []TypeOK
<1>1. IInv => TypeOK
  BY DEF IInv
<1> QED
  BY <1>1, IInvCorrect, PTL

\* In-order, exactly-once delivery to the TLS object, for any loss,
\* duplication and reordering of datagrams and any buffer sizes.
THEOREM InOrderDeliveryCorrect == Spec => []InOrderDelivery
<1>1. IInv => InOrderDelivery
  BY DEF IInv
<1> QED
  BY <1>1, IInvCorrect, PTL

\* Acknowledgements are sound and no packet is ever lost by both ends.
THEOREM NoLossCorrect == Spec => [](AckSound /\ NoLoss)
<1>1. IInv => AckSound /\ NoLoss
  BY DEF IInv
<1> QED
  BY <1>1, IInvCorrect, PTL

\* A full receive buffer can be drained: its ids are NRec distinct ids of a
\* window of NRec, so the first of the window is among them.
THEOREM NoReceiveDeadlockCorrect == Spec => []NoReceiveDeadlock
<1>1. IInv => NoReceiveDeadlock
  <2> SUFFICES ASSUME IInv, NEW p \in Peer, ~ reliable_can_get(p),
                      recId[p] \notin Ids(recBuf[p])
               PROVE  FALSE
    BY DEF NoReceiveDeadlock
  <2> DEFINE W == (recId[p] + 1) .. (recId[p] + NRec - 1)
             f == [e \in recBuf[p] |-> e.id]
  <2>1. IsFiniteSet(recBuf[p]) /\ recId[p] \in Nat /\ NRec \in Nat \ {0}
    BY SizeAssumption DEF IInv, TypeOK
  <2>2. Cardinality(recBuf[p]) = NRec
    BY <2>1, FS_CardinalityType DEF IInv, TypeOK, reliable_can_get
  <2>3. IsFiniteSet(W) /\ Cardinality(W) = NRec - 1
    <3> DEFINE a == recId[p] + 1
               b == recId[p] + NRec - 1
    <3>1. a \in Int /\ b \in Int /\ (IF a > b THEN 0 ELSE b - a + 1) = NRec - 1
      BY <2>1
    <3>2. W = a .. b
      OBVIOUS
    <3> HIDE DEF a, b, W
    <3>3. IsFiniteSet(a .. b) /\ Cardinality(a .. b) = IF a > b THEN 0 ELSE b - a + 1
      BY <3>1, FS_Interval
    <3> QED
      BY <3>1, <3>2, <3>3
  <2>4. f \in [recBuf[p] -> W]
    BY <2>1 DEF IInv, TypeOK, RecEntry, RecWindow, Ids
  <2>5. PICK x, y \in recBuf[p] : x # y /\ f[x] = f[y]
    <3> HIDE DEF f, W
    <3> QED
      BY <2>1, <2>2, <2>3, <2>4, FS_PigeonHole
  <2>6. x \in RecEntry /\ y \in RecEntry /\ x.id = y.id /\ x.data = y.data
    BY <2>5 DEF IInv, TypeOK, RecContent
  <2> QED
    BY <2>5, <2>6, RecEntryEqual
<1> QED
  BY <1>1, IInvCorrect, PTL

\* The layer implements FifoChannel: Produce is Put, Deliver is Get, every
\* other step leaves the channels alone.
THEOREM RefinesFifo == Spec => FifoSpec
<1>1. Init => Fifo!Init
  BY DEF Init, Fifo!Init, Fifo!Ends, Peer
<1>2. IInv /\ [Next]_vars => [Fifo!Next]_<<produced, delivered>>
  <2> SUFFICES ASSUME IInv, [Next]_vars PROVE [Fifo!Next]_<<produced, delivered>>
    OBVIOUS
  <2>1. ASSUME NEW p \in Peer, NEW d \in Data, Produce(p, d)
        PROVE  Fifo!Next
    BY <2>1 DEF Produce, Fifo!Next, Fifo!Put, Fifo!Ends, Peer
  <2>2. ASSUME NEW p \in Peer, Deliver(p) PROVE Fifo!Next
    <3>1. PICK e \in recBuf[p] :
            /\ e.id = recId[p]
            /\ delivered' = [delivered EXCEPT ![p] = Append(@, e.data)]
            /\ UNCHANGED produced
      BY <2>2 DEF Deliver
    <3>2. /\ e.data = produced[Other(p)][recId[p] + 1]
          /\ recId[p] < Len(produced[Other(p)]) /\ Len(delivered[p]) = recId[p]
      BY <3>1, OtherPeer DEF IInv, RecContent, SndContent, InOrderDelivery
    <3>3. Fifo!Peer(p) = Other(p)
      BY DEF Fifo!Peer, Other
    <3>4. Fifo!Get(p)
      BY <3>1, <3>2, <3>3 DEF Fifo!Get
    <3> QED
      BY <3>4 DEF Fifo!Next, Fifo!Ends, Peer
  <2>3. ASSUME NEW p \in Peer,
               Send(p) \/ SendAck(p) \/ Timeout(p) \/ reliable_schedule_now(p)
                 \/ (\E m \in net : Receive(p, m))
        PROVE  UNCHANGED <<produced, delivered>>
    BY <2>3 DEF Send, SendAck, Timeout, reliable_schedule_now, Receive
  <2>4. ASSUME NEW m \in net, Lose(m) PROVE UNCHANGED <<produced, delivered>>
    BY <2>4 DEF Lose
  <2>5. CASE UNCHANGED vars
    BY <2>5 DEF vars
  <2> QED
    BY <2>1, <2>2, <2>3, <2>4, <2>5 DEF Next
<1> QED
  BY <1>1, <1>2, IInvCorrect, PTL DEF Spec, FifoSpec, Fifo!Spec

=============================================================================
