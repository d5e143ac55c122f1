------------------------- MODULE DataChannelProofs --------------------------
(***************************************************************************)
(* No packet id is accepted twice within a session, the window refuses     *)
(* none it has room for, and the replay file of a TCP session covers what  *)
(* it says it covers, for every window size, id width and time window.     *)
(* What is reassembled from fragments is what was sent, for every number   *)
(* of sequence ids, window of buffers and payload size.                    *)
(***************************************************************************)
EXTENDS PacketIdPersist, Fragment, SequenceTheorems, TLAPS

\* The receiver's memory marks pin as received (or as too old to tell).
Seen(r, pin) ==
  \/ pin.time < r.time
  \/ /\ pin.time = r.time /\ pin.id <= r.id
     /\ \/ r.id - pin.id >= Len(r.list)
        \/ r.list[r.id - pin.id + 1] # SEQ_UNSEEN

\* The inductive invariant: everything accepted is marked, and once something
\* was accepted the window is not empty (a fresh window would forget it).
IInv ==
  /\ TypeOK
  /\ AcceptOnce
  /\ \A a \in accepted : Seen(rec, a.pin)
  /\ SeqBacktrack # 0 /\ accepted # {} => rec.list # <<>>

\* A window the receiver can have.
Window(r) == r \in Rec /\ Len(r.list) <= SeqBacktrack

-----------------------------------------------------------------------------
(* Lemmas on the receiver's operators.                                     *)

\* What is marked is rejected.
LEMMA SeenRejected ==
  ASSUME NEW r, Window(r), NEW pin \in Pin, Seen(r, pin)
  PROVE  ~ packet_id_test(r, pin)
<1>1. r.id \in Nat /\ r.time \in Nat /\ pin.id \in Nat /\ pin.time \in Nat
      /\ r.list \in Seq(Nat) /\ Len(r.list) \in Nat
  BY LenProperties DEF Window, Rec, Pin
<1> QED
  BY <1>1 DEF Seen, packet_id_test, SEQ_UNSEEN

\* Reaping only replaces slots by SEQ_EXPIRED.
LEMMA FunctionIsSeq ==
  ASSUME NEW S, NEW n \in Nat, NEW f \in [1 .. n -> S]
  PROVE  f \in Seq(S) /\ Len(f) = n
<1>1. f \in Seq(S)
  BY SeqDef
<1>2. 1 .. Len(f) = 1 .. n /\ Len(f) \in Nat
  BY <1>1, LenProperties
<1> QED
  BY <1>1, <1>2

LEMMA ReapWindow ==
  ASSUME NEW r, Window(r), now \in Nat
  PROVE  LET s == packet_id_reap_test(r)
         IN  /\ Window(s)
             /\ s.time = r.time /\ s.id = r.id /\ Len(s.list) = Len(r.list)
             /\ \A i \in 1 .. Len(r.list) : s.list[i] = r.list[i] \/ s.list[i] = SEQ_EXPIRED
<1> DEFINE Old(t)    == t > SEQ_EXPIRED /\ t + TimeBacktrack < now
           Expire(i) == /\ \E j \in 1 .. i : Old(r.list[j])
                        /\ \A j \in 1 .. i : r.list[j] # SEQ_EXPIRED
           n == Len(r.list)
           l == [i \in 1 .. n |-> IF Expire(i) THEN SEQ_EXPIRED ELSE r.list[i]]
           s == packet_id_reap_test(r)
<1>1. n \in Nat /\ r.list \in [1 .. n -> Nat] /\ r.list \in Seq(Nat)
  BY LenProperties DEF Window, Rec
<1>2. l \in Seq(Nat) /\ Len(l) = n
  <2>1. l \in [1 .. n -> Nat]
    BY <1>1 DEF SEQ_EXPIRED
  <2> HIDE DEF l
  <2> QED
    BY <1>1, <2>1, FunctionIsSeq, Zenon
<1>3. \A i \in 1 .. n : l[i] = r.list[i] \/ l[i] = SEQ_EXPIRED
  OBVIOUS
<1>4. s.time = r.time /\ s.id = r.id /\ s.lastReap \in Nat /\ s.list \in {r.list, l}
      /\ s \in [time : Nat, id : Nat, list : {r.list, l}, lastReap : Nat]
  BY DEF Window, Rec, packet_id_reap_test, packet_id_reap
<1> HIDE DEF l, s
<1>5. s \in Rec
  BY <1>1, <1>2, <1>4 DEF Rec
<1> QED
  BY <1>1, <1>2, <1>3, <1>4, <1>5 DEF Window, s

LEMMA ReapSeen ==
  ASSUME NEW r, Window(r), now \in Nat, NEW pin \in Pin, Seen(r, pin)
  PROVE  Seen(packet_id_reap_test(r), pin)
<1>1. /\ r.id \in Nat /\ pin.id \in Nat /\ Len(r.list) \in Nat
      /\ r.time \in Nat /\ pin.time \in Nat
  BY LenProperties DEF Window, Rec, Pin
<1> DEFINE s    == packet_id_reap_test(r)
           slot == r.id - pin.id + 1
<1>2. /\ s.time = r.time /\ s.id = r.id /\ Len(s.list) = Len(r.list)
      /\ \A i \in 1 .. Len(r.list) : s.list[i] = r.list[i] \/ s.list[i] = SEQ_EXPIRED
  BY ReapWindow
<1>3. slot \in 1 .. Len(r.list) => s.list[slot] = r.list[slot] \/ s.list[slot] = SEQ_EXPIRED
  BY <1>2
<1> HIDE DEF s
<1>4. CASE pin.time < r.time
  <2>1. Seen(s, pin)
    BY <1>2, <1>4 DEF Seen
  <2> QED
    BY <2>1 DEF s
<1>5. CASE pin.time = r.time /\ pin.id <= r.id /\ r.id - pin.id >= Len(r.list)
  <2>1. Seen(s, pin)
    BY <1>2, <1>5 DEF Seen
  <2> QED
    BY <2>1 DEF s
<1>6. CASE /\ pin.time = r.time /\ pin.id <= r.id /\ ~(r.id - pin.id >= Len(r.list))
           /\ r.list[slot] # SEQ_UNSEEN
  <2>1. slot \in 1 .. Len(r.list)
    BY <1>1, <1>6
  <2>2. s.list[slot] # SEQ_UNSEEN
    BY <1>3, <1>6, <2>1 DEF SEQ_EXPIRED, SEQ_UNSEEN
  <2>3. Seen(s, pin)
    BY <1>2, <1>6, <2>2 DEF Seen
  <2> QED
    BY <2>3 DEF s
<1> QED
  BY <1>4, <1>5, <1>6 DEF Seen

\* Pushing n unseen slots moves the old ones down by n.
LEMMA PushWindow ==
  ASSUME NEW l \in Seq(Nat), NEW n \in Nat, Len(l) <= SeqBacktrack
  PROVE  /\ PushUnseen(l, n) \in Seq(Nat)
         /\ Len(PushUnseen(l, n)) = SmallerOf(n + Len(l), SeqBacktrack)
         /\ \A i \in 1 .. SmallerOf(n + Len(l), SeqBacktrack) :
              PushUnseen(l, n)[i] = IF i <= n THEN SEQ_UNSEEN ELSE l[i - n]
<1> DEFINE k == SmallerOf(n + Len(l), SeqBacktrack)
<1>1. Len(l) \in Nat /\ k \in Nat /\ k <= n + Len(l)
  BY LenProperties, PacketIdAssumption DEF SmallerOf
<1>2. \A i \in 1 .. k : ~(i <= n) => i - n \in 1 .. Len(l)
  BY <1>1
<1>3. PushUnseen(l, n) \in [1 .. k -> Nat]
  <2>1. \A i \in 1 .. k : (IF i <= n THEN SEQ_UNSEEN ELSE l[i - n]) \in Nat
    BY <1>2, ElementOfSeq DEF SEQ_UNSEEN
  <2> QED
    BY <2>1 DEF PushUnseen
<1>4. PushUnseen(l, n) \in Seq(Nat) /\ Len(PushUnseen(l, n)) = k
  BY <1>1, <1>3, FunctionIsSeq, Zenon
<1> QED
  BY <1>4 DEF PushUnseen

\* Arithmetic of slots: the slot of id b below the highest id a, and what it
\* was before the highest id rose from c to a.
LEMMA SlotRange ==
  ASSUME NEW a \in Nat, NEW b \in Nat, NEW n \in Nat, b <= a, ~ (a - b >= n)
  PROVE  a - b + 1 \in 1 .. n
OBVIOUS
LEMMA SlotShift ==
  ASSUME NEW a \in Nat, NEW b \in Nat, NEW c \in Nat, NEW n \in Nat, NEW k \in Nat,
         b <= c, c <= a, ~ (a - b >= n), n <= a - c + k
  PROVE  /\ a - c \in Nat /\ c - b + 1 \in 1 .. k /\ ~ (c - b >= k)
         /\ a - b + 1 = (a - c) + (c - b + 1)
         /\ (a - c) + (c - b + 1) \in 1 .. n
OBVIOUS

\* The fields of the receiver after packet_id_add, in backtrack mode.
LEMMA AddFields ==
  ASSUME NEW r, Window(r), NEW pin \in Pin, SeqBacktrack # 0, now \in Nat,
         NEW old, old = IF NewSequence(r, pin) THEN <<>> ELSE r.list,
         NEW base, base = IF NewSequence(r, pin) THEN SequenceBase(pin) ELSE r.id,
         NEW top, top = IF base < pin.id THEN pin.id ELSE base
  PROVE  LET s == packet_id_add(r, pin)
         IN  /\ s \in Rec
             /\ s.time = IF NewSequence(r, pin) THEN pin.time ELSE r.time
             /\ s.id = top
             /\ Len(s.list) = SmallerOf(top - base + Len(old), SeqBacktrack)
             /\ \A i \in 1 .. Len(s.list) :
                  s.list[i] = IF i = top - pin.id + 1 THEN now
                              ELSE IF i <= top - base THEN SEQ_UNSEEN
                              ELSE old[i - (top - base)]
<1>1. r.id \in Nat /\ r.time \in Nat /\ pin.id \in Nat /\ pin.time \in Nat
      /\ r.list \in Seq(Nat) /\ Len(r.list) <= SeqBacktrack /\ r.lastReap \in Nat
      /\ SeqBacktrack \in Nat
  BY PacketIdAssumption DEF Window, Rec, Pin
<1>2. base \in Nat /\ top \in Nat /\ base <= top /\ pin.id <= top
  BY <1>1 DEF SequenceBase
<1>3. old \in Seq(Nat) /\ Len(old) <= SeqBacktrack
  BY <1>1, EmptySeq
<1> DEFINE l == PushUnseen(old, top - base)
           slot == top - pin.id + 1
           m == IF slot <= Len(l) THEN [l EXCEPT ![slot] = now] ELSE l
           s == packet_id_add(r, pin)
<1>4. /\ l \in Seq(Nat)
      /\ Len(l) = SmallerOf(top - base + Len(old), SeqBacktrack)
      /\ \A i \in 1 .. Len(l) :
           l[i] = IF i <= top - base THEN SEQ_UNSEEN ELSE old[i - (top - base)]
  <2> DEFINE n == top - base
  <2>1. n \in Nat
    BY <1>2
  <2>2. l = PushUnseen(old, n)
    OBVIOUS
  <2> HIDE DEF n, l
  <2>3. /\ PushUnseen(old, n) \in Seq(Nat)
        /\ Len(PushUnseen(old, n)) = SmallerOf(n + Len(old), SeqBacktrack)
        /\ \A i \in 1 .. SmallerOf(n + Len(old), SeqBacktrack) :
             PushUnseen(old, n)[i] = IF i <= n THEN SEQ_UNSEEN ELSE old[i - n]
    BY <2>1, <1>3, PushWindow
  <2> QED
    BY <2>2, <2>3 DEF n
<1>5. slot \in Nat \ {0} /\ Len(l) \in Nat
  <2>1. slot \in Nat \ {0}
    BY <1>1, <1>2
  <2> HIDE DEF l
  <2>2. Len(l) \in Nat
    BY <1>4, LenProperties
  <2> QED
    BY <2>1, <2>2
<1>6. s = [r EXCEPT !.time = IF NewSequence(r, pin) THEN pin.time ELSE @,
                    !.id = top, !.list = m]
  BY DEF packet_id_add
<1> HIDE DEF l, slot
<1>7. /\ m \in Seq(Nat) /\ Len(m) = Len(l)
      /\ \A i \in 1 .. Len(l) : m[i] = IF i = slot THEN now ELSE l[i]
  <2>1. CASE slot <= Len(l)
    <3>1. slot \in 1 .. Len(l)
      BY <2>1, <1>5
    <3> QED
      BY <2>1, <3>1, <1>4, ExceptSeq
  <2>2. CASE ~ (slot <= Len(l))
    BY <2>2, <1>4, <1>5
  <2> QED
    BY <2>1, <2>2
<1> HIDE DEF m, s
<1>8. s \in Rec /\ s.time = (IF NewSequence(r, pin) THEN pin.time ELSE r.time)
      /\ s.id = top /\ s.list = m
  BY <1>1, <1>2, <1>6, <1>7 DEF Window, Rec
<1>9. \A i \in 1 .. Len(m) :
         m[i] = IF i = top - pin.id + 1 THEN now
                ELSE IF i <= top - base THEN SEQ_UNSEEN
                ELSE old[i - (top - base)]
  BY <1>4, <1>7 DEF slot
<1> QED
  BY <1>4, <1>7, <1>8, <1>9 DEF s

\* packet_id_add marks its packet and keeps every other mark; it leaves a
\* window that is not empty.
LEMMA AddSeen ==
  ASSUME NEW r, Window(r), NEW pin \in Pin, packet_id_test(r, pin), now \in Nat, now >= Start,
         NEW Q \in SUBSET Pin, \A q \in Q : Seen(r, q),
         SeqBacktrack # 0 /\ Q # {} => r.list # <<>>
  PROVE  LET s == packet_id_add(r, pin)
         IN  /\ Window(s)
             /\ SeqBacktrack # 0 => s.list # <<>>
             /\ Seen(s, pin)
             /\ \A q \in Q : Seen(s, q)
<1> DEFINE s == packet_id_add(r, pin)
<1>1. r.id \in Nat /\ r.time \in Nat /\ pin.id \in Nat /\ pin.time \in Nat
      /\ r.list \in Seq(Nat) /\ Len(r.list) \in Nat /\ Len(r.list) <= SeqBacktrack
      /\ r.lastReap \in Nat /\ SeqBacktrack \in Nat /\ pin.id # 0
      /\ pin.time >= r.time
  BY PacketIdAssumption, LenProperties DEF Window, Rec, Pin, packet_id_test
<1>2. CASE SeqBacktrack = 0
  <2>1. s = [r EXCEPT !.time = pin.time, !.id = pin.id]
    BY <1>2 DEF packet_id_add
  <2>2. s \in Rec /\ s.time = pin.time /\ s.id = pin.id /\ s.list = r.list /\ Len(s.list) = 0
    <3>1. s.time = pin.time /\ s.id = pin.id /\ s.list = r.list /\ s.lastReap = r.lastReap
      BY <2>1 DEF Window, Rec
    <3>2. s \in Rec
      BY <2>1, <1>1 DEF Window, Rec
    <3>3. Len(r.list) = 0
      BY <1>1, <1>2
    <3> QED
      BY <3>1, <3>2, <3>3
  <2>3. \A q \in Q : Seen(s, q)
    <3> SUFFICES ASSUME NEW q \in Q PROVE Seen(s, q)
      OBVIOUS
    <3>1. q.id \in Nat /\ q.time \in Nat /\ Seen(r, q)
      BY DEF Pin
    <3> QED
      BY <3>1, <2>2, <1>1, <1>2 DEF Seen, packet_id_test
  <2> QED
    BY <2>2, <2>3, <1>1, <1>2 DEF Window, Seen
<1>3. CASE SeqBacktrack # 0
  <2> DEFINE fresh == NewSequence(r, pin)
             old  == IF NewSequence(r, pin) THEN <<>> ELSE r.list
             base == IF NewSequence(r, pin) THEN SequenceBase(pin) ELSE r.id
             top  == IF base < pin.id THEN pin.id ELSE base
  <2>1. /\ s \in Rec
        /\ s.time = IF fresh THEN pin.time ELSE r.time
        /\ s.id = top
        /\ Len(s.list) = SmallerOf(top - base + Len(old), SeqBacktrack)
        /\ \A i \in 1 .. Len(s.list) :
             s.list[i] = IF i = top - pin.id + 1 THEN now
                         ELSE IF i <= top - base THEN SEQ_UNSEEN
                         ELSE old[i - (top - base)]
    BY <1>3, AddFields
  <2> HIDE DEF s
  <2>2. base \in Nat /\ top \in Nat /\ base <= top /\ pin.id <= top
    BY <1>1 DEF SequenceBase
  <2>3. fresh => Len(old) = 0 /\ top = pin.id /\ base < pin.id
    BY <1>1, <1>3, EmptySeq DEF SequenceBase
  <2>4. ~ fresh => old = r.list /\ base = r.id /\ r.time = pin.time /\ Len(old) \in Nat \ {0}
    BY <1>1, EmptySeq DEF NewSequence
  <2> HIDE DEF fresh, old, base, top
  <2>5. Len(s.list) \in Nat \ {0} /\ Len(s.list) <= SeqBacktrack
        /\ Len(s.list) <= top - base + Len(old)
    BY <2>1, <2>2, <2>3, <2>4, <1>1, <1>3 DEF SmallerOf
  <2>6. s.time = pin.time
    BY <2>1, <2>4
  <2>7. Seen(s, pin)
    <3>1. CASE s.id - pin.id >= Len(s.list)
      BY <3>1, <2>1, <2>2, <2>6 DEF Seen
    <3>2. CASE ~ (s.id - pin.id >= Len(s.list))
      <4>1. s.id - pin.id + 1 \in 1 .. Len(s.list)
        <5>1. s.id \in Nat /\ pin.id <= s.id
          BY <2>1, <2>2
        <5> QED
          BY <5>1, <3>2, <2>5, <1>1, SlotRange
      <4>2. s.list[s.id - pin.id + 1] = now
        BY <4>1, <2>1
      <4> QED
        BY <4>2, <2>1, <2>2, <2>6 DEF Seen, Start, SEQ_UNSEEN, SEQ_EXPIRED
    <3> QED
      BY <3>1, <3>2
  <2>8. \A q \in Q : Seen(s, q)
    <3> SUFFICES ASSUME NEW q \in Q PROVE Seen(s, q)
      OBVIOUS
    <3>1. q.id \in Nat /\ q.time \in Nat /\ Seen(r, q) /\ r.list # <<>>
      BY <1>3 DEF Pin
    <3>2. CASE q.time < s.time
      BY <3>2 DEF Seen
    <3>3. CASE ~ (q.time < s.time)
      <4>1. q.time = r.time /\ pin.time = r.time /\ q.id <= r.id
        BY <3>1, <3>3, <2>6, <1>1 DEF Seen
      <4>2. CASE fresh
        <5>1. pin.id >= SeqBacktrack /\ pin.id - SeqBacktrack > r.id
          BY <4>1, <4>2, <3>1, <1>1 DEF NewSequence, fresh
        <5>2. s.id - q.id >= Len(s.list) /\ q.id <= s.id
          BY <5>1, <4>1, <4>2, <3>1, <2>1, <2>3, <2>5, <1>1
        <5> QED
          BY <5>2, <4>1, <2>6 DEF Seen
      <4>3. CASE ~ fresh
        <5>1. q.id <= s.id
          BY <4>1, <4>3, <3>1, <2>1, <2>2, <2>4, <1>1
        <5>2. CASE s.id - q.id >= Len(s.list)
          BY <5>1, <5>2, <4>1, <2>6 DEF Seen
        <5>3. CASE ~ (s.id - q.id >= Len(s.list))
          <6> DEFINE n == top - base
                     j == r.id - q.id + 1
          <6>1. j \in 1 .. Len(r.list) /\ n \in Nat /\ s.id - q.id + 1 = n + j
                /\ n + j \in 1 .. Len(s.list) /\ ~ (r.id - q.id >= Len(r.list))
            <7>1. s.id = top /\ base = r.id /\ old = r.list
              BY <4>3, <2>1, <2>4
            <7>2. s.id \in Nat /\ r.id <= s.id /\ Len(s.list) <= s.id - r.id + Len(r.list)
              BY <7>1, <2>2, <2>5
            <7>3. n = s.id - r.id
              BY <7>1
            <7>4. /\ q.id \in Nat /\ r.id \in Nat /\ Len(s.list) \in Nat /\ Len(r.list) \in Nat
                  /\ q.id <= r.id
              BY <4>1, <3>1, <2>5, <1>1
            <7>5. /\ s.id - r.id \in Nat /\ r.id - q.id + 1 \in 1 .. Len(r.list)
                  /\ ~ (r.id - q.id >= Len(r.list))
                  /\ s.id - q.id + 1 = (s.id - r.id) + (r.id - q.id + 1)
                  /\ (s.id - r.id) + (r.id - q.id + 1) \in 1 .. Len(s.list)
              BY ONLY <7>2, <7>4, <5>3, SlotShift
            <7> QED
              BY <7>3, <7>5
          <6>2. r.list[j] # SEQ_UNSEEN
            BY <6>1, <4>1, <3>1, <1>1 DEF Seen
          <6>3. s.list[n + j] = IF n + j = top - pin.id + 1 THEN now ELSE r.list[j]
            <7>1. ~ (n + j <= top - base) /\ (n + j) - (top - base) = j
              BY <6>1
            <7> QED
              BY <7>1, <6>1, <2>1, <2>4, <4>3
          <6>4. s.list[n + j] # SEQ_UNSEEN
            BY <6>2, <6>3 DEF SEQ_UNSEEN, Start, SEQ_EXPIRED
          <6> QED
            BY <6>1, <6>4, <5>1, <4>1, <2>6 DEF Seen
        <5> QED
          BY <5>2, <5>3
      <4> QED
        BY <4>2, <4>3
    <3> QED
      BY <3>2, <3>3
  <2>9. s.list # <<>>
    BY <2>5, EmptySeq
  <2> QED
    BY <2>1, <2>5, <2>7, <2>8, <2>9 DEF Window, s
<1> QED
  BY <1>2, <1>3

-----------------------------------------------------------------------------
(* The theorems.                                                           *)

LEMMA InitIInv == Init => IInv
<1> SUFFICES ASSUME Init PROVE IInv
  OBVIOUS
<1>1. rec \in Rec /\ rec.list = <<>>
  BY EmptySeq DEF Init, packet_id_init, Rec
<1>2. Len(rec.list) <= SeqBacktrack
  BY <1>1, PacketIdAssumption
<1>3. now \in Nat /\ now >= Start /\ snd \in Pin
  BY DEF Init, Start, SEQ_EXPIRED, Pin
<1> QED
  BY <1>1, <1>2, <1>3 DEF Init, IInv, TypeOK, AcceptOnce

\* Allocating an id yields a packet id.
LEMMA AllocPin ==
  ASSUME NEW s \in Pin, now \in Nat
  PROVE  packet_id_alloc_outgoing(s) \in Pin /\ OnWire(packet_id_alloc_outgoing(s)) \in Pin
<1>1. packet_id_alloc_outgoing(s) \in Pin
  BY PacketIdAssumption DEF packet_id_alloc_outgoing, Pin
<1> QED
  BY <1>1 DEF OnWire, Pin

LEMMA NextIInv == IInv /\ [Next]_vars => IInv'
<1> SUFFICES ASSUME IInv, [Next]_vars PROVE IInv'
  OBVIOUS
<1>1. CASE Encrypt
  <2>1. snd' \in Pin /\ sent' \in SUBSET Pin
    BY <1>1, AllocPin DEF Encrypt, IInv, TypeOK
  <2> QED
    BY <1>1, <2>1 DEF Encrypt, IInv, TypeOK, AcceptOnce, Seen
<1>2. CASE Tick
  BY <1>2 DEF Tick, IInv, TypeOK, AcceptOnce, Seen, Start, SEQ_EXPIRED
<1>3. ASSUME NEW pin \in sent, Decrypt(pin) PROVE IInv'
  <2> DEFINE r == packet_id_reap_test(rec)
             Q == {a.pin : a \in accepted}
  <2>1. now \in Nat /\ now >= Start /\ pin \in Pin /\ Window(rec) /\ Q \in SUBSET Pin
    BY <1>3 DEF IInv, TypeOK, Window
  <2>2. Window(r) /\ Len(r.list) = Len(rec.list)
    BY <2>1, ReapWindow
  <2>3. \A q \in Q : Seen(r, q)
    BY <2>1, ReapSeen DEF IInv
  <2>4. SeqBacktrack # 0 /\ Q # {} => r.list # <<>>
    <3>1. r.list = <<>> => rec.list = <<>>
      BY <2>1, <2>2, EmptySeq DEF Window, Rec
    <3> QED
      BY <3>1 DEF IInv
  <2>5. UNCHANGED <<now, snd, sent>>
    BY <1>3 DEF Decrypt
  <2>6. CASE packet_id_test(r, pin)
    <3>1. /\ rec' = packet_id_add(r, pin)
          /\ replayed' = (replayed \/ \E a \in accepted : a.pin = pin)
          /\ accepted' = accepted \cup {[pin |-> pin, at |-> now]}
      BY <1>3, <2>6 DEF Decrypt
    <3> HIDE DEF r
    <3>2. pin \notin Q
      BY <2>1, <2>2, <2>3, <2>6, SeenRejected
    <3>3. replayed' = FALSE
      BY <3>1, <3>2 DEF IInv, AcceptOnce
    <3> HIDE DEF Q
    <3>4. /\ Window(rec') /\ (SeqBacktrack # 0 => rec'.list # <<>>)
          /\ Seen(rec', pin) /\ \A q \in Q : Seen(rec', q)
      BY <3>1, <2>1, <2>2, <2>3, <2>4, <2>6, AddSeen
    <3>5. \A a \in accepted' : Seen(rec', a.pin)
      BY <3>1, <3>4 DEF Q
    <3>6. accepted' \in SUBSET [pin : Pin, at : Nat]
      BY <3>1, <2>1 DEF IInv, TypeOK
    <3> QED
      BY <2>5, <3>3, <3>4, <3>5, <3>6 DEF IInv, TypeOK, AcceptOnce, Window, Seen
  <2>7. CASE ~ packet_id_test(r, pin)
    <3>1. rec' = r /\ UNCHANGED <<accepted, replayed>>
      BY <1>3, <2>7 DEF Decrypt
    <3> HIDE DEF r
    <3>2. \A a \in accepted : Seen(rec', a.pin)
      BY <3>1, <2>3
    <3> QED
      BY <2>2, <2>4, <2>5, <3>1, <3>2 DEF IInv, TypeOK, AcceptOnce, Window, Seen
  <2> QED
    BY <2>6, <2>7
<1>4. CASE UNCHANGED vars
  BY <1>4 DEF vars, IInv, TypeOK, AcceptOnce, Seen
<1> QED
  BY <1>1, <1>2, <1>3, <1>4 DEF Next

LEMMA IInvCorrect == Spec => []IInv
  BY InitIInv, NextIInv, PTL DEF Spec

\* The window never outgrows the array it is kept in.
THEOREM TypeCorrect == Spec => []TypeOK
<1>1. IInv => TypeOK
  BY DEF IInv
<1> QED
  BY <1>1, IInvCorrect, PTL

\* At-most-once acceptance, for any replay and any order of arrival.
THEOREM AcceptOnceCorrect == Spec => []AcceptOnce
<1>1. IInv => AcceptOnce
  BY DEF IInv
<1> QED
  BY <1>1, IInvCorrect, PTL

-----------------------------------------------------------------------------
(* The window: what its slots say of the packets accepted.                 *)

\* A slot is open, expired, or has the time at which its id was accepted; an accepted id
\* has its own time in its slot; below an expired slot all are expired; and what the last
\* reaping left is not older than the time window.
WindowOK(r, acc) ==
  /\ Len(r.list) = SmallerOf(r.id, SeqBacktrack)
  /\ \A i \in 1 .. Len(r.list) :
       \/ r.list[i] \in {SEQ_UNSEEN, SEQ_EXPIRED}
       \/ \E a \in acc : a.at = r.list[i] /\ a.pin = [id |-> r.id - i + 1, time |-> r.time]
  /\ \A a \in acc : a.pin.time = r.time /\ a.pin.id <= r.id /\ r.id - a.pin.id < Len(r.list) =>
       r.list[r.id - a.pin.id + 1] \in {SEQ_EXPIRED, a.at}
  /\ \A i, j \in 1 .. Len(r.list) : i < j /\ r.list[i] = SEQ_EXPIRED => r.list[j] = SEQ_EXPIRED
  /\ TimeBacktrack # 0 =>
       \A i \in 1 .. Len(r.list) : r.list[i] > SEQ_EXPIRED => r.lastReap <= r.list[i] + TimeBacktrack

WInv ==
  /\ IInv
  /\ SeqBacktrack # 0 => WindowOK(rec, accepted)
  /\ rec.lastReap <= now
  /\ \A a \in accepted : Start <= a.at /\ a.at <= now
  /\ \A pin \in sent : pin.id # 0
  /\ TimeBacktrackBound

Accepts == SUBSET [pin : Pin, at : Nat]

\* Reaping keeps the window in order, and is never further back than its interval.
LEMMA ReapOK ==
  ASSUME NEW r, Window(r), now \in Nat, r.lastReap <= now, SeqBacktrack # 0,
         NEW acc \in Accepts, WindowOK(r, acc)
  PROVE  LET s == packet_id_reap_test(r)
         IN  WindowOK(s, acc) /\ s.lastReap <= now /\ now < s.lastReap + ReapInterval
<1> DEFINE s == packet_id_reap_test(r)
           n == Len(r.list)
           Old(t)    == t > SEQ_EXPIRED /\ t + TimeBacktrack < now
           Expire(i) == /\ \E j \in 1 .. i : Old(r.list[j])
                        /\ \A j \in 1 .. i : r.list[j] # SEQ_EXPIRED
<1>1. /\ s.time = r.time /\ s.id = r.id /\ Len(s.list) = n /\ Window(s)
      /\ \A i \in 1 .. n : s.list[i] = r.list[i] \/ s.list[i] = SEQ_EXPIRED
  BY ReapWindow
<1>2. n \in Nat /\ r.list \in [1 .. n -> Nat] /\ r.lastReap \in Nat /\ ReapInterval \in Nat \ {0}
      /\ TimeBacktrack \in Nat
  BY LenProperties, PacketIdAssumption DEF Window, Rec
<1>3. CASE ~(r.lastReap + ReapInterval <= now)
  BY <1>2, <1>3 DEF packet_id_reap_test
<1>4. CASE r.lastReap + ReapInterval <= now
  <2>1. s = packet_id_reap(r)
    BY <1>4 DEF packet_id_reap_test
  <2>2. s.lastReap = now
    BY <2>1 DEF packet_id_reap, Window, Rec
  <2>3. TimeBacktrack # 0 => s.list = [i \in 1 .. n |-> IF Expire(i) THEN SEQ_EXPIRED ELSE r.list[i]]
    BY <2>1 DEF packet_id_reap, Window, Rec
  <2>4. TimeBacktrack = 0 => s.list = r.list
    BY <2>1 DEF packet_id_reap, Window, Rec
  <2>5. TimeBacktrack # 0 => \A i \in 1 .. n : s.list[i] = IF Expire(i) THEN SEQ_EXPIRED ELSE r.list[i]
    BY <2>3
  <2> HIDE DEF s
  <2>6. \A i, j \in 1 .. n : i < j /\ r.list[i] = SEQ_EXPIRED => r.list[j] = SEQ_EXPIRED
    BY DEF WindowOK
  <2>7. ASSUME NEW i \in 1 .. n, NEW j \in 1 .. n, i < j, s.list[i] = SEQ_EXPIRED
        PROVE  s.list[j] = SEQ_EXPIRED
    <3>1. CASE r.list[i] = SEQ_EXPIRED
      BY <1>1, <2>6, <2>7, <3>1
    <3>2. CASE r.list[i] # SEQ_EXPIRED /\ TimeBacktrack # 0
      <4>1. Expire(i)
        BY <2>5, <2>7, <3>2
      <4>2. PICK k \in 1 .. i : Old(r.list[k])
        BY <4>1
      <4>3. k \in 1 .. j
        BY <2>7
      <4>4. CASE \A m \in 1 .. j : r.list[m] # SEQ_EXPIRED
        <5>1. Expire(j)
          BY <4>2, <4>3, <4>4
        <5> HIDE DEF Expire
        <5> QED
          BY <5>1, <2>5, <3>2
      <4>5. CASE \E m \in 1 .. j : r.list[m] = SEQ_EXPIRED
        <5>1. PICK m \in 1 .. j : r.list[m] = SEQ_EXPIRED
          BY <4>5
        <5>2. r.list[j] = SEQ_EXPIRED
          BY <5>1, <2>6
        <5> QED
          BY <5>2, <1>1
      <4> QED
        BY <4>4, <4>5
    <3>3. CASE TimeBacktrack = 0
      BY <2>4, <2>6, <2>7, <3>3
    <3> QED
      BY <3>1, <3>2, <3>3
  <2>8. ASSUME TimeBacktrack # 0, NEW i \in 1 .. n, s.list[i] > SEQ_EXPIRED
        PROVE  now <= s.list[i] + TimeBacktrack
    <3>1. ~Expire(i) /\ s.list[i] = r.list[i]
      BY <2>5, <2>8 DEF SEQ_EXPIRED
    <3>2. \A j \in 1 .. i : r.list[j] # SEQ_EXPIRED
      <4> SUFFICES ASSUME NEW j \in 1 .. i, r.list[j] = SEQ_EXPIRED PROVE FALSE
        OBVIOUS
      <4>1. r.list[i] = SEQ_EXPIRED
        BY <2>6, <2>8
      <4> QED
        BY <4>1, <3>1, <2>8 DEF SEQ_EXPIRED
    <3>3. ~Old(r.list[i])
      BY <3>1, <3>2
    <3>4. r.list[i] \in Nat
      BY <1>2
    <3> QED
      BY <3>1, <3>3, <3>4, <2>8, <1>2
  <2>9. \A i \in 1 .. n :
          \/ s.list[i] \in {SEQ_UNSEEN, SEQ_EXPIRED}
          \/ \E a \in acc : a.at = s.list[i] /\ a.pin = [id |-> r.id - i + 1, time |-> r.time]
    BY <1>1 DEF WindowOK
  <2>10. ASSUME NEW a \in acc, a.pin.time = r.time, a.pin.id <= r.id, r.id - a.pin.id < n
         PROVE  s.list[r.id - a.pin.id + 1] \in {SEQ_EXPIRED, a.at}
    <3>1. a.pin.id \in Nat /\ r.id \in Nat
      BY DEF Accepts, Pin, Window, Rec
    <3>2. r.id - a.pin.id + 1 \in 1 .. n
      BY <1>2, <2>10, <3>1
    <3>3. r.list[r.id - a.pin.id + 1] \in {SEQ_EXPIRED, a.at}
      BY <2>10 DEF WindowOK
    <3> QED
      BY <1>1, <3>2, <3>3
  <2> QED
    BY <1>1, <1>2, <2>2, <2>7, <2>8, <2>9, <2>10 DEF WindowOK, s
<1> QED
  BY <1>3, <1>4

\* A slot i of a window with n slots pushed above k old ones.
LEMMA OldSlot ==
  ASSUME NEW a \in Nat, NEW b \in Nat, NEW n \in Nat, NEW k \in Nat, NEW m \in Nat,
         a = b + n, m <= n + k, NEW i \in 1 .. m, ~(i <= n)
  PROVE  i - n \in 1 .. k /\ b - (i - n) + 1 = a - i + 1
  OBVIOUS
LEMMA TwoSlots ==
  ASSUME NEW a \in Nat, NEW b \in Nat, NEW c \in Nat, NEW n \in Nat, b <= a, c < b, a - c < n
  PROVE  /\ a - b + 1 \in 1 .. n /\ a - c + 1 \in 1 .. n
         /\ a - b + 1 < a - c + 1 /\ a - b < n
  OBVIOUS
LEMMA OtherSlot ==
  ASSUME NEW a \in Int, NEW b \in Int, NEW c \in Int
  PROVE  /\ c # a - b + 1 => a - c + 1 # b
         /\ c # b => a - c + 1 # a - b + 1
  OBVIOUS

\* Adding a packet that passed the test keeps the window in order.
LEMMA AddOK ==
  ASSUME NEW r, Window(r), NEW pin \in Pin, packet_id_test(r, pin), now \in Nat, now >= Start,
         r.lastReap <= now, SeqBacktrack # 0,
         NEW acc \in Accepts, WindowOK(r, acc), \A a \in acc : Seen(r, a.pin)
  PROVE  WindowOK(packet_id_add(r, pin), acc \cup {[pin |-> pin, at |-> now]})
<1> DEFINE s == packet_id_add(r, pin)
           new == [pin |-> pin, at |-> now]
           fresh == NewSequence(r, pin)
           old  == IF NewSequence(r, pin) THEN <<>> ELSE r.list
           base == IF NewSequence(r, pin) THEN SequenceBase(pin) ELSE r.id
           top  == IF base < pin.id THEN pin.id ELSE base
           n    == top - base
<1>1. r.id \in Nat /\ r.time \in Nat /\ pin.id \in Nat /\ pin.time \in Nat
      /\ r.list \in Seq(Nat) /\ Len(r.list) \in Nat /\ Len(r.list) <= SeqBacktrack
      /\ r.lastReap \in Nat /\ SeqBacktrack \in Nat /\ pin.id # 0
      /\ pin.time >= r.time /\ TimeBacktrack \in Nat
  BY PacketIdAssumption, LenProperties DEF Window, Rec, Pin, packet_id_test
<1>2. /\ s \in Rec
      /\ s.time = IF fresh THEN pin.time ELSE r.time
      /\ s.id = top
      /\ Len(s.list) = SmallerOf(n + Len(old), SeqBacktrack)
      /\ \A i \in 1 .. Len(s.list) :
           s.list[i] = IF i = top - pin.id + 1 THEN now
                       ELSE IF i <= n THEN SEQ_UNSEEN
                       ELSE old[i - n]
  BY AddFields
<1>3. s.lastReap = r.lastReap
  BY DEF packet_id_add, Window, Rec
<1> HIDE DEF s
<1>4. base \in Nat /\ top \in Nat /\ base <= top /\ pin.id <= top /\ n \in Nat
  BY <1>1 DEF SequenceBase
<1>5. fresh => /\ Len(old) = 0 /\ top = pin.id
               /\ base = IF pin.id > SeqBacktrack THEN pin.id - SeqBacktrack ELSE 0
  BY <1>1, EmptySeq DEF SequenceBase
<1>6. ~fresh => old = r.list /\ base = r.id /\ r.time = pin.time
  BY <1>1 DEF NewSequence
<1>7. fresh => \A a \in acc : a.pin.time # pin.time \/ pin.id - a.pin.id >= SeqBacktrack \/ r.id = 0
  <2> SUFFICES ASSUME fresh, NEW a \in acc, a.pin.time = pin.time, r.id # 0
               PROVE  pin.id - a.pin.id >= SeqBacktrack
    OBVIOUS
  <2>1. a.pin \in Pin /\ a.pin.id \in Nat /\ a.pin.time \in Nat
    BY DEF Accepts, Pin
  <2>2. Len(r.list) # 0
    BY <1>1 DEF WindowOK, SmallerOf
  <2>3. r.list # <<>>
    BY <2>2
  <2>4. a.pin.time = r.time /\ a.pin.id <= r.id
    BY <1>1, <2>1 DEF Seen
  <2>5. pin.id >= SeqBacktrack /\ pin.id - SeqBacktrack > r.id
    BY <1>1, <2>1, <2>3, <2>4 DEF NewSequence
  <2> QED
    BY <1>1, <2>1, <2>4, <2>5
<1> HIDE DEF fresh, old, base, top
<1>n. n \in Nat /\ top = base + n
  BY <1>4
<1> HIDE DEF n
<1>8. s.time = pin.time /\ s.id = top /\ top \in Nat
  BY <1>2, <1>4, <1>6
<1>9. Len(s.list) = SmallerOf(s.id, SeqBacktrack)
  <2>1. CASE fresh
    BY <2>1, <1>1, <1>2, <1>4, <1>5, <1>n DEF SmallerOf
  <2>2. CASE ~fresh
    <3>1. Len(r.list) = SmallerOf(r.id, SeqBacktrack)
      BY DEF WindowOK
    <3>2. Len(s.list) = SmallerOf(n + Len(r.list), SeqBacktrack) /\ s.id = r.id + n
      BY <1>2, <1>6, <1>n, <2>2
    <3>3. SmallerOf(n + SmallerOf(r.id, SeqBacktrack), SeqBacktrack) = SmallerOf(r.id + n, SeqBacktrack)
      BY <1>1, <1>n DEF SmallerOf
    <3> QED
      BY <3>1, <3>2, <3>3
  <2> QED
    BY <2>1, <2>2
<1>10. Len(s.list) \in Nat /\ Len(s.list) <= n + Len(old) /\ Len(s.list) <= s.id
  BY <1>1, <1>2, <1>4, <1>5, <1>6, <1>8, <1>9, <1>n DEF SmallerOf
\* Where a slot of the new window comes from.
<1>11. ASSUME NEW i \in 1 .. Len(s.list)
       PROVE  \/ s.id - i + 1 = pin.id /\ s.list[i] = now
              \/ s.id - i + 1 # pin.id /\ s.list[i] = SEQ_UNSEEN
              \/ /\ ~fresh /\ i - n \in 1 .. Len(r.list) /\ s.id - i + 1 # pin.id
                 /\ s.list[i] = r.list[i - n] /\ r.id - (i - n) + 1 = s.id - i + 1
  <2>1. CASE i = top - pin.id + 1
    <3>1. s.list[i] = now
      BY <2>1, <1>2
    <3>2. s.id - i + 1 = pin.id
      <4>1. s.id \in Int /\ pin.id \in Int /\ i = s.id - pin.id + 1
        BY <2>1, <1>1, <1>8
      <4> QED
        BY ONLY <4>1
    <3> QED
      BY <3>1, <3>2
  <2>2. CASE i # top - pin.id + 1 /\ i <= n
    <3>1. s.list[i] = SEQ_UNSEEN
      BY <2>2, <1>2
    <3>2. s.id - i + 1 # pin.id
      BY <2>2, <1>1, <1>8
    <3> QED
      BY <3>1, <3>2
  <2>3. CASE i # top - pin.id + 1 /\ ~(i <= n)
    <3>1. ~fresh
      BY <2>3, <1>4, <1>5, <1>10, <1>n
    <3>2. s.list[i] = r.list[i - n]
      BY <2>3, <3>1, <1>2, <1>6
    <3>3. base = r.id /\ old = r.list
      BY <3>1, <1>6
    <3>4. i - n \in 1 .. Len(r.list) /\ s.id - i + 1 # pin.id /\ r.id - (i - n) + 1 = s.id - i + 1
      <4>1. s.id = r.id + n /\ s.id \in Nat /\ n \in Nat /\ r.id \in Nat /\ pin.id \in Nat
            /\ Len(s.list) <= n + Len(r.list) /\ Len(s.list) \in Nat /\ Len(r.list) \in Nat
        BY <3>3, <1>1, <1>8, <1>10, <1>n
      <4>2. i - n \in 1 .. Len(r.list) /\ r.id - (i - n) + 1 = s.id - i + 1
        BY ONLY <4>1, <2>3, OldSlot, i \in 1 .. Len(s.list)
      <4>3. s.id - i + 1 # pin.id
        <5>1. s.id \in Int /\ pin.id \in Int /\ i \in Int /\ i # s.id - pin.id + 1
          BY <4>1, <2>3, <1>8
        <5> QED
          BY ONLY <5>1, OtherSlot
      <4> QED
        BY <4>2, <4>3
    <3> QED
      BY <2>3, <3>1, <3>2, <3>4
  <2> QED
    BY <2>1, <2>2, <2>3
<1>12. ASSUME NEW i \in 1 .. Len(s.list)
       PROVE  \/ s.list[i] \in {SEQ_UNSEEN, SEQ_EXPIRED}
              \/ \E a \in acc \cup {new} : a.at = s.list[i] /\ a.pin = [id |-> s.id - i + 1, time |-> s.time]
  <2>1. CASE s.id - i + 1 = pin.id /\ s.list[i] = now
    <3>1. pin = [id |-> s.id - i + 1, time |-> s.time]
      BY <2>1, <1>8 DEF Pin
    <3>2. new \in acc \cup {new} /\ new.at = s.list[i] /\ new.pin = [id |-> s.id - i + 1, time |-> s.time]
      BY <2>1, <3>1
    <3> QED
      BY <3>2
  <2>2. CASE s.list[i] = SEQ_UNSEEN
    BY <2>2
  <2>3. CASE /\ ~fresh /\ i - n \in 1 .. Len(r.list)
             /\ s.list[i] = r.list[i - n] /\ r.id - (i - n) + 1 = s.id - i + 1
    <3>1. \/ r.list[i - n] \in {SEQ_UNSEEN, SEQ_EXPIRED}
          \/ \E a \in acc : a.at = r.list[i - n] /\ a.pin = [id |-> r.id - (i - n) + 1, time |-> r.time]
      BY <2>3 DEF WindowOK
    <3>2. s.time = r.time
      BY <2>3, <1>6, <1>8
    <3> QED
      BY <2>3, <3>1, <3>2
  <2> QED
    BY <1>11, <2>1, <2>2, <2>3
<1>13. ASSUME NEW a \in acc \cup {new}, a.pin.time = s.time, a.pin.id <= s.id, s.id - a.pin.id < Len(s.list)
       PROVE  s.list[s.id - a.pin.id + 1] \in {SEQ_EXPIRED, a.at}
  <2> DEFINE i == s.id - a.pin.id + 1
  <2>1. a.pin \in Pin /\ a.pin.id \in Nat /\ a.pin.time \in Nat
    BY DEF Accepts, Pin
  <2>2. i \in 1 .. Len(s.list) /\ s.id - i + 1 = a.pin.id
    <3>1. s.id \in Nat /\ Len(s.list) \in Nat
      BY <1>8, <1>10
    <3> QED
      BY <1>13, <2>1, <3>1
  <2>3. CASE a = new
    BY <2>2, <2>3, <1>2, <1>8
  <2>4. CASE a \in acc
    <3>1. a.pin # pin
      BY <2>4, SeenRejected
    <3>2. a.pin.id # pin.id
      BY <3>1, <1>8, <1>13, <2>1 DEF Pin
    <3>3. Seen(r, a.pin)
      BY <2>4
    <3>4. ~fresh
      <4> SUFFICES ASSUME fresh PROVE FALSE
        OBVIOUS
      <4>1. r.id # 0
        <5>1. a.pin.time = r.time /\ a.pin.id <= r.id
          BY <1>1, <1>8, <1>13, <2>1, <3>3 DEF Seen
        <5>2. a.pin.id # 0
          BY <1>8, <1>10, <1>13, <2>1
        <5> QED
          BY <5>1, <5>2, <1>1, <2>1
      <4>2. pin.id - a.pin.id >= SeqBacktrack
        BY <1>7, <1>8, <1>13, <2>4, <4>1
      <4>3. s.id = pin.id /\ Len(s.list) <= SeqBacktrack
        BY <1>1, <1>5, <1>8, <1>9 DEF SmallerOf
      <4> QED
        BY <4>2, <4>3, <1>1, <1>10, <1>13, <2>1
    <3>5. a.pin.time = r.time /\ a.pin.id <= r.id
      BY <1>1, <1>6, <1>8, <1>13, <2>1, <3>3, <3>4 DEF Seen
    <3>6. base = r.id /\ old = r.list
      BY <3>4, <1>6
    <3>7. ~(i <= n) /\ i # top - pin.id + 1 /\ i - n = r.id - a.pin.id + 1 /\ r.id - a.pin.id < Len(r.list)
      <4>1. top = r.id + n /\ s.id = top /\ Len(s.list) <= n + Len(r.list) /\ Len(s.list) \in Nat
        BY <3>6, <1>8, <1>10, <1>n
      <4>2. s.id - a.pin.id < Len(s.list) /\ a.pin.id <= r.id /\ a.pin.id # pin.id
        BY <1>13, <3>2, <3>5
      <4> QED
        <5>1. s.id \in Nat /\ r.id \in Nat /\ n \in Nat /\ Len(r.list) \in Nat /\ a.pin.id \in Nat /\ pin.id \in Nat
              /\ s.id = r.id + n
          BY <4>1, <1>1, <1>8, <1>n, <2>1
        <5>2. /\ ~(s.id - a.pin.id + 1 <= n) /\ (s.id - a.pin.id + 1) - n = r.id - a.pin.id + 1
              /\ r.id - a.pin.id < Len(r.list)
          <6> DEFINE a1 == s.id
                     b1 == r.id
                     c1 == a.pin.id
                     k1 == Len(r.list)
                     m1 == Len(s.list)
          <6>1. /\ a1 \in Nat /\ b1 \in Nat /\ c1 \in Nat /\ k1 \in Nat /\ m1 \in Nat /\ n \in Nat
                /\ a1 = b1 + n /\ m1 <= n + k1 /\ a1 - c1 < m1 /\ c1 <= b1
            BY <4>1, <4>2, <5>1
          <6> HIDE DEF a1, b1, c1, k1, m1
          <6>2. ~(a1 - c1 + 1 <= n) /\ (a1 - c1 + 1) - n = b1 - c1 + 1 /\ b1 - c1 < k1
            BY ONLY <6>1
          <6> QED
            BY <6>2 DEF a1, b1, c1, k1, m1
        <5>3. s.id - a.pin.id + 1 # top - pin.id + 1
          <6>1. s.id \in Int /\ pin.id \in Int /\ a.pin.id \in Int /\ s.id = top
            BY <5>1, <4>1
          <6> QED
            BY ONLY <6>1, <4>2, OtherSlot
        <5> QED
          BY <5>2, <5>3
    <3>8. s.list[i] = r.list[r.id - a.pin.id + 1]
      BY <3>6, <3>7, <2>2, <1>2
    <3>9. r.list[r.id - a.pin.id + 1] \in {SEQ_EXPIRED, a.at}
      BY <2>4, <3>5, <3>7 DEF WindowOK
    <3> QED
      BY <3>8, <3>9
  <2> QED
    BY <2>3, <2>4
<1>14. ASSUME NEW i \in 1 .. Len(s.list), NEW j \in 1 .. Len(s.list), i < j, s.list[i] = SEQ_EXPIRED
       PROVE  s.list[j] = SEQ_EXPIRED
  <2>1. now # SEQ_EXPIRED /\ SEQ_UNSEEN # SEQ_EXPIRED
    BY DEF Start, SEQ_EXPIRED, SEQ_UNSEEN
  <2>2. ~fresh /\ i - n \in 1 .. Len(r.list) /\ r.list[i - n] = SEQ_EXPIRED
    BY <1>11, <1>14, <2>1
  <2>3. old = r.list /\ base = r.id /\ r.time = pin.time
    BY <1>6, <2>2
  <2>4. ~(j <= n) /\ j - n \in 1 .. Len(r.list) /\ i - n < j - n
    <3>1. s.id = r.id + n /\ s.id \in Nat /\ n \in Nat /\ r.id \in Nat
          /\ Len(s.list) <= n + Len(r.list) /\ Len(s.list) \in Nat /\ Len(r.list) \in Nat
      BY <2>3, <1>1, <1>8, <1>10, <1>n
    <3>2. ~(j <= n) /\ i - n < j - n
      BY ONLY <3>1, <2>2, <1>14, i \in 1 .. Len(s.list), j \in 1 .. Len(s.list)
    <3> QED
      BY ONLY <3>1, <3>2, OldSlot, j \in 1 .. Len(s.list)
  <2>5. r.list[j - n] = SEQ_EXPIRED
    BY <2>2, <2>4 DEF WindowOK
  <2>6. j # top - pin.id + 1
    <3> SUFFICES ASSUME j = top - pin.id + 1 PROVE FALSE
      OBVIOUS
    <3>1. pin.id <= r.id /\ j - n = r.id - pin.id + 1
      <4>1. top = r.id + n /\ n \in Nat /\ r.id \in Nat /\ pin.id \in Nat
        BY <2>3, <1>1, <1>n
      <4> QED
        BY ONLY <4>1, <2>4, j = top - pin.id + 1, j \in Nat, SMTT(30)
    <3>2. r.list[r.id - pin.id + 1] = SEQ_UNSEEN
      BY <2>3, <3>1, <1>1 DEF packet_id_test
    <3> QED
      BY <2>1, <2>5, <3>1, <3>2
  <2> QED
    BY <1>2, <2>3, <2>4, <2>5, <2>6
<1>15. ASSUME TimeBacktrack # 0, NEW i \in 1 .. Len(s.list), s.list[i] > SEQ_EXPIRED
       PROVE  s.lastReap <= s.list[i] + TimeBacktrack
  <2>1. CASE s.list[i] = now
    BY <2>1, <1>1, <1>3
  <2>2. CASE i - n \in 1 .. Len(r.list) /\ s.list[i] = r.list[i - n]
    BY <2>2, <1>3, <1>15 DEF WindowOK
  <2> QED
    BY <1>11, <1>15, <2>1, <2>2 DEF SEQ_UNSEEN, SEQ_EXPIRED
<1>16. WindowOK(s, acc \cup {new})
  BY <1>9, <1>12, <1>13, <1>14, <1>15 DEF WindowOK
<1> QED
  BY <1>16 DEF s

\* Reaping was at most ReapInterval ago whenever packet_id_test runs.
LEMMA ReapTime ==
  ASSUME NEW r, Window(r), now \in Nat, r.lastReap <= now
  PROVE  LET s == packet_id_reap_test(r)
         IN  s.lastReap <= now /\ now < s.lastReap + ReapInterval /\ s.lastReap \in Nat
<1>1. r.lastReap \in Nat /\ ReapInterval \in Nat \ {0}
  BY PacketIdAssumption DEF Window, Rec
<1>2. r.lastReap + ReapInterval <= now => packet_id_reap_test(r).lastReap = now
  BY DEF packet_id_reap_test, packet_id_reap, Window, Rec
<1>3. ~(r.lastReap + ReapInterval <= now) => packet_id_reap_test(r) = r
  BY DEF packet_id_reap_test
<1> QED
  BY <1>1, <1>2, <1>3

\* A packet that passes below an accepted one has a slot under that one's: the stamp above
\* it did not expire, so it is younger than the time window and a reaping interval.
LEMMA BoundOK ==
  ASSUME NEW r, Window(r), NEW pin \in Pin, packet_id_test(r, pin), now \in Nat,
         now < r.lastReap + ReapInterval, TimeBacktrack # 0,
         NEW acc \in Accepts, SeqBacktrack # 0 => WindowOK(r, acc),
         NEW b \in acc, Seen(r, b.pin), Start <= b.at,
         b.pin.time = pin.time, pin.id < b.pin.id
  PROVE  now <= b.at + TimeBacktrack + (ReapInterval - 1)
<1>1. r.id \in Nat /\ r.time \in Nat /\ pin.id \in Nat /\ pin.time \in Nat
      /\ r.list \in [1 .. Len(r.list) -> Nat] /\ Len(r.list) \in Nat
      /\ r.lastReap \in Nat /\ SeqBacktrack \in Nat /\ TimeBacktrack \in Nat /\ ReapInterval \in Nat
  BY PacketIdAssumption, LenProperties DEF Window, Rec, Pin
<1>2. b.pin \in Pin /\ b.pin.id \in Nat /\ b.pin.time \in Nat /\ b.at \in Nat
  BY DEF Accepts, Pin
<1>3. pin.time = r.time /\ b.pin.id <= r.id
  BY <1>1, <1>2 DEF Seen, packet_id_test
<1>4. /\ SeqBacktrack # 0 /\ r.id - pin.id < Len(r.list)
      /\ r.list[r.id - pin.id + 1] = SEQ_UNSEEN
  BY <1>1, <1>2, <1>3 DEF packet_id_test
<1> DEFINE i == r.id - b.pin.id + 1
           j == r.id - pin.id + 1
<1>5. i \in 1 .. Len(r.list) /\ j \in 1 .. Len(r.list) /\ i < j /\ r.id - b.pin.id < Len(r.list)
  BY <1>1, <1>2, <1>3, <1>4, TwoSlots
<1>6. r.list[i] \in {SEQ_EXPIRED, b.at}
  BY <1>3, <1>4, <1>5 DEF WindowOK
<1>7. r.list[j] = SEQ_UNSEEN
  BY <1>4
<1> HIDE DEF i, j
<1>8. r.list[i] # SEQ_EXPIRED
  <2> SUFFICES ASSUME r.list[i] = SEQ_EXPIRED PROVE FALSE
    OBVIOUS
  <2>1. r.list[j] = SEQ_EXPIRED
    BY <1>4, <1>5 DEF WindowOK
  <2> QED
    BY <1>7, <2>1 DEF SEQ_EXPIRED, SEQ_UNSEEN
<1>9. r.list[i] = b.at /\ r.list[i] > SEQ_EXPIRED
  BY <1>2, <1>6, <1>8 DEF Start, SEQ_EXPIRED
<1>10. r.lastReap <= r.list[i] + TimeBacktrack
  BY <1>4, <1>5, <1>9 DEF WindowOK
<1> QED
  BY <1>1, <1>2, <1>9, <1>10

LEMMA InitWInv == Init => WInv
<1> SUFFICES ASSUME Init PROVE WInv
  OBVIOUS
<1>1. IInv
  BY InitIInv
<1>2. rec.list = <<>> /\ rec.id = 0 /\ rec.lastReap = 0 /\ Len(rec.list) = 0
      /\ accepted = {} /\ sent = {} /\ now \in Nat
  BY DEF Init, packet_id_init, Start, SEQ_EXPIRED
<1>3. Len(rec.list) = SmallerOf(rec.id, SeqBacktrack)
  BY <1>2, PacketIdAssumption DEF SmallerOf
<1>4. 1 .. Len(rec.list) = {}
  BY <1>2
<1>5. WindowOK(rec, accepted)
  BY <1>2, <1>3, <1>4 DEF WindowOK
<1> QED
  BY <1>1, <1>2, <1>5 DEF WInv, TimeBacktrackBound, AcceptedWithin

\* An accepted packet leaves the bound on lateness true.
LEMMA AcceptBound ==
  ASSUME TimeBacktrackBound, accepted \in Accepts, now \in Nat, NEW pin \in Pin,
         \A a \in accepted : a.at <= now,
         TimeBacktrack # 0 => \A b \in accepted : b.pin.time = pin.time /\ pin.id < b.pin.id =>
            now <= b.at + TimeBacktrack + (ReapInterval - 1),
         accepted' = accepted \cup {[pin |-> pin, at |-> now]}
  PROVE  TimeBacktrackBound'
<1> SUFFICES ASSUME TimeBacktrack # 0, NEW a \in accepted', NEW b \in accepted',
                    a.pin.time = b.pin.time, a.pin.id < b.pin.id, b.at <= a.at
             PROVE  a.at <= b.at + TimeBacktrack + (ReapInterval - 1)
  BY DEF TimeBacktrackBound, AcceptedWithin
<1> DEFINE new == [pin |-> pin, at |-> now]
<1>1. TimeBacktrack \in Nat /\ ReapInterval \in Nat \ {0} /\ pin.id \in Nat
  BY PacketIdAssumption DEF Pin
<1>2. \A c \in accepted : c.at \in Nat
  BY DEF Accepts
<1>3. CASE a \in accepted /\ b \in accepted
  BY <1>3 DEF TimeBacktrackBound, AcceptedWithin
<1>4. CASE a = new /\ b \in accepted
  <2>1. a.at = now /\ a.pin = pin
    BY <1>4
  <2> QED
    BY <1>4, <2>1
<1>5. CASE a \in accepted /\ b = new
  <2>1. b.at = now /\ a.at \in Nat /\ a.at <= now
    BY <1>2, <1>5
  <2> QED
    BY <2>1, <1>1
<1>6. CASE a = new /\ b = new
  BY <1>1, <1>6
<1> QED
  BY <1>3, <1>4, <1>5, <1>6

LEMMA NextWInv == WInv /\ [Next]_vars => WInv'
<1> SUFFICES ASSUME WInv, [Next]_vars PROVE WInv'
  OBVIOUS
<1>1. IInv'
  BY NextIInv DEF WInv
<1>2. /\ now \in Nat /\ now >= Start /\ rec \in Rec /\ Window(rec) /\ accepted \in Accepts
      /\ sent \in SUBSET Pin /\ snd \in Pin /\ rec.lastReap \in Nat
  BY DEF WInv, IInv, TypeOK, Window, Accepts, Rec
<1>3. CASE Encrypt
  <2>1. snd'.id # 0 /\ OnWire(snd').id = snd'.id
    <3>1. snd' = packet_id_alloc_outgoing(snd) /\ snd' \in Pin
      BY <1>2, <1>3, AllocPin DEF Encrypt
    <3> QED
      BY <3>1 DEF packet_id_alloc_outgoing, OnWire, Pin
  <2>2. \A pin \in sent' : pin.id # 0
    BY <1>3, <2>1 DEF Encrypt, WInv
  <2> QED
    BY <1>1, <1>3, <2>2 DEF Encrypt, WInv, WindowOK, TimeBacktrackBound, AcceptedWithin
<1>4. CASE Tick
  <2>1. now' = now + 1 /\ UNCHANGED <<snd, rec, sent, accepted, replayed>>
    BY <1>4 DEF Tick
  <2>2. \A a \in accepted : a.at \in Nat
    BY <1>2 DEF Accepts
  <2>3. rec'.lastReap <= now' /\ \A a \in accepted' : Start <= a.at /\ a.at <= now'
    BY <1>2, <2>1, <2>2 DEF WInv
  <2> QED
    BY <1>1, <2>1, <2>3 DEF WInv, WindowOK, TimeBacktrackBound, AcceptedWithin
<1>5. ASSUME NEW pin \in sent, Decrypt(pin) PROVE WInv'
  <2> DEFINE r == packet_id_reap_test(rec)
  <2>1. Window(r) /\ now < r.lastReap + ReapInterval /\ r.lastReap <= now /\ r.lastReap \in Nat
    BY <1>2, ReapWindow, ReapTime DEF WInv
  <2>2. SeqBacktrack # 0 => WindowOK(r, accepted)
    BY <1>2, ReapOK DEF WInv
  <2>3. \A a \in accepted : Seen(r, a.pin) /\ a.pin \in Pin
    <3>1. \A a \in accepted : Seen(rec, a.pin) /\ a.pin \in Pin
      BY <1>2 DEF WInv, IInv, Accepts
    <3> QED
      BY <1>2, <3>1, ReapSeen
  <2>4. UNCHANGED <<now, snd, sent>> /\ pin \in Pin
    BY <1>2, <1>5 DEF Decrypt
  <2>5. CASE ~packet_id_test(r, pin)
    <3>1. rec' = r /\ UNCHANGED <<accepted, replayed>>
      BY <1>5, <2>5 DEF Decrypt
    <3> HIDE DEF r
    <3> QED
      BY <1>1, <2>1, <2>2, <2>4, <3>1 DEF WInv, WindowOK, TimeBacktrackBound, AcceptedWithin
  <2>6. CASE packet_id_test(r, pin)
    <3>1. rec' = packet_id_add(r, pin) /\ accepted' = accepted \cup {[pin |-> pin, at |-> now]}
      BY <1>5, <2>6 DEF Decrypt
    <3> HIDE DEF r
    <3>2. rec'.lastReap = r.lastReap
      BY <2>1, <3>1 DEF packet_id_add, Window, Rec
    <3>3. SeqBacktrack # 0 => WindowOK(rec', accepted')
      BY <1>2, <2>1, <2>2, <2>3, <2>4, <2>6, <3>1, AddOK
    <3>4. TimeBacktrack # 0 => \A b \in accepted : b.pin.time = pin.time /\ pin.id < b.pin.id =>
             now <= b.at + TimeBacktrack + (ReapInterval - 1)
      <4> SUFFICES ASSUME TimeBacktrack # 0, NEW b \in accepted, b.pin.time = pin.time, pin.id < b.pin.id
                   PROVE  now <= b.at + TimeBacktrack + (ReapInterval - 1)
        OBVIOUS
      <4>1. Seen(r, b.pin) /\ Start <= b.at
        BY <2>3 DEF WInv
      <4> QED
        BY <1>2, <2>1, <2>2, <2>4, <2>6, <4>1, BoundOK
    <3>5. TimeBacktrackBound'
      BY <1>2, <2>4, <3>1, <3>4, AcceptBound DEF WInv
    <3>6. \A a \in accepted' : Start <= a.at /\ a.at <= now'
      BY <1>2, <2>4, <3>1 DEF WInv
    <3>7. (SeqBacktrack # 0 => WindowOK(rec, accepted))'
      BY <3>3 DEF WindowOK
    <3> QED
      BY <1>1, <2>1, <2>4, <3>2, <3>5, <3>6, <3>7 DEF WInv
  <2> QED
    BY <2>5, <2>6
<1>6. CASE UNCHANGED vars
  BY <1>1, <1>6 DEF vars, WInv, WindowOK, TimeBacktrackBound, AcceptedWithin
<1> QED
  BY <1>3, <1>4, <1>5, <1>6 DEF Next

\* The slot of a packet in the window that was never accepted is open or expired.
LEMMA CompleteWInv == WInv => WindowComplete
<1> SUFFICES ASSUME WInv, NEW pin \in sent, SeqBacktrack # 0,
                    pin.time = rec.time, pin.id <= rec.id, rec.id - pin.id < SeqBacktrack,
                    \A a \in accepted : a.pin # pin
             PROVE  /\ rec.id - pin.id < Len(rec.list)
                    /\ rec.list[rec.id - pin.id + 1] \in {SEQ_UNSEEN, SEQ_EXPIRED}
  BY DEF WindowComplete
<1>1. pin \in Pin /\ pin.id \in Nat /\ pin.id # 0 /\ rec.id \in Nat /\ SeqBacktrack \in Nat
      /\ Len(rec.list) \in Nat
  BY PacketIdAssumption, LenProperties DEF WInv, IInv, TypeOK, Rec, Pin
<1>2. Len(rec.list) = SmallerOf(rec.id, SeqBacktrack)
  BY DEF WInv, WindowOK
<1>3. rec.id - pin.id < Len(rec.list)
  BY <1>1, <1>2 DEF SmallerOf
<1> DEFINE i == rec.id - pin.id + 1
<1>4. i \in 1 .. Len(rec.list) /\ rec.id - i + 1 = pin.id
  BY <1>1, <1>3
<1>5. pin = [id |-> rec.id - i + 1, time |-> rec.time]
  BY <1>1, <1>4 DEF Pin
<1> HIDE DEF i
<1>6. rec.list[i] \in {SEQ_UNSEEN, SEQ_EXPIRED}
  BY <1>4, <1>5 DEF WInv, WindowOK
<1> QED
  BY <1>3, <1>6 DEF i

LEMMA WInvCorrect == Spec => []WInv
  BY InitWInv, NextWInv, PTL DEF Spec

\* The window refuses no packet it has room for, and accepts none later than --replay-window's
\* t and a reaping interval after one with a higher id.
THEOREM WindowCorrect == Spec => []WindowInv
<1>1. WInv => WindowInv
  BY CompleteWInv DEF WInv, WindowInv
<1> QED
  BY <1>1, WInvCorrect, PTL

-----------------------------------------------------------------------------
(* The replay file, over TCP.                                              *)

\* p's time and id rule q out: q is not above them.
Below(p, q) == q.time < p.time \/ (q.time = p.time /\ q.id <= p.id)

\* Every id up to p's was accepted under p's time stamp.
AllBelow(p, acc) ==
  \A i \in 1 .. p.id : \E b \in acc : b.pin = [id |-> i, time |-> p.time]

\* The receiver, the structure in memory and the file never fall behind what each is to
\* rule out, and none of them is ahead of what was accepted.
PInv ==
  /\ now \in Nat /\ now >= Start /\ snd \in Pin /\ sent \in SUBSET Pin
  /\ rec \in Rec /\ accepted \in Accepts
  /\ pp \in Pin /\ file \in Pin /\ session \in SUBSET Pin /\ covered \in SUBSET Pin
  /\ LongForm => \A pin \in sent : pin.time # 0
  /\ LongForm => pp.time = rec.time /\ pp.id = rec.id
  /\ ~LongForm => pp.time = 0 /\ file.time = 0 /\ covered = {}
  /\ file.time = 0 => file.id = 0
  /\ rec.list = <<>>
  /\ \A q \in session \cup covered : Below(rec, q)
  /\ \A q \in covered : Below(file, q)
  /\ AllBelow(rec, accepted) /\ AllBelow(file, accepted)
  /\ \A a \in accepted : AllBelow(a.pin, accepted)

\* An empty window takes only the packet that follows the last one.
LEMMA StrictTest ==
  ASSUME SeqBacktrack = 0, NEW r \in Rec, NEW pin \in Pin
  PROVE  packet_id_test(r, pin) <=>
           (pin.time > r.time /\ pin.id = 1) \/ (pin.time = r.time /\ pin.id = r.id + 1)
  BY DEF packet_id_test, Rec, Pin

LEMMA StrictAdd ==
  ASSUME SeqBacktrack = 0, NEW r \in Rec, NEW pin \in Pin
  PROVE  LET s == packet_id_add(r, pin)
         IN  s \in Rec /\ s.time = pin.time /\ s.id = pin.id /\ s.list = r.list
  BY DEF packet_id_add, Rec, Pin

LEMMA StrictReap ==
  ASSUME SeqBacktrack = 0, NEW r \in Rec, now \in Nat
  PROVE  LET s == packet_id_reap_test(r)
         IN  s \in Rec /\ s.time = r.time /\ s.id = r.id /\ s.list = r.list
  BY DEF packet_id_reap_test, packet_id_reap, Rec

\* A receiver started from p has p's time and id.
LEMMA LoadFields ==
  ASSUME NEW p \in Pin, p.time = 0 => p.id = 0
  PROVE  LET r == packet_id_persist_load_obj(p)
         IN  r \in Rec /\ r.time = p.time /\ r.id = p.id /\ r.list = <<>>
<1>1. packet_id_init \in Rec
  BY EmptySeq DEF packet_id_init, Rec
<1> QED
  BY <1>1 DEF packet_id_persist_load_obj, packet_id_init, Rec, Pin

\* AllBelow and Below look at time and id only.
LEMMA SameBelow ==
  ASSUME NEW p, NEW q, p.time = q.time, p.id = q.id
  PROVE  /\ \A x : Below(p, x) <=> Below(q, x)
         /\ \A acc : AllBelow(p, acc) <=> AllBelow(q, acc)
  BY DEF Below, AllBelow

LEMMA PInitPInv == PInit /\ SeqBacktrack = 0 => PInv
<1> SUFFICES ASSUME PInit, SeqBacktrack = 0 PROVE PInv
  OBVIOUS
<1>1. rec \in Rec /\ rec.list = <<>> /\ rec.id = 0 /\ rec.time = 0
  BY EmptySeq DEF PInit, Init, packet_id_init, Rec
<1>2. pp \in Pin /\ file \in Pin /\ snd \in Pin /\ now \in Nat /\ now >= Start
      /\ pp.time = 0 /\ pp.id = 0 /\ file.time = 0 /\ file.id = 0
  BY DEF PInit, Init, Pin, Start, SEQ_EXPIRED
<1>3. sent = {} /\ accepted = {} /\ session = {} /\ covered = {}
  BY DEF PInit, Init
<1>4. AllBelow(rec, accepted) /\ AllBelow(file, accepted)
  BY <1>1, <1>2 DEF AllBelow
<1> QED
  BY <1>1, <1>2, <1>3, <1>4 DEF PInv, Accepts

\* packet_id_persist_save brings the file up to the structure in memory.
LEMMA SaveOK ==
  ASSUME PInv, packet_id_persist_save
  PROVE  /\ file' \in Pin /\ covered' \in SUBSET Pin
         /\ file'.time = 0 => file'.id = 0
         /\ ~LongForm => file'.time = 0 /\ covered' = {}
         /\ covered' \subseteq session \cup covered
         /\ \A q \in covered' : Below(file', q)
         /\ AllBelow(file', accepted)
<1>1. CASE pp.time # 0
  <2>1. file' = pp /\ covered' = covered \cup session /\ LongForm
    BY <1>1 DEF packet_id_persist_save, PInv
  <2>2. file'.time = rec.time /\ file'.id = rec.id /\ file'.time # 0
    BY <1>1, <2>1 DEF PInv
  <2>3. (\A x : Below(file', x) <=> Below(rec, x)) /\ (\A acc : AllBelow(file', acc) <=> AllBelow(rec, acc))
    BY <2>2, SameBelow
  <2>4. (\A q \in session \cup covered : Below(rec, q)) /\ AllBelow(rec, accepted)
        /\ pp \in Pin /\ session \in SUBSET Pin /\ covered \in SUBSET Pin
    BY DEF PInv
  <2> QED
    BY <2>1, <2>2, <2>3, <2>4
<1>2. CASE pp.time = 0
  <2>1. file' = file /\ covered' = covered
    BY <1>2 DEF packet_id_persist_save
  <2> QED
    BY <2>1 DEF PInv
<1> QED
  BY <1>1, <1>2

\* A receiver that starts from the file.
LEMMA ReloadOK ==
  ASSUME PInv, UNCHANGED <<now, snd, sent, accepted>>, session' = {}, pp' = file',
         rec' = packet_id_persist_load_obj(pp'),
         file' \in Pin, covered' \in SUBSET Pin, file'.time = 0 => file'.id = 0,
         ~LongForm => file'.time = 0 /\ covered' = {},
         \A q \in covered' : Below(file', q), AllBelow(file', accepted)
  PROVE  PInv'
<1>1. rec' \in Rec /\ rec'.time = file'.time /\ rec'.id = file'.id /\ rec'.list = <<>>
  BY LoadFields
<1>2. (\A x : Below(rec', x) <=> Below(file', x)) /\ (\A acc : AllBelow(rec', acc) <=> AllBelow(file', acc))
  BY <1>1, SameBelow
<1>3. /\ \A q \in session' \cup covered' : Below(rec', q)
      /\ AllBelow(rec', accepted') /\ AllBelow(file', accepted')
  BY <1>2
<1>4. \A a \in accepted' : AllBelow(a.pin, accepted')
  BY DEF PInv
<1> QED
  BY <1>1, <1>3, <1>4 DEF PInv, Below, AllBelow

\* Whatever is accepted next extends the run of ids of its time stamp by one.
LEMMA GrowAll ==
  ASSUME NEW r \in Rec, NEW pin \in Pin, NEW acc \in Accepts, NEW at \in Nat,
         AllBelow(r, acc),
         (pin.time > r.time /\ pin.id = 1) \/ (pin.time = r.time /\ pin.id = r.id + 1)
  PROVE  AllBelow(pin, acc \cup {[pin |-> pin, at |-> at]})
<1> SUFFICES ASSUME NEW i \in 1 .. pin.id
             PROVE  \E b \in acc \cup {[pin |-> pin, at |-> at]} : b.pin = [id |-> i, time |-> pin.time]
  BY DEF AllBelow
<1>1. pin.id \in Nat /\ r.id \in Nat
  BY DEF Pin, Rec
<1>2. CASE i = pin.id
  <2>1. [pin |-> pin, at |-> at].pin = [id |-> i, time |-> pin.time]
    BY <1>2 DEF Pin
  <2> QED
    BY <2>1
<1>3. CASE i # pin.id
  <2>1. pin.time = r.time /\ i \in 1 .. r.id
    BY <1>1, <1>3
  <2> QED
    BY <2>1 DEF AllBelow
<1> QED
  BY <1>2, <1>3

LEMMA AllMono ==
  ASSUME NEW p, NEW acc, NEW more, AllBelow(p, acc), acc \subseteq more
  PROVE  AllBelow(p, more)
  BY DEF AllBelow

LEMMA PNextPInv == SeqBacktrack = 0 /\ PInv /\ [PNext]_pvars => PInv'
<1> SUFFICES ASSUME SeqBacktrack = 0, PInv, [PNext]_pvars PROVE PInv'
  OBVIOUS
<1>1. /\ now \in Nat /\ now >= Start /\ snd \in Pin /\ sent \in SUBSET Pin /\ rec \in Rec
      /\ accepted \in Accepts /\ session \in SUBSET Pin /\ covered \in SUBSET Pin
  BY DEF PInv
<1>2. CASE PEncrypt
  <2>1. snd' = packet_id_alloc_outgoing(snd) /\ snd' \in Pin /\ OnWire(snd') \in Pin
    BY <1>1, <1>2, AllocPin DEF PEncrypt, Encrypt
  <2>2. LongForm => OnWire(snd').time # 0
    <3>1. snd'.time # 0
      BY <1>1, <2>1 DEF packet_id_alloc_outgoing, Start, SEQ_EXPIRED
    <3> QED
      BY <3>1 DEF OnWire
  <2>3. sent' = sent \cup {OnWire(snd')}
        /\ UNCHANGED <<now, rec, accepted, replayed, pp, file, session, covered>>
    BY <1>2 DEF PEncrypt, Encrypt
  <2>4. sent' \in SUBSET Pin /\ (LongForm => \A pin \in sent' : pin.time # 0)
    BY <1>1, <2>1, <2>2, <2>3 DEF PInv
  <2> QED
    BY <2>1, <2>3, <2>4 DEF PInv, Below, AllBelow
<1>3. CASE PTick
  BY <1>3 DEF PTick, Tick, PInv, Below, AllBelow, Start, SEQ_EXPIRED
<1>4. CASE Flush
  <2>1. packet_id_persist_save /\ UNCHANGED <<now, snd, rec, sent, accepted, pp, session>>
    BY <1>4 DEF Flush
  <2>2. /\ file' \in Pin /\ covered' \in SUBSET Pin
        /\ file'.time = 0 => file'.id = 0
        /\ ~LongForm => file'.time = 0 /\ covered' = {}
        /\ covered' \subseteq session \cup covered
        /\ \A q \in covered' : Below(file', q)
        /\ AllBelow(file', accepted)
    BY <2>1, SaveOK
  <2>3. \A q \in session' \cup covered' : Below(rec', q)
    BY <2>1, <2>2 DEF PInv
  <2> QED
    BY <2>1, <2>2, <2>3 DEF PInv, Below, AllBelow
<1>5. CASE Restart
  <2>1. /\ packet_id_persist_save /\ pp' = file' /\ rec' = packet_id_persist_load_obj(pp')
        /\ session' = {} /\ UNCHANGED <<now, snd, sent, accepted>>
    BY <1>5 DEF Restart
  <2>2. /\ file' \in Pin /\ covered' \in SUBSET Pin
        /\ file'.time = 0 => file'.id = 0
        /\ ~LongForm => file'.time = 0 /\ covered' = {}
        /\ \A q \in covered' : Below(file', q)
        /\ AllBelow(file', accepted)
    BY <2>1, SaveOK
  <2> QED
    BY <2>1, <2>2, ReloadOK
<1>6. CASE Crash
  <2>1. /\ pp' = file' /\ rec' = packet_id_persist_load_obj(pp') /\ file' = file /\ covered' = covered
        /\ session' = {} /\ UNCHANGED <<now, snd, sent, accepted>>
    BY <1>6 DEF Crash
  <2>2. /\ file' \in Pin /\ covered' \in SUBSET Pin
        /\ file'.time = 0 => file'.id = 0
        /\ ~LongForm => file'.time = 0 /\ covered' = {}
        /\ \A q \in covered' : Below(file', q)
        /\ AllBelow(file', accepted)
    BY <2>1 DEF PInv
  <2> QED
    BY <2>1, <2>2, ReloadOK
<1>7. ASSUME NEW pin \in sent, PDecrypt(pin) PROVE PInv'
  <2> DEFINE r == packet_id_reap_test(rec)
  <2>1. r \in Rec /\ r.time = rec.time /\ r.id = rec.id /\ r.list = rec.list /\ pin \in Pin
    BY <1>1, StrictReap
  <2>2. (\A x : Below(r, x) <=> Below(rec, x)) /\ (\A acc : AllBelow(r, acc) <=> AllBelow(rec, acc))
    BY <2>1, SameBelow
  <2>3. UNCHANGED <<now, snd, sent, file, covered>>
    BY <1>7 DEF PDecrypt, Decrypt
  <2>4. CASE ~packet_id_test(r, pin)
    <3>1. rec' = r /\ UNCHANGED <<accepted, pp, session>>
      BY <1>7, <2>4 DEF PDecrypt, Decrypt
    <3> HIDE DEF r
    <3>2. rec' \in Rec /\ rec'.time = rec.time /\ rec'.id = rec.id /\ rec'.list = <<>>
      BY <2>1, <3>1 DEF PInv
    <3>3. (\A q \in session' \cup covered' : Below(rec', q)) /\ AllBelow(rec', accepted')
      BY <2>2, <2>3, <3>1 DEF PInv
    <3> QED
      BY <2>3, <3>1, <3>2, <3>3 DEF PInv, Below, AllBelow
  <2>5. CASE packet_id_test(r, pin)
    <3> DEFINE more == accepted \cup {[pin |-> pin, at |-> now]}
    <3>1. /\ rec' = packet_id_add(r, pin) /\ session' = session \cup {pin}
          /\ accepted' = more
          /\ pp' = IF LongForm /\ rec'.time # 0 THEN [time |-> rec'.time, id |-> rec'.id] ELSE pp
      BY <1>7, <2>5 DEF PDecrypt, Decrypt
    <3>2. rec' \in Rec /\ rec'.time = pin.time /\ rec'.id = pin.id /\ rec'.list = <<>>
      <4>1. rec'.list = r.list /\ rec' \in Rec /\ rec'.time = pin.time /\ rec'.id = pin.id
        BY <2>1, <3>1, StrictAdd
      <4> QED
        BY <2>1, <4>1 DEF PInv
    <3>3. (pin.time > r.time /\ pin.id = 1) \/ (pin.time = r.time /\ pin.id = r.id + 1)
      BY <2>1, <2>5, StrictTest
    <3> HIDE DEF r
    <3>4. AllBelow(pin, more)
      BY <1>1, <2>1, <2>2, <3>3, GrowAll DEF PInv
    <3> HIDE DEF more
    <3>5. accepted' \in Accepts /\ accepted \subseteq accepted' /\ \A a \in accepted' : a \in accepted \/ a.pin = pin
      BY <1>1, <2>1, <3>1 DEF Accepts, more
    <3>6. (\A a \in accepted' : AllBelow(a.pin, accepted')) /\ AllBelow(file, accepted')
      BY <3>1, <3>4, <3>5, AllMono DEF PInv
    <3>7. (\A x : Below(rec', x) <=> Below(pin, x)) /\ (\A acc : AllBelow(rec', acc) <=> AllBelow(pin, acc))
      BY <3>2, SameBelow
    <3>8. \A q \in Pin : Below(rec, q) => Below(pin, q)
      <4>1. pin.time \in Nat /\ pin.id \in Nat /\ rec.time \in Nat /\ rec.id \in Nat
        BY <1>1, <2>1 DEF Pin, Rec
      <4> QED
        BY <2>1, <3>3, <4>1 DEF Below, Pin
    <3>9. Below(pin, pin)
      <4>1. pin.id \in Nat
        BY <2>1 DEF Pin
      <4> QED
        BY <4>1 DEF Below
    <3>10. \A q \in session' \cup covered' : Below(rec', q)
      BY <1>1, <2>3, <3>1, <3>7, <3>8, <3>9 DEF PInv
    <3>11. LongForm => pp'.time = rec'.time /\ pp'.id = rec'.id
      BY <3>1, <3>2 DEF PInv
    <3>12. pp' \in Pin /\ (~LongForm => pp'.time = 0)
      BY <3>1, <3>2 DEF PInv, Pin, Rec
    <3>13. AllBelow(rec', accepted')
      BY <3>1, <3>4, <3>7
    <3>14. session' \in SUBSET Pin
      BY <1>1, <2>1, <3>1
    <3> QED
      BY <2>3, <3>2, <3>5, <3>6, <3>10, <3>11, <3>12, <3>13, <3>14 DEF PInv, Below, AllBelow
  <2> QED
    BY <2>4, <2>5
<1>8. CASE UNCHANGED pvars
  BY <1>8 DEF pvars, PInv, Below, AllBelow
<1> QED
  BY <1>2, <1>3, <1>4, <1>5, <1>6, <1>7, <1>8 DEF PNext

LEMMA PInvPersist == SeqBacktrack = 0 /\ PInv => PersistInv
<1> SUFFICES ASSUME SeqBacktrack = 0, PInv PROVE PersistInv
  OBVIOUS
<1>1. ASSUME NEW pin \in covered PROVE ~packet_id_test(rec, pin)
  <2>1. pin \in Pin /\ rec \in Rec /\ Below(rec, pin)
    BY DEF PInv
  <2> QED
    BY <2>1, StrictTest DEF Below, Pin, Rec
<1>2. NoGaps
  BY DEF PInv, NoGaps, AllBelow
<1> QED
  BY <1>1, <1>2 DEF PersistInv, CoveredRejected

\* Over TCP: through any number of stops, flushes and crashes, what the --replay-persist file
\* covers is never accepted again, and the ids accepted have no gap.  (With a window it does
\* not hold: packet_id_persist_load_obj does not restore the window.)
THEOREM PersistCorrect == PSpec => [](SeqBacktrack = 0 => PersistInv)
<1> DEFINE TcpInv == SeqBacktrack = 0 => PInv
<1>1. PInit => TcpInv
  BY PInitPInv
<1>2. TcpInv /\ [PNext]_pvars => TcpInv'
  BY PNextPInv
<1>3. TcpInv => (SeqBacktrack = 0 => PersistInv)
  BY PInvPersist
<1> QED
  BY <1>1, <1>2, <1>3, PTL DEF PSpec

-----------------------------------------------------------------------------
(* Fragment: what its invariant says.                                      *)

Ids == 0 .. MaxFrags - 1

\* A datagram that was fragmented.
IsDgram(x) ==
  /\ x \in [len : Nat \ {0}, size : Nat \ {0}]
  /\ x.size % FRAG_SIZE_ROUND = 0 /\ x.len <= x.size * MaxFrags /\ x.len <= BufSize

\* The datagrams dg got the sequence ids sq, one after the other.
Numbered(dg, sq) ==
  /\ sq \in [0 .. Len(dg) -> 0 .. NSeqId - 1]
  /\ \A d, e \in 0 .. Len(dg) : d <= e /\ e - d < NSeqId => sq[e] = modulo_add(sq[d], e - d, NSeqId)

\* The fragment k of datagram x with number d and sequence id s.
IsLast(x, k) == x.len - k * x.size <= x.size
Piece(x, s, d, k) ==
  [type |-> IF IsLast(x, k) THEN "YES_LAST" ELSE "YES_NOTLAST", seq |-> s, id |-> k, size |-> x.size,
   data |-> Bytes(d, k * x.size, IF IsLast(x, k) THEN x.len - k * x.size ELSE x.size)]

\* How much of datagram d has been cut off.
Sent(fr, dg, d) == IF d = Len(dg) THEN fr.from ELSE dg[d].len

SenderOK(fr, dg, sq) ==
  /\ fr \in [seq : 0 .. NSeqId - 1, size : Nat, id : 0 .. MaxFrags, rest : Nat, from : Nat]
  /\ dg \in Seq([len : Nat \ {0}, size : Nat \ {0}]) /\ \A d \in 1 .. Len(dg) : IsDgram(dg[d])
  /\ Numbered(dg, sq) /\ sq[Len(dg)] = fr.seq
  /\ Len(dg) = 0 => fr.rest = 0
  /\ Len(dg) > 0 => MaxLag > 0 /\ fr.from + fr.rest = dg[Len(dg)].len
  /\ fr.rest > 0 => fr.size = dg[Len(dg)].size /\ fr.from = fr.id * fr.size

\* What is in flight: whole datagrams, and fragments that were cut off.
WholeOK(f) == f = [type |-> "WHOLE", data |-> Bytes(0, 0, f.data.len)]
FlightOK(f, fr, dg, sq) ==
  \/ WholeOK(f)
  \/ \E d \in 1 .. Len(dg), k \in Ids : k * dg[d].size < Sent(fr, dg, d) /\ f = Piece(dg[d], sq[d], d, k)

\* A partial datagram holds fragments of datagram x with number d, and its map has their bits.
Holds(e, k, x) == k * x.size \in DOMAIN e.buf
EntryOK(e, x, d) ==
  /\ e.size = x.size
  /\ \A o \in DOMAIN e.buf : \E k \in Ids : o = k * x.size /\ o < x.len /\ e.buf[o].d = d /\ e.buf[o].from = o
  /\ e.map \subseteq Ids
  /\ \A k \in Ids : k \in e.map <=> \E j \in Ids : Holds(e, j, x) /\ (j = k \/ (IsLast(x, j) /\ j <= k))

IsEntry(e) == e = [defined |-> e.defined, size |-> e.size, map |-> e.map, buf |-> e.buf] /\ e.defined \in BOOLEAN

\* The slot b places behind the newest one is for the sequence id b behind the newest one.
Place(l, b) == modulo_add(l.index, 0 - b, NFragBuf)
PlaceSeq(l, b) == modulo_add(l.seq, 0 - b, NSeqId)
Places == 0 .. NFragBuf - 1

ListShape(l) ==
  /\ l = [seq |-> l.seq, index |-> l.index, frags |-> l.frags]
  /\ l.seq \in 0 .. NSeqId - 1 /\ l.index \in Places
  /\ l.frags = [i \in Places |-> l.frags[i]] /\ \A i \in Places : IsEntry(l.frags[i])

\* The slot of sequence id s is empty, or holds some but not all of a datagram with that id.
SlotOK(e, s, dg, sq) ==
  e.defined => /\ e.map # {} /\ e.map # Ids
               /\ \E d \in 1 .. Len(dg) : sq[d] = s /\ EntryOK(e, dg[d], d)

ListOK(l, dg, sq) ==
  /\ ListShape(l)
  /\ \A b \in Places : SlotOK(l.frags[Place(l, b)], PlaceSeq(l, b), dg, sq)

\* Datagram b was handed up as it was sent.
Genuine(b, dg) ==
  \E d \in 0 .. Len(dg) :
    /\ \A o \in DOMAIN b : b[o].d = d /\ b[o].from = o
    /\ IF d = 0
       THEN DOMAIN b = {0}
       ELSE DOMAIN b = {k * dg[d].size : k \in 0 .. Count(dg[d].len, dg[d].size) - 1}

InFlight(n, d) == \E f \in n : f.type # "WHOLE" /\ f.data.d = d
InPart(l, d) == \E i \in Places : l.frags[i].defined /\ \E o \in DOMAIN l.frags[i].buf : l.frags[i].buf[o].d = d
Young(n, l, dg, lag) == \A d \in 1 .. Len(dg) : InFlight(n, d) \/ InPart(l, d) => Len(dg) - d < lag

\* Fragment k of datagram d has arrived and is kept, or its datagram is handed up.
Arrived(l, g, dg, d, k) ==
  \/ \E b \in g : b[0].d = d
  \/ \E i \in Places : /\ l.frags[i].defined /\ Holds(l.frags[i], k, dg[d])
                       /\ l.frags[i].buf[k * dg[d].size].d = d

\* On a calm channel, where r is the newest datagram of which anything has arrived.
CalmOK(fr, l, n, dg, g, sq, r) ==
  /\ r \in 0 .. Len(dg) /\ l.seq = sq[r] /\ Len(dg) - r <= NFragBuf
  /\ Young(n, l, dg, NFragBuf)
  /\ \A d \in 1 .. Len(dg), k \in Ids :
       k * dg[d].size < Sent(fr, dg, d) =>
         Piece(dg[d], sq[d], d, k) \in n \/ (d <= r /\ Arrived(l, g, dg, d, k))

FragState(fr, l, n, dg, g, c, sq) ==
  /\ SenderOK(fr, dg, sq)
  /\ \A f \in n : FlightOK(f, fr, dg, sq)
  /\ ListOK(l, dg, sq)
  /\ \A b \in g : Genuine(b, dg)
  /\ Young(n, l, dg, MaxLag)
  /\ c \in BOOLEAN /\ (c => \E r \in 0 .. Len(dg) : CalmOK(fr, l, n, dg, g, sq, r))

FragIInv == \E sq \in [0 .. Len(dgrams) -> 0 .. NSeqId - 1] : FragState(frag, list, net, dgrams, got, calm, sq)

LEMMA FragConstants ==
  /\ NSeqId \in Nat \ {0} /\ NFragBuf \in Nat \ {0} /\ 2 * NFragBuf <= NSeqId /\ NFragBuf < NSeqId
  /\ MaxFrags \in Nat \ {0} /\ BufSize \in Nat /\ MaxLag \in Nat /\ MaxLag <= NSeqId /\ MaxSizes \in Nat
BY FragmentAssumption

-----------------------------------------------------------------------------
(* Products and quotients.                                                 *)

LEMMA MulStep ==
  ASSUME NEW k \in Nat, NEW s \in Nat
  PROVE  k * s \in Nat /\ (k + 1) * s = k * s + s
OBVIOUS

LEMMA MulLess ==
  ASSUME NEW k \in Nat, NEW j \in Nat, NEW s \in Nat \ {0}
  PROVE  /\ k < j => k * s + s <= j * s
         /\ k * s < j * s => k < j
         /\ k * s = j * s => k = j
<1>1. ASSUME NEW a \in Nat, NEW b \in Nat, a < b PROVE a * s + s <= b * s
  <2>1. b - a - 1 \in Nat
    BY <1>1
  <2>2. b * s = a * s + s + (b - a - 1) * s /\ (b - a - 1) * s >= 0
    BY <2>1
  <2>3. a * s \in Nat /\ b * s \in Nat /\ (b - a - 1) * s \in Nat
    BY <2>1
  <2> QED
    BY <2>2, <2>3
<1>2. k * s \in Nat /\ j * s \in Nat
  OBVIOUS
<1> QED
  BY <1>1, <1>2

LEMMA DivIs ==
  ASSUME NEW a \in Nat, NEW s \in Nat \ {0}
  PROVE  /\ a \div s \in Nat /\ a % s \in 0 .. s - 1 /\ a = (a \div s) * s + (a % s)
<1>1. a \div s \in Int /\ a % s \in 0 .. s - 1 /\ a \div s >= 0
  OBVIOUS
<1>2. a = (a \div s) * s + (a % s)
  OBVIOUS
<1> QED
  BY <1>1, <1>2

LEMMA DivUnique ==
  ASSUME NEW a \in Nat, NEW s \in Nat \ {0}, NEW q \in Nat, q * s <= a, a < q * s + s
  PROVE  a \div s = q
<1>1. a \div s \in Nat /\ a % s \in 0 .. s - 1 /\ a = (a \div s) * s + (a % s)
  BY DivIs
<1>2. PICK d \in Nat : d = a \div s
  BY <1>1
<1>3. d * s \in Nat /\ q * s \in Nat /\ d * s <= a /\ a < d * s + s
  BY <1>1, <1>2
<1>4. ~(d < q) /\ ~(q < d)
  BY <1>3, MulLess
<1> QED
  BY <1>2, <1>4

\* How many pieces of size bytes there are in len bytes.
LEMMA CountIs ==
  ASSUME NEW len \in Nat \ {0}, NEW size \in Nat \ {0}
  PROVE  /\ Count(len, size) \in Nat \ {0}
         /\ (Count(len, size) - 1) * size < len /\ len <= Count(len, size) * size
         /\ \A k \in Nat : k \in 0 .. Count(len, size) - 1 <=> k * size < len
<1>1. PICK a \in Nat : a = len + size - 1
  OBVIOUS
<1>2. PICK c \in Nat : c = a \div size /\ c * size <= a /\ a < c * size + size
  <2>1. a \div size \in Nat /\ a % size \in 0 .. size - 1 /\ a = (a \div size) * size + (a % size)
    BY DivIs
  <2>2. (a \div size) * size \in Nat
    BY <2>1
  <2> QED
    BY <2>1, <2>2
<1>3. Count(len, size) = c
  BY <1>1, <1>2 DEF Count
<1>4. c # 0
  BY <1>1, <1>2
<1>5. c - 1 \in Nat /\ (c - 1) * size \in Nat /\ c * size = (c - 1) * size + size
  <2>1. c - 1 \in Nat /\ c = (c - 1) + 1
    BY <1>4
  <2> QED
    BY <2>1, MulStep
<1>6. (c - 1) * size < len /\ len <= c * size
  BY <1>1, <1>2, <1>5
<1>7. ASSUME NEW k \in Nat PROVE k \in 0 .. c - 1 <=> k * size < len
  <2>1. k * size \in Nat /\ c * size \in Nat
    OBVIOUS
  <2>2. ASSUME k * size < len PROVE k < c
    BY <1>6, <2>1, <2>2, MulLess
  <2>3. ASSUME k < c PROVE k * size < len
    <3>1. k <= c - 1 /\ (k < c - 1 => k * size + size <= (c - 1) * size)
      BY <1>5, <2>3, MulLess
    <3> QED
      BY <1>5, <1>6, <2>1, <3>1
  <2> QED
    BY <2>2, <2>3
<1> QED
  BY <1>3, <1>4, <1>6, <1>7

LEMMA CountUnique ==
  ASSUME NEW len \in Nat \ {0}, NEW size \in Nat \ {0}, NEW q \in Nat, q * size < len, len <= q * size + size
  PROVE  Count(len, size) = q + 1
<1>1. PICK a \in Nat : a = len + size - 1
  OBVIOUS
<1>2. q + 1 \in Nat /\ q * size \in Nat /\ (q + 1) * size = q * size + size
  BY MulStep
<1>3. (q + 1) * size <= a /\ a < (q + 1) * size + size
  BY <1>1, <1>2
<1>4. a \div size = q + 1
  BY <1>2, <1>3, DivUnique
<1> QED
  BY <1>1, <1>4 DEF Count

LEMMA RoundIs ==
  ASSUME NEW x \in Nat
  PROVE  /\ RoundDown(x) \in Nat /\ RoundDown(x) % FRAG_SIZE_ROUND = 0 /\ RoundDown(x) <= x /\ x <= RoundDown(x) + 3
         /\ x >= 4 => RoundDown(x) >= 4
         /\ x % FRAG_SIZE_ROUND = 0 => RoundDown(x) = x
BY DEF RoundDown, FRAG_SIZE_ROUND

\* optimal_fragment_size keeps the number of fragments.
LEMMA OptimalIs ==
  ASSUME NEW len \in Nat \ {0}, NEW p \in Nat, p >= 4
  PROVE  /\ optimal_fragment_size(len, p) \in Nat /\ optimal_fragment_size(len, p) >= 4
         /\ optimal_fragment_size(len, p) % FRAG_SIZE_ROUND = 0 /\ optimal_fragment_size(len, p) <= p
         /\ Count(len, optimal_fragment_size(len, p)) = Count(len, RoundDown(p))
<1>1. PICK a \in Nat \ {0} : a = RoundDown(p) /\ a >= 4 /\ a % FRAG_SIZE_ROUND = 0 /\ a <= p /\ p <= a + 3
  BY RoundIs
<1>2. PICK q \in Nat, m \in 0 .. a - 1 : q = len \div a /\ m = len % a /\ len = q * a + m
  BY DivIs
<1>3. PICK r \in Nat : r = (p - m) \div (q + 1) /\ (q + 1) * r <= p - m
  <2>1. p - m \in Nat /\ q + 1 \in Nat \ {0}
    BY <1>1
  <2>2. /\ (p - m) \div (q + 1) \in Nat /\ (p - m) % (q + 1) \in 0 .. (q + 1) - 1
        /\ p - m = ((p - m) \div (q + 1)) * (q + 1) + ((p - m) % (q + 1))
    BY <2>1, DivIs
  <2>3. PICK r \in Nat, z \in Nat : r = (p - m) \div (q + 1) /\ p - m = r * (q + 1) + z
    BY <2>2
  <2>4. r * (q + 1) = (q + 1) * r /\ r * (q + 1) \in Nat
    OBVIOUS
  <2> QED
    BY <2>3, <2>4
<1>4. PICK x \in Int : x = p - r + FRAG_SIZE_ROUND - 1
  BY DEF FRAG_SIZE_ROUND
<1> DEFINE size == optimal_fragment_size(len, p)
<1>5. size = IF q > 0 /\ m > 0 /\ m < (a * 3) \div 4
             THEN IF a <= RoundDown(x) THEN a ELSE RoundDown(x)
             ELSE a
  BY <1>1, <1>2, <1>3, <1>4 DEF optimal_fragment_size
<1> HIDE DEF size
<1>6. CASE size = a
  BY <1>1, <1>6 DEF size
<1>7. CASE size # a
  <2>1. q > 0 /\ m > 0 /\ ~(a <= RoundDown(x)) /\ size = RoundDown(x)
    BY <1>5, <1>7
  <2>2. x \in Nat /\ x >= 4 /\ p - r <= RoundDown(x)
    <3>1. r + r <= p - m
      <4>1. PICK n \in Nat : n = q - 1
        BY <2>1
      <4>2. (q + 1) * r = n * r + r + r /\ n * r \in Nat
        <5>1. (n + 1) * r = n * r + r /\ (n + 1 + 1) * r = (n + 1) * r + r /\ n * r \in Nat
          BY <4>1, MulStep
        <5>2. q + 1 = n + 1 + 1
          BY <4>1
        <5> QED
          BY <5>1, <5>2
      <4> QED
        BY <1>1, <1>3, <4>2
    <3>2. x = p - r + 3
      BY <1>4 DEF FRAG_SIZE_ROUND
    <3>3. x \in Nat /\ x >= 4
      BY <1>1, <2>1, <3>1, <3>2
    <3> QED
      BY <1>1, <3>2, <3>3, RoundIs
  <2>3. size \in Nat \ {0} /\ size >= 4 /\ size % FRAG_SIZE_ROUND = 0 /\ size < a
    BY <1>1, <2>1, <2>2, RoundIs
  <2>4. q * size < len
    <3>1. q * size <= q * a /\ q * size \in Nat /\ q * a \in Nat
      BY <1>1, <2>1, <2>3
    <3> QED
      BY <1>2, <2>1, <3>1
  <2>5. len <= q * size + size
    <3>1. PICK e \in Nat : e = p - r /\ e <= size
      BY <1>1, <1>3, <2>1, <2>2, <2>3
    <3>2. q * e <= q * size /\ q * e \in Nat /\ q * size \in Nat
      BY <2>3, <3>1
    <3>3. q * p = q * e + q * r /\ q * r \in Nat /\ q * p \in Nat /\ (q + 1) * r = q * r + r
      BY <3>1
    <3>4. q * a <= q * p /\ q * a \in Nat
      BY <1>1
    <3> QED
      BY <1>1, <1>2, <1>3, <2>3, <3>1, <3>2, <3>3, <3>4
  <2>6. Count(len, size) = q + 1
    BY <2>3, <2>4, <2>5, CountUnique
  <2>7. q * a < len /\ len <= q * a + a
    <3>1. PICK z \in Nat : z = q * a
      OBVIOUS
    <3>2. len = z + m /\ m > 0 /\ m < a
      BY <1>2, <2>1, <3>1
    <3>3. z < len /\ len <= z + a
      BY <3>2
    <3> QED
      BY <3>1, <3>3
  <2>8. Count(len, a) = q + 1
    BY <2>7, CountUnique
  <2> QED
    BY <1>1, <2>3, <2>6, <2>8 DEF size
<1> QED
  BY <1>6, <1>7

-----------------------------------------------------------------------------
(* The circles of sequence ids and of slots.                               *)

LEMMA AddIs ==
  ASSUME NEW m \in Nat \ {0}, NEW x \in 0 .. m - 1, NEW y \in (0 - m) .. m
  PROVE  /\ modulo_add(x, y, m) \in 0 .. m - 1
         /\ modulo_add(x, y, m) \in {x + y, x + y - m, x + y + m}
BY DEF modulo_add

LEMMA AddInjective ==
  ASSUME NEW m \in Nat \ {0}, NEW x \in 0 .. m - 1, NEW y \in Int, NEW z \in Int,
         y - z < m, z - y < m, y \in (0 - m) .. m, z \in (0 - m) .. m, modulo_add(x, y, m) = modulo_add(x, z, m)
  PROVE  y = z
<1>1. /\ modulo_add(x, y, m) \in {x + y, x + y - m, x + y + m}
      /\ modulo_add(x, z, m) \in {x + z, x + z - m, x + z + m}
      /\ modulo_add(x, y, m) \in 0 .. m - 1
  BY AddIs
<1> QED
  BY <1>1

LEMMA AddTwice ==
  ASSUME NEW m \in Nat \ {0}, NEW x \in 0 .. m - 1, NEW y \in (0 - m) .. m, NEW z \in (0 - m) .. m, y + z \in (1 - m) .. m - 1
  PROVE  modulo_add(modulo_add(x, y, m), z, m) = modulo_add(x, y + z, m)
BY DEF modulo_add

LEMMA SubIs ==
  ASSUME NEW m \in Nat \ {0}, NEW x \in 0 .. m - 1, NEW y \in 0 .. m - 1, NEW d, d = modulo_subtract(x, y, m)
  PROVE  /\ d \in Int /\ 2 * d <= m /\ 0 - m <= 2 * d /\ x = modulo_add(y, d, m) /\ d \in (0 - m) .. m
         /\ x = y => d = 0
BY DEF modulo_subtract, modulo_add, Abs

\* The difference of two ids that are not far apart.
LEMMA SubNear ==
  ASSUME NEW m \in Nat \ {0}, NEW y \in 0 .. m - 1, NEW k \in Int, 2 * k <= m, 0 - m <= 2 * k,
         NEW x, x = modulo_add(y, k, m), NEW d, d = modulo_subtract(x, y, m)
  PROVE  Abs(d) = Abs(k) /\ (2 * Abs(k) < m => d = k)
BY DEF modulo_subtract, modulo_add, Abs

LEMMA PlacesAre ==
  ASSUME NEW l, ListShape(l)
  PROVE  /\ \A b \in Places : Place(l, b) \in Places /\ PlaceSeq(l, b) \in 0 .. NSeqId - 1
         /\ \A i \in Places : \E b \in Places : i = Place(l, b)
         /\ \A a, b \in Places : Place(l, a) = Place(l, b) => a = b
         /\ Place(l, 0) = l.index /\ PlaceSeq(l, 0) = l.seq
<1>1. PICK x \in 0 .. NFragBuf - 1 : x = l.index
  BY DEF ListShape, Places
<1>2. PICK s \in 0 .. NSeqId - 1 : s = l.seq
  BY DEF ListShape
<1>3. /\ NFragBuf \in Nat \ {0} /\ NSeqId \in Nat \ {0} /\ NFragBuf < NSeqId
      /\ \A b \in Places : b \in 0 .. NFragBuf - 1 /\ 0 - b \in (0 - NFragBuf) .. NFragBuf /\ 0 - b \in (0 - NSeqId) .. NSeqId
  BY FragConstants DEF Places
<1>4. \A b \in Places : Place(l, b) \in Places /\ PlaceSeq(l, b) \in 0 .. NSeqId - 1
  BY <1>1, <1>2, <1>3, AddIs DEF Places, Place, PlaceSeq
<1>5. ASSUME NEW i \in Places PROVE \E b \in Places : i = Place(l, b)
  <2>1. i \in 0 .. NFragBuf - 1
    BY DEF Places
  <2>2. \E b \in 0 .. NFragBuf - 1 : b = x - i \/ (b = x - i + NFragBuf /\ x < i)
    <3>1. CASE i <= x
      <4>1. x - i \in 0 .. NFragBuf - 1
        BY <1>3, <2>1, <3>1
      <4> QED
        BY <4>1
    <3>2. CASE x < i
      <4>1. x - i + NFragBuf \in 0 .. NFragBuf - 1
        BY <1>3, <2>1, <3>2
      <4> QED
        BY <3>2, <4>1
    <3> QED
      BY <1>3, <2>1, <3>1, <3>2
  <2>4. PICK b \in 0 .. NFragBuf - 1 : b = x - i \/ (b = x - i + NFragBuf /\ x < i)
    BY <2>2
  <2>3. modulo_add(x, 0 - b, NFragBuf) = i
    BY <1>3, <2>1, <2>4 DEF modulo_add
  <2> QED
    BY <1>1, <2>3 DEF Places, Place
<1>6. ASSUME NEW a \in Places, NEW b \in Places, Place(l, a) = Place(l, b) PROVE a = b
  <2>1. a \in 0 .. NFragBuf - 1 /\ b \in 0 .. NFragBuf - 1
    BY DEF Places
  <2>2. modulo_add(x, 0 - a, NFragBuf) = modulo_add(x, 0 - b, NFragBuf)
    BY <1>1, <1>6 DEF Place
  <2> QED
    BY <1>3, <2>1, <2>2 DEF modulo_add
<1>7. Place(l, 0) = l.index /\ PlaceSeq(l, 0) = l.seq
  <2>1. modulo_add(x, 0 - 0, NFragBuf) = x /\ modulo_add(s, 0 - 0, NSeqId) = s
    BY <1>3 DEF modulo_add
  <2> QED
    BY <1>1, <1>2, <2>1 DEF Place, PlaceSeq
<1> QED
  BY <1>4, <1>5, <1>6, <1>7

LEMMA PlaceSeqInjective ==
  ASSUME NEW l, l.seq \in 0 .. NSeqId - 1, NEW a \in Places, NEW b \in Places, PlaceSeq(l, a) = PlaceSeq(l, b)
  PROVE  a = b
<1>1. /\ NFragBuf \in Nat /\ NSeqId \in Nat \ {0} /\ NFragBuf < NSeqId
      /\ a \in 0 .. NFragBuf - 1 /\ b \in 0 .. NFragBuf - 1
  BY FragConstants DEF Places
<1>2. PICK s \in 0 .. NSeqId - 1, y \in Int, z \in Int : s = l.seq /\ y = 0 - a /\ z = 0 - b
  BY <1>1
<1>3. y - z < NSeqId /\ z - y < NSeqId /\ y \in (0 - NSeqId) .. NSeqId /\ z \in (0 - NSeqId) .. NSeqId
  BY <1>1, <1>2
<1>4. modulo_add(s, y, NSeqId) = modulo_add(s, z, NSeqId)
  BY <1>2 DEF PlaceSeq
<1>5. y = z
  BY <1>1, <1>3, <1>4, AddInjective
<1> QED
  BY <1>1, <1>2, <1>5

\* Every slot of t is empty or what it was in l for the same sequence id.
Moved(l, t) ==
  \A b \in Places :
    \/ t.frags[Place(t, b)] = NoFrag
    \/ \E a \in Places : t.frags[Place(t, b)] = l.frags[Place(l, a)] /\ PlaceSeq(t, b) = PlaceSeq(l, a)

\* Every slot of l whose sequence id is still in the window is kept in t.
Survives(l, t) ==
  \A a, b \in Places : PlaceSeq(l, a) = PlaceSeq(t, b) => t.frags[Place(t, b)] = l.frags[Place(l, a)]

LEMMA NoFragIs ==
  IsEntry(NoFrag) /\ ~NoFrag.defined /\ NoFrag.map = {} /\ DOMAIN NoFrag.buf = {}
BY DEF IsEntry, NoFrag

LEMMA GetBufReset ==
  ASSUME NEW l, ListShape(l), NEW seq \in 0 .. NSeqId - 1,
         NEW t, t = [seq |-> seq, index |-> 0, frags |-> [i \in 0 .. NFragBuf - 1 |-> NoFrag]]
  PROVE  ListShape(t) /\ Moved(l, t) /\ t.seq = seq
<1>1. t.seq = seq /\ t.index = 0 /\ t.frags = [i \in Places |-> NoFrag] /\ 0 \in Places
  BY FragConstants DEF Places
<1>2. ListShape(t)
  BY <1>1, NoFragIs DEF ListShape
<1>3. Moved(l, t)
  BY <1>1, <1>2, PlacesAre DEF Moved
<1> QED
  BY <1>1, <1>2, <1>3

LEMMA GetBufForward ==
  ASSUME NEW l, ListShape(l), NEW diff \in 1 .. NFragBuf - 1, NEW seq, seq = modulo_add(l.seq, diff, NSeqId),
         NEW t, t = [seq |-> seq, index |-> modulo_add(l.index, diff, NFragBuf),
                     frags |-> [i \in 0 .. NFragBuf - 1 |->
                                  IF i \in {modulo_add(l.index, k, NFragBuf) : k \in 1 .. diff} THEN NoFrag ELSE l.frags[i]]]
  PROVE  ListShape(t) /\ Moved(l, t) /\ Survives(l, t) /\ t.seq = seq
<1>1. /\ l.seq \in 0 .. NSeqId - 1 /\ l.index \in 0 .. NFragBuf - 1 /\ \A i \in Places : IsEntry(l.frags[i])
  BY DEF ListShape, Places
<1>2. t.seq = seq /\ t.index = modulo_add(l.index, diff, NFragBuf)
  OBVIOUS
<1>3. t.seq \in 0 .. NSeqId - 1 /\ t.index \in 0 .. NFragBuf - 1
  <2>1. diff \in (0 - NSeqId) .. NSeqId /\ diff \in (0 - NFragBuf) .. NFragBuf
    BY FragConstants
  <2>2. modulo_add(l.seq, diff, NSeqId) \in 0 .. NSeqId - 1
    BY <1>1, <2>1, AddIs, FragConstants
  <2>3. modulo_add(l.index, diff, NFragBuf) \in 0 .. NFragBuf - 1
    BY <1>1, <2>1, AddIs, FragConstants
  <2> QED
    BY <1>2, <2>2, <2>3
<1> DEFINE passed == {modulo_add(l.index, k, NFragBuf) : k \in 1 .. diff}
<1>4. t.frags = [i \in Places |-> IF i \in passed THEN NoFrag ELSE l.frags[i]]
  BY DEF Places
<1> HIDE DEF passed
<1>5. ListShape(t)
  <2>1. t.frags = [i \in Places |-> t.frags[i]] /\ \A i \in Places : IsEntry(t.frags[i])
    BY <1>1, <1>4, NoFragIs
  <2> QED
    BY <1>3, <2>1 DEF ListShape, Places
<1>0. /\ NFragBuf \in Nat \ {0} /\ NSeqId \in Nat \ {0} /\ NFragBuf < NSeqId /\ 2 * NFragBuf <= NSeqId
      /\ \A b \in Places : b \in 0 .. NFragBuf - 1
  BY FragConstants DEF Places
<1>11. ASSUME NEW b \in Places
       PROVE  /\ Place(t, b) = modulo_add(l.index, diff + (0 - b), NFragBuf)
              /\ PlaceSeq(t, b) = modulo_add(l.seq, diff + (0 - b), NSeqId)
  <2>1. /\ diff \in (0 - NFragBuf) .. NFragBuf /\ 0 - b \in (0 - NFragBuf) .. NFragBuf
        /\ diff + (0 - b) \in (1 - NFragBuf) .. NFragBuf - 1
    BY <1>0
  <2>2. /\ diff \in (0 - NSeqId) .. NSeqId /\ 0 - b \in (0 - NSeqId) .. NSeqId
        /\ diff + (0 - b) \in (1 - NSeqId) .. NSeqId - 1
    BY <1>0
  <2>3. modulo_add(modulo_add(l.index, diff, NFragBuf), 0 - b, NFragBuf) = modulo_add(l.index, diff + (0 - b), NFragBuf)
    BY <1>0, <1>1, <2>1, AddTwice
  <2>4. modulo_add(modulo_add(l.seq, diff, NSeqId), 0 - b, NSeqId) = modulo_add(l.seq, diff + (0 - b), NSeqId)
    BY <1>0, <1>1, <2>2, AddTwice
  <2> QED
    BY <1>2, <2>3, <2>4 DEF Place, PlaceSeq
<1>6. ASSUME NEW b \in Places, b < diff PROVE Place(t, b) \in passed
  <2>1. PICK k \in 1 .. diff : k = diff + (0 - b)
    BY <1>0, <1>6
  <2>2. Place(t, b) = modulo_add(l.index, k, NFragBuf)
    BY <1>11, <2>1
  <2> QED
    BY <2>2 DEF passed
<1>7. ASSUME NEW b \in Places, ~(b < diff)
      PROVE  /\ b - diff \in Places /\ Place(t, b) = Place(l, b - diff) /\ PlaceSeq(t, b) = PlaceSeq(l, b - diff)
             /\ Place(t, b) \notin passed
  <2>1. b - diff \in 0 .. NFragBuf - 1 /\ 0 - (b - diff) = diff + (0 - b)
    BY <1>0, <1>7
  <2>2. Place(t, b) = Place(l, b - diff)
    BY <1>11, <2>1 DEF Place
  <2>3. PlaceSeq(t, b) = PlaceSeq(l, b - diff)
    BY <1>11, <2>1 DEF PlaceSeq
  <2>4. ASSUME NEW k \in 1 .. diff PROVE Place(t, b) # modulo_add(l.index, k, NFragBuf)
    <3>1. PICK y \in Int : y = diff + (0 - b)
      BY <1>0
    <3>2. /\ y - k < NFragBuf /\ k - y < NFragBuf /\ y \in (0 - NFragBuf) .. NFragBuf /\ k \in (0 - NFragBuf) .. NFragBuf
          /\ y # k /\ k \in Int
      BY <1>0, <1>7, <3>1
    <3>3. modulo_add(l.index, y, NFragBuf) # modulo_add(l.index, k, NFragBuf)
      BY <1>0, <1>1, <3>2, AddInjective
    <3> QED
      BY <1>11, <3>1, <3>3
  <2> QED
    BY <2>1, <2>2, <2>3, <2>4 DEF passed, Places
<1>8. \A b \in Places : Place(t, b) \in Places
  BY <1>5, PlacesAre
<1>9. Moved(l, t)
  <2>1. ASSUME NEW b \in Places
        PROVE  \/ t.frags[Place(t, b)] = NoFrag
               \/ \E a \in Places : t.frags[Place(t, b)] = l.frags[Place(l, a)] /\ PlaceSeq(t, b) = PlaceSeq(l, a)
    <3>1. CASE b < diff
      BY <1>4, <1>6, <1>8, <3>1
    <3>2. CASE ~(b < diff)
      <4>1. PICK a \in Places : a = b - diff
        BY <1>7, <3>2
      <4>2. Place(t, b) = Place(l, a) /\ PlaceSeq(t, b) = PlaceSeq(l, a) /\ Place(t, b) \notin passed
        BY <1>7, <3>2, <4>1
      <4> QED
        BY <1>4, <1>8, <4>2
    <3> QED
      BY <3>1, <3>2
  <2> QED
    BY <2>1 DEF Moved
<1>10. ASSUME NEW a \in Places, NEW b \in Places, PlaceSeq(l, a) = PlaceSeq(t, b)
       PROVE  t.frags[Place(t, b)] = l.frags[Place(l, a)]
  <2>1. PICK y \in Int, z \in Int : y = diff + (0 - b) /\ z = 0 - a
    BY <1>0
  <2>6. y < NFragBuf /\ 0 - y < NFragBuf /\ z <= 0 /\ 0 - z < NFragBuf
    BY <1>0, <2>1
  <2>3. /\ y - z < NSeqId /\ z - y < NSeqId /\ y \in (0 - NSeqId) .. NSeqId /\ z \in (0 - NSeqId) .. NSeqId
    BY <1>0, <2>6
  <2>4. modulo_add(l.seq, y, NSeqId) = modulo_add(l.seq, z, NSeqId)
    BY <1>10, <1>11, <2>1 DEF PlaceSeq
  <2>5. y = z
    BY <1>0, <1>1, <2>3, <2>4, AddInjective
  <2>2. ~(b < diff) /\ b - diff = a
    BY <1>0, <2>1, <2>5
  <2> QED
    BY <1>4, <1>7, <1>8, <2>2
<1> QED
  BY <1>2, <1>5, <1>9, <1>10 DEF Survives

LEMMA GetBufIs ==
  ASSUME NEW l, ListShape(l), NEW seq \in 0 .. NSeqId - 1, NEW t, t = fragment_list_get_buf(l, seq),
         NEW diff, diff = modulo_subtract(seq, l.seq, NSeqId)
  PROVE  /\ ListShape(t) /\ Moved(l, t)
         /\ Abs(diff) < NFragBuf => Survives(l, t)
         /\ t.seq = IF diff > 0 \/ Abs(diff) >= NFragBuf THEN seq ELSE l.seq
         /\ \E c \in Places : seq = PlaceSeq(t, c) /\ SlotOf(t, seq) = Place(t, c)
<1>1. l.seq \in 0 .. NSeqId - 1 /\ l.index \in 0 .. NFragBuf - 1
  BY DEF ListShape, Places
<1>2. /\ diff \in Int /\ seq = modulo_add(l.seq, diff, NSeqId) /\ diff \in (0 - NSeqId) .. NSeqId
  BY <1>1, SubIs, FragConstants
<1>3. ASSUME NEW u, ListShape(u), u.seq = seq
      PROVE  \E c \in Places : seq = PlaceSeq(u, c) /\ SlotOf(u, seq) = Place(u, c)
  <2>1. modulo_subtract(seq, u.seq, NSeqId) = 0
    BY <1>3, FragConstants DEF modulo_subtract, Abs
  <2>2. 0 \in Places /\ PlaceSeq(u, 0) = seq /\ Place(u, 0) = modulo_add(u.index, 0 - 0, NFragBuf)
    BY <1>3, FragConstants, PlacesAre DEF Places, Place
  <2> QED
    BY <2>1, <2>2 DEF SlotOf
<1>4. CASE Abs(diff) >= NFragBuf
  <2>1. t = [seq |-> seq, index |-> 0, frags |-> [i \in 0 .. NFragBuf - 1 |-> NoFrag]]
    BY <1>4 DEF fragment_list_get_buf
  <2>2. ListShape(t) /\ Moved(l, t) /\ t.seq = seq
    BY <2>1, GetBufReset
  <2> QED
    BY <1>2, <1>3, <1>4, <2>2, FragConstants DEF Abs
<1>5. CASE Abs(diff) < NFragBuf /\ diff > 0
  <2>1. diff \in 1 .. NFragBuf - 1
    BY <1>2, <1>5, FragConstants DEF Abs
  <2>2. t = [seq |-> seq, index |-> modulo_add(l.index, diff, NFragBuf),
             frags |-> [i \in 0 .. NFragBuf - 1 |->
                          IF i \in {modulo_add(l.index, k, NFragBuf) : k \in 1 .. diff} THEN NoFrag ELSE l.frags[i]]]
    BY <1>2, <1>5, FragConstants DEF fragment_list_get_buf, Abs
  <2>3. ListShape(t) /\ Moved(l, t) /\ Survives(l, t) /\ t.seq = seq
    BY <1>2, <2>1, <2>2, GetBufForward
  <2> QED
    BY <1>3, <1>5, <2>3
<1>6. CASE Abs(diff) < NFragBuf /\ ~(diff > 0)
  <2>1. t = l
    BY <1>2, <1>6, FragConstants DEF fragment_list_get_buf, Abs
  <2>2. Moved(l, t)
    BY <2>1 DEF Moved
  <2>3. Survives(l, t)
    <3>1. ASSUME NEW a \in Places, NEW b \in Places, PlaceSeq(l, a) = PlaceSeq(l, b) PROVE a = b
      BY <1>1, <3>1, PlaceSeqInjective
    <3> QED
      BY <2>1, <3>1 DEF Survives
  <2>4. 0 - diff \in Places /\ diff = 0 - (0 - diff)
    BY <1>2, <1>6, FragConstants DEF Abs, Places
  <2>5. PICK c \in Places : c = 0 - diff /\ diff = 0 - c
    BY <2>4
  <2>6. seq = PlaceSeq(t, c) /\ SlotOf(t, seq) = Place(t, c)
    BY <1>2, <2>1, <2>5 DEF PlaceSeq, Place, SlotOf
  <2>7. t.seq = l.seq /\ ~(Abs(diff) >= NFragBuf)
    BY <1>2, <1>6, <2>1, FragConstants DEF Abs
  <2> QED
    BY <1>6, <2>1, <2>2, <2>3, <2>6, <2>7
<1> QED
  BY <1>2, <1>4, <1>5, <1>6, FragConstants DEF Abs

-----------------------------------------------------------------------------
(* Partial datagrams.                                                      *)

LEMMA DgramIs ==
  ASSUME NEW x, IsDgram(x), NEW k \in Ids
  PROVE  /\ x.len \in Nat \ {0} /\ x.size \in Nat \ {0} /\ k \in Nat /\ k * x.size \in Nat
         /\ x.size % FRAG_SIZE_ROUND = 0 /\ x.len <= BufSize
BY FragConstants DEF IsDgram, Ids

LEMMA PieceIs ==
  ASSUME NEW x, IsDgram(x), NEW s, NEW d, NEW k \in Ids, k * x.size < x.len, NEW f, f = Piece(x, s, d, k)
  PROVE  /\ f.type # "WHOLE" /\ f.seq = s /\ f.id = k /\ f.size = x.size
         /\ f.data.d = d /\ f.data.from = k * x.size /\ f.size % FRAG_SIZE_ROUND = 0
         /\ ~(f.id * f.size + f.data.len > BufSize)
         /\ MapBits(f) = IF IsLast(x, k) THEN k .. MaxFrags - 1 ELSE {k}
<1>1. /\ x.len \in Nat \ {0} /\ x.size \in Nat \ {0} /\ k \in Nat /\ k * x.size \in Nat
      /\ x.size % FRAG_SIZE_ROUND = 0 /\ x.len <= BufSize /\ BufSize \in Nat
  BY DgramIs, FragConstants
<1>2. /\ f.type = (IF IsLast(x, k) THEN "YES_LAST" ELSE "YES_NOTLAST") /\ f.seq = s /\ f.id = k /\ f.size = x.size
      /\ f.data = Bytes(d, k * x.size, IF IsLast(x, k) THEN x.len - k * x.size ELSE x.size)
  BY DEF Piece
<1>3. /\ f.data.d = d /\ f.data.from = k * x.size
      /\ f.data.len = IF IsLast(x, k) THEN x.len - k * x.size ELSE x.size
  BY <1>2 DEF Bytes
<1>4. k * x.size + f.data.len <= x.len
  BY <1>1, <1>3 DEF IsLast
<1>5. ~(f.id * f.size + f.data.len > BufSize)
  <2>1. f.data.len \in Int
    BY <1>1, <1>3
  <2> QED
    BY <1>1, <1>2, <1>4, <2>1
<1>6. MapBits(f) = IF IsLast(x, k) THEN k .. MaxFrags - 1 ELSE {k}
  BY <1>2 DEF MapBits
<1> QED
  BY <1>1, <1>2, <1>3, <1>5, <1>6

\* A slot that is empty or holds fragments of datagram x.
FreeFor(e, x, d) == e.defined => EntryOK(e, x, d)

LEMMA StartedIs ==
  ASSUME NEW e, IsEntry(e), NEW x, NEW d, FreeFor(e, x, d), NEW f, f.size = x.size,
         NEW y, y = Started(e, f)
  PROVE  /\ IsEntry(y) /\ y.defined /\ EntryOK(y, x, d)
         /\ e.defined => y = e
<1>1. CASE e.defined
  <2>1. e.size = f.size /\ EntryOK(e, x, d)
    BY <1>1 DEF EntryOK, FreeFor
  <2>2. y = e
    BY <1>1, <2>1 DEF Started
  <2> QED
    BY <1>1, <2>1, <2>2
<1>2. CASE ~e.defined
  <2>1. y = [defined |-> TRUE, size |-> f.size, map |-> {}, buf |-> <<>>]
    BY <1>2 DEF Started
  <2>2. y.defined = TRUE /\ y.size = x.size /\ y.map = {} /\ y.buf = <<>> /\ DOMAIN y.buf = {}
    BY <2>1
  <2>3. IsEntry(y)
    BY <2>1 DEF IsEntry
  <2>4. EntryOK(y, x, d)
    BY <2>2 DEF EntryOK, Holds
  <2> QED
    BY <1>2, <2>2, <2>3, <2>4
<1> QED
  BY <1>1, <1>2

LEMMA JoinedIs ==
  ASSUME NEW x, IsDgram(x), NEW s, NEW d, NEW k \in Ids, k * x.size < x.len, NEW f, f = Piece(x, s, d, k),
         NEW e, IsEntry(e), e.defined, EntryOK(e, x, d), NEW y, y = Joined(e, f)
  PROVE  /\ IsEntry(y) /\ y.defined /\ EntryOK(y, x, d) /\ y.map # {}
         /\ DOMAIN y.buf = DOMAIN e.buf \cup {k * x.size}
<1>1. /\ f.id = k /\ f.size = x.size /\ f.data.d = d /\ f.data.from = k * x.size
      /\ MapBits(f) = IF IsLast(x, k) THEN k .. MaxFrags - 1 ELSE {k}
  BY PieceIs
<1>2. PICK at : at = k * x.size
  OBVIOUS
<1>3. y = [e EXCEPT !.map = e.map \cup MapBits(f), !.buf = CopyRange(e.buf, at, f.data)]
  BY <1>1, <1>2 DEF Joined
<1>4. e = [defined |-> e.defined, size |-> e.size, map |-> e.map, buf |-> e.buf] /\ e.defined \in BOOLEAN
  BY DEF IsEntry
<1>5. /\ y = [defined |-> e.defined, size |-> e.size, map |-> e.map \cup MapBits(f), buf |-> CopyRange(e.buf, at, f.data)]
  BY <1>3, <1>4
<1>6. /\ y.defined = e.defined /\ y.size = e.size /\ y.map = e.map \cup MapBits(f)
      /\ y.buf = CopyRange(e.buf, at, f.data)
  BY <1>5
<1>7. /\ DOMAIN y.buf = DOMAIN e.buf \cup {at} /\ y.buf[at] = f.data
      /\ \A o \in DOMAIN e.buf : o # at => y.buf[o] = e.buf[o]
  BY <1>6 DEF CopyRange
<1>8. IsEntry(y)
  BY <1>4, <1>5, <1>6 DEF IsEntry
<1>9. /\ k \in Nat /\ MaxFrags \in Nat \ {0} /\ \A j \in Ids : j \in Nat /\ j * x.size \in Nat /\ j < MaxFrags
      /\ x.size \in Nat \ {0} /\ k \in 0 .. MaxFrags - 1
  BY DgramIs, FragConstants DEF Ids
<1>10. y.map \subseteq Ids
  <2>1. MapBits(f) \subseteq Ids
    BY <1>1, <1>9 DEF Ids
  <2> QED
    BY <1>6, <2>1 DEF EntryOK
<1>11. ASSUME NEW o \in DOMAIN y.buf
       PROVE  \E j \in Ids : o = j * x.size /\ o < x.len /\ y.buf[o].d = d /\ y.buf[o].from = o
  <2>1. CASE o = at
    BY <1>1, <1>2, <1>7, <2>1
  <2>2. CASE o # at
    BY <1>7, <2>2 DEF EntryOK
  <2> QED
    BY <2>1, <2>2
<1>12. \A j \in Ids : Holds(y, j, x) <=> Holds(e, j, x) \/ j = k
  <2>1. ASSUME NEW j \in Ids, j * x.size = at PROVE j = k
    BY <1>2, <1>9, <2>1, MulLess
  <2> QED
    BY <1>2, <1>7, <2>1 DEF Holds
<1>13. ASSUME NEW n \in Ids
       PROVE  n \in y.map <=> \E j \in Ids : Holds(y, j, x) /\ (j = n \/ (IsLast(x, j) /\ j <= n))
  <2>1. n \in MapBits(f) <=> k = n \/ (IsLast(x, k) /\ k <= n)
    <3>1. n \in k .. MaxFrags - 1 <=> k <= n
      BY <1>9 DEF Ids
    <3> QED
      BY <1>1, <1>9, <3>1
  <2>2. n \in e.map <=> \E j \in Ids : Holds(e, j, x) /\ (j = n \/ (IsLast(x, j) /\ j <= n))
    BY DEF EntryOK
  <2> QED
    BY <1>6, <1>12, <2>1, <2>2
<1>14. EntryOK(y, x, d)
  <2>1. y.size = x.size
    BY <1>6 DEF EntryOK
  <2> QED
    BY <1>10, <1>11, <1>13, <2>1 DEF EntryOK
<1>15. y.map # {}
  <2>1. k \in y.map
    BY <1>12, <1>13
  <2> QED
    BY <2>1
<1> QED
  BY <1>2, <1>6, <1>7, <1>8, <1>14, <1>15

\* When all bits are set, all fragments are there.
LEMMA FullIs ==
  ASSUME NEW x, IsDgram(x), NEW d, NEW e, EntryOK(e, x, d), e.map = Ids
  PROVE  /\ DOMAIN e.buf = {k * x.size : k \in 0 .. Count(x.len, x.size) - 1}
         /\ 0 \in DOMAIN e.buf
         /\ \A o \in DOMAIN e.buf : e.buf[o].d = d /\ e.buf[o].from = o
<1>1. /\ MaxFrags \in Nat \ {0} /\ \A j \in Ids : j \in Nat /\ j * x.size \in Nat /\ j < MaxFrags
      /\ x.size \in Nat \ {0} /\ x.len \in Nat \ {0} /\ x.len <= x.size * MaxFrags
  BY DgramIs, FragConstants DEF Ids, IsDgram
<1>2. \A k \in Nat : k \in 0 .. Count(x.len, x.size) - 1 <=> k * x.size < x.len
  BY <1>1, CountIs
<1>3. Count(x.len, x.size) \in Nat \ {0}
  BY <1>1, CountIs
<1>4. ASSUME NEW o \in DOMAIN e.buf
      PROVE  \E k \in 0 .. Count(x.len, x.size) - 1 : o = k * x.size
  BY <1>1, <1>2 DEF EntryOK
<1>5. ASSUME NEW k \in 0 .. Count(x.len, x.size) - 1 PROVE k * x.size \in DOMAIN e.buf
  <2>1. k \in Nat /\ k * x.size < x.len /\ k * x.size \in Nat
    BY <1>1, <1>2, <1>3
  <2>2. k \in Ids
    <3>1. x.size * MaxFrags = MaxFrags * x.size /\ MaxFrags * x.size \in Nat
      BY <1>1
    <3>2. k * x.size < MaxFrags * x.size
      BY <1>1, <2>1, <3>1
    <3>3. k < MaxFrags
      BY <1>1, <2>1, <3>2, MulLess
    <3> QED
      BY <1>1, <2>1, <3>3 DEF Ids
  <2>3. PICK j \in Ids : Holds(e, j, x) /\ (j = k \/ (IsLast(x, j) /\ j <= k))
    BY <2>2 DEF EntryOK
  <2>4. j = k
    <3>1. CASE IsLast(x, j) /\ j <= k /\ j # k
      <4>1. j \in Nat /\ j * x.size \in Nat /\ j < k
        BY <1>1, <2>1, <3>1
      <4>2. j * x.size + x.size <= k * x.size
        BY <1>1, <2>1, <4>1, MulLess
      <4>3. x.len <= j * x.size + x.size
        BY <1>1, <3>1, <4>1 DEF IsLast
      <4> QED
        BY <1>1, <2>1, <4>1, <4>2, <4>3
    <3> QED
      BY <2>3, <3>1
  <2> QED
    BY <2>3, <2>4 DEF Holds
<1>6. 0 \in DOMAIN e.buf
  <2>1. 0 \in 0 .. Count(x.len, x.size) - 1 /\ 0 * x.size = 0
    BY <1>1, <1>3
  <2> QED
    BY <1>5, <2>1
<1>7. \A o \in DOMAIN e.buf : e.buf[o].d = d /\ e.buf[o].from = o
  BY DEF EntryOK
<1> QED
  BY <1>4, <1>5, <1>6, <1>7

\* When all fragments are there, all bits are set.
LEMMA AllHeldFull ==
  ASSUME NEW x, IsDgram(x), NEW d, NEW e, EntryOK(e, x, d), \A k \in Ids : k * x.size < x.len => Holds(e, k, x)
  PROVE  e.map = Ids
<1>1. /\ MaxFrags \in Nat \ {0} /\ \A j \in Ids : j \in Nat /\ j * x.size \in Nat /\ j < MaxFrags
      /\ x.size \in Nat \ {0} /\ x.len \in Nat \ {0} /\ x.len <= x.size * MaxFrags
  BY DgramIs, FragConstants DEF Ids, IsDgram
<1>2. PICK c \in Nat : c * x.size < x.len /\ x.len <= c * x.size + x.size /\ c * x.size \in Nat
  <2>1. PICK q \in Nat \ {0} : q = Count(x.len, x.size) /\ (q - 1) * x.size < x.len /\ x.len <= q * x.size
    BY <1>1, CountIs
  <2>2. q - 1 \in Nat /\ q = (q - 1) + 1
    OBVIOUS
  <2>3. (q - 1) * x.size \in Nat /\ q * x.size = (q - 1) * x.size + x.size
    BY <1>1, <2>2, MulStep
  <2> QED
    BY <2>1, <2>2, <2>3
<1>3. c \in Ids /\ IsLast(x, c)
  <2>1. x.size * MaxFrags = MaxFrags * x.size /\ MaxFrags * x.size \in Nat
    BY <1>1
  <2>2. c * x.size < MaxFrags * x.size
    BY <1>1, <1>2, <2>1
  <2>3. c < MaxFrags
    BY <1>1, <2>2, MulLess
  <2>4. IsLast(x, c)
    BY <1>1, <1>2 DEF IsLast
  <2> QED
    BY <1>1, <2>3, <2>4 DEF Ids
<1>4. ASSUME NEW k \in Ids PROVE k \in e.map
  <2>1. CASE k * x.size < x.len
    BY <2>1 DEF EntryOK
  <2>2. CASE ~(k * x.size < x.len)
    <3>1. c * x.size < k * x.size
      BY <1>1, <1>2, <2>2
    <3>2. c <= k
      BY <1>1, <3>1, MulLess
    <3>3. Holds(e, c, x)
      BY <1>2, <1>3
    <3> QED
      BY <1>3, <3>2, <3>3 DEF EntryOK
  <2> QED
    BY <2>1, <2>2
<1> QED
  BY <1>4 DEF EntryOK

-----------------------------------------------------------------------------
(* The list of partial datagrams.                                          *)

LEMMA MovedOK ==
  ASSUME NEW l, NEW dg, NEW sq, ListOK(l, dg, sq), NEW t, ListShape(t), Moved(l, t)
  PROVE  ListOK(t, dg, sq) /\ \A d : InPart(t, d) => InPart(l, d)
<1>1. ASSUME NEW b \in Places PROVE SlotOK(t.frags[Place(t, b)], PlaceSeq(t, b), dg, sq)
  <2>1. CASE t.frags[Place(t, b)] = NoFrag
    BY <2>1, NoFragIs DEF SlotOK
  <2>2. CASE t.frags[Place(t, b)] # NoFrag
    <3>1. PICK a \in Places : t.frags[Place(t, b)] = l.frags[Place(l, a)] /\ PlaceSeq(t, b) = PlaceSeq(l, a)
      BY <2>2 DEF Moved
    <3>2. SlotOK(l.frags[Place(l, a)], PlaceSeq(l, a), dg, sq)
      BY DEF ListOK
    <3> QED
      BY <3>1, <3>2
  <2> QED
    BY <2>1, <2>2
<1>2. ASSUME NEW d, InPart(t, d) PROVE InPart(l, d)
  <2>1. PICK i \in Places : t.frags[i].defined /\ \E o \in DOMAIN t.frags[i].buf : t.frags[i].buf[o].d = d
    BY <1>2 DEF InPart
  <2>2. PICK b \in Places : i = Place(t, b)
    BY PlacesAre
  <2>3. t.frags[Place(t, b)] # NoFrag
    BY <2>1, <2>2, NoFragIs
  <2>4. PICK a \in Places : t.frags[Place(t, b)] = l.frags[Place(l, a)]
    BY <2>3 DEF Moved
  <2>5. Place(l, a) \in Places
    BY PlacesAre DEF ListOK
  <2> QED
    BY <2>1, <2>2, <2>4, <2>5 DEF InPart
<1> QED
  BY <1>1, <1>2 DEF ListOK

\* A list with another entry in the slot c places behind the newest one.
Put(l, c, e) == [l EXCEPT !.frags[Place(l, c)] = e]

LEMMA PutIs ==
  ASSUME NEW l, ListShape(l), NEW c \in Places, NEW e, IsEntry(e), NEW t, t = Put(l, c, e)
  PROVE  /\ ListShape(t) /\ t.seq = l.seq /\ t.index = l.index
         /\ \A b \in Places : Place(t, b) = Place(l, b) /\ PlaceSeq(t, b) = PlaceSeq(l, b)
         /\ t.frags[Place(l, c)] = e
         /\ \A b \in Places : b # c => t.frags[Place(l, b)] = l.frags[Place(l, b)]
<1>1. PICK i \in Places : i = Place(l, c)
  BY PlacesAre
<1>2. /\ l = [seq |-> l.seq, index |-> l.index, frags |-> l.frags] /\ l.frags = [j \in Places |-> l.frags[j]]
      /\ l.seq \in 0 .. NSeqId - 1 /\ l.index \in Places /\ \A j \in Places : IsEntry(l.frags[j])
  BY DEF ListShape
<1>3. t = [seq |-> l.seq, index |-> l.index, frags |-> [l.frags EXCEPT ![i] = e]]
  BY <1>1, <1>2 DEF Put
<1>4. t.seq = l.seq /\ t.index = l.index /\ t.frags = [l.frags EXCEPT ![i] = e]
  BY <1>3
<1>5. t.frags = [j \in Places |-> t.frags[j]] /\ t.frags[i] = e /\ \A j \in Places : j # i => t.frags[j] = l.frags[j]
  BY <1>2, <1>4
<1>6. t = [seq |-> t.seq, index |-> t.index, frags |-> t.frags]
  BY <1>3, <1>4
<1>7. \A j \in Places : IsEntry(t.frags[j])
  BY <1>2, <1>5
<1>8. ListShape(t)
  BY <1>2, <1>4, <1>5, <1>6, <1>7 DEF ListShape
<1>9. \A b \in Places : Place(l, b) \in Places /\ (Place(l, b) = Place(l, c) => b = c)
  BY PlacesAre
<1> QED
  BY <1>1, <1>4, <1>5, <1>8, <1>9 DEF Place, PlaceSeq

LEMMA PutOK ==
  ASSUME NEW l, NEW dg, NEW sq, ListOK(l, dg, sq), NEW c \in Places, NEW e, IsEntry(e),
         SlotOK(e, PlaceSeq(l, c), dg, sq), NEW t, t = Put(l, c, e)
  PROVE  /\ ListOK(t, dg, sq)
         /\ \A d : InPart(t, d) => InPart(l, d) \/ (e.defined /\ \E o \in DOMAIN e.buf : e.buf[o].d = d)
<1>0. ListShape(l)
  BY DEF ListOK
<1>1. /\ ListShape(t)
      /\ \A b \in Places : Place(t, b) = Place(l, b) /\ PlaceSeq(t, b) = PlaceSeq(l, b)
      /\ t.frags[Place(l, c)] = e
      /\ \A b \in Places : b # c => t.frags[Place(l, b)] = l.frags[Place(l, b)]
  BY <1>0, PutIs
<1>2. ASSUME NEW b \in Places PROVE SlotOK(t.frags[Place(t, b)], PlaceSeq(t, b), dg, sq)
  <2>1. SlotOK(l.frags[Place(l, b)], PlaceSeq(l, b), dg, sq)
    BY DEF ListOK
  <2> QED
    BY <1>1, <2>1
<1>3. ASSUME NEW d, InPart(t, d) PROVE InPart(l, d) \/ (e.defined /\ \E o \in DOMAIN e.buf : e.buf[o].d = d)
  <2>1. PICK i \in Places : t.frags[i].defined /\ \E o \in DOMAIN t.frags[i].buf : t.frags[i].buf[o].d = d
    BY <1>3 DEF InPart
  <2>2. PICK b \in Places : i = Place(l, b)
    BY <1>0, PlacesAre
  <2> QED
    BY <1>1, <2>1, <2>2 DEF InPart
<1> QED
  BY <1>1, <1>2, <1>3 DEF ListOK

\* Datagrams that are not far apart have different sequence ids.
LEMMA SameDatagram ==
  ASSUME NEW dg, NEW sq, Len(dg) \in Nat, Numbered(dg, sq), NEW d \in 0 .. Len(dg), NEW e \in 0 .. Len(dg),
         sq[d] = sq[e], d - e < NSeqId, e - d < NSeqId
  PROVE  d = e
<1>1. ASSUME NEW a \in 0 .. Len(dg), NEW b \in 0 .. Len(dg), a <= b, b - a < NSeqId, sq[a] = sq[b] PROVE a = b
  <2>1. sq[b] = modulo_add(sq[a], b - a, NSeqId) /\ sq[a] \in 0 .. NSeqId - 1
    BY <1>1 DEF Numbered
  <2>2. PICK x \in 0 .. NSeqId - 1 : x = sq[a]
    BY <2>1
  <2>3. PICK y \in Int : y = b - a /\ y >= 0 /\ y < NSeqId
    BY <1>1
  <2>4. modulo_add(x, y, NSeqId) = x
    BY <1>1, <2>1, <2>2, <2>3
  <2>5. y = 0
    BY <2>3, <2>4, FragConstants DEF modulo_add
  <2> QED
    BY <2>3, <2>5
<1> QED
  BY <1>1

LEMMA SenderIs ==
  ASSUME NEW fr, NEW dg, NEW sq, SenderOK(fr, dg, sq)
  PROVE  /\ Len(dg) \in Nat /\ Numbered(dg, sq) /\ \A d \in 0 .. Len(dg) : sq[d] \in 0 .. NSeqId - 1
         /\ \A d \in 1 .. Len(dg) : IsDgram(dg[d]) /\ d \in 0 .. Len(dg) /\ sq[d] \in 0 .. NSeqId - 1
<1>1. dg \in Seq([len : Nat \ {0}, size : Nat \ {0}]) /\ Numbered(dg, sq) /\ \A d \in 1 .. Len(dg) : IsDgram(dg[d])
  BY DEF SenderOK
<1>2. Len(dg) \in Nat
  BY <1>1
<1>3. sq \in [0 .. Len(dg) -> 0 .. NSeqId - 1]
  BY <1>1 DEF Numbered
<1>4. \A d \in 1 .. Len(dg) : d \in 0 .. Len(dg)
  BY <1>2
<1>5. \A d \in 0 .. Len(dg) : sq[d] \in 0 .. NSeqId - 1
  BY <1>3
<1> QED
  BY <1>1, <1>2, <1>4, <1>5

\* What the arrival of fragment k of datagram d does: the entry y joins it to the partial
\* datagram, which is kept, or handed up when it is complete.
Arrives(l, t, c, y, r, dg, sq, d, k) ==
  /\ c \in Places /\ sq[d] = PlaceSeq(t, c)
  /\ IsEntry(y) /\ y.defined /\ EntryOK(y, dg[d], d) /\ y.map # {}
  /\ Holds(y, k, dg[d])
  /\ t.frags[Place(t, c)].defined => DOMAIN t.frags[Place(t, c)].buf \subseteq DOMAIN y.buf
  /\ IF y.map = Ids THEN r.list = Put(t, c, NoFrag) /\ r.up = {y.buf}
                    ELSE r.list = Put(t, c, y) /\ r.up = {}

LEMMA IncomingIs ==
  ASSUME NEW fr, NEW l, NEW n, NEW dg, NEW sq, SenderOK(fr, dg, sq), ListOK(l, dg, sq), Young(n, l, dg, MaxLag),
         NEW d \in 1 .. Len(dg), NEW k \in Ids, k * dg[d].size < dg[d].len,
         NEW f \in n, f = Piece(dg[d], sq[d], d, k),
         NEW t, t = fragment_list_get_buf(l, sq[d]), NEW r, r = fragment_incoming(l, f)
  PROVE  \E c, y : Arrives(l, t, c, y, r, dg, sq, d, k)
<1>1. Len(dg) \in Nat /\ Numbered(dg, sq) /\ sq[d] \in 0 .. NSeqId - 1 /\ IsDgram(dg[d]) /\ ListShape(l)
  BY SenderIs DEF ListOK
<1>2. /\ f.type # "WHOLE" /\ f.seq = sq[d] /\ f.id = k /\ f.size = dg[d].size /\ f.data.d = d
      /\ f.size % FRAG_SIZE_ROUND = 0 /\ ~(f.id * f.size + f.data.len > BufSize)
  BY <1>1, PieceIs
<1>3. ListShape(t) /\ Moved(l, t)
  BY <1>1, GetBufIs
<1>4. PICK c \in Places : sq[d] = PlaceSeq(t, c) /\ SlotOf(t, sq[d]) = Place(t, c)
  BY <1>1, GetBufIs
<1>5. ListOK(t, dg, sq) /\ \A dd : InPart(t, dd) => InPart(l, dd)
  BY <1>3, MovedOK
<1>6. PICK e : e = t.frags[Place(t, c)]
  OBVIOUS
<1>7. IsEntry(e) /\ Place(t, c) \in Places
  BY <1>3, <1>6, PlacesAre DEF ListShape
<1>8. ASSUME e.defined PROVE EntryOK(e, dg[d], d)
  <2>1. PICK dd \in 1 .. Len(dg) : sq[dd] = sq[d] /\ EntryOK(e, dg[dd], dd)
    BY <1>4, <1>5, <1>6, <1>8 DEF ListOK, SlotOK
  <2>2. \E o \in DOMAIN e.buf : e.buf[o].d = dd
    <3>1. e.map # {} /\ e.map \subseteq Ids
      BY <1>4, <1>5, <1>6, <1>8, <2>1 DEF ListOK, SlotOK, EntryOK
    <3>2. PICK j \in Ids : Holds(e, j, dg[dd])
      BY <2>1, <3>1 DEF EntryOK
    <3> QED
      BY <2>1, <3>2 DEF EntryOK, Holds
  <2>3. InPart(l, dd)
    BY <1>5, <1>6, <1>7, <1>8, <2>2 DEF InPart
  <2>4. InFlight(n, d)
    BY <1>2 DEF InFlight
  <2>5. Len(dg) - dd < MaxLag /\ Len(dg) - d < MaxLag
    BY <2>3, <2>4 DEF Young
  <2>6. dd - d < NSeqId /\ d - dd < NSeqId
    BY <1>1, <2>5, FragConstants
  <2>7. dd = d
    BY <1>1, <2>1, <2>6, SameDatagram
  <2> QED
    BY <2>1, <2>7
<1>9. PICK e1 : e1 = Started(e, f)
  OBVIOUS
<1>10. /\ IsEntry(e1) /\ e1.defined /\ EntryOK(e1, dg[d], d)
       /\ e.defined => e1 = e
  <2>1. FreeFor(e, dg[d], d)
    BY <1>8 DEF FreeFor
  <2>2. PICK x : x = dg[d]
    OBVIOUS
  <2> QED
    <3>1. f.size = x.size /\ FreeFor(e, x, d) /\ IsEntry(e) /\ e1 = Started(e, f)
      BY <1>2, <1>7, <1>9, <2>1, <2>2
    <3>2. /\ IsEntry(e1) /\ e1.defined /\ EntryOK(e1, x, d)
          /\ e.defined => e1 = e
      BY <3>1, StartedIs
    <3> QED
      BY <2>2, <3>2
<1>11. PICK y : y = Joined(e1, f)
  OBVIOUS
<1>12. /\ IsEntry(y) /\ y.defined /\ EntryOK(y, dg[d], d) /\ y.map # {}
       /\ DOMAIN y.buf = DOMAIN e1.buf \cup {k * dg[d].size}
  BY <1>1, <1>10, <1>11, JoinedIs
<1>13. IF y.map = Ids THEN r.list = Put(t, c, NoFrag) /\ r.up = {y.buf}
                      ELSE r.list = Put(t, c, y) /\ r.up = {}
  <2>1. r = CASE f.size % FRAG_SIZE_ROUND # 0 -> [list |-> t, up |-> {}]
              [] f.id * f.size + f.data.len > BufSize -> [list |-> [t EXCEPT !.frags[Place(t, c)] = e1], up |-> {}]
              [] y.map = 0 .. MaxFrags - 1 -> [list |-> [t EXCEPT !.frags[Place(t, c)] = NoFrag], up |-> {y.buf}]
              [] OTHER -> [list |-> [t EXCEPT !.frags[Place(t, c)] = y], up |-> {}]
    BY <1>2, <1>4, <1>6, <1>9, <1>11 DEF fragment_incoming
  <2>2. CASE y.map = Ids
    <3>1. r = [list |-> [t EXCEPT !.frags[Place(t, c)] = NoFrag], up |-> {y.buf}]
      BY <1>2, <2>1, <2>2 DEF Ids
    <3> QED
      BY <2>2, <3>1 DEF Put
  <2>3. CASE y.map # Ids
    <3>1. r = [list |-> [t EXCEPT !.frags[Place(t, c)] = y], up |-> {}]
      BY <1>2, <2>1, <2>3 DEF Ids
    <3> QED
      BY <2>3, <3>1 DEF Put
  <2> QED
    BY <2>2, <2>3
<1> QED
  BY <1>4, <1>6, <1>10, <1>12, <1>13 DEF Arrives, Holds

\* What is in the list, and what is handed up, after a fragment of datagram d arrived.
Accepted(ll, up, t, dg, sq, d) ==
  /\ ListOK(ll, dg, sq) /\ ll.seq = t.seq
  /\ \A b \in up : Genuine(b, dg)
  /\ \A dd : InPart(ll, dd) => InPart(t, dd) \/ dd = d

LEMMA ArrivesSafe ==
  ASSUME NEW l, NEW t, NEW c, NEW y, NEW r, NEW dg, NEW sq, NEW d \in 1 .. Len(dg), NEW k,
         IsDgram(dg[d]), ListOK(t, dg, sq), Arrives(l, t, c, y, r, dg, sq, d, k)
  PROVE  Accepted(r.list, r.up, t, dg, sq, d)
<1>1. PICK z : z = (IF y.map = Ids THEN NoFrag ELSE y)
  OBVIOUS
<1>2. r.list = Put(t, c, z) /\ IsEntry(z) /\ c \in Places /\ ListShape(t)
  BY <1>1, NoFragIs DEF Arrives, ListOK
<1>3. SlotOK(z, PlaceSeq(t, c), dg, sq)
  <2>1. CASE y.map = Ids
    BY <1>1, <2>1, NoFragIs DEF SlotOK
  <2>2. CASE y.map # Ids
    <3>1. z = y /\ y.map # {} /\ sq[d] = PlaceSeq(t, c) /\ EntryOK(y, dg[d], d)
      BY <1>1, <2>2 DEF Arrives
    <3> QED
      BY <2>2, <3>1 DEF SlotOK
  <2> QED
    BY <2>1, <2>2
<1>4. /\ ListOK(r.list, dg, sq)
      /\ \A dd : InPart(r.list, dd) => InPart(t, dd) \/ (z.defined /\ \E o \in DOMAIN z.buf : z.buf[o].d = dd)
  BY <1>2, <1>3, PutOK
<1>5. ASSUME NEW dd, z.defined, NEW o \in DOMAIN z.buf, z.buf[o].d = dd PROVE dd = d
  <2>1. z = y
    BY <1>1, <1>5, NoFragIs
  <2>2. EntryOK(y, dg[d], d)
    BY DEF Arrives
  <2> QED
    BY <1>5, <2>1, <2>2 DEF EntryOK
<1>6. ASSUME NEW b \in r.up PROVE Genuine(b, dg)
  <2>1. y.map = Ids /\ b = y.buf /\ EntryOK(y, dg[d], d)
    BY <1>6 DEF Arrives
  <2>2. /\ DOMAIN b = {j * dg[d].size : j \in 0 .. Count(dg[d].len, dg[d].size) - 1}
        /\ \A o \in DOMAIN b : b[o].d = d /\ b[o].from = o
    BY <2>1, FullIs
  <2>3. d \in 0 .. Len(dg) /\ d # 0
    OBVIOUS
  <2> QED
    BY <2>2, <2>3 DEF Genuine
<1>7. r.list.seq = t.seq
  BY <1>2, PutIs
<1> QED
  BY <1>4, <1>5, <1>6, <1>7 DEF Accepted

\* What the entry y holds has arrived.
LEMMA ArrivesHere ==
  ASSUME NEW l, NEW dg, NEW sq, NEW d \in 1 .. Len(dg), IsDgram(dg[d]),
         NEW t, ListOK(t, dg, sq), NEW c, NEW y, NEW r, NEW k, Arrives(l, t, c, y, r, dg, sq, d, k),
         NEW g, NEW j \in Ids, Holds(y, j, dg[d])
  PROVE  Arrived(r.list, g \cup r.up, dg, d, j)
<1>1. CASE y.map = Ids
  <2>1. y.buf \in r.up
    BY <1>1 DEF Arrives
  <2>2. y.buf[0].d = d
    <3>1. EntryOK(y, dg[d], d)
      BY DEF Arrives
    <3> QED
      BY <1>1, <3>1, FullIs
  <2> QED
    BY <2>1, <2>2 DEF Arrived
<1>2. CASE y.map # Ids
  <2>1. r.list = Put(t, c, y) /\ IsEntry(y) /\ c \in Places /\ ListShape(t) /\ y.defined /\ EntryOK(y, dg[d], d)
    BY <1>2 DEF Arrives, ListOK
  <2>2. r.list.frags[Place(t, c)] = y /\ Place(t, c) \in Places
    BY <2>1, PutIs, PlacesAre
  <2>3. y.buf[j * dg[d].size].d = d
    BY <2>1 DEF EntryOK, Holds
  <2> QED
    BY <2>1, <2>2, <2>3 DEF Arrived
<1> QED
  BY <1>1, <1>2

\* The sequence id of datagram d, from that of datagram r.
LEMMA SeqFrom ==
  ASSUME NEW dg, NEW sq, Len(dg) \in Nat, Numbered(dg, sq), NEW d \in 0 .. Len(dg), NEW r \in 0 .. Len(dg),
         d - r < NSeqId, r - d < NSeqId
  PROVE  sq[d] = modulo_add(sq[r], d - r, NSeqId)
<1>1. CASE r <= d
  BY <1>1 DEF Numbered
<1>2. CASE d < r
  <2>1. sq[r] = modulo_add(sq[d], r - d, NSeqId) /\ sq[d] \in 0 .. NSeqId - 1
    BY <1>2 DEF Numbered
  <2>2. PICK x \in 0 .. NSeqId - 1 : x = sq[d]
    BY <2>1
  <2>3. PICK y \in Int : y = r - d /\ 0 < y /\ y < NSeqId
    BY <1>2
  <2>4. modulo_add(modulo_add(x, y, NSeqId), 0 - y, NSeqId) = x
    BY <2>3, FragConstants DEF modulo_add
  <2>5. d - r = 0 - y
    BY <2>3
  <2> QED
    BY <2>1, <2>2, <2>3, <2>4, <2>5
<1> QED
  BY <1>1, <1>2

\* Where the window stands after a fragment of datagram d arrived, when r was the newest.
LEMMA WindowIs ==
  ASSUME NEW l, ListShape(l), NEW dg, NEW sq, Len(dg) \in Nat, Numbered(dg, sq),
         NEW d \in 0 .. Len(dg), NEW r \in 0 .. Len(dg), l.seq = sq[r], d - r <= NFragBuf, r - d < NFragBuf,
         NEW t, t = fragment_list_get_buf(l, sq[d]), NEW m, m = (IF d > r THEN d ELSE r)
  PROVE  t.seq = sq[m] /\ (d - r < NFragBuf => Survives(l, t))
<1>1. /\ sq[d] \in 0 .. NSeqId - 1 /\ sq[r] \in 0 .. NSeqId - 1
      /\ NSeqId \in Nat \ {0} /\ NFragBuf \in Nat \ {0} /\ 2 * NFragBuf <= NSeqId
  BY FragConstants DEF Numbered
<1>2. PICK k \in Int : k = d - r /\ k <= NFragBuf /\ 0 - k < NFragBuf
  OBVIOUS
<1>3. sq[d] = modulo_add(sq[r], k, NSeqId)
  <2>1. d - r < NSeqId /\ r - d < NSeqId
    BY FragConstants
  <2> QED
    BY <1>2, <2>1, SeqFrom
<1>4. PICK diff : diff = modulo_subtract(sq[d], l.seq, NSeqId)
  OBVIOUS
<1>5. 2 * k <= NSeqId /\ 0 - NSeqId <= 2 * k
  BY <1>1, <1>2
<1>6. Abs(diff) = Abs(k) /\ (2 * Abs(k) < NSeqId => diff = k)
  BY <1>1, <1>3, <1>4, <1>5, SubNear
<1>7. /\ t.seq = (IF diff > 0 \/ Abs(diff) >= NFragBuf THEN sq[d] ELSE l.seq)
      /\ Abs(diff) < NFragBuf => Survives(l, t)
  <2>1. PICK s \in 0 .. NSeqId - 1 : s = sq[d]
    BY <1>1
  <2>2. t = fragment_list_get_buf(l, s) /\ diff = modulo_subtract(s, l.seq, NSeqId)
    BY <1>4, <2>1
  <2>3. t.seq = IF diff > 0 \/ Abs(diff) >= NFragBuf THEN s ELSE l.seq
    BY <2>2, GetBufIs
  <2>4. Abs(diff) < NFragBuf => Survives(l, t)
    BY <2>2, GetBufIs
  <2> QED
    BY <2>1, <2>3, <2>4
<1>8. CASE k = NFragBuf
  <2>1. Abs(diff) >= NFragBuf /\ d > r
    BY <1>1, <1>2, <1>6, <1>8 DEF Abs
  <2> QED
    BY <1>2, <1>7, <1>8, <2>1
<1>9. CASE k # NFragBuf
  <2>1. Abs(k) < NFragBuf /\ Abs(k) \in Int
    BY <1>1, <1>2, <1>9 DEF Abs
  <2>2. diff = k /\ Abs(diff) < NFragBuf /\ ~(Abs(diff) >= NFragBuf)
    BY <1>1, <1>6, <2>1
  <2>3. diff > 0 <=> d > r
    BY <1>2, <2>2
  <2> QED
    BY <1>7, <2>2, <2>3
<1> QED
  BY <1>8, <1>9

\* A partial datagram is in the slot of its sequence id.
LEMMA PartIs ==
  ASSUME NEW l, NEW dg, NEW sq, ListOK(l, dg, sq), NEW i \in Places, l.frags[i].defined,
         NEW d, \E o \in DOMAIN l.frags[i].buf : l.frags[i].buf[o].d = d
  PROVE  d \in 1 .. Len(dg) /\ EntryOK(l.frags[i], dg[d], d) /\ \E a \in Places : i = Place(l, a) /\ sq[d] = PlaceSeq(l, a)
<1>1. PICK a \in Places : i = Place(l, a)
  BY PlacesAre DEF ListOK
<1>2. PICK dd \in 1 .. Len(dg) : sq[dd] = PlaceSeq(l, a) /\ EntryOK(l.frags[i], dg[dd], dd)
  BY <1>1 DEF ListOK, SlotOK
<1>3. dd = d
  BY <1>2 DEF EntryOK
<1> QED
  BY <1>1, <1>2, <1>3

\* Nothing that has arrived is lost when a fragment of datagram d arrives.
LEMMA ArrivesKeeps ==
  ASSUME NEW l, NEW dg, NEW sq, Len(dg) \in Nat, Numbered(dg, sq), ListOK(l, dg, sq),
         NEW d \in 1 .. Len(dg), IsDgram(dg[d]), NEW m \in 0 .. Len(dg), d <= m,
         NEW t, ListOK(t, dg, sq), t.seq = sq[m], Survives(l, t),
         NEW c, NEW y, NEW r, NEW k, Arrives(l, t, c, y, r, dg, sq, d, k),
         NEW g, NEW dd \in 1 .. Len(dg), NEW j \in Ids, Arrived(l, g, dg, dd, j),
         dd <= m, m - dd < NFragBuf, d - dd < NSeqId, dd - d < NSeqId
  PROVE  Arrived(r.list, g \cup r.up, dg, dd, j)
<1>0. ListShape(l) /\ ListShape(t) /\ c \in Places
  BY DEF ListOK, Arrives
<1>1. CASE \E b \in g : b[0].d = dd
  BY <1>1 DEF Arrived
<1>2. CASE \E i \in Places : /\ l.frags[i].defined /\ Holds(l.frags[i], j, dg[dd])
                             /\ l.frags[i].buf[j * dg[dd].size].d = dd
  <2>1. PICK i \in Places : /\ l.frags[i].defined /\ Holds(l.frags[i], j, dg[dd])
                            /\ l.frags[i].buf[j * dg[dd].size].d = dd
    BY <1>2
  <2>2. PICK a \in Places : i = Place(l, a) /\ sq[dd] = PlaceSeq(l, a)
    <3>1. PICK e : e = l.frags[i]
      OBVIOUS
    <3>2. e.defined /\ \E o \in DOMAIN e.buf : e.buf[o].d = dd
      BY <2>1, <3>1 DEF Holds
    <3> QED
      BY <3>1, <3>2, PartIs
  <2>3. m - dd \in Places /\ dd - m = 0 - (m - dd) /\ m - dd < NSeqId /\ dd - m < NSeqId
    <3>1. m \in Int /\ dd \in Int /\ 0 <= m - dd
      OBVIOUS
    <3> QED
      BY <3>1, FragConstants DEF Places
  <2>4. dd \in 0 .. Len(dg)
    OBVIOUS
  <2>5. PICK b \in Places : b = m - dd /\ sq[dd] = PlaceSeq(t, b)
    BY <2>3, <2>4, SeqFrom DEF PlaceSeq
  <2>6. t.frags[Place(t, b)] = l.frags[i]
    BY <2>2, <2>5 DEF Survives
  <2>7. CASE b # c
    <3>1. PICK z : z = (IF y.map = Ids THEN NoFrag ELSE y)
      OBVIOUS
    <3>2. r.list = Put(t, c, z) /\ IsEntry(z)
      BY <3>1, NoFragIs DEF Arrives
    <3>3. r.list.frags[Place(t, b)] = t.frags[Place(t, b)]
      BY <1>0, <2>7, <3>2, PutIs
    <3>4. Place(t, b) \in Places
      BY <1>0, PlacesAre
    <3> QED
      BY <2>1, <2>6, <3>3, <3>4 DEF Arrived
  <2>8. CASE b = c
    <3>1. sq[dd] = sq[d] /\ d \in 0 .. Len(dg)
      BY <2>5, <2>8 DEF Arrives
    <3>2. dd = d
      BY <2>4, <3>1, SameDatagram
    <3>3. DOMAIN t.frags[Place(t, c)].buf \subseteq DOMAIN y.buf /\ EntryOK(y, dg[d], d) /\ y.defined
      BY <2>1, <2>6, <2>8 DEF Arrives
    <3>4. Holds(y, j, dg[d])
      BY <2>1, <2>6, <2>8, <3>2, <3>3 DEF Holds
    <3> QED
      BY <3>2, <3>3, <3>4, ArrivesHere
  <2> QED
    BY <2>7, <2>8
<1> QED
  BY <1>1, <1>2 DEF Arrived

LEMMA PieceHas ==
  ASSUME NEW x, NEW s, NEW d, NEW k
  PROVE  Piece(x, s, d, k).data.d = d /\ Piece(x, s, d, k).id = k
BY DEF Piece, Bytes

-----------------------------------------------------------------------------
(* The steps: a fragment arrives.                                          *)

\* What is in flight is whole, or a fragment that was cut off.
LEMMA FlightIs ==
  ASSUME NEW fr, NEW dg, NEW sq, SenderOK(fr, dg, sq), NEW f, FlightOK(f, fr, dg, sq)
  PROVE  \/ WholeOK(f) /\ f.type = "WHOLE" /\ f.data.d = 0 /\ f.data.from = 0
         \/ \E d \in 1 .. Len(dg), k \in Ids :
              /\ k * dg[d].size < dg[d].len /\ f = Piece(dg[d], sq[d], d, k) /\ f.type # "WHOLE"
              /\ f.data.d = d /\ f.id = k
<1>1. CASE WholeOK(f)
  <2>1. f = [type |-> "WHOLE", data |-> Bytes(0, 0, f.data.len)]
    BY <1>1 DEF WholeOK
  <2>2. PICK w : w = f.data.len
    OBVIOUS
  <2>3. f.type = "WHOLE" /\ f.data = Bytes(0, 0, w)
    BY <2>1, <2>2
  <2> QED
    BY <1>1, <2>3 DEF Bytes
<1>2. CASE ~WholeOK(f)
  <2>1. PICK d \in 1 .. Len(dg), k \in Ids : k * dg[d].size < Sent(fr, dg, d) /\ f = Piece(dg[d], sq[d], d, k)
    BY <1>2 DEF FlightOK
  <2>2. IsDgram(dg[d]) /\ Len(dg) \in Nat
    BY SenderIs
  <2>3. k * dg[d].size \in Nat /\ dg[d].len \in Nat
    BY <2>2, DgramIs
  <2>4. k * dg[d].size < dg[d].len
    <3>1. CASE d = Len(dg)
      <4>1. fr.from \in Nat /\ fr.rest \in Nat /\ fr.from + fr.rest = dg[d].len
        BY <2>2, <3>1 DEF SenderOK
      <4> QED
        BY <2>1, <2>3, <3>1, <4>1 DEF Sent
    <3>2. CASE d # Len(dg)
      BY <2>1, <3>2 DEF Sent
    <3> QED
      BY <3>1, <3>2
  <2>5. f.type # "WHOLE" /\ f.data.d = d /\ f.id = k
    BY <2>1, <2>2, <2>4, PieceIs
  <2> QED
    BY <2>1, <2>4, <2>5
<1> QED
  BY <1>1, <1>2

\* A fragment of datagram d leaves the network, and datagram d may be in the list.
LEMMA YoungKept ==
  ASSUME NEW n, NEW l, NEW dg, NEW lag, Young(n, l, dg, lag), NEW nn, NEW ll, NEW d, InFlight(n, d),
         nn \subseteq n, \A dd : InPart(ll, dd) => InPart(l, dd) \/ dd = d
  PROVE  Young(nn, ll, dg, lag)
<1>1. \A dd : InFlight(nn, dd) => InFlight(n, dd)
  BY DEF InFlight
<1> QED
  BY <1>1 DEF Young

LEMMA CalmArrives ==
  ASSUME NEW fr, NEW l, NEW n, NEW dg, NEW g, NEW sq, SenderOK(fr, dg, sq), ListOK(l, dg, sq),
         \A ff \in n : FlightOK(ff, fr, dg, sq),
         NEW o, CalmOK(fr, l, n, dg, g, sq, o),
         NEW d \in 1 .. Len(dg), NEW k \in Ids, k * dg[d].size < dg[d].len,
         NEW f \in n, f = Piece(dg[d], sq[d], d, k),
         NEW t, t = fragment_list_get_buf(l, sq[d]), ListOK(t, dg, sq), \A dd : InPart(t, dd) => InPart(l, dd),
         NEW c, NEW y, NEW r, Arrives(l, t, c, y, r, dg, sq, d, k)
  PROVE  CalmOK(fr, r.list, n \ {f}, dg, g \cup r.up, sq, IF d > o THEN d ELSE o)
<1>1. /\ Len(dg) \in Nat /\ Numbered(dg, sq) /\ sq[d] \in 0 .. NSeqId - 1 /\ ListShape(l) /\ d \in 0 .. Len(dg)
      /\ \A e \in 1 .. Len(dg) : IsDgram(dg[e])
  BY SenderIs DEF ListOK
<1>2. f.type # "WHOLE" /\ f.data.d = d /\ f.id = k /\ InFlight(n, d)
  BY <1>1, PieceIs DEF InFlight
<1>3. /\ o \in 0 .. Len(dg) /\ l.seq = sq[o] /\ Len(dg) - o <= NFragBuf /\ Young(n, l, dg, NFragBuf)
      /\ \A e \in 1 .. Len(dg), j \in Ids :
           j * dg[e].size < Sent(fr, dg, e) => Piece(dg[e], sq[e], e, j) \in n \/ (e <= o /\ Arrived(l, g, dg, e, j))
  BY DEF CalmOK
<1>4. PICK m : m = (IF d > o THEN d ELSE o)
  OBVIOUS
<1>5. /\ m \in 0 .. Len(dg) /\ d <= m /\ o <= m /\ Len(dg) - m <= NFragBuf /\ Len(dg) - d < NFragBuf
      /\ d - o <= NFragBuf /\ o - d < NFragBuf
  <2>1. Len(dg) - d < NFragBuf
    BY <1>2, <1>3 DEF Young
  <2> QED
    BY <1>1, <1>3, <1>4, <2>1, FragConstants
<1>6. t.seq = sq[m] /\ (d - o < NFragBuf => Survives(l, t))
  BY <1>1, <1>3, <1>4, <1>5, WindowIs
<1>7. r.list.seq = sq[m] /\ \A dd : InPart(r.list, dd) => InPart(l, dd) \/ dd = d
  <2>1. IsDgram(dg[d])
    BY <1>1
  <2>2. Accepted(r.list, r.up, t, dg, sq, d)
    BY <2>1, ArrivesSafe
  <2>3. r.list.seq = t.seq /\ \A dd : InPart(r.list, dd) => InPart(t, dd) \/ dd = d
    BY <2>2 DEF Accepted
  <2> QED
    BY <1>6, <2>3
<1>8. Young(n \ {f}, r.list, dg, NFragBuf)
  BY <1>2, <1>3, <1>7, YoungKept
<1>9. ASSUME NEW e \in 1 .. Len(dg), NEW j \in Ids, j * dg[e].size < Sent(fr, dg, e)
      PROVE  Piece(dg[e], sq[e], e, j) \in n \ {f} \/ (e <= m /\ Arrived(r.list, g \cup r.up, dg, e, j))
  <2>1. CASE Piece(dg[e], sq[e], e, j) = f
    <3>1. e = d /\ j = k
      BY <1>2, <2>1, PieceHas
    <3>2. Holds(y, k, dg[d])
      BY DEF Arrives
    <3>3. Arrived(r.list, g \cup r.up, dg, d, k)
      BY <1>1, <3>2, ArrivesHere
    <3> QED
      BY <1>5, <3>1, <3>3
  <2>2. CASE Piece(dg[e], sq[e], e, j) \in n /\ Piece(dg[e], sq[e], e, j) # f
    BY <2>2
  <2>3. CASE e <= o /\ Arrived(l, g, dg, e, j)
    <3>1. e <= m
      BY <1>1, <1>3, <1>5, <2>3
    <3>2. CASE \E b \in g : b[0].d = e
      BY <3>1, <3>2 DEF Arrived
    <3>3. CASE \E i \in Places : /\ l.frags[i].defined /\ Holds(l.frags[i], j, dg[e])
                                 /\ l.frags[i].buf[j * dg[e].size].d = e
      <4>1. InPart(l, e)
        BY <3>3 DEF InPart, Holds
      <4>2. Len(dg) - e < NFragBuf
        BY <1>3, <4>1 DEF Young
      <4>3. d - o < NFragBuf /\ m - e < NFragBuf /\ d - e < NSeqId /\ e - d < NSeqId
        BY <1>1, <1>3, <1>5, <2>3, <4>2, FragConstants
      <4>4. Arrived(r.list, g \cup r.up, dg, e, j)
        BY <1>1, <1>5, <1>6, <2>3, <3>1, <4>3, ArrivesKeeps
      <4> QED
        BY <3>1, <4>4
    <3> QED
      BY <2>3, <3>2, <3>3 DEF Arrived
  <2> QED
    BY <1>3, <1>9, <2>1, <2>2, <2>3
<1>10. CalmOK(fr, r.list, n \ {f}, dg, g \cup r.up, sq, m)
  BY <1>5, <1>7, <1>8, <1>9 DEF CalmOK
<1> QED
  BY <1>4, <1>10

LEMMA PieceArrives ==
  ASSUME NEW fr, NEW l, NEW n, NEW dg, NEW g, NEW cm, NEW sq, FragState(fr, l, n, dg, g, cm, sq),
         NEW f \in n, f.type # "WHOLE", NEW r, r = fragment_incoming(l, f)
  PROVE  FragState(fr, r.list, n \ {f}, dg, g \cup r.up, cm, sq)
<1>1. /\ SenderOK(fr, dg, sq) /\ \A ff \in n : FlightOK(ff, fr, dg, sq)
      /\ ListOK(l, dg, sq) /\ ListShape(l) /\ \A b \in g : Genuine(b, dg)
      /\ Young(n, l, dg, MaxLag) /\ cm \in BOOLEAN
  BY DEF FragState, ListOK
<1>2. PICK d \in 1 .. Len(dg), k \in Ids :
        /\ k * dg[d].size < dg[d].len /\ f = Piece(dg[d], sq[d], d, k)
        /\ f.data.d = d /\ f.id = k
  BY <1>1, FlightIs
<1>3. PICK t : t = fragment_list_get_buf(l, sq[d])
  OBVIOUS
<1>4. sq[d] \in 0 .. NSeqId - 1 /\ IsDgram(dg[d]) /\ InFlight(n, d)
  BY <1>1, <1>2, SenderIs DEF InFlight
<1>5. ListShape(t) /\ Moved(l, t)
  BY <1>1, <1>3, <1>4, GetBufIs
<1>6. ListOK(t, dg, sq) /\ \A dd : InPart(t, dd) => InPart(l, dd)
  BY <1>1, <1>5, MovedOK
<1>7. PICK c, y : Arrives(l, t, c, y, r, dg, sq, d, k)
  BY <1>1, <1>2, <1>3, IncomingIs
<1>8. Accepted(r.list, r.up, t, dg, sq, d)
  BY <1>4, <1>6, <1>7, ArrivesSafe
<1>9. ListOK(r.list, dg, sq) /\ \A b \in g \cup r.up : Genuine(b, dg)
  BY <1>1, <1>8 DEF Accepted
<1>10. \A dd : InPart(r.list, dd) => InPart(l, dd) \/ dd = d
  BY <1>6, <1>8 DEF Accepted
<1>11. Young(n \ {f}, r.list, dg, MaxLag)
  BY <1>1, <1>4, <1>10, YoungKept
<1>12. ASSUME cm PROVE \E o \in 0 .. Len(dg) : CalmOK(fr, r.list, n \ {f}, dg, g \cup r.up, sq, o)
  <2>1. PICK o \in 0 .. Len(dg) : CalmOK(fr, l, n, dg, g, sq, o)
    BY <1>12 DEF FragState
  <2>2. CalmOK(fr, r.list, n \ {f}, dg, g \cup r.up, sq, IF d > o THEN d ELSE o)
    BY <1>1, <1>2, <1>3, <1>6, <1>7, <2>1, CalmArrives
  <2>3. (IF d > o THEN d ELSE o) \in 0 .. Len(dg)
    BY <1>1, SenderIs
  <2> QED
    BY <2>2, <2>3
<1> QED
  BY <1>1, <1>9, <1>11, <1>12 DEF FragState

LEMMA WholeArrives ==
  ASSUME NEW fr, NEW l, NEW n, NEW dg, NEW g, NEW cm, NEW sq, FragState(fr, l, n, dg, g, cm, sq),
         NEW f \in n, f.type = "WHOLE"
  PROVE  FragState(fr, l, n \ {f}, dg, g \cup {[o \in {0} |-> f.data]}, cm, sq)
<1>1. /\ SenderOK(fr, dg, sq) /\ \A ff \in n : FlightOK(ff, fr, dg, sq)
      /\ ListOK(l, dg, sq) /\ \A b \in g : Genuine(b, dg)
      /\ Young(n, l, dg, MaxLag) /\ cm \in BOOLEAN
  BY DEF FragState
<1>2. f.data.d = 0 /\ f.data.from = 0 /\ Len(dg) \in Nat
  BY <1>1, FlightIs, SenderIs
<1>3. PICK b : b = [o \in {0} |-> f.data]
  OBVIOUS
<1>4. Genuine(b, dg)
  <2>1. DOMAIN b = {0} /\ \A o \in DOMAIN b : b[o].d = 0 /\ b[o].from = o
    BY <1>2, <1>3
  <2>2. 0 \in 0 .. Len(dg)
    BY <1>2
  <2> QED
    BY <2>1, <2>2 DEF Genuine
<1>5. \A lag : Young(n, l, dg, lag) => Young(n \ {f}, l, dg, lag)
  BY DEF Young, InFlight
<1>6. ASSUME NEW o, CalmOK(fr, l, n, dg, g, sq, o) PROVE CalmOK(fr, l, n \ {f}, dg, g \cup {b}, sq, o)
  <2>1. ASSUME NEW d \in 1 .. Len(dg), NEW k \in Ids, k * dg[d].size < Sent(fr, dg, d)
        PROVE  Piece(dg[d], sq[d], d, k) \in n \ {f} \/ (d <= o /\ Arrived(l, g \cup {b}, dg, d, k))
    <3>1. Piece(dg[d], sq[d], d, k) # f
      BY <1>2, PieceHas
    <3>2. Piece(dg[d], sq[d], d, k) \in n \/ (d <= o /\ Arrived(l, g, dg, d, k))
      BY <1>6, <2>1 DEF CalmOK
    <3> QED
      BY <3>1, <3>2 DEF Arrived
  <2> QED
    BY <1>5, <1>6, <2>1 DEF CalmOK
<1>7. cm => \E o \in 0 .. Len(dg) : CalmOK(fr, l, n \ {f}, dg, g \cup {b}, sq, o)
  BY <1>6 DEF FragState
<1>8. \A bb \in g \cup {b} : Genuine(bb, dg)
  BY <1>1, <1>4
<1> QED
  BY <1>1, <1>3, <1>5, <1>7, <1>8 DEF FragState

-----------------------------------------------------------------------------
(* The steps: a datagram is sent.                                          *)

\* One fragment more has been cut off in to than in fr.
OneMore(fr, to, x) == \A k \in Ids : k * x.size < to.from <=> k * x.size < fr.from \/ k = fr.id

\* The next fragment of the pending datagram.
LEMMA CutIs ==
  ASSUME NEW fr, NEW dg, NEW sq, SenderOK(fr, dg, sq), fr.rest > 0,
         NEW x, x = dg[Len(dg)], NEW to, to = fragment_ready_to_send(fr)
  PROVE  /\ Len(dg) \in 1 .. Len(dg) /\ IsDgram(x) /\ fr.id \in Ids /\ fr.id * x.size < x.len
         /\ NextFragment(fr, Len(dg)) = Piece(x, sq[Len(dg)], Len(dg), fr.id)
         /\ SenderOK(to, dg, sq) /\ OneMore(fr, to, x)
<1>1. /\ fr = [seq |-> fr.seq, size |-> fr.size, id |-> fr.id, rest |-> fr.rest, from |-> fr.from]
      /\ fr.seq \in 0 .. NSeqId - 1 /\ fr.size \in Nat /\ fr.id \in 0 .. MaxFrags /\ fr.rest \in Nat /\ fr.from \in Nat
  BY DEF SenderOK
<1>2. Len(dg) \in Nat /\ Len(dg) # 0 /\ MaxFrags \in Nat \ {0}
  <2>1. Len(dg) \in Nat
    BY SenderIs
  <2>2. Len(dg) = 0 => fr.rest = 0
    BY DEF SenderOK
  <2> QED
    BY <1>1, <2>1, <2>2, FragConstants
<1>3. Len(dg) \in 1 .. Len(dg) /\ IsDgram(x)
  BY <1>2, SenderIs
<1>4. x.size \in Nat \ {0} /\ x.len \in Nat \ {0} /\ x.size % FRAG_SIZE_ROUND = 0 /\ x.len <= x.size * MaxFrags
  BY <1>3 DEF IsDgram
<1>5. /\ fr.size = x.size /\ fr.from = fr.id * x.size /\ fr.from + fr.rest = x.len /\ sq[Len(dg)] = fr.seq
      /\ MaxLag > 0
  BY <1>2 DEF SenderOK
<1>6. fr.id \in Nat /\ fr.id * x.size < x.len /\ fr.id < MaxFrags
  <2>1. fr.id \in Nat
    BY <1>1, <1>2
  <2>2. fr.id * x.size < x.len /\ fr.id * x.size \in Nat
    BY <1>1, <1>4, <1>5
  <2>3. x.size * MaxFrags = MaxFrags * x.size /\ MaxFrags * x.size \in Nat
    BY <1>2, <1>4
  <2>4. fr.id * x.size < MaxFrags * x.size
    BY <1>4, <2>2, <2>3
  <2> QED
    BY <1>2, <1>4, <2>1, <2>2, <2>4, MulLess
<1>7. PICK cut \in Nat : cut = CutLen(fr) /\ cut = (IF fr.rest <= x.size THEN fr.rest ELSE x.size)
  BY <1>1, <1>5 DEF CutLen
<1>8. IsLast(x, fr.id) <=> fr.rest <= fr.size
  <2>1. PICK p \in Nat : p = fr.id * x.size /\ p = fr.from
    BY <1>1, <1>5
  <2>2. IsLast(x, fr.id) <=> x.len - p <= x.size
    BY <2>1 DEF IsLast
  <2> QED
    BY <1>1, <1>4, <1>5, <2>1, <2>2
<1>9. NextFragment(fr, Len(dg)) = Piece(x, sq[Len(dg)], Len(dg), fr.id)
  <2>1. RoundDown(fr.size) = x.size
    BY <1>4, <1>5, RoundIs
  <2>2. fr.rest = x.len - fr.id * x.size
    BY <1>1, <1>4, <1>5
  <2>3. CASE fr.rest <= fr.size
    <3>1. NextFragment(fr, Len(dg)) =
            [type |-> "YES_LAST", seq |-> fr.seq, id |-> fr.id, size |-> x.size, data |-> Bytes(Len(dg), fr.from, fr.rest)]
      BY <2>1, <2>3 DEF NextFragment, CutLen
    <3>2. Piece(x, sq[Len(dg)], Len(dg), fr.id) =
            [type |-> "YES_LAST", seq |-> fr.seq, id |-> fr.id, size |-> x.size, data |-> Bytes(Len(dg), fr.from, fr.rest)]
      BY <1>5, <1>8, <2>2, <2>3 DEF Piece
    <3> QED
      BY <3>1, <3>2
  <2>4. CASE ~(fr.rest <= fr.size)
    <3>1. NextFragment(fr, Len(dg)) =
            [type |-> "YES_NOTLAST", seq |-> fr.seq, id |-> fr.id, size |-> x.size, data |-> Bytes(Len(dg), fr.from, x.size)]
      BY <1>5, <2>4 DEF NextFragment, CutLen
    <3>2. Piece(x, sq[Len(dg)], Len(dg), fr.id) =
            [type |-> "YES_NOTLAST", seq |-> fr.seq, id |-> fr.id, size |-> x.size, data |-> Bytes(Len(dg), fr.from, x.size)]
      BY <1>5, <1>8, <2>4 DEF Piece
    <3> QED
      BY <3>1, <3>2
  <2> QED
    BY <2>3, <2>4
<1>10. to = [seq |-> fr.seq, size |-> fr.size, id |-> fr.id + 1, rest |-> fr.rest - cut, from |-> fr.from + cut]
  BY <1>1, <1>7 DEF fragment_ready_to_send
<1>11. /\ to.seq = fr.seq /\ to.size = fr.size /\ to.id = fr.id + 1 /\ to.rest = fr.rest - cut /\ to.from = fr.from + cut
  BY <1>10
<1>12. /\ to.rest \in Nat /\ to.from \in Nat /\ to.id \in 0 .. MaxFrags /\ to.from + to.rest = x.len
       /\ to.rest > 0 => to.from = to.id * x.size
  <2>1. (fr.id + 1) * x.size = fr.id * x.size + x.size
    BY <1>4, <1>6, MulStep
  <2>2. to.rest \in Nat /\ to.from \in Nat /\ to.id \in 0 .. MaxFrags /\ to.from + to.rest = x.len
    <3>1. to.id \in 0 .. MaxFrags
      BY <1>2, <1>6, <1>11
    <3>2. cut <= fr.rest
      BY <1>1, <1>4, <1>7
    <3>3. fr.from + fr.rest = x.len
      BY <1>5
    <3>4. PICK a \in Nat, b \in Nat : a = fr.from /\ b = fr.rest
      BY <1>1
    <3>5. to.from = a + cut /\ to.rest = b - cut /\ a + b = x.len /\ cut <= b
      BY <1>11, <3>2, <3>3, <3>4
    <3> QED
      BY <3>1, <3>5
  <2>3. to.rest > 0 => cut = x.size
    BY <1>1, <1>4, <1>7, <1>11
  <2> QED
    BY <1>5, <1>11, <2>1, <2>2, <2>3
<1>13. SenderOK(to, dg, sq)
  <2>1. to \in [seq : 0 .. NSeqId - 1, size : Nat, id : 0 .. MaxFrags, rest : Nat, from : Nat]
    BY <1>1, <1>10, <1>11, <1>12
  <2>2. /\ dg \in Seq([len : Nat \ {0}, size : Nat \ {0}]) /\ \A d \in 1 .. Len(dg) : IsDgram(dg[d])
        /\ Numbered(dg, sq)
    BY DEF SenderOK
  <2>3. sq[Len(dg)] = to.seq
    BY <1>5, <1>11
  <2>4. to.rest > 0 => to.size = dg[Len(dg)].size /\ to.from = to.id * to.size
    BY <1>5, <1>11, <1>12
  <2> QED
    BY <1>2, <1>5, <1>12, <2>1, <2>2, <2>3, <2>4 DEF SenderOK
<1>14. ASSUME NEW k \in Ids PROVE k * x.size < to.from <=> k * x.size < fr.from \/ k = fr.id
  <2>1. k \in Nat /\ k * x.size \in Nat /\ fr.id * x.size \in Nat
    BY <1>4, <1>6, <1>2 DEF Ids
  <2>2. k < fr.id => k * x.size + x.size <= fr.id * x.size
    BY <1>4, <1>6, <2>1, MulLess
  <2>3. fr.id < k => fr.id * x.size + x.size <= k * x.size
    BY <1>4, <1>6, <2>1, MulLess
  <2>4. cut > 0 /\ cut <= x.size /\ to.from = fr.id * x.size + cut
    BY <1>1, <1>4, <1>5, <1>7, <1>11
  <2>5. PICK a \in Nat, b \in Nat : a = k * x.size /\ b = fr.id * x.size /\ b = fr.from /\ to.from = b + cut
    BY <1>5, <2>1, <2>4
  <2>6. (k < fr.id => a + x.size <= b) /\ (fr.id < k => b + x.size <= a) /\ (k = fr.id => a = b)
    BY <2>2, <2>3, <2>5
  <2>7. a < b + cut <=> a < b \/ k = fr.id
    <3>1. k \in Int /\ fr.id \in Int /\ x.size \in Int /\ cut > 0 /\ cut <= x.size
      BY <1>4, <1>6, <2>1, <2>4
    <3> QED
      BY <2>6, <3>1
  <2> QED
    BY <2>5, <2>7
<1>15. fr.id \in Ids
  BY <1>2, <1>6 DEF Ids
<1> QED
  BY <1>3, <1>6, <1>9, <1>13, <1>14, <1>15 DEF OneMore

LEMMA CutKeeps ==
  ASSUME NEW fr, NEW l, NEW n, NEW dg, NEW g, NEW cm, NEW sq, FragState(fr, l, n, dg, g, cm, sq), fr.rest > 0,
         NEW to, to = fragment_ready_to_send(fr), NEW f, f = NextFragment(fr, Len(dg))
  PROVE  FragState(to, l, n \cup {f}, dg, g, cm, sq)
<1>1. /\ SenderOK(fr, dg, sq) /\ \A ff \in n : FlightOK(ff, fr, dg, sq)
      /\ ListOK(l, dg, sq) /\ \A b \in g : Genuine(b, dg)
      /\ Young(n, l, dg, MaxLag) /\ cm \in BOOLEAN
  BY DEF FragState
<1>2. PICK x : x = dg[Len(dg)]
  OBVIOUS
<1>3. /\ Len(dg) \in 1 .. Len(dg) /\ IsDgram(x) /\ fr.id \in Ids /\ fr.id * x.size < x.len
      /\ f = Piece(x, sq[Len(dg)], Len(dg), fr.id)
      /\ SenderOK(to, dg, sq)
      /\ \A k \in Ids : k * x.size < to.from <=> k * x.size < fr.from \/ k = fr.id
  <2>1. SenderOK(fr, dg, sq) /\ x = dg[Len(dg)] /\ fr.rest > 0
    BY <1>1, <1>2
  <2> QED
    <3>1. Len(dg) \in 1 .. Len(dg) /\ IsDgram(x) /\ fr.id \in Ids /\ fr.id * x.size < x.len
      BY <2>1, CutIs
    <3>2. f = Piece(x, sq[Len(dg)], Len(dg), fr.id)
      BY <2>1, CutIs
    <3>3. SenderOK(to, dg, sq)
      BY <2>1, CutIs
    <3>4. OneMore(fr, to, x)
      BY <2>1, CutIs
    <3> QED
      BY <3>1, <3>2, <3>3, <3>4 DEF OneMore
<1>4. /\ \A d \in 1 .. Len(dg), k \in Ids :
           /\ k * dg[d].size < Sent(fr, dg, d) => k * dg[d].size < Sent(to, dg, d)
           /\ k * dg[d].size < Sent(to, dg, d) => k * dg[d].size < Sent(fr, dg, d) \/ (d = Len(dg) /\ k = fr.id)
      /\ fr.id * x.size < Sent(to, dg, Len(dg))
  BY <1>2, <1>3 DEF Sent
<1>5. ASSUME NEW ff \in n \cup {f} PROVE FlightOK(ff, to, dg, sq)
  <2>1. CASE ff = f
    BY <1>2, <1>3, <1>4, <2>1 DEF FlightOK
  <2>2. CASE ff # f
    BY <1>1, <1>4, <2>2 DEF FlightOK
  <2> QED
    BY <2>1, <2>2
<1>6. f.data.d = Len(dg) /\ Len(dg) \in Nat
  BY <1>1, <1>3, PieceHas, SenderIs
<1>7. ASSUME NEW lag \in Nat, lag > 0, Young(n, l, dg, lag) PROVE Young(n \cup {f}, l, dg, lag)
  <2>1. ASSUME NEW d \in 1 .. Len(dg), InFlight(n \cup {f}, d) \/ InPart(l, d) PROVE Len(dg) - d < lag
    <3>1. CASE d = Len(dg)
      BY <1>6, <1>7, <3>1
    <3>2. CASE d # Len(dg)
      BY <1>6, <1>7, <2>1, <3>2 DEF Young, InFlight
    <3> QED
      BY <3>1, <3>2
  <2> QED
    BY <2>1 DEF Young
<1>8. Young(n \cup {f}, l, dg, MaxLag)
  <2>1. MaxLag \in Nat /\ MaxLag > 0
    BY <1>1, <1>3, <1>6, FragConstants DEF SenderOK
  <2> QED
    BY <1>1, <1>7, <2>1
<1>9. ASSUME NEW o, CalmOK(fr, l, n, dg, g, sq, o) PROVE CalmOK(to, l, n \cup {f}, dg, g, sq, o)
  <2>1. NFragBuf \in Nat /\ NFragBuf > 0
    BY FragConstants
  <2>2. Young(n \cup {f}, l, dg, NFragBuf)
    BY <1>7, <1>9, <2>1 DEF CalmOK
  <2>3. ASSUME NEW d \in 1 .. Len(dg), NEW k \in Ids, k * dg[d].size < Sent(to, dg, d)
        PROVE  Piece(dg[d], sq[d], d, k) \in n \cup {f} \/ (d <= o /\ Arrived(l, g, dg, d, k))
    <3>1. CASE d = Len(dg) /\ k = fr.id
      BY <1>2, <1>3, <3>1
    <3>2. CASE k * dg[d].size < Sent(fr, dg, d)
      BY <1>9, <3>2 DEF CalmOK
    <3> QED
      BY <1>4, <2>3, <3>1, <3>2
  <2> QED
    BY <1>9, <2>2, <2>3 DEF CalmOK
<1>10. cm => \E o \in 0 .. Len(dg) : CalmOK(to, l, n \cup {f}, dg, g, sq, o)
  BY <1>9 DEF FragState
<1> QED
  BY <1>1, <1>3, <1>5, <1>8, <1>10 DEF FragState

\* The datagram that is fragmented gets the next sequence id.
LEMMA NumberNext ==
  ASSUME NEW dg, NEW dh, Len(dg) \in Nat, Len(dh) = Len(dg) + 1, NEW sq, Numbered(dg, sq),
         NEW s, s = modulo_add(sq[Len(dg)], 1, NSeqId),
         NEW sr, sr = [d \in 0 .. Len(dh) |-> IF d = Len(dh) THEN s ELSE sq[d]]
  PROVE  Numbered(dh, sr)
<1>1. /\ sq \in [0 .. Len(dg) -> 0 .. NSeqId - 1] /\ NSeqId \in Nat \ {0}
      /\ \A d, e \in 0 .. Len(dg) : d <= e /\ e - d < NSeqId => sq[e] = modulo_add(sq[d], e - d, NSeqId)
  BY FragConstants DEF Numbered
<1>2. \A d \in 0 .. Len(dh) : d \in 0 .. Len(dg) \/ d = Len(dh)
  OBVIOUS
<1>3. Len(dg) \in 0 .. Len(dg) /\ \A d \in 0 .. Len(dg) : d # Len(dh) /\ d \in 0 .. Len(dh) /\ sq[d] \in 0 .. NSeqId - 1
  BY <1>1
<1>4. \A d \in 0 .. Len(dg) : sr[d] = sq[d]
  BY <1>3
<1>5. s \in 0 .. NSeqId - 1 /\ sr[Len(dh)] = s
  <2>1. PICK y \in 0 .. NSeqId - 1 : y = sq[Len(dg)]
    BY <1>3
  <2>2. modulo_add(y, 1, NSeqId) \in 0 .. NSeqId - 1
    BY <1>1 DEF modulo_add
  <2>3. Len(dh) \in 0 .. Len(dh)
    OBVIOUS
  <2> QED
    BY <2>1, <2>2, <2>3
<1>6. sr \in [0 .. Len(dh) -> 0 .. NSeqId - 1]
  BY <1>2, <1>3, <1>5
<1>7. ASSUME NEW d \in 0 .. Len(dh), NEW e \in 0 .. Len(dh), d <= e, e - d < NSeqId
      PROVE  sr[e] = modulo_add(sr[d], e - d, NSeqId)
  <2>1. CASE e \in 0 .. Len(dg)
    <3>1. d \in 0 .. Len(dg)
      BY <1>7, <2>1
    <3> QED
      BY <1>1, <1>4, <1>7, <2>1, <3>1
  <2>2. CASE e = Len(dh) /\ d = Len(dh)
    <3>1. e - d = 0 /\ sr[e] \in 0 .. NSeqId - 1
      BY <1>5, <2>2
    <3>2. PICK y \in 0 .. NSeqId - 1 : y = sr[e]
      BY <3>1
    <3>3. modulo_add(y, 0, NSeqId) = y
      BY <1>1 DEF modulo_add
    <3> QED
      BY <2>2, <3>1, <3>2, <3>3
  <2>3. CASE e = Len(dh) /\ d \in 0 .. Len(dg)
    <3>1. PICK y \in 0 .. NSeqId - 1 : y = sq[d] /\ y = sr[d]
      BY <1>3, <1>4, <2>3
    <3>2. PICK z \in Int : z = Len(dg) - d /\ z \in (0 - NSeqId) .. NSeqId /\ z + 1 \in (1 - NSeqId) .. NSeqId - 1 /\ e - d = z + 1
      <4>1. Len(dg) - d \in Int /\ e - d = (Len(dg) - d) + 1
        BY <2>3
      <4>2. PICK z \in Int : z = Len(dg) - d
        BY <4>1
      <4>3. 0 <= z /\ e - d = z + 1 /\ z + 1 < NSeqId
        BY <1>7, <2>3, <4>1, <4>2
      <4> QED
        <5>1. z \in (0 - NSeqId) .. NSeqId /\ z + 1 \in (1 - NSeqId) .. NSeqId - 1
          BY <1>1, <4>3
        <5> QED
          BY <4>2, <4>3, <5>1
    <3>3. sq[Len(dg)] = modulo_add(y, z, NSeqId)
      <4>0. e = Len(dg) + 1 /\ e - d < NSeqId /\ d \in 0 .. Len(dg)
        BY <1>7, <2>3
      <4>1. d <= Len(dg) /\ Len(dg) - d < NSeqId
        BY <1>1, <4>0
      <4>2. sq[Len(dg)] = modulo_add(sq[d], Len(dg) - d, NSeqId)
        BY <1>1, <1>3, <2>3, <4>1
      <4> QED
        BY <3>1, <3>2, <4>2
    <3>4. 1 \in (0 - NSeqId) .. NSeqId
      BY <1>1
    <3>5. modulo_add(modulo_add(y, z, NSeqId), 1, NSeqId) = modulo_add(y, z + 1, NSeqId)
      BY <1>1, <3>2, <3>4, AddTwice
    <3> QED
      BY <1>5, <2>3, <3>1, <3>2, <3>3, <3>5
  <2> QED
    BY <1>2, <2>1, <2>2, <2>3
<1> QED
  BY <1>6, <1>7 DEF Numbered

\* The histories dh, sr extend dg, sq by one datagram.
Extends(dg, dh, sq, sr) ==
  /\ Len(dg) \in Nat /\ Len(dh) = Len(dg) + 1
  /\ \A d \in 1 .. Len(dg) : d \in 1 .. Len(dh) /\ dh[d] = dg[d] /\ sr[d] = sq[d]
  /\ \A d \in 0 .. Len(dg) : d \in 0 .. Len(dh) /\ sr[d] = sq[d]

LEMMA ExtendsKeeps ==
  ASSUME NEW dg, NEW dh, NEW sq, NEW sr, Extends(dg, dh, sq, sr)
  PROVE  /\ \A b : Genuine(b, dg) => Genuine(b, dh)
         /\ \A l : ListOK(l, dg, sq) => ListOK(l, dh, sr)
<1>1. ASSUME NEW b, Genuine(b, dg) PROVE Genuine(b, dh)
  <2>1. PICK d \in 0 .. Len(dg) :
          /\ \A o \in DOMAIN b : b[o].d = d /\ b[o].from = o
          /\ IF d = 0 THEN DOMAIN b = {0}
             ELSE DOMAIN b = {k * dg[d].size : k \in 0 .. Count(dg[d].len, dg[d].size) - 1}
    BY <1>1 DEF Genuine
  <2>2. d \in 0 .. Len(dh) /\ (d # 0 => dh[d] = dg[d])
    BY DEF Extends
  <2>3. IF d = 0 THEN DOMAIN b = {0}
        ELSE DOMAIN b = {k * dh[d].size : k \in 0 .. Count(dh[d].len, dh[d].size) - 1}
    <3>1. CASE d = 0
      BY <2>1, <3>1
    <3>2. CASE d # 0
      BY <2>1, <2>2, <3>2
    <3> QED
      BY <3>1, <3>2
  <2> QED
    BY <2>1, <2>2, <2>3 DEF Genuine
<1>2. ASSUME NEW e, NEW s, SlotOK(e, s, dg, sq) PROVE SlotOK(e, s, dh, sr)
  <2>1. CASE ~e.defined
    BY <2>1 DEF SlotOK
  <2>2. CASE e.defined
    <3>1. e.map # {} /\ e.map # Ids
      BY <1>2, <2>2 DEF SlotOK
    <3>2. PICK d \in 1 .. Len(dg) : sq[d] = s /\ EntryOK(e, dg[d], d)
      BY <1>2, <2>2 DEF SlotOK
    <3>3. d \in 1 .. Len(dh) /\ dh[d] = dg[d] /\ sr[d] = sq[d]
      BY DEF Extends
    <3> QED
      BY <3>1, <3>2, <3>3 DEF SlotOK
  <2> QED
    BY <2>1, <2>2
<1>3. ASSUME NEW l, ListOK(l, dg, sq) PROVE ListOK(l, dh, sr)
  BY <1>2, <1>3 DEF ListOK
<1> QED
  BY <1>1, <1>3

\* The channel is calm only if it was and what is alive is in the window.
Calmer(cn, cm, n, l, dh) == cn => cm /\ Young(n, l, dh, NFragBuf)

LEMMA NewKeeps ==
  ASSUME NEW fr, NEW l, NEW n, NEW dg, NEW g, NEW cm, NEW sq, FragState(fr, l, n, dg, g, cm, sq), fr.rest = 0,
         NEW len, NEW size, NEW x, x = [len |-> len, size |-> size], IsDgram(x),
         NEW to, to = NewDatagram(fr, len, size), NEW dh, dh = Append(dg, x), NEW cn \in BOOLEAN,
         MaxLag > 0, Young(n, l, dh, MaxLag), Calmer(cn, cm, n, l, dh)
  PROVE  \E sr \in [0 .. Len(dh) -> 0 .. NSeqId - 1] : FragState(to, l, n, dh, g, cn, sr)
<1>1. /\ SenderOK(fr, dg, sq) /\ \A ff \in n : FlightOK(ff, fr, dg, sq)
      /\ ListOK(l, dg, sq) /\ \A b \in g : Genuine(b, dg)
  BY DEF FragState
<1>2. /\ fr = [seq |-> fr.seq, size |-> fr.size, id |-> fr.id, rest |-> fr.rest, from |-> fr.from]
      /\ fr.seq \in 0 .. NSeqId - 1 /\ fr.from \in Nat /\ Len(dg) \in Nat /\ Numbered(dg, sq) /\ sq[Len(dg)] = fr.seq
      /\ Len(dg) > 0 => fr.from + fr.rest = dg[Len(dg)].len
  BY <1>1, SenderIs DEF SenderOK
<1>3. x \in [len : Nat \ {0}, size : Nat \ {0}] /\ x.len = len /\ x.size = size /\ len \in Nat /\ len > 0 /\ size \in Nat
  BY DEF IsDgram
<1>4. /\ dg \in Seq([len : Nat \ {0}, size : Nat \ {0}]) /\ \A d \in 1 .. Len(dg) : IsDgram(dg[d])
  BY <1>1 DEF SenderOK
<1>5. /\ dh \in Seq([len : Nat \ {0}, size : Nat \ {0}]) /\ Len(dh) = Len(dg) + 1 /\ dh[Len(dh)] = x
      /\ \A d \in 1 .. Len(dg) : dh[d] = dg[d]
  BY <1>3, <1>4, AppendProperties
<1>6. PICK s : s = modulo_add(sq[Len(dg)], 1, NSeqId)
  OBVIOUS
<1>7. PICK sr : sr = [d \in 0 .. Len(dh) |-> IF d = Len(dh) THEN s ELSE sq[d]]
  OBVIOUS
<1>8. Numbered(dh, sr)
  BY <1>2, <1>5, <1>6, <1>7, NumberNext
<1>9. Extends(dg, dh, sq, sr) /\ sr[Len(dh)] = s
  <2>1. \A d \in 0 .. Len(dg) : d \in 0 .. Len(dh) /\ d # Len(dh)
    BY <1>2, <1>5
  <2>2. \A d \in 1 .. Len(dg) : d \in 0 .. Len(dg) /\ d \in 1 .. Len(dh)
    BY <1>2, <1>5
  <2>3. Len(dh) \in 0 .. Len(dh)
    BY <1>2, <1>5
  <2> QED
    BY <1>2, <1>5, <1>7, <2>1, <2>2, <2>3 DEF Extends
<1>10. to = [seq |-> s, size |-> size, id |-> 0, rest |-> len, from |-> 0]
  <2>1. s = modulo_add(fr.seq, 1, NSeqId)
    BY <1>2, <1>6
  <2> QED
    BY <1>2, <2>1 DEF NewDatagram
<1>11. to.seq = s /\ to.size = size /\ to.id = 0 /\ to.rest = len /\ to.from = 0
  BY <1>10
<1>12. \A d \in 1 .. Len(dh) : d \in 1 .. Len(dg) \/ d = Len(dh)
  BY <1>2, <1>5
<1>13. SenderOK(to, dh, sr)
  <2>1. s \in 0 .. NSeqId - 1
    <3>1. sr \in [0 .. Len(dh) -> 0 .. NSeqId - 1] /\ Len(dh) \in 0 .. Len(dh)
      BY <1>2, <1>5, <1>8 DEF Numbered
    <3> QED
      BY <1>9, <3>1
  <2>2. 0 \in 0 .. MaxFrags
    BY FragConstants
  <2>3. to \in [seq : 0 .. NSeqId - 1, size : Nat, id : 0 .. MaxFrags, rest : Nat, from : Nat]
    BY <1>3, <1>10, <2>1, <2>2
  <2>4. \A d \in 1 .. Len(dh) : IsDgram(dh[d])
    BY <1>4, <1>5, <1>12
  <2>5. Len(dh) > 0 /\ Len(dh) # 0
    BY <1>2, <1>5
  <2>6. to.from + to.rest = dh[Len(dh)].len /\ to.size = dh[Len(dh)].size /\ to.from = to.id * to.size
    BY <1>3, <1>5, <1>11
  <2> QED
    BY <1>5, <1>8, <1>9, <1>11, <2>3, <2>4, <2>5, <2>6 DEF SenderOK
<1>14. /\ \A d \in 1 .. Len(dg) : Sent(to, dh, d) = dg[d].len /\ Sent(fr, dg, d) = dg[d].len /\ d # Len(dh)
       /\ Sent(to, dh, Len(dh)) = 0
  <2>1. ASSUME NEW d \in 1 .. Len(dg) PROVE Sent(to, dh, d) = dg[d].len /\ d # Len(dh)
    BY <1>2, <1>5 DEF Sent
  <2>2. ASSUME NEW d \in 1 .. Len(dg) PROVE Sent(fr, dg, d) = dg[d].len
    <3>1. CASE d = Len(dg)
      <4>1. fr.from + fr.rest = dg[d].len
        BY <1>2, <3>1
      <4> QED
        BY <1>2, <3>1, <4>1 DEF Sent
    <3>2. CASE d # Len(dg)
      BY <3>2 DEF Sent
    <3> QED
      BY <3>1, <3>2
  <2> QED
    BY <1>11, <2>1, <2>2 DEF Sent
<1>15. ASSUME NEW ff \in n PROVE FlightOK(ff, to, dh, sr)
  <2>1. CASE WholeOK(ff)
    BY <2>1 DEF FlightOK
  <2>2. CASE ~WholeOK(ff)
    <3>1. PICK d \in 1 .. Len(dg), k \in Ids : k * dg[d].size < Sent(fr, dg, d) /\ ff = Piece(dg[d], sq[d], d, k)
      BY <1>1, <2>2 DEF FlightOK
    <3>2. d \in 1 .. Len(dh) /\ dh[d] = dg[d] /\ sr[d] = sq[d]
      BY <1>9 DEF Extends
    <3>3. k * dh[d].size < Sent(to, dh, d)
      BY <1>14, <3>1, <3>2
    <3> QED
      BY <3>1, <3>2, <3>3 DEF FlightOK
  <2> QED
    BY <2>1, <2>2
<1>16. ListOK(l, dh, sr) /\ \A b \in g : Genuine(b, dh)
  BY <1>1, <1>9, ExtendsKeeps
<1>17. ASSUME cn PROVE \E o \in 0 .. Len(dh) : CalmOK(to, l, n, dh, g, sr, o)
  <2>1. cm /\ Young(n, l, dh, NFragBuf)
    BY <1>17 DEF Calmer
  <2>2. PICK o \in 0 .. Len(dg) : CalmOK(fr, l, n, dg, g, sq, o)
    BY <2>1 DEF FragState
  <2>3. /\ o \in 0 .. Len(dh) /\ sr[o] = sq[o] /\ l.seq = sq[o]
        /\ \A d \in 1 .. Len(dg), k \in Ids :
             k * dg[d].size < Sent(fr, dg, d) =>
               Piece(dg[d], sq[d], d, k) \in n \/ (d <= o /\ Arrived(l, g, dg, d, k))
    BY <1>9, <2>2 DEF CalmOK, Extends
  <2>4. Len(dh) - o <= NFragBuf
    <3>1. CASE o = Len(dg)
      BY <1>2, <1>5, <3>1, FragConstants
    <3>2. CASE o # Len(dg)
      <4>1. PICK d \in 1 .. Len(dg) : d = o + 1 /\ ~(d <= o)
        BY <1>2, <3>2
      <4>2. 0 \in Ids /\ 0 * dg[d].size < Sent(fr, dg, d)
        <5>1. dg[d].size \in Nat /\ dg[d].len \in Nat \ {0}
          BY <1>4 DEF IsDgram
        <5>2. 0 * dg[d].size = 0 /\ Sent(fr, dg, d) = dg[d].len
          BY <1>14, <5>1
        <5> QED
          BY <5>1, <5>2, FragConstants DEF Ids
      <4>3. Piece(dg[d], sq[d], d, 0) \in n
        BY <2>3, <4>1, <4>2
      <4>4. InFlight(n, d)
        <5>1. PICK p \in n : p = Piece(dg[d], sq[d], d, 0)
          BY <4>3
        <5>2. p.data.d = d
          BY <5>1, PieceHas
        <5>3. p.type # "WHOLE"
          BY <5>1 DEF Piece
        <5> QED
          BY <5>2, <5>3 DEF InFlight
      <4>5. Len(dh) - d < NFragBuf
        BY <1>9, <2>1, <4>4 DEF Young, Extends
      <4>6. PICK a \in Nat : a = Len(dg) /\ Len(dh) = a + 1
        BY <1>2, <1>5
      <4>7. a + 1 - (o + 1) < NFragBuf
        BY <4>1, <4>5, <4>6
      <4>8. a + 1 - o <= NFragBuf
        BY <4>7, FragConstants
      <4> QED
        BY <4>6, <4>8
    <3> QED
      BY <3>1, <3>2
  <2>5. ASSUME NEW d \in 1 .. Len(dh), NEW k \in Ids, k * dh[d].size < Sent(to, dh, d)
        PROVE  Piece(dh[d], sr[d], d, k) \in n \/ (d <= o /\ Arrived(l, g, dh, d, k))
    <3>1. CASE d = Len(dh)
      <4>1. dh[d].size \in Nat /\ k \in Nat /\ k * dh[d].size \in Nat
        BY <1>3, <1>5, <3>1, FragConstants DEF Ids
      <4> QED
        BY <1>14, <2>5, <3>1, <4>1
    <3>2. CASE d \in 1 .. Len(dg)
      <4>1. dh[d] = dg[d] /\ sr[d] = sq[d]
        BY <1>9, <3>2 DEF Extends
      <4>2. k * dg[d].size < Sent(fr, dg, d)
        BY <1>14, <2>5, <3>2, <4>1
      <4>3. Piece(dg[d], sq[d], d, k) \in n \/ (d <= o /\ Arrived(l, g, dg, d, k))
        BY <2>3, <3>2, <4>2
      <4> QED
        BY <4>1, <4>3 DEF Arrived
    <3> QED
      BY <1>12, <3>1, <3>2
  <2>6. CalmOK(to, l, n, dh, g, sr, o)
    BY <2>1, <2>3, <2>4, <2>5 DEF CalmOK
  <2> QED
    BY <2>3, <2>6
<1>18. sr \in [0 .. Len(dh) -> 0 .. NSeqId - 1]
  BY <1>8 DEF Numbered
<1>19. FragState(to, l, n, dh, g, cn, sr)
  BY <1>13, <1>15, <1>16, <1>17 DEF FragState
<1> QED
  BY <1>18, <1>19

\* A datagram is sent whole.
LEMMA WholeKeeps ==
  ASSUME NEW fr, NEW l, NEW n, NEW dg, NEW g, NEW cm, NEW sq, FragState(fr, l, n, dg, g, cm, sq),
         NEW len, NEW f, f = [type |-> "WHOLE", data |-> Bytes(0, 0, len)]
  PROVE  FragState(fr, l, n \cup {f}, dg, g, cm, sq)
<1>1. f.type = "WHOLE" /\ f.data = Bytes(0, 0, len) /\ f.data.len = len
  BY DEF Bytes
<1>2. FlightOK(f, fr, dg, sq)
  BY <1>1 DEF FlightOK, WholeOK
<1>3. \A d : InFlight(n \cup {f}, d) => InFlight(n, d)
  BY <1>1 DEF InFlight
<1>4. \A lag : Young(n, l, dg, lag) => Young(n \cup {f}, l, dg, lag)
  BY <1>3 DEF Young
<1>5. \A o : CalmOK(fr, l, n, dg, g, sq, o) => CalmOK(fr, l, n \cup {f}, dg, g, sq, o)
  BY <1>4 DEF CalmOK
<1>6. cm => \E o \in 0 .. Len(dg) : CalmOK(fr, l, n \cup {f}, dg, g, sq, o)
  BY <1>5 DEF FragState
<1> QED
  BY <1>2, <1>4, <1>6 DEF FragState

\* A datagram that needs too many fragments leaves its fragment size behind.
LEMMA SizeKeeps ==
  ASSUME NEW fr, NEW l, NEW n, NEW dg, NEW g, NEW cm, NEW sq, FragState(fr, l, n, dg, g, cm, sq), fr.rest = 0,
         NEW size \in Nat, NEW to, to = [fr EXCEPT !.size = size]
  PROVE  FragState(to, l, n, dg, g, cm, sq)
<1>1. SenderOK(fr, dg, sq) /\ fr \in [seq : 0 .. NSeqId - 1, size : Nat, id : 0 .. MaxFrags, rest : Nat, from : Nat]
  BY DEF FragState, SenderOK
<1>2. /\ to \in [seq : 0 .. NSeqId - 1, size : Nat, id : 0 .. MaxFrags, rest : Nat, from : Nat]
      /\ to.seq = fr.seq /\ to.rest = fr.rest /\ to.from = fr.from
  BY <1>1
<1>3. SenderOK(to, dg, sq)
  <2>1. ~(to.rest > 0)
    BY <1>2
  <2> QED
    BY <1>1, <1>2, <2>1 DEF SenderOK
<1>4. \A d : Sent(to, dg, d) = Sent(fr, dg, d)
  BY <1>2 DEF Sent
<1>5. \A f : FlightOK(f, fr, dg, sq) => FlightOK(f, to, dg, sq)
  BY <1>4 DEF FlightOK
<1>6. \A o : CalmOK(fr, l, n, dg, g, sq, o) => CalmOK(to, l, n, dg, g, sq, o)
  BY <1>4 DEF CalmOK
<1>7. cm => \E o \in 0 .. Len(dg) : CalmOK(to, l, n, dg, g, sq, o)
  BY <1>6 DEF FragState
<1> QED
  BY <1>3, <1>5, <1>7 DEF FragState

\* Fragments are lost and partial datagrams expire.
LEMMA LossKeeps ==
  ASSUME NEW fr, NEW l, NEW n, NEW dg, NEW g, NEW cm, NEW sq, FragState(fr, l, n, dg, g, cm, sq),
         NEW nn, nn \subseteq n, NEW ll, ListShape(ll), Moved(l, ll)
  PROVE  FragState(fr, ll, nn, dg, g, FALSE, sq)
<1>1. /\ SenderOK(fr, dg, sq) /\ \A f \in n : FlightOK(f, fr, dg, sq)
      /\ ListOK(l, dg, sq) /\ \A b \in g : Genuine(b, dg) /\ Young(n, l, dg, MaxLag)
  BY DEF FragState
<1>2. ListOK(ll, dg, sq) /\ \A d : InPart(ll, d) => InPart(l, d)
  BY <1>1, MovedOK
<1>3. Young(nn, ll, dg, MaxLag)
  <2>1. \A d : InFlight(nn, d) => InFlight(n, d)
    BY DEF InFlight
  <2>2. Young(n, l, dg, MaxLag)
    BY DEF FragState
  <2> QED
    BY <1>2, <2>1, <2>2 DEF Young
<1> QED
  BY <1>1, <1>2, <1>3 DEF FragState

-----------------------------------------------------------------------------
(* The invariant.                                                          *)

LEMMA FragInitOK ==
  FragInit => FragIInv
<1> SUFFICES ASSUME FragInit PROVE FragIInv
  OBVIOUS
<1>1. PICK q \in Starts : frag = [seq |-> q, size |-> 0, id |-> 0, rest |-> 0, from |-> 0] /\ calm = (q = 0)
  BY DEF FragInit
<1>2. /\ list = [seq |-> 0, index |-> 0, frags |-> [i \in Places |-> NoFrag]]
      /\ net = {} /\ dgrams = <<>> /\ got = {}
  BY DEF FragInit, Places
<1>3. PICK sq : sq = [d \in 0 .. 0 |-> q]
  OBVIOUS
<1>4. q \in 0 .. NSeqId - 1 /\ 0 \in 0 .. NSeqId - 1 /\ 0 \in 0 .. MaxFrags /\ 0 \in Places
  BY FragmentAssumption, FragConstants DEF Places
<1>5. /\ Len(dgrams) = 0 /\ dgrams \in Seq([len : Nat \ {0}, size : Nat \ {0}]) /\ 1 .. Len(dgrams) = {}
      /\ sq \in [0 .. Len(dgrams) -> 0 .. NSeqId - 1] /\ sq[0] = q
  BY <1>2, <1>3, <1>4
<1>6. Numbered(dgrams, sq)
  <2>1. ASSUME NEW d \in 0 .. Len(dgrams), NEW e \in 0 .. Len(dgrams)
        PROVE  sq[e] = modulo_add(sq[d], e - d, NSeqId)
    <3>1. d = 0 /\ e = 0 /\ e - d = 0
      BY <1>5
    <3>2. modulo_add(q, 0, NSeqId) = q
      BY <1>4, FragConstants DEF modulo_add
    <3> QED
      BY <1>5, <3>1, <3>2
  <2> QED
    BY <1>5, <2>1 DEF Numbered
<1>7. SenderOK(frag, dgrams, sq)
  <2>1. frag \in [seq : 0 .. NSeqId - 1, size : Nat, id : 0 .. MaxFrags, rest : Nat, from : Nat] /\ frag.rest = 0 /\ frag.seq = q
    BY <1>1, <1>4
  <2> QED
    BY <1>5, <1>6, <2>1 DEF SenderOK
<1>8. list.seq = 0 /\ list.index = 0 /\ list.frags = [i \in Places |-> NoFrag]
  BY <1>2
<1>9. ListShape(list)
  BY <1>2, <1>4, <1>8, NoFragIs DEF ListShape
<1>10. ListOK(list, dgrams, sq)
  BY <1>8, <1>9, PlacesAre, NoFragIs DEF ListOK, SlotOK
<1>11. \A lag : Young(net, list, dgrams, lag)
  BY <1>5 DEF Young
<1>12. ASSUME calm PROVE \E o \in 0 .. Len(dgrams) : CalmOK(frag, list, net, dgrams, got, sq, o)
  <2>0. q = 0
    BY <1>1, <1>12
  <2>1. q = 0 /\ 0 \in 0 .. Len(dgrams) /\ Len(dgrams) - 0 <= NFragBuf
    BY <1>5, <2>0, FragConstants
  <2>2. CalmOK(frag, list, net, dgrams, got, sq, 0)
    BY <1>5, <1>8, <1>11, <2>1 DEF CalmOK
  <2> QED
    BY <2>1, <2>2
<1>13. calm \in BOOLEAN
  BY <1>1
<1>14. FragState(frag, list, net, dgrams, got, calm, sq)
  BY <1>2, <1>7, <1>10, <1>11, <1>12, <1>13 DEF FragState
<1> QED
  BY <1>5, <1>14 DEF FragIInv

\* A datagram with a fragment in flight or kept is alive.
LEMMA AliveHas ==
  ASSUME ListShape(list)
  PROVE  \A d : InFlight(net, d) \/ InPart(list, d) => d \in Alive
<1>1. DOMAIN list.frags = Places
  BY DEF ListShape
<1>2. ASSUME NEW d, InFlight(net, d) PROVE d \in Alive
  BY <1>2 DEF InFlight, Alive
<1>3. ASSUME NEW d, InPart(list, d) PROVE d \in Alive
  <2>1. PICK i \in Places : list.frags[i].defined /\ \E o \in DOMAIN list.frags[i].buf : list.frags[i].buf[o].d = d
    BY <1>3 DEF InPart
  <2>2. list.frags[i] \in Partials
    BY <1>1, <2>1 DEF Partials
  <2> QED
    BY <2>1, <2>2 DEF Alive
<1> QED
  BY <1>2, <1>3

LEMMA OutgoingOK ==
  ASSUME FragIInv, NEW len \in Lens, NEW p \in Payloads, Outgoing(len, p), Fresh'
  PROVE  FragIInv'
<1>1. PICK sq \in [0 .. Len(dgrams) -> 0 .. NSeqId - 1] : FragState(frag, list, net, dgrams, got, calm, sq)
  BY DEF FragIInv
<1>2. /\ SenderOK(frag, dgrams, sq) /\ ListOK(list, dgrams, sq) /\ ListShape(list) /\ calm \in BOOLEAN
  BY <1>1 DEF FragState, ListOK
<1>3. PICK size : size = optimal_fragment_size(len, p)
  OBVIOUS
<1>4. PICK s : s = NewDatagram(frag, len, size)
  OBVIOUS
<1>5. PICK f : f = NextFragment(s, Len(dgrams) + 1)
  OBVIOUS
<1>6. PICK x : x = [len |-> len, size |-> size]
  OBVIOUS
<1>7. /\ ~Pending(frag) /\ len > p /\ len <= size * MaxFrags
      /\ dgrams' = Append(dgrams, x) /\ frag' = fragment_ready_to_send(s)
      /\ net' = net \cup {f} /\ list' = list /\ got' = got
      /\ calm' = (calm /\ \A d \in Alive : Len(dgrams) + 1 - d < NFragBuf)
  BY <1>3, <1>4, <1>5, <1>6 DEF Outgoing
<1>8. len \in Nat \ {0} /\ p \in Nat /\ p >= 4 /\ len <= BufSize
  BY FragmentAssumption
<1>9. x.len = len /\ x.size = size /\ IsDgram(x)
  <2>1. size \in Nat /\ size >= 4 /\ size % FRAG_SIZE_ROUND = 0
    BY <1>3, <1>8, OptimalIs
  <2>2. x.len = len /\ x.size = size
    BY <1>6
  <2>3. size \in Nat \ {0}
    BY <2>1
  <2>4. x \in [len : Nat \ {0}, size : Nat \ {0}]
    BY <1>6, <1>8, <2>3
  <2> QED
    BY <1>7, <1>8, <2>1, <2>2, <2>4 DEF IsDgram
<1>10. frag.rest = 0 /\ Len(dgrams) \in Nat
  BY <1>2, <1>7, SenderIs DEF Pending, SenderOK
<1>11. Len(dgrams') = Len(dgrams) + 1
  <2>1. dgrams \in Seq([len : Nat \ {0}, size : Nat \ {0}]) /\ x \in [len : Nat \ {0}, size : Nat \ {0}]
    BY <1>2, <1>9 DEF SenderOK, IsDgram
  <2> QED
    BY <1>7, <2>1, AppendProperties
<1>12. \A d : InFlight(net', d) \/ InPart(list', d) => d \in Alive'
  <2>1. ListShape(list')
    BY <1>2, <1>7
  <2>2. ListShape(list)'
    BY <2>1 DEF ListShape, IsEntry, Places
  <2>3. (\A d : InFlight(net, d) \/ InPart(list, d) => d \in Alive)'
    BY <2>2, AliveHas, PTL
  <2> QED
    BY <2>3 DEF InFlight, InPart
<1>13. \A d \in Alive' : Len(dgrams') - d < MaxLag
  BY DEF Fresh
<1>14. MaxLag > 0
  <2>1. f.type # "WHOLE" /\ f.data.d = Len(dgrams')
    BY <1>5, <1>11 DEF NextFragment, Bytes
  <2>2. InFlight(net', Len(dgrams'))
    BY <1>7, <2>1 DEF InFlight
  <2>3. Len(dgrams') - Len(dgrams') < MaxLag
    BY <1>12, <1>13, <2>2
  <2> QED
    BY <1>10, <1>11, <2>3, FragConstants
<1>15. Young(net, list, dgrams', MaxLag)
  <2>1. \A d : InFlight(net, d) => InFlight(net', d)
    BY <1>7 DEF InFlight
  <2>2. \A d : InPart(list, d) => InPart(list', d)
    BY <1>7
  <2> QED
    BY <1>12, <1>13, <2>1, <2>2 DEF Young
<1>16. calm' \in BOOLEAN
  BY <1>7
<1>17. ASSUME calm' PROVE calm /\ Young(net, list, dgrams', NFragBuf)
  <2>1. calm /\ \A d \in Alive : Len(dgrams) + 1 - d < NFragBuf
    BY <1>2, <1>7, <1>17
  <2>2. \A d : InFlight(net, d) \/ InPart(list, d) => d \in Alive
    BY <1>2, AliveHas
  <2> QED
    BY <1>11, <2>1, <2>2 DEF Young
<1>18. PICK dh : dh = dgrams'
  OBVIOUS
<1>19. PICK cn \in BOOLEAN : cn = calm'
  BY <1>16
<1>20. \E sr \in [0 .. Len(dh) -> 0 .. NSeqId - 1] : FragState(s, list, net, dh, got, cn, sr)
  <2>1. dh = Append(dgrams, x) /\ Young(net, list, dh, MaxLag)
    BY <1>7, <1>15, <1>18
  <2>2. Calmer(cn, calm, net, list, dh)
    BY <1>17, <1>18, <1>19 DEF Calmer
  <2> QED
    BY <1>1, <1>4, <1>6, <1>9, <1>10, <1>14, <2>1, <2>2, NewKeeps
<1>21. PICK sr \in [0 .. Len(dh) -> 0 .. NSeqId - 1] : FragState(s, list, net, dh, got, cn, sr)
  BY <1>20
<1>22. s.rest > 0
  <2>1. frag \in [seq : 0 .. NSeqId - 1, size : Nat, id : 0 .. MaxFrags, rest : Nat, from : Nat]
    BY <1>2 DEF SenderOK
  <2>2. s.rest = len
    BY <1>4, <2>1 DEF NewDatagram
  <2> QED
    BY <1>8, <2>2
<1>23. f = NextFragment(s, Len(dh))
  BY <1>5, <1>11, <1>18
<1>24. FragState(fragment_ready_to_send(s), list, net \cup {f}, dh, got, cn, sr)
  BY <1>21, <1>22, <1>23, CutKeeps
<1>25. FragState(frag', list', net', dgrams', got', calm', sr) /\ sr \in [0 .. Len(dgrams') -> 0 .. NSeqId - 1]
  BY <1>7, <1>18, <1>19, <1>24
<1> QED
  BY <1>25 DEF FragIInv

LEMMA FragStepOK ==
  ASSUME FragIInv, [FragNext]_fragVars
  PROVE  FragIInv'
<1>1. PICK sq \in [0 .. Len(dgrams) -> 0 .. NSeqId - 1] : FragState(frag, list, net, dgrams, got, calm, sq)
  BY DEF FragIInv
<1>2. /\ SenderOK(frag, dgrams, sq) /\ ListOK(list, dgrams, sq) /\ ListShape(list)
  BY <1>1 DEF FragState, ListOK
<1>3. frag.rest \in Nat
  BY <1>2 DEF SenderOK
<1>4. ASSUME FragState(frag', list', net', dgrams', got', calm', sq), dgrams' = dgrams PROVE FragIInv'
  <2>1. sq \in [0 .. Len(dgrams') -> 0 .. NSeqId - 1]
    BY <1>4
  <2> QED
    BY <1>4, <2>1 DEF FragIInv
<1>5. ASSUME NEW len \in Lens, NEW p \in Payloads, Whole(len, p) PROVE FragIInv'
  <2>1. PICK f : f = [type |-> "WHOLE", data |-> Bytes(0, 0, len)]
    OBVIOUS
  <2>2. FragState(frag, list, net \cup {f}, dgrams, got, calm, sq)
    BY <1>1, <2>1, WholeKeeps
  <2>3. net' = net \cup {f} /\ frag' = frag /\ list' = list /\ dgrams' = dgrams /\ got' = got /\ calm' = calm
    BY <1>5, <2>1 DEF Whole
  <2> QED
    BY <1>4, <2>2, <2>3
<1>6. ASSUME NEW len \in Lens, NEW p \in Payloads, TooMany(len, p) PROVE FragIInv'
  <2>1. PICK size : size = optimal_fragment_size(len, p)
    OBVIOUS
  <2>2. size \in Nat
    <3>1. len \in Nat \ {0} /\ p \in Nat /\ p >= 4
      BY FragmentAssumption
    <3> QED
      BY <2>1, <3>1, OptimalIs
  <2>3. frag.rest = 0
    BY <1>3, <1>6 DEF TooMany, Pending
  <2>4. FragState([frag EXCEPT !.size = size], list, net, dgrams, got, calm, sq)
    BY <1>1, <2>2, <2>3, SizeKeeps
  <2>5. frag' = [frag EXCEPT !.size = size] /\ net' = net /\ list' = list /\ dgrams' = dgrams /\ got' = got /\ calm' = calm
    BY <1>6, <2>1 DEF TooMany
  <2> QED
    BY <1>4, <2>4, <2>5
<1>7. ASSUME NEW len \in Lens, NEW p \in Payloads, Outgoing(len, p), Fresh' PROVE FragIInv'
  BY <1>7, OutgoingOK
<1>8. ASSUME ReadyToSend PROVE FragIInv'
  <2>1. PICK f : f = NextFragment(frag, Len(dgrams))
    OBVIOUS
  <2>2. frag.rest > 0
    BY <1>8 DEF ReadyToSend, Pending
  <2>3. FragState(fragment_ready_to_send(frag), list, net \cup {f}, dgrams, got, calm, sq)
    BY <1>1, <2>1, <2>2, CutKeeps
  <2>4. /\ frag' = fragment_ready_to_send(frag) /\ net' = net \cup {f}
        /\ list' = list /\ dgrams' = dgrams /\ got' = got /\ calm' = calm
    BY <1>8, <2>1 DEF ReadyToSend
  <2> QED
    BY <1>4, <2>3, <2>4
<1>9. ASSUME NEW f \in net, Incoming(f) PROVE FragIInv'
  <2>1. net' = net \ {f} /\ frag' = frag /\ dgrams' = dgrams /\ calm' = calm
    BY <1>9 DEF Incoming
  <2>2. CASE f.type = "WHOLE"
    <3>1. got' = got \cup {[o \in {0} |-> f.data]} /\ list' = list
      BY <1>9, <2>2 DEF Incoming
    <3>2. FragState(frag, list, net \ {f}, dgrams, got \cup {[o \in {0} |-> f.data]}, calm, sq)
      BY <1>1, <2>2, WholeArrives
    <3> QED
      BY <1>4, <2>1, <3>1, <3>2
  <2>3. CASE f.type # "WHOLE"
    <3>1. PICK r : r = fragment_incoming(list, f)
      OBVIOUS
    <3>2. list' = r.list /\ got' = got \cup r.up
      BY <1>9, <2>3, <3>1 DEF Incoming
    <3>3. FragState(frag, r.list, net \ {f}, dgrams, got \cup r.up, calm, sq)
      BY <1>1, <2>3, <3>1, PieceArrives
    <3> QED
      BY <1>4, <2>1, <3>2, <3>3
  <2> QED
    BY <2>2, <2>3
<1>10. ASSUME NEW f \in net, Lose(f) PROVE FragIInv'
  <2>1. net' = net \ {f} /\ frag' = frag /\ list' = list /\ dgrams' = dgrams /\ got' = got /\ calm' = FALSE
    BY <1>10 DEF Lose
  <2>2. Moved(list, list)
    BY DEF Moved
  <2>3. net \ {f} \subseteq net
    OBVIOUS
  <2>4. FragState(frag, list, net \ {f}, dgrams, got, FALSE, sq)
    BY <1>1, <1>2, <2>2, <2>3, LossKeeps
  <2> QED
    BY <1>4, <2>1, <2>4
<1>11. ASSUME NEW S \in SUBSET (0 .. NFragBuf - 1), Reap(S) PROVE FragIInv'
  <2>1. PICK t : t = [list EXCEPT !.frags = [i \in DOMAIN list.frags |-> IF i \in S THEN NoFrag ELSE list.frags[i]]]
    OBVIOUS
  <2>2. frag' = frag /\ net' = net /\ dgrams' = dgrams /\ got' = got /\ calm' = FALSE /\ list' = t
    BY <1>11, <2>1 DEF Reap
  <2>3. /\ list = [seq |-> list.seq, index |-> list.index, frags |-> list.frags] /\ DOMAIN list.frags = Places
        /\ list.seq \in 0 .. NSeqId - 1 /\ list.index \in Places /\ \A i \in Places : IsEntry(list.frags[i])
    BY <1>2 DEF ListShape
  <2>4. t = [seq |-> list.seq, index |-> list.index, frags |-> [i \in Places |-> IF i \in S THEN NoFrag ELSE list.frags[i]]]
    BY <2>1, <2>3
  <2>5. t.seq = list.seq /\ t.index = list.index /\ t.frags = [i \in Places |-> IF i \in S THEN NoFrag ELSE list.frags[i]]
    BY <2>4
  <2>6. ListShape(t)
    BY <2>3, <2>4, <2>5, NoFragIs DEF ListShape
  <2>7. Moved(list, t)
    <3>1. \A b \in Places : Place(t, b) = Place(list, b) /\ PlaceSeq(t, b) = PlaceSeq(list, b) /\ Place(t, b) \in Places
      BY <2>5, <2>6, PlacesAre DEF Place, PlaceSeq
    <3> QED
      BY <2>5, <3>1 DEF Moved
  <2>8. FragState(frag, t, net, dgrams, got, FALSE, sq)
    BY <1>1, <2>6, <2>7, LossKeeps
  <2> QED
    BY <1>4, <2>2, <2>8
<1>12. ASSUME UNCHANGED fragVars PROVE FragIInv'
  BY <1>1, <1>4, <1>12 DEF fragVars
<1> QED
  BY <1>5, <1>6, <1>7, <1>8, <1>9, <1>10, <1>11, <1>12 DEF FragNext

\* On a calm channel, a datagram that is neither in flight nor pending was handed up.
LEMMA CalmReassembled ==
  ASSUME NEW fr, NEW l, NEW n, NEW dg, NEW g, NEW sq, NEW o, SenderOK(fr, dg, sq), ListOK(l, dg, sq),
         CalmOK(fr, l, n, dg, g, sq, o), NEW d \in 1 .. Len(dg), \A f \in n : f.data.d # d, ~(fr.rest > 0 /\ d = Len(dg))
  PROVE  \E b \in g : b[0].d = d
<1>1. IsDgram(dg[d]) /\ Len(dg) \in Nat
  BY SenderIs
<1>2. Sent(fr, dg, d) = dg[d].len
  <2>1. CASE d = Len(dg)
    <3>1. fr.from \in Nat /\ fr.rest \in Nat /\ fr.from + fr.rest = dg[d].len
      BY <1>1, <2>1 DEF SenderOK
    <3> QED
      BY <2>1, <3>1 DEF Sent
  <2>2. CASE d # Len(dg)
    BY <2>2 DEF Sent
  <2> QED
    BY <2>1, <2>2
<1>3. ASSUME NEW k \in Ids, k * dg[d].size < dg[d].len PROVE Arrived(l, g, dg, d, k)
  <2>1. Piece(dg[d], sq[d], d, k) \notin n
    BY PieceHas
  <2> QED
    BY <1>2, <1>3, <2>1 DEF CalmOK
<1>4. SUFFICES ASSUME ~\E b \in g : b[0].d = d PROVE FALSE
  OBVIOUS
<1>5. 0 \in Ids /\ 0 * dg[d].size < dg[d].len
  <2>1. dg[d].size \in Nat /\ dg[d].len \in Nat \ {0}
    BY <1>1 DEF IsDgram
  <2> QED
    BY <2>1, FragConstants DEF Ids
<1>6. ASSUME NEW k \in Ids, k * dg[d].size < dg[d].len
      PROVE  \E i \in Places : /\ l.frags[i].defined /\ Holds(l.frags[i], k, dg[d]) /\ EntryOK(l.frags[i], dg[d], d)
                               /\ \E a \in Places : i = Place(l, a) /\ sq[d] = PlaceSeq(l, a)
  <2>1. PICK i \in Places : /\ l.frags[i].defined /\ Holds(l.frags[i], k, dg[d])
                            /\ l.frags[i].buf[k * dg[d].size].d = d
    BY <1>3, <1>4, <1>6 DEF Arrived
  <2> QED
    BY <2>1, PartIs DEF Holds
<1>7. PICK i \in Places : /\ l.frags[i].defined /\ EntryOK(l.frags[i], dg[d], d)
                          /\ \E a \in Places : i = Place(l, a) /\ sq[d] = PlaceSeq(l, a)
  BY <1>5, <1>6
<1>8. ASSUME NEW k \in Ids, k * dg[d].size < dg[d].len PROVE Holds(l.frags[i], k, dg[d])
  <2>1. PICK j \in Places : /\ Holds(l.frags[j], k, dg[d])
                            /\ \E a \in Places : j = Place(l, a) /\ sq[d] = PlaceSeq(l, a)
    BY <1>6, <1>8
  <2>2. PICK a \in Places : i = Place(l, a) /\ sq[d] = PlaceSeq(l, a)
    BY <1>7
  <2>3. PICK b \in Places : j = Place(l, b) /\ sq[d] = PlaceSeq(l, b)
    BY <2>1
  <2>4. a = b
    <3>1. l.seq \in 0 .. NSeqId - 1
      BY DEF ListOK, ListShape
    <3> QED
      BY <2>2, <2>3, <3>1, PlaceSeqInjective
  <2> QED
    BY <2>1, <2>2, <2>3, <2>4
<1>9. l.frags[i].map = Ids
  BY <1>1, <1>7, <1>8, AllHeldFull
<1>10. l.frags[i].map # Ids
  BY <1>7 DEF ListOK, SlotOK
<1> QED
  BY <1>9, <1>10

LEMMA FragInvHolds ==
  ASSUME FragIInv
  PROVE  FragInv
<1>1. PICK sq \in [0 .. Len(dgrams) -> 0 .. NSeqId - 1] : FragState(frag, list, net, dgrams, got, calm, sq)
  BY DEF FragIInv
<1>2. /\ SenderOK(frag, dgrams, sq) /\ ListOK(list, dgrams, sq) /\ ListShape(list)
      /\ \A b \in got : Genuine(b, dgrams)
  BY <1>1 DEF FragState, ListOK
<1>3. FragTypeOK
  <2>1. frag.seq \in 0 .. NSeqId - 1 /\ frag.id \in 0 .. MaxFrags /\ frag.rest \in Nat
    BY <1>2 DEF SenderOK
  <2>2. ASSUME Pending(frag) PROVE frag.id < MaxFrags
    <3>1. frag.id \in Ids
      BY <1>2, <2>2, CutIs DEF Pending
    <3> QED
      BY <3>1, FragConstants DEF Ids
  <2>3. list.seq \in 0 .. NSeqId - 1 /\ list.index \in 0 .. NFragBuf - 1 /\ DOMAIN list.frags = 0 .. NFragBuf - 1
    BY <1>2 DEF ListShape, Places
  <2>4. ASSUME NEW e \in Partials
        PROVE  /\ e.map # {} /\ e.map \subseteq 0 .. MaxFrags - 1 /\ e.map # 0 .. MaxFrags - 1
               /\ e.size % FRAG_SIZE_ROUND = 0
    <3>1. PICK i \in Places : e = list.frags[i] /\ e.defined
      BY <2>3 DEF Partials, Places
    <3>2. PICK a \in Places : i = Place(list, a)
      BY <1>2, PlacesAre
    <3>3. SlotOK(e, PlaceSeq(list, a), dgrams, sq)
      BY <1>2, <3>1, <3>2 DEF ListOK
    <3>4. e.map # {} /\ e.map # Ids
      BY <3>1, <3>3 DEF SlotOK
    <3>5. PICK d \in 1 .. Len(dgrams) : EntryOK(e, dgrams[d], d)
      BY <3>1, <3>3 DEF SlotOK
    <3>6. IsDgram(dgrams[d])
      BY <1>2, SenderIs
    <3> QED
      BY <3>4, <3>5, <3>6 DEF EntryOK, IsDgram, Ids
  <2> QED
    BY <2>1, <2>2, <2>3, <2>4 DEF FragTypeOK
<1>4. Integrity
  BY <1>2 DEF Integrity, Genuine
<1>5. Reassembled
  <2> SUFFICES ASSUME calm, NEW d \in 1 .. Len(dgrams), ~\E f \in net : f.data.d = d, ~(Pending(frag) /\ d = Len(dgrams))
               PROVE  \E b \in got : b[0].d = d
    BY DEF Reassembled
  <2>1. PICK o \in 0 .. Len(dgrams) : CalmOK(frag, list, net, dgrams, got, sq, o)
    BY <1>1 DEF FragState
  <2>2. ~(frag.rest > 0 /\ d = Len(dgrams)) /\ \A f \in net : f.data.d # d
    BY DEF Pending
  <2> QED
    BY <1>2, <2>1, <2>2, CalmReassembled
<1>6. SameCount
  <2>1. ASSUME NEW p \in FRAG_SIZE_ROUND .. MaxSizes, NEW len \in p + 1 .. MaxSizes,
               NEW size, size = optimal_fragment_size(len, p)
        PROVE  size % FRAG_SIZE_ROUND = 0 /\ size <= p /\ Count(len, size) = Count(len, RoundDown(p))
    <3>1. p \in Nat /\ p >= 4 /\ len \in Nat \ {0}
      BY FragConstants DEF FRAG_SIZE_ROUND
    <3> QED
      BY <2>1, <3>1, OptimalIs
  <2> QED
    BY <2>1 DEF SameCount
<1> QED
  BY <1>3, <1>4, <1>5, <1>6 DEF FragInv

\* Whatever is lost, reordered or expires, what fragment_incoming hands to the tun
\* device is a datagram that was sent; on a calm channel every datagram is handed up.
THEOREM FragCorrect == FragSpec => []FragInv
<1>1. FragIInv /\ [FragNext]_fragVars => FragIInv'
  BY FragStepOK
<1>2. FragIInv => FragInv
  BY FragInvHolds
<1> QED
  BY <1>1, <1>2, FragInitOK, PTL DEF FragSpec
=============================================================================
