-------------------------- MODULE TlsSessionProofs --------------------------
EXTENDS TlsSession, TLAPS

(* The proofs of TlsSession.  Whether two ends agree on a key depends on what      *)
(* each key state's TLS handshake was with, also when that key state is gone.      *)
(* The invariant therefore quantifies over two sets that record it, F and B.       *)
(* The lemmas follow the calls: key state, session, tls_process,                   *)
(* tls_multi_process, tls_pre_decrypt, start and restart.                          *)

\* A key state, by its session and number; a buffered packet; the reset opcodes.
Gen == [sid : Nat, n : Nat]
Entry == [id : RESET .. KEYS, gen : Gen, peer : Gen]
Ops == {"none", "HARD_RESET", "SOFT_RESET"}

\* The types of a session, of one end's tls_multi and of a datagram.
SessionType ==
  [sid : Nat, kid : 0 .. KeyIdLimit - 1, n : Nat, opc : Ops, prim : KeyStateType, lame : KeyStateType]
MultiType ==
  [s : [TM -> SessionType], nsid : Nat, linked : BOOLEAN, actual : BOOLEAN, hard : BOOLEAN]
DatagramType ==
  [op : Ops \cup {"ACK", "CONTROL"}, from : TlsPeer, sid : Nat, kid : 0 .. KeyIdLimit - 1,
   acks : SUBSET (RESET .. KEYS), asid : Nat, id : -1 .. KEYS, gen : Gen, peer : Gen]
\* The result of a call of tls_process.
RunShape(r) == r = [m |-> r.m, out |-> r.out, go |-> r.go, fail |-> r.fail, error |-> r.error]

\* The whole handshake was received, and by a key state it was meant for.
Est(ks) == ks.rnext = 3 /\ (ks.st # S_ERROR \/ ks.key # NoKey)
\* The data channel keys that a key state makes.
KeyOf(p, ks) == IF p = TlsClient THEN DataKey(ks.gen, ks.peer, ks.gen.sid, ks.rsid)
                ELSE DataKey(ks.peer, ks.gen, ks.rsid, ks.gen.sid)

\* How far the handshake of a key state is when it is in each of its states, and
\* when its data channel keys are made.
KsInv(p, ks) ==
  /\ ks.st # S_UNDEF => ks.gen.sid # NoSid /\ (ks.kid = 0 <=> ks.gen.n = 0)
  /\ ks.st = S_UNDEF => ks.peer = NoGen /\ ks.rsid = NoSid
  /\ ks.rsid = NoSid => ks.rnext = 0 /\ ks.rbuf = {}
  /\ ks.peer # NoGen => ks.rnext >= 2
  /\ ks.plain => ks.rnext = 3
  /\ p = TlsServer /\ ks.st >= S_SENT_KEY => ks.rnext = 3
  /\ ks.key # NoKey => ks.rnext = 3 /\ ks.key = KeyOf(p, ks)
                       /\ (ks.st = S_ERROR \/ DECRYPT_KEY_ENABLED(p, ks))
  /\ p = TlsClient /\ ks.st >= S_GOT_KEY => ks.key # NoKey
  /\ p = TlsServer /\ ks.st >= S_SENT_KEY /\ ks.st # S_GOT_KEY /\ ks.auth => ks.key # NoKey

\* What relates a key state to the others.  F[p] and B[p] are history: <<G, H>> is in
\* F[p] if key state G of end p has, or had, H of the other end as its TLS peer, and
\* <<G, k>> in B[p] if p has created key state G, with key id k.
KsGhost(F, B, p, ks) ==
  /\ ks.st # S_UNDEF => <<ks.gen, ks.kid>> \in B[p]
  /\ ks.peer # NoGen => <<ks.gen, ks.peer>> \in F[p] /\ <<ks.peer, ks.kid>> \in B[OtherEnd(p)]
  /\ ks.st # S_UNDEF => \A f \in F[p] : f[1] = ks.gen => f[2] = ks.peer
  /\ \A e \in ks.rbuf : /\ <<e.gen, ks.kid>> \in B[OtherEnd(p)]
                        /\ e.peer # NoGen => <<e.gen, e.peer>> \in F[OtherEnd(p)]
  /\ Est(ks) => <<ks.peer, ks.gen>> \in F[OtherEnd(p)]

\* All that holds of a key state, and of a session.
KOK(F, B, p, ks) == ks \in KeyStateType /\ KsInv(p, ks) /\ KsGhost(F, B, p, ks)

\* The key ids and numbers of a session's two key states, and of the next one.
Chain(s) ==
  /\ s.prim.st # S_UNDEF =>
       /\ s.sid # NoSid /\ s.prim.gen.sid = s.sid
       /\ s.kid = NextKeyId(s.prim.kid) /\ s.n = s.prim.gen.n + 1
  /\ s.lame.st # S_UNDEF =>
       /\ s.prim.st # S_UNDEF /\ s.lame.gen.sid = s.sid
       /\ s.prim.kid = NextKeyId(s.lame.kid) /\ s.prim.gen.n = s.lame.gen.n + 1

SOK(F, B, p, s) ==
  s \in SessionType /\ KOK(F, B, p, s.prim) /\ KOK(F, B, p, s.lame) /\ Chain(s)

\* Key state G was created by the end that has m.
Used(m, G) ==
  /\ G.sid # NoSid /\ G.sid < m.nsid
  /\ \A i \in TM : m.s[i].sid = G.sid => G.n < m.s[i].n

\* All that holds of one end: session ids are used once, and the facts of F and B
\* about its key states are about key states it has created.
MOK(F, B, p, m) ==
  /\ m \in MultiType /\ m.nsid # 0
  /\ \A i \in TM : SOK(F, B, p, m.s[i]) /\ m.s[i].sid < m.nsid
  /\ \A i, j \in TM : i # j /\ m.s[i].sid = m.s[j].sid => m.s[i].sid = NoSid
  /\ \A b \in B[p] : Used(m, b[1])
  /\ \A f \in F[p] : Used(m, f[1])
  /\ \A f \in F[OtherEnd(p)] : Used(m, f[2])

\* No two facts cross: of a client's and a server's key state, each has a later key
\* state of the other as its peer.
NoCross(F, p) ==
  \A f \in F[p], g \in F[OtherEnd(p)] :
    f[1].sid = g[2].sid /\ f[2].sid = g[1].sid => ~ (f[1].n < g[2].n /\ g[1].n < f[2].n)

\* What holds of F and B: a key state has one key id.
GOK(F, B) ==
  /\ F \in [TlsPeer -> SUBSET (Gen \X Gen)]
  /\ B \in [TlsPeer -> SUBSET (Gen \X (0 .. KeyIdLimit - 1))]
  /\ \A p \in TlsPeer : \A a, b \in B[p] : a[1] = b[1] => a[2] = b[2]
  /\ NoCross(F, TlsClient)

\* What holds of a datagram: its payload comes from a key state of the sender, with
\* the key id in its header, and names that key state's peer.
DOK(F, B, d) ==
  /\ d \in DatagramType /\ d.sid # NoSid
  /\ d.id = -1 => d.op = "ACK"
  /\ <<d.gen, d.kid>> \in B[d.from]
  /\ d.peer # NoGen => <<d.gen, d.peer>> \in F[d.from]

\* Every datagram that was sound still is.
Wider(F, B, F2, B2) == \A d : DOK(F, B, d) => DOK(F2, B2, d)

\* The invariant of both ends and the datagrams D, seen from end p.
World(F, B, p, m, mq, D) ==
  /\ GOK(F, B) /\ MOK(F, B, p, m) /\ MOK(F, B, OtherEnd(p), mq)
  /\ \A d \in D : DOK(F, B, d)

\* A key state, field by field.
Shape(k) ==
  [st |-> k.st, kid |-> k.kid, opc |-> k.opc, rsid |-> k.rsid, gen |-> k.gen, auth |-> k.auth,
   key |-> k.key, made |-> k.made, unacked |-> k.unacked, rnext |-> k.rnext, rbuf |-> k.rbuf, acks |-> k.acks,
   peer |-> k.peer, plain |-> k.plain]

USE DEF S_ERROR, S_UNDEF, S_INITIAL, S_PRE_START, S_START, S_SENT_KEY, S_GOT_KEY, S_ACTIVE, S_NORMAL,
        RESET, HELLO, KEYS, NoSid

\* Everything but the state, the handshake's buffers and the result of the exchange stays.
Frame(a, b) ==
  /\ b.gen = a.gen /\ b.kid = a.kid /\ b.rsid = a.rsid /\ b.opc = a.opc

\* Starting the handshake (tls_process, S_INITIAL) queues the reset packet.
LEMMA InitialHandshakeFields ==
  ASSUME NEW ks \in KeyStateType, ks.st = S_INITIAL, NEW k, k = InitialHandshake(ks)
  PROVE  /\ k \in KeyStateType /\ Frame(ks, k) /\ k.st = S_PRE_START
         /\ k.auth = ks.auth /\ k.key = ks.key /\ k.rnext = ks.rnext /\ k.rbuf = ks.rbuf
         /\ k.peer = ks.peer /\ k.plain = ks.plain
  <1>1. /\ k = Shape(k) /\ Frame(ks, k) /\ k.st = S_PRE_START /\ k.made = 1 /\ k.unacked = {RESET}
        /\ k.auth = ks.auth /\ k.key = ks.key /\ k.rnext = ks.rnext /\ k.rbuf = ks.rbuf
        /\ k.peer = ks.peer /\ k.plain = ks.plain /\ k.acks = ks.acks
    BY DEF InitialHandshake, KeyStateType, Shape, Frame
  <1>2. k \in KeyStateType
    BY <1>1 DEF KeyStateType, Shape, Frame
  <1> QED BY <1>1, <1>2

\* A key state whose state alone changes.
LEMMA SetStFields ==
  ASSUME NEW ks \in KeyStateType, NEW st \in S_ERROR .. S_NORMAL, NEW k, k = [ks EXCEPT !.st = st]
  PROVE  /\ k \in KeyStateType /\ Frame(ks, k) /\ k.st = st
         /\ k.auth = ks.auth /\ k.key = ks.key /\ k.rnext = ks.rnext /\ k.rbuf = ks.rbuf
         /\ k.peer = ks.peer /\ k.plain = ks.plain
  BY DEF KeyStateType, Frame

\* A key state whose acknowledgments were sent.
LEMMA SetAcksFields ==
  ASSUME NEW ks \in KeyStateType, NEW k, k = [ks EXCEPT !.acks = {}]
  PROVE  /\ k \in KeyStateType /\ Frame(ks, k) /\ k.st = ks.st
         /\ k.auth = ks.auth /\ k.key = ks.key /\ k.rnext = ks.rnext /\ k.rbuf = ks.rbuf
         /\ k.peer = ks.peer /\ k.plain = ks.plain
  BY DEF KeyStateType, Frame

\* A key state that is deauthenticated.
LEMMA SetAuthFields ==
  ASSUME NEW ks \in KeyStateType, NEW k, k = [ks EXCEPT !.auth = FALSE]
  PROVE  /\ k \in KeyStateType /\ Frame(ks, k) /\ k.st = ks.st
         /\ k.auth = FALSE /\ k.key = ks.key /\ k.rnext = ks.rnext /\ k.rbuf = ks.rbuf
         /\ k.peer = ks.peer /\ k.plain = ks.plain
  BY DEF KeyStateType, Frame

\* A key state that is given another remote session id.
LEMMA SetRsidFields ==
  ASSUME NEW ks \in KeyStateType, NEW x \in Nat, NEW k, k = [ks EXCEPT !.rsid = x]
  PROVE  /\ k \in KeyStateType /\ k.gen = ks.gen /\ k.kid = ks.kid /\ k.rsid = x /\ k.st = ks.st
         /\ k.auth = ks.auth /\ k.key = ks.key /\ k.rnext = ks.rnext /\ k.rbuf = ks.rbuf
         /\ k.peer = ks.peer /\ k.plain = ks.plain
  BY DEF KeyStateType

\* OutgoingCiphertext touches only what was made and is unacknowledged.
LEMMA OutgoingFields ==
  ASSUME NEW p, NEW ks \in KeyStateType, NEW k, k = OutgoingCiphertext(p, ks)
  PROVE  /\ k \in KeyStateType /\ Frame(ks, k) /\ k.st = ks.st
         /\ k.auth = ks.auth /\ k.key = ks.key /\ k.rnext = ks.rnext /\ k.rbuf = ks.rbuf
         /\ k.peer = ks.peer /\ k.plain = ks.plain
  <1>1. CASE k = ks BY <1>1 DEF Frame
  <1>2. CASE k # ks
    <2>1. ks.made \in {HELLO, KEYS} /\ k = [ks EXCEPT !.made = @ + 1, !.unacked = @ \cup {ks.made}]
      BY <1>2 DEF OutgoingCiphertext
    <2>2. /\ k = Shape(k) /\ Frame(ks, k) /\ k.st = ks.st /\ k.made = ks.made + 1
          /\ k.unacked = ks.unacked \cup {ks.made} /\ k.acks = ks.acks
          /\ k.auth = ks.auth /\ k.key = ks.key /\ k.rnext = ks.rnext /\ k.rbuf = ks.rbuf
          /\ k.peer = ks.peer /\ k.plain = ks.plain
      BY <2>1 DEF KeyStateType, Shape, Frame
    <2>3. k.made \in 0 .. 3 /\ k.unacked \in SUBSET (RESET .. KEYS)
      BY <2>1, <2>2 DEF KeyStateType
    <2>4. k \in KeyStateType
      BY <2>2, <2>3 DEF KeyStateType, Shape, Frame
    <2> QED BY <2>2, <2>4
  <1> QED BY <1>1, <1>2

\* What SendKey changes when it sends the key material.
LEMMA SendKeyFields ==
  ASSUME NEW p, NEW ks \in KeyStateType, NEW k, k = SendKey(p, ks), k # ks
  PROVE  /\ k \in KeyStateType /\ Frame(ks, k)
         /\ ks.st = (IF p = TlsServer THEN S_GOT_KEY ELSE S_START) /\ k.st = S_SENT_KEY
         /\ k.auth = ks.auth /\ k.rnext = ks.rnext /\ k.rbuf = ks.rbuf
         /\ k.peer = ks.peer /\ k.plain = ks.plain
         /\ k.key = IF p = TlsServer /\ ks.auth THEN DataKey(ks.peer, ks.gen, ks.rsid, ks.gen.sid) ELSE ks.key
  <1> DEFINE key == IF p = TlsServer /\ ks.auth THEN DataKey(ks.peer, ks.gen, ks.rsid, ks.gen.sid) ELSE ks.key
  <1>1. key \in [c : Gen, s : Gen, csid : Nat, ssid : Nat]
    BY DEF KeyStateType, Gen, DataKey
  <1>2. /\ ks.st = (IF p = TlsServer THEN S_GOT_KEY ELSE S_START)
        /\ k = [ks EXCEPT !.st = S_SENT_KEY, !.key = key]
    BY DEF SendKey
  <1> HIDE DEF key
  <1>3. /\ k = Shape(k) /\ Frame(ks, k) /\ k.st = S_SENT_KEY /\ k.made = ks.made
        /\ k.unacked = ks.unacked /\ k.acks = ks.acks
        /\ k.auth = ks.auth /\ k.key = key /\ k.rnext = ks.rnext /\ k.rbuf = ks.rbuf
        /\ k.peer = ks.peer /\ k.plain = ks.plain
    BY <1>2 DEF KeyStateType, Shape, Frame
  <1>4. k \in KeyStateType
    BY <1>1, <1>3 DEF KeyStateType, Shape, Frame, Gen
  <1> QED BY <1>2, <1>3, <1>4 DEF key

\* What key_method_2_read changes.
LEMMA ReadFields ==
  ASSUME NEW p, NEW ks \in KeyStateType, NEW verdict, NEW k, k = key_method_2_read(p, ks, verdict)
  PROVE  /\ k \in KeyStateType /\ Frame(ks, k)
         /\ k.st = S_GOT_KEY /\ k.rnext = ks.rnext /\ k.rbuf = ks.rbuf
         /\ k.peer = ks.peer /\ ~ k.plain
         /\ k.key = IF p = TlsClient THEN DataKey(ks.gen, ks.peer, ks.gen.sid, ks.rsid) ELSE ks.key
  <1> DEFINE key == IF p = TlsClient THEN DataKey(ks.gen, ks.peer, ks.gen.sid, ks.rsid) ELSE ks.key
             ok  == verdict # "denied"
  <1>1. key \in [c : Gen, s : Gen, csid : Nat, ssid : Nat] /\ ok \in BOOLEAN
    BY DEF KeyStateType, Gen, DataKey
  <1>2. k = [ks EXCEPT !.st = S_GOT_KEY, !.plain = FALSE, !.auth = ok, !.key = key]
    BY DEF key_method_2_read
  <1> HIDE DEF key, ok
  <1>3. /\ k = Shape(k) /\ Frame(ks, k) /\ k.st = S_GOT_KEY /\ k.made = ks.made
        /\ k.unacked = ks.unacked /\ k.acks = ks.acks
        /\ k.auth = ok /\ k.key = key /\ k.rnext = ks.rnext /\ k.rbuf = ks.rbuf
        /\ k.peer = ks.peer
    BY <1>2 DEF KeyStateType, Shape, Frame
  <1>4. k.plain = FALSE BY <1>2 DEF KeyStateType
  <1>5. k.plain \in BOOLEAN BY <1>4
  <1>6. k \in KeyStateType
    BY <1>1, <1>3, <1>5 DEF KeyStateType, Shape, Frame, Gen
  <1> QED BY <1>2, <1>3, <1>4, <1>6 DEF key

\* IncomingCiphertext takes the next packet in order from the buffer; a
\* packet of the wrong handshake is a TLS error.
LEMMA IncomingFields ==
  ASSUME NEW p, NEW ks \in KeyStateType, NEW k, k = IncomingCiphertext(p, ks), k # ks
  PROVE  \E e \in ks.rbuf :
           /\ e \in Entry /\ e.id = ks.rnext
           /\ k \in KeyStateType /\ Frame(ks, k) /\ k.auth = ks.auth /\ k.key = ks.key
           /\ k.rnext = ks.rnext + 1 /\ k.rbuf = ks.rbuf \ {e}
           /\ k.peer = (IF e.id = HELLO THEN e.gen ELSE ks.peer)
           /\ k.plain => ks.plain \/ e.id = KEYS
           /\ k.st \in {ks.st, S_ERROR}
           /\ e.id = KEYS /\ k.st # S_ERROR => e.gen = ks.peer /\ e.peer = ks.gen
  <1>1. ~ \A f \in ks.rbuf : f.id # ks.rnext BY DEF IncomingCiphertext
  <1> DEFINE e   == CHOOSE f \in ks.rbuf : f.id = ks.rnext
             bad == \/ e.id = HELLO /\ p = TlsClient /\ e.peer # ks.gen
                    \/ e.id = KEYS /\ (e.gen # ks.peer \/ e.peer # ks.gen)
  <1>2. e \in ks.rbuf /\ e.id = ks.rnext BY <1>1
  <1>3. k = [ks EXCEPT !.rbuf = @ \ {e}, !.rnext = @ + 1,
                      !.peer = IF e.id = HELLO THEN e.gen ELSE @,
                      !.plain = @ \/ e.id = KEYS,
                      !.st = IF bad THEN S_ERROR ELSE @]
    BY <1>1 DEF IncomingCiphertext
  <1>4. bad \in BOOLEAN /\ (e.id = KEYS /\ ~ bad => e.gen = ks.peer /\ e.peer = ks.gen)
    OBVIOUS
  <1>5. e \in Entry BY <1>2 DEF KeyStateType, Entry, Gen
  <1> HIDE DEF e, bad
  <1> DEFINE st == IF bad THEN S_ERROR ELSE ks.st
             peer == IF e.id = HELLO THEN e.gen ELSE ks.peer
             plain == ks.plain \/ e.id = KEYS
  <1>6. st \in {ks.st, S_ERROR} /\ peer \in Gen /\ plain \in BOOLEAN /\ ks.rnext + 1 \in 0 .. 3 /\ ks.rbuf \ {e} \in SUBSET Entry
    BY <1>2, <1>5 DEF KeyStateType, Entry, Gen
  <1>7. k = [ks EXCEPT !.rbuf = ks.rbuf \ {e}, !.rnext = ks.rnext + 1, !.peer = peer, !.plain = plain, !.st = st]
    BY <1>3
  <1>8. e.id = KEYS /\ st # S_ERROR => e.gen = ks.peer /\ e.peer = ks.gen
    BY <1>4
  <1> HIDE DEF st, peer, plain
  <1>9. /\ k = Shape(k) /\ Frame(ks, k) /\ k.st = st /\ k.made = ks.made
        /\ k.unacked = ks.unacked /\ k.acks = ks.acks
        /\ k.auth = ks.auth /\ k.key = ks.key /\ k.rnext = ks.rnext + 1 /\ k.rbuf = ks.rbuf \ {e}
        /\ k.peer = peer /\ k.plain = plain
    BY <1>7 DEF KeyStateType, Shape, Frame
  <1>10. k \in KeyStateType
    BY <1>6, <1>9 DEF KeyStateType, Shape, Frame, Gen, Entry
  <1> USE <1>2
  <1> WITNESS e \in ks.rbuf
  <1> QED BY <1>2, <1>5, <1>6, <1>8, <1>9, <1>10 DEF peer, plain

\* A step that leaves the handshake's result alone and moves the state of the
\* negotiation forward, or into S_ERROR.
Forward(p, a, b) ==
  \/ b = S_ERROR \/ b = a
  \/ a \in {S_INITIAL, S_PRE_START} /\ b \in {S_PRE_START, S_START}
  \/ a >= S_ACTIVE /\ b >= S_ACTIVE
  \/ a = (IF p = TlsServer THEN S_SENT_KEY ELSE S_GOT_KEY) /\ b = S_ACTIVE

\* Such a step keeps the invariant of a key state.
LEMMA QuietStep ==
  ASSUME NEW F, NEW B, NEW p, p \in TlsPeer, NEW ks, KOK(F, B, p, ks), ks.st # S_UNDEF,
         NEW k \in KeyStateType, Frame(ks, k), Forward(p, ks.st, k.st),
         ks.st = S_ERROR => k.st = S_ERROR,
         k.auth => ks.auth, k.key = ks.key, k.rnext = ks.rnext, k.rbuf = ks.rbuf, k.peer = ks.peer,
         k.plain = ks.plain
  PROVE  KOK(F, B, p, k) /\ k.st # S_UNDEF
  <1> USE TlsAssumption DEF TlsAssumption
  <1>1. ks \in KeyStateType /\ ks.st \in -1 .. 7 /\ k.st \in -1 .. 7 /\ ks.rnext \in 0 .. 3
    BY DEF KOK, KeyStateType
  <1>2. k.st # S_UNDEF
    BY <1>1 DEF Forward
  <1>3. KsInv(p, ks) BY DEF KOK
  <1>4. KsInv(p, k)
    <2>1. /\ k.st # S_UNDEF => k.gen.sid # NoSid /\ (k.kid = 0 <=> k.gen.n = 0)
          /\ k.st = S_UNDEF => k.peer = NoGen /\ k.rsid = NoSid
          /\ k.rsid = NoSid => k.rnext = 0 /\ k.rbuf = {}
          /\ k.peer # NoGen => k.rnext >= 2
          /\ k.plain => k.rnext = 3
      BY <1>2, <1>3 DEF KsInv, Frame
    <2>2. p = TlsServer /\ k.st >= S_SENT_KEY => k.rnext = 3
      BY <1>1, <1>3 DEF KsInv, Forward
    <2>3. k.key # NoKey => k.rnext = 3 /\ k.key = KeyOf(p, k)
                       /\ (k.st = S_ERROR \/ DECRYPT_KEY_ENABLED(p, k))
      BY <1>1, <1>3 DEF KsInv, Frame, KeyOf, Forward, DECRYPT_KEY_ENABLED, TlsPeer
    <2>4. p = TlsClient /\ k.st >= S_GOT_KEY => k.key # NoKey
      BY <1>1, <1>3 DEF KsInv, Forward
    <2>5. p = TlsServer /\ k.st >= S_SENT_KEY /\ k.st # S_GOT_KEY /\ k.auth => k.key # NoKey
      BY <1>1, <1>3 DEF KsInv, Forward
    <2> QED BY <2>1, <2>2, <2>3, <2>4, <2>5 DEF KsInv
  <1>5. KsGhost(F, B, p, k)
    BY <1>1, <1>2 DEF KOK, KsGhost, Frame, Est
  <1> QED BY <1>2, <1>4, <1>5 DEF KOK

\* The state changes before tls_process's loop handles packets: handshake
\* start, negotiation timeout, acknowledgments awaited.
LEMMA FrontHalfStep ==
  ASSUME NEW F, NEW B, NEW p, p \in TlsPeer, NEW ks, KOK(F, B, p, ks), ks.st # S_UNDEF, NEW t \in BOOLEAN
  PROVE  KOK(F, B, p, FrontHalf(p, ks, t)) /\ FrontHalf(p, ks, t).st # S_UNDEF /\ Frame(ks, FrontHalf(p, ks, t))
  <1> DEFINE a == InitialHandshake(ks)
             b == IF t THEN NegotiationTimeout(a) ELSE a
             c == WaitForAck(p, b)
  <1>1. KOK(F, B, p, a) /\ a.st # S_UNDEF /\ Frame(ks, a)
    <2>1. CASE ks.st = S_INITIAL
      BY <2>1, InitialHandshakeFields, QuietStep DEF Forward, KOK
    <2>2. CASE ks.st # S_INITIAL
      BY <2>2 DEF InitialHandshake, Frame
    <2> QED BY <2>1, <2>2
  <1> HIDE DEF a
  <1>2. KOK(F, B, p, b) /\ b.st # S_UNDEF /\ Frame(ks, b)
    <2>1. CASE t
      <3> DEFINE st == IF a.st < S_ACTIVE THEN S_ERROR ELSE S_NORMAL
      <3>1. b = [a EXCEPT !.st = st] /\ a \in KeyStateType /\ a.st \in -1 .. 7
        BY <1>1, <2>1 DEF NegotiationTimeout, KOK, KeyStateType
      <3>2. st \in S_ERROR .. S_NORMAL /\ Forward(p, a.st, st) /\ (a.st = S_ERROR => st = S_ERROR)
        BY <3>1 DEF Forward
      <3> HIDE DEF st, b
      <3> QED BY <1>1, <3>1, <3>2, SetStFields, QuietStep DEF Frame
    <2>2. CASE ~ t
      BY <1>1, <2>2
    <2> QED BY <2>1, <2>2
  <1> HIDE DEF b
  <1>3. KOK(F, B, p, c) /\ c.st # S_UNDEF /\ Frame(ks, c)
    <2>1. CASE c = b BY <1>2, <2>1
    <2>2. CASE c # b
      <3>1. PICK st \in S_ERROR .. S_NORMAL : c = [b EXCEPT !.st = st] /\ Forward(p, b.st, st) /\ b.st # S_ERROR
        BY <2>2 DEF WaitForAck, Forward
      <3> HIDE DEF c
      <3> QED BY <1>2, <3>1, SetStFields, QuietStep DEF Frame, KOK
    <2> QED BY <2>1, <2>2
  <1>4. FrontHalf(p, ks, t) = c
    BY DEF FrontHalf, a, b
  <1> QED BY <1>3, <1>4

\* Sending the key material keeps the invariant of a key state.
LEMMA SendKeyStep ==
  ASSUME NEW F, NEW B, NEW p, p \in TlsPeer, NEW ks, KOK(F, B, p, ks), ks.st # S_UNDEF
  PROVE  KOK(F, B, p, SendKey(p, ks)) /\ SendKey(p, ks).st # S_UNDEF /\ Frame(ks, SendKey(p, ks))
  <1> DEFINE k == SendKey(p, ks)
  <1> USE TlsAssumption DEF TlsAssumption
  <1>1. CASE k = ks BY <1>1 DEF Frame
  <1>2. CASE k # ks
    <2>0. ks \in KeyStateType /\ KsInv(p, ks) /\ KsGhost(F, B, p, ks) BY DEF KOK
    <2>1. /\ k \in KeyStateType /\ Frame(ks, k)
          /\ ks.st = (IF p = TlsServer THEN S_GOT_KEY ELSE S_START) /\ k.st = S_SENT_KEY
          /\ k.auth = ks.auth /\ k.rnext = ks.rnext /\ k.rbuf = ks.rbuf
          /\ k.peer = ks.peer /\ k.plain = ks.plain
          /\ k.key = IF p = TlsServer /\ ks.auth THEN DataKey(ks.peer, ks.gen, ks.rsid, ks.gen.sid) ELSE ks.key
      BY <1>2, <2>0, SendKeyFields
    <2> HIDE DEF k
    <2>2. p = TlsServer /\ ks.auth => k.key = KeyOf(p, k) /\ k.key # NoKey
      <3>1. ASSUME p = TlsServer, ks.auth PROVE k.key = KeyOf(p, k)
        BY <2>1, <3>1 DEF KeyOf, Frame
      <3>2. ASSUME p = TlsServer, ks.auth PROVE k.key # NoKey
        <4>1. k.key.s = ks.gen /\ ks.gen.sid # NoSid
          BY <2>0, <2>1, <3>2 DEF DataKey, KsInv
        <4>2. NoKey.s.sid = NoSid BY DEF NoKey, DataKey, NoGen
        <4> QED BY <4>1, <4>2
      <3> QED BY <3>1, <3>2
    <2>3. KsInv(p, k)
      <3>1. /\ k.gen.sid # NoSid /\ (k.kid = 0 <=> k.gen.n = 0)
            /\ k.rsid = NoSid => k.rnext = 0 /\ k.rbuf = {}
            /\ k.peer # NoGen => k.rnext >= 2
            /\ k.plain => k.rnext = 3
        BY <2>0, <2>1 DEF KsInv, Frame
      <3>2. p = TlsServer => k.rnext = 3
        BY <2>0, <2>1 DEF KsInv
      <3>3. k.key # NoKey => k.rnext = 3 /\ k.key = KeyOf(p, k) /\ DECRYPT_KEY_ENABLED(p, k)
        <4>1. CASE p = TlsServer /\ ks.auth
          BY <2>1, <2>2, <3>2, <4>1 DEF DECRYPT_KEY_ENABLED
        <4>2. CASE ~ (p = TlsServer /\ ks.auth)
          <5>1. k.key = ks.key BY <2>1, <4>2
          <5>2. k.key # NoKey => p = TlsServer
            BY <2>0, <2>1, <5>1 DEF KsInv, DECRYPT_KEY_ENABLED, TlsPeer
          <5> QED BY <2>0, <2>1, <5>1, <5>2 DEF KsInv, KeyOf, Frame, DECRYPT_KEY_ENABLED
        <4> QED BY <4>1, <4>2
      <3> QED BY <2>1, <2>2, <3>1, <3>2, <3>3 DEF KsInv
    <2>4. KsGhost(F, B, p, k)
      BY <2>0, <2>1 DEF KsGhost, Frame, Est, TlsPeer
    <2> QED BY <2>1, <2>3, <2>4 DEF KOK, k
  <1> QED BY <1>1, <1>2

\* Reading the key material of the other end keeps it.
LEMMA ReadStep ==
  ASSUME NEW F, NEW B, NEW p, p \in TlsPeer, NEW ks, KOK(F, B, p, ks),
         ks.plain, ks.st = (IF p = TlsServer THEN S_START ELSE S_SENT_KEY),
         NEW verdict, NEW k, k = key_method_2_read(p, ks, verdict)
  PROVE  KOK(F, B, p, k) /\ k.st # S_UNDEF /\ Frame(ks, k)
  <1> USE TlsAssumption DEF TlsAssumption
  <1>0. ks \in KeyStateType /\ KsInv(p, ks) /\ KsGhost(F, B, p, ks) /\ ks.st # S_UNDEF BY DEF KOK
  <1>1. /\ k \in KeyStateType /\ Frame(ks, k)
        /\ k.st = S_GOT_KEY /\ k.rnext = ks.rnext /\ k.rbuf = ks.rbuf
        /\ k.peer = ks.peer
        /\ k.key = IF p = TlsClient THEN DataKey(ks.gen, ks.peer, ks.gen.sid, ks.rsid) ELSE ks.key
    BY <1>0, ReadFields
  <1>2. ~ k.plain BY <1>0, ReadFields
  <1>3. ks.rnext = 3 BY <1>0 DEF KsInv
  <1>4. p = TlsClient => k.key = KeyOf(p, k) /\ k.key # NoKey
    <2>1. ASSUME p = TlsClient PROVE k.key = KeyOf(p, k)
      BY <1>1, <2>1 DEF KeyOf, Frame
    <2>2. ASSUME p = TlsClient PROVE k.key # NoKey
      <3>1. k.key.c = ks.gen /\ ks.gen.sid # NoSid
        BY <1>0, <1>1, <2>2 DEF DataKey, KsInv
      <3>2. NoKey.c.sid = NoSid BY DEF NoKey, DataKey, NoGen
      <3> QED BY <3>1, <3>2
    <2> QED BY <2>1, <2>2
  <1>5. p = TlsServer => k.key = NoKey
    <2>1. p = TlsServer => k.key = ks.key BY <1>1
    <2>2. p = TlsServer => ks.key = NoKey BY <1>0 DEF KsInv, DECRYPT_KEY_ENABLED
    <2> QED BY <2>1, <2>2
  <1>6. KsInv(p, k)
    <2>1. /\ k.gen.sid # NoSid /\ (k.kid = 0 <=> k.gen.n = 0)
          /\ k.rsid = NoSid => k.rnext = 0 /\ k.rbuf = {}
          /\ k.peer # NoGen => k.rnext >= 2
      BY <1>0, <1>1 DEF KsInv, Frame
    <2>2. k.key # NoKey => k.rnext = 3 /\ k.key = KeyOf(p, k) /\ DECRYPT_KEY_ENABLED(p, k)
      BY <1>1, <1>3, <1>4, <1>5 DEF DECRYPT_KEY_ENABLED, TlsPeer
    <2> QED BY <1>1, <1>2, <1>3, <1>4, <2>1, <2>2 DEF KsInv
  <1>7. KsGhost(F, B, p, k)
    BY <1>0, <1>1 DEF KsGhost, Frame, Est, TlsPeer
  <1> QED BY <1>1, <1>6, <1>7 DEF KOK

-----------------------------------------------------------------------------
(* Sessions and the whole tls_multi.                                       *)

\* There are two ends, each the other of the other.
LEMMA Ends2 ==
  /\ TlsPeer = {TlsClient, TlsServer} /\ TlsClient # TlsServer
  /\ \A p \in TlsPeer : OtherEnd(p) \in TlsPeer /\ OtherEnd(p) # p /\ OtherEnd(OtherEnd(p)) = p
  BY TlsAssumption DEF TlsAssumption, TlsPeer, OtherEnd

\* The two sets only grow, and none of what is new is about this key state.
LEMMA GrowKey ==
  ASSUME NEW F, NEW B, NEW F2, NEW B2, NEW p, p \in TlsPeer, NEW ks, KOK(F, B, p, ks),
         \A q \in TlsPeer : F[q] \subseteq F2[q] /\ B[q] \subseteq B2[q],
         ks.st # S_UNDEF => \A f \in F2[p] : f \in F[p] \/ f[1] # ks.gen
  PROVE  KOK(F2, B2, p, ks)
  <1>1. OtherEnd(p) \in TlsPeer BY Ends2
  <1>2. KsGhost(F, B, p, ks) BY DEF KOK
  <1>3. KsGhost(F2, B2, p, ks)
    BY <1>1, <1>2 DEF KsGhost
  <1> QED BY <1>3 DEF KOK

\* ... and none of it is about key states of end q.
LEMMA GrowOther ==
  ASSUME NEW F, NEW B, NEW F2, NEW B2, NEW q, q \in TlsPeer, NEW mq, MOK(F, B, q, mq),
         \A x \in TlsPeer : F[x] \subseteq F2[x] /\ B[x] \subseteq B2[x],
         F2[q] = F[q], B2[q] = B[q], \A f \in F2[OtherEnd(q)] : Used(mq, f[2])
  PROVE  MOK(F2, B2, q, mq)
  <1>1. \A i \in TM : SOK(F2, B2, q, mq.s[i])
    <2>1. TAKE i \in TM
    <2>2. SOK(F, B, q, mq.s[i]) BY DEF MOK
    <2> QED BY <2>2, GrowKey DEF SOK
  <1> QED BY <1>1 DEF MOK

\* A sound datagram stays sound as the two sets grow.
LEMMA GrowDatagram ==
  ASSUME NEW F, NEW B, NEW F2, NEW B2, NEW d, DOK(F, B, d),
         \A x \in TlsPeer : F[x] \subseteq F2[x] /\ B[x] \subseteq B2[x]
  PROVE  DOK(F2, B2, d)
  <1>1. d.from \in TlsPeer BY DEF DOK, DatagramType
  <1> QED BY <1>1 DEF DOK

\* m2 is m but for session slot i; what is new in the two sets is about key states of m2.
OneSlot(m, m2, i) == m2.nsid = m.nsid /\ \A j \in TM : j # i => m2.s[j] = m.s[j]
Grown(F, B, F2, B2, p, m2) ==
  /\ \A b \in B2[p] : b \in B[p] \/ Used(m2, b[1])
  /\ \A f \in F2[p] : f \in F[p] \/ Used(m2, f[1])
  /\ F2[OtherEnd(p)] = F[OtherEnd(p)]
\* All sessions are sound; session b is a later state of a, or cleared.
SlotsOK(F, B, p, m) == \A j \in TM : SOK(F, B, p, m.s[j])
Later(a, b) == b.sid = NoSid \/ (b.sid = a.sid /\ b.n >= a.n)

\* Session slot i gets new contents.
LEMMA SlotStep ==
  ASSUME NEW F, NEW B, NEW F2, NEW B2, GOK(F, B), NEW p, p \in TlsPeer, NEW m, MOK(F, B, p, m), NEW i \in TM,
         NEW m2, m2 \in MultiType, OneSlot(m, m2, i), SlotsOK(F2, B2, p, m2), Later(m.s[i], m2.s[i]),
         Grown(F, B, F2, B2, p, m2)
  PROVE  MOK(F2, B2, p, m2)
  <1> DEFINE t == m2.s[i]
  <1>1. m \in MultiType /\ m.s \in [TM -> SessionType] /\ m.nsid \in Nat BY DEF MOK, MultiType
  <1>2. m2.nsid = m.nsid /\ \A j \in TM : j # i => m2.s[j] = m.s[j] BY DEF OneSlot
  <1>3. t.n \in Nat /\ t.sid \in Nat /\ m.s[i].n \in Nat /\ m.s[i].sid \in Nat BY <1>1 DEF SlotsOK, SOK, SessionType
  <1>4. ASSUME NEW G \in Gen, Used(m, G) PROVE Used(m2, G)
    BY <1>2, <1>3, <1>4 DEF Used, Gen, Later
  <1>5. OtherEnd(p) \in TlsPeer BY Ends2
  <1>6. /\ \A b \in B[p] : b[1] \in Gen
        /\ \A f \in F[p] : f[1] \in Gen
        /\ \A f \in F[OtherEnd(p)] : f[2] \in Gen
    BY <1>5 DEF GOK
  <1>7. /\ \A b \in B2[p] : Used(m2, b[1])
        /\ \A f \in F2[p] : Used(m2, f[1])
        /\ \A f \in F2[OtherEnd(p)] : Used(m2, f[2])
    BY <1>4, <1>6 DEF MOK, Grown
  <1>8. \A j \in TM : SOK(F2, B2, p, m2.s[j]) /\ m2.s[j].sid < m2.nsid
    BY <1>1, <1>2, <1>3 DEF MOK, SlotsOK, Later
  <1>9. \A j, k \in TM : j # k /\ m2.s[j].sid = m2.s[k].sid => m2.s[j].sid = NoSid
    BY <1>2 DEF MOK, Later
  <1> QED BY <1>2, <1>7, <1>8, <1>9 DEF MOK

\* A new session in slot i; a new primary key state in a session.
SetSlot(m, i, t) == [m EXCEPT !.s[i] = t]
SetPrim(s, k) == [s EXCEPT !.prim = k]

\* What a new session in slot i leaves alone.
LEMMA SlotFields ==
  ASSUME NEW m \in MultiType, NEW i \in TM, NEW t \in SessionType, NEW m2, m2 = SetSlot(m, i, t)
  PROVE  /\ m2 \in MultiType /\ m2.s = [m.s EXCEPT ![i] = t] /\ m2.nsid = m.nsid /\ m2.linked = m.linked
         /\ m2.actual = m.actual /\ m2.hard = m.hard
         /\ m2.s[i] = t /\ \A j \in TM : j # i => m2.s[j] = m.s[j]
  BY DEF MultiType, SetSlot

\* What a new primary key state leaves alone.
LEMMA PrimFields ==
  ASSUME NEW s \in SessionType, NEW k \in KeyStateType, NEW t, t = SetPrim(s, k)
  PROVE  /\ t \in SessionType /\ t.prim = k /\ t.lame = s.lame /\ t.sid = s.sid /\ t.n = s.n
         /\ t.kid = s.kid /\ t.opc = s.opc
  BY DEF SessionType, SetPrim

\* PutKey in terms of the two.
LEMMA PutKeySlot ==
  ASSUME NEW m \in MultiType, NEW i \in TM, NEW k \in KeyStateType
  PROVE  PutKey(m, i, k) = SetSlot(m, i, SetPrim(m.s[i], k))
  BY DEF MultiType, SessionType, PutKey, SetSlot, SetPrim

\* What tls_process leaves alone, when it works on session i.
Keeps(i, m, m2) ==
  /\ m2.nsid = m.nsid /\ m2.linked = m.linked /\ m2.actual = m.actual
  /\ \A j \in TM : /\ m2.s[j].sid = m.s[j].sid /\ m2.s[j].prim.rsid = m.s[j].prim.rsid
                   /\ j # i => m2.s[j].prim.st = m.s[j].prim.st
                   /\ m.s[j].prim.st # S_UNDEF => m2.s[j].prim.st # S_UNDEF

\* What PutKey leaves alone.
LEMMA PutKeyFields ==
  ASSUME NEW m \in MultiType, NEW i \in TM, NEW k \in KeyStateType, NEW m2, m2 = PutKey(m, i, k)
  PROVE  /\ m2 \in MultiType /\ m2.s[i] \in SessionType /\ m2.s = [m.s EXCEPT ![i] = m2.s[i]]
         /\ m2.nsid = m.nsid /\ m2.linked = m.linked /\ m2.actual = m.actual
         /\ m2.s[i].prim = k /\ m2.s[i].lame = m.s[i].lame /\ m2.s[i].sid = m.s[i].sid
         /\ m2.s[i].n = m.s[i].n /\ m2.s[i].kid = m.s[i].kid
         /\ \A j \in TM : j # i => m2.s[j] = m.s[j]
  <1> DEFINE t == SetPrim(m.s[i], k)
  <1>1. m.s[i] \in SessionType BY DEF MultiType
  <1>2. t \in SessionType /\ t.prim = k /\ t.lame = m.s[i].lame /\ t.sid = m.s[i].sid /\ t.n = m.s[i].n /\ t.kid = m.s[i].kid
    BY <1>1, PrimFields
  <1>3. m2 = SetSlot(m, i, t) BY PutKeySlot
  <1> HIDE DEF t
  <1>4. /\ m2 \in MultiType /\ m2.s = [m.s EXCEPT ![i] = t] /\ m2.nsid = m.nsid /\ m2.linked = m.linked
         /\ m2.actual = m.actual
         /\ m2.s[i] = t /\ \A j \in TM : j # i => m2.s[j] = m.s[j]
    BY <1>2, <1>3, SlotFields
  <1> QED BY <1>2, <1>4

\* PutKey puts the key state where it belongs,
LEMMA PutKeyPrim ==
  ASSUME NEW m \in MultiType, NEW i \in TM, NEW k \in KeyStateType
  PROVE  PutKey(m, i, k).s[i].prim = k
  BY DEF PutKey, MultiType, SessionType

\* and the last one put stays.
LEMMA PutAgain ==
  ASSUME NEW m \in MultiType, NEW i \in TM, NEW k \in KeyStateType, NEW l \in KeyStateType
  PROVE  PutKey(PutKey(m, i, k), i, l) = PutKey(m, i, l)
  <1> DEFINE s == SetPrim(m.s[i], k)
             m2 == SetSlot(m, i, s)
  <1>1. m.s[i] \in SessionType BY DEF MultiType
  <1>2. s \in SessionType BY <1>1, PrimFields
  <1>3. SetPrim(s, l) = SetPrim(m.s[i], l) BY <1>1 DEF SessionType, SetPrim
  <1>6. ASSUME NEW t PROVE SetSlot(m2, i, t) = SetSlot(m, i, t)
    BY DEF MultiType, SetSlot
  <1> HIDE DEF s
  <1>4. m2 \in MultiType /\ m2.s[i] = s BY <1>2 DEF MultiType, SetSlot
  <1> HIDE DEF m2
  <1>5. PutKey(m2, i, l) = SetSlot(m2, i, SetPrim(s, l)) BY <1>4, PutKeySlot
  <1>7. PutKey(m, i, k) = m2 BY PutKeySlot DEF m2, s
  <1>8. PutKey(m, i, l) = SetSlot(m, i, SetPrim(m.s[i], l)) BY PutKeySlot
  <1> QED BY <1>3, <1>5, <1>6, <1>7, <1>8

\* A primary key state that was changed within its frame is put back.
LEMMA PutStep ==
  ASSUME NEW F, NEW B, GOK(F, B), NEW p, p \in TlsPeer, NEW m, MOK(F, B, p, m), NEW i \in TM,
         m.s[i].prim.st # S_UNDEF,
         NEW k, KOK(F, B, p, k), k.st # S_UNDEF, Frame(m.s[i].prim, k)
  PROVE  MOK(F, B, p, PutKey(m, i, k)) /\ Keeps(i, m, PutKey(m, i, k))
  <1> DEFINE m2 == PutKey(m, i, k)
             t == m2.s[i]
  <1>1. m \in MultiType /\ k \in KeyStateType /\ SOK(F, B, p, m.s[i]) /\ m.s[i] \in SessionType
    BY DEF MOK, KOK, SOK
  <1>2. /\ m2 \in MultiType /\ t \in SessionType /\ m2.s = [m.s EXCEPT ![i] = t]
        /\ m2.nsid = m.nsid /\ m2.linked = m.linked /\ m2.actual = m.actual
        /\ t.prim = k /\ t.lame = m.s[i].lame /\ t.sid = m.s[i].sid
        /\ t.n = m.s[i].n /\ t.kid = m.s[i].kid
        /\ \A j \in TM : j # i => m2.s[j] = m.s[j]
    BY <1>1, PutKeyFields DEF MultiType
  <1> HIDE DEF m2
  <1>3. SOK(F, B, p, t)
    BY <1>1, <1>2 DEF SOK, Chain, Frame
  <1>4. MOK(F, B, p, m2)
    <2>1. SlotsOK(F, B, p, m2) BY <1>2, <1>3 DEF MOK, SlotsOK
    <2>2. Later(m.s[i], m2.s[i]) BY <1>1, <1>2 DEF SessionType, Later
    <2>3. Grown(F, B, F, B, p, m2) BY DEF Grown
    <2>4. OneSlot(m, m2, i) BY <1>2 DEF OneSlot
    <2> QED BY <1>2, <2>1, <2>2, <2>3, <2>4, SlotStep
  <1>5. Keeps(i, m, m2)
    BY <1>2 DEF Keeps, Frame
  <1> QED BY <1>4, <1>5 DEF m2

\* Incoming ciphertext other than the hello teaches nothing new about the connection.
LEMMA IncomingQuiet ==
  ASSUME NEW F, NEW B, NEW p, p \in TlsPeer, NEW ks, KOK(F, B, p, ks), ks.st # S_UNDEF,
         NEW k \in KeyStateType, NEW e \in ks.rbuf, e \in Entry, e.id = ks.rnext, e.id # HELLO,
         Frame(ks, k), k.auth = ks.auth, k.key = ks.key,
         k.rnext = ks.rnext + 1, k.rbuf = ks.rbuf \ {e}, k.peer = ks.peer, k.plain => ks.plain \/ e.id = KEYS,
         k.st \in {ks.st, S_ERROR}, e.id = KEYS /\ k.st # S_ERROR => e.gen = ks.peer /\ e.peer = ks.gen
  PROVE  KOK(F, B, p, k)
  <1> USE TlsAssumption DEF TlsAssumption
  <1>0. /\ ks \in KeyStateType /\ KsInv(p, ks) /\ KsGhost(F, B, p, ks)
        /\ ks.rnext \in 0 .. 3 /\ e.id \in 0 .. 2 /\ ks.st \in -1 .. 7 /\ ks.rsid # NoSid
    BY DEF KOK, KeyStateType, KsInv, Entry
  <1>1. ks.rnext < 3 /\ ks.key = NoKey /\ ~ ks.plain
    BY <1>0 DEF KsInv
  <1>2. k.st # S_UNDEF /\ k.st \in -1 .. 7 BY <1>0
  <1>3. KsInv(p, k)
    <2>1. /\ k.gen.sid # NoSid /\ (k.kid = 0 <=> k.gen.n = 0)
          /\ k.rsid # NoSid /\ k.key = NoKey
          /\ k.peer # NoGen => k.rnext >= 2
      BY <1>0, <1>1 DEF KsInv, Frame
    <2>2. k.plain => k.rnext = 3
      BY <1>0, <1>1
    <2>3. /\ p = TlsServer => k.st < S_SENT_KEY
          /\ p = TlsClient => k.st < S_GOT_KEY
      BY <1>0, <1>1 DEF KsInv
    <2> QED BY <1>2, <2>1, <2>2, <2>3 DEF KsInv
  <1>4. KsGhost(F, B, p, k)
    <2>1. /\ <<k.gen, k.kid>> \in B[p]
          /\ k.peer # NoGen => <<k.gen, k.peer>> \in F[p] /\ <<k.peer, k.kid>> \in B[OtherEnd(p)]
          /\ \A f \in F[p] : f[1] = k.gen => f[2] = k.peer
          /\ \A x \in k.rbuf : /\ <<x.gen, k.kid>> \in B[OtherEnd(p)]
                               /\ x.peer # NoGen => <<x.gen, x.peer>> \in F[OtherEnd(p)]
      BY <1>0 DEF KsGhost, Frame
    <2>2. ASSUME Est(k) PROVE <<k.peer, k.gen>> \in F[OtherEnd(p)]
      <3>1. k.st # S_ERROR /\ e.id = KEYS
        BY <1>0, <1>1, <2>2 DEF Est
      <3>2. ks.gen # NoGen BY <1>0 DEF KsInv, NoGen
      <3> QED BY <1>0, <3>1, <3>2 DEF KsGhost, Frame
    <2> QED BY <2>1, <2>2 DEF KsGhost
  <1> QED BY <1>3, <1>4 DEF KOK

\* The hello: the key state learns its peer.
LEMMA IncomingHello ==
  ASSUME NEW F, NEW B, NEW F2, NEW p, p \in TlsPeer, NEW ks, KOK(F, B, p, ks), ks.st # S_UNDEF,
         NEW k \in KeyStateType, NEW e \in ks.rbuf, e \in Entry, e.id = ks.rnext, e.id = HELLO,
         Frame(ks, k), k.auth = ks.auth, k.key = ks.key,
         k.rnext = ks.rnext + 1, k.rbuf = ks.rbuf \ {e}, k.peer = e.gen, k.plain => ks.plain \/ e.id = KEYS,
         k.st \in {ks.st, S_ERROR},
         F2[p] = F[p] \cup {<<ks.gen, e.gen>>}, F2[OtherEnd(p)] = F[OtherEnd(p)],
         \A f \in F[p] : f[1] # ks.gen
  PROVE  KOK(F2, B, p, k)
  <1> USE TlsAssumption DEF TlsAssumption
  <1>0. /\ ks \in KeyStateType /\ KsInv(p, ks) /\ KsGhost(F, B, p, ks)
        /\ ks.rnext = 1 /\ ks.st \in -1 .. 7 /\ ks.rsid # NoSid
    BY DEF KOK, KeyStateType, KsInv, Entry
  <1>1. ks.key = NoKey /\ ~ ks.plain
    BY <1>0 DEF KsInv
  <1>2. k.st # S_UNDEF /\ k.st \in -1 .. 7 BY <1>0
  <1>3. KsInv(p, k)
    <2>1. /\ k.gen.sid # NoSid /\ (k.kid = 0 <=> k.gen.n = 0)
          /\ k.rsid # NoSid /\ k.key = NoKey /\ k.rnext = 2
      BY <1>0, <1>1 DEF KsInv, Frame
    <2>2. ~ k.plain
      BY <1>1
    <2>3. /\ p = TlsServer => ~ (k.st >= S_SENT_KEY)
          /\ p = TlsClient => ~ (k.st >= S_GOT_KEY)
      BY <1>0, <1>1 DEF KsInv
    <2>4. k.rnext >= 2 BY <1>0
    <2> QED BY <1>2, <2>1, <2>2, <2>3, <2>4 DEF KsInv
  <1>4. KsGhost(F2, B, p, k)
    <2>1. ~ Est(k) BY <1>0 DEF Est
    <2>2. <<k.gen, k.kid>> \in B[p] /\ <<k.gen, k.peer>> \in F2[p] /\ <<k.peer, k.kid>> \in B[OtherEnd(p)]
      BY <1>0 DEF KsGhost, Frame
    <2>3. \A f \in F2[p] : f[1] = k.gen => f[2] = k.peer
      BY DEF Frame
    <2>4. \A x \in k.rbuf : /\ <<x.gen, k.kid>> \in B[OtherEnd(p)]
                            /\ x.peer # NoGen => <<x.gen, x.peer>> \in F2[OtherEnd(p)]
      BY <1>0 DEF KsGhost, Frame
    <2> QED BY <2>1, <2>2, <2>3, <2>4 DEF KsGhost
  <1> QED BY <1>3, <1>4 DEF KOK

\* A packet is taken from the buffer: F grows when it is the other end's HELLO,
\* which names the key state it comes from.  That no two facts of F cross is what
\* the TLS handshake guarantees.
LEMMA IncomingStep ==
  ASSUME NEW F, NEW B, NEW p, p \in TlsPeer, NEW m, NEW mq, NEW D, World(F, B, p, m, mq, D),
         NEW i \in TM, m.s[i].prim.st # S_UNDEF,
         NEW ks, KOK(F, B, p, ks), ks.st # S_UNDEF, Frame(m.s[i].prim, ks),
         NEW k, k = IncomingCiphertext(p, ks)
  PROVE  \E F2 : /\ World(F2, B, p, PutKey(m, i, k), mq, D) /\ Keeps(i, m, PutKey(m, i, k))
                 /\ KOK(F2, B, p, k) /\ k.st # S_UNDEF /\ Frame(ks, k)
                 /\ Wider(F, B, F2, B)
  <1>0. /\ GOK(F, B) /\ MOK(F, B, p, m) /\ MOK(F, B, OtherEnd(p), mq) /\ ks \in KeyStateType
        /\ KsInv(p, ks) /\ KsGhost(F, B, p, ks) /\ ks.st \in -1 .. 7
    BY DEF World, KOK, KeyStateType
  <1>1. CASE k = ks
    BY <1>0, <1>1, PutStep DEF World, Frame, Wider
  <1>2. CASE k # ks
    <2>1. PICK e \in ks.rbuf :
           /\ e \in Entry /\ e.id = ks.rnext
           /\ k \in KeyStateType /\ Frame(ks, k) /\ k.auth = ks.auth /\ k.key = ks.key
           /\ k.rnext = ks.rnext + 1 /\ k.rbuf = ks.rbuf \ {e}
           /\ k.peer = (IF e.id = HELLO THEN e.gen ELSE ks.peer)
           /\ k.plain => ks.plain \/ e.id = KEYS
           /\ k.st \in {ks.st, S_ERROR}
           /\ e.id = KEYS /\ k.st # S_ERROR => e.gen = ks.peer /\ e.peer = ks.gen
      BY <1>0, <1>2, IncomingFields
    <2>2. k.st # S_UNDEF /\ Frame(m.s[i].prim, k) BY <2>1 DEF Frame
    <2>3. CASE e.id # HELLO
      <3>1. KOK(F, B, p, k) BY <2>1, <2>3, IncomingQuiet
      <3> QED BY <1>0, <2>1, <2>2, <3>1, PutStep DEF World, Wider
    <2>4. CASE e.id = HELLO
      <3> DEFINE f0 == <<ks.gen, e.gen>>
                 F2 == [F EXCEPT ![p] = @ \cup {f0}]
                 q  == OtherEnd(p)
      <3>1. q \in TlsPeer /\ q # p /\ OtherEnd(q) = p BY Ends2
      <3>2. F2[p] = F[p] \cup {f0} /\ F2[q] = F[q] /\ \A x \in TlsPeer : F[x] \subseteq F2[x]
        BY <1>0, <3>1 DEF GOK
      <3>3. e.gen \in Gen /\ ks.gen \in Gen BY <1>0, <2>1 DEF Entry, KeyStateType, Gen
      <3>4. Used(mq, e.gen) /\ e.gen # NoGen
        <4>1. <<e.gen, ks.kid>> \in B[q] BY <1>0, <2>1 DEF KsGhost
        <4>2. Used(mq, <<e.gen, ks.kid>>[1]) BY <1>0, <4>1 DEF MOK
        <4> QED BY <4>2 DEF Used, NoGen
      <3>5. ks.peer = NoGen BY <1>0, <2>1, <2>4 DEF KsInv
      <3>6. \A f \in F[p] : f[1] # ks.gen
        BY <1>0, <3>1, <3>5 DEF KsGhost, MOK, Used, NoGen
      <3>7. KOK(F2, B, p, k)
        <4> HIDE DEF F2
        <4>1. k.peer = e.gen /\ F2[p] = F[p] \cup {<<ks.gen, e.gen>>} /\ F2[OtherEnd(p)] = F[OtherEnd(p)]
          BY <2>1, <2>4, <3>2
        <4> QED BY <2>1, <2>4, <3>6, <4>1, IncomingHello, ZenonT(30)
      <3>8. GOK(F2, B)
        <4>1. F2 \in [TlsPeer -> SUBSET (Gen \X Gen)] BY <1>0, <3>3 DEF GOK
        <4>2. \A g \in F[q] : g[2].sid = ks.gen.sid => ~ (ks.gen.n < g[2].n)
          <5>1. TAKE g \in F[q]
          <5>2. HAVE g[2].sid = ks.gen.sid
          <5>3. Used(m, g[2]) /\ g[2] \in Gen BY <1>0, <3>1 DEF MOK, GOK
          <5>4. /\ m.s[i].n = m.s[i].prim.gen.n + 1 /\ m.s[i].prim.gen.sid = m.s[i].sid
                /\ m.s[i].prim.gen = ks.gen
            BY <1>0 DEF MOK, SOK, Chain, Frame
          <5> QED BY <3>3, <5>2, <5>3, <5>4 DEF Used, Gen
        <4>3. NoCross(F2, TlsClient)
          <5> HIDE DEF F2
          <5>1. CASE p = TlsClient
            BY <1>0, <3>1, <3>2, <3>3, <4>2, <5>1 DEF NoCross, GOK
          <5>2. CASE p # TlsClient
            <6>1. q = TlsClient /\ OtherEnd(TlsClient) = p BY <3>1, <5>2, Ends2
            <6> QED BY <1>0, <3>1, <3>2, <3>3, <4>2, <6>1 DEF NoCross, GOK
          <5> QED BY <5>1, <5>2
        <4> QED BY <1>0, <4>1, <4>3 DEF GOK
      <3>9. MOK(F2, B, q, mq)
        <4>1. \A f \in F2[p] : Used(mq, f[2])
          BY <1>0, <3>1, <3>2, <3>4 DEF MOK
        <4> QED BY <1>0, <3>1, <3>2, <4>1, GrowOther
      <3> DEFINE m2 == PutKey(m, i, k)
                 t  == m2.s[i]
      <3>10. /\ m2 \in MultiType /\ t \in SessionType /\ m2.s = [m.s EXCEPT ![i] = t]
             /\ m2.nsid = m.nsid /\ m2.linked = m.linked /\ m2.actual = m.actual
             /\ t.prim = k /\ t.lame = m.s[i].lame /\ t.sid = m.s[i].sid
             /\ t.n = m.s[i].n /\ t.kid = m.s[i].kid
             /\ \A j \in TM : j # i => m2.s[j] = m.s[j]
        BY <1>0, <2>1, PutKeyFields DEF MOK
      <3> HIDE DEF F2, m2
      <3>11. MOK(F2, B, p, m2)
        <4>1. SOK(F, B, p, m.s[i]) BY <1>0 DEF MOK
        <4>0. m.s[i].prim.gen = ks.gen /\ \A f \in F2[p] : f \in F[p] \/ f[1] = ks.gen
          BY <3>2 DEF Frame
        <4>2. SOK(F2, B, p, t)
          <5>1. m.s[i].lame.st # S_UNDEF => m.s[i].lame.gen # ks.gen
            <6>1. m.s[i].lame.gen.n \in Nat BY <4>1 DEF SOK, KOK, KeyStateType
            <6>2. m.s[i].lame.st # S_UNDEF => m.s[i].prim.gen.n = m.s[i].lame.gen.n + 1
              BY <4>1 DEF SOK, Chain
            <6> QED BY <4>0, <6>1, <6>2
          <5>2. KOK(F2, B, p, m.s[i].lame)
            BY <3>2, <4>0, <4>1, <5>1, GrowKey DEF SOK
          <5>3. Chain(t) BY <2>1, <2>2, <3>10, <4>1 DEF Chain, SOK, Frame
          <5> QED BY <3>7, <3>10, <5>2, <5>3 DEF SOK
        <4>3. \A j \in TM : j # i => SOK(F2, B, p, m.s[j])
          <5>1. TAKE j \in TM
          <5>2. HAVE j # i
          <5>3. SOK(F, B, p, m.s[j]) BY <1>0 DEF MOK
          <5>4. m.s[i].prim.gen.sid = m.s[i].sid /\ m.s[i].sid # NoSid BY <4>1 DEF SOK, Chain
          <5>5. m.s[j].sid # ks.gen.sid BY <1>0, <4>0, <5>2, <5>4 DEF MOK
          <5>6. /\ m.s[j].prim.st # S_UNDEF => m.s[j].prim.gen # ks.gen
                /\ m.s[j].lame.st # S_UNDEF => m.s[j].lame.gen # ks.gen
            BY <5>3, <5>5 DEF SOK, Chain
          <5> QED BY <3>2, <4>0, <5>3, <5>6, GrowKey DEF SOK
        <4>4. Used(m2, ks.gen)
          <5>1. Used(m, <<ks.gen, ks.kid>>[1]) BY <1>0 DEF KsGhost, MOK
          <5> QED BY <3>10, <5>1 DEF Used
        <4>5. Later(m.s[i], m2.s[i]) BY <3>10, <4>1 DEF SOK, SessionType, Later
        <4>6. Grown(F, B, F2, B, p, m2) BY <3>2, <4>0, <4>4 DEF Grown
        <4>7. SlotsOK(F2, B, p, m2) /\ OneSlot(m, m2, i) BY <3>10, <4>2, <4>3 DEF SlotsOK, OneSlot
        <4> QED BY <1>0, <3>10, <4>5, <4>6, <4>7, SlotStep
      <3>12. Keeps(i, m, m2)
        BY <2>2, <3>10 DEF Keeps, Frame
      <3>13. Wider(F, B, F2, B)
        BY <3>2, GrowDatagram DEF Wider
      <3> QED BY <2>1, <2>2, <3>7, <3>8, <3>9, <3>11, <3>12, <3>13 DEF World, m2, Wider
    <2> QED BY <2>3, <2>4
  <1> QED BY <1>1, <1>2

\* Keeps is transitive.
LEMMA KeepsTrans ==
  ASSUME NEW i, NEW a, NEW b, NEW c, Keeps(i, a, b), Keeps(i, b, c)
  PROVE  Keeps(i, a, c)
  BY DEF Keeps

\* No authenticated key is left, nothing else changes.
LEMMA DeauthenticateStep ==
  ASSUME NEW F, NEW B, NEW p, p \in TlsPeer, NEW m, MOK(F, B, p, m), NEW i
  PROVE  MOK(F, B, p, tls_deauthenticate(m)) /\ Keeps(i, m, tls_deauthenticate(m))
  <1> DEFINE m2 == tls_deauthenticate(m)
             T(j) == [m.s[j] EXCEPT !.prim.auth = FALSE, !.lame.auth = FALSE]
  <1>1. m \in MultiType /\ \A j \in TM : m.s[j] \in SessionType BY DEF MOK, MultiType
  <1>2. m2 = [m EXCEPT !.s = [j \in TM |-> T(j)]] BY DEF tls_deauthenticate
  <1>3. ASSUME NEW j \in TM
        PROVE  /\ T(j) \in SessionType /\ SOK(F, B, p, T(j))
               /\ T(j).sid = m.s[j].sid /\ T(j).n = m.s[j].n
               /\ T(j).prim.rsid = m.s[j].prim.rsid /\ T(j).prim.st = m.s[j].prim.st
    <2> DEFINE s == m.s[j]
               a == [s.prim EXCEPT !.auth = FALSE]
               b == [s.lame EXCEPT !.auth = FALSE]
               t == T(j)
    <2>1. s \in SessionType /\ s.prim \in KeyStateType /\ s.lame \in KeyStateType /\ SOK(F, B, p, s)
      BY <1>1 DEF SessionType, MOK
    <2>2. /\ a \in KeyStateType /\ Frame(s.prim, a) /\ a.st = s.prim.st
          /\ a.auth = FALSE /\ a.key = s.prim.key /\ a.rnext = s.prim.rnext /\ a.rbuf = s.prim.rbuf
          /\ a.peer = s.prim.peer /\ a.plain = s.prim.plain
      BY <2>1, SetAuthFields
    <2>3. /\ b \in KeyStateType /\ Frame(s.lame, b) /\ b.st = s.lame.st
          /\ b.auth = FALSE /\ b.key = s.lame.key /\ b.rnext = s.lame.rnext /\ b.rbuf = s.lame.rbuf
          /\ b.peer = s.lame.peer /\ b.plain = s.lame.plain
      BY <2>1, SetAuthFields
    <2>4. t = [[s EXCEPT !.prim = a] EXCEPT !.lame = b]
      <3> HIDE DEF s
      <3>1. T(j) = [s EXCEPT !.prim.auth = FALSE, !.lame.auth = FALSE] BY DEF s
      <3>2. [s EXCEPT !.prim.auth = FALSE, !.lame.auth = FALSE] = [[s EXCEPT !.prim = a] EXCEPT !.lame = b]
        BY <2>1 DEF SessionType
      <3> QED BY <3>1, <3>2
    <2> HIDE DEF a, b, s
    <2>5. KOK(F, B, p, a)
      <3>1. CASE s.prim.st # S_UNDEF BY <2>1, <2>2, <3>1, QuietStep DEF SOK, Forward
      <3>2. CASE s.prim.st = S_UNDEF
        <4>1. KsInv(p, s.prim) /\ KsGhost(F, B, p, s.prim) BY <2>1 DEF SOK, KOK
        <4>2. KsInv(p, a) BY <2>2, <3>2, <4>1 DEF KsInv, Frame, KeyOf, DECRYPT_KEY_ENABLED
        <4>3. KsGhost(F, B, p, a) BY <2>2, <3>2, <4>1 DEF KsGhost, Frame, Est
        <4> QED BY <2>2, <4>2, <4>3 DEF KOK
      <3> QED BY <3>1, <3>2
    <2>6. KOK(F, B, p, b)
      <3>1. CASE s.lame.st # S_UNDEF BY <2>1, <2>3, <3>1, QuietStep DEF SOK, Forward
      <3>2. CASE s.lame.st = S_UNDEF
        <4>1. KsInv(p, s.lame) /\ KsGhost(F, B, p, s.lame) BY <2>1 DEF SOK, KOK
        <4>2. KsInv(p, b) BY <2>3, <3>2, <4>1 DEF KsInv, Frame, KeyOf, DECRYPT_KEY_ENABLED
        <4>3. KsGhost(F, B, p, b) BY <2>3, <3>2, <4>1 DEF KsGhost, Frame, Est
        <4> QED BY <2>3, <4>2, <4>3 DEF KOK
      <3> QED BY <3>1, <3>2
    <2> HIDE DEF t
    <2>7. t \in SessionType /\ t.sid = s.sid /\ t.n = s.n /\ t.kid = s.kid /\ t.prim = a /\ t.lame = b
      BY <2>1, <2>2, <2>3, <2>4 DEF SessionType
    <2>8. Chain(t) BY <2>1, <2>2, <2>3, <2>7 DEF SOK, Chain, Frame
    <2>9. SOK(F, B, p, t) BY <2>5, <2>6, <2>7, <2>8 DEF SOK
    <2> QED BY <2>2, <2>7, <2>9 DEF Frame, t, s
  <1> HIDE DEF T
  <1>4. /\ m2 \in MultiType /\ m2.nsid = m.nsid /\ m2.linked = m.linked /\ m2.actual = m.actual
        /\ \A j \in TM : m2.s[j] = T(j)
    BY <1>1, <1>2, <1>3 DEF MultiType
  <1> HIDE DEF m2
  <1>5. \A G : Used(m, G) => Used(m2, G)
    BY <1>3, <1>4 DEF Used
  <1>6. MOK(F, B, p, m2)
    BY <1>3, <1>4, <1>5 DEF MOK
  <1>7. Keeps(i, m, m2)
    BY <1>3, <1>4 DEF Keeps
  <1> QED BY <1>6, <1>7 DEF m2

\* Receiving the key material, with whatever verdict, keeps the invariant.
LEMMA ReceiveKeyStep ==
  ASSUME NEW F, NEW B, GOK(F, B), NEW p, p \in TlsPeer, NEW m, MOK(F, B, p, m), NEW i \in TM,
         m.s[i].prim.st # S_UNDEF, NEW verdict, NEW m2, m2 = ReceiveKey(p, m, i, verdict)
  PROVE  MOK(F, B, p, m2) /\ Keeps(i, m, m2)
  <1> DEFINE ks == m.s[i].prim
             k  == key_method_2_read(p, ks, verdict)
             t  == PutKey(m, i, k)
  <1>1. CASE ~ (ks.plain /\ ks.st = (IF p = TlsServer THEN S_START ELSE S_SENT_KEY))
    BY <1>1 DEF ReceiveKey, Keeps
  <1>2. CASE ks.plain /\ ks.st = (IF p = TlsServer THEN S_START ELSE S_SENT_KEY)
    <2>1. KOK(F, B, p, ks) BY DEF MOK, SOK
    <2>2. KOK(F, B, p, k) /\ k.st # S_UNDEF /\ Frame(ks, k)
      <3> HIDE DEF ks
      <3> QED BY <1>2, <2>1, ReadStep
    <2>3. m2 = IF verdict = "cn_changed" THEN tls_deauthenticate(t) ELSE t
      BY <1>2 DEF ReceiveKey
    <2> HIDE DEF k
    <2>4. MOK(F, B, p, t) /\ Keeps(i, m, t)
      BY <2>2, PutStep
    <2> HIDE DEF t
    <2>5. CASE verdict = "cn_changed"
      BY <2>3, <2>4, <2>5, DeauthenticateStep, KeepsTrans
    <2>6. CASE verdict # "cn_changed"
      BY <2>3, <2>4, <2>6
    <2> QED BY <2>5, <2>6
  <1> QED BY <1>1, <1>2

-----------------------------------------------------------------------------
(* The loop of tls_process.                                                *)

\* A datagram says the truth about the key state that sent it.
LEMMA DatagramStep ==
  ASSUME NEW F, NEW B, NEW p, p \in TlsPeer, NEW s \in SessionType, KOK(F, B, p, s.prim), s.prim.st # S_UNDEF,
         s.sid # NoSid, NEW id \in -1 .. KEYS, NEW d, d = Datagram(p, s, id)
  PROVE  DOK(F, B, d) /\ d.from = p
  <1> DEFINE ks == s.prim
  <1>1. ks \in KeyStateType /\ s.sid \in Nat BY DEF KOK, SessionType
  <1>2. ks.peer \in Gen /\ ks.gen \in Gen /\ ks.kid \in 0 .. KeyIdLimit - 1 /\ ks.rsid \in Nat /\ ks.acks \in SUBSET (RESET .. KEYS)
        /\ ks.opc \in Ops /\ NoGen \in Gen
    BY <1>1 DEF KeyStateType, Gen, Ops, NoGen
  <1>3. /\ d = [op   |-> d.op, from |-> p, sid |-> s.sid, kid |-> ks.kid, acks |-> ks.acks, asid |-> d.asid,
                id |-> id, gen |-> ks.gen, peer |-> d.peer]
        /\ d.from = p /\ d.sid = s.sid /\ d.kid = ks.kid /\ d.gen = ks.gen /\ d.id = id
        /\ d.op \in {ks.opc, "ACK", "CONTROL"} /\ d.asid \in {NoSid, ks.rsid} /\ d.peer \in {ks.peer, NoGen}
        /\ id = -1 => d.op = "ACK"
    BY DEF Datagram
  <1> HIDE DEF ks
  <1>4. d \in DatagramType
    BY <1>1, <1>2, <1>3 DEF DatagramType
  <1>5. <<d.gen, d.kid>> \in B[p] /\ (d.peer # NoGen => <<d.gen, d.peer>> \in F[p])
    BY <1>3 DEF KOK, KsGhost, ks
  <1> QED BY <1>3, <1>4, <1>5 DEF DOK

\* A run of tls_process for session i, started with m0, so far.
RunOK(p, mq, D, i, m0, r) ==
  /\ RunShape(r) /\ Keeps(i, m0, r.m) /\ r.m.s[i].prim.st # S_UNDEF
  /\ \E F, B : /\ World(F, B, p, r.m, mq, D)
               /\ r.out # NoDatagram => DOK(F, B, r.out) /\ r.out.from = p

\* A TLS error puts the key state in S_ERROR.
LEMMA FailRunStep ==
  ASSUME NEW F, NEW B, NEW p, p \in TlsPeer, NEW mq, NEW D, NEW i \in TM, NEW m0, NEW r, RunShape(r),
         Keeps(i, m0, r.m), NEW ks, ks \in KeyStateType, r.m \in MultiType,
         KOK(F, B, p, ks), ks.st # S_UNDEF, Keeps(i, r.m, PutKey(r.m, i, ks)),
         World(F, B, p, PutKey(r.m, i, ks), mq, D), r.out # NoDatagram => DOK(F, B, r.out) /\ r.out.from = p
  PROVE  RunOK(p, mq, D, i, m0, FailRun(r, i, ks))
  <1> DEFINE k == [ks EXCEPT !.st = S_ERROR]
             m1 == PutKey(r.m, i, ks)
             m2 == PutKey(r.m, i, k)
             x == FailRun(r, i, ks)
  <1>1. /\ k \in KeyStateType /\ Frame(ks, k) /\ k.st = S_ERROR
        /\ k.auth = ks.auth /\ k.key = ks.key /\ k.rnext = ks.rnext /\ k.rbuf = ks.rbuf
        /\ k.peer = ks.peer /\ k.plain = ks.plain
    BY SetStFields
  <1>2. x = [r EXCEPT !.m = m2, !.go = FALSE, !.fail = TRUE] BY DEF FailRun
  <1>3. m2 = PutKey(m1, i, k)
    <2> HIDE DEF k
    <2> QED BY <1>1, PutAgain
  <1>4. m1.s[i].prim = ks BY PutKeyPrim
  <1> HIDE DEF k, m1
  <1>5. KOK(F, B, p, k) /\ k.st # S_UNDEF
    BY <1>1, QuietStep DEF Forward
  <1>6. MOK(F, B, p, m2) /\ Keeps(i, m1, m2)
    BY <1>1, <1>3, <1>4, <1>5, PutStep DEF World, m1
  <1>7. m2.s[i].prim = k BY <1>1, PutKeyPrim
  <1> HIDE DEF m2, x
  <1>8. x.m = m2 /\ x.out = r.out /\ RunShape(x)
    BY <1>2 DEF RunShape
  <1>9. Keeps(i, m0, m2) BY <1>6, KeepsTrans DEF m1
  <1>10. World(F, B, p, m2, mq, D) BY <1>6 DEF World
  <1> QED BY <1>5, <1>7, <1>8, <1>9, <1>10 DEF RunOK, x

\* A control packet is sent with the acknowledgments due.
LEMMA SendPacketStep ==
  ASSUME NEW F, NEW B, NEW p, p \in TlsPeer, NEW mq, NEW D, NEW i \in TM, NEW m0, NEW r, RunShape(r),
         Keeps(i, m0, r.m), NEW ks, KOK(F, B, p, ks), ks.st # S_UNDEF, r.m.s[i].prim.st # S_UNDEF,
         Frame(r.m.s[i].prim, ks), World(F, B, p, r.m, mq, D), NEW x \in SendPacket(p, r, i, ks)
  PROVE  RunOK(p, mq, D, i, m0, x)
  <1> DEFINE k == [ks EXCEPT !.acks = {}]
             m2 == PutKey(r.m, i, k)
             s == [r.m.s[i] EXCEPT !.prim = ks]
  <1>1. /\ k \in KeyStateType /\ Frame(ks, k) /\ k.st = ks.st
        /\ k.auth = ks.auth /\ k.key = ks.key /\ k.rnext = ks.rnext /\ k.rbuf = ks.rbuf
        /\ k.peer = ks.peer /\ k.plain = ks.plain
    BY SetAcksFields DEF KOK
  <1>2. ks.unacked \subseteq RESET .. KEYS /\ ks \in KeyStateType BY DEF KOK, KeyStateType
  <1>3. PICK id \in ks.unacked : x = [r EXCEPT !.m = m2, !.go = FALSE, !.out = Datagram(p, s, id)]
    BY DEF SendPacket
  <1>4. /\ MOK(F, B, p, r.m) /\ GOK(F, B) /\ SOK(F, B, p, r.m.s[i]) /\ r.m \in MultiType
    BY DEF World, MOK
  <1>5. r.m.s[i] \in SessionType /\ r.m.s[i].sid # NoSid BY <1>4 DEF SOK, Chain
  <1>6. s \in SessionType /\ s.prim = ks /\ s.sid # NoSid BY <1>2, <1>5, PrimFields DEF SetPrim
  <1> HIDE DEF s, k
  <1>7. KOK(F, B, p, k) /\ k.st # S_UNDEF
    BY <1>1, QuietStep DEF Forward
  <1>8. Frame(r.m.s[i].prim, k) BY <1>1 DEF Frame
  <1>9. MOK(F, B, p, m2) /\ Keeps(i, r.m, m2) BY <1>4, <1>7, <1>8, PutStep
  <1>10. m2.s[i].prim = k BY <1>1, <1>4, PutKeyPrim
  <1> DEFINE d == Datagram(p, s, id)
  <1>11. DOK(F, B, d) /\ d.from = p
    <2>1. id \in -1 .. KEYS BY <1>2
    <2> HIDE DEF d
    <2> QED BY <1>6, <2>1, DatagramStep DEF d
  <1> HIDE DEF m2, d
  <1>12. x.m = m2 /\ x.out = d /\ RunShape(x)
    BY <1>3 DEF RunShape, d
  <1>13. Keeps(i, m0, m2) BY <1>9, KeepsTrans
  <1>14. World(F, B, p, m2, mq, D) BY <1>9 DEF World
  <1> QED BY <1>7, <1>10, <1>11, <1>12, <1>13, <1>14 DEF RunOK

\* The part of an iteration that exchanges the key material.
LEMMA BackHalfStep ==
  ASSUME NEW F, NEW B, NEW p, p \in TlsPeer, NEW mq, NEW D, NEW i \in TM, NEW m0, NEW r, RunShape(r),
         Keeps(i, m0, r.m), NEW ks, ks \in KeyStateType, r.m \in MultiType,
         KOK(F, B, p, ks), ks.st # S_UNDEF, Keeps(i, r.m, PutKey(r.m, i, ks)),
         World(F, B, p, PutKey(r.m, i, ks), mq, D), r.out # NoDatagram => DOK(F, B, r.out) /\ r.out.from = p,
         NEW v
  PROVE  RunOK(p, mq, D, i, m0, BackHalf(p, r, i, ks, v))
  <1> DEFINE k1 == SendKey(p, ks)
             m1 == PutKey(r.m, i, ks)
             m2 == PutKey(r.m, i, k1)
             a  == ReceiveKey(p, m2, i, v)
             k2 == OutgoingCiphertext(p, a.s[i].prim)
             b  == PutKey(a, i, k2)
             x == BackHalf(p, r, i, ks, v)
  <1>1. KOK(F, B, p, k1) /\ k1.st # S_UNDEF /\ Frame(ks, k1) BY SendKeyStep
  <1>2. x = [r EXCEPT !.m = b, !.go = (b.s[i].prim # r.m.s[i].prim), !.fail = @ \/ v # "ok"] BY DEF BackHalf
  <1> HIDE DEF k1
  <1>3. m2 = PutKey(m1, i, k1) BY <1>1, PutAgain DEF KOK
  <1>4. m1.s[i].prim = ks /\ m2.s[i].prim = k1 BY <1>1, PutKeyPrim DEF KOK
  <1>5. MOK(F, B, p, m2) /\ Keeps(i, m1, m2)
    <2> HIDE DEF m1
    <2> QED BY <1>1, <1>3, <1>4, PutStep DEF World, m1
  <1> HIDE DEF m2
  <1>6. MOK(F, B, p, a) /\ Keeps(i, m2, a)
    <2> HIDE DEF a
    <2> QED BY <1>1, <1>4, <1>5, ReceiveKeyStep DEF World, a
  <1> HIDE DEF a
  <1>7. KOK(F, B, p, a.s[i].prim) /\ a.s[i].prim.st # S_UNDEF /\ a \in MultiType
    BY <1>1, <1>4, <1>6 DEF MOK, SOK, Keeps
  <1>8. /\ k2 \in KeyStateType /\ Frame(a.s[i].prim, k2) /\ k2.st = a.s[i].prim.st
        /\ k2.auth = a.s[i].prim.auth /\ k2.key = a.s[i].prim.key /\ k2.rnext = a.s[i].prim.rnext /\ k2.rbuf = a.s[i].prim.rbuf
        /\ k2.peer = a.s[i].prim.peer /\ k2.plain = a.s[i].prim.plain
    BY <1>7, OutgoingFields DEF KOK
  <1> HIDE DEF k2
  <1>9. KOK(F, B, p, k2) /\ k2.st # S_UNDEF
    BY <1>7, <1>8, QuietStep DEF Forward
  <1>10. MOK(F, B, p, b) /\ Keeps(i, a, b)
    BY <1>6, <1>7, <1>8, <1>9, PutStep DEF World
  <1>11. b.s[i].prim = k2 BY <1>7, <1>8, PutKeyPrim
  <1> HIDE DEF b, x
  <1>12. x.m = b /\ x.out = r.out /\ RunShape(x)
    BY <1>2 DEF RunShape
  <1>13. Keeps(i, m0, b) BY <1>5, <1>6, <1>10, KeepsTrans
  <1>14. World(F, B, p, b, mq, D) BY <1>10 DEF World
  <1> QED BY <1>9, <1>11, <1>12, <1>13, <1>14 DEF RunOK, x

\* One iteration keeps the run sound, whatever its outcome.
LEMMA IterationStep ==
  ASSUME NEW p, p \in TlsPeer, NEW mq, NEW D, NEW i \in TM, NEW m0, NEW r, RunOK(p, mq, D, i, m0, r),
         NEW x \in Iteration(p, r, i)
  PROVE  RunOK(p, mq, D, i, m0, x)
  <1>1. PICK t \in BOOLEAN :
          LET f == FrontHalf(p, r.m.s[i].prim, t)
          IN  x \in IF f.st = S_ERROR THEN FailRuns(r, i, f) ELSE AfterFront(p, r, i, f)
    BY DEF Iteration
  <1> DEFINE f == FrontHalf(p, r.m.s[i].prim, t)
  <1>2. x \in IF f.st = S_ERROR THEN FailRuns(r, i, f) ELSE AfterFront(p, r, i, f) BY <1>1
  <1>3. PICK F, B : /\ World(F, B, p, r.m, mq, D)
                    /\ r.out # NoDatagram => DOK(F, B, r.out) /\ r.out.from = p
    BY DEF RunOK
  <1>4. /\ GOK(F, B) /\ MOK(F, B, p, r.m) /\ SOK(F, B, p, r.m.s[i]) /\ KOK(F, B, p, r.m.s[i].prim)
        /\ r.m \in MultiType
    BY <1>3 DEF World, MOK, SOK
  <1>5. RunShape(r) /\ Keeps(i, m0, r.m) /\ r.m.s[i].prim.st # S_UNDEF BY DEF RunOK
  <1>6. KOK(F, B, p, f) /\ f.st # S_UNDEF /\ Frame(r.m.s[i].prim, f) /\ f \in KeyStateType
    BY <1>4, <1>5, FrontHalfStep DEF KOK
  <1> HIDE DEF f
  <1>7. CASE f.st = S_ERROR
    <2>1. x = FailRun(r, i, f) BY <1>2, <1>7 DEF FailRuns
    <2>2. MOK(F, B, p, PutKey(r.m, i, f)) /\ Keeps(i, r.m, PutKey(r.m, i, f))
      BY <1>4, <1>5, <1>6, PutStep
    <2>3. World(F, B, p, PutKey(r.m, i, f), mq, D) BY <1>3, <2>2 DEF World
    <2> QED BY <1>3, <1>4, <1>5, <1>6, <2>1, <2>2, <2>3, FailRunStep
  <1>8. CASE f.st # S_ERROR
    <2> DEFINE k == IncomingCiphertext(p, f)
    <2>1. \/ x \in SendPacket(p, r, i, f)
          \/ x = FailRun(r, i, k)
          \/ \E v : x = BackHalf(p, r, i, k, v)
      BY <1>2, <1>8 DEF AfterFront, FailRuns
    <2>2. CASE x \in SendPacket(p, r, i, f)
      BY <1>3, <1>5, <1>6, <2>2, SendPacketStep
    <2>0. k = IncomingCiphertext(p, f) OBVIOUS
    <2> HIDE DEF k
    <2>3. PICK F2 : /\ World(F2, B, p, PutKey(r.m, i, k), mq, D) /\ Keeps(i, r.m, PutKey(r.m, i, k))
               /\ KOK(F2, B, p, k) /\ k.st # S_UNDEF /\ Frame(f, k)
               /\ Wider(F, B, F2, B)
      BY <1>3, <1>5, <1>6, <2>0, IncomingStep
    <2>4. k \in KeyStateType /\ (r.out # NoDatagram => DOK(F2, B, r.out) /\ r.out.from = p)
      BY <1>3, <2>3 DEF KOK, Wider
    <2>5. CASE x = FailRun(r, i, k)
      BY <1>4, <1>5, <2>3, <2>4, <2>5, FailRunStep
    <2>6. CASE \E v : x = BackHalf(p, r, i, k, v)
      BY <1>4, <1>5, <2>3, <2>4, <2>6, BackHalfStep
    <2> QED BY <2>1, <2>2, <2>5, <2>6
  <1> QED BY <1>7, <1>8

\* One iteration over a set of runs,
LEMMA IterateStep ==
  ASSUME NEW p, p \in TlsPeer, NEW mq, NEW D, NEW i \in TM, NEW m0, NEW rs,
         \A r \in rs : RunOK(p, mq, D, i, m0, r)
  PROVE  \A x \in Iterate(p, rs, i) : RunOK(p, mq, D, i, m0, x)
  BY IterationStep DEF Iterate, Going

\* and all of them.
LEMMA IterateAllStep ==
  ASSUME NEW p, p \in TlsPeer, NEW mq, NEW D, NEW i \in TM, NEW m0, NEW rs,
         \A r \in rs : RunOK(p, mq, D, i, m0, r)
  PROVE  \A x \in IterateAll(p, rs, i) : RunOK(p, mq, D, i, m0, x)
  <1>1. ASSUME NEW S, \A r \in S : RunOK(p, mq, D, i, m0, r)
        PROVE  \A x \in Iterate2(p, S, i) : RunOK(p, mq, D, i, m0, x)
    BY <1>1, IterateStep DEF Iterate2
  <1> DEFINE a == Iterate2(p, rs, i)
             b == Iterate2(p, a, i)
             c == Iterate2(p, b, i)
  <1>2. \A x \in a : RunOK(p, mq, D, i, m0, x) BY <1>1
  <1> HIDE DEF a
  <1>3. \A x \in b : RunOK(p, mq, D, i, m0, x) BY <1>1, <1>2
  <1> HIDE DEF b
  <1>4. \A x \in c : RunOK(p, mq, D, i, m0, x) BY <1>1, <1>3
  <1> HIDE DEF c
  <1>5. \A x \in Iterate2(p, c, i) : RunOK(p, mq, D, i, m0, x) BY <1>1, <1>4
  <1> QED BY <1>5 DEF IterateAll, a, b, c

-----------------------------------------------------------------------------
(* New sessions and key states.                                            *)

\* Key ids are recycled, 0 is never reused and the next one differs.
LEMMA NextKeyIdLemma ==
  ASSUME NEW k \in 0 .. KeyIdLimit - 1
  PROVE  NextKeyId(k) \in 0 .. KeyIdLimit - 1 /\ NextKeyId(k) # 0 /\ NextKeyId(k) # k
  <1>1. KeyIdLimit \in Nat /\ KeyIdLimit > 2 BY TlsAssumption DEF TlsAssumption
  <1>2. (k + 1) % KeyIdLimit # k BY <1>1
  <1>3. (k + 1) % KeyIdLimit = 0 => k # 1 BY <1>1
  <1>4. (k + 1) % KeyIdLimit \in 0 .. KeyIdLimit - 1 BY <1>1
  <1> QED BY <1>1, <1>2, <1>3, <1>4 DEF NextKeyId

\* A key state that has just been created.
LEMMA NewKeyState ==
  ASSUME NEW F, NEW B, NEW p, NEW G \in Gen, G.sid # NoSid,
         NEW kid, kid \in 0 .. KeyIdLimit - 1, kid = 0 <=> G.n = 0, <<G, kid>> \in B[p],
         NEW opc, opc \in Ops, NEW rsid, rsid \in Nat,
         \A f \in F[p] : f[1] # G, NEW k, k = KeyState(S_INITIAL, kid, opc, rsid, G)
  PROVE  KOK(F, B, p, k) /\ k.st = S_INITIAL /\ k.gen = G /\ k.kid = kid /\ k.rsid = rsid
  <1>1. /\ k = Shape(k)
        /\ k.st = S_INITIAL /\ k.kid = kid /\ k.opc = opc /\ k.rsid = rsid /\ k.gen = G
        /\ k.key = NoKey /\ k.made = 0 /\ k.unacked = {} /\ k.rnext = 0 /\ k.rbuf = {} /\ k.acks = {}
        /\ k.peer = NoGen
    BY DEF KeyState, Shape
  <1>2. ~ k.auth /\ ~ k.plain BY DEF KeyState
  <1>3. k.auth \in BOOLEAN /\ k.plain \in BOOLEAN BY DEF KeyState
  <1>4. NoKey \in [c : Gen, s : Gen, csid : Nat, ssid : Nat] /\ NoGen \in Gen
    BY DEF NoKey, DataKey, NoGen, Gen
  <1>5. k \in KeyStateType
    BY <1>1, <1>3, <1>4 DEF KeyStateType, Shape, Gen, Ops
  <1>6. KsInv(p, k) BY <1>1, <1>2 DEF KsInv
  <1>7. KsGhost(F, B, p, k) BY <1>1 DEF KsGhost, Est
  <1> QED BY <1>1, <1>5, <1>6, <1>7 DEF KOK

\* A cleared key state,
LEMMA NoKeyStateOK ==
  ASSUME NEW F, NEW B, NEW p
  PROVE  KOK(F, B, p, NoKeyState) /\ NoKeyState.st = S_UNDEF /\ NoKeyState.rsid = NoSid
  <1> DEFINE k == NoKeyState
  <1>1. /\ k = Shape(k)
        /\ k.st = S_UNDEF /\ k.kid = 0 /\ k.opc = "none" /\ k.rsid = NoSid /\ k.gen = NoGen
        /\ k.key = NoKey /\ k.made = 0 /\ k.unacked = {} /\ k.rnext = 0 /\ k.rbuf = {} /\ k.acks = {}
        /\ k.peer = NoGen
    BY DEF NoKeyState, KeyState, Shape
  <1>2. ~ k.auth /\ ~ k.plain BY DEF NoKeyState, KeyState
  <1>3. k.auth \in BOOLEAN /\ k.plain \in BOOLEAN BY DEF NoKeyState, KeyState
  <1> HIDE DEF k
  <1>4. NoKey \in [c : Gen, s : Gen, csid : Nat, ssid : Nat] /\ NoGen \in Gen
    BY DEF NoKey, DataKey, NoGen, Gen
  <1>0. 0 \in 0 .. KeyIdLimit - 1 BY TlsAssumption DEF TlsAssumption
  <1>5. k \in KeyStateType
    BY <1>0, <1>1, <1>3, <1>4 DEF KeyStateType, Shape, Gen, Ops
  <1>6. KsInv(p, k) BY <1>1, <1>2 DEF KsInv
  <1>7. KsGhost(F, B, p, k) BY <1>1 DEF KsGhost, Est
  <1> QED BY <1>1, <1>5, <1>6, <1>7 DEF KOK, k

\* and a cleared session.
LEMMA NoSessionOK ==
  ASSUME NEW F, NEW B, NEW p
  PROVE  SOK(F, B, p, NoSession) /\ NoSession.sid = NoSid /\ NoSession.prim = NoKeyState
  <1>1. /\ NoSession.sid = NoSid /\ NoSession.prim = NoKeyState /\ NoSession.lame = NoKeyState
        /\ NoSession.kid = 0 /\ NoSession.n = 0 /\ NoSession.opc = "none"
    BY DEF NoSession
  <1>0. 0 \in 0 .. KeyIdLimit - 1 BY TlsAssumption DEF TlsAssumption
  <1>2. NoKeyState \in KeyStateType BY NoKeyStateOK DEF KOK
  <1>3. NoSession \in SessionType BY <1>0, <1>2 DEF NoSession, SessionType, Ops
  <1>4. Chain(NoSession) BY <1>1, NoKeyStateOK DEF Chain
  <1> QED BY <1>1, <1>3, <1>4, NoKeyStateOK DEF SOK

\* The session that tls_session_init makes, with session id sid.
FreshSession(sid) == key_state_init([NoSession EXCEPT !.sid = sid, !.opc = "HARD_RESET"])

\* What key_state_init does to a session.
LEMMA InitFields ==
  ASSUME NEW s \in SessionType, NEW k, k = KeyState(S_INITIAL, s.kid, s.opc, NoSid, [sid |-> s.sid, n |-> s.n]),
         k \in KeyStateType, NEW t, t = key_state_init(s)
  PROVE  /\ t \in SessionType /\ t.sid = s.sid /\ t.kid = NextKeyId(s.kid) /\ t.n = s.n + 1
         /\ t.opc = "SOFT_RESET" /\ t.prim = k /\ t.lame = s.lame
  <1>1. NextKeyId(s.kid) \in 0 .. KeyIdLimit - 1 /\ s.n + 1 \in Nat
    BY NextKeyIdLemma DEF SessionType
  <1> DEFINE nk == NextKeyId(s.kid)
  <1>2. t = [s EXCEPT !.prim = k, !.opc = "SOFT_RESET", !.kid = nk, !.n = s.n + 1]
    BY DEF key_state_init
  <1> HIDE DEF nk
  <1>3. /\ t = [sid |-> s.sid, kid |-> nk, n |-> s.n + 1, opc |-> "SOFT_RESET", prim |-> k, lame |-> s.lame]
    BY <1>2 DEF SessionType
  <1> QED BY <1>1, <1>3 DEF SessionType, Ops, nk

\* A session that has just been created.
LEMMA FreshFields ==
  ASSUME NEW F, NEW B, NEW p, NEW sid \in Nat, sid # NoSid,
         <<[sid |-> sid, n |-> 0], 0>> \in B[p], \A f \in F[p] : f[1] # [sid |-> sid, n |-> 0]
  PROVE  /\ SOK(F, B, p, FreshSession(sid)) /\ FreshSession(sid).sid = sid
         /\ FreshSession(sid).n = 1 /\ FreshSession(sid).prim.st = S_INITIAL
         /\ FreshSession(sid).prim.rsid = NoSid
  <1> DEFINE t == FreshSession(sid)
             s == [NoSession EXCEPT !.sid = sid, !.opc = "HARD_RESET"]
             G == [sid |-> sid, n |-> 0]
             k == KeyState(S_INITIAL, 0, "HARD_RESET", NoSid, G)
  <1>0. 0 \in 0 .. KeyIdLimit - 1
    BY TlsAssumption DEF TlsAssumption
  <1>1. /\ NoSession \in SessionType /\ NoSession.lame = NoKeyState /\ NoSession.kid = 0 /\ NoSession.n = 0
    <2>1. NoSession \in SessionType BY NoSessionOK DEF SOK
    <2> QED BY <2>1 DEF NoSession
  <1>2. s \in SessionType /\ s.sid = sid /\ s.opc = "HARD_RESET" /\ s.lame = NoKeyState /\ s.kid = 0 /\ s.n = 0
    BY <1>1 DEF SessionType, Ops
  <1>3. /\ G \in Gen /\ G.sid = sid /\ G.n = 0
        /\ <<G, 0>> \in B[p] /\ \A f \in F[p] : f[1] # G
    BY DEF Gen
  <1>4. t = key_state_init(s) BY DEF FreshSession
  <1> HIDE DEF s, t
  <1>5. k = KeyState(S_INITIAL, s.kid, s.opc, NoSid, [sid |-> s.sid, n |-> s.n]) BY <1>2
  <1>6. KOK(F, B, p, k) /\ k.st = S_INITIAL /\ k.gen = G /\ k.kid = 0 /\ k.rsid = NoSid
    <2> DEFINE zero == 0
               opc == "HARD_RESET"
    <2>1. opc \in Ops /\ zero \in Nat /\ zero \in 0 .. KeyIdLimit - 1 BY <1>0 DEF Ops
    <2>2. /\ k = KeyState(S_INITIAL, zero, opc, zero, G) /\ (zero = 0 <=> G.n = 0)
          /\ G.sid # NoSid /\ <<G, zero>> \in B[p]
      BY <1>3
    <2> HIDE DEF G, k, zero, opc
    <2>3. KOK(F, B, p, k) /\ k.st = S_INITIAL /\ k.gen = G /\ k.kid = zero /\ k.rsid = zero
      BY <1>3, <2>1, <2>2, NewKeyState
    <2> QED BY <2>3 DEF zero
  <1> HIDE DEF k
  <1>7. k \in KeyStateType BY <1>6 DEF KOK
  <1>8. /\ t \in SessionType /\ t.sid = s.sid /\ t.kid = NextKeyId(s.kid) /\ t.n = s.n + 1
        /\ t.prim = k /\ t.lame = s.lame
    BY <1>2, <1>4, <1>5, <1>7, InitFields
  <1>9. Chain(t) BY <1>2, <1>3, <1>6, <1>8, NoKeyStateOK DEF Chain
  <1> QED BY <1>2, <1>6, <1>8, <1>9, NoKeyStateOK DEF SOK, t

\* p creates a key state that no one knows of yet.
Born(B, p, G, kid) == [B EXCEPT ![p] = @ \cup {<<G, kid>>}]

\* That leaves the rest of the invariant alone.
LEMMA BornStep ==
  ASSUME NEW F, NEW B, GOK(F, B), NEW p, p \in TlsPeer, NEW m, MOK(F, B, p, m), NEW mq, MOK(F, B, OtherEnd(p), mq),
         NEW G \in Gen, G.sid # NoSid, ~ Used(m, G), NEW kid, kid \in 0 .. KeyIdLimit - 1,
         NEW B2, B2 = Born(B, p, G, kid)
  PROVE  /\ GOK(F, B2) /\ MOK(F, B2, OtherEnd(p), mq) /\ Wider(F, B, F, B2)
         /\ <<G, kid>> \in B2[p] /\ (\A b \in B2[p] : b \in B[p] \/ b[1] = G)
         /\ \A f \in F[p] : f[1] # G
         /\ \A i \in TM : SOK(F, B2, p, m.s[i])
  <1> DEFINE q == OtherEnd(p)
  <1>1. q \in TlsPeer /\ q # p /\ OtherEnd(q) = p BY Ends2
  <1>2. B2[p] = B[p] \cup {<<G, kid>>} /\ B2[q] = B[q] /\ \A x \in TlsPeer : F[x] \subseteq F[x] /\ B[x] \subseteq B2[x]
    BY <1>1 DEF GOK, Born
  <1>3. \A b \in B[p] : b[1] # G BY DEF MOK
  <1>4. GOK(F, B2)
    <2>1. B2 \in [TlsPeer -> SUBSET (Gen \X (0 .. KeyIdLimit - 1))] BY DEF GOK, Born
    <2>2. \A x \in TlsPeer : x = p \/ x = q BY <1>1, Ends2
    <2>3. \A x \in TlsPeer : \A a, b \in B2[x] : a[1] = b[1] => a[2] = b[2]
      <3>1. TAKE x \in TlsPeer
      <3>2. CASE x = q BY <1>1, <1>2, <3>2 DEF GOK
      <3>3. CASE x = p
        <4>1. TAKE a, b \in B2[x]
        <4>2. HAVE a[1] = b[1]
        <4>3. CASE a \in B[p] /\ b \in B[p] BY <4>2, <4>3 DEF GOK
        <4>4. CASE ~ (a \in B[p] /\ b \in B[p])
          BY <1>2, <1>3, <3>3, <4>1, <4>2, <4>4
        <4> QED BY <4>3, <4>4
      <3> QED BY <2>2, <3>2, <3>3
    <2> QED BY <2>1, <2>3 DEF GOK
  <1> HIDE DEF q
  <1>5. MOK(F, B2, q, mq)
    <2>1. \A f \in F[OtherEnd(q)] : Used(mq, f[2]) BY DEF MOK, q
    <2> QED BY <1>1, <1>2, <2>1, GrowOther DEF q
  <1>6. Wider(F, B, F, B2) BY <1>2, GrowDatagram DEF Wider
  <1>7. \A f \in F[p] : f[1] # G BY DEF MOK
  <1>8. \A i \in TM : SOK(F, B2, p, m.s[i])
    <2>1. TAKE i \in TM
    <2>2. SOK(F, B, p, m.s[i]) BY DEF MOK
    <2> QED BY <1>2, <2>2, GrowKey DEF SOK
  <1>9. <<G, kid>> \in B2[p] /\ \A b \in B2[p] : b \in B[p] \/ b[1] = G BY <1>2
  <1> QED BY <1>4, <1>5, <1>6, <1>7, <1>8, <1>9 DEF q

\* What move_session moves,
LEMMA MoveFields ==
  ASSUME NEW m \in MultiType, NEW i \in TM, NEW j \in TM, NEW m2, m2 = move_session(m, j, i),
         FreshSession(m.nsid) \in SessionType
  PROVE  /\ m2 \in MultiType /\ m2.nsid = m.nsid + 1 /\ m2.linked = m.linked /\ m2.actual = m.actual
         /\ m2.s[i] = FreshSession(m.nsid) /\ (j # i => m2.s[j] = m.s[i])
         /\ \A x \in TM : x # i /\ x # j => m2.s[x] = m.s[x]
  <1> DEFINE a == SetSlot(m, j, m.s[i])
             t == FreshSession(m.nsid)
             b == SetSlot(a, i, t)
  <1>1. m.s[i] \in SessionType BY DEF MultiType
  <1>2. /\ a \in MultiType /\ a.nsid = m.nsid /\ a.linked = m.linked /\ a.actual = m.actual
        /\ a.s[j] = m.s[i] /\ \A x \in TM : x # j => a.s[x] = m.s[x]
    BY <1>1 DEF SetSlot, MultiType
  <1>3. m2 = [a EXCEPT !.s[i] = FreshSession(a.nsid), !.nsid = a.nsid + 1]
    BY DEF move_session, tls_session_init, FreshSession, SetSlot
  <1> HIDE DEF a, t
  <1>4. m2 = [a EXCEPT !.s[i] = t, !.nsid = m.nsid + 1] BY <1>2, <1>3 DEF t
  <1>5. t \in SessionType BY DEF t
  <1>6. m.nsid + 1 \in Nat BY DEF MultiType
  <1>7. /\ m2 \in MultiType /\ m2.nsid = m.nsid + 1 /\ m2.linked = a.linked /\ m2.actual = a.actual
        /\ m2.s[i] = t /\ \A x \in TM : x # i => m2.s[x] = a.s[x]
    <2> DEFINE c == SetSlot(a, i, t)
    <2>1. m2 = [c EXCEPT !.nsid = m.nsid + 1] BY <1>2, <1>4 DEF SetSlot, MultiType
    <2>2. /\ c \in MultiType /\ c.linked = a.linked /\ c.actual = a.actual
          /\ c.s[i] = t /\ \A x \in TM : x # i => c.s[x] = a.s[x]
      BY <1>2, <1>5 DEF SetSlot, MultiType
    <2> HIDE DEF c
    <2> QED BY <1>6, <2>1, <2>2 DEF MultiType
  <1> QED BY <1>2, <1>7 DEF t

\* and that the new session has its first key state in S_INITIAL.
LEMMA MoveSlots ==
  ASSUME NEW m \in MultiType, m.nsid # 0, NEW i \in TM, NEW j \in TM, NEW m2, m2 = move_session(m, j, i)
  PROVE  /\ m2 \in MultiType /\ m2.nsid = m.nsid + 1 /\ m2.linked = m.linked /\ m2.actual = m.actual
         /\ m2.s[i] = FreshSession(m.nsid) /\ (j # i => m2.s[j] = m.s[i])
         /\ \A x \in TM : x # i /\ x # j => m2.s[x] = m.s[x]
         /\ m2.s[i].prim.st = S_INITIAL /\ m2.s[i].prim.rsid = NoSid
  <1> DEFINE G == [sid |-> m.nsid, n |-> 0]
             F == [x \in {1} |-> {}]
             B == [x \in {1} |-> {<<G, 0>>}]
             q == 1
             t == FreshSession(m.nsid)
  <1>1. m.nsid \in Nat BY DEF MultiType
  <1>2. <<[sid |-> m.nsid, n |-> 0], 0>> \in B[q] /\ \A f \in F[q] : f[1] # [sid |-> m.nsid, n |-> 0] OBVIOUS
  <1> HIDE DEF F, B, q
  <1>3. SOK(F, B, q, t) /\ t.prim.st = S_INITIAL /\ t.prim.rsid = NoSid BY <1>1, <1>2, FreshFields
  <1>4. t \in SessionType BY <1>3 DEF SOK
  <1> QED BY <1>3, <1>4, MoveFields

\* tls_session_init, and move_session, which calls it for the session's old place.
LEMMA MoveStep ==
  ASSUME NEW F, NEW B, NEW p, p \in TlsPeer, NEW m, NEW mq, NEW D, World(F, B, p, m, mq, D),
         NEW i \in TM, NEW j \in TM, NEW m2, m2 = move_session(m, j, i)
  PROVE  \E B2 : World(F, B2, p, m2, mq, D) /\ Wider(F, B, F, B2)
  <1>0. /\ GOK(F, B) /\ MOK(F, B, p, m) /\ MOK(F, B, OtherEnd(p), mq) /\ m \in MultiType
        /\ \A d \in D : DOK(F, B, d)
    BY DEF World, MOK
  <1> DEFINE G == [sid |-> m.nsid, n |-> 0]
             B2 == Born(B, p, G, 0)
             t == FreshSession(m.nsid)
  <1>1. m.nsid \in Nat /\ m.nsid # 0 BY <1>0 DEF MOK, MultiType
  <1>2. G \in Gen /\ G.sid = m.nsid /\ G.n = 0 BY <1>1 DEF Gen
  <1>3. ~ Used(m, G) BY <1>1, <1>2 DEF Used
  <1>4. 0 \in 0 .. KeyIdLimit - 1 BY TlsAssumption DEF TlsAssumption
  <1>5. /\ GOK(F, B2) /\ MOK(F, B2, OtherEnd(p), mq) /\ Wider(F, B, F, B2)
        /\ <<G, 0>> \in B2[p] /\ (\A b \in B2[p] : b \in B[p] \/ b[1] = G)
        /\ \A f \in F[p] : f[1] # G
        /\ \A x \in TM : SOK(F, B2, p, m.s[x])
    <2> DEFINE zero == 0
    <2>1. B2 = Born(B, p, G, zero) /\ zero \in 0 .. KeyIdLimit - 1 BY <1>4
    <2>2. G.sid # NoSid BY <1>1, <1>2
    <2> HIDE DEF B2, G, zero
    <2>3. /\ GOK(F, B2) /\ MOK(F, B2, OtherEnd(p), mq) /\ Wider(F, B, F, B2)
          /\ <<G, zero>> \in B2[p] /\ (\A b \in B2[p] : b \in B[p] \/ b[1] = G)
          /\ \A f \in F[p] : f[1] # G
          /\ \A x \in TM : SOK(F, B2, p, m.s[x])
      BY <1>0, <1>2, <1>3, <2>1, <2>2, BornStep
    <2> QED BY <2>3 DEF zero
  <1>6. /\ SOK(F, B2, p, t) /\ t.sid = m.nsid /\ t.n = 1 /\ t.prim.st = S_INITIAL /\ t.prim.rsid = NoSid
    <2> HIDE DEF B2
    <2> QED BY <1>1, <1>5, FreshFields
  <1> HIDE DEF B2, G
  <1>7. /\ m2 \in MultiType /\ m2.nsid = m.nsid + 1 /\ m2.linked = m.linked /\ m2.actual = m.actual
        /\ m2.s[i] = t /\ (j # i => m2.s[j] = m.s[i])
        /\ \A x \in TM : x # i /\ x # j => m2.s[x] = m.s[x]
    BY <1>0, <1>1, MoveSlots
  <1> HIDE DEF t
  <1>8. \A x \in TM : m2.s[x] = t \/ \E y \in TM : m2.s[x] = m.s[y]
    BY <1>7
  <1>9. ASSUME NEW H, H \in Gen, Used(m, H) PROVE Used(m2, H)
    BY <1>1, <1>6, <1>7, <1>8, <1>9 DEF Used, Gen
  <1>10. Used(m2, G)
    <2>1. \A y \in TM : m.s[y].sid # m.nsid BY <1>0, <1>1 DEF MOK, MultiType, SessionType
    <2> QED BY <1>1, <1>2, <1>6, <1>7, <1>8, <2>1 DEF Used
  <1>11. MOK(F, B2, p, m2)
    <2>0. OtherEnd(p) \in TlsPeer BY Ends2
    <2>1. /\ \A b \in B[p] : b[1] \in Gen
          /\ \A f \in F[p] : f[1] \in Gen
          /\ \A f \in F[OtherEnd(p)] : f[2] \in Gen
      BY <1>0, <2>0 DEF GOK
    <2>2. /\ \A b \in B2[p] : Used(m2, b[1])
          /\ \A f \in F[p] : Used(m2, f[1])
          /\ \A f \in F[OtherEnd(p)] : Used(m2, f[2])
      BY <1>0, <1>5, <1>9, <1>10, <2>1 DEF MOK
    <2>3. \A y \in TM : m.s[y].sid < m.nsid /\ m.s[y].sid \in Nat BY <1>0 DEF MOK, MultiType, SessionType
    <2>4. \A x \in TM : SOK(F, B2, p, m2.s[x]) /\ m2.s[x].sid < m2.nsid
      BY <1>1, <1>5, <1>6, <1>7, <1>8, <2>3
    <2>5. \A x, y \in TM : x # y /\ m2.s[x].sid = m2.s[y].sid => m2.s[x].sid = NoSid
      <3>1. ASSUME NEW x \in TM, x # i PROVE m2.s[x].sid # m.nsid
        BY <1>1, <1>7, <2>3, <3>1
      <3>2. ASSUME NEW x \in TM, NEW y \in TM, x # y, x # i, y # i, m2.s[x].sid = m2.s[y].sid
            PROVE  m2.s[x].sid = NoSid
        <4>1. \A v, w \in TM : v # w /\ m.s[v].sid = m.s[w].sid => m.s[v].sid = NoSid BY <1>0 DEF MOK
        <4> QED BY <1>7, <3>2, <4>1
      <3> QED BY <1>6, <1>7, <3>1, <3>2
    <2>6. m2.nsid # 0 BY <1>1, <1>7
    <2> QED BY <1>7, <2>2, <2>4, <2>5, <2>6 DEF MOK
  <1>12. World(F, B2, p, m2, mq, D) BY <1>0, <1>5, <1>11 DEF World, Wider
  <1> QED BY <1>5, <1>12

\* key_state_soft_reset retires the primary key state and creates the next.
LEMMA SoftFields ==
  ASSUME NEW s \in SessionType, NEW k0 \in KeyStateType, NEW k \in KeyStateType,
         k0 = KeyState(S_INITIAL, s.kid, s.opc, NoSid, [sid |-> s.sid, n |-> s.n]),
         k = KeyState(S_INITIAL, s.kid, s.opc, s.prim.rsid, [sid |-> s.sid, n |-> s.n]),
         NEW t, t = key_state_soft_reset(s)
  PROVE  /\ t \in SessionType /\ t.sid = s.sid /\ t.kid = NextKeyId(s.kid) /\ t.n = s.n + 1
         /\ t.prim = k /\ t.lame = s.prim
  <1> DEFINE u == [s EXCEPT !.lame = s.prim]
             v == key_state_init(u)
  <1>1. u \in SessionType /\ u.sid = s.sid /\ u.kid = s.kid /\ u.n = s.n /\ u.opc = s.opc /\ u.lame = s.prim
    BY DEF SessionType
  <1>2. t = [v EXCEPT !.prim.rsid = s.prim.rsid] BY DEF key_state_soft_reset
  <1>3. v = key_state_init(u) OBVIOUS
  <1> HIDE DEF u, v
  <1>4. k0 = KeyState(S_INITIAL, u.kid, u.opc, NoSid, [sid |-> u.sid, n |-> u.n]) BY <1>1
  <1>5. /\ v \in SessionType /\ v.sid = u.sid /\ v.kid = NextKeyId(u.kid) /\ v.n = u.n + 1
        /\ v.prim = k0 /\ v.lame = u.lame
    BY <1>1, <1>3, <1>4, InitFields
  <1>6. [k0 EXCEPT !.rsid = s.prim.rsid] = k
    <2> DEFINE l == [k0 EXCEPT !.rsid = s.prim.rsid]
    <2>1. l = Shape(l) /\ k = Shape(k) BY DEF KeyStateType, Shape
    <2>2. /\ l.st = k0.st /\ l.kid = k0.kid /\ l.opc = k0.opc /\ l.rsid = s.prim.rsid /\ l.gen = k0.gen
          /\ l.auth = k0.auth /\ l.key = k0.key /\ l.made = k0.made /\ l.unacked = k0.unacked
          /\ l.rnext = k0.rnext /\ l.rbuf = k0.rbuf /\ l.acks = k0.acks /\ l.peer = k0.peer /\ l.plain = k0.plain
      BY DEF KeyStateType
    <2>3. /\ k.st = k0.st /\ k.kid = k0.kid /\ k.opc = k0.opc /\ k.rsid = s.prim.rsid /\ k.gen = k0.gen
          /\ k.auth = k0.auth /\ k.key = k0.key /\ k.made = k0.made /\ k.unacked = k0.unacked
          /\ k.rnext = k0.rnext /\ k.rbuf = k0.rbuf /\ k.acks = k0.acks /\ k.peer = k0.peer /\ k.plain = k0.plain
      BY DEF KeyState
    <2> HIDE DEF l
    <2>4. Shape(l) = Shape(k) BY <2>2, <2>3 DEF Shape
    <2> QED BY <2>1, <2>4 DEF l
  <1>7. t = [v EXCEPT !.prim = [v.prim EXCEPT !.rsid = s.prim.rsid]] BY <1>2, <1>5 DEF SessionType
  <1>8. t = SetPrim(v, k) BY <1>5, <1>6, <1>7 DEF SetPrim
  <1> QED BY <1>1, <1>5, <1>8, PrimFields

\* A soft reset of session i.
SoftOK(F, B, p, m, mq, D, i, t, m2) ==
  /\ \E B2 : World(F, B2, p, m2, mq, D) /\ Wider(F, B, F, B2)
  /\ Keeps(i, m, m2) /\ m2.s[i] = t /\ t.prim.st = S_INITIAL

\* A soft reset, the peer's or one's own, keeps the invariant.
LEMMA SoftResetStep ==
  ASSUME NEW F, NEW B, NEW p, p \in TlsPeer, NEW m, NEW mq, NEW D, World(F, B, p, m, mq, D),
         NEW i \in TM, m.s[i].prim.st # S_UNDEF, NEW t, t = key_state_soft_reset(m.s[i]),
         NEW m2, m2 = SetSlot(m, i, t)
  PROVE  SoftOK(F, B, p, m, mq, D, i, t, m2)
  <1> DEFINE s == m.s[i]
             G == [sid |-> s.sid, n |-> s.n]
             k0 == KeyState(S_INITIAL, s.kid, s.opc, NoSid, G)
             k == KeyState(S_INITIAL, s.kid, s.opc, s.prim.rsid, G)
             B2 == Born(B, p, G, s.kid)
  <1>0. /\ GOK(F, B) /\ MOK(F, B, p, m) /\ MOK(F, B, OtherEnd(p), mq) /\ m \in MultiType
        /\ \A d \in D : DOK(F, B, d)
    BY DEF World, MOK
  <1>1. /\ SOK(F, B, p, s) /\ s \in SessionType /\ Chain(s) /\ KOK(F, B, p, s.prim) /\ KsInv(p, s.prim)
        /\ s.prim \in KeyStateType
    BY <1>0 DEF MOK, SOK, KOK
  <1>2. /\ s.kid \in 0 .. KeyIdLimit - 1 /\ s.n \in Nat /\ s.sid \in Nat /\ s.opc \in Ops /\ s.prim.rsid \in Nat
        /\ s.prim.kid \in 0 .. KeyIdLimit - 1 /\ s.prim.gen.n \in Nat
    BY <1>1 DEF SessionType, KeyStateType
  <1>3. s.sid # NoSid /\ s.prim.gen.sid = s.sid /\ s.kid = NextKeyId(s.prim.kid) /\ s.n = s.prim.gen.n + 1
    BY <1>1 DEF Chain
  <1>4. s.kid # 0 /\ s.n # 0 BY <1>2, <1>3, NextKeyIdLemma
  <1>5. G \in Gen /\ G.sid = s.sid /\ G.n = s.n BY <1>2 DEF Gen
  <1>6. ~ Used(m, G) BY <1>2, <1>5 DEF Used
  <1>7. /\ GOK(F, B2) /\ MOK(F, B2, OtherEnd(p), mq) /\ Wider(F, B, F, B2)
        /\ <<G, s.kid>> \in B2[p] /\ (\A b \in B2[p] : b \in B[p] \/ b[1] = G)
        /\ \A f \in F[p] : f[1] # G
        /\ \A x \in TM : SOK(F, B2, p, m.s[x])
    <2>1. B2 = Born(B, p, G, s.kid) /\ G.sid # NoSid BY <1>3, <1>5
    <2> HIDE DEF B2, G, s
    <2> QED BY <1>0, <1>2, <1>5, <1>6, <2>1, BornStep
  <1> HIDE DEF B2
  <1>8. KOK(F, B2, p, k) /\ k.st = S_INITIAL /\ k.gen = G /\ k.kid = s.kid /\ k.rsid = s.prim.rsid
    <2>1. k = KeyState(S_INITIAL, s.kid, s.opc, s.prim.rsid, G) /\ G.sid # NoSid /\ (s.kid = 0 <=> G.n = 0)
      BY <1>3, <1>4, <1>5
    <2> DEFINE kid == s.kid
               rsid == s.prim.rsid
    <2>2. /\ <<G, kid>> \in B2[p] /\ (\A f \in F[p] : f[1] # G) /\ (kid = 0 <=> G.n = 0)
          /\ k = KeyState(S_INITIAL, kid, s.opc, rsid, G)
      BY <1>7, <2>1
    <2>3. kid \in 0 .. KeyIdLimit - 1 /\ s.opc \in Ops /\ G \in Gen /\ rsid \in Nat /\ G.sid # NoSid
      BY <1>2, <1>5, <2>1
    <2> HIDE DEF k, G, s, kid, rsid
    <2>4. KOK(F, B2, p, k) /\ k.st = S_INITIAL /\ k.gen = G /\ k.kid = kid /\ k.rsid = rsid
      BY <2>2, <2>3, NewKeyState
    <2> QED BY <2>4 DEF kid, rsid
  <1>9. KOK(F, B2, p, k0)
    <2> DEFINE zero == NoSid
               kid == s.kid
    <2>1. k0 = KeyState(S_INITIAL, kid, s.opc, zero, G) /\ G.sid # NoSid /\ (kid = 0 <=> G.n = 0) /\ zero \in Nat
      BY <1>3, <1>4, <1>5
    <2>2. <<G, kid>> \in B2[p] /\ \A f \in F[p] : f[1] # G BY <1>7
    <2>3. kid \in 0 .. KeyIdLimit - 1 /\ s.opc \in Ops /\ G \in Gen BY <1>2, <1>5
    <2> HIDE DEF k0, G, s, zero, kid
    <2> QED BY <2>1, <2>2, <2>3, NewKeyState
  <1>10. k0 \in KeyStateType /\ k \in KeyStateType BY <1>8, <1>9 DEF KOK
  <1>11. /\ t \in SessionType /\ t.sid = s.sid /\ t.kid = NextKeyId(s.kid) /\ t.n = s.n + 1
         /\ t.prim = k /\ t.lame = s.prim
    <2>1. /\ k0 = KeyState(S_INITIAL, s.kid, s.opc, NoSid, [sid |-> s.sid, n |-> s.n])
          /\ k = KeyState(S_INITIAL, s.kid, s.opc, s.prim.rsid, [sid |-> s.sid, n |-> s.n])
      OBVIOUS
    <2> HIDE DEF k, k0, s
    <2>2. t = key_state_soft_reset(s) BY DEF s
    <2> QED BY <1>1, <1>10, <2>1, <2>2, SoftFields
  <1> HIDE DEF k, k0, G, s
  <1>12. SOK(F, B2, p, t)
    <2>1. KOK(F, B2, p, s.prim) BY <1>7 DEF SOK, s
    <2>2. Chain(t) BY <1>3, <1>5, <1>8, <1>11 DEF Chain
    <2> QED BY <1>8, <1>11, <2>1, <2>2 DEF SOK
  <1>13. /\ m2 \in MultiType /\ m2.s = [m.s EXCEPT ![i] = t] /\ m2.nsid = m.nsid /\ m2.linked = m.linked
         /\ m2.actual = m.actual
         /\ m2.s[i] = t /\ \A j \in TM : j # i => m2.s[j] = m.s[j]
    BY <1>0, <1>11, SlotFields
  <1>14. Used(m2, G)
    <2>1. s.sid < m.nsid /\ m.s[i] = s BY <1>0 DEF MOK, s
    <2>2. \A j \in TM : j # i => m.s[j].sid # s.sid BY <1>0, <1>3, <2>1 DEF MOK
    <2> QED BY <1>2, <1>3, <1>5, <1>11, <1>13, <2>1, <2>2 DEF Used
  <1>15. MOK(F, B2, p, m2)
    <2>1. Later(m.s[i], m2.s[i]) BY <1>2, <1>11, <1>13 DEF s, Later
    <2>2. Grown(F, B, F, B2, p, m2) BY <1>7, <1>14 DEF Grown
    <2>3. SlotsOK(F, B2, p, m2) /\ OneSlot(m, m2, i) BY <1>7, <1>12, <1>13 DEF SlotsOK, OneSlot
    <2> QED BY <1>0, <1>13, <2>1, <2>2, <2>3, SlotStep
  <1>16. World(F, B2, p, m2, mq, D) BY <1>0, <1>7, <1>15 DEF World, Wider
  <1>17. Keeps(i, m, m2) BY <1>8, <1>11, <1>13 DEF Keeps, s
  <1> QED BY <1>7, <1>8, <1>11, <1>13, <1>16, <1>17 DEF SoftOK

\* The retiring key state expires.
LEMMA LameExpiryStep ==
  ASSUME NEW F, NEW B, NEW p, p \in TlsPeer, NEW m, NEW mq, NEW D, World(F, B, p, m, mq, D),
         NEW i \in TM, NEW m2 \in LameExpiry(m, i)
  PROVE  World(F, B, p, m2, mq, D) /\ Keeps(i, m, m2)
  <1>0. /\ GOK(F, B) /\ MOK(F, B, p, m) /\ m \in MultiType /\ SOK(F, B, p, m.s[i]) /\ m.s[i] \in SessionType
    BY DEF World, MOK, SOK
  <1>1. CASE m2 = m BY <1>1 DEF Keeps
  <1>2. CASE m2 = [m EXCEPT !.s[i].lame = NoKeyState]
    <2> DEFINE t == [m.s[i] EXCEPT !.lame = NoKeyState]
    <2>1. NoKeyState \in KeyStateType BY NoKeyStateOK DEF KOK
    <2>2. /\ t \in SessionType /\ t.prim = m.s[i].prim /\ t.lame = NoKeyState /\ t.sid = m.s[i].sid
          /\ t.n = m.s[i].n /\ t.kid = m.s[i].kid
      BY <1>0, <2>1 DEF SessionType
    <2>3. m2 = SetSlot(m, i, t) BY <1>0, <1>2 DEF MultiType, SetSlot
    <2> HIDE DEF t
    <2>4. SOK(F, B, p, t) BY <1>0, <2>2, NoKeyStateOK DEF SOK, Chain
    <2>5. /\ m2 \in MultiType /\ m2.nsid = m.nsid /\ m2.linked = m.linked /\ m2.actual = m.actual
          /\ m2.s[i] = t /\ \A j \in TM : j # i => m2.s[j] = m.s[j]
      BY <1>0, <2>2, <2>3 DEF SetSlot, MultiType
    <2>6. Later(m.s[i], m2.s[i]) BY <1>0, <2>2, <2>5 DEF SessionType, Later
    <2>7. Grown(F, B, F, B, p, m2) BY DEF Grown
    <2>8. SlotsOK(F, B, p, m2) /\ OneSlot(m, m2, i) BY <1>0, <2>4, <2>5 DEF SlotsOK, OneSlot, MOK
    <2>9. MOK(F, B, p, m2) BY <1>0, <2>5, <2>6, <2>7, <2>8, SlotStep
    <2>10. World(F, B, p, m2, mq, D) BY <2>9 DEF World
    <2>11. Keeps(i, m, m2) BY <2>2, <2>5 DEF Keeps
    <2> QED BY <2>10, <2>11
  <1> QED BY <1>1, <1>2 DEF LameExpiry

\* This end renegotiates.
LEMMA SelfResetStep ==
  ASSUME NEW F, NEW B, NEW p, p \in TlsPeer, NEW m, NEW mq, NEW D, World(F, B, p, m, mq, D),
         NEW i \in TM, m.s[i].prim.st # S_UNDEF, NEW m2 \in SelfReset(m, i)
  PROVE  /\ \E B2 : World(F, B2, p, m2, mq, D) /\ Wider(F, B, F, B2)
         /\ Keeps(i, m, m2)
  <1>0. m \in MultiType BY DEF World, MOK
  <1>1. CASE m2 = m BY <1>1 DEF Keeps, Wider
  <1>2. CASE m2 = [m EXCEPT !.s[i] = key_state_soft_reset(@)]
    <2> DEFINE t == key_state_soft_reset(m.s[i])
    <2>1. m2 = SetSlot(m, i, t) BY <1>0, <1>2 DEF MultiType, SetSlot
    <2>2. t = key_state_soft_reset(m.s[i]) OBVIOUS
    <2> HIDE DEF t
    <2>3. SoftOK(F, B, p, m, mq, D, i, t, m2) BY <2>1, <2>2, SoftResetStep
    <2> QED BY <2>3 DEF SoftOK
  <1> QED BY <1>1, <1>2 DEF SelfReset

\* A packet of acknowledgments alone is sent.
LEMMA SendDedicatedAckStep ==
  ASSUME NEW p, p \in TlsPeer, NEW mq, NEW D, NEW i \in TM, NEW m0, NEW r, RunOK(p, mq, D, i, m0, r)
  PROVE  RunOK(p, mq, D, i, m0, SendDedicatedAck(p, r, i))
  <1> DEFINE x == SendDedicatedAck(p, r, i)
  <1>1. CASE x = r BY <1>1
  <1>2. CASE x # r
    <2>1. PICK F, B : /\ World(F, B, p, r.m, mq, D)
                      /\ r.out # NoDatagram => DOK(F, B, r.out) /\ r.out.from = p
      BY DEF RunOK
    <2> DEFINE s == r.m.s[i]
               k == [s.prim EXCEPT !.acks = {}]
               d == Datagram(p, s, -1)
               m2 == PutKey(r.m, i, k)
    <2>2. x = [r EXCEPT !.out = d, !.m = m2] BY <1>2 DEF SendDedicatedAck
    <2>3. /\ GOK(F, B) /\ MOK(F, B, p, r.m) /\ SOK(F, B, p, s) /\ KOK(F, B, p, s.prim)
          /\ r.m \in MultiType /\ s.prim \in KeyStateType /\ s \in SessionType
      BY <2>1 DEF World, MOK, SOK, KOK
    <2>4. RunShape(r) /\ Keeps(i, m0, r.m) /\ s.prim.st # S_UNDEF BY DEF RunOK
    <2>5. /\ k \in KeyStateType /\ Frame(s.prim, k) /\ k.st = s.prim.st
        /\ k.auth = s.prim.auth /\ k.key = s.prim.key /\ k.rnext = s.prim.rnext /\ k.rbuf = s.prim.rbuf
        /\ k.peer = s.prim.peer /\ k.plain = s.prim.plain
      BY <2>3, SetAcksFields
    <2>6. s.sid # NoSid BY <2>3, <2>4 DEF SOK, Chain
    <2>7. DOK(F, B, d) /\ d.from = p
      <3> DEFINE id == -1
      <3>1. d = Datagram(p, s, id) /\ id \in -1 .. KEYS OBVIOUS
      <3> HIDE DEF d, id, s
      <3> QED BY <2>3, <2>4, <2>6, <3>1, DatagramStep
    <2> HIDE DEF k, d
    <2>8. KOK(F, B, p, k) /\ k.st # S_UNDEF BY <2>3, <2>4, <2>5, QuietStep DEF Forward
    <2>9. MOK(F, B, p, m2) /\ Keeps(i, r.m, m2) BY <2>3, <2>4, <2>5, <2>8, PutStep
    <2>10. m2.s[i].prim = k BY <2>3, <2>5, PutKeyPrim
    <2> HIDE DEF m2, x
    <2>11. x.m = m2 /\ x.out = d /\ RunShape(x) BY <2>2, <2>4 DEF RunShape
    <2>12. Keeps(i, m0, m2) BY <2>4, <2>9, KeepsTrans
    <2>13. World(F, B, p, m2, mq, D) BY <2>1, <2>9 DEF World
    <2> QED BY <2>7, <2>8, <2>10, <2>11, <2>12, <2>13 DEF RunOK, x
  <1> QED BY <1>1, <1>2

\* A run of tls_multi_process between two sessions.
Sound(p, mq, D, r) ==
  /\ RunShape(r)
  /\ \E F, B : /\ World(F, B, p, r.m, mq, D)
               /\ r.out # NoDatagram => DOK(F, B, r.out) /\ r.out.from = p

\* A call of tls_process for session i keeps the invariant, and what it sends
\* is sound.
LEMMA TlsProcessStep ==
  ASSUME NEW p, p \in TlsPeer, NEW mq, NEW D, NEW i \in TM, NEW r, Sound(p, mq, D, r),
         r.m.s[i].prim.st # S_UNDEF, NEW x \in tls_process(p, r, i)
  PROVE  Sound(p, mq, D, x) /\ Keeps(i, r.m, x.m) /\ x.m.s[i].prim.st # S_UNDEF
  <1> DEFINE starts == UNION {LameExpiry(m, i) : m \in SelfReset(r.m, i)}
             rs == {[r EXCEPT !.m = m, !.go = TRUE] : m \in starts}
  <1>1. PICK y \in IterateAll(p, rs, i) : x = SendDedicatedAck(p, y, i) BY DEF tls_process
  <1>2. ASSUME NEW z \in rs PROVE RunOK(p, mq, D, i, r.m, z)
    <2>1. PICK m \in starts : z = [r EXCEPT !.m = m, !.go = TRUE]
      <3> HIDE DEF starts
      <3> QED BY <1>2
    <2>2. PICK m2 \in SelfReset(r.m, i) : m \in LameExpiry(m2, i) BY <2>1
    <2>3. RunShape(r) BY DEF Sound
    <2>4. PICK F, B : /\ World(F, B, p, r.m, mq, D)
                      /\ r.out # NoDatagram => DOK(F, B, r.out) /\ r.out.from = p
      BY DEF Sound
    <2>5. /\ \E B2 : World(F, B2, p, m2, mq, D) /\ Wider(F, B, F, B2)
          /\ Keeps(i, r.m, m2)
      BY <2>2, <2>4, SelfResetStep
    <2>6. PICK B2 : World(F, B2, p, m2, mq, D) /\ Wider(F, B, F, B2) BY <2>5
    <2>7. World(F, B2, p, m, mq, D) /\ Keeps(i, m2, m) BY <2>2, <2>6, LameExpiryStep
    <2>8. Keeps(i, r.m, m) BY <2>5, <2>7, KeepsTrans
    <2>9. z.m = m /\ z.out = r.out /\ RunShape(z) BY <2>1, <2>3 DEF RunShape
    <2>10. m.s[i].prim.st # S_UNDEF BY <2>8 DEF Keeps
    <2> QED BY <2>4, <2>6, <2>7, <2>8, <2>9, <2>10 DEF RunOK, Wider
  <1> HIDE DEF rs
  <1>3. RunOK(p, mq, D, i, r.m, y) BY <1>1, <1>2, IterateAllStep
  <1>4. RunOK(p, mq, D, i, r.m, x) BY <1>1, <1>3, SendDedicatedAckStep
  <1> QED BY <1>4 DEF RunOK, Sound

-----------------------------------------------------------------------------
(* tls_multi_process.                                                      *)

\* No session is in S_UNDEF or S_ERROR that should not be.
Ready(single, m) ==
  /\ m.s["TM_ACTIVE"].prim.st >= S_INITIAL
  /\ ~ single => m.s["TM_UNTRUSTED"].prim.st >= S_INITIAL
  /\ single => m.s["TM_UNTRUSTED"].prim.st = S_UNDEF

\* What both ends' tls_multi satisfies between two calls.
Between(p, single, m) == Ready(single, m) /\ ~ DECRYPT_KEY_ENABLED(p, m.s["TM_UNTRUSTED"].prim)

\* What --single-session keeps.
Kept(single, m0, m) ==
  /\ m.linked = m0.linked
  /\ single => m.s["TM_ACTIVE"].prim.rsid \in {m0.s["TM_ACTIVE"].prim.rsid, NoSid}

\* Kept is transitive.
LEMMA KeptTrans ==
  ASSUME NEW single, NEW a, NEW b, NEW c, Kept(single, a, b), Kept(single, b, c)
  PROVE  Kept(single, a, c)
  BY DEF Kept

\* The three sessions of a tls_multi.
LEMMA Slots == TM = {"TM_ACTIVE", "TM_UNTRUSTED", "TM_LAME_DUCK"} /\ "TM_ACTIVE" \in TM
               /\ "TM_UNTRUSTED" \in TM /\ "TM_LAME_DUCK" \in TM
  BY DEF TM

\* The states of its key states are numbers.
LEMMA StType ==
  ASSUME NEW F, NEW B, NEW p, NEW m, MOK(F, B, p, m), NEW i \in TM
  PROVE  m.s[i].prim.st \in -1 .. 7 /\ m.s[i].lame.st \in -1 .. 7
  BY DEF MOK, SOK, KOK, KeyStateType

\* tls_session_init is a move in place.
LEMMA InitIsMove ==
  ASSUME NEW m \in MultiType, NEW i \in TM
  PROVE  tls_session_init(m, i) = move_session(m, i, i)
  <1>1. [m EXCEPT !.s[i] = m.s[i]] = m BY DEF MultiType
  <1> QED BY <1>1 DEF move_session

\* The sessions that tls_multi_process works on.
Negotiating == {"TM_ACTIVE", "TM_UNTRUSTED"}
OnlySession(i, m, m2) == \A j \in Negotiating : j # i => m2.s[j] = m.s[j]

\* A session that failed is reset, and the old one kept when it was usable.
LEMMA SessionDoneStep ==
  ASSUME NEW p, p \in TlsPeer, NEW mq, NEW D, NEW i, i \in Negotiating, NEW r, Sound(p, mq, D, r),
         r.m.s[i].prim.st # S_UNDEF, NEW x, x = SessionDone(r, i)
  PROVE  /\ Sound(p, mq, D, x) /\ x.m.s[i].prim.st >= S_INITIAL /\ Kept(opt.single, r.m, x.m)
         /\ OnlySession(i, r.m, x.m)
  <1>0. i \in TM BY DEF TM, Negotiating
  <1>1. PICK F, B : /\ World(F, B, p, r.m, mq, D)
                    /\ r.out # NoDatagram => DOK(F, B, r.out) /\ r.out.from = p
    BY DEF Sound
  <1>2. r.m \in MultiType /\ r.m.s[i].prim.st \in -1 .. 7 BY <1>0, <1>1, StType DEF World, MOK
  <1>3. CASE r.m.s[i].prim.st # S_ERROR
    BY <1>2, <1>3 DEF SessionDone, Kept, OnlySession
  <1>4. CASE r.m.s[i].prim.st = S_ERROR
    <2> DEFINE move == i = "TM_ACTIVE" /\ r.m.s[i].lame.st >= S_ACTIVE /\ ~ opt.single
               j == IF move THEN "TM_LAME_DUCK" ELSE i
               e == r.error \/ i = "TM_ACTIVE"
               m2 == move_session(r.m, j, i)
    <2>1. x = [r EXCEPT !.error = e, !.m = m2]
      BY <1>0, <1>2, <1>4, InitIsMove DEF SessionDone
    <2>2. j \in TM /\ (j # i => j = "TM_LAME_DUCK" /\ i = "TM_ACTIVE" /\ ~ opt.single) BY <1>0 DEF TM
    <2>3. m2 = move_session(r.m, j, i) OBVIOUS
    <2> HIDE DEF j, m2, e
    <2>9. \E B2 : World(F, B2, p, m2, mq, D) /\ Wider(F, B, F, B2) BY <1>0, <1>1, <2>2, <2>3, MoveStep
    <2>4. /\ m2.linked = r.m.linked /\ m2.s[i].prim.st = S_INITIAL /\ m2.s[i].prim.rsid = NoSid
          /\ \A y \in TM : y # i /\ y # j => m2.s[y] = r.m.s[y]
      BY <1>0, <1>1, <1>2, <2>2, <2>3, MoveSlots DEF World, MOK
    <2>5. x.m = m2 /\ x.out = r.out /\ RunShape(x) BY <2>1 DEF RunShape, Sound
    <2>6. Sound(p, mq, D, x) BY <1>1, <2>9, <2>5 DEF Sound, Wider
    <2>7. ASSUME NEW y \in Negotiating, y # i PROVE m2.s[y] = r.m.s[y]
      BY <2>2, <2>4, <2>7 DEF TM, Negotiating
    <2>8. Kept(opt.single, r.m, m2)
      <3>1. CASE i = "TM_ACTIVE" BY <2>4, <3>1 DEF Kept
      <3>2. CASE i # "TM_ACTIVE" BY <2>4, <2>7, <3>2 DEF Kept, Negotiating
      <3> QED BY <3>1, <3>2
    <2> QED BY <2>4, <2>5, <2>6, <2>7, <2>8 DEF OnlySession
  <1> QED BY <1>3, <1>4

\* One session of tls_multi_process's loop.
LEMMA SessionStepStep ==
  ASSUME NEW p, p \in TlsPeer, NEW mq, NEW D, NEW i, i \in Negotiating, NEW r, Sound(p, mq, D, r),
         Ready(opt.single, r.m), NEW x \in SessionStep(p, r, i)
  PROVE  Sound(p, mq, D, x) /\ Ready(opt.single, x.m) /\ Kept(opt.single, r.m, x.m)
  <1>0. i \in TM BY DEF TM, Negotiating
  <1>1. CASE x = r BY <1>1 DEF Kept
  <1>2. CASE x # r
    <2>1. r.m.s[i].prim.st >= S_INITIAL /\ \E y \in tls_process(p, r, i) : x = SessionDone(y, i)
      BY <1>2 DEF SessionStep
    <2>2. PICK y \in tls_process(p, r, i) : x = SessionDone(y, i) BY <2>1
    <2>3. r.m.s[i].prim.st \in -1 .. 7 BY <1>0, StType DEF Sound, World
    <2>4. r.m.s[i].prim.st # S_UNDEF BY <2>1, <2>3
    <2>5. Sound(p, mq, D, y) /\ Keeps(i, r.m, y.m) /\ y.m.s[i].prim.st # S_UNDEF
      BY <1>0, <2>2, <2>4, TlsProcessStep
    <2>6. /\ Sound(p, mq, D, x) /\ x.m.s[i].prim.st >= S_INITIAL /\ Kept(opt.single, y.m, x.m)
          /\ OnlySession(i, y.m, x.m)
      BY <2>2, <2>5, SessionDoneStep
    <2>7. \A j \in Negotiating : j # i => x.m.s[j].prim.st = r.m.s[j].prim.st
      <3>1. TAKE j \in Negotiating
      <3>2. HAVE j # i
      <3>3. j \in TM BY DEF TM, Negotiating
      <3>4. y.m.s[j].prim.st = r.m.s[j].prim.st BY <2>5, <3>2, <3>3 DEF Keeps
      <3>5. x.m.s[j] = y.m.s[j] BY <2>6, <3>2 DEF OnlySession
      <3> QED BY <3>4, <3>5
    <2>8. Ready(opt.single, x.m)
      <3>1. CASE i = "TM_ACTIVE" BY <2>6, <2>7, <3>1 DEF Ready, Negotiating
      <3>2. CASE i = "TM_UNTRUSTED" BY <2>4, <2>6, <2>7, <3>2 DEF Ready, Negotiating
      <3> QED BY <3>1, <3>2 DEF Negotiating
    <2>9. Kept(opt.single, r.m, y.m) BY <2>5 DEF Keeps, Kept, TM
    <2>10. Kept(opt.single, r.m, x.m) BY <2>6, <2>9, KeptTrans
    <2> QED BY <2>6, <2>8, <2>10
  <1> QED BY <1>1, <1>2

\* The retiring key of the retired session expires.
LEMMA LameSessionStep ==
  ASSUME NEW F, NEW B, NEW p, p \in TlsPeer, NEW m, NEW mq, NEW D, World(F, B, p, m, mq, D),
         NEW m2 \in LameSessionExpiry(m)
  PROVE  /\ World(F, B, p, m2, mq, D) /\ m2.linked = m.linked
         /\ \A j \in Negotiating : m2.s[j] = m.s[j]
  <1>0. GOK(F, B) /\ MOK(F, B, p, m) /\ m \in MultiType BY DEF World, MOK
  <1>1. CASE m2 = m BY <1>1
  <1>2. CASE m2 # m
    <2> DEFINE i == "TM_LAME_DUCK"
    <2>0. i \in TM /\ \A j \in Negotiating : j \in TM /\ j # i BY DEF TM, Negotiating
    <2>1. m2 = SetSlot(m, i, NoSession) BY <1>2 DEF LameSessionExpiry, SetSlot
    <2>2. SOK(F, B, p, NoSession) /\ NoSession.sid = NoSid /\ NoSession \in SessionType BY NoSessionOK DEF SOK
    <2> HIDE DEF i
    <2>3. /\ m2 \in MultiType /\ m2.nsid = m.nsid /\ m2.linked = m.linked /\ m2.actual = m.actual
          /\ m2.s[i] = NoSession /\ \A j \in TM : j # i => m2.s[j] = m.s[j]
      BY <1>0, <2>0, <2>1, <2>2 DEF SetSlot, MultiType
    <2>4. Later(m.s[i], m2.s[i]) /\ Grown(F, B, F, B, p, m2) BY <2>2, <2>3 DEF Later, Grown
    <2>5. SlotsOK(F, B, p, m2) /\ OneSlot(m, m2, i) BY <1>0, <2>2, <2>3 DEF SlotsOK, OneSlot, MOK
    <2>6. MOK(F, B, p, m2) BY <1>0, <2>0, <2>3, <2>4, <2>5, SlotStep
    <2>7. World(F, B, p, m2, mq, D) BY <2>6 DEF World
    <2> QED BY <2>0, <2>3, <2>7
  <1> QED BY <1>1, <1>2

\* What tls_multi_process does after the loop: expiry, promotion, hard error.
LEMMA FinishStep ==
  ASSUME NEW p, p \in TlsPeer, NEW mq, NEW D, NEW r, Sound(p, mq, D, r), Ready(opt.single, r.m),
         NEW x \in Finish(p, r)
  PROVE  Sound(p, mq, D, x) /\ Between(p, opt.single, x.m) /\ Kept(opt.single, r.m, x.m)
  <1>1. PICK F, B : /\ World(F, B, p, r.m, mq, D)
                    /\ r.out # NoDatagram => DOK(F, B, r.out) /\ r.out.from = p
    BY DEF Sound
  <1>2. PICK m \in LameSessionExpiry(r.m) : x = [r EXCEPT !.m = HardError(Promote(p, m), r.error)]
    BY DEF Finish
  <1> DEFINE a == "TM_ACTIVE"
             u == "TM_UNTRUSTED"
             m1 == Promote(p, m)
             m2 == HardError(m1, r.error)
  <1>3. World(F, B, p, m, mq, D) /\ m.linked = r.m.linked /\ m.s[a] = r.m.s[a] /\ m.s[u] = r.m.s[u]
    BY <1>1, <1>2, LameSessionStep DEF Negotiating
  <1>4. Ready(opt.single, m) BY <1>3 DEF Ready
  <1>5. /\ \E B2 : World(F, B2, p, m1, mq, D) /\ Wider(F, B, F, B2)
        /\ Between(p, opt.single, m1) /\ Kept(opt.single, m, m1)
    <2>1. CASE ~ DECRYPT_KEY_ENABLED(p, m.s[u].prim)
      BY <1>3, <1>4, <2>1 DEF Promote, Between, Kept, Wider
    <2>2. CASE DECRYPT_KEY_ENABLED(p, m.s[u].prim)
      <3>1. m1 = move_session(m, a, u) BY <2>2 DEF Promote
      <3>2. a \in TM /\ u \in TM /\ a # u BY DEF TM
      <3>3. ~ opt.single BY <1>4, <2>2 DEF Ready, DECRYPT_KEY_ENABLED
      <3> HIDE DEF m1, a, u
      <3>7. \E B2 : World(F, B2, p, m1, mq, D) /\ Wider(F, B, F, B2) BY <1>3, <3>1, <3>2, MoveStep
      <3>4. /\ m1.linked = m.linked /\ m1.s[u].prim.st = S_INITIAL /\ m1.s[a] = m.s[u]
        BY <1>3, <3>1, <3>2, MoveSlots DEF World, MOK
      <3>5. Between(p, opt.single, m1)
        BY <1>4, <3>3, <3>4 DEF Ready, Between, DECRYPT_KEY_ENABLED, a, u
      <3>6. Kept(opt.single, m, m1) BY <3>3, <3>4 DEF Kept
      <3> QED BY <3>5, <3>6, <3>7
    <2> QED BY <2>1, <2>2
  <1>6. PICK B2 : World(F, B2, p, m1, mq, D) /\ Wider(F, B, F, B2) BY <1>5
  <1> HIDE DEF m1
  <1>7. MOK(F, B2, p, m1) /\ m1 \in MultiType BY <1>6 DEF World, MOK
  <1>8. m2 \in MultiType /\ m2.s = m1.s /\ m2.nsid = m1.nsid /\ m2.linked = m1.linked
    <2> DEFINE h == m1.hard \/ (r.error /\ \A k \in 1 .. 3 : key_scan(m1)[k].st < S_ACTIVE)
               c == m1.actual \/ m1.s["TM_ACTIVE"].prim.st >= S_ACTIVE
    <2>1. h \in BOOLEAN /\ c \in BOOLEAN OBVIOUS
    <2>2. m2 = [m1 EXCEPT !.hard = h, !.actual = c] BY DEF HardError
    <2> HIDE DEF h, c, m2
    <2> QED BY <1>7, <2>1, <2>2 DEF MultiType
  <1>9. x = [r EXCEPT !.m = m2] BY <1>2 DEF m1
  <1> HIDE DEF m2, a, u
  <1>10. MOK(F, B2, p, m2) BY <1>7, <1>8 DEF MOK, Used
  <1>11. x.m = m2 /\ x.out = r.out /\ RunShape(x) BY <1>9 DEF RunShape, Sound
  <1>12. World(F, B2, p, m2, mq, D) BY <1>6, <1>10 DEF World
  <1>13. Sound(p, mq, D, x) BY <1>1, <1>6, <1>11, <1>12 DEF Sound, Wider
  <1>14. Between(p, opt.single, m2) BY <1>5, <1>8 DEF Between, Ready
  <1>15. Kept(opt.single, r.m, m2) BY <1>3, <1>5, <1>8 DEF Kept, a
  <1> QED BY <1>11, <1>13, <1>14, <1>15

\* All of tls_multi_process.
LEMMA ProcessStep ==
  ASSUME NEW p, p \in TlsPeer, NEW F, NEW B, NEW mq, NEW D, World(F, B, p, multi[p], mq, D),
         Between(p, opt.single, multi[p]), NEW r \in tls_multi_process(p)
  PROVE  Sound(p, mq, D, r) /\ Between(p, opt.single, r.m) /\ Kept(opt.single, multi[p], r.m)
  <1> DEFINE start == [m |-> multi[p], out |-> NoDatagram, go |-> FALSE, fail |-> FALSE, error |-> FALSE]
             a == "TM_ACTIVE"
             u == "TM_UNTRUSTED"
  <1>1. PICK x \in SessionStep(p, start, a) : \E y \in SessionStep(p, x, u) : r \in Finish(p, y)
    BY DEF tls_multi_process
  <1>2. PICK y \in SessionStep(p, x, u) : r \in Finish(p, y) BY <1>1
  <1>3. start.m = multi[p] /\ RunShape(start) /\ start.out = NoDatagram BY DEF RunShape
  <1>4. a \in Negotiating /\ u \in Negotiating BY DEF Negotiating
  <1> HIDE DEF start, a, u
  <1>5. Sound(p, mq, D, start) /\ Ready(opt.single, start.m) BY <1>3 DEF Sound, Between
  <1>6. Sound(p, mq, D, x) /\ Ready(opt.single, x.m) /\ Kept(opt.single, start.m, x.m)
    BY <1>1, <1>4, <1>5, SessionStepStep
  <1>7. Sound(p, mq, D, y) /\ Ready(opt.single, y.m) /\ Kept(opt.single, x.m, y.m)
    BY <1>2, <1>4, <1>6, SessionStepStep
  <1>8. Sound(p, mq, D, r) /\ Between(p, opt.single, r.m) /\ Kept(opt.single, y.m, r.m)
    BY <1>2, <1>7, FinishStep
  <1>9. Kept(opt.single, start.m, r.m) BY <1>6, <1>7, <1>8, KeptTrans
  <1> QED BY <1>3, <1>8, <1>9

-----------------------------------------------------------------------------
(* tls_pre_decrypt.                                                        *)

\* What the reliability layer delivers of a datagram.
Payload(d) == [id |-> d.id, gen |-> d.gen, peer |-> d.peer]

\* What a datagram does to the key state it is for.
LEMMA ToReliableFields ==
  ASSUME NEW s \in SessionType, NEW d \in DatagramType, d.id = -1 => d.op = "ACK", NEW t, t = ToReliable(s, d)
  PROVE  \E k \in KeyStateType :
           /\ t = SetPrim(s, k)
           /\ Frame(s.prim, k) /\ k.st = s.prim.st
           /\ k.auth = s.prim.auth /\ k.key = s.prim.key /\ k.rnext = s.prim.rnext /\ k.peer = s.prim.peer
           /\ k.plain = s.prim.plain
           /\ k.rbuf = s.prim.rbuf \/ (d.kid = s.prim.kid /\ k.rbuf = s.prim.rbuf \cup {Payload(d)})
  <1> DEFINE ks == s.prim
             new == d.id >= ks.rnext /\ \A e \in ks.rbuf : e.id # d.id
             un == ks.unacked \ d.acks
             rcv == [ks EXCEPT !.unacked = un]
             ac == ks.acks \cup {d.id}
             rb == IF new THEN ks.rbuf \cup {Payload(d)} ELSE ks.rbuf
             k2 == [rcv EXCEPT !.acks = ac, !.rbuf = rb]
  <1>1. ks \in KeyStateType BY DEF SessionType
  <1>2. un \in SUBSET (RESET .. KEYS) /\ ks.acks \in SUBSET (RESET .. KEYS) /\ ks.rbuf \in SUBSET Entry
    BY <1>1 DEF KeyStateType, Entry, Gen
  <1>3. /\ rcv \in KeyStateType /\ Frame(ks, rcv) /\ rcv.st = ks.st
        /\ rcv.auth = ks.auth /\ rcv.key = ks.key /\ rcv.rnext = ks.rnext /\ rcv.peer = ks.peer
        /\ rcv.plain = ks.plain /\ rcv.rbuf = ks.rbuf /\ rcv.acks = ks.acks
    <2> HIDE DEF un
    <2> QED BY <1>1, <1>2 DEF KeyStateType, Frame
  <1>4. CASE d.kid # ks.kid \/ (d.acks # {} /\ d.asid # s.sid)
    <2>1. t = s BY <1>4 DEF ToReliable
    <2>2. s = SetPrim(s, ks) BY DEF SetPrim, SessionType
    <2> QED BY <1>1, <2>1, <2>2 DEF Frame
  <1>5. CASE ~ (d.kid # ks.kid \/ (d.acks # {} /\ d.asid # s.sid))
    <2>1. t = [s EXCEPT !.prim = IF d.op = "ACK" THEN rcv ELSE k2]
      BY <1>3, <1>5 DEF ToReliable, Payload
    <2>2. CASE d.op = "ACK"
      <3>1. t = SetPrim(s, rcv) BY <2>1, <2>2 DEF SetPrim
      <3> HIDE DEF rcv
      <3> QED BY <1>3, <3>1
    <2>3. CASE d.op # "ACK"
      <3>1. d.id \in RESET .. KEYS /\ d.gen \in Gen /\ d.peer \in Gen BY <2>3 DEF DatagramType
      <3>2. Payload(d) \in Entry BY <3>1 DEF Payload, Entry
      <3>3. rb \in SUBSET Entry BY <1>2, <3>2
      <3>4. ac \in SUBSET (RESET .. KEYS) BY <1>2, <3>1
      <3>5. rb = ks.rbuf \/ rb = ks.rbuf \cup {Payload(d)} OBVIOUS
      <3>6. t = SetPrim(s, k2) BY <2>1, <2>3 DEF SetPrim
      <3>9. k2 = [rcv EXCEPT !.acks = ac, !.rbuf = rb] /\ rcv \in KeyStateType BY <1>3
      <3> HIDE DEF rcv, ac, rb, k2
      <3>7. /\ k2 = Shape(k2) /\ Frame(rcv, k2) /\ k2.st = rcv.st /\ k2.made = rcv.made /\ k2.unacked = rcv.unacked
            /\ k2.auth = rcv.auth /\ k2.key = rcv.key /\ k2.rnext = rcv.rnext /\ k2.peer = rcv.peer
            /\ k2.plain = rcv.plain /\ k2.rbuf = rb /\ k2.acks = ac
        BY <3>9 DEF KeyStateType, Shape, Frame
      <3>8. k2 \in KeyStateType
        BY <1>3, <3>3, <3>4, <3>7 DEF KeyStateType, Shape, Frame, Entry, Gen
      <3> QED BY <1>3, <1>5, <3>5, <3>6, <3>7, <3>8 DEF Frame
    <2> QED BY <2>2, <2>3
  <1> QED BY <1>4, <1>5

\* m2 is m with new contents of the buffers of session i's primary key state.
Buffered(F, B, q, m, mp, D, i, m2) ==
  World(F, B, q, m2, mp, D) /\ Keeps(i, m, m2) /\ m2.s[i].prim.st = m.s[i].prim.st

\* The payload of a datagram goes into the buffer with what F and B say of it.
LEMMA ReliableStep ==
  ASSUME NEW F, NEW B, NEW q, q \in TlsPeer, NEW m, NEW mp, NEW D, World(F, B, q, m, mp, D),
         NEW i \in TM, m.s[i].prim.st # S_UNDEF, m.s[i].prim.rsid # NoSid,
         NEW d, DOK(F, B, d), d.from = OtherEnd(q), NEW m2, m2 = SetSlot(m, i, ToReliable(m.s[i], d))
  PROVE  Buffered(F, B, q, m, mp, D, i, m2)
  <1> USE TlsAssumption DEF TlsAssumption
  <1>0. /\ GOK(F, B) /\ MOK(F, B, q, m) /\ m \in MultiType /\ m.s[i] \in SessionType /\ KOK(F, B, q, m.s[i].prim)
        /\ d \in DatagramType /\ (d.id = -1 => d.op = "ACK")
    BY DEF World, MOK, SOK, DOK
  <1> DEFINE s == m.s[i]
             ks == s.prim
             t == ToReliable(s, d)
  <1>1. t = ToReliable(s, d) /\ s \in SessionType BY <1>0
  <1> HIDE DEF t, s
  <1>2. PICK k \in KeyStateType :
           /\ t = SetPrim(s, k)
           /\ Frame(ks, k) /\ k.st = ks.st
           /\ k.auth = ks.auth /\ k.key = ks.key /\ k.rnext = ks.rnext /\ k.peer = ks.peer
           /\ k.plain = ks.plain
           /\ k.rbuf = ks.rbuf \/ (d.kid = ks.kid /\ k.rbuf = ks.rbuf \cup {Payload(d)})
    BY <1>0, <1>1, ToReliableFields
  <1>3. ks.st # S_UNDEF /\ ks.rsid # NoSid /\ KOK(F, B, q, ks) /\ ks \in KeyStateType
    BY <1>0 DEF s, KOK
  <1> HIDE DEF ks
  <1>4. KsInv(q, k)
    <2>1. KsInv(q, ks) BY <1>3 DEF KOK
    <2>2. k.rsid # NoSid /\ k.st = ks.st /\ k.key = ks.key /\ k.rnext = ks.rnext /\ k.peer = ks.peer /\ k.kid = ks.kid /\ k.gen = ks.gen
          /\ k.rsid = ks.rsid /\ k.auth = ks.auth
      BY <1>2, <1>3 DEF Frame
    <2>3. k.plain => k.rnext = 3 BY <1>2, <2>1 DEF KsInv
    <2> QED BY <1>3, <2>1, <2>2, <2>3 DEF KsInv, KeyOf, DECRYPT_KEY_ENABLED
  <1>5. KsGhost(F, B, q, k)
    <2>1. KsGhost(F, B, q, ks) BY <1>3 DEF KOK
    <2>2. <<d.gen, d.kid>> \in B[OtherEnd(q)] /\ (d.peer # NoGen => <<d.gen, d.peer>> \in F[OtherEnd(q)])
      BY DEF DOK
    <2>3. Payload(d).gen = d.gen /\ Payload(d).peer = d.peer BY DEF Payload
    <2>4. \A e \in k.rbuf : /\ <<e.gen, ks.kid>> \in B[OtherEnd(q)]
                            /\ e.peer # NoGen => <<e.gen, e.peer>> \in F[OtherEnd(q)]
      BY <1>2, <2>1, <2>2, <2>3 DEF KsGhost
    <2> QED BY <1>2, <2>1, <2>4 DEF KsGhost, Frame, Est
  <1>6. KOK(F, B, q, k) /\ k.st # S_UNDEF BY <1>2, <1>3, <1>4, <1>5 DEF KOK
  <1>7. m2 = PutKey(m, i, k)
    <2>1. m2 = SetSlot(m, i, SetPrim(m.s[i], k)) BY <1>2 DEF s, t
    <2> QED BY <1>0, <2>1, PutKeySlot
  <1>8. MOK(F, B, q, PutKey(m, i, k)) /\ Keeps(i, m, PutKey(m, i, k))
    <2>1. Frame(m.s[i].prim, k) BY <1>2 DEF s, ks
    <2> QED BY <1>0, <1>6, <2>1, PutStep
  <1>9. PutKey(m, i, k).s[i].prim = k BY <1>0, PutKeyPrim
  <1>10. World(F, B, q, m2, mp, D) BY <1>7, <1>8 DEF World
  <1>11. m2.s[i].prim.st = m.s[i].prim.st BY <1>2, <1>7, <1>9 DEF s, ks
  <1> QED BY <1>7, <1>8, <1>10, <1>11 DEF Buffered

\* A session whose keys are not made yet gets a remote end.
LEMMA LinkKey ==
  ASSUME NEW F, NEW B, NEW q, q \in TlsPeer, NEW ks, KOK(F, B, q, ks), ks.st # S_UNDEF, ks.key = NoKey,
         NEW sid \in Nat, sid # NoSid, NEW k, k = [ks EXCEPT !.rsid = sid]
  PROVE  KOK(F, B, q, k)
  <1> USE TlsAssumption DEF TlsAssumption
  <1>1. ks \in KeyStateType /\ KsInv(q, ks) /\ KsGhost(F, B, q, ks) BY DEF KOK
  <1>2. /\ k \in KeyStateType /\ k.gen = ks.gen /\ k.kid = ks.kid /\ k.rsid = sid /\ k.st = ks.st
        /\ k.auth = ks.auth /\ k.key = ks.key /\ k.rnext = ks.rnext /\ k.rbuf = ks.rbuf
        /\ k.peer = ks.peer /\ k.plain = ks.plain
    BY <1>1, SetRsidFields
  <1>3. KsInv(q, k) BY <1>1, <1>2 DEF KsInv
  <1>4. KsGhost(F, B, q, k) BY <1>1, <1>2 DEF KsGhost, Est
  <1> QED BY <1>2, <1>3, <1>4 DEF KOK

\* A session is given its remote session id.
Linked(m, i, sid) == [m EXCEPT !.s[i].prim.rsid = sid, !.linked = TRUE]

\* The result is sound.
LinkedOK(F, B, q, m, mp, D, i, sid, m2) ==
  /\ World(F, B, q, m2, mp, D) /\ m2 \in MultiType
  /\ m2.s[i].prim.st = m.s[i].prim.st /\ m2.s[i].prim.rsid = sid
  /\ m2.s[i] = [m.s[i] EXCEPT !.prim.rsid = sid]
  /\ \A j \in TM : j # i => m2.s[j] = m.s[j]

\* A hard reset gives a session without keys its remote session id.
LEMMA LinkStep ==
  ASSUME NEW F, NEW B, NEW q, q \in TlsPeer, NEW m, NEW mp, NEW D, World(F, B, q, m, mp, D),
         NEW i \in TM, m.s[i].prim.st # S_UNDEF, m.s[i].prim.key = NoKey, NEW sid \in Nat, sid # NoSid,
         NEW m2, m2 = Linked(m, i, sid)
  PROVE  LinkedOK(F, B, q, m, mp, D, i, sid, m2)
  <1>0. /\ GOK(F, B) /\ MOK(F, B, q, m) /\ m \in MultiType /\ m.s[i] \in SessionType /\ KOK(F, B, q, m.s[i].prim)
        /\ m.s[i].prim \in KeyStateType /\ SOK(F, B, q, m.s[i])
    BY DEF World, MOK, SOK, KOK
  <1> DEFINE k == [m.s[i].prim EXCEPT !.rsid = sid]
             t == SetPrim(m.s[i], k)
             m1 == SetSlot(m, i, t)
  <1>1. /\ k \in KeyStateType /\ k.gen = m.s[i].prim.gen /\ k.kid = m.s[i].prim.kid /\ k.rsid = sid /\ k.st = m.s[i].prim.st
    BY <1>0, SetRsidFields
  <1>2. KOK(F, B, q, k)
    <2>1. k = [m.s[i].prim EXCEPT !.rsid = sid] OBVIOUS
    <2> HIDE DEF k
    <2> QED BY <1>0, <2>1, LinkKey
  <1>3. t = [m.s[i] EXCEPT !.prim.rsid = sid] BY <1>0 DEF SetPrim, SessionType
  <1> HIDE DEF k
  <1>4. /\ t \in SessionType /\ t.prim = k /\ t.lame = m.s[i].lame /\ t.sid = m.s[i].sid /\ t.n = m.s[i].n
        /\ t.kid = m.s[i].kid
    BY <1>0, <1>1 DEF SessionType, SetPrim
  <1> HIDE DEF t
  <1>5. m2 = [m1 EXCEPT !.linked = TRUE] BY <1>0, <1>3 DEF Linked, SetSlot, MultiType
  <1>6. /\ m1 \in MultiType /\ m1.nsid = m.nsid /\ m1.s[i] = t /\ \A j \in TM : j # i => m1.s[j] = m.s[j]
    BY <1>0, <1>4 DEF SetSlot, MultiType
  <1> HIDE DEF m1
  <1>7. /\ m2 \in MultiType /\ m2.nsid = m.nsid /\ m2.s[i] = t /\ \A j \in TM : j # i => m2.s[j] = m.s[j]
    BY <1>5, <1>6 DEF MultiType
  <1>8. SOK(F, B, q, t) BY <1>0, <1>1, <1>2, <1>4 DEF SOK, Chain
  <1>9. Later(m.s[i], m2.s[i]) BY <1>0, <1>4, <1>7 DEF SessionType, Later
  <1>10. Grown(F, B, F, B, q, m2) BY DEF Grown
  <1>11. SlotsOK(F, B, q, m2) /\ OneSlot(m, m2, i) BY <1>0, <1>7, <1>8 DEF SlotsOK, OneSlot, MOK
  <1>12. MOK(F, B, q, m2) BY <1>0, <1>7, <1>9, <1>10, <1>11, SlotStep
  <1>13. World(F, B, q, m2, mp, D) BY <1>12 DEF World
  <1> QED BY <1>1, <1>3, <1>4, <1>7, <1>13 DEF LinkedOK

\* Link is that, followed by the datagram's delivery,
LEMMA LinkIsTwo ==
  ASSUME NEW m \in MultiType, NEW i \in TM, NEW d, NEW m1 \in MultiType, m1 = Linked(m, i, d.sid),
         m1.s[i] = [m.s[i] EXCEPT !.prim.rsid = d.sid]
  PROVE  Link(m, i, d) = SetSlot(m1, i, ToReliable(m1.s[i], d))
  <1> DEFINE t == ToReliable(m1.s[i], d)
             s == [m.s[i] EXCEPT !.prim.rsid = d.sid]
             m0 == [m EXCEPT !.s[i] = s, !.linked = TRUE]
  <1>1. t = ToReliable(s, d) OBVIOUS
  <1>2. Link(m, i, d) = [m EXCEPT !.s[i] = t, !.linked = TRUE] BY <1>1 DEF Link
  <1>3. m1 = m0 BY DEF Linked, MultiType
  <1> HIDE DEF t, s
  <1>4. SetSlot(m0, i, t) = [m EXCEPT !.s[i] = t, !.linked = TRUE]
    BY DEF SetSlot, MultiType
  <1> HIDE DEF m0
  <1> QED BY <1>2, <1>3, <1>4 DEF t

\* and so keeps the invariant.
LEMMA LinkStep2 ==
  ASSUME NEW F, NEW B, NEW q, q \in TlsPeer, NEW m, NEW mp, NEW D, World(F, B, q, m, mp, D),
         NEW i \in TM, m.s[i].prim.st # S_UNDEF, m.s[i].prim.key = NoKey,
         NEW d, DOK(F, B, d), d.from = OtherEnd(q), NEW m2, m2 = Link(m, i, d)
  PROVE  /\ World(F, B, q, m2, mp, D)
         /\ \A j \in TM : m2.s[j].prim.st = m.s[j].prim.st
  <1> DEFINE sid == d.sid
             m1 == Linked(m, i, sid)
  <1>1. sid \in Nat /\ sid # NoSid BY DEF DOK, DatagramType
  <1>2. m \in MultiType /\ m1 = Linked(m, i, sid) BY DEF World, MOK
  <1> HIDE DEF m1
  <1>3. /\ World(F, B, q, m1, mp, D) /\ m1 \in MultiType
        /\ m1.s[i].prim.st = m.s[i].prim.st /\ m1.s[i].prim.rsid = sid
        /\ m1.s[i] = [m.s[i] EXCEPT !.prim.rsid = sid]
        /\ \A j \in TM : j # i => m1.s[j] = m.s[j]
    <2>1. LinkedOK(F, B, q, m, mp, D, i, sid, m1)
      <3> HIDE DEF sid
      <3> QED BY <1>1, <1>2, LinkStep
    <2> QED BY <2>1 DEF LinkedOK
  <1>4. m2 = SetSlot(m1, i, ToReliable(m1.s[i], d)) BY <1>2, <1>3, LinkIsTwo
  <1>5. World(F, B, q, m2, mp, D) /\ Keeps(i, m1, m2) /\ m2.s[i].prim.st = m1.s[i].prim.st
    <2>1. m1.s[i].prim.st # S_UNDEF /\ m1.s[i].prim.rsid # NoSid BY <1>1, <1>3
    <2>2. Buffered(F, B, q, m1, mp, D, i, m2) BY <1>3, <1>4, <2>1, ReliableStep
    <2> QED BY <2>2 DEF Buffered
  <1>6. \A j \in TM : m2.s[j].prim.st = m1.s[j].prim.st BY <1>5 DEF Keeps
  <1>7. \A j \in TM : m1.s[j].prim.st = m.s[j].prim.st BY <1>3
  <1> QED BY <1>5, <1>6, <1>7

\* The last session put in a slot stays.
LEMMA SlotTwice ==
  ASSUME NEW m \in MultiType, NEW i \in TM, NEW s, NEW t
  PROVE  SetSlot(SetSlot(m, i, s), i, t) = SetSlot(m, i, t)
  BY DEF SetSlot, MultiType

\* What a received datagram may do.
Received(F, B, q, m, mp, D, single, m2) ==
  /\ \E B2 : World(F, B2, q, m2, mp, D) /\ Wider(F, B, F, B2)
  /\ Between(q, single, m2)
  /\ single /\ m.linked => m2.s["TM_ACTIVE"].prim.rsid = m.s["TM_ACTIVE"].prim.rsid

\* A datagram of a known session, with a soft reset before it or not.
LEMMA MatchStep ==
  ASSUME NEW F, NEW B, NEW q, q \in TlsPeer, NEW m, NEW mp, NEW D, World(F, B, q, m, mp, D),
         NEW single, Between(q, single, m), NEW d, DOK(F, B, d), d.from = OtherEnd(q),
         NEW i, i \in Negotiating, m.s[i].prim.rsid = d.sid, NEW soft \in BOOLEAN,
         soft => DECRYPT_KEY_ENABLED(q, m.s[i].prim),
         NEW m2, m2 = SetSlot(m, i, ToReliable(IF soft THEN key_state_soft_reset(m.s[i]) ELSE m.s[i], d))
  PROVE  Received(F, B, q, m, mp, D, single, m2)
  <1>0. i \in TM /\ d.sid # NoSid BY DEF TM, Negotiating, DOK
  <1>1. m.s[i].prim.st # S_UNDEF /\ m.s[i].prim.rsid # NoSid /\ m \in MultiType
    BY <1>0 DEF World, MOK, SOK, KOK, KsInv
  <1>2. CASE ~ soft
    <2>1. m2 = SetSlot(m, i, ToReliable(m.s[i], d)) BY <1>2
    <2>2. Buffered(F, B, q, m, mp, D, i, m2) BY <1>0, <1>1, <2>1, ReliableStep
    <2>3. World(F, B, q, m2, mp, D) /\ \A j \in TM : m2.s[j].prim.st = m.s[j].prim.st /\ m2.s[j].prim.rsid = m.s[j].prim.rsid
      BY <2>2 DEF Buffered, Keeps
    <2>4. Wider(F, B, F, B) BY DEF Wider
    <2> QED BY <2>3, <2>4, Slots DEF Received, Between, Ready, DECRYPT_KEY_ENABLED
  <1>3. CASE soft
    <2> DEFINE t == key_state_soft_reset(m.s[i])
               m1 == SetSlot(m, i, t)
    <2>1. i = "TM_ACTIVE" BY <1>3 DEF Between, Negotiating
    <2>2. t = key_state_soft_reset(m.s[i]) /\ m1 = SetSlot(m, i, t) OBVIOUS
    <2>3. m2 = SetSlot(m1, i, ToReliable(t, d)) BY <1>0, <1>1, <1>3, SlotTwice
    <2> HIDE DEF t, m1
    <2>4. SoftOK(F, B, q, m, mp, D, i, t, m1) BY <1>0, <1>1, <2>2, SoftResetStep
    <2>5. PICK B2 : World(F, B2, q, m1, mp, D) /\ Wider(F, B, F, B2) BY <2>4 DEF SoftOK
    <2>6. Keeps(i, m, m1) /\ m1.s[i] = t /\ m1.s[i].prim.st = S_INITIAL BY <2>4 DEF SoftOK
    <2>7. m1.s[i].prim.rsid # NoSid /\ m1.s[i].prim.st # S_UNDEF BY <1>0, <1>1, <2>6 DEF Keeps
    <2>8. m2 = SetSlot(m1, i, ToReliable(m1.s[i], d)) BY <2>3, <2>6
    <2>9. DOK(F, B2, d) BY <2>5 DEF Wider
    <2>10. Buffered(F, B2, q, m1, mp, D, i, m2) BY <1>0, <2>5, <2>7, <2>8, <2>9, ReliableStep
    <2>11. World(F, B2, q, m2, mp, D) /\ Keeps(i, m1, m2) /\ m2.s[i].prim.st = S_INITIAL
      BY <2>6, <2>10 DEF Buffered
    <2>12. \A j \in TM : /\ m2.s[j].prim.rsid = m.s[j].prim.rsid
                         /\ j # i => m2.s[j].prim.st = m.s[j].prim.st
      BY <2>6, <2>11 DEF Keeps
    <2>13. m2.s["TM_UNTRUSTED"].prim.st = m.s["TM_UNTRUSTED"].prim.st BY <2>1, <2>12, Slots
    <2>14. m2.s["TM_ACTIVE"].prim.st = S_INITIAL BY <2>1, <2>11
    <2>15. Ready(single, m2) BY <2>13, <2>14 DEF Ready, Between
    <2>16. ~ DECRYPT_KEY_ENABLED(q, m2.s["TM_UNTRUSTED"].prim) BY <2>13 DEF DECRYPT_KEY_ENABLED, Between
    <2>17. Between(q, single, m2) BY <2>15, <2>16 DEF Between
    <2>18. m2.s["TM_ACTIVE"].prim.rsid = m.s["TM_ACTIVE"].prim.rsid BY <2>12, Slots
    <2> QED BY <2>5, <2>11, <2>17, <2>18 DEF Received
  <1> QED BY <1>2, <1>3

\* Every path of tls_pre_decrypt.
LEMMA DecryptStep ==
  ASSUME NEW F, NEW B, NEW q, q \in TlsPeer, NEW m, NEW mp, NEW D, World(F, B, q, m, mp, D),
         Between(q, opt.single, m), NEW d, DOK(F, B, d), d.from = OtherEnd(q),
         NEW m2, m2 = tls_pre_decrypt(q, m, d)
  PROVE  Received(F, B, q, m, mp, D, opt.single, m2)
  <1> DEFINE a == "TM_ACTIVE"
             u == "TM_UNTRUSTED"
             i == IF a \in Matches(m, d.sid) THEN a ELSE u
             soft == d.op = "SOFT_RESET" /\ DECRYPT_KEY_ENABLED(q, m.s[i].prim)
  <1>0. m \in MultiType /\ a \in TM /\ u \in TM /\ a # u BY DEF World, MOK, TM
  <1>1. m.s[a].prim.st \in -1 .. 7 /\ m.s[u].prim.st \in -1 .. 7 /\ KsInv(q, m.s[a].prim) /\ KsInv(q, m.s[u].prim)
    BY <1>0, StType DEF World, MOK, SOK, KOK
  <1>2. CASE m2 = m
    <2>1. Wider(F, B, F, B) BY DEF Wider
    <2> QED BY <1>2, <2>1 DEF Received
  <1>3. ASSUME NEW j \in {a, u}, m2 = Link(m, j, d), opt.single => ~ m.linked,
               m.s[j].prim.st # S_UNDEF, m.s[j].prim.key = NoKey
        PROVE  Received(F, B, q, m, mp, D, opt.single, m2)
    <2>1. World(F, B, q, m2, mp, D) /\ \A x \in TM : m2.s[x].prim.st = m.s[x].prim.st
      BY <1>0, <1>3, LinkStep2
    <2>2. Wider(F, B, F, B) BY DEF Wider
    <2> QED BY <1>0, <1>3, <2>1, <2>2 DEF Received, Between, Ready, DECRYPT_KEY_ENABLED
  <1>4. CASE Matches(m, d.sid) # {} /\ Matches(m, d.sid) # {"TM_LAME_DUCK"}
    <2>1. m2 = [m EXCEPT !.s[i] = ToReliable(IF soft THEN key_state_soft_reset(@) ELSE @, d)]
      BY <1>4 DEF tls_pre_decrypt
    <2>2. i \in TM /\ i \in Negotiating /\ i \in Matches(m, d.sid) BY <1>4 DEF Matches, TM, Negotiating
    <2>3. m.s[i].prim.rsid = d.sid BY <2>2 DEF Matches
    <2>4. soft \in BOOLEAN /\ (soft => DECRYPT_KEY_ENABLED(q, m.s[i].prim)) OBVIOUS
    <2> HIDE DEF i, soft
    <2>5. m2 = SetSlot(m, i, ToReliable(IF soft THEN key_state_soft_reset(m.s[i]) ELSE m.s[i], d))
      BY <1>0, <2>1, <2>2 DEF SetSlot, MultiType
    <2> QED BY <2>2, <2>3, <2>4, <2>5, MatchStep
  <1>5. CASE Matches(m, d.sid) = {} /\ d.op = "HARD_RESET" /\ m.s[a].prim.rsid = NoSid
    <2>1. m2 = IF opt.single /\ m.linked THEN m ELSE Link(m, a, d) BY <1>5 DEF tls_pre_decrypt
    <2>2. m.s[a].prim.st # S_UNDEF BY <1>1 DEF Between, Ready
    <2>3. m.s[a].prim.key = NoKey BY <1>1, <1>5 DEF KsInv
    <2> QED BY <1>2, <1>3, <2>1, <2>2, <2>3
  <1>6. CASE Matches(m, d.sid) = {} /\ d.op = "HARD_RESET" /\ m.s[a].prim.rsid # NoSid
    <2>1. m2 = IF opt.single THEN m ELSE Link(m, u, d) BY <1>6 DEF tls_pre_decrypt
    <2>2. CASE opt.single BY <1>2, <2>1, <2>2
    <2>3. CASE ~ opt.single
      <3>1. m.s[u].prim.st >= S_INITIAL BY <2>3 DEF Between, Ready
      <3>2. m.s[u].prim.st # S_UNDEF /\ m.s[u].prim.st # S_ERROR BY <1>1, <3>1
      <3>3. m.s[u].prim.key = NoKey BY <1>1, <3>2 DEF KsInv, Between
      <3> QED BY <1>3, <2>1, <2>3, <3>2, <3>3
    <2> QED BY <2>2, <2>3
  <1> QED
    <2>1. m2 = m \/ (Matches(m, d.sid) # {} /\ Matches(m, d.sid) # {"TM_LAME_DUCK"})
          \/ (Matches(m, d.sid) = {} /\ d.op = "HARD_RESET")
      BY DEF tls_pre_decrypt
    <2> QED BY <1>2, <1>4, <1>5, <1>6, <2>1

-----------------------------------------------------------------------------
(* The start, and a restart.                                               *)

\* A tls_multi before tls_multi_init.
Cleared(p, nsid) ==
  [s |-> [i \in TM |-> NoSession], nsid |-> nsid, linked |-> FALSE, actual |-> (p = TlsClient), hard |-> FALSE]

\* A tls_multi before tls_multi_init, at an end that has had session ids below nsid.
LEMMA ClearedOK ==
  ASSUME NEW F, NEW B, NEW p, NEW nsid \in Nat, nsid # 0,
         \A b \in B[p] : b[1].sid # NoSid /\ b[1].sid < nsid,
         \A f \in F[p] : f[1].sid # NoSid /\ f[1].sid < nsid,
         \A f \in F[OtherEnd(p)] : f[2].sid # NoSid /\ f[2].sid < nsid
  PROVE  MOK(F, B, p, Cleared(p, nsid))
  <1> DEFINE m == Cleared(p, nsid)
             a == p = TlsClient
  <1>1. SOK(F, B, p, NoSession) /\ NoSession.sid = NoSid /\ NoSession \in SessionType BY NoSessionOK DEF SOK
  <1>2. a \in BOOLEAN OBVIOUS
  <1>3. m = [s |-> [i \in TM |-> NoSession], nsid |-> nsid, linked |-> FALSE, actual |-> a, hard |-> FALSE]
    BY DEF Cleared
  <1> HIDE DEF a, m
  <1>4. m \in MultiType /\ m.nsid = nsid /\ \A i \in TM : m.s[i] = NoSession
    BY <1>1, <1>2, <1>3 DEF MultiType
  <1>5. \A i \in TM : SOK(F, B, p, m.s[i]) /\ m.s[i].sid < m.nsid BY <1>1, <1>4
  <1>6. \A G : G.sid # NoSid /\ G.sid < nsid => Used(m, G) BY <1>1, <1>4 DEF Used
  <1>7. \A i, j \in TM : i # j /\ m.s[i].sid = m.s[j].sid => m.s[i].sid = NoSid BY <1>1, <1>4
  <1> QED BY <1>4, <1>5, <1>6, <1>7 DEF MOK, m

\* A tls_multi that was just initialized is sound.
Started(F, B, p, mq, D, m2) ==
  /\ \E B2 : World(F, B2, p, m2, mq, D) /\ Wider(F, B, F, B2)
  /\ Between(p, opt.single, m2) /\ ~ m2.linked

\* tls_multi_init creates one or two sessions,
LEMMA MultiInitStep ==
  ASSUME NEW F, NEW B, NEW p, p \in TlsPeer, NEW mq, NEW D, NEW nsid \in Nat, nsid # 0,
         World(F, B, p, Cleared(p, nsid), mq, D), NEW m2, m2 = tls_multi_init(p, nsid)
  PROVE  Started(F, B, p, mq, D, m2)
  <1> DEFINE m == Cleared(p, nsid)
             a == "TM_ACTIVE"
             u == "TM_UNTRUSTED"
             m1 == move_session(m, a, a)
             m3 == move_session(m1, u, u)
  <1>0. a \in TM /\ u \in TM /\ a # u BY DEF TM
  <1>1. m \in MultiType /\ m.nsid # 0 BY DEF World, MOK
  <1>2. m.s[u] = NoSession /\ ~ m.linked /\ m.nsid = nsid BY <1>0 DEF Cleared
  <1>3. m1 = tls_session_init(m, a) BY <1>0, <1>1, InitIsMove
  <1>4. m1 = move_session(m, a, a) /\ m3 = move_session(m1, u, u) OBVIOUS
  <1>5. m2 = IF opt.single THEN m1 ELSE tls_session_init(m1, u) BY <1>3 DEF tls_multi_init, Cleared
  <1> HIDE DEF m, m1, m3, a, u
  <1>6. /\ m1 \in MultiType /\ m1.nsid = m.nsid + 1 /\ m1.linked = m.linked
        /\ m1.s[u] = m.s[u] /\ m1.s[a].prim.st = S_INITIAL
    BY <1>0, <1>1, <1>4, MoveSlots
  <1>7. PICK B2 : World(F, B2, p, m1, mq, D) /\ Wider(F, B, F, B2)
    BY <1>0, <1>4, MoveStep DEF m
  <1>8. m1.nsid # 0 BY <1>2, <1>6
  <1>9. CASE opt.single
    <2>1. m2 = m1 BY <1>5, <1>9
    <2>2. m1.s[u].prim.st = S_UNDEF BY <1>2, <1>6, NoSessionOK, NoKeyStateOK
    <2>3. Between(p, opt.single, m1) BY <1>6, <1>9, <2>2 DEF Between, Ready, DECRYPT_KEY_ENABLED, a, u
    <2> QED BY <1>2, <1>6, <1>7, <2>1, <2>3 DEF Started
  <1>10. CASE ~ opt.single
    <2>1. m2 = m3 BY <1>0, <1>4, <1>5, <1>6, <1>10, InitIsMove
    <2>2. m3.linked = m1.linked /\ m3.s[u].prim.st = S_INITIAL /\ m3.s[a] = m1.s[a]
      BY <1>0, <1>4, <1>6, <1>8, MoveSlots
    <2>3. PICK B3 : World(F, B3, p, m3, mq, D) /\ Wider(F, B2, F, B3)
      BY <1>0, <1>4, <1>7, MoveStep
    <2>4. Wider(F, B, F, B3) BY <1>7, <2>3 DEF Wider
    <2>5. Between(p, opt.single, m3) BY <1>6, <1>10, <2>2 DEF Between, Ready, DECRYPT_KEY_ENABLED, a, u
    <2> QED BY <1>2, <1>6, <2>1, <2>2, <2>3, <2>4, <2>5 DEF Started
  <1> QED BY <1>9, <1>10

\* The invariant, seen from the other end.
LEMMA Swap ==
  ASSUME NEW F, NEW B, NEW p, p \in TlsPeer, NEW m, NEW mq, NEW D, World(F, B, p, m, mq, D)
  PROVE  World(F, B, OtherEnd(p), mq, m, D)
  BY Ends2 DEF World

\* and so does a restart.
LEMMA RestartStep ==
  ASSUME NEW F, NEW B, NEW p, p \in TlsPeer, NEW m, NEW mq, NEW D, World(F, B, p, m, mq, D),
         NEW m2, m2 = tls_multi_init(p, m.nsid)
  PROVE  Started(F, B, p, mq, D, m2)
  <1>1. MOK(F, B, p, m) /\ m.nsid \in Nat /\ m.nsid # 0 BY DEF World, MOK, MultiType
  <1>2. /\ \A b \in B[p] : b[1].sid # NoSid /\ b[1].sid < m.nsid
        /\ \A f \in F[p] : f[1].sid # NoSid /\ f[1].sid < m.nsid
        /\ \A f \in F[OtherEnd(p)] : f[2].sid # NoSid /\ f[2].sid < m.nsid
    BY <1>1 DEF MOK, Used
  <1>3. MOK(F, B, p, Cleared(p, m.nsid)) BY <1>1, <1>2, ClearedOK
  <1>4. World(F, B, p, Cleared(p, m.nsid), mq, D) BY <1>3 DEF World
  <1> QED BY <1>1, <1>4, MultiInitStep

-----------------------------------------------------------------------------
(* The inductive invariant.                                                *)

\* The inductive invariant: between two calls both ends are sound, for some history
\* F of TLS peers and B of created key states.
TlsInv ==
  /\ multi \in [TlsPeer -> MultiType]
  /\ \A p \in TlsPeer : Between(p, opt.single, multi[p])
  /\ \E F, B : World(F, B, TlsClient, multi[TlsClient], multi[TlsServer], delayed)

\* The invariant, seen from either end.
LEMMA BothWorlds ==
  ASSUME TlsInv, NEW p \in TlsPeer
  PROVE  \E F, B : World(F, B, p, multi[p], multi[OtherEnd(p)], delayed)
  <1>1. PICK F, B : World(F, B, TlsClient, multi[TlsClient], multi[TlsServer], delayed) BY DEF TlsInv
  <1>2. OtherEnd(TlsClient) = TlsServer /\ TlsClient \in TlsPeer BY DEF OtherEnd, TlsPeer
  <1>3. World(F, B, TlsServer, multi[TlsServer], multi[TlsClient], delayed) BY <1>1, <1>2, Swap
  <1> QED BY <1>1, <1>3, Ends2 DEF OtherEnd

\* The invariant holds initially, with no facts and the key states just made.
LEMMA TlsInitInv == TlsInit => TlsInv
  <1> SUFFICES ASSUME TlsInit PROVE TlsInv OBVIOUS
  <1> DEFINE E == [x \in TlsPeer |-> {}]
             c == TlsClient
             s == TlsServer
             one == 1
             mc == tls_multi_init(c, one)
             ms == tls_multi_init(s, one)
  <1>0. c \in TlsPeer /\ s \in TlsPeer /\ OtherEnd(c) = s /\ OtherEnd(s) = c /\ one \in Nat /\ one # 0
    BY Ends2 DEF OtherEnd
  <1>1. E[c] = {} /\ E[s] = {} /\ GOK(E, E) BY <1>0 DEF GOK, NoCross
  <1>2. multi = [x \in TlsPeer |-> tls_multi_init(x, one)] /\ delayed = {} BY DEF TlsInit
  <1>3. mc = tls_multi_init(c, one) /\ ms = tls_multi_init(s, one) OBVIOUS
  <1> HIDE DEF E, mc, ms, one, c, s
  <1>4. MOK(E, E, c, Cleared(c, one)) /\ MOK(E, E, s, Cleared(s, one)) BY <1>0, <1>1, ClearedOK
  <1>5. World(E, E, c, Cleared(c, one), Cleared(s, one), {}) BY <1>0, <1>1, <1>4 DEF World
  <1>6. Started(E, E, c, Cleared(s, one), {}, mc) BY <1>0, <1>3, <1>5, MultiInitStep
  <1>7. PICK B2 : World(E, B2, c, mc, Cleared(s, one), {}) BY <1>6 DEF Started
  <1>8. World(E, B2, s, Cleared(s, one), mc, {}) BY <1>0, <1>7, Swap
  <1>9. Started(E, B2, s, mc, {}, ms) BY <1>0, <1>3, <1>8, MultiInitStep
  <1>10. PICK B3 : World(E, B3, s, ms, mc, {}) BY <1>9 DEF Started
  <1>11. World(E, B3, c, mc, ms, {}) BY <1>0, <1>10, Swap
  <1>12. multi[c] = mc /\ multi[s] = ms BY <1>0, <1>2, <1>3
  <1>13. mc \in MultiType /\ ms \in MultiType BY <1>11 DEF World, MOK
  <1>14. \A x \in TlsPeer : x = c \/ x = s BY Ends2 DEF c, s
  <1>15. multi \in [TlsPeer -> MultiType] BY <1>2, <1>12, <1>13, <1>14
  <1>16. \A p \in TlsPeer : Between(p, opt.single, multi[p])
    BY <1>6, <1>9, <1>12, <1>14 DEF Started
  <1> QED BY <1>2, <1>11, <1>12, <1>15, <1>16 DEF TlsInv, c, s

\* What SingleSessionKept says of one end.
KeptEnd(p) == opt.single /\ multi[p].linked /\ multi'[p].linked
              => multi'[p].s["TM_ACTIVE"].prim.rsid \in {multi[p].s["TM_ACTIVE"].prim.rsid, NoSid}

\* The invariant in the next state, from what is known of it at one end.
LEMMA NextInv ==
  ASSUME NEW p \in TlsPeer, opt' = opt, NEW F, NEW B, multi' \in [TlsPeer -> MultiType],
         World(F, B, p, multi'[p], multi'[OtherEnd(p)], delayed'),
         Between(p, opt.single, multi'[p]), Between(OtherEnd(p), opt.single, multi'[OtherEnd(p)])
  PROVE  TlsInv'
  <1>1. \A x \in TlsPeer : x = p \/ x = OtherEnd(p) BY Ends2
  <1>2. \A x \in TlsPeer : Between(x, opt'.single, multi'[x]) BY <1>1
  <1>3. World(F, B, TlsClient, multi'[TlsClient], multi'[TlsServer], delayed')
    <2>1. CASE p = TlsClient BY <2>1 DEF OtherEnd
    <2>2. CASE p = TlsServer
      <3>1. OtherEnd(p) = TlsClient BY <2>2, Ends2
      <3> QED BY <2>2, <3>1, Swap
    <2> QED BY <2>1, <2>2, Ends2
  <1> QED BY <1>2, <1>3 DEF TlsInv

\* A delayed datagram arrives,
LEMMA ArriveInv ==
  ASSUME TlsInv, NEW d \in delayed, Arrive(d)
  PROVE  TlsInv' /\ \A p \in TlsPeer : KeptEnd(p)
  <1> DEFINE q == OtherEnd(d.from)
             f == d.from
             m2 == tls_pre_decrypt(q, multi[q], d)
  <1>1. f \in TlsPeer BY DEF TlsInv, World, DOK, DatagramType
  <1>2. q \in TlsPeer /\ OtherEnd(q) = f /\ q # f BY <1>1, Ends2
  <1>3. multi' = [multi EXCEPT ![q] = m2] /\ delayed' = delayed \ {d} /\ opt' = opt BY DEF Arrive
  <1>4. m2 = tls_pre_decrypt(q, multi[q], d) OBVIOUS
  <1> HIDE DEF m2, q, f
  <1>5. PICK F, B : World(F, B, q, multi[q], multi[f], delayed) BY <1>2, BothWorlds
  <1>6. DOK(F, B, d) /\ d.from = OtherEnd(q) BY <1>2, <1>5 DEF World, f
  <1>7. Between(q, opt.single, multi[q]) /\ Between(f, opt.single, multi[f]) BY <1>1, <1>2 DEF TlsInv
  <1>8. Received(F, B, q, multi[q], multi[f], delayed, opt.single, m2)
    BY <1>2, <1>4, <1>5, <1>6, <1>7, DecryptStep
  <1>9. PICK B2 : World(F, B2, q, m2, multi[f], delayed) BY <1>8 DEF Received
  <1>10. World(F, B2, q, m2, multi[f], delayed') BY <1>3, <1>9 DEF World
  <1>11. \A x \in TlsPeer : x = q \/ x = f BY <1>1, <1>2, Ends2
  <1>12. multi \in [TlsPeer -> MultiType] BY DEF TlsInv
  <1>16. multi'[q] = m2 /\ multi'[f] = multi[f] BY <1>1, <1>2, <1>3, <1>12
  <1>13. multi' \in [TlsPeer -> MultiType]
    <2>1. m2 \in MultiType BY <1>9 DEF World, MOK
    <2> QED BY <1>3, <1>12, <2>1
  <1>14. Between(q, opt.single, m2) BY <1>8 DEF Received
  <1>15. TlsInv' BY <1>2, <1>3, <1>7, <1>10, <1>13, <1>14, <1>16, NextInv
  <1>17. KeptEnd(q) BY <1>8, <1>16 DEF KeptEnd, Received
  <1>18. KeptEnd(f) BY <1>16 DEF KeptEnd
  <1> QED BY <1>11, <1>15, <1>17, <1>18

\* an end restarts,
LEMMA RestartInv ==
  ASSUME TlsInv, NEW p \in TlsPeer, Restart(p)
  PROVE  TlsInv' /\ \A x \in TlsPeer : KeptEnd(x)
  <1> DEFINE q == OtherEnd(p)
             m2 == tls_multi_init(p, multi[p].nsid)
  <1>1. q \in TlsPeer /\ q # p /\ OtherEnd(q) = p /\ \A x \in TlsPeer : x = p \/ x = q BY Ends2
  <1>2. multi' = [multi EXCEPT ![p] = m2] /\ delayed' = delayed /\ opt' = opt BY DEF Restart
  <1>3. m2 = tls_multi_init(p, multi[p].nsid) OBVIOUS
  <1> HIDE DEF m2
  <1>4. PICK F, B : World(F, B, p, multi[p], multi[q], delayed) BY BothWorlds
  <1> HIDE DEF q
  <1>5. Started(F, B, p, multi[q], delayed, m2) BY <1>3, <1>4, RestartStep
  <1>6. PICK B2 : World(F, B2, p, m2, multi[q], delayed') BY <1>2, <1>5 DEF Started
  <1>7. Between(p, opt.single, m2) /\ ~ m2.linked BY <1>5 DEF Started
  <1>8. multi \in [TlsPeer -> MultiType] /\ Between(q, opt.single, multi[q]) BY <1>1 DEF TlsInv
  <1>9. multi' \in [TlsPeer -> MultiType]
    <2>1. m2 \in MultiType BY <1>6 DEF World, MOK
    <2> QED BY <1>2, <1>8, <2>1
  <1>11. multi'[p] = m2 /\ multi'[q] = multi[q] BY <1>1, <1>2, <1>8
  <1>10. TlsInv' BY <1>2, <1>6, <1>7, <1>8, <1>9, <1>11, NextInv DEF q
  <1>12. KeptEnd(p) /\ KeptEnd(q) BY <1>7, <1>11 DEF KeptEnd
  <1> QED BY <1>1, <1>10, <1>12

\* or it runs tls_multi_process and its datagram is lost, delayed or received.
LEMMA ProcessInv ==
  ASSUME TlsInv, NEW p \in TlsPeer, NEW r \in tls_multi_process(p), Process(p, r)
  PROVE  TlsInv' /\ \A x \in TlsPeer : KeptEnd(x)
  <1> DEFINE q == OtherEnd(p)
             mq == tls_pre_decrypt(q, multi[q], r.out)
  <1>1. q \in TlsPeer /\ q # p /\ OtherEnd(q) = p /\ \A x \in TlsPeer : x = p \/ x = q BY Ends2
  <1>2. multi \in [TlsPeer -> MultiType] /\ Between(p, opt.single, multi[p]) /\ Between(q, opt.single, multi[q])
    BY <1>1 DEF TlsInv
  <1>3. PICK F0, B0 : World(F0, B0, p, multi[p], multi[q], delayed) BY BothWorlds
  <1>4. Sound(p, multi[q], delayed, r) /\ Between(p, opt.single, r.m) /\ Kept(opt.single, multi[p], r.m)
    <2> HIDE DEF q
    <2> QED BY <1>2, <1>3, ProcessStep
  <1>5. PICK F, B : /\ World(F, B, p, r.m, multi[q], delayed)
                    /\ r.out # NoDatagram => DOK(F, B, r.out) /\ r.out.from = p
    BY <1>4 DEF Sound
  <1>6. r.m \in MultiType BY <1>5 DEF World, MOK
  <1>7. opt' = opt BY DEF Process
  <1>8. mq = tls_pre_decrypt(q, multi[q], r.out) OBVIOUS
  <1>9. /\ \/ multi' = [multi EXCEPT ![p] = r.m]
           \/ r.out # NoDatagram /\ multi' = [multi EXCEPT ![p] = r.m, ![q] = mq]
        /\ delayed' = delayed \/ (r.out # NoDatagram /\ delayed' = delayed \cup {r.out})
    BY DEF Process, TlsTransmit
  <1> HIDE DEF mq
  <1>10. \A x \in delayed' : x \in delayed \/ (r.out # NoDatagram /\ x = r.out) BY <1>9
  <1> HIDE DEF q
  <1>11. World(F, B, p, r.m, multi[q], delayed') BY <1>5, <1>10 DEF World
  <1>12. CASE multi' = [multi EXCEPT ![p] = r.m]
    <2>1. multi'[p] = r.m /\ multi'[q] = multi[q] /\ multi' \in [TlsPeer -> MultiType]
      BY <1>1, <1>2, <1>6, <1>12
    <2>2. TlsInv' BY <1>2, <1>4, <1>7, <1>11, <2>1, NextInv DEF q
    <2>3. KeptEnd(p) /\ KeptEnd(q) BY <1>4, <2>1 DEF KeptEnd, Kept
    <2> QED BY <1>1, <2>2, <2>3
  <1>13. CASE r.out # NoDatagram /\ multi' = [multi EXCEPT ![p] = r.m, ![q] = mq]
    <2>1. World(F, B, q, multi[q], r.m, delayed') BY <1>11, Swap DEF q
    <2>2. DOK(F, B, r.out) /\ r.out.from = OtherEnd(q) BY <1>1, <1>5, <1>13
    <2>3. Received(F, B, q, multi[q], r.m, delayed', opt.single, mq)
      BY <1>1, <1>2, <1>8, <2>1, <2>2, DecryptStep
    <2>4. PICK B2 : World(F, B2, q, mq, r.m, delayed') BY <2>3 DEF Received
    <2>5. Between(q, opt.single, mq) BY <2>3 DEF Received
    <2>6. mq \in MultiType BY <2>4 DEF World, MOK
    <2>7. multi'[p] = r.m /\ multi'[q] = mq /\ multi' \in [TlsPeer -> MultiType]
      BY <1>1, <1>2, <1>6, <1>13, <2>6
    <2>8. TlsInv' BY <1>1, <1>4, <1>7, <2>4, <2>5, <2>7, NextInv
    <2>9. KeptEnd(p) BY <1>4, <2>7 DEF KeptEnd, Kept
    <2>10. KeptEnd(q) BY <2>3, <2>7 DEF KeptEnd, Received
    <2> QED BY <1>1, <2>8, <2>9, <2>10
  <1> QED BY <1>9, <1>12, <1>13

\* Every step keeps the invariant, and with --single-session the remote end.
LEMMA TlsNextInv ==
  ASSUME TlsInv, TlsNext
  PROVE  TlsInv' /\ \A p \in TlsPeer : KeptEnd(p)
  BY ArriveInv, RestartInv, ProcessInv DEF TlsNext

\* So does a step that changes nothing.
LEMMA TlsStutter ==
  ASSUME TlsInv, UNCHANGED tlsVars
  PROVE  TlsInv'
  BY DEF tlsVars, TlsInv

\* The invariant holds in every reachable state.
THEOREM TlsInvariant == TlsSpec => []TlsInv
  <1>1. TlsInv /\ [TlsNext]_tlsVars => TlsInv' BY TlsNextInv, TlsStutter
  <1> QED BY <1>1, TlsInitInv, PTL DEF TlsSpec

\* With --single-session the active session of an end never gets another remote
\* end (tls_pre_decrypt accepts no hard reset of an unknown session once linked),
\* whatever fails, until it restarts.
THEOREM SingleSessionCorrect == TlsSpec => SingleSessionKept
  <1>1. TlsInv /\ [TlsNext]_tlsVars
          => [\A p \in TlsPeer :
               /\ opt.single /\ multi[p].linked /\ multi'[p].linked
               => multi'[p].s["TM_ACTIVE"].prim.rsid \in {multi[p].s["TM_ACTIVE"].prim.rsid, NoSid}]_tlsVars
    BY TlsNextInv DEF KeptEnd
  <1> QED BY <1>1, TlsInvariant, PTL DEF TlsSpec, SingleSessionKept

-----------------------------------------------------------------------------
(* What the invariant gives.                                               *)

\* The sessions of either end are sound,
LEMMA EndsOK ==
  ASSUME TlsInv, NEW p \in TlsPeer
  PROVE  \E F, B : \A i \in TM : SOK(F, B, p, multi[p].s[i])
  BY BothWorlds DEF World, MOK

\* and so are their key states.
LEMMA SoundKey ==
  ASSUME TlsInv, NEW p \in TlsPeer, NEW i \in TM, NEW ks, ks \in {multi[p].s[i].prim, multi[p].s[i].lame}
  PROVE  ks \in KeyStateType /\ KsInv(p, ks)
  BY EndsOK DEF SOK, KOK

\* tls_pre_encrypt uses one of the keys that can be used.
LEMMA PreEncryptKey ==
  ASSUME TlsInv, NEW p \in TlsPeer, SendKeys(p) # {}
  PROVE  \E k \in SendKeys(p) : tls_pre_encrypt(p) = key_scan(multi[p])[k]
  <1>1. \E k \in SendKeys(p) : \A j \in SendKeys(p) : k <= j
    <2>1. CASE 1 \in SendKeys(p) BY <2>1 DEF SendKeys
    <2>2. CASE 1 \notin SendKeys(p) /\ 2 \in SendKeys(p) BY <2>2 DEF SendKeys
    <2>3. CASE 1 \notin SendKeys(p) /\ 2 \notin SendKeys(p)
      <3>1. \A j \in SendKeys(p) : j = 3 BY <2>3 DEF SendKeys
      <3> QED BY <3>1
    <2> QED BY <2>1, <2>2, <2>3
  <1> QED BY <1>1 DEF tls_pre_encrypt

\* And it has data channel keys.
LEMMA SendKeyReadyInv ==
  ASSUME TlsInv PROVE SendKeyReady
  <1> SUFFICES ASSUME NEW p \in TlsPeer, tls_pre_encrypt(p).st >= S_ACTIVE
               PROVE  tls_pre_encrypt(p).key # NoKey
    BY DEF SendKeyReady
  <1>1. CASE SendKeys(p) = {}
    BY <1>1 DEF tls_pre_encrypt, NoKeyState, KeyState
  <1>2. CASE SendKeys(p) # {}
    <2>1. PICK k \in SendKeys(p) : tls_pre_encrypt(p) = key_scan(multi[p])[k] BY <1>2, PreEncryptKey
    <2> DEFINE ks == key_scan(multi[p])[k]
    <2>2. k \in 1 .. 3 /\ ks.st >= S_ACTIVE /\ ks.auth BY <2>1 DEF SendKeys
    <2>3. ks \in {multi[p].s["TM_ACTIVE"].prim, multi[p].s["TM_ACTIVE"].lame, multi[p].s["TM_LAME_DUCK"].lame}
      BY <2>2 DEF key_scan
    <2> HIDE DEF ks
    <2>4. ks \in KeyStateType /\ KsInv(p, ks) BY <2>3, SoundKey, Slots
    <2>5. ks.st \in -1 .. 7 BY <2>4 DEF KeyStateType
    <2>6. ks.st >= S_GOT_KEY /\ ks.st >= S_SENT_KEY /\ ks.st # S_GOT_KEY BY <2>2, <2>5
    <2>7. ks.key # NoKey BY <2>2, <2>4, <2>6, Ends2 DEF KsInv
    <2> QED BY <2>1, <2>7 DEF ks
  <1> QED BY <1>1, <1>2

\* The invariant implies KeysSound.
LEMMA KeysSoundInv ==
  ASSUME TlsInv PROVE KeysSound
  <1>1. TlsTypeOK
    BY SoundKey DEF TlsTypeOK, TlsInv, Between, Ready
  <1>2. KeyIdsDistinct
    <2> SUFFICES ASSUME NEW p \in TlsPeer, NEW i \in TM, multi[p].s[i].lame.st >= S_INITIAL
                 PROVE  multi[p].s[i].prim.kid # multi[p].s[i].lame.kid
      BY DEF KeyIdsDistinct
    <2>0. multi[p].s[i].lame \in KeyStateType BY SoundKey
    <2>1. multi[p].s[i].lame.kid \in 0 .. KeyIdLimit - 1 /\ multi[p].s[i].lame.st # S_UNDEF
      BY <2>0 DEF KeyStateType
    <2>2. Chain(multi[p].s[i]) BY EndsOK DEF SOK
    <2> QED BY <2>1, <2>2, NextKeyIdLemma DEF Chain
  <1>3. KeyIdZeroFirst
    <2> SUFFICES ASSUME NEW p \in TlsPeer, NEW i \in TM, NEW ks \in {multi[p].s[i].prim, multi[p].s[i].lame},
                        ks.st >= S_INITIAL
                 PROVE  ks.kid = 0 <=> ks.gen.n = 0
      BY DEF KeyIdZeroFirst
    <2>1. ks \in KeyStateType /\ KsInv(p, ks) BY SoundKey
    <2> QED BY <2>1 DEF KsInv, KeyStateType
  <1> QED BY <1>1, <1>2, <1>3, SendKeyReadyInv DEF KeysSound

\* Data is only sent with keys that were made, key ids tell a session's two keys
\* apart though they are recycled, only a session's first key has id 0, and no
\* session is left in S_UNDEF or S_ERROR between calls: for every number of key ids
\* above 2, of sessions, renegotiations and delayed datagrams.
THEOREM KeysSoundCorrect == TlsSpec => []KeysSound
  <1>1. TlsInv => KeysSound BY KeysSoundInv
  <1> QED BY <1>1, TlsInvariant, PTL

\* The two key states of session i, and a key state that the end that has m created.
KeyStates(m, i) == {m.s[i].prim, m.s[i].lame}
Created(B, p, m, ks, G) == G \in Gen /\ Used(m, G) /\ G.sid = ks.gen.sid /\ <<G, ks.kid>> \in B[p]

\* No later key state of a session that its end has created has the key id of
\* one of the session's two key states: the ids of the two differ, and the
\* primary one is the last.
LEMMA Newest ==
  ASSUME NEW F, NEW B, NEW p, p \in TlsPeer, NEW m, MOK(F, B, p, m), GOK(F, B),
         NEW i, i \in TM, NEW ks, ks \in KeyStates(m, i), ks.st # S_UNDEF,
         NEW G, Created(B, p, m, ks, G)
  PROVE  ~ (ks.gen.n < G.n)
  <1> DEFINE s == m.s[i]
  <1> USE DEF KeyStates, Created
  <1>1. s \in SessionType /\ KOK(F, B, p, s.prim) /\ KOK(F, B, p, s.lame) /\ Chain(s)
    BY DEF MOK, SOK
  <1>2. s.prim \in KeyStateType /\ s.lame \in KeyStateType BY <1>1 DEF KOK
  <1>3. s.sid = ks.gen.sid /\ s.prim.st # S_UNDEF BY <1>1 DEF Chain
  <1>4. G.n < s.n BY <1>3 DEF Used
  <1> HIDE DEF s
  <1>5. /\ s.prim.gen \in Gen /\ s.lame.gen \in Gen /\ s.prim.gen.n \in Nat /\ s.lame.gen.n \in Nat /\ G.n \in Nat
        /\ s.lame.kid \in 0 .. KeyIdLimit - 1 /\ s.prim.kid \in 0 .. KeyIdLimit - 1
    BY <1>2 DEF KeyStateType, Gen
  <1>6. s.n = s.prim.gen.n + 1 /\ s.prim.gen.sid = s.sid BY <1>1, <1>3 DEF Chain
  <1>7. CASE ks = s.prim BY <1>4, <1>5, <1>6, <1>7
  <1>8. CASE ks = s.lame
    <2> SUFFICES ASSUME s.lame.gen.n < G.n PROVE FALSE BY <1>8
    <2>1. s.prim.kid = NextKeyId(s.lame.kid) /\ s.prim.gen.n = s.lame.gen.n + 1 BY <1>1, <1>8 DEF Chain
    <2>2. G.n = s.prim.gen.n BY <1>4, <1>5, <1>6, <2>1
    <2>3. G = s.prim.gen BY <1>3, <1>5, <1>6, <2>2 DEF Gen
    <2>4. <<G, s.prim.kid>> \in B[p] BY <1>1, <1>3, <2>3 DEF KOK, KsGhost
    <2>5. <<G, s.lame.kid>> \in B[p] BY <1>8
    <2>6. s.prim.kid = s.lame.kid BY <2>4, <2>5 DEF GOK
    <2> QED BY <1>5, <2>1, <2>6, NextKeyIdLemma
  <1> QED BY <1>7, <1>8 DEF s

\* What is known of a key state that has made its data channel keys.
Keyed(F, B, p, ks) ==
  /\ ks \in KeyStateType /\ ks.st # S_UNDEF /\ ks.key = KeyOf(p, ks)
  /\ <<ks.gen, ks.peer>> \in F[p] /\ <<ks.peer, ks.gen>> \in F[OtherEnd(p)]
  /\ <<ks.peer, ks.kid>> \in B[OtherEnd(p)]
  /\ \A f \in F[p] : f[1] = ks.gen => f[2] = ks.peer

\* A key state with data channel keys has seen the whole handshake.
LEMMA KeyedKey ==
  ASSUME NEW F, NEW B, NEW p, p \in TlsPeer, NEW ks, KOK(F, B, p, ks), ks.key # NoKey,
         NEW mq, MOK(F, B, OtherEnd(p), mq)
  PROVE  Keyed(F, B, p, ks)
  <1>1. ks \in KeyStateType /\ KsInv(p, ks) /\ KsGhost(F, B, p, ks) BY DEF KOK
  <1>2. ks.rnext = 3 /\ ks.key = KeyOf(p, ks) BY <1>1 DEF KsInv
  <1>3. <<ks.peer, ks.gen>> \in F[OtherEnd(p)] BY <1>1, <1>2 DEF KsGhost, Est
  <1>4. ks.peer.sid # NoSid BY <1>3 DEF MOK, Used
  <1>5. ks.peer # NoGen BY <1>4 DEF NoGen
  <1>6. ks.st # S_UNDEF BY <1>1, <1>5 DEF KsInv
  <1> QED BY <1>1, <1>2, <1>3, <1>5, <1>6 DEF KsGhost, Keyed

\* Two key states with each other's session ids and the same key id have each
\* other as TLS peers: otherwise each has another key state as its peer, which by
\* Newest is an earlier one, and the two facts cross.
LEMMA Agreement ==
  ASSUME NEW F, NEW B, NEW mc, NEW ms, GOK(F, B), MOK(F, B, TlsClient, mc), MOK(F, B, TlsServer, ms),
         NEW i, i \in TM, NEW c, c \in KeyStates(mc, i), c.key # NoKey,
         NEW j, j \in TM, NEW s, s \in KeyStates(ms, j), s.key # NoKey,
         mc.s[i].sid = s.rsid, ms.s[j].sid = c.rsid, c.kid = s.kid, c.peer.sid = c.rsid, s.peer.sid = s.rsid
  PROVE  c.key = s.key
  <1>1. OtherEnd(TlsClient) = TlsServer /\ OtherEnd(TlsServer) = TlsClient /\ TlsClient # TlsServer
        /\ TlsClient \in TlsPeer /\ TlsServer \in TlsPeer
    BY Ends2 DEF OtherEnd
  <1>2. KOK(F, B, TlsClient, c) /\ Chain(mc.s[i]) BY DEF MOK, SOK, KeyStates
  <1>3. KOK(F, B, TlsServer, s) /\ Chain(ms.s[j]) BY DEF MOK, SOK, KeyStates
  <1>4. Keyed(F, B, TlsClient, c) BY <1>1, <1>2, KeyedKey
  <1>5. Keyed(F, B, TlsServer, s) BY <1>1, <1>3, KeyedKey
  <1>6. /\ c \in KeyStateType /\ c.st # S_UNDEF /\ c.key = KeyOf(TlsClient, c)
        /\ <<c.gen, c.peer>> \in F[TlsClient] /\ <<c.peer, c.gen>> \in F[TlsServer]
        /\ <<c.peer, c.kid>> \in B[TlsServer]
        /\ \A f \in F[TlsClient] : f[1] = c.gen => f[2] = c.peer
    BY <1>1, <1>4 DEF Keyed
  <1>7. /\ s \in KeyStateType /\ s.st # S_UNDEF /\ s.key = KeyOf(TlsServer, s)
        /\ <<s.gen, s.peer>> \in F[TlsServer] /\ <<s.peer, s.gen>> \in F[TlsClient]
        /\ <<s.peer, s.kid>> \in B[TlsClient]
        /\ \A f \in F[TlsServer] : f[1] = s.gen => f[2] = s.peer
    BY <1>1, <1>5 DEF Keyed
  <1>8. c.gen.sid = mc.s[i].sid /\ s.gen.sid = ms.s[j].sid BY <1>2, <1>3, <1>6, <1>7 DEF Chain, KeyStates
  <1>9. c.gen \in Gen /\ c.peer \in Gen /\ s.gen \in Gen /\ s.peer \in Gen
    BY <1>6, <1>7 DEF KeyStateType, Gen
  <1>10. c.gen = s.peer /\ c.peer = s.gen
    <2>1. CASE c.gen = s.peer BY <1>6, <1>7, <2>1
    <2>2. CASE s.gen = c.peer BY <1>6, <1>7, <2>2
    <2>3. CASE c.gen # s.peer /\ s.gen # c.peer
      <3>1. c.gen.n # s.peer.n /\ s.gen.n # c.peer.n BY <1>8, <1>9, <2>3 DEF Gen
      <3>2. Used(mc, s.peer) /\ Used(ms, c.peer) BY <1>1, <1>6, <1>7 DEF MOK
      <3>3. ~ (c.gen.n < s.peer.n)
        <4> DEFINE G == s.peer
        <4>1. Created(B, TlsClient, mc, c, G) /\ c.st # S_UNDEF BY <1>6, <1>7, <1>8, <1>9, <3>2 DEF Created
        <4> HIDE DEF G
        <4>2. ~ (c.gen.n < G.n) BY <1>1, <4>1, Newest
        <4> QED BY <4>2 DEF G
      <3>4. ~ (s.gen.n < c.peer.n)
        <4> DEFINE G == c.peer
        <4>1. Created(B, TlsServer, ms, s, G) /\ s.st # S_UNDEF BY <1>6, <1>7, <1>8, <1>9, <3>2 DEF Created
        <4> HIDE DEF G
        <4>2. ~ (s.gen.n < G.n) BY <1>1, <4>1, Newest
        <4> QED BY <4>2 DEF G
      <3>5. c.gen.n \in Nat /\ c.peer.n \in Nat /\ s.gen.n \in Nat /\ s.peer.n \in Nat BY <1>9 DEF Gen
      <3>6. s.peer.n < c.gen.n /\ c.peer.n < s.gen.n BY <3>1, <3>3, <3>4, <3>5
      <3>7. ~ (s.peer.n < c.gen.n /\ c.peer.n < s.gen.n)
        <4> DEFINE f == <<s.peer, s.gen>>
                   g == <<c.peer, c.gen>>
        <4>1. f \in F[TlsClient] /\ g \in F[OtherEnd(TlsClient)] BY <1>1, <1>6, <1>7
        <4>2. f[1] = s.peer /\ f[2] = s.gen /\ g[1] = c.peer /\ g[2] = c.gen OBVIOUS
        <4>3. f[1].sid = g[2].sid /\ f[2].sid = g[1].sid BY <1>8
        <4> HIDE DEF f, g
        <4>4. ~ (f[1].n < g[2].n /\ g[1].n < f[2].n) BY <4>1, <4>3 DEF GOK, NoCross
        <4> QED BY <4>2, <4>4
      <3> QED BY <3>6, <3>7
    <2> QED BY <2>1, <2>2, <2>3
  <1> QED BY <1>1, <1>6, <1>7, <1>8, <1>10 DEF KeyOf

\* The invariant implies KeyAgreement.
LEMMA KeyAgreementInv ==
  ASSUME TlsInv PROVE KeyAgreement
  <1> SUFFICES ASSUME NEW c \in Ends(TlsClient), NEW s \in Ends(TlsServer),
                      c.sid = s.ks.rsid, s.sid = c.ks.rsid, c.ks.kid = s.ks.kid,
                      c.ks.peer.sid = c.ks.rsid, s.ks.peer.sid = s.ks.rsid,
                      c.ks.key # NoKey, s.ks.key # NoKey
               PROVE  c.ks.key = s.ks.key
    BY DEF KeyAgreement
  <1> DEFINE a == "TM_ACTIVE"
             mc == multi[TlsClient]
             ms == multi[TlsServer]
  <1>1. c.sid = mc.s[a].sid /\ c.ks \in {mc.s[a].prim, mc.s[a].lame} BY DEF Ends
  <1>2. s.sid = ms.s[a].sid /\ s.ks \in {ms.s[a].prim, ms.s[a].lame} BY DEF Ends
  <1>3. a \in TM BY Slots
  <1>4. OtherEnd(TlsClient) = TlsServer BY DEF OtherEnd
  <1>5. PICK F, B : World(F, B, TlsClient, mc, ms, delayed) BY DEF TlsInv
  <1>6. GOK(F, B) /\ MOK(F, B, TlsClient, mc) /\ MOK(F, B, TlsServer, ms) BY <1>4, <1>5 DEF World
  <1> DEFINE k == c.ks
             l == s.ks
  <1>7. /\ k \in KeyStates(mc, a) /\ l \in KeyStates(ms, a)
        /\ mc.s[a].sid = l.rsid /\ ms.s[a].sid = k.rsid /\ k.kid = l.kid
        /\ k.peer.sid = k.rsid /\ l.peer.sid = l.rsid /\ k.key # NoKey /\ l.key # NoKey
    BY <1>1, <1>2 DEF KeyStates
  <1> HIDE DEF a, mc, ms, k, l
  <1>8. k.key = l.key BY <1>3, <1>6, <1>7, Agreement
  <1> QED BY <1>8 DEF k, l

\* The two ends of a session never hold different data channel keys under the
\* same key id, whatever is lost, delayed, duplicated, restarted or renegotiated at
\* the same time.
THEOREM KeyAgreementCorrect == TlsSpec => []KeyAgreement
  <1>1. TlsInv => KeyAgreement BY KeyAgreementInv
  <1> QED BY <1>1, TlsInvariant, PTL
=============================================================================
