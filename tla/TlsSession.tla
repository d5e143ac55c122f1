----------------------------- MODULE TlsSession -----------------------------
(***************************************************************************)
(* Key negotiation and session management of ssl.c at both ends of one     *)
(* tunnel.  A tls_multi holds three sessions; a session holds the primary  *)
(* key state, which negotiates, and the lame duck, which is retiring.      *)
(*                                                                         *)
(* The TLS library is external: a TLS connection is a hello from each side *)
(* followed by the key exchange message of each side, and a TLS object     *)
(* refuses what was not made for the connection it is part of.  A packet   *)
(* of the control channel is therefore number 0 (the reset), 1 (the hello) *)
(* or 2 (the keys) of its key state.                                       *)
(*                                                                         *)
(* One call of tls_multi_process sends at most one datagram.  It is lost,  *)
(* arrives at once, or is kept by the network to arrive later, and the     *)
(* network may deliver it and keep a copy too.  What is lost is sent again *)
(* when its timer runs out, which may be at any iteration: update_time is  *)
(* called in the loop of tls_process.                                      *)
(***************************************************************************)
EXTENDS Integers, FiniteSets

CONSTANTS
  TlsClient, TlsServer,    \* the two ends; TlsServer has opt.server
  KeyIdLimit,        \* P_KEY_ID_MASK + 1 (8 in the build)
  Scenarios          \* options and bounds, of which a behaviour has one

\* single is --single-session.  The bounds: sessions each end may create, key
\* states of one session, datagrams lost, datagrams the network keeps, and
\* handshake timeouts, TLS failures and restarts together.
Scenario == [single : BOOLEAN, sids : Nat, keys : Nat, losses : Nat, copies : Nat,
             failures : Nat]

ASSUME TlsAssumption ==
  /\ TlsClient # TlsServer
  /\ KeyIdLimit \in Nat /\ KeyIdLimit > 2
  /\ Scenarios \subseteq Scenario

VARIABLES
  multi,     \* struct tls_multi of each end
  delayed,   \* datagrams the network keeps
  losses, copies, failures,
  opt        \* the scenario

tlsVars == <<multi, delayed, losses, copies, failures, opt>>

TlsPeer == {TlsClient, TlsServer}
OtherEnd(p) == IF p = TlsClient THEN TlsServer ELSE TlsClient

S_ERROR     == -1
S_UNDEF     == 0
S_INITIAL   == 1
S_PRE_START == 2
S_START     == 3
S_SENT_KEY  == 4
S_GOT_KEY   == 5
S_ACTIVE    == 6
S_NORMAL    == 7

TM == {"TM_ACTIVE", "TM_UNTRUSTED", "TM_LAME_DUCK"}

NoSid == 0
NoGen == [sid |-> NoSid, n |-> 0]   \* no key state

\* Data channel keys: generate_key_expansion mixes the key sources of the two
\* key states and the session ids this end knows.
DataKey(c, s, csid, ssid) == [c |-> c, s |-> s, csid |-> csid, ssid |-> ssid]
NoKey == DataKey(NoGen, NoGen, NoSid, NoSid)   \* ks->key not initialised

\* The packets of a key state's control channel.
RESET == 0
HELLO == 1
KEYS  == 2

\* struct key_state.  gen identifies the key state (its random key source);
\* made counts the packets put into send_reliable, unacked is what is left
\* there, rnext, rbuf and acks are rec_reliable and rec_ack; peer is the key
\* state at the other end of the TLS connection, plain says that the other's
\* key exchange message is in plaintext_read_buf.
KeyState(st, kid, opc, rsid, gen) ==
  [st |-> st, kid |-> kid, opc |-> opc, rsid |-> rsid, gen |-> gen, auth |-> FALSE,
   key |-> NoKey, made |-> 0, unacked |-> {}, rnext |-> 0, rbuf |-> {}, acks |-> {},
   peer |-> NoGen, plain |-> FALSE]

NoKeyState == KeyState(S_UNDEF, 0, "none", NoSid, NoGen)

\* A cleared struct tls_session.
NoSession == [sid |-> NoSid, kid |-> 0, n |-> 0, opc |-> "none",
              prim |-> NoKeyState, lame |-> NoKeyState]

DECRYPT_KEY_ENABLED(p, ks) == ks.st >= (IF p = TlsServer THEN S_SENT_KEY ELSE S_GOT_KEY)

\* multi->key_scan, in scanning order.
key_scan(m) == <<m.s["TM_ACTIVE"].prim, m.s["TM_ACTIVE"].lame, m.s["TM_LAME_DUCK"].lame>>

-----------------------------------------------------------------------------
(* Creating, retiring and moving sessions and key states.                  *)

\* mutant: the key id recycles one too early, to 0.
NextKeyId_Zero(kid) == (kid + 1) % (KeyIdLimit - 1)

\* mutant: every key after the first gets the id that recycling starts from.
NextKeyId_One(kid) == 1

\* "key_id increments to KEY_ID_MASK then recycles back to 1."
NextKeyId(kid) == LET k == (kid + 1) % KeyIdLimit IN IF k = 0 THEN 1 ELSE k

\* key_state_init on the primary key: the session's first key state opens with
\* a hard reset, every later one with a soft reset.
key_state_init(s) ==
  [s EXCEPT !.prim = KeyState(S_INITIAL, s.kid, s.opc, NoSid, [sid |-> s.sid, n |-> s.n]),
            !.opc = "SOFT_RESET", !.kid = NextKeyId(s.kid), !.n = s.n + 1]

\* tls_session_init draws a new session id.
tls_session_init(m, i) ==
  [m EXCEPT !.s[i] = key_state_init([NoSession EXCEPT !.sid = m.nsid, !.opc = "HARD_RESET"]),
            !.nsid = @ + 1]

\* key_state_soft_reset: the old lame duck is freed, the primary key takes its
\* place and a new one starts, with the same remote end.
key_state_soft_reset(s) ==
  LET t == key_state_init([s EXCEPT !.lame = s.prim])
  IN  [t EXCEPT !.prim.rsid = s.prim.rsid]

move_session(m, dest, src) == tls_session_init([m EXCEPT !.s[dest] = m.s[src]], src)

\* tls_multi_init and tls_multi_init_finalize; the client knows its remote.
\* linked says that n_sessions is not 0, all that is ever asked of it.
tls_multi_init(p, nsid) ==
  LET m == [s |-> [i \in TM |-> NoSession], nsid |-> nsid, linked |-> FALSE,
            actual |-> (p = TlsClient), hard |-> FALSE]
      a == tls_session_init(m, "TM_ACTIVE")
  IN  IF opt.single THEN a ELSE tls_session_init(a, "TM_UNTRUSTED")

\* tls_deauthenticate: no key may carry tunnel data any more.
tls_deauthenticate(m) ==
  [m EXCEPT !.s = [i \in TM |-> [m.s[i] EXCEPT !.prim.auth = FALSE, !.lame.auth = FALSE]]]

-----------------------------------------------------------------------------
(* The loop of tls_process, one operator per section of its body.          *)

\* "Initial handshake": the reset packet goes into the send buffer.
InitialHandshake(ks) ==
  IF ks.st = S_INITIAL
  THEN [ks EXCEPT !.st = S_PRE_START, !.made = 1, !.unacked = {RESET}]
  ELSE ks

\* "Are we timed out on receive?"
NegotiationTimeout(ks) == [ks EXCEPT !.st = IF @ < S_ACTIVE THEN S_ERROR ELSE S_NORMAL]

FULL_SYNC(ks) == ks.unacked = {} /\ ks.acks = {}

\* "Wait for Initial Handshake ACK" and "Wait for ACK".
WaitForAck(p, ks) ==
  IF ~ FULL_SYNC(ks) THEN ks
  ELSE IF ks.st = S_PRE_START THEN [ks EXCEPT !.st = S_START]
  ELSE IF ks.st = (IF p = TlsServer THEN S_SENT_KEY ELSE S_GOT_KEY)
       THEN [ks EXCEPT !.st = S_ACTIVE]
  ELSE ks

\* "Write incoming ciphertext to TLS object" and "Read incoming plaintext":
\* the next packet in sequence.  TLS refuses a server hello that does not
\* answer its own hello and keys that come from another connection.
IncomingCiphertext(p, ks) ==
  IF \A e \in ks.rbuf : e.id # ks.rnext THEN ks
  ELSE LET e   == CHOOSE f \in ks.rbuf : f.id = ks.rnext
           bad == \/ e.id = HELLO /\ p = TlsClient /\ e.peer # ks.gen
                  \/ e.id = KEYS /\ (e.gen # ks.peer \/ e.peer # ks.gen)
       IN  [ks EXCEPT !.rbuf = @ \ {e}, !.rnext = @ + 1,
                      !.peer = IF e.id = HELLO THEN e.gen ELSE @,
                      !.plain = @ \/ e.id = KEYS,
                      !.st = IF bad THEN S_ERROR ELSE @]

\* mutant: the keys are not made.
SendKey_NoKeys(p, ks) ==
  IF ks.st = (IF p = TlsServer THEN S_GOT_KEY ELSE S_START)
  THEN [ks EXCEPT !.st = S_SENT_KEY] ELSE ks

\* "Send Key" with key_method_2_write: the server makes its data channel keys
\* here, if the client passed authentication.
SendKey(p, ks) ==
  IF ks.st = (IF p = TlsServer THEN S_GOT_KEY ELSE S_START)
  THEN [ks EXCEPT !.st = S_SENT_KEY,
                  !.key = IF p = TlsServer /\ ks.auth
                          THEN DataKey(ks.peer, ks.gen, ks.rsid, ks.gen.sid) ELSE @]
  ELSE ks

\* key_method_2_read: verdict is what user/password or client-config-dir
\* verification says, or that the common name changed after it was locked.
\* The client makes its data channel keys here.
key_method_2_read(p, ks, verdict) ==
  [ks EXCEPT !.st = S_GOT_KEY, !.plain = FALSE, !.auth = (verdict # "denied"),
             !.key = IF p = TlsClient THEN DataKey(ks.gen, ks.peer, ks.gen.sid, ks.rsid) ELSE @]

PutKey(m, i, ks) == [m EXCEPT !.s[i].prim = ks]

\* mutant: the client makes its keys for the key state it had before.
ReceiveKey_Stale(p, m, i, verdict) ==
  LET ks == m.s[i].prim
      t  == PutKey(m, i, [key_method_2_read(p, ks, verdict) EXCEPT !.key =
              IF p = TlsClient THEN DataKey(ks.gen, m.s[i].lame.peer, ks.gen.sid, ks.rsid) ELSE @])
  IN  IF ~ (ks.plain /\ ks.st = (IF p = TlsServer THEN S_START ELSE S_SENT_KEY)) THEN m
      ELSE IF verdict = "cn_changed" THEN tls_deauthenticate(t) ELSE t

\* "Receive Key".
ReceiveKey(p, m, i, verdict) ==
  LET ks == m.s[i].prim
      t  == PutKey(m, i, key_method_2_read(p, ks, verdict))
  IN  IF ~ (ks.plain /\ ks.st = (IF p = TlsServer THEN S_START ELSE S_SENT_KEY)) THEN m
      ELSE IF verdict = "cn_changed" THEN tls_deauthenticate(t) ELSE t

\* "Outgoing Ciphertext to reliable buffer", once TLS has something to say.
OutgoingCiphertext(p, ks) ==
  IF \/ ks.made = HELLO /\ ks.st >= S_START /\ (p = TlsClient \/ ks.peer # NoGen)
     \/ ks.made = KEYS /\ ks.st >= S_SENT_KEY /\ ks.peer # NoGen
  THEN [ks EXCEPT !.made = @ + 1, !.unacked = @ \cup {ks.made}]
  ELSE ks

NoDatagram == [op |-> "none"]

\* write_control_auth: the header, all pending acknowledgements, the packet.
Datagram(p, s, id) ==
  LET ks == s.prim
  IN  [op   |-> IF id = RESET THEN ks.opc ELSE IF id = -1 THEN "ACK" ELSE "CONTROL",
       from |-> p, sid |-> s.sid, kid |-> ks.kid, acks |-> ks.acks,
       asid |-> IF ks.acks = {} THEN NoSid ELSE ks.rsid,
       id |-> id, gen |-> ks.gen,
       peer |-> IF id = KEYS \/ (id = HELLO /\ p = TlsServer) THEN ks.peer ELSE NoGen]

\* Anything that fails counts; with no failure left, nothing does.
MayFail == failures < opt.failures

\* What the verification of the other end's key exchange message may say.
Verdicts(p, ks) ==
  IF p = TlsServer /\ ks.plain /\ MayFail THEN {"ok", "denied", "cn_changed"} ELSE {"ok"}

\* A run r of tls_multi_process has the tls_multi, the datagram in to_link (at
\* most one per call), whether the loop goes on, and whether anything failed.
FailRun(r, i, ks) ==
  [r EXCEPT !.m = PutKey(r.m, i, [ks EXCEPT !.st = S_ERROR]), !.go = FALSE, !.fail = TRUE]
FailRuns(r, i, ks) == IF MayFail THEN {FailRun(r, i, ks)} ELSE {}

\* The body of the loop up to "Send or retransmit"; t says that a timeout is met.
FrontHalf(p, ks, t) ==
  LET k == InitialHandshake(ks) IN WaitForAck(p, IF t THEN NegotiationTimeout(k) ELSE k)

\* A packet that is due is sent, which ends the loop.
SendPacket(p, r, i, ks) ==
  {[r EXCEPT !.m = PutKey(r.m, i, [ks EXCEPT !.acks = {}]), !.go = FALSE,
             !.out = Datagram(p, [r.m.s[i] EXCEPT !.prim = ks], id)]
   : id \in IF r.out = NoDatagram THEN ks.unacked ELSE {}}

\* The rest of the body; without a change in any section the loop ends.
BackHalf(p, r, i, ks, verdict) ==
  LET a == ReceiveKey(p, PutKey(r.m, i, SendKey(p, ks)), i, verdict)
      b == PutKey(a, i, OutgoingCiphertext(p, a.s[i].prim))
  IN  [r EXCEPT !.m = b, !.go = (b.s[i].prim # r.m.s[i].prim), !.fail = @ \/ verdict # "ok"]

AfterFront(p, r, i, ks) ==
  LET k == IncomingCiphertext(p, ks)
  IN  SendPacket(p, r, i, ks) \cup IF k.st = S_ERROR THEN FailRuns(r, i, k)
                                   ELSE {BackHalf(p, r, i, k, v) : v \in Verdicts(p, k)}
                                        \cup IF k.peer # ks.peer THEN FailRuns(r, i, k) ELSE {}

\* One iteration of the loop for session i, as the set of its outcomes.
Iteration(p, r, i) ==
  UNION {IF ks.st = S_ERROR THEN FailRuns(r, i, ks) ELSE AfterFront(p, r, i, ks)
         : ks \in {FrontHalf(p, r.m.s[i].prim, t) : t \in BOOLEAN}}

Going(rs) == {r \in rs : r.go}
Iterate(p, rs, i) ==
  IF Going(rs) = {} THEN rs
  ELSE (rs \ Going(rs)) \cup UNION {Iteration(p, r, i) : r \in Going(rs)}
Iterate2(p, rs, i) == Iterate(p, Iterate(p, rs, i), i)

\* "while (true)": eight iterations, more than one call can make.
IterateAll(p, rs, i) == Iterate2(p, Iterate2(p, Iterate2(p, Iterate2(p, rs, i), i), i), i)

\* The soft reset this end decides on, and the expiry of the lame duck.
SelfReset(m, i) ==
  IF m.s[i].prim.st >= S_ACTIVE THEN {m, [m EXCEPT !.s[i] = key_state_soft_reset(@)]} ELSE {m}
LameExpiry(m, i) ==
  IF m.s[i].lame.st >= S_INITIAL THEN {m, [m EXCEPT !.s[i].lame = NoKeyState]} ELSE {m}

\* "Send dedicated ACK".
SendDedicatedAck(p, r, i) ==
  LET s == r.m.s[i]
  IN  IF r.out = NoDatagram /\ s.prim.acks # {} /\ s.prim.st # S_ERROR
      THEN [r EXCEPT !.out = Datagram(p, s, -1), !.m = PutKey(r.m, i, [s.prim EXCEPT !.acks = {}])]
      ELSE r

\* tls_process.  Timers and traffic counters run out at any time.
tls_process(p, r, i) ==
  LET starts == UNION {LameExpiry(m, i) : m \in SelfReset(r.m, i)}
  IN  {SendDedicatedAck(p, x, i) : x \in IterateAll(p, {[r EXCEPT !.m = m, !.go = TRUE] : m \in starts}, i)}

\* An error preserves an unexpired lame duck in TM_LAME_DUCK if there is one,
\* and starts the session afresh.
SessionDone(r, i) ==
  IF r.m.s[i].prim.st # S_ERROR THEN r
  ELSE [r EXCEPT !.error = @ \/ i = "TM_ACTIVE",
                 !.m = IF i = "TM_ACTIVE" /\ r.m.s[i].lame.st >= S_ACTIVE /\ ~ opt.single
                       THEN move_session(r.m, "TM_LAME_DUCK", i)
                       ELSE tls_session_init(r.m, i)]

\* mutant: a failed session is not started afresh.
SessionStep_NoReset(p, r, i) ==
  IF /\ r.m.s[i].prim.st >= S_INITIAL
     /\ \/ r.m.s[i].prim.rsid # NoSid \/ r.m.s[i].prim.st > S_INITIAL
        \/ i = "TM_ACTIVE" /\ r.m.actual
  THEN tls_process(p, r, i) ELSE {r}

\* tls_multi_process for one session, if it has an address to talk to.
SessionStep(p, r, i) ==
  LET ks      == r.m.s[i].prim
      hasAddr == \/ ks.rsid # NoSid \/ ks.st > S_INITIAL
                 \/ i = "TM_ACTIVE" /\ r.m.actual
  IN  IF ks.st >= S_INITIAL /\ hasAddr THEN {SessionDone(x, i) : x \in tls_process(p, r, i)} ELSE {r}

\* The end of tls_multi_process: the lame duck session may expire, an untrusted
\* session that TLS has authenticated usurps the active one, and an error of
\* the active session with no usable key left is a hard one.  actual is the
\* address link_socket_set_outgoing_addr records at S_ACTIVE.
LameSessionExpiry(m) ==
  IF m.s["TM_LAME_DUCK"].lame.st >= S_INITIAL
  THEN {m, [m EXCEPT !.s["TM_LAME_DUCK"] = NoSession]} ELSE {m}
Promote(p, m) ==
  IF DECRYPT_KEY_ENABLED(p, m.s["TM_UNTRUSTED"].prim)
  THEN move_session(m, "TM_ACTIVE", "TM_UNTRUSTED") ELSE m
HardError(m, error) ==
  [m EXCEPT !.hard = @ \/ (error /\ \A k \in 1 .. 3 : key_scan(m)[k].st < S_ACTIVE),
            !.actual = @ \/ m.s["TM_ACTIVE"].prim.st >= S_ACTIVE]
Finish(p, r) == {[r EXCEPT !.m = HardError(Promote(p, m), r.error)] : m \in LameSessionExpiry(r.m)}

tls_multi_process(p) ==
  LET start == [m |-> multi[p], out |-> NoDatagram, go |-> FALSE, fail |-> FALSE, error |-> FALSE]
  IN  UNION {Finish(p, y) : y \in UNION {SessionStep(p, x, "TM_UNTRUSTED")
                                         : x \in SessionStep(p, start, "TM_ACTIVE")}}

-----------------------------------------------------------------------------
(* tls_pre_decrypt, the control channel part.                              *)

\* The session whose primary key state has the sender's session id.
Matches(m, sid) == {i \in TM : m.s[i].prim.rsid = sid}

\* mutant: a replay is not acknowledged again.
ToReliable_NoReack(s, d) ==
  LET ks  == s.prim
      new == d.id >= ks.rnext /\ \A e \in ks.rbuf : e.id # d.id
      rcv == [ks EXCEPT !.unacked = @ \ d.acks]
  IN  IF d.kid # ks.kid \/ (d.acks # {} /\ d.asid # s.sid) THEN s
      ELSE [s EXCEPT !.prim =
             IF d.op = "ACK" \/ ~ new THEN rcv
             ELSE [rcv EXCEPT !.acks = @ \cup {d.id},
                              !.rbuf = @ \cup {[id |-> d.id, gen |-> d.gen, peer |-> d.peer]}]]

\* Acknowledgements and payload reach the reliability layer, if the key ids
\* agree and the acknowledgements are for this session.
ToReliable(s, d) ==
  LET ks  == s.prim
      new == d.id >= ks.rnext /\ \A e \in ks.rbuf : e.id # d.id
      rcv == [ks EXCEPT !.unacked = @ \ d.acks]
  IN  IF d.kid # ks.kid \/ (d.acks # {} /\ d.asid # s.sid) THEN s
      ELSE [s EXCEPT !.prim =
             IF d.op = "ACK" THEN rcv
             ELSE [rcv EXCEPT !.acks = @ \cup {d.id},
                              !.rbuf = IF new THEN @ \cup {[id |-> d.id, gen |-> d.gen,
                                                            peer |-> d.peer]} ELSE @]]

\* mutant: --single-session forgets that it was connected before.
tls_pre_decrypt_Reconnect(p, m, d) ==
  LET a == m.s["TM_ACTIVE"].prim
  IN  IF a.rsid = d.sid \/ (a.rsid = NoSid /\ d.op = "HARD_RESET")
      THEN [m EXCEPT !.s["TM_ACTIVE"] = ToReliable([@ EXCEPT !.prim.rsid = d.sid], d),
                     !.linked = TRUE]
      ELSE m

\* The session gets the sender as its remote end.
Link(m, i, d) ==
  [m EXCEPT !.s[i] = ToReliable([@ EXCEPT !.prim.rsid = d.sid], d), !.linked = TRUE]

\* A hard reset of an unknown session opens a new one: in TM_ACTIVE while that
\* has no remote end, else in TM_UNTRUSTED.  A soft reset is honoured before
\* its key id is looked at.
tls_pre_decrypt(p, m, d) ==
  LET i    == IF "TM_ACTIVE" \in Matches(m, d.sid) THEN "TM_ACTIVE" ELSE "TM_UNTRUSTED"
      soft == d.op = "SOFT_RESET" /\ DECRYPT_KEY_ENABLED(p, m.s[i].prim)
  IN  IF Matches(m, d.sid) = {"TM_LAME_DUCK"} THEN m
      ELSE IF Matches(m, d.sid) # {}
      THEN [m EXCEPT !.s[i] = ToReliable(IF soft THEN key_state_soft_reset(@) ELSE @, d)]
      ELSE IF d.op # "HARD_RESET" THEN m
      ELSE IF m.s["TM_ACTIVE"].prim.rsid = NoSid
      THEN IF opt.single /\ m.linked THEN m ELSE Link(m, "TM_ACTIVE", d)
      ELSE IF opt.single THEN m ELSE Link(m, "TM_UNTRUSTED", d)

-----------------------------------------------------------------------------
InBounds(m) == m.nsid <= opt.sids + 1 /\ \A i \in TM : m.s[i].n <= opt.keys

TlsInit ==
  /\ opt \in Scenarios
  /\ multi = [p \in TlsPeer |-> tls_multi_init(p, 1)]
  /\ delayed = {}
  /\ losses = 0 /\ copies = 0 /\ failures = 0

\* The network takes datagram d that p hands it with its new state m.
TlsTransmit(p, m, d) ==
  LET q       == OtherEnd(p)
      arrived == [multi EXCEPT ![p] = m, ![q] = tls_pre_decrypt(q, multi[q], d)]
      lost    == [multi EXCEPT ![p] = m]
      Keep    == /\ copies < opt.copies /\ copies' = copies + 1
                 /\ delayed' = delayed \cup {d}
                 /\ UNCHANGED losses
  IN  \/ multi' = arrived /\ UNCHANGED <<delayed, losses, copies>>
      \/ multi' = arrived /\ Keep
      \/ multi' = lost /\ Keep
      \/ multi' = lost /\ losses < opt.losses /\ losses' = losses + 1
                       /\ UNCHANGED <<delayed, copies>>

\* One call of tls_multi_process at p, with outcome r.
Process(p, r) ==
  /\ r.fail => MayFail
  /\ failures' = IF r.fail THEN failures + 1 ELSE failures
  /\ InBounds(r.m)
  /\ IF r.out = NoDatagram
     THEN multi' = [multi EXCEPT ![p] = r.m] /\ UNCHANGED <<delayed, losses, copies>>
     ELSE TlsTransmit(p, r.m, r.out)
  /\ InBounds(multi'[OtherEnd(p)])
  /\ UNCHANGED opt

\* A datagram the network kept arrives.
Arrive(d) ==
  LET q == OtherEnd(d.from)
  IN  /\ multi' = [multi EXCEPT ![q] = tls_pre_decrypt(q, @, d)]
      /\ InBounds(multi'[q])
      /\ delayed' = delayed \ {d}
      /\ UNCHANGED <<losses, copies, failures, opt>>

\* An end is restarted and forgets everything.
Restart(p) ==
  /\ MayFail /\ failures' = failures + 1
  /\ multi' = [multi EXCEPT ![p] = tls_multi_init(p, @.nsid)]
  /\ InBounds(multi'[p])
  /\ UNCHANGED <<delayed, losses, copies, opt>>

TlsNext == \/ \E p \in TlsPeer : Restart(p) \/ \E r \in tls_multi_process(p) : Process(p, r)
        \/ \E d \in delayed : Arrive(d)

TlsSpec == TlsInit /\ [][TlsNext]_tlsVars

-----------------------------------------------------------------------------
(* Properties.                                                             *)

KeyStateType ==
  [st : S_ERROR .. S_NORMAL, kid : 0 .. KeyIdLimit - 1,
   opc : {"none", "HARD_RESET", "SOFT_RESET"}, rsid : Nat, gen : [sid : Nat, n : Nat],
   auth : BOOLEAN,
   key : [c : [sid : Nat, n : Nat], s : [sid : Nat, n : Nat], csid : Nat, ssid : Nat],
   made : 0 .. 3, unacked : SUBSET (RESET .. KEYS), rnext : 0 .. 3,
   rbuf : SUBSET [id : RESET .. KEYS, gen : [sid : Nat, n : Nat], peer : [sid : Nat, n : Nat]],
   acks : SUBSET (RESET .. KEYS), peer : [sid : Nat, n : Nat], plain : BOOLEAN]

\* Between calls the active session negotiates or has negotiated, and the
\* untrusted one too unless there is none: tls_pre_decrypt and tls_process
\* assert that they never meet a session in S_UNDEF or S_ERROR.
TlsTypeOK ==
  \A p \in TlsPeer :
    /\ \A i \in TM : multi[p].s[i].prim \in KeyStateType /\ multi[p].s[i].lame \in KeyStateType
    /\ multi[p].s["TM_ACTIVE"].prim.st >= S_INITIAL
    /\ ~ opt.single => multi[p].s["TM_UNTRUSTED"].prim.st >= S_INITIAL

\* tls_pre_encrypt: the key state data is sent with, the first usable one.
SendKeys(p) == {k \in 1 .. 3 : key_scan(multi[p])[k].st >= S_ACTIVE
                               /\ key_scan(multi[p])[k].auth}
tls_pre_encrypt(p) ==
  IF SendKeys(p) = {} THEN NoKeyState
  ELSE key_scan(multi[p])[CHOOSE k \in SendKeys(p) : \A j \in SendKeys(p) : k <= j]

\* The key states of TM_ACTIVE with their session ids.
Ends(p) == {[sid |-> multi[p].s["TM_ACTIVE"].sid, ks |-> ks]
            : ks \in {multi[p].s["TM_ACTIVE"].prim, multi[p].s["TM_ACTIVE"].lame}}

\* The two ends of a session never hold different data channel keys under the
\* same key id, whatever was lost, delayed, restarted or renegotiated at once.
\* peer.sid = rsid leaves out a key state that negotiates with one session and
\* has since been given another as its remote end: tls_pre_decrypt does that to
\* the key state of TM_UNTRUSTED on every hard reset of a session it does not
\* know, and the keys it makes then are of no use.
KeyAgreement ==
  \A c \in Ends(TlsClient), s \in Ends(TlsServer) :
    /\ c.sid = s.ks.rsid /\ s.sid = c.ks.rsid /\ c.ks.kid = s.ks.kid
    /\ c.ks.peer.sid = c.ks.rsid /\ s.ks.peer.sid = s.ks.rsid
    /\ c.ks.key # NoKey /\ s.ks.key # NoKey
    => c.ks.key = s.ks.key

\* --single-session: "After initially connecting to a remote peer, disallow any
\* new connections", whatever fails meanwhile, until a restart.
SingleSessionKept ==
  [][\A p \in TlsPeer :
       /\ opt.single /\ multi[p].linked /\ multi'[p].linked
       => multi'[p].s["TM_ACTIVE"].prim.rsid \in {multi[p].s["TM_ACTIVE"].prim.rsid, NoSid}]_tlsVars

\* Data is only sent with keys that were made.
SendKeyReady == \A p \in TlsPeer : tls_pre_encrypt(p).st >= S_ACTIVE => tls_pre_encrypt(p).key # NoKey

\* A session's primary and retiring key have different key ids, though ids are
\* recycled: a data packet's key id tells them apart.
KeyIdsDistinct ==
  \A p \in TlsPeer : \A i \in TM :
    LET s == multi[p].s[i] IN s.lame.st >= S_INITIAL => s.prim.kid # s.lame.kid

\* "if key_id is 0, it is the first key" (key_state_init).
KeyIdZeroFirst ==
  \A p \in TlsPeer : \A i \in TM :
    \A ks \in {multi[p].s[i].prim, multi[p].s[i].lame} :
      ks.st >= S_INITIAL => (ks.kid = 0 <=> ks.gen.n = 0)

\* --tran-window "removes the key renegotiation sequence from the critical path
\* of tunnel data forwarding": an end that can send data still can after a step
\* that keeps its session and in which no key expires.
RenegOffCriticalPath ==
  [][\A p \in TlsPeer :
       /\ SendKeys(p) # {}
       /\ multi'[p].s["TM_ACTIVE"].sid = multi[p].s["TM_ACTIVE"].sid
       /\ multi'[p].s["TM_ACTIVE"].lame.st # S_UNDEF
       => SendKeys(p)' # {}]_tlsVars

\* The key that tls_pre_encrypt uses is complete, key ids tell the keys of a session apart,
\* and only the first key of a session has id 0.
KeysSound == TlsTypeOK /\ SendKeyReady /\ KeyIdsDistinct /\ KeyIdZeroFirst
=============================================================================
