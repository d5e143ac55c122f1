------------------------------ MODULE MultiTcp ------------------------------
(* The event loop of the server in TCP mode: mtcp.c with the handlers of     *)
(* multi.c and multi.h that it drives and the queue of mbuf.c.               *)
(*                                                                           *)
(* multi_tcp_wait collects what is ready in esr; multi_tcp_process_io takes  *)
(* one event after the other and runs multi_tcp_action for it, a loop that   *)
(* reads or writes for one instance, closes the instance it touched when     *)
(* that got a signal, and goes on with what multi_tcp_post finds left to do; *)
(* then it drains the broadcast queue.  One action of this module is one     *)
(* pass of that loop.  A ciphertext packet is its rank among the packets of  *)
(* its client that are encrypted and not sent: what matters about it is that *)
(* none overtakes another, as packet ids in a TCP session are consecutive.   *)
EXTENDS Integers, FiniteSets, Sequences, SequencesExt

CONSTANTS
  Client,          \* cells of client instances
  NIL,             \* the null pointer
  QueueLimit,      \* --tcp-queue-limit
  MaxEvents,       \* events that one wait reports: the others are reported by the next
  CtlBudget,       \* pings and control packets that one stall of a client can add
  TcpOptions       \* [n_bcast_buf, bcast, c2c, one_cn]: --bcast-buffers, the capacity of mbuf and of a deferred
                   \* queue; broadcasts from tun; --client-to-client; all clients have one name

ASSUME MultiTcpAssumption ==
  /\ QueueLimit \in Nat \ {0} /\ CtlBudget \in Nat /\ MaxEvents \in Nat \ {0}
  /\ \A o \in TcpOptions : o.n_bcast_buf \in Nat \ {0}
  /\ IsFiniteSet(Client) /\ NIL \notin Client /\ Client \cap {"TUN", "SOCKET", "MANAGEMENT"} = {}

VARIABLES
  topt,     \* the options in force
  mt,       \* struct multi_context and struct multi_tcp
  act,      \* the locals of multi_tcp_action; action is "UNDEF" when it is not running
  turn      \* the stage of the event loop: "wait", "io", "drain" or "timeout"

tcpVars == <<topt, mt, act, turn>>

NoClient ==
  [live |-> FALSE, sig |-> FALSE, est |-> FALSE, res |-> 0, formed |-> FALSE,
   link |-> 0, tun |-> FALSE, deferred |-> <<>>, ctl |-> 0, rw |-> "none"]

Idle == [mi |-> NIL, action |-> "UNDEF", poll |-> FALSE, tip |-> FALSE]
LiveTcp(s) == {i \in Client : s.inst[i].live}
TunOut(s, i) == i # NIL /\ s.inst[i].tun
LinkOut(s, i) == i # NIL /\ s.inst[i].link # 0
AnyOut(s, i) == TunOut(s, i) \/ LinkOut(s, i)

----------------------------------------------------------------------------
(* Packets of one client.                                                    *)

Held(x) == ToSet(x.deferred) \cup ({x.link} \ {0})
Rank(x, p) == IF p = 0 THEN 0 ELSE Cardinality({q \in Held(x) : q <= p})
Ranked2(x) ==
  [x EXCEPT !.link = Rank(x, @), !.deferred = [n \in DOMAIN @ |-> Rank(x, @[n])],
            !.ctl = IF Held(x) = {} THEN 0 ELSE @]

\* A packet encrypted into to_link, younger than all that are held.
encrypt_sign(s, i) == [s EXCEPT !.inst[i].link = Cardinality(Held(s.inst[i])) + 1]

\* process_outgoing_link: to_link is written to the socket and is empty.
Transmit(s, i) ==
  [s EXCEPT !.inst[i] = Ranked2([@ EXCEPT !.link = 0]),
            !.overtaken = @ \/ \E q \in ToSet(s.inst[i].deferred) : q < s.inst[i].link]

\* mutant: a full queue grows
Queued_Grow(q, packet) == Append(q, packet)
\* mbuf_add_item to a queue of deferred packets: the oldest makes place when it is full.
Queued(q, packet) == Append(IF Len(q) = topt.n_bcast_buf THEN Tail(q) ELSE q, packet)

Defer(s, i) ==
  LET x == s.inst[i]
  IN  [s EXCEPT !.inst[i] = Ranked2([x EXCEPT !.deferred = Queued(x.deferred, x.link), !.link = 0])]

\* mutant: saturated clients are not noticed
queue_ready_Unlimited(s, i) == TRUE
multi_output_queue_ready(s, i) == Len(s.inst[i].deferred) <= QueueLimit

Asserted(s, cond, why) == IF cond \/ s.abort # "no" THEN s ELSE [s EXCEPT !.abort = why]

\* mbuf_peek and mbuf_extract_item pass over the items of closed clients, up to the first other one.
First(q) == CHOOSE n \in DOMAIN q : q[n] # NIL /\ \A k \in 1 .. n - 1 : q[k] = NIL
Peeked(q) == IF ToSet(q) \subseteq {NIL} THEN NIL ELSE q[First(q)]
Extracted(q) == IF Peeked(q) = NIL THEN <<>> ELSE SubSeq(q, First(q) + 1, Len(q))

\* mbuf_add_item to the broadcast queue: when it is full, it has to hold an item to drop.
mbuf_add_item_tcp(s, i) ==
  LET full == Len(s.mbuf) = topt.n_bcast_buf
  IN  Asserted([s EXCEPT !.mbuf = Append(IF full THEN Extracted(@) ELSE @, i)], full => Peeked(s.mbuf) # NIL, "mbuf")

multi_add_mbuf(s, i) == IF multi_output_queue_ready(s, i) THEN mbuf_add_item_tcp(s, i) ELSE s

\* multi_bcast: the clients come in the order of the hash table, which may be any.
multi_bcast_tcp(s, omit) ==
  {LET added[n \in 0 .. Len(q)] == IF n = 0 THEN s ELSE multi_add_mbuf(added[n - 1], q[n]) IN added[Len(q)]
   : q \in SetToSeqs({i \in LiveTcp(s) \ {omit} : s.inst[i].est})}

----------------------------------------------------------------------------
(* Instances.                                                                *)

\* mutant: events of other clients survive the closing
close_KeepEvents(s, J) ==
  [s EXCEPT !.pending = IF @ \in J THEN NIL ELSE @, !.wakeup = IF @ \in J THEN NIL ELSE @,
            !.mbuf = [n \in DOMAIN @ |-> IF @[n] \in J THEN NIL ELSE @[n]],
            !.inst = [i \in Client |-> IF i \in J THEN NoClient ELSE @[i]]]
\* multi_close_instance of the clients J, with multi_tcp_dereference_instance, which forgets all reported events.
multi_close_instance_tcp(s, J) ==
  [s EXCEPT !.pending = IF @ \in J THEN NIL ELSE @, !.wakeup = IF @ \in J THEN NIL ELSE @,
            !.esr = IF J = {} THEN @ ELSE {},
            !.mbuf = [n \in DOMAIN @ |-> IF @[n] \in J THEN NIL ELSE @[n]],
            !.inst = [i \in Client |-> IF i \in J THEN NoClient ELSE @[i]]]

\* multi_delete_dup: a new connection of a name ends the old ones.
multi_delete_dup_tcp(s, i) ==
  multi_close_instance_tcp(s, {j \in LiveTcp(s) \ {i} : topt.one_cn /\ s.inst[j].est})

\* pre_select: nothing, a control packet where to_link is empty, a signal, or the end of the handshake.
PreSelect(s, i) ==
  {s, [s EXCEPT !.inst[i].sig = TRUE]}
  \cup {[encrypt_sign(s, i) EXCEPT !.inst[i].ctl = @ + 1] : b \in {b \in {1} : ~LinkOut(s, i) /\ s.inst[i].ctl < CtlBudget}}
  \cup {multi_delete_dup_tcp([s EXCEPT !.inst[i].est = TRUE], i) : b \in {b \in {1} : ~s.inst[i].est}}

multi_set_pending_tcp(s, i) == [s EXCEPT !.pending = IF AnyOut(s, i) THEN i ELSE NIL]

Settle(s, i) == IF s.inst[i].sig THEN s ELSE multi_set_pending_tcp(s, i)

\* multi_process_post with MPP_PRE_SELECT: all it may leave behind; i is the instance touched.
multi_process_post_tcp(s, i) ==
  IF s.inst[i].sig THEN {s} ELSE {Settle(t, i) : t \in PreSelect(s, i)}

Touching(S, i) == {[s |-> t, touched |-> i] : t \in S}
PostTouching(s, i) == Touching(multi_process_post_tcp(s, i), i)

----------------------------------------------------------------------------
(* The handlers: the set of outcomes, each with the instance it touched.     *)

\* mutant: the residual of the stream is not looked at again
read_setup_Skipped(s, i) == s
\* stream_buf_read_setup: is the next packet already in the residual?
stream_buf_read_setup_tcp(s, i) ==
  IF s.inst[i].sig THEN s ELSE [s EXCEPT !.inst[i].formed = s.inst[i].res > 0]

\* mutant: always waits for input
set_rw_flags_Read(s, i) ==
  IF i = NIL THEN s ELSE Asserted([s EXCEPT !.inst[i].rw = "READ"], s.inst[i].res = 0, "residual")
\* socket_set: waiting for input that the stream buffer already holds is an assertion failure.
multi_tcp_set_global_rw_flags(s, i) ==
  IF i = NIL THEN s
  ELSE IF s.inst[i].deferred # <<>> THEN [s EXCEPT !.inst[i].rw = "WRITE"]
  ELSE Asserted([s EXCEPT !.inst[i].rw = "READ"], s.inst[i].res = 0, "residual")

\* read_incoming_tun, multi_process_incoming_tun: to nobody, to a client, or to all of them.
TunRead(s, i) ==
  Touching({s} \cup (IF topt.bcast THEN multi_bcast_tcp(s, NIL) ELSE {}), i)
  \cup UNION {PostTouching(IF multi_output_queue_ready(s, j) THEN encrypt_sign(s, j)
                           ELSE [s EXCEPT !.inst[j].link = 0], j)
              : j \in {j \in LiveTcp(s) : s.inst[j].est}}

\* read_incoming_link: a reset, or a packet from the residual, or 0 to 2 packets from the socket.
ReadLink(s, i) ==
  IF s.inst[i].formed
  THEN {[t |-> [s EXCEPT !.inst[i].formed = FALSE, !.inst[i].res = s.inst[i].res - 1], len |-> 1]}
  ELSE {[t |-> [s EXCEPT !.inst[i].sig = TRUE], len |-> 0], [t |-> s, len |-> 0]}
       \cup {[t |-> [s EXCEPT !.inst[i].res = n - 1], len |-> 1] : n \in 1 .. 2}

\* process_incoming_link and the routing of what it decrypts.
Incoming(s, i) ==
  {s, [s EXCEPT !.inst[i].sig = TRUE]}
  \cup (IF ~s.inst[i].est THEN {}
        ELSE LET t == [s EXCEPT !.inst[i].tun = TRUE]
             IN  IF topt.c2c
                 THEN {t} \cup multi_bcast_tcp(t, i) \cup {multi_add_mbuf(s, j) : j \in {j \in LiveTcp(s) : s.inst[j].est}}
                 ELSE {t})

Received(r, i) ==
  IF r.t.inst[i].sig THEN Touching({r.t}, i)
  ELSE UNION {PostTouching(Asserted([t EXCEPT !.pending = i], t.pending = NIL, "pending"), i)
              : t \in IF r.len = 0 THEN {r.t} ELSE Incoming(r.t, i)}

SocketRead(s, i) ==
  {[o EXCEPT !.s = stream_buf_read_setup_tcp(@, i)] : o \in UNION {Received(r, i) : r \in ReadLink(s, i)}}

TimeoutTcp(s, i) ==
  IF s.wakeup = NIL THEN Touching({s}, i)
  ELSE {[o EXCEPT !.s.wakeup = NIL] : o \in PostTouching(s, s.wakeup)}

\* multi_process_outgoing_tun and multi_process_drop_outgoing_tun: to_tun is written or dropped.
TunWrite(s, i) == PostTouching([s EXCEPT !.inst[s.pending].tun = FALSE], s.pending)

\* multi_tcp_process_outgoing_link_ready: the oldest deferred packet.
WriteReady(s, i) ==
  IF s.inst[i].deferred = <<>> THEN Touching({s}, i)
  ELSE PostTouching(Transmit([s EXCEPT !.inst[i].link = Head(s.inst[i].deferred), !.inst[i].deferred = Tail(@)], i), i)

\* multi_process_outgoing_link_pre: the pending instance, or the first of the queue with its packet encrypted,
\* which may come to nothing (no key yet).
OutgoingPre(s) ==
  IF s.pending # NIL THEN {[s |-> s, mi |-> s.pending]}
  ELSE LET i == Peeked(s.mbuf)
           t == [s EXCEPT !.mbuf = Extracted(@)]
       IN  {[s |-> t, mi |-> i]} \cup (IF i = NIL THEN {} ELSE {[s |-> encrypt_sign(t, i), mi |-> i]})

\* mutant: a packet is only deferred when the socket is full
must_defer_Full(x, defer) == defer
must_defer(x, defer) == defer \/ x.deferred # <<>>

\* multi_tcp_process_outgoing_link
SocketWrite(s, i, defer) ==
  UNION {IF o.mi = NIL THEN Touching({o.s}, i)
         ELSE IF must_defer(o.s.inst[o.mi], defer)
         THEN IF LinkOut(o.s, o.mi) THEN PostTouching(Defer(o.s, o.mi), o.mi) ELSE Touching({o.s}, i)
         ELSE PostTouching(IF LinkOut(o.s, o.mi) THEN Transmit(o.s, o.mi) ELSE o.s, o.mi)
         : o \in OutgoingPre(s)}

Initial(s, i) == PostTouching(multi_tcp_set_global_rw_flags(s, i), i)

multi_tcp_dispatch(s, i, action) ==
  CASE action = "TUN_READ" -> TunRead(Asserted(s, s.pending = NIL, "pending"), i)
    [] action \in {"SOCKET_READ", "SOCKET_READ_RESIDUAL"} -> SocketRead(s, i)
    [] action = "TIMEOUT" -> TimeoutTcp(s, i)
    [] action \in {"TUN_WRITE", "TUN_WRITE_TIMEOUT"} -> TunWrite(s, i)
    [] action = "SOCKET_WRITE_READY" -> WriteReady(s, i)
    [] action = "SOCKET_WRITE" -> SocketWrite(s, i, FALSE)
    [] action = "SOCKET_WRITE_DEFERRED" -> SocketWrite(s, i, TRUE)
    [] action = "INITIAL" -> Initial(s, i)

----------------------------------------------------------------------------
(* multi_tcp_action.                                                         *)

\* multi_tcp_wait_lite: what becomes of an action that polls, and whether the tun device has input too.
WaitLite(action) ==
  CASE action = "TUN_WRITE" -> {<<"TUN_WRITE", FALSE>>, <<"TUN_WRITE_TIMEOUT", FALSE>>}
    [] action = "SOCKET_WRITE" -> {"SOCKET_WRITE", "SOCKET_WRITE_DEFERRED"} \X BOOLEAN
    [] action \in {"TUN_READ", "SOCKET_READ"} -> {<<action, FALSE>>, <<"UNDEF", FALSE>>}

Waited(a) ==
  IF a.poll /\ a.action # "SOCKET_READ_RESIDUAL"
  THEN {[a EXCEPT !.action = w[1], !.tip = @ \/ w[2]] : w \in WaitLite(a.action)}
  ELSE {a}

\* The next action for mi.
multi_tcp_post(s, i) ==
  CASE TunOut(s, i) -> "TUN_WRITE"
    [] ~TunOut(s, i) /\ LinkOut(s, i) -> "SOCKET_WRITE"
    [] ~AnyOut(s, i) -> IF i # NIL /\ s.inst[i].formed THEN "SOCKET_READ_RESIDUAL" ELSE "UNDEF"

Continue(s, i, tip) ==
  IF multi_tcp_post(s, i) # "UNDEF"
  THEN /\ mt' = s
       /\ act' = [mi |-> i, action |-> multi_tcp_post(s, i), poll |-> TRUE, tip |-> tip]
  ELSE /\ mt' = multi_tcp_set_global_rw_flags(s, i)
       /\ act' = IF tip THEN [Idle EXCEPT !.action = "TUN_READ"] ELSE Idle

\* multi_close_instance_on_signal for the instance the dispatch touched
close_touched(o) ==
  IF o.touched # NIL /\ o.s.inst[o.touched].sig THEN multi_close_instance_tcp(o.s, {o.touched}) ELSE o.s

Finish(o, s, a) ==
  LET i == IF a.mi # NIL /\ a.mi = o.touched /\ o.s.inst[a.mi].sig THEN NIL ELSE a.mi
  IN  Continue(s, IF s.pending # NIL THEN s.pending ELSE i, a.tip)

\* One pass of the loop.
ActionPass(action) ==
  /\ act.action = action /\ mt.abort = "no"
  /\ \E a \in Waited(act) :
       IF a.action = "UNDEF" THEN mt' = [mt EXCEPT !.abort = "blocking"] /\ act' = Idle
       ELSE \E o \in multi_tcp_dispatch(mt, a.mi, a.action) : Finish(o, close_touched(o), a)
  /\ UNCHANGED <<topt, turn>>

----------------------------------------------------------------------------
(* The event loop.                                                           *)

Started(i, action, poll) == act' = [mi |-> i, action |-> action, poll |-> poll, tip |-> FALSE]
InLoop(stage) == turn = stage /\ act.action = "UNDEF" /\ mt.abort = "no"

Event == [who : Client \cup {"TUN", "SOCKET", "MANAGEMENT"}, rw : {"READ", "WRITE"}]

\* multi_get_timeout and multi_tcp_wait: any of the registered events; tun, listener and management for reading.
WaitTcp ==
  /\ InLoop("wait")
  /\ \E w \in {NIL} \cup LiveTcp(mt),
        E \in SUBSET ({[who |-> i, rw |-> mt.inst[i].rw] : i \in {i \in LiveTcp(mt) : mt.inst[i].rw # "none"}}
                      \cup {[who |-> x, rw |-> "READ"] : x \in {"TUN", "SOCKET", "MANAGEMENT"}}) :
       /\ Cardinality(E) <= MaxEvents
       /\ mt' = [mt EXCEPT !.wakeup = w, !.esr = E]
       /\ turn' = IF E = {} THEN "timeout" ELSE "io"
       /\ IF E = {} THEN Started(NIL, "TIMEOUT", FALSE) ELSE UNCHANGED act
  /\ UNCHANGED topt

EndOfTimeout == InLoop("timeout") /\ turn' = "wait" /\ UNCHANGED <<topt, mt, act>>

Take(e) == [mt EXCEPT !.esr = @ \ {e}]

\* Input or room for output on a client's socket.
ClientEvent(e) ==
  /\ InLoop("io") /\ e \in mt.esr /\ e.who \in Client
  /\ mt' = Take(e)
  /\ Started(e.who, IF e.rw = "WRITE" THEN "SOCKET_WRITE_READY" ELSE "SOCKET_READ", FALSE)
  /\ UNCHANGED <<topt, turn>>

TunEvent(e) ==
  /\ InLoop("io") /\ e \in mt.esr /\ e.who = "TUN"
  /\ mt' = Take(e) /\ Started(NIL, "TUN_READ", FALSE)
  /\ UNCHANGED <<topt, turn>>

\* management_io: a command that changes nothing here, or a kill, which closes the client at once.
ManagementEvent(e) ==
  /\ InLoop("io") /\ e \in mt.esr /\ e.who = "MANAGEMENT"
  /\ mt' \in {Take(e)} \cup {multi_close_instance_tcp(Take(e), {i}) : i \in LiveTcp(mt)}
  /\ UNCHANGED <<topt, act, turn>>

\* multi_create_instance_tcp: accept, then a new instance.  Where its context cannot be opened, there are too many
\* clients or its address is still in the iterator table, the half made instance is closed, which forgets the
\* reported events.
AcceptEvent(e) ==
  /\ InLoop("io") /\ e \in mt.esr /\ e.who = "SOCKET"
  /\ \/ mt' = [Take(e) EXCEPT !.esr = {}] /\ UNCHANGED act
     \/ \E i \in Client \ LiveTcp(mt) :
          /\ mt' \in multi_process_post_tcp([Take(e) EXCEPT !.inst[i] = [NoClient EXCEPT !.live = TRUE]], i)
          /\ Started(i, "INITIAL", FALSE)
  /\ UNCHANGED <<topt, turn>>

EndOfEvents == InLoop("io") /\ mt.esr = {} /\ turn' = "drain" /\ UNCHANGED <<topt, mt, act>>

\* The queue of broadcast and client-to-client packets.
Drain ==
  /\ InLoop("drain")
  /\ IF Peeked(mt.mbuf) = NIL THEN turn' = "wait" /\ UNCHANGED act
     ELSE Started(Peeked(mt.mbuf), "SOCKET_WRITE", TRUE) /\ UNCHANGED turn
  /\ UNCHANGED <<topt, mt>>

TcpActions ==
  {"TUN_READ", "SOCKET_READ", "SOCKET_READ_RESIDUAL", "TIMEOUT", "TUN_WRITE", "SOCKET_WRITE_READY", "SOCKET_WRITE", "INITIAL"}

TcpInit ==
  /\ topt \in TcpOptions
  /\ mt = [inst |-> [i \in Client |-> NoClient], pending |-> NIL, mbuf |-> <<>>, wakeup |-> NIL, esr |-> {},
           overtaken |-> FALSE, abort |-> "no"]
  /\ act = Idle /\ turn = "wait"

TcpNext ==
  \/ WaitTcp \/ EndOfTimeout \/ EndOfEvents \/ Drain
  \/ \E e \in mt.esr : ClientEvent(e) \/ TunEvent(e) \/ ManagementEvent(e) \/ AcceptEvent(e)
  \/ \E a \in TcpActions : ActionPass(a)

TcpSpec == TcpInit /\ [][TcpNext]_tcpVars

----------------------------------------------------------------------------
(* Properties.                                                               *)

TcpTypeOK ==
  /\ topt \in TcpOptions
  /\ mt.inst \in [Client -> [live : BOOLEAN, sig : BOOLEAN, est : BOOLEAN, res : 0 .. 1,
                             formed : BOOLEAN, link : 0 .. topt.n_bcast_buf + 1, tun : BOOLEAN,
                             deferred : BoundedSeq(1 .. topt.n_bcast_buf + 1, topt.n_bcast_buf), ctl : 0 .. CtlBudget,
                             rw : {"none", "READ", "WRITE"}]]
  /\ mt.pending \in Client \cup {NIL} /\ mt.wakeup \in Client \cup {NIL}
  /\ mt.mbuf \in BoundedSeq(Client \cup {NIL}, topt.n_bcast_buf) /\ mt.esr \subseteq Event
  /\ act.mi \in Client \cup {NIL}
  /\ act.action \in TcpActions \cup {"UNDEF"} /\ turn \in {"wait", "io", "drain", "timeout"}

\* No assertion of the loop fails: no handler starts while an instance is pending (multi.c), an instance is never
\* registered for input that its stream buffer already holds (socket_set), and multi_tcp_action never has to block.
\* What mbuf_add_item asserts is stated on its own below.
TcpAsserts == mt.abort \in {"no", "mbuf"}

\* "ASSERT (mbuf_extract_item (ms, &rm, false))" in mbuf_add_item: a full broadcast queue holds an item to drop.
FullQueueDrops == mt.abort # "mbuf"

\* No pointer to a closed client survives it: the reported events, the instance of the running action, the pending
\* one, the one to be woken, the queued packets.
TcpNoDangling ==
  /\ {e.who : e \in mt.esr} \cap Client \subseteq LiveTcp(mt)
  /\ {act.mi, mt.pending, mt.wakeup} \cup ToSet(mt.mbuf) \subseteq LiveTcp(mt) \cup {NIL}

\* When the loop waits, nothing is left that only multi_tcp_action would move: no instance has output or a whole
\* packet in its stream buffer or a signal, and each is registered for room in its socket exactly when packets wait
\* for that.  So no client stalls with work to do and no event to wake it.
TcpAtRest ==
  InLoop("wait") =>
    /\ mt.pending = NIL
    /\ \A i \in LiveTcp(mt) :
         /\ ~AnyOut(mt, i) /\ ~mt.inst[i].sig /\ ~mt.inst[i].formed
         /\ mt.inst[i].rw = IF mt.inst[i].deferred # <<>> THEN "WRITE" ELSE "READ"

\* Packets leave in the order they were encrypted, deferred or not: the receiver of a TCP session takes a packet id
\* out of sequence for an attack and resets the connection.
InOrder == ~mt.overtaken

\* --tcp-queue-limit is tested before a packet is encrypted, so what tun sends to one client makes its queue of deferred
\* packets at most one longer than the limit, and control packets come on top; with --bcast-buffers above that no
\* encrypted packet is ever dropped.  A burst of broadcast or client-to-client packets is tested against the queue as
\* it was before any of them was sent, and has no such bound.
DeferredBounded ==
  ~topt.bcast /\ ~topt.c2c => \A i \in Client : Len(mt.inst[i].deferred) <= QueueLimit + 1 + CtlBudget

\* The TCP server between one pass of its loop and the next: every client waits for what it
\* needs, no event is for a client that is gone, no assertion fails, no queue overruns.
TcpInv == TcpTypeOK /\ TcpAsserts /\ TcpNoDangling /\ TcpAtRest /\ DeferredBounded /\ InOrder
=============================================================================
