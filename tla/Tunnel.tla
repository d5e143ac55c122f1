-------------------------------- MODULE Tunnel --------------------------------
(***************************************************************************)
(* The event loop of a point-to-point tunnel (tunnel_point_to_point,       *)
(* forward.c, forward-inline.h) with its timers (interval.h), the ping     *)
(* timer (ping.c), the options consistency check (occ.c) and the traffic   *)
(* shaper (shaper.h).                                                      *)
(*                                                                         *)
(* One round is pre_select, which runs the timers and may put ONE packet   *)
(* into to_link; io_wait, which blocks; and process_io, which serves one   *)
(* of the events that ended the wait.  Everything the loop must not forget *)
(* (a packet in to_link or to_tun, a fragment, an answer to the peer, a    *)
(* timer, a control packet) survives from round to round only in the       *)
(* variables below, so what the wait asks for and how long it may last     *)
(* have to cover all of them.                                              *)
(***************************************************************************)
EXTENDS Integers, FiniteSets, FiniteSetsExt

CONSTANTS
    Configs,        \* the option records the tunnel may run with
    OccTries,       \* OCC_N_TRIES
    LoadTests,      \* entries of mtu_load_test_sequence before its end marker
    MaxTime,        \* bound on the clock (seconds)
    MaxTun,         \* bound on packets read from the device
    LinkPackets,    \* the kinds of packets that may arrive on the socket
    MaxLink,        \* bound on packets read from the socket
    MaxSignals,     \* bound on signals that are delivered asynchronously
    Signals         \* the signals that may be delivered anywhere

None    == "none"
Big     == 100                                  \* BIG_TIMEOUT
Horizon == 2                                    \* TLS_MULTI_HORIZON
Timers  == {"persist", "connect", "push", "inactive", "ping_rec",
            "occ", "load", "exit", "ping_send"}

\* --pull is an option of a TLS client; a restart or an exit is what --ping-restart and --ping-exit ask for
ASSUME TunnelAssumption ==
    /\ Configs \subseteq [tls : BOOLEAN, pull : BOOLEAN, tcp : BOOLEAN, frag : BOOLEAN, shaper : Nat, fast_io : BOOLEAN,
                         ping : Nat, ping_rec : Nat, ping_action : {"USR1", "TERM"}, timer_remote : BOOLEAN,
                         inactive : Nat, occ : Nat, mtu_test : Nat, exit_notify : Nat, persist : BOOLEAN,
                         remote : BOOLEAN, refresh : Nat \ {0}]
    /\ \A g \in Configs : g.pull => g.tls
    /\ OccTries \in Nat /\ LoadTests \in Nat /\ MaxTime \in Nat \ {0}
    /\ MaxTun \in Nat /\ MaxLink \in Nat /\ MaxSignals \in Nat
    /\ LinkPackets \subseteq {"handshake", "PUSH_REPLY", "AUTH_FAILED", "tls_error", "data", "ping", "occ_request",
                              "occ_reply", "mtu_reply", "occ_exit", "bad", "reset"}
    /\ Signals \subseteq {"TERM", "USR1", "USR2", "HUP", "INT"}

VARIABLES
    cfg,        \* the options, fixed by Init
    pc,         \* where the loop is
    now,        \* the clock, as update_time last read it
    c,          \* the fields of context c2 the loop works on, and c->sig
    req,        \* events io_wait asks the event set for
    until,      \* when the wait it is in ends at the latest
    status,     \* c2.event_set_status
    used        \* packets and signals so far, against the bounds

vars == <<cfg, pc, now, c, req, until, status, used>>

(***************************************************************************)
(* Timers: struct event_timeout and struct interval.                       *)
(***************************************************************************)
Off == [def |-> FALSE, n |-> 0, last |-> 0]             \* event_timeout_clear

TimerInit(x, t, n, last) ==                             \* event_timeout_init
    [x EXCEPT !.tm[t] = [def |-> TRUE, n |-> n, last |-> last]]

TimerClear(x, t) == [x EXCEPT !.tm[t] = Off]

TimerReset(x, t) ==                                     \* event_timeout_reset
    IF x.tm[t].def THEN [x EXCEPT !.tm[t].last = now] ELSE x

Deadline(x, t) == x.tm[t].last + x.tm[t].n

Due(x, t) == x.tm[t].def /\ Deadline(x, t) <= now

RescheduleSec(x, sec) ==                                \* context_reschedule_sec
    [x EXCEPT !.tv = Min({@, IF sec < 0 THEN 0 ELSE sec})]

\* event_timeout_trigger: a due timer fires and is armed again, unless the
\* caller cannot serve it now and asks to be woken in retry seconds
Fires(x, t, retry) == Due(x, t) /\ retry < 0
Trigger(x, t, retry) ==
    IF ~ x.tm[t].def THEN x
    ELSE IF ~ Due(x, t) THEN RescheduleSec(x, Deadline(x, t) - now)
    ELSE IF retry >= 0 THEN RescheduleSec(x, retry)
    ELSE RescheduleSec([x EXCEPT !.tm[t].last = now], x.tm[t].n)
WhenDue(x, t, retry, Action(_)) ==
    IF Fires(x, t, retry) THEN Action(Trigger(x, t, retry)) ELSE Trigger(x, t, retry)

ETT_DEFAULT == -1

\* mutant: the cached wakeup is left as it was
ResetCoarse_Not(x) == x

ResetCoarse(x) == [x EXCEPT !.coarse = 0]               \* reset_coarse_timers

IntervalAction(x) == [x EXCEPT !.tmp.action = now]

IntervalTest(x) ==
    \/ x.tmp.future # 0 /\ now >= x.tmp.future
    \/ x.tmp.action + Horizon > now
    \/ x.tmp.tested + cfg.refresh <= now

(***************************************************************************)
(* Packets on their way out.  to_link and to_tun hold one packet each.     *)
(***************************************************************************)
ToLinkDef(x) == x.to_link # None \/ x.frag # 0          \* TO_LINK_DEF

\* link_socket_get_outgoing_addr, tls_pre_encrypt: without an address or
\* without a key the packet is dropped
Sendable(x) == x.addr /\ (cfg.tls => x.conn)

\* encrypt_sign with comp_frag: fragment_outgoing cuts a large packet up and
\* keeps the rest; it drops the packet when it still holds an earlier one
EncryptSign(x, pkt, pieces) ==
    IF cfg.frag /\ x.frag # 0 THEN [x EXCEPT !.to_link = None]
    ELSE [x EXCEPT !.frag = IF cfg.frag THEN pieces - 1 ELSE 0,
                   !.to_link = IF Sendable(x) THEN pkt ELSE None]

\* check_fragment_dowork: the next fragment, once to_link is free
CheckFragment(x) ==
    IF cfg.frag /\ x.frag # 0 /\ x.to_link = None
    THEN [x EXCEPT !.frag = @ - 1,
                   !.to_link = IF Sendable(x) THEN "frag" ELSE None]
    ELSE x

(***************************************************************************)
(* do_up and do_init_timers.                                               *)
(***************************************************************************)
InitPings(x) ==
    LET A(y) == IF cfg.inactive # 0
                THEN TimerInit(y, "inactive", cfg.inactive, now) ELSE y
        B(y) == IF cfg.ping # 0 THEN TimerInit(y, "ping_send", cfg.ping, 0) ELSE y
        D(y) == IF cfg.ping_rec # 0
                THEN TimerInit(y, "ping_rec", cfg.ping_rec, now) ELSE y
    IN  D(B(A(ResetCoarse(x))))

\* the timers that are not deferred until the options have been pulled
InitTimers(x) ==
    LET A(y) == TimerInit(y, "connect", 1, now)
        B(y) == IF cfg.occ # 0 /\ ~ cfg.tls THEN TimerInit(y, "occ", cfg.occ, now) ELSE y
        D(y) == IF cfg.mtu_test # 0 THEN TimerInit(y, "load", cfg.mtu_test, now) ELSE y
        E(y) == IF cfg.persist THEN TimerInit(y, "persist", 4, now) ELSE y
    IN  E(D(B(A(IF cfg.pull THEN ResetCoarse(x) ELSE InitPings(x)))))

\* do_up with pulled_options: the device is opened, and the timers the
\* server pushed are started
DoUp(x, pulled) ==
    LET y == ResetCoarse([x EXCEPT !.up = TRUE, !.tun = TRUE])
    IN  IF x.up THEN x ELSE IF pulled THEN InitPings(y) ELSE y

ClearTmp == [future |-> 0, action |-> 0, tested |-> 0]

C2Init ==
    [to_link |-> None, to_tun |-> None, frag |-> 0, occ_op |-> None,
     occ_tries |-> 0, load_tries |-> 0, tm |-> [t \in Timers |-> Off],
     coarse |-> 0, tv |-> Big, tmp |-> ClearTmp, ctl_out |-> 0, rx |-> None,
     ctl_in |-> None, wake |-> 0, addr |-> cfg.remote, conn |-> FALSE,
     up |-> FALSE, tun |-> ~ cfg.pull, residual |-> None, shaper |-> 0,
     exit_wait |-> 0, sig |-> None]

Init ==
    /\ cfg \in Configs
    /\ pc = "coarse"
    /\ now = 1
    /\ c = InitTimers([C2Init EXCEPT !.ctl_out = IF cfg.tls THEN 1 ELSE 0])
    /\ req = {} /\ until = 0 /\ status = {}
    /\ used = [tun |-> 0, link |-> 0, sig |-> 0]

\* a signal handler: between any two steps
ThrowSignal ==
    /\ used.sig < MaxSignals /\ pc # "end"
    /\ \E s \in Signals : c' = [c EXCEPT !.sig = s]
    /\ used' = [used EXCEPT !.sig = @ + 1]
    /\ UNCHANGED <<cfg, pc, now, req, until, status>>

Raise(x, s) == [x EXCEPT !.sig = s]

(***************************************************************************)
(* process_coarse_timers, in three steps: the code looks at the signal     *)
(* twice on the way and returns early.                                     *)
(***************************************************************************)
\* send_control_channel_string
SendControl(x) ==
    IntervalAction([x EXCEPT !.ctl_out = 1, !.tv = 0])

ConnectDowork(x) ==
    LET Up(y) == IF cfg.tls /\ cfg.pull
                 THEN ResetCoarse(TimerInit(SendControl(y), "push", 5, now))
                 ELSE DoUp(y, FALSE)
    IN  IF x.conn THEN TimerClear(Up(x), "connect") ELSE x

OccReqDowork(x) ==
    LET y == [x EXCEPT !.occ_tries = @ + 1]
    IN  IF y.occ_tries >= OccTries THEN TimerClear(y, "occ")
        ELSE TimerReset([y EXCEPT !.occ_op = "request"], "occ")

\* mutant: the end marker of the table is not recognised
OccLoadDowork_NoEnd(x) ==
    IF ~ x.conn THEN x ELSE [x EXCEPT !.load_tries = @ + 1, !.occ_op = "load"]

\* the table mtu_load_test_sequence, then its end marker
OccLoadDowork(x) ==
    IF ~ x.conn THEN x
    ELSE IF x.load_tries < LoadTests
    THEN [x EXCEPT !.load_tries = @ + 1, !.occ_op = "load"]
    ELSE TimerClear([x EXCEPT !.load_tries = 0], "load")

\* mutant: the exit is one notification late
ExitWakeup_Late(x) ==
    IF now > x.exit_wait + cfg.exit_notify
    THEN Raise(TimerClear(x, "exit"), "TERM")
    ELSE [x EXCEPT !.occ_op = "exit"]

ExitWakeup(x) ==
    IF now >= x.exit_wait + cfg.exit_notify
    THEN Raise(TimerClear(x, "exit"), "TERM")
    ELSE [x EXCEPT !.occ_op = "exit"]

SendPing(x) == EncryptSign(x, "ping", 1)

\* mutant: the pinger does not look whether the output buffer is in use
CheckPingSend_Busy(x) == WhenDue(x, "ping_send", ETT_DEFAULT, SendPing)

CheckPingSend(x) ==
    WhenDue(x, "ping_send", IF ToLinkDef(x) THEN 1 ELSE ETT_DEFAULT, SendPing)

OccRetry(x) == IF ~ ToLinkDef(x) /\ x.occ_op = None THEN ETT_DEFAULT ELSE 0

CheckOccReq(x)  == WhenDue(x, "occ", OccRetry(x), OccReqDowork)
CheckOccLoad(x) == WhenDue(x, "load", OccRetry(x), OccLoadDowork)

CheckExit(x) ==
    IF x.exit_wait # 0 THEN WhenDue(x, "exit", ETT_DEFAULT, ExitWakeup) ELSE x

CheckPersist(x) == LET Save(y) == y IN WhenDue(x, "persist", ETT_DEFAULT, Save)
CheckConnect(x) == WhenDue(x, "connect", ETT_DEFAULT, ConnectDowork)
CheckPush(x)    == WhenDue(x, "push", ETT_DEFAULT, SendControl)

CheckInactive(x) ==
    LET Stop(y) == Raise(y, "TERM") IN WhenDue(x, "inactive", ETT_DEFAULT, Stop)

CheckPingRestart(x) ==
    LET Restart(y) == Raise(y, cfg.ping_action)
    IN  WhenDue(x, "ping_rec",
                IF ~ cfg.timer_remote \/ x.addr THEN ETT_DEFAULT ELSE 15, Restart)

\* check_coarse_timers: skipped while the cached wakeup lies in the future
CoarseTimers ==
    /\ pc = "coarse"
    /\ LET x == [c EXCEPT !.tv = Big]
       IN  IF now >= c.coarse
           THEN /\ c' = CheckInactive(CheckPush(CheckConnect(CheckPersist(x))))
                /\ pc' = "coarse2"
           ELSE /\ c' = RescheduleSec(x, c.coarse - now)
                /\ pc' = "tls"
    /\ UNCHANGED <<cfg, now, req, until, status, used>>

CoarseEnd(x) == [x EXCEPT !.coarse = now + x.tv]

CoarseTimers2 ==
    /\ pc = "coarse2"
    /\ IF c.sig # None
       THEN c' = CoarseEnd(c) /\ pc' = "tls"
       ELSE c' = CheckPingRestart(c) /\ pc' = "coarse3"
    /\ UNCHANGED <<cfg, now, req, until, status, used>>

CoarseTimers3 ==
    /\ pc = "coarse3"
    /\ c' = IF c.sig # None THEN CoarseEnd(c)
            ELSE CoarseEnd(CheckPingSend(CheckExit(CheckOccLoad(CheckOccReq(c)))))
    /\ pc' = "tls"
    /\ UNCHANGED <<cfg, now, req, until, status, used>>

(***************************************************************************)
(* The rest of pre_select: TLS, control channel messages, OCC, fragments.  *)
(***************************************************************************)
\* what tls_multi_process does for the loop (TlsSession models it): it takes
\* in what was received, sends one packet if to_link is free, and asks to be
\* called again in w seconds
TlsMultiProcess(x, w) ==
    LET sends == x.ctl_out # 0 /\ x.to_link = None
        y == [x EXCEPT
               !.to_link = IF sends THEN "tls" ELSE @,
               !.ctl_out = IF sends THEN 0 ELSE @,
               !.rx = None,
               !.conn = @ \/ x.rx = "handshake",
               !.addr = @ \/ x.rx = "handshake",
               !.ctl_in = IF x.rx \in {"PUSH_REPLY", "AUTH_FAILED"} THEN x.rx ELSE @,
               !.sig = IF x.rx = "tls_error" /\ cfg.tcp THEN "USR1" ELSE @,
               !.wake = now + w]
    IN  IF sends \/ x.rx # None THEN IntervalAction(y) ELSE y

CheckTls(x, w) ==
    LET tested  == [TlsMultiProcess(x, w) EXCEPT !.tmp.tested = now,
                                                 !.tmp.future = now + w]
        pending == {d \in {x.tmp.tested + cfg.refresh - now, x.tmp.future - now} : d > 0}
    IN  IF IntervalTest(x) THEN RescheduleSec(tested, Min({w, cfg.refresh}))
        ELSE RescheduleSec(x, Min(pending \cup {Big}))

PreSelectTls ==
    /\ pc = "tls"
    /\ IF c.sig # None \/ ~ cfg.tls THEN c' = c
       ELSE \E w \in {1, cfg.refresh} : c' = CheckTls(c, w)
    /\ pc' = IF c.sig # None THEN "post" ELSE "ctl"
    /\ UNCHANGED <<cfg, now, req, until, status, used>>

\* incoming_push_message, receive_auth_failed
IncomingControl(x) ==
    CASE x.ctl_in = "PUSH_REPLY" ->
            TimerClear(DoUp([x EXCEPT !.ctl_in = None], TRUE), "push")
      [] x.ctl_in = "AUTH_FAILED" ->
            Raise([x EXCEPT !.ctl_in = None], "TERM")
      [] OTHER -> x

SendOccMsg(x) ==
    IF x.occ_op = None THEN x
    ELSE IF ToLinkDef(x) THEN [x EXCEPT !.tv = 0]
    ELSE [EncryptSign(x, "occ", 1) EXCEPT !.occ_op = None]

PreSelectRest ==
    /\ pc = "ctl"
    /\ c' = IF c.sig # None THEN c
            ELSE CheckFragment(SendOccMsg(IncomingControl(c)))
    /\ pc' = "post"
    /\ UNCHANGED <<cfg, now, req, until, status, used>>

(***************************************************************************)
(* Signals, the wait and the I/O.                                          *)
(***************************************************************************)
\* P2P_CHECK_SIG: process_signal_p2p, then break or continue
CheckSignal ==
    /\ pc \in {"post", "post2", "post3"}
    /\ c.sig # None
    /\ \/ /\ c.sig = "TERM" /\ cfg.exit_notify # 0 /\ c.exit_wait = 0
          /\ c' = Raise(ResetCoarse(TimerInit([c EXCEPT !.exit_wait = now], "exit", 1, 0)),
                        None)
          /\ pc' = "coarse"
       \/ /\ c.sig = "USR2"
          /\ c' = Raise(c, None)
          /\ pc' = "coarse"
       \/ /\ c.sig # "USR2"
          /\ c.sig = "TERM" => cfg.exit_notify = 0 \/ c.exit_wait # 0
          /\ pc' = "end"
          /\ UNCHANGED c
    /\ UNCHANGED <<cfg, now, req, until, status, used>>

Shaped == cfg.shaper # 0 /\ c.shaper > now              \* shaper_delay

\* the events of io_wait_dowork; tun_set does nothing for a closed device
Wanted ==
    {e \in {"sockW", "tunR", "tunW", "sockR"} :
       CASE e = "sockW" -> c.to_link # None /\ ~ Shaped
         [] e = "tunR"  -> c.to_link = None /\ c.frag = 0 /\ c.tun
         [] e = "tunW"  -> c.to_tun # None /\ c.tun
         [] e = "sockR" -> c.to_tun = None}

\* mutant: the stream buffer is looked at in every round
Formed_Always == IF c.residual = "whole" THEN "formed" ELSE c.residual

\* socket_set, stream_buf_read_setup: a whole packet left over from an
\* earlier read is recognised when, and only when, reading is asked for
Formed ==
    IF "sockR" \in Wanted /\ c.residual = "whole" THEN "formed" ELSE c.residual

IoWait ==
    /\ pc = "post" /\ c.sig = None
    /\ IF cfg.fast_io /\ (c.to_link # None \/ c.to_tun # None)
       THEN /\ status' = {e \in {"sockW", "tunW"} :
                            IF e = "sockW" THEN c.to_link # None ELSE c.to_tun # None}
            /\ pc' = "post2"
            /\ UNCHANGED <<c, req, until>>
       ELSE /\ c' = [c EXCEPT !.residual = Formed]
            /\ req' = IF Formed = "formed" THEN Wanted \ {"sockR"} ELSE Wanted
            /\ until' = now + Min({c.tv} \cup
                          IF c.to_link # None /\ Shaped THEN {c.shaper - now} ELSE {})
            /\ IF Formed = "formed"                     \* socket_read_residual
               THEN status' = {"sockR"} /\ pc' = "post2"
               ELSE status' = {} /\ pc' = "wait"
    /\ UNCHANGED <<cfg, now, used>>

MayArrive(e) ==
    /\ e = "tunR"  => used.tun < MaxTun
    /\ e = "sockR" => used.link < MaxLink

\* event_wait returns: events, or the timeout, or a signal
Wake ==
    /\ pc = "wait"
    /\ \E t \in now .. Min({until, MaxTime}) :
         /\ now' = t
         /\ \/ status' \in SUBSET {e \in req : MayArrive(e)} /\ status' # {}
            \/ t = until /\ status' = {}
            \/ c.sig # None /\ status' = {}
    /\ pc' = "post2"
    /\ UNCHANGED <<cfg, c, req, until, used>>

NextRound ==
    /\ c.sig = None
    /\ pc = "post3" \/ (pc = "post2" /\ status = {})
    /\ pc' = "coarse"
    /\ UNCHANGED <<cfg, now, c, req, until, status, used>>

AtIo(e) ==
    /\ pc = "post2" /\ c.sig = None /\ e \in status
    /\ pc' = "post3"

\* process_outgoing_link
ProcessOutgoingLink ==
    /\ AtIo("sockW")
    /\ LET y == TimerReset(c, "ping_send")
       IN  c' = [y EXCEPT !.to_link = None,
                          !.shaper = IF cfg.shaper # 0 THEN now + cfg.shaper ELSE 0]
    /\ UNCHANGED <<cfg, now, req, until, status, used>>

\* process_outgoing_tun, register_activity
ProcessOutgoingTun ==
    /\ AtIo("tunW") /\ "sockW" \notin status
    /\ c' = [TimerReset(c, "inactive") EXCEPT !.to_tun = None]
    /\ UNCHANGED <<cfg, now, req, until, status, used>>

\* process_received_occ_msg
ReceivedOcc(x, k) ==
    CASE k = "occ_request" -> [x EXCEPT !.occ_op = "reply"]
      [] k = "occ_reply"   -> TimerClear(x, "occ")
      [] k = "mtu_reply"   -> TimerClear(x, "load")
      [] k = "occ_exit"    -> Raise(x, "TERM")

\* mutant: a control packet is taken without asking for TLS to be served
ReceivedControl_NoAction(x, k) ==
    TimerReset([x EXCEPT !.rx = k, !.ctl_out = 1, !.to_tun = None], "ping_rec")

\* tls_pre_decrypt took the packet: buf is empty, nothing else is done
ReceivedControl(x, k) ==
    TimerReset(IntervalAction([x EXCEPT !.rx = k, !.ctl_out = 1, !.to_tun = None]),
               "ping_rec")

\* mutant: a packet is kept for a device that is not open yet
ReceivedData_Closed(x, k) ==
    LET y == TimerReset([x EXCEPT !.addr = TRUE, !.conn = @ \/ ~ cfg.tls], "ping_rec")
    IN  CASE k = "data" -> [y EXCEPT !.to_tun = "data"]
          [] k = "ping" -> [y EXCEPT !.to_tun = None]
          [] OTHER      -> [ReceivedOcc(y, k) EXCEPT !.to_tun = None]

\* an authenticated packet of the data channel
ReceivedData(x, k) ==
    LET y == TimerReset([x EXCEPT !.addr = TRUE, !.conn = @ \/ ~ cfg.tls], "ping_rec")
    IN  CASE k = "data" -> [y EXCEPT !.to_tun = IF x.tun THEN "data" ELSE None]
          [] k = "ping" -> [y EXCEPT !.to_tun = None]
          [] OTHER      -> [ReceivedOcc(y, k) EXCEPT !.to_tun = None]

Control == {"handshake", "PUSH_REPLY", "AUTH_FAILED", "tls_error"}

\* process_incoming_link; decryption errors are fatal in TCP mode
ProcessIncomingLink(x, k) ==
    CASE k \in Control -> ReceivedControl(x, k)
      [] k = "bad"     -> IF cfg.tcp THEN Raise(x, "USR1") ELSE [x EXCEPT !.to_tun = None]
      [] k = "reset"   -> Raise(x, "USR1")              \* read_incoming_link
      [] OTHER         -> ReceivedData(x, k)

CanArrive(k) ==
    /\ k \in Control => cfg.tls
    /\ k \in {"PUSH_REPLY", "AUTH_FAILED"} => c.conn /\ cfg.pull
    /\ k = "reset" => cfg.tcp
    /\ k \notin Control \cup {"bad", "reset"} => (cfg.tls => c.conn)

ReadLink ==
    /\ AtIo("sockR") /\ status \cap {"sockW", "tunW"} = {}
    /\ used.link < MaxLink
    /\ \E k \in {k \in LinkPackets : CanArrive(k)},
          left \in IF cfg.tcp /\ used.link + 1 < MaxLink THEN {None, "whole"} ELSE {None} :
            c' = [ProcessIncomingLink(c, k) EXCEPT !.residual = left]
    /\ used' = [used EXCEPT !.link = @ + 1]
    /\ UNCHANGED <<cfg, now, req, until, status>>

\* read_incoming_tun, process_incoming_tun
ReadTun ==
    /\ AtIo("tunR") /\ status = {"tunR"}
    /\ used.tun < MaxTun
    /\ \E pieces \in IF cfg.frag THEN 1 .. 2 ELSE {1} :
         c' = EncryptSign(c, "data", pieces)
    /\ used' = [used EXCEPT !.tun = @ + 1]
    /\ UNCHANGED <<cfg, now, req, until, status>>

Next ==
    \/ ThrowSignal
    \/ CoarseTimers \/ CoarseTimers2 \/ CoarseTimers3
    \/ PreSelectTls \/ PreSelectRest
    \/ CheckSignal \/ IoWait \/ Wake \/ NextRound
    \/ ProcessOutgoingLink \/ ProcessOutgoingTun \/ ReadLink \/ ReadTun

Spec == Init /\ [][Next]_vars

(***************************************************************************)
(* Properties                                                              *)
(***************************************************************************)
TypeOK ==
    /\ pc \in {"coarse", "coarse2", "coarse3", "tls", "ctl", "post", "wait",
               "post2", "post3", "end"}
    /\ now \in 1 .. MaxTime
    /\ c.to_link \in {None, "data", "frag", "ping", "occ", "tls"}
    /\ c.to_tun \in {None, "data"}
    /\ c.frag \in 0 .. 1
    /\ c.residual \in {None, "whole", "formed"}
    /\ c.tm \in [Timers -> [def : BOOLEAN, n : Nat, last : 0 .. MaxTime]]
    /\ c.load_tries \in 0 .. LoadTests

\* The assertions of the loop: read_incoming_link finds to_tun empty,
\* read_incoming_tun finds to_link empty and no fragment waiting,
\* process_outgoing_tun finds a packet to write, whatever combination of
\* events, of --fast-io and of a packet left in the TCP stream buffer
\* brought process_io there.
LoopAsserts ==
    pc = "post2" /\ c.sig = None =>
      /\ "tunW" \in status /\ "sockW" \notin status => c.to_tun # None
      /\ "sockR" \in status /\ status \cap {"sockW", "tunW"} = {} => c.to_tun = None
      /\ status = {"tunR"} => c.to_link = None /\ c.frag = 0

\* No lost wakeup: when the loop goes to sleep, everything that is pending
\* either ends the sleep when it can be served or limits it: a packet for the
\* socket (or the moment the shaper admits it), a packet for the device (which
\* is then open), an answer to the peer; a received control packet has been
\* handed to TLS and acted upon; and with nothing pending both sides are read.
NoLostWakeup ==
    pc = "wait" /\ c.sig = None =>
      /\ c.to_link # None => "sockW" \in req \/ until <= c.shaper
      /\ c.to_tun # None  => "tunW" \in req
      /\ c.frag # 0       => c.to_link # None
      /\ c.occ_op # None  => until <= now
      /\ c.rx = None /\ c.ctl_in = None
      /\ c.to_tun = None  => "sockR" \in req
      /\ ~ ToLinkDef(c) /\ c.tun => "tunR" \in req

\* How late a timer may be looked at.  With --pull the timers that the server pushed are started after the
\* look at the timers, and TLS is served every refresh seconds.  A ping waits for to_link, which a fragment that
\* cannot be sent leaves only later in the round; --ping-timer-rem looks for a peer every 15 seconds.
Grace(t) ==
    (IF cfg.pull THEN cfg.refresh ELSE 0)
    + (CASE t = "ping_send" /\ (ToLinkDef(c) \/ (cfg.frag /\ (cfg.tls \/ ~ cfg.remote))) -> 1
         [] t = "ping_rec" /\ cfg.timer_remote /\ ~ cfg.remote -> 15
         [] OTHER -> 0)

\* No timer is slept past, although the loop looks at the timers only when
\* the cached coarse_timer_wakeup has passed and a timer may be started after
\* that look: the wait ends by the deadline of every timer that is running
\* (or as soon as its grace allows), and by the time TLS asked for.
TimersServed ==
    pc = "wait" /\ c.sig = None =>
      /\ \A t \in Timers : c.tm[t].def => until <= Max({Deadline(c, t), now + Grace(t)})
      /\ cfg.tls => until <= c.wake

\* A packet that was accepted is not overwritten: to_link is emptied only by
\* process_outgoing_link, to_tun only by process_outgoing_tun, and a packet is
\* cut into fragments only when none of an earlier one are left.
NeverOverwritten ==
    [][/\ c.to_link # None /\ c'.to_link # c.to_link => pc = "post2" /\ "sockW" \in status
       /\ c.to_tun # None /\ c'.to_tun # c.to_tun => pc = "post2" /\ "tunW" \in status
       /\ c.frag # 0 => c'.frag \in {c.frag, c.frag - 1}]_vars

\* After SIGTERM with --explicit-exit-notify n the loop runs on, and ends on
\* its own n seconds later, not a second after that, whatever arrives.
ExitBounded ==
    c.exit_wait # 0 /\ pc = "wait" => until <= c.exit_wait + cfg.exit_notify

\* The loop's assertions hold with any traffic, it ends when it was told to, and it
\* never sleeps on something it could serve, nor past a timer.
LoopInv == TypeOK /\ LoopAsserts /\ ExitBounded /\ NoLostWakeup /\ TimersServed
=============================================================================
