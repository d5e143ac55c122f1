------------------------------- MODULE Context -------------------------------
(***************************************************************************)
(* The life of an OpenVPN process in point-to-point mode: the two restart  *)
(* loops of main (openvpn.c), the initialisation and the teardown of a     *)
(* tunnel instance (init.c) and the signals that drive them (sig.c).       *)
(*                                                                         *)
(* A signal handler may run between any two steps: it overwrites           *)
(* siginfo_static, which init_instance and main also clear, and which      *)
(* every do_close_... function reads again for itself.  The state of a     *)
(* context that outlives a SIGUSR1 restart (c1) and the state that does    *)
(* not (c2) are fields of one record, ctx, with what the operating system  *)
(* holds on the process's behalf: device handles and routes.               *)
(***************************************************************************)
EXTENDS Naturals

CONSTANTS
    Opts,       \* the option records the process may be started with
    Replies,    \* the option strings a server may push
    MaxAsync,   \* bound on signals delivered by a handler or the management
    MaxSoft     \* bound on signals the event loop raises itself

None == "none"
Local == "local"                    \* the options of the configuration file

ASSUME ContextAssumption ==
    /\ Opts \subseteq
         [pull : BOOLEAN, up_delay : BOOLEAN, persist_tun : BOOLEAN, persist_key : BOOLEAN,
          persist_remote_ip : BOOLEAN, route_delay : BOOLEAN, daemon : BOOLEAN, user : BOOLEAN,
          inetd : BOOLEAN, remap : {None, "HUP", "TERM"}, notify : BOOLEAN, management : BOOLEAN,
          hold : BOOLEAN, auth_retry : BOOLEAN, secret : BOOLEAN, plugins : BOOLEAN, oneshot : BOOLEAN]
    /\ None \notin Replies
    /\ MaxAsync \in Nat /\ MaxSoft \in Nat

VARIABLES
    opt,        \* the options, fixed by ContextInit
    pc,         \* where the process is
    sig,        \* siginfo_static: signal_received and hard
    handler,    \* which handlers are installed
    ctx,        \* contexts c1 and c2, and what the system holds
    release,    \* the management interface's hold_release
    used,       \* signals delivered so far, against the two bounds
    hist        \* what has happened, for the properties only

ctxVars == <<opt, pc, sig, handler, ctx, release, used, hist>>

Final   == {"exit", "fatal"}
Closing == {"close_keys", "close_socket", "close_tun", "close_rest",
            "after", "hupchk"}
PCs     == Closing \cup Final \cup
           {"main", "hold", "start", "pause", "open", "crypto", "socket_1",
            "tun", "once", "socket_2", "loop", "usr2"}

NoSig == [received |-> None, hard |-> FALSE]

IsSig == sig.received # None

\* c1 zeroed: context_clear_all_except_first_time, context_clear_1
C1Clear(x) ==
    [x EXCEPT !.tun = None, !.saved = None, !.ks = FALSE, !.status = FALSE,
              !.plugins = FALSE, !.pidp = FALSE, !.addr = FALSE]

\* c2 zeroed: context_clear_2
C2Clear(x) ==
    [x EXCEPT !.event_set = FALSE, !.socket = FALSE, !.buffers = FALSE,
              !.tls = FALSE, !.did_open_tun = FALSE, !.do_up_ran = FALSE,
              !.daemonized = FALSE, !.uid_gid_set = FALSE, !.pulled = None,
              !.exit_wait = FALSE, !.wakeup = FALSE, !.push_wait = FALSE,
              !.connected = FALSE, !.completed = FALSE]

CtxInit ==
    [first_time |-> TRUE, root |-> TRUE, daemons |-> 0, params |-> Local,
     tun |-> None, saved |-> None, ks |-> FALSE, status |-> FALSE,
     plugins |-> FALSE, pidp |-> FALSE, addr |-> FALSE,
     event_set |-> FALSE, socket |-> FALSE, buffers |-> FALSE, tls |-> FALSE,
     did_open_tun |-> FALSE, do_up_ran |-> FALSE, daemonized |-> FALSE,
     uid_gid_set |-> FALSE, pulled |-> None, exit_wait |-> FALSE,
     wakeup |-> FALSE, push_wait |-> FALSE, connected |-> FALSE,
     completed |-> FALSE,
     handles |-> 0, routes |-> None]

ContextInit ==
    /\ opt \in Opts
    /\ pc = "main"
    /\ sig = NoSig
    /\ handler = "default"
    /\ ctx = CtxInit
    /\ release = FALSE
    /\ used = [async |-> 0, soft |-> 0]
    /\ hist = [raced |-> FALSE, lost |-> FALSE, pushed |-> None]

-----------------------------------------------------------------------------
(* Operations on the context                                               *)

Delayed == opt.up_delay \/ opt.pull

\* add_routes, the route-up plugin and script
DoRoute(x) == [x EXCEPT !.routes = x.tun]

DeleteRoutes(x) == [x EXCEPT !.routes = None]

\* drop the uid and gid, once per program, now or when initialisation ends
DoUidGidChroot(x, noDelay) ==
    IF x.first_time /\ ~x.uid_gid_set /\ noDelay
    THEN [x EXCEPT !.root = @ /\ ~opt.user, !.uid_gid_set = TRUE]
    ELSE x

\* pid file, daemon, nice: meant to be executed once per program
DoInitFirstTime(x) ==
    IF x.first_time /\ ~x.daemonized
    THEN [x EXCEPT !.daemonized = opt.daemon,
                   !.daemons = IF opt.daemon THEN @ + 1 ELSE @]
    ELSE x

InitializationSequenceCompleted(x) ==
    [DoUidGidChroot(x, TRUE) EXCEPT !.completed = TRUE]

\* the tun branch of do_open_tun: device, ifconfig, up script, routes
OpenedTun(x) ==
    [x EXCEPT !.tun = x.params, !.handles = @ + 1, !.did_open_tun = TRUE]

\* mutant: the device is opened even when one was preserved.
DoOpenTun_Always(x) ==
    IF opt.route_delay THEN OpenedTun(x) ELSE DoRoute(OpenedTun(x))

DoOpenTun(x) ==
    IF x.tun # None
    THEN [x EXCEPT !.did_open_tun = FALSE]     \* preserve the previous one
    ELSE IF opt.route_delay THEN OpenedTun(x) ELSE DoRoute(OpenedTun(x))

CloseTunSimple(x) ==
    [x EXCEPT !.tun = None, !.saved = None, !.handles = @ - 1]

\* mutant: closing does not ask whether there is a device.
DoCloseTun_Unguarded(x, force) ==
    IF force \/ ~(sig.received = "USR1" /\ opt.persist_tun)
    THEN CloseTunSimple(DeleteRoutes(x)) ELSE x

\* mutant: --persist-tun keeps the device whatever the signal.
DoCloseTun_Keep(x, force) ==
    IF x.tun # None /\ (force \/ ~opt.persist_tun)
    THEN CloseTunSimple(DeleteRoutes(x)) ELSE x

\* mutant: --persist-tun is not looked at.
DoCloseTun_Never(x, force) ==
    IF x.tun # None THEN CloseTunSimple(DeleteRoutes(x)) ELSE x

\* routes first, then the device and the down script
DoCloseTun(x, force) ==
    IF x.tun # None
         /\ (force \/ ~(sig.received = "USR1" /\ opt.persist_tun))
    THEN CloseTunSimple(DeleteRoutes(x))
    ELSE x

\* mutant: any two option strings are taken for equal.
PulledChanged_NoCompare(x) ==
    ~x.did_open_tun /\ opt.pull /\ x.tun # None
      /\ (x.saved = None \/ x.pulled = None)

\* the pulled options differ from the ones the persisted device was set up for
PulledChanged(x) ==
    ~x.did_open_tun /\ opt.pull /\ x.tun # None
      /\ (x.saved = None \/ x.pulled = None \/ x.saved # x.pulled)

Reopen(x) == IF PulledChanged(x) THEN DoOpenTun(DoCloseTun(x, TRUE)) ELSE x

\* save the pulled string, then start the route timer or finish
DoUpFinish(x) ==
    IF ~x.did_open_tun
    THEN InitializationSequenceCompleted(x)
    ELSE IF opt.route_delay
    THEN [x EXCEPT !.saved = x.pulled, !.wakeup = TRUE]
    ELSE InitializationSequenceCompleted([x EXCEPT !.saved = x.pulled])

DoUp(x) ==
    IF x.do_up_ran
    THEN x
    ELSE [DoUpFinish(IF Delayed THEN Reopen(DoOpenTun(x)) ELSE x)
            EXCEPT !.do_up_ran = TRUE]

-----------------------------------------------------------------------------
(* Signals                                                                 *)

\* a signal replaces the one received before it, whatever that was
ThrowSignal(s, h) ==
    /\ sig' = [received |-> s, hard |-> h]
    /\ hist' = [hist EXCEPT
                  !.raced = @ \/ pc \in Closing,
                  !.lost = @ \/ (sig.received = "TERM" /\ s # "TERM")]

\* the handlers installed before and after initialisation
Caught(s) ==
    \/ handler = "normal"
    \/ handler = "init" /\ s \in {"TERM", "HUP"}

\* a signal from outside: signal_handler
Async(s) ==
    /\ pc \notin Final
    /\ Caught(s)
    /\ used.async < MaxAsync
    /\ used' = [used EXCEPT !.async = @ + 1]
    /\ ThrowSignal(s, TRUE)
    /\ UNCHANGED <<opt, pc, handler, ctx, release>>

\* the management command "signal", while the process listens to it
ManSignal(s) ==
    /\ opt.management
    /\ pc \in {"hold", "pause", "loop"}
    /\ used.async < MaxAsync
    /\ used' = [used EXCEPT !.async = @ + 1]
    /\ ThrowSignal(s, TRUE)
    /\ UNCHANGED <<opt, pc, handler, ctx, release>>

\* the management command "hold release", and the client going away
HoldRelease ==
    /\ opt.hold /\ ~release /\ pc \in {"hold", "pause", "loop"}
    /\ release' = TRUE
    /\ UNCHANGED <<opt, pc, sig, handler, ctx, used, hist>>

ManDisconnect ==
    /\ opt.hold /\ release /\ pc = "loop"
    /\ release' = FALSE
    /\ UNCHANGED <<opt, pc, sig, handler, ctx, used, hist>>

\* the event loop raises a signal itself and leaves "hard" as it is: ping
\* timeouts, TLS errors, connection resets, authentication failure, exits
SoftSignal(s) ==
    /\ pc = "loop"
    /\ used.soft < MaxSoft
    /\ used' = [used EXCEPT !.soft = @ + 1]
    /\ ThrowSignal(s, sig.hard)
    /\ UNCHANGED <<opt, pc, handler, ctx, release>>

-----------------------------------------------------------------------------
(* main, and init_instance                                                 *)

GotoPc(p) == pc' = p

\* the top of the SIGHUP loop: zero the context, read the options
Main ==
    /\ pc = "main"
    /\ ctx' = [C2Clear(C1Clear(ctx)) EXCEPT !.params = Local]
    /\ sig' = NoSig
    /\ hist' = [hist EXCEPT !.lost = @ \/ sig.received = "TERM" \/ ctx.exit_wait]
    /\ GotoPc(IF opt.oneshot THEN "exit"
            ELSE IF opt.management THEN "hold" ELSE "start")
    /\ UNCHANGED <<opt, handler, release, used>>

\* open_management: daemonise before a hold, and exit on a signal
OpenManagement ==
    /\ pc = "hold"
    /\ ~opt.hold \/ release \/ IsSig
    /\ ctx' = IF opt.hold /\ opt.daemon THEN DoInitFirstTime(ctx) ELSE ctx
    /\ GotoPc(IF IsSig THEN "exit" ELSE "start")
    /\ UNCHANGED <<opt, sig, handler, release, used, hist>>

\* mutant: the signal that caused the restart is not cleared.
StartInstance_NoClear ==
    /\ pc = "start"
    /\ ctx' = C2Clear(ctx)
    /\ handler' = "init"
    /\ GotoPc("pause")
    /\ UNCHANGED <<opt, sig, release, used, hist>>

\* tunnel_point_to_point and the head of init_instance
StartInstance ==
    /\ pc = "start"
    /\ ctx' = C2Clear(ctx)
    /\ handler' = "init"
    /\ sig' = NoSig
    /\ hist' = [hist EXCEPT !.lost = @ \/ sig.received = "TERM" \/ ctx.exit_wait,
                            !.pushed = None]
    /\ GotoPc("pause")
    /\ UNCHANGED <<opt, release, used>>

\* init_instance's "goto sig": close_context with CC_HARD_USR1_TO_HUP
CloseContext ==
    /\ sig' = IF sig.received = "USR1" /\ sig.hard
              THEN [sig EXCEPT !.received = "HUP"] ELSE sig
    /\ GotoPc("close_keys")

\* do_startup_pause: a management hold, or a sleep before a restart
StartupPause ==
    /\ pc = "pause"
    /\ ~opt.hold \/ release \/ IsSig
    /\ IF IsSig THEN CloseContext ELSE GotoPc("open") /\ UNCHANGED sig
    /\ UNCHANGED <<opt, handler, ctx, release, used, hist>>

\* plugins, status file, event set, socket and fragment objects
OpenObjects ==
    /\ pc = "open"
    /\ ctx' = [ctx EXCEPT !.plugins = opt.plugins, !.status = TRUE,
                          !.event_set = TRUE, !.socket = TRUE]
    /\ GotoPc("crypto")
    /\ UNCHANGED <<opt, sig, handler, release, used, hist>>

\* mutant: keys are read in the first iteration only.
InitCrypto_Once ==
    /\ pc = "crypto"
    /\ ctx' = [ctx EXCEPT !.pidp = TRUE, !.ks = @ \/ ctx.first_time,
                          !.tls = ~opt.secret]
    /\ IF IsSig THEN CloseContext ELSE GotoPc("socket_1") /\ UNCHANGED sig
    /\ UNCHANGED <<opt, handler, release, used, hist>>

\* do_init_crypto: persisted packet ids, key material kept in c1 or read again
InitCrypto ==
    /\ pc = "crypto"
    /\ ctx' = [ctx EXCEPT !.pidp = TRUE, !.ks = TRUE, !.tls = ~opt.secret]
    /\ IF IsSig THEN CloseContext ELSE GotoPc("socket_1") /\ UNCHANGED sig
    /\ UNCHANGED <<opt, handler, release, used, hist>>

\* the private key's password is wrong and --auth-retry asks for another try
InitCryptoFails ==
    /\ pc = "crypto" /\ ~ctx.ks /\ ~opt.secret /\ opt.auth_retry
    /\ used.soft < MaxSoft
    /\ used' = [used EXCEPT !.soft = @ + 1]
    /\ ctx' = [ctx EXCEPT !.pidp = TRUE]
    /\ sig' = [sig EXCEPT !.received = IF sig.hard THEN "HUP" ELSE "USR1"]
    /\ hist' = [hist EXCEPT !.lost = @ \/ sig.received = "TERM"]
    /\ GotoPc("close_keys")
    /\ UNCHANGED <<opt, handler, release>>

\* frame sizes, buffers, and the socket bound
InitSocket1 ==
    /\ pc = "socket_1"
    /\ ctx' = [ctx EXCEPT !.buffers = TRUE]
    /\ GotoPc("tun")
    /\ UNCHANGED <<opt, sig, handler, release, used, hist>>

\* the device is opened here unless --up-delay or --pull puts it off
InitTun ==
    /\ pc = "tun"
    /\ ctx' = IF Delayed THEN ctx ELSE DoOpenTun(ctx)
    /\ GotoPc("once")
    /\ UNCHANGED <<opt, sig, handler, release, used, hist>>

\* do_init_first_time, do_uid_gid_chroot
InitOnce ==
    /\ pc = "once"
    /\ ctx' = DoUidGidChroot(DoInitFirstTime(ctx), ctx.did_open_tun)
    /\ GotoPc("socket_2")
    /\ UNCHANGED <<opt, sig, handler, release, used, hist>>

\* the socket connected (a signal breaks the attempt), timers, handlers
InitSocket2 ==
    /\ pc = "socket_2"
    /\ IF IsSig
       THEN CloseContext /\ UNCHANGED <<ctx, handler>>
       ELSE /\ ctx' = [ctx EXCEPT !.addr = TRUE]
            /\ handler' = "normal"
            /\ GotoPc("loop")
            /\ UNCHANGED sig
    /\ UNCHANGED <<opt, release, used, hist>>

\* key files, the bound socket and the device: an error there is M_FATAL
InitFatal ==
    /\ \/ pc = "crypto" /\ ~ctx.ks
       \/ pc = "socket_1"
       \/ pc = "tun" /\ ~Delayed /\ ctx.tun = None
    /\ GotoPc("fatal")
    /\ UNCHANGED <<opt, sig, handler, ctx, release, used, hist>>

-----------------------------------------------------------------------------
(* The event loop                                                          *)

\* check_connection_established: ask for the options, or bring the tunnel up
ConnectionEstablished ==
    /\ pc = "loop" /\ ~ctx.connected
    /\ ctx' = IF opt.pull
              THEN [ctx EXCEPT !.connected = TRUE, !.push_wait = TRUE]
              ELSE [DoUp(ctx) EXCEPT !.connected = TRUE]
    /\ UNCHANGED <<opt, pc, sig, handler, release, used, hist>>

\* incoming_push_message: a reply with options, or an empty one, which leaves
\* the options of an earlier reply in force
PushReply(r) ==
    /\ pc = "loop" /\ opt.pull /\ ctx.connected
    /\ LET x == IF r = None THEN ctx
                ELSE [ctx EXCEPT !.params = r, !.pulled = r]
       IN  ctx' = [DoUp(x) EXCEPT !.push_wait = FALSE]
    /\ hist' = IF ctx.do_up_ran THEN hist ELSE [hist EXCEPT !.pushed = r]
    /\ UNCHANGED <<opt, pc, sig, handler, release, used>>

\* a reply one of whose options is refused: the options before it stay applied
PushReplyBad(r) ==
    /\ pc = "loop" /\ opt.pull /\ ctx.push_wait
    /\ ctx' = [ctx EXCEPT !.params = r, !.pulled = r]
    /\ UNCHANGED <<opt, pc, sig, handler, release, used, hist>>

\* check_add_routes: the interface is up, or route_wakeup_expire has passed
AddRoutes ==
    /\ pc = "loop" /\ ctx.wakeup
    /\ ctx' = InitializationSequenceCompleted(
                  DoRoute([ctx EXCEPT !.wakeup = FALSE]))
    /\ UNCHANGED <<opt, pc, sig, handler, release, used, hist>>

Remapped == IF sig.received = "USR1" /\ opt.remap # None
            THEN opt.remap ELSE sig.received

\* process_signal_p2p; a first SIGTERM may start the exit notification instead
ProcessSignal ==
    /\ pc = "loop" /\ IsSig
    /\ \/ /\ Remapped = "TERM" /\ opt.notify /\ ~ctx.exit_wait
          /\ ctx' = [ctx EXCEPT !.exit_wait = TRUE]
          /\ sig' = NoSig
          /\ UNCHANGED pc
       \/ /\ Remapped = "USR2"
          /\ GotoPc("usr2")
          /\ sig' = [sig EXCEPT !.received = Remapped]
          /\ UNCHANGED ctx
       \/ /\ Remapped # "USR2"
          /\ ~(Remapped = "TERM" /\ opt.notify /\ ~ctx.exit_wait)
          /\ GotoPc("close_keys")
          /\ sig' = [sig EXCEPT !.received = Remapped]
          /\ UNCHANGED ctx
    /\ UNCHANGED <<opt, handler, release, used, hist>>

\* process_sigusr2: the status is printed, then whatever is pending is reset
ProcessSigusr2 ==
    /\ pc = "usr2"
    /\ sig' = NoSig
    /\ hist' = [hist EXCEPT !.lost = @ \/ sig.received = "TERM"]
    /\ GotoPc("loop")
    /\ UNCHANGED <<opt, handler, ctx, release, used>>

\* mutant: the timer only ever sends another notification.
ExitNotificationTimer_Forever ==
    /\ pc = "loop" /\ ctx.exit_wait
    /\ UNCHANGED ctxVars

\* explicit_exit_notification_interval: the time-wait is over
ExitNotificationTimer ==
    /\ pc = "loop" /\ ctx.exit_wait
    /\ ThrowSignal("TERM", sig.hard)
    /\ UNCHANGED <<opt, pc, handler, ctx, release, used>>

-----------------------------------------------------------------------------
(* close_instance, and the tests of the two loops                          *)

Restarting == sig.received = "USR1"

\* event set, inetd check, buffers, TLS, key schedule
CloseKeys ==
    /\ pc = "close_keys"
    /\ sig' = IF opt.inetd /\ sig.received \in {"HUP", "USR1"}
              THEN [sig EXCEPT !.received = "TERM"] ELSE sig
    /\ ctx' = [ctx EXCEPT !.event_set = FALSE, !.buffers = FALSE, !.tls = FALSE,
                          !.ks = @ /\ sig'.received = "USR1" /\ opt.persist_key]
    /\ GotoPc("close_socket")
    /\ UNCHANGED <<opt, handler, release, used, hist>>

CloseSocket ==
    /\ pc = "close_socket"
    /\ ctx' = [ctx EXCEPT !.socket = FALSE,
                          !.addr = @ /\ Restarting /\ opt.persist_remote_ip]
    /\ GotoPc("close_tun")
    /\ UNCHANGED <<opt, sig, handler, release, used, hist>>

CloseTun ==
    /\ pc = "close_tun"
    /\ ctx' = DoCloseTun(ctx, FALSE)
    /\ GotoPc("close_rest")
    /\ UNCHANGED <<opt, sig, handler, release, used, hist>>

\* plugins, packet-id file, status file, fragments; then the new handlers
CloseRest ==
    /\ pc = "close_rest"
    /\ ctx' = [ctx EXCEPT !.plugins = @ /\ Restarting,
                          !.pidp = @ /\ Restarting,
                          !.status = @ /\ Restarting]
    /\ handler' = "normal"
    /\ GotoPc("after")
    /\ UNCHANGED <<opt, sig, release, used, hist>>

\* the end of the SIGUSR1 loop of main
UsrLoop ==
    /\ pc = "after"
    /\ ctx' = [ctx EXCEPT !.first_time = FALSE]
    /\ GotoPc(IF Restarting THEN "start" ELSE "hupchk")
    /\ UNCHANGED <<opt, sig, handler, release, used, hist>>

\* the end of the SIGHUP loop of main
HupLoop ==
    /\ pc = "hupchk"
    /\ GotoPc(IF sig.received = "HUP" THEN "main" ELSE "exit")
    /\ UNCHANGED <<opt, sig, handler, ctx, release, used, hist>>

-----------------------------------------------------------------------------
InitInstance == \/ StartInstance \/ StartupPause \/ OpenObjects \/ InitCrypto
                \/ InitCryptoFails \/ InitSocket1 \/ InitTun \/ InitOnce
                \/ InitSocket2 \/ InitFatal

CloseInstance == CloseKeys \/ CloseSocket \/ CloseTun \/ CloseRest

EventLoop == \/ ConnectionEstablished \/ AddRoutes \/ ProcessSignal
             \/ ProcessSigusr2 \/ ExitNotificationTimer
             \/ \E r \in Replies \cup {None} : PushReply(r)
             \/ \E r \in Replies : PushReplyBad(r)

CtxSignals == \/ \E s \in {"TERM", "HUP", "USR1", "USR2"} : Async(s) \/ ManSignal(s)
           \/ \E s \in {"TERM", "USR1"} : SoftSignal(s)

MainLoops == Main \/ OpenManagement \/ UsrLoop \/ HupLoop

\* an iteration of the event loop with nothing to do, and the end
Idle == pc \in Final \cup {"loop"} /\ UNCHANGED ctxVars

CtxNext == \/ MainLoops \/ InitInstance \/ EventLoop \/ CloseInstance
        \/ CtxSignals \/ HoldRelease \/ ManDisconnect \/ Idle

(* The process keeps running (weak fairness of its own steps); signals, the *)
(* management client and the peer owe it nothing, except that the timer of *)
(* the exit notification is a clock.                                       *)
CtxFairness ==
    /\ WF_ctxVars(MainLoops)
    /\ WF_ctxVars(InitInstance)
    /\ WF_ctxVars(CloseInstance)
    /\ WF_ctxVars(ProcessSignal \/ ProcessSigusr2)
    /\ WF_ctxVars(ExitNotificationTimer)

CtxSpec == ContextInit /\ [][CtxNext]_ctxVars /\ CtxFairness
-----------------------------------------------------------------------------
(* Properties                                                              *)

CtxTypeOK ==
    /\ opt \in Opts
    /\ pc \in PCs
    /\ sig \in [received : {None, "TERM", "HUP", "USR1", "USR2"}, hard : BOOLEAN]
    /\ handler \in {"default", "init", "normal"}
    /\ {ctx.tun, ctx.saved, ctx.pulled, ctx.routes, ctx.params}
         \subseteq Replies \cup {None, Local}
    /\ ctx.handles \in Nat /\ ctx.daemons \in Nat
    /\ release \in BOOLEAN
    /\ used \in [async : 0..MaxAsync, soft : 0..MaxSoft]

\* The device the context knows is the only one the process holds: no restart
\* forgets one or opens a second one (do_open_tun, do_close_tun,
\* context_clear), unless a signal came in while the instance was being closed.
TunAccounted ==
    hist.raced \/ ctx.handles = (IF ctx.tun = None THEN 0 ELSE 1)

\* When the process exits it has closed what it opened: the device, the routes,
\* plugins, files, keys and sockets, however many restarts came before (again
\* unless a signal came in while the instance was being closed).
ExitClean ==
    pc = "exit" /\ ~hist.raced =>
        /\ ctx.handles = 0 /\ ctx.routes = None
        /\ ~ctx.plugins /\ ~ctx.status /\ ~ctx.pidp /\ ~ctx.ks
        /\ ~ctx.event_set /\ ~ctx.socket /\ ~ctx.buffers /\ ~ctx.tls

\* Once initialisation is announced complete, the device and the routes are
\* those the server pushed in this session, also when the device was kept from
\* the session before (--persist-tun), and the routes are there, except where
\* --route-delay and --persist-tun meet.
PulledInForce ==
    pc = "loop" /\ ctx.completed /\ ~hist.raced =>
        /\ ctx.tun # None
        /\ opt.pull /\ hist.pushed # None => ctx.tun = hist.pushed
        /\ ~(opt.route_delay /\ opt.persist_tun) => ctx.routes = ctx.tun

\* In the event loop every object that a tunnel needs is there.
LoopEquipped ==
    pc = "loop" => /\ ctx.event_set /\ ctx.socket /\ ctx.buffers /\ ctx.ks
                   /\ ctx.tls = ~opt.secret
                   /\ ctx.status /\ ctx.plugins = opt.plugins
                   /\ ~Delayed => ctx.tun # None

\* A device kept over a restart is the very one that comes back: a SIGUSR1
\* restart with --persist-tun never closes it, only new options or another
\* signal do.
PersistTun ==
    [][ctx.tun # None /\ ctx'.tun = None =>
         \/ ~opt.persist_tun
         \/ pc = "close_tun" /\ sig.received # "USR1"
         \/ pc = "main" /\ hist.raced]_ctxVars

\* A pending SIGTERM ends the program, through the exit notification too, or
\* has been overwritten by another signal or by a restart (hist.lost).
TermEnds == (sig.received = "TERM" /\ pc = "loop") ~> (pc \in Final \/ hist.lost)

\* A restart comes back to the event loop, unless the management interface
\* holds it; failed attempts and further signals only delay it.
Held == pc \in {"hold", "pause"} /\ opt.hold /\ ~release
RestartReturns ==
    (pc = "after" /\ sig.received = "USR1") ~> (pc \in Final \cup {"loop"} \/ Held)

\* What the process holds, over any number of restarts: one device and its routes, those
\* the server pushed last, all that a running tunnel needs, and at exit nothing.
CtxInv == CtxTypeOK /\ TunAccounted /\ ExitClean /\ PulledInForce /\ LoopEquipped

\* A restart comes back, and with --persist-tun it comes back to the same device; SIGTERM ends
\* the program.
Restarts == PersistTun /\ RestartReturns /\ TermEnds
=============================================================================
