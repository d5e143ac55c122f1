---------------------------- MODULE ContextProofs ----------------------------
(***************************************************************************)
(* Proofs about Context: what the process holds over any sequence of       *)
(* restarts, and the promise of --persist-tun.                             *)
(*                                                                         *)
(* The invariant CxInv says what is there at each place of the program:    *)
(* DevOK relates the device to its handle, its routes and the options it   *)
(* was opened for, Equipped what init_instance has set up so far,          *)
(* OwnDevice whose device it is without --persist-tun, Progress how far    *)
(* do_up has come, and Closed what close_instance has closed so far.       *)
(*                                                                         *)
(* At the end, the management interface, with its own invariant ManState.  *)
(***************************************************************************)
EXTENDS Context, Management, TLAPS

\* The types of the context.
Strings == Replies \cup {None, Local}
CtxRec ==
    [first_time : BOOLEAN, root : BOOLEAN, daemons : Nat, params : Strings,
     tun : Strings, saved : Strings, ks : BOOLEAN, status : BOOLEAN,
     plugins : BOOLEAN, pidp : BOOLEAN, addr : BOOLEAN,
     event_set : BOOLEAN, socket : BOOLEAN, buffers : BOOLEAN, tls : BOOLEAN,
     did_open_tun : BOOLEAN, do_up_ran : BOOLEAN, daemonized : BOOLEAN,
     uid_gid_set : BOOLEAN, pulled : Strings, exit_wait : BOOLEAN,
     wakeup : BOOLEAN, push_wait : BOOLEAN, connected : BOOLEAN,
     completed : BOOLEAN, handles : Nat, routes : Strings]

\* The device: a handle for the one that is known, its routes, the pulled options it was
\* opened for, and those that the next one would be opened for.
DevOK(x, raced) ==
    /\ x.params # None
    /\ x.tun # None => x.handles >= 1
    /\ ~raced => x.handles = (IF x.tun = None THEN 0 ELSE 1)
    /\ ~raced => x.routes \in {None, x.tun}
    /\ ~opt.route_delay /\ x.tun # None => x.routes = x.tun
    /\ x.saved # None => x.tun = x.saved
    /\ x.pulled # None => x.params = x.pulled
    /\ ~opt.pull => x.pulled = None

\* What init_instance has set up when it is at p.
Equipped(x, p) ==
    /\ p \in {"crypto", "socket_1", "tun", "once", "socket_2", "loop", "usr2"} =>
          x.event_set /\ x.socket /\ x.status /\ x.plugins = opt.plugins
    /\ p \in {"socket_1", "tun", "once", "socket_2", "loop", "usr2"} => x.ks /\ x.tls = ~opt.secret
    /\ p \in {"tun", "once", "socket_2", "loop", "usr2"} => x.buffers
    /\ p \in {"once", "socket_2", "loop", "usr2"} => (~Delayed => x.tun # None)

\* Without --persist-tun an instance starts with no device: the one it has is its own.
OwnDevice(x, p, raced) ==
    ~opt.persist_tun /\ ~raced =>
        /\ p \in {"start", "pause", "open", "crypto", "socket_1", "tun", "close_rest", "after"} => x.tun = None
        /\ p \in {"once", "socket_2", "loop", "usr2"} => 
             (x.tun # None => x.did_open_tun /\ (Delayed => x.do_up_ran))

\* How far do_up has come in this instance.
Progress(x, p, h) ==
    /\ p \in {"pause", "open", "crypto", "socket_1", "tun", "once", "socket_2"} =>
          ~x.do_up_ran /\ ~x.completed /\ ~x.wakeup /\ h.pushed = None
    /\ p \in {"loop", "usr2"} =>
          /\ x.do_up_ran => x.tun # None
          /\ x.completed => x.do_up_ran
          /\ x.wakeup => x.do_up_ran
          /\ h.pushed # None => x.do_up_ran /\ x.tun = h.pushed
          /\ x.completed /\ ~h.raced /\ ~(opt.route_delay /\ opt.persist_tun) => x.routes = x.tun

\* How far close_instance has come for the signal s.
Unused(x) == ~x.event_set /\ ~x.buffers /\ ~x.tls
Clean(x) ==
    /\ Unused(x) /\ ~x.socket /\ ~x.plugins /\ ~x.status /\ ~x.pidp /\ ~x.ks
    /\ x.tun = None /\ x.routes = None
Closed(x, p, s, raced) ==
    ~raced =>
        /\ p \in {"main", "hold", "hupchk", "exit"} => Clean(x)
        /\ p = "after" => (s # "USR1" => Clean(x))
        /\ p = "close_socket" => Unused(x) /\ (s # "USR1" => ~x.ks)
        /\ p = "close_tun" => Unused(x) /\ ~x.socket /\ (s # "USR1" => ~x.ks)
        /\ p = "close_rest" => Unused(x) /\ ~x.socket /\ (s # "USR1" => ~x.ks /\ x.tun = None /\ x.routes = None)

SigRec == [received : {None, "TERM", "HUP", "USR1", "USR2"}, hard : BOOLEAN]
CxType ==
    /\ opt \in Opts /\ pc \in PCs /\ sig \in SigRec
    /\ handler \in {"default", "init", "normal"} /\ ctx \in CtxRec /\ release \in BOOLEAN
    /\ used \in [async : 0 .. MaxAsync, soft : 0 .. MaxSoft]
    /\ hist \in [raced : BOOLEAN, lost : BOOLEAN, pushed : Replies \cup {None}]
CxInv ==
    /\ CxType /\ DevOK(ctx, hist.raced) /\ Equipped(ctx, pc) /\ OwnDevice(ctx, pc, hist.raced)
    /\ Progress(ctx, pc, hist) /\ Closed(ctx, pc, sig.received, hist.raced)
-----------------------------------------------------------------------------
(* Contexts that agree on the device, on what is set up, on progress.      *)
SameDev(x, y) ==
    /\ y.params = x.params /\ y.tun = x.tun /\ y.saved = x.saved
    /\ y.pulled = x.pulled /\ y.handles = x.handles /\ y.routes = x.routes
SameKit(x, y) ==
    /\ y.event_set = x.event_set /\ y.socket = x.socket /\ y.buffers = x.buffers /\ y.tls = x.tls
    /\ y.ks = x.ks /\ y.status = x.status /\ y.plugins = x.plugins /\ y.pidp = x.pidp
SameRun(x, y) ==
    /\ y.did_open_tun = x.did_open_tun /\ y.do_up_ran = x.do_up_ran
    /\ y.completed = x.completed /\ y.wakeup = x.wakeup

\* The options are Booleans.
LEMMA OptIs ==
    ASSUME opt \in Opts
    PROVE  /\ opt.plugins \in BOOLEAN /\ opt.secret \in BOOLEAN /\ opt.daemon \in BOOLEAN
           /\ opt.remap \in {None, "HUP", "TERM"}
BY ContextAssumption

\* No options, and the options of the configuration file.
LEMMA NoneIs == None \in Strings /\ Local \in Strings /\ Local # None
BY DEF Strings, None, Local

\* context_clear_1
LEMMA C1ClearIs ==
    ASSUME NEW x \in CtxRec
    PROVE  /\ C1Clear(x) \in CtxRec /\ SameRun(x, C1Clear(x))
           /\ C1Clear(x).tun = None /\ C1Clear(x).saved = None /\ C1Clear(x).handles = x.handles
           /\ C1Clear(x).routes = x.routes /\ C1Clear(x).params = x.params /\ C1Clear(x).pulled = x.pulled
           /\ ~C1Clear(x).ks /\ ~C1Clear(x).status /\ ~C1Clear(x).plugins /\ ~C1Clear(x).pidp
<1>1. C1Clear(x) \in CtxRec
  <2> DEFINE no == FALSE
             y == [x EXCEPT !.tun = None, !.saved = None]
             z == [y EXCEPT !.ks = no, !.status = no]
  <2>1. C1Clear(x) = [z EXCEPT !.plugins = no, !.pidp = no, !.addr = no]
    BY DEF C1Clear
  <2>2. no \in BOOLEAN /\ None \in Strings
    BY NoneIs
  <2> HIDE DEF no
  <2>3. y \in CtxRec
    BY <2>2 DEF CtxRec
  <2> HIDE DEF y
  <2>4. z \in CtxRec
    BY <2>2, <2>3 DEF CtxRec
  <2> HIDE DEF z
  <2>5. [z EXCEPT !.plugins = no, !.pidp = no, !.addr = no] \in CtxRec
    BY <2>2, <2>4 DEF CtxRec
  <2> QED
    BY <2>1, <2>5
<1>2. SameRun(x, C1Clear(x))
  BY DEF CtxRec, C1Clear, SameRun
<1>3. /\ C1Clear(x).tun = None /\ C1Clear(x).saved = None /\ C1Clear(x).handles = x.handles
      /\ C1Clear(x).routes = x.routes /\ C1Clear(x).params = x.params /\ C1Clear(x).pulled = x.pulled
  BY DEF CtxRec, C1Clear
<1>4. ~C1Clear(x).ks /\ ~C1Clear(x).status /\ ~C1Clear(x).plugins /\ ~C1Clear(x).pidp
  BY DEF CtxRec, C1Clear
<1> QED
  BY <1>1, <1>2, <1>3, <1>4

\* context_clear_2
LEMMA C2ClearIs ==
    ASSUME NEW x \in CtxRec
    PROVE  /\ C2Clear(x) \in CtxRec
           /\ C2Clear(x).tun = x.tun /\ C2Clear(x).saved = x.saved /\ C2Clear(x).handles = x.handles
           /\ C2Clear(x).routes = x.routes /\ C2Clear(x).params = x.params /\ C2Clear(x).pulled = None
           /\ Unused(C2Clear(x)) /\ ~C2Clear(x).socket
           /\ C2Clear(x).ks = x.ks /\ C2Clear(x).status = x.status
           /\ C2Clear(x).plugins = x.plugins /\ C2Clear(x).pidp = x.pidp
           /\ ~C2Clear(x).do_up_ran /\ ~C2Clear(x).completed /\ ~C2Clear(x).wakeup
<1>1. C2Clear(x) \in CtxRec
  <2> DEFINE no == FALSE
             y1 == [x EXCEPT !.event_set = no, !.socket = no, !.buffers = no]
             y2 == [y1 EXCEPT !.tls = no, !.did_open_tun = no, !.do_up_ran = no]
             y3 == [y2 EXCEPT !.daemonized = no, !.uid_gid_set = no, !.pulled = None]
             y4 == [y3 EXCEPT !.exit_wait = no, !.wakeup = no, !.push_wait = no]
  <2>1. C2Clear(x) = [y4 EXCEPT !.connected = no, !.completed = no]
    BY DEF C2Clear
  <2>2. no \in BOOLEAN /\ None \in Strings
    BY NoneIs
  <2> HIDE DEF no
  <2>3. y1 \in CtxRec
    BY <2>2 DEF CtxRec
  <2> HIDE DEF y1
  <2>4. y2 \in CtxRec
    BY <2>2, <2>3 DEF CtxRec
  <2> HIDE DEF y2
  <2>5. y3 \in CtxRec
    BY <2>2, <2>4 DEF CtxRec
  <2> HIDE DEF y3
  <2>6. y4 \in CtxRec
    BY <2>2, <2>5 DEF CtxRec
  <2> HIDE DEF y4
  <2>7. [y4 EXCEPT !.connected = no, !.completed = no] \in CtxRec
    BY <2>2, <2>6 DEF CtxRec
  <2> QED
    BY <2>1, <2>7
<1>2. /\ C2Clear(x).tun = x.tun /\ C2Clear(x).saved = x.saved /\ C2Clear(x).handles = x.handles
      /\ C2Clear(x).routes = x.routes /\ C2Clear(x).params = x.params /\ C2Clear(x).pulled = None
  BY DEF CtxRec, C2Clear
<1>3. Unused(C2Clear(x)) /\ ~C2Clear(x).socket
  BY DEF CtxRec, C2Clear, Unused
<1>4. /\ C2Clear(x).ks = x.ks /\ C2Clear(x).status = x.status
      /\ C2Clear(x).plugins = x.plugins /\ C2Clear(x).pidp = x.pidp
  BY DEF CtxRec, C2Clear
<1>5. ~C2Clear(x).do_up_ran /\ ~C2Clear(x).completed /\ ~C2Clear(x).wakeup
  BY DEF CtxRec, C2Clear
<1> QED
  BY <1>1, <1>2, <1>3, <1>4, <1>5

\* do_init_first_time, do_uid_gid_chroot
LEMMA FirstTimeIs ==
    ASSUME NEW x \in CtxRec, opt \in Opts, NEW b
    PROVE  /\ DoInitFirstTime(x) \in CtxRec /\ SameDev(x, DoInitFirstTime(x))
           /\ SameKit(x, DoInitFirstTime(x)) /\ SameRun(x, DoInitFirstTime(x))
           /\ DoUidGidChroot(x, b) \in CtxRec /\ SameDev(x, DoUidGidChroot(x, b))
           /\ SameKit(x, DoUidGidChroot(x, b)) /\ SameRun(x, DoUidGidChroot(x, b))
<1>1. DoInitFirstTime(x) \in CtxRec
  <2> DEFINE v == opt.daemon
             n == IF opt.daemon THEN x.daemons + 1 ELSE x.daemons
             y == [x EXCEPT !.daemonized = v, !.daemons = n]
  <2>1. DoInitFirstTime(x) = IF x.first_time /\ ~x.daemonized THEN y ELSE x
    BY DEF DoInitFirstTime
  <2>2. v \in BOOLEAN /\ n \in Nat
    BY OptIs DEF CtxRec
  <2> HIDE DEF v, n
  <2>3. y \in CtxRec
    BY <2>2 DEF CtxRec
  <2> HIDE DEF y
  <2> QED
    BY <2>1, <2>3
<1>2. SameDev(x, DoInitFirstTime(x))
  BY DEF DoInitFirstTime, CtxRec, SameDev
<1>3. SameKit(x, DoInitFirstTime(x))
  BY DEF DoInitFirstTime, CtxRec, SameKit
<1>4. SameRun(x, DoInitFirstTime(x))
  BY DEF DoInitFirstTime, CtxRec, SameRun
<1>5. DoUidGidChroot(x, b) \in CtxRec
  <2> DEFINE v == x.root /\ ~opt.user
             y == [x EXCEPT !.root = v, !.uid_gid_set = TRUE]
  <2>1. DoUidGidChroot(x, b) = IF x.first_time /\ ~x.uid_gid_set /\ b THEN y ELSE x
    BY DEF DoUidGidChroot
  <2>2. v \in BOOLEAN
    OBVIOUS
  <2> HIDE DEF v
  <2>3. y \in CtxRec
    BY <2>2 DEF CtxRec
  <2> HIDE DEF y
  <2> QED
    BY <2>1, <2>3
<1>6. SameDev(x, DoUidGidChroot(x, b))
  BY DEF DoUidGidChroot, CtxRec, SameDev
<1>7. SameKit(x, DoUidGidChroot(x, b))
  BY DEF DoUidGidChroot, CtxRec, SameKit
<1>8. SameRun(x, DoUidGidChroot(x, b))
  BY DEF DoUidGidChroot, CtxRec, SameRun
<1> QED
  BY <1>1, <1>2, <1>3, <1>4, <1>5, <1>6, <1>7, <1>8

\* initialization_sequence_completed
LEMMA CompletedIs ==
    ASSUME NEW x \in CtxRec, opt \in Opts
    PROVE  /\ InitializationSequenceCompleted(x) \in CtxRec
           /\ SameDev(x, InitializationSequenceCompleted(x)) /\ SameKit(x, InitializationSequenceCompleted(x))
           /\ InitializationSequenceCompleted(x).completed
           /\ InitializationSequenceCompleted(x).did_open_tun = x.did_open_tun
           /\ InitializationSequenceCompleted(x).do_up_ran = x.do_up_ran
           /\ InitializationSequenceCompleted(x).wakeup = x.wakeup
<1> DEFINE y == DoUidGidChroot(x, TRUE)
           z == [y EXCEPT !.completed = TRUE]
<1>1. y \in CtxRec /\ SameDev(x, y) /\ SameKit(x, y) /\ SameRun(x, y)
  BY FirstTimeIs
<1>2. InitializationSequenceCompleted(x) = z
  BY DEF InitializationSequenceCompleted
<1> HIDE DEF y
<1>3. z \in CtxRec /\ z.completed /\ z.did_open_tun = y.did_open_tun /\ z.do_up_ran = y.do_up_ran /\ z.wakeup = y.wakeup
  BY <1>1 DEF CtxRec
<1>4. SameDev(y, z)
  BY <1>1 DEF CtxRec, SameDev
<1>5. SameKit(y, z)
  BY <1>1 DEF CtxRec, SameKit
<1> HIDE DEF z
<1> QED
  BY <1>1, <1>2, <1>3, <1>4, <1>5 DEF SameDev, SameKit, SameRun

\* do_open_tun: a device is there afterwards, the one that was or one with the parameters
LEMMA OpenTunIs ==
    ASSUME NEW x \in CtxRec, opt \in Opts, NEW raced \in BOOLEAN, DevOK(x, raced),
           NEW y, y = DoOpenTun(x)
    PROVE  /\ y \in CtxRec /\ SameKit(x, y) /\ DevOK(y, raced) /\ y.tun # None
           /\ y.do_up_ran = x.do_up_ran /\ y.completed = x.completed /\ y.wakeup = x.wakeup
           /\ y.pulled = x.pulled /\ y.params = x.params
           /\ x.tun = None => y.tun = x.params /\ y.did_open_tun
           /\ x.tun # None => SameDev(x, y) /\ ~y.did_open_tun
<1>1. CASE x.tun # None
  <2>1. y = [x EXCEPT !.did_open_tun = FALSE]
    BY <1>1 DEF DoOpenTun
  <2>2. y \in CtxRec /\ ~y.did_open_tun
    <3>1. [x EXCEPT !.did_open_tun = FALSE] \in CtxRec
      BY DEF CtxRec
    <3>2. ~y.did_open_tun
      BY <2>1 DEF CtxRec
    <3> QED
      BY <2>1, <3>1, <3>2
  <2>3. SameKit(x, y)
    BY <2>1 DEF CtxRec, SameKit
  <2>4. SameDev(x, y)
    BY <2>1 DEF CtxRec, SameDev
  <2>5. y.do_up_ran = x.do_up_ran /\ y.completed = x.completed /\ y.wakeup = x.wakeup
    BY <2>1 DEF CtxRec
  <2> QED
    BY <1>1, <2>2, <2>3, <2>4, <2>5 DEF DevOK, SameDev
<1>2. CASE x.tun = None
  <2> DEFINE z == OpenedTun(x)
  <2>1. z \in CtxRec /\ z.did_open_tun
    <3> DEFINE p == x.params
               n == x.handles + 1
    <3>1. z = [x EXCEPT !.tun = p, !.handles = n, !.did_open_tun = TRUE]
      BY DEF OpenedTun
    <3>2. p \in Strings /\ n \in Nat
      BY DEF CtxRec
    <3> HIDE DEF z, p, n
    <3> QED
      BY <3>1, <3>2 DEF CtxRec
  <2>2. SameKit(x, z)
    BY DEF CtxRec, SameKit, OpenedTun
  <2>3. z.tun = x.params /\ z.handles = x.handles + 1 /\ z.saved = x.saved /\ z.routes = x.routes
    BY DEF CtxRec, OpenedTun
  <2>4. z.do_up_ran = x.do_up_ran /\ z.completed = x.completed /\ z.wakeup = x.wakeup
        /\ z.pulled = x.pulled /\ z.params = x.params
    BY DEF CtxRec, OpenedTun
  <2>5. y = IF opt.route_delay THEN z ELSE DoRoute(z)
    BY <1>2 DEF DoOpenTun
  <2> HIDE DEF z
  <2>6. x.saved = None /\ x.params # None /\ x.handles \in Nat /\ x.params \in Strings
    BY <1>2 DEF DevOK, CtxRec
  <2>7. CASE opt.route_delay
    <3>1. y = z
      BY <2>5, <2>7
    <3>2. DevOK(y, raced)
      BY <3>1, <2>7, <2>3, <2>4, <2>6, <1>2 DEF DevOK
    <3> QED
      BY <1>2, <3>1, <3>2, <2>1, <2>2, <2>3, <2>4, <2>6
  <2>8. CASE ~opt.route_delay
    <3>1. y = [z EXCEPT !.routes = z.tun]
      BY <2>5, <2>8 DEF DoRoute
    <3>2. y \in CtxRec /\ y.did_open_tun
      BY <3>1, <2>1 DEF CtxRec
    <3>3. SameKit(z, y)
      BY <3>1, <2>1 DEF CtxRec, SameKit
    <3>4. y.tun = z.tun /\ y.handles = z.handles /\ y.saved = z.saved /\ y.routes = z.tun
      BY <3>1, <2>1 DEF CtxRec
    <3>5. y.do_up_ran = z.do_up_ran /\ y.completed = z.completed /\ y.wakeup = z.wakeup
          /\ y.pulled = z.pulled /\ y.params = z.params
      BY <3>1, <2>1 DEF CtxRec
    <3>6. DevOK(y, raced)
      BY <2>8, <3>4, <3>5, <2>3, <2>4, <2>6, <1>2 DEF DevOK
    <3> QED
      BY <1>2, <3>2, <3>3, <3>4, <3>5, <3>6, <2>2, <2>3, <2>4, <2>6 DEF SameKit
  <2> QED
    BY <2>7, <2>8
<1> QED
  BY <1>1, <1>2

\* The condition under which do_close_tun closes the device.
Shuts(x, force) == x.tun # None /\ (force \/ ~(sig.received = "USR1" /\ opt.persist_tun))

\* do_close_tun: the device goes, with its routes, or everything stays
LEMMA CloseTunIs ==
    ASSUME NEW x \in CtxRec, NEW raced \in BOOLEAN, DevOK(x, raced), NEW force \in BOOLEAN,
           NEW y, y = DoCloseTun(x, force)
    PROVE  /\ y \in CtxRec /\ SameKit(x, y) /\ SameRun(x, y) /\ DevOK(y, raced)
           /\ y.pulled = x.pulled /\ y.params = x.params
           /\ Shuts(x, force) => y.tun = None /\ y.routes = None
           /\ ~Shuts(x, force) => y = x
<1>1. CASE ~Shuts(x, force)
  <2>1. y = x
    BY <1>1 DEF Shuts, DoCloseTun
  <2> QED
    BY <1>1, <2>1 DEF SameKit, SameRun
<1>2. CASE Shuts(x, force)
  <2> DEFINE z == DeleteRoutes(x)
  <2>1. z \in CtxRec /\ z.routes = None /\ z.handles = x.handles /\ z.params = x.params /\ z.pulled = x.pulled
    BY DEF CtxRec, DeleteRoutes, Strings
  <2>2. SameKit(x, z)
    BY DEF CtxRec, SameKit, DeleteRoutes
  <2>3. SameRun(x, z)
    BY DEF CtxRec, SameRun, DeleteRoutes
  <2>4. x.handles \in Nat /\ x.handles - 1 \in Nat
    BY <1>2 DEF Shuts, DevOK, CtxRec
  <2>5. y = CloseTunSimple(z)
    BY <1>2 DEF Shuts, DoCloseTun
  <2> HIDE DEF z
  <2>6. y \in CtxRec
    <3> DEFINE n == z.handles - 1
    <3>1. y = [z EXCEPT !.tun = None, !.saved = None, !.handles = n]
      BY <2>5 DEF CloseTunSimple
    <3>2. n \in Nat
      BY <2>1, <2>4
    <3>3. z \in CtxRec /\ None \in Strings
      BY <2>1, NoneIs
    <3> HIDE DEF n
    <3>4. [z EXCEPT !.tun = None, !.saved = None, !.handles = n] \in CtxRec
      BY <3>2, <3>3 DEF CtxRec
    <3> QED
      BY <3>1, <3>4
  <2>7. y.tun = None /\ y.saved = None /\ y.handles = z.handles - 1 /\ y.routes = z.routes
        /\ y.params = z.params /\ y.pulled = z.pulled
    BY <2>1, <2>5 DEF CtxRec, CloseTunSimple
  <2>8. SameKit(z, y)
    BY <2>1, <2>5 DEF CtxRec, CloseTunSimple, SameKit
  <2>9. SameRun(z, y)
    BY <2>1, <2>5 DEF CtxRec, CloseTunSimple, SameRun
  <2>10. DevOK(y, raced)
    BY <1>2, <2>1, <2>4, <2>7 DEF Shuts, DevOK
  <2>11. SameKit(x, y) /\ SameRun(x, y)
    BY <2>2, <2>3, <2>8, <2>9 DEF SameKit, SameRun
  <2> QED
    BY <1>2, <2>1, <2>6, <2>7, <2>10, <2>11
<1> QED
  BY <1>1, <1>2

\* do_up up to the device: opened, or opened again when the pulled options differ
LEMMA ReopenIs ==
    ASSUME NEW x \in CtxRec, opt \in Opts, NEW raced \in BOOLEAN, DevOK(x, raced),
           NEW y, y = Reopen(DoOpenTun(x))
    PROVE  /\ y \in CtxRec /\ SameKit(x, y) /\ DevOK(y, raced) /\ y.tun # None
           /\ y.do_up_ran = x.do_up_ran /\ y.completed = x.completed /\ y.wakeup = x.wakeup
           /\ y.pulled = x.pulled /\ y.params = x.params
           /\ x.tun = None => y.did_open_tun
           /\ y.did_open_tun => y.tun = x.params
           /\ opt.pull /\ x.pulled # None => y.tun = x.pulled
<1> DEFINE z == DoOpenTun(x)
           c == DoCloseTun(z, TRUE)
           w == DoOpenTun(c)
<1>1. /\ z \in CtxRec /\ SameKit(x, z) /\ DevOK(z, raced) /\ z.tun # None
      /\ z.do_up_ran = x.do_up_ran /\ z.completed = x.completed /\ z.wakeup = x.wakeup
      /\ z.pulled = x.pulled /\ z.params = x.params
      /\ x.tun = None => z.tun = x.params /\ z.did_open_tun
      /\ x.tun # None => SameDev(x, z) /\ ~z.did_open_tun
  BY OpenTunIs
<1>2. y = IF PulledChanged(z) THEN w ELSE z
  BY DEF Reopen
<1> HIDE DEF z
<1>3. CASE PulledChanged(z)
  <2>1. /\ c \in CtxRec /\ SameKit(z, c) /\ SameRun(z, c) /\ DevOK(c, raced)
        /\ c.pulled = z.pulled /\ c.params = z.params /\ c.tun = None
    <3> DEFINE yes == TRUE
    <3>1. c = DoCloseTun(z, yes) /\ yes /\ yes \in BOOLEAN
      OBVIOUS
    <3> HIDE DEF yes, c
    <3>0. z \in CtxRec /\ DevOK(z, raced) /\ raced \in BOOLEAN
      BY <1>1
    <3>2. /\ c \in CtxRec /\ SameKit(z, c) /\ SameRun(z, c) /\ DevOK(c, raced)
          /\ c.pulled = z.pulled /\ c.params = z.params
          /\ Shuts(z, yes) => c.tun = None /\ c.routes = None
      BY ONLY <3>0, <3>1, CloseTunIs, ZenonT(40)
    <3> QED
      BY <1>1, <3>1, <3>2 DEF Shuts
  <2> HIDE DEF c
  <2>2. /\ w \in CtxRec /\ SameKit(c, w) /\ DevOK(w, raced) /\ w.tun # None
        /\ w.do_up_ran = c.do_up_ran /\ w.completed = c.completed /\ w.wakeup = c.wakeup
        /\ w.pulled = c.pulled /\ w.params = c.params /\ w.tun = c.params /\ w.did_open_tun
    BY <2>1, OpenTunIs
  <2>3. y = w
    BY <1>2, <1>3
  <2> HIDE DEF w
  <2>4. x.pulled # None => x.params = x.pulled
    BY DEF DevOK
  <2> QED
    BY <1>1, <2>1, <2>2, <2>3, <2>4 DEF SameKit, SameRun
<1>4. CASE ~PulledChanged(z)
  <2>1. y = z
    BY <1>2, <1>4
  <2>2. /\ x.pulled # None => x.params = x.pulled
        /\ z.saved # None => z.tun = z.saved
    BY <1>1 DEF DevOK
  <2>3. opt.pull /\ x.pulled # None => y.tun = x.pulled
    BY <1>1, <1>4, <2>1, <2>2 DEF PulledChanged
  <2> QED
    BY <1>1, <2>1, <2>3
<1> QED
  BY <1>3, <1>4

\* do_up after the device: the pulled string is saved, the route timer started or all is said
LEMMA FinishIs ==
    ASSUME NEW x \in CtxRec, opt \in Opts, NEW raced \in BOOLEAN, DevOK(x, raced),
           x.tun # None, ~x.completed, x.did_open_tun /\ x.pulled # None => x.tun = x.pulled,
           NEW y, y = DoUpFinish(x)
    PROVE  /\ y \in CtxRec /\ SameKit(x, y) /\ DevOK(y, raced)
           /\ y.tun = x.tun /\ y.pulled = x.pulled /\ y.params = x.params /\ y.routes = x.routes
           /\ y.did_open_tun = x.did_open_tun
           /\ y.completed => ~(x.did_open_tun /\ opt.route_delay)
<1>1. CASE ~x.did_open_tun
  <2>1. y = InitializationSequenceCompleted(x)
    BY <1>1 DEF DoUpFinish
  <2> QED
    BY <1>1, <2>1, CompletedIs DEF SameDev, DevOK
<1>2. CASE x.did_open_tun /\ opt.route_delay
  <2> DEFINE p == x.pulled
  <2>1. y = [x EXCEPT !.saved = p, !.wakeup = TRUE]
    BY <1>2 DEF DoUpFinish
  <2>2. p \in Strings
    BY DEF CtxRec
  <2>3. p # None => x.tun = p
    BY <1>2
  <2> HIDE DEF p
  <2>4. y \in CtxRec
    <3> DEFINE yes == TRUE
    <3>1. y = [x EXCEPT !.saved = p, !.wakeup = yes] /\ yes \in BOOLEAN
      BY <2>1
    <3> HIDE DEF yes
    <3>2. [x EXCEPT !.saved = p, !.wakeup = yes] \in CtxRec
      BY <2>2, <3>1 DEF CtxRec
    <3> QED
      BY <3>1, <3>2
  <2>5. SameKit(x, y)
    BY <2>1 DEF CtxRec, SameKit
  <2>6. /\ y.saved = p /\ y.tun = x.tun /\ y.pulled = x.pulled /\ y.params = x.params
        /\ y.routes = x.routes /\ y.handles = x.handles
    BY <2>1 DEF CtxRec
  <2>7. y.did_open_tun = x.did_open_tun /\ y.completed = x.completed
    BY <2>1 DEF CtxRec
  <2>8. DevOK(y, raced)
    BY <2>3, <2>6 DEF DevOK
  <2> QED
    BY <2>4, <2>5, <2>6, <2>7, <2>8
<1>3. CASE x.did_open_tun /\ ~opt.route_delay
  <2> DEFINE p == x.pulled
             z == [x EXCEPT !.saved = p]
  <2>1. y = InitializationSequenceCompleted(z)
    BY <1>3 DEF DoUpFinish
  <2>2. p \in Strings
    BY DEF CtxRec
  <2>3. p # None => x.tun = p
    BY <1>3
  <2> HIDE DEF p
  <2>4. z \in CtxRec
    BY <2>2 DEF CtxRec
  <2>5. SameKit(x, z)
    BY DEF CtxRec, SameKit
  <2>6. /\ z.saved = p /\ z.tun = x.tun /\ z.pulled = x.pulled /\ z.params = x.params
        /\ z.routes = x.routes /\ z.handles = x.handles /\ z.did_open_tun = x.did_open_tun
    BY DEF CtxRec
  <2> HIDE DEF z
  <2>7. DevOK(z, raced)
    BY <2>3, <2>6 DEF DevOK
  <2>8. /\ y \in CtxRec /\ SameDev(z, y) /\ SameKit(z, y)
        /\ y.did_open_tun = z.did_open_tun
    BY <2>1, <2>4, CompletedIs
  <2>9. DevOK(y, raced)
    BY <2>7, <2>8 DEF DevOK, SameDev
  <2> QED
    BY <1>3, <2>5, <2>6, <2>8, <2>9 DEF SameDev, SameKit
<1> QED
  BY <1>1, <1>2, <1>3

\* What do_up asks of the context it is called with.
UpReady(x, raced) ==
    /\ DevOK(x, raced)
    /\ ~Delayed \/ x.do_up_ran => x.tun # None
    /\ ~x.do_up_ran => ~x.completed /\ ~x.wakeup
    /\ ~opt.persist_tun /\ ~raced => (x.tun # None => x.did_open_tun /\ (Delayed => x.do_up_ran))
    /\ x.completed /\ ~raced /\ ~(opt.route_delay /\ opt.persist_tun) => x.routes = x.tun

\* do_up: the device is there, with the pulled options, and when all is said so are its routes
LEMMA UpIs ==
    ASSUME NEW x \in CtxRec, opt \in Opts, NEW raced \in BOOLEAN, UpReady(x, raced),
           NEW y, y = DoUp(x)
    PROVE  /\ y \in CtxRec /\ SameKit(x, y) /\ y.do_up_ran /\ UpReady(y, raced) /\ y.tun # None
           /\ ~x.do_up_ran /\ opt.pull /\ x.pulled # None => y.tun = x.pulled
           /\ x.do_up_ran => y.tun = x.tun
<1>1. CASE x.do_up_ran
  <2>1. y = x
    BY <1>1 DEF DoUp
  <2> QED
    BY <1>1, <2>1 DEF SameKit, UpReady
<1>2. CASE ~x.do_up_ran
  <2> DEFINE w == IF Delayed THEN Reopen(DoOpenTun(x)) ELSE x
             u == DoUpFinish(w)
  <2>1. y = [u EXCEPT !.do_up_ran = TRUE]
    BY <1>2 DEF DoUp
  <2>2. /\ w \in CtxRec /\ SameKit(x, w) /\ DevOK(w, raced) /\ w.tun # None
        /\ ~w.completed
        /\ ~opt.persist_tun /\ ~raced => w.did_open_tun
        /\ w.did_open_tun /\ w.pulled # None => w.tun = w.pulled
        /\ opt.pull /\ x.pulled # None => w.tun = x.pulled
    <3>1. CASE Delayed
      <4>1. w = Reopen(DoOpenTun(x))
        BY <3>1
      <4> HIDE DEF w
      <4>2. DevOK(x, raced)
        BY DEF UpReady
      <4>3. /\ w \in CtxRec /\ SameKit(x, w) /\ DevOK(w, raced) /\ w.tun # None
            /\ w.completed = x.completed /\ w.pulled = x.pulled /\ w.params = x.params
            /\ x.tun = None => w.did_open_tun
            /\ w.did_open_tun => w.tun = x.params
            /\ opt.pull /\ x.pulled # None => w.tun = x.pulled
        BY <4>1, <4>2, ReopenIs
      <4>4. x.pulled # None => x.params = x.pulled
        BY <4>2 DEF DevOK
      <4> QED
        BY <1>2, <3>1, <4>3, <4>4 DEF UpReady
    <3>2. CASE ~Delayed
      <4>1. w = x
        BY <3>2
      <4> QED
        BY <1>2, <3>2, <4>1 DEF UpReady, DevOK, SameKit, Delayed
    <3> QED
      BY <3>1, <3>2
  <2> HIDE DEF w
  <2>3. /\ u \in CtxRec /\ SameKit(w, u) /\ DevOK(u, raced)
        /\ u.tun = w.tun /\ u.pulled = w.pulled /\ u.params = w.params /\ u.routes = w.routes
        /\ u.did_open_tun = w.did_open_tun
        /\ u.completed => ~(w.did_open_tun /\ opt.route_delay)
    BY <2>2, FinishIs
  <2> HIDE DEF u
  <2>4. y \in CtxRec /\ y.do_up_ran /\ y.did_open_tun = u.did_open_tun /\ y.completed = u.completed
    <3>1. u \in CtxRec
      BY <2>3
    <3>2. [u EXCEPT !.do_up_ran = TRUE] \in CtxRec
      BY <3>1 DEF CtxRec
    <3>3. y.do_up_ran /\ y.did_open_tun = u.did_open_tun /\ y.completed = u.completed
      BY <2>1, <3>1 DEF CtxRec
    <3> QED
      BY <2>1, <3>2, <3>3
  <2>5. SameDev(u, y)
    BY <2>1, <2>3 DEF CtxRec, SameDev
  <2>6. SameKit(u, y)
    BY <2>1, <2>3 DEF CtxRec, SameKit
  <2>7. DevOK(y, raced)
    BY <2>3, <2>5 DEF DevOK, SameDev
  <2>8. y.tun = w.tun /\ y.routes = w.routes /\ w.tun # None
    BY <2>2, <2>3, <2>5 DEF SameDev
  <2>9. y.completed /\ ~raced /\ ~(opt.route_delay /\ opt.persist_tun) => y.routes = y.tun
    <3>1. ~opt.route_delay => w.routes = w.tun
      BY <2>2 DEF DevOK
    <3> QED
      BY <3>1, <2>2, <2>3, <2>4, <2>8
  <2>10. UpReady(y, raced)
    BY <2>2, <2>3, <2>4, <2>7, <2>8, <2>9 DEF UpReady
  <2>11. SameKit(x, y)
    BY <2>2, <2>3, <2>6 DEF SameKit
  <2> QED
    BY <1>2, <2>2, <2>4, <2>8, <2>10, <2>11
<1> QED
  BY <1>1, <1>2

\* In the event loop do_up may be called.
LEMMA LoopReady ==
    ASSUME CxInv, pc = "loop"
    PROVE  UpReady(ctx, hist.raced)
BY DEF CxInv, UpReady, Equipped, OwnDevice, Progress

\* The context with the options of a reply applied.
Pulled(x, r) == [x EXCEPT !.params = r, !.pulled = r]

\* incoming_push_message: the parameters and the pulled options are those of the reply
LEMMA PulledIs ==
    ASSUME NEW x \in CtxRec, opt.pull, NEW raced \in BOOLEAN, UpReady(x, raced),
           NEW r \in Replies \cup {None}, r # None,
           NEW y, y = Pulled(x, r)
    PROVE  /\ y \in CtxRec /\ SameKit(x, y) /\ SameRun(x, y) /\ UpReady(y, raced)
           /\ y.pulled = r /\ y.tun = x.tun /\ y.routes = x.routes
<1>1. y \in CtxRec
  BY DEF Pulled, CtxRec, Strings
<1>2. y.params = r /\ y.pulled = r /\ y.tun = x.tun /\ y.saved = x.saved /\ y.handles = x.handles /\ y.routes = x.routes
  BY DEF Pulled, CtxRec
<1>3. SameKit(x, y)
  BY DEF Pulled, CtxRec, SameKit
<1>4. SameRun(x, y)
  BY DEF Pulled, CtxRec, SameRun
<1>5. UpReady(y, raced)
  BY <1>2, <1>4 DEF UpReady, DevOK, SameRun
<1> QED
  BY <1>1, <1>2, <1>3, <1>4, <1>5
-----------------------------------------------------------------------------
(* The steps of the process                                                *)

\* The top of the SIGHUP loop starts from nothing but what leaked.
LEMMA MainStep ==
    ASSUME CxInv, Main
    PROVE  CxInv'
<1>1. opt' = opt /\ pc = "main" /\ pc' \in {"exit", "hold", "start"}
  BY DEF Main, GotoPc
<1>2. hist'.raced = hist.raced /\ hist'.pushed = hist.pushed
  BY DEF Main, CxInv, CxType
<1>3. /\ ctx' \in CtxRec /\ Unused(ctx') /\ ~ctx'.socket
      /\ ctx'.tun = None /\ ctx'.saved = None /\ ctx'.handles = ctx.handles /\ ctx'.routes = ctx.routes
      /\ ctx'.params = Local /\ ctx'.pulled = None
      /\ ~ctx'.ks /\ ~ctx'.status /\ ~ctx'.plugins /\ ~ctx'.pidp
  <2> DEFINE x == C1Clear(ctx)
             y == C2Clear(x)
  <2>1. ctx \in CtxRec
    BY DEF CxInv, CxType
  <2>2. /\ x \in CtxRec
        /\ x.tun = None /\ x.saved = None /\ x.handles = ctx.handles /\ x.routes = ctx.routes
        /\ ~x.ks /\ ~x.status /\ ~x.plugins /\ ~x.pidp
    BY <2>1, C1ClearIs
  <2> HIDE DEF x
  <2>3. /\ y \in CtxRec /\ Unused(y) /\ ~y.socket
        /\ y.tun = x.tun /\ y.saved = x.saved /\ y.handles = x.handles /\ y.routes = x.routes
        /\ y.pulled = None
        /\ y.ks = x.ks /\ y.status = x.status /\ y.plugins = x.plugins /\ y.pidp = x.pidp
    BY <2>2, C2ClearIs
  <2>4. ctx' = [y EXCEPT !.params = Local]
    BY DEF Main, x
  <2> HIDE DEF y
  <2>5. ctx' \in CtxRec /\ ctx'.params = Local
    BY <2>3, <2>4, NoneIs DEF CtxRec
  <2>6. /\ ctx'.tun = y.tun /\ ctx'.saved = y.saved /\ ctx'.handles = y.handles /\ ctx'.routes = y.routes
        /\ ctx'.pulled = y.pulled
    BY <2>3, <2>4 DEF CtxRec
  <2>7. SameKit(y, ctx')
    BY <2>3, <2>4 DEF CtxRec, SameKit
  <2> QED
    BY <2>2, <2>3, <2>5, <2>6, <2>7 DEF SameKit, Unused
<1>4. Local # None
  BY NoneIs
<1>5. CxType'
  BY <1>1, <1>2, <1>3, <1>4 DEF Main, NoSig, SigRec, CxInv, CxType, PCs, Closing, Final
<1>6. DevOK(ctx, hist.raced)'
  BY <1>1, <1>2, <1>3, <1>4 DEF CxInv, DevOK, SameDev, Closed, Clean
<1>7. Equipped(ctx, pc)'
  BY <1>1, <1>2, <1>3, <1>4 DEF CxInv, Equipped, SameDev, SameKit, Delayed
<1>8. OwnDevice(ctx, pc, hist.raced)'
  BY <1>1, <1>2, <1>3, <1>4 DEF CxInv, OwnDevice, Clean, Closed, SameDev, SameRun, Delayed
<1>9. Progress(ctx, pc, hist)'
  BY <1>1, <1>2, <1>3, <1>4 DEF CxInv, Progress, SameDev, SameRun
<1>10. Closed(ctx, pc, sig.received, hist.raced)'
  BY <1>1, <1>2, <1>3, <1>4 DEF CxInv, Closed, Clean, Unused, SameDev, SameKit, DevOK
<1> QED
  BY <1>5, <1>6, <1>7, <1>8, <1>9, <1>10 DEF CxInv

\* A hold before the first instance.
LEMMA OpenManagementStep ==
    ASSUME CxInv, OpenManagement
    PROVE  CxInv'
<1>1. opt' = opt /\ pc = "hold" /\ pc' \in {"exit", "start"} /\ hist' = hist /\ sig' = sig
  BY DEF OpenManagement, GotoPc
<1>2. ctx' \in CtxRec /\ SameDev(ctx, ctx') /\ SameKit(ctx, ctx') /\ SameRun(ctx, ctx')
  BY FirstTimeIs DEF OpenManagement, CxInv, CxType, SameDev, SameKit, SameRun
<1>3. CxType'
  BY <1>1, <1>2 DEF OpenManagement, CxInv, CxType, PCs, Closing, Final
<1>4. DevOK(ctx, hist.raced)'
  BY <1>1, <1>2 DEF CxInv, DevOK, SameDev
<1>5. Equipped(ctx, pc)'
  BY <1>1, <1>2 DEF CxInv, Equipped, SameDev, SameKit, Delayed
<1>6. OwnDevice(ctx, pc, hist.raced)'
  BY <1>1, <1>2 DEF CxInv, OwnDevice, Clean, Closed, SameDev, SameRun, Delayed
<1>7. Progress(ctx, pc, hist)'
  BY <1>1, <1>2 DEF CxInv, Progress, SameDev, SameRun
<1>8. Closed(ctx, pc, sig.received, hist.raced)'
  BY <1>1, <1>2 DEF CxInv, Closed, Clean, Unused, SameDev, SameKit, DevOK
<1> QED
  BY <1>3, <1>4, <1>5, <1>6, <1>7, <1>8 DEF CxInv

\* init_instance begins with a clear c2 and no signal.
LEMMA StartInstanceStep ==
    ASSUME CxInv, StartInstance
    PROVE  CxInv'
<1>1. opt' = opt /\ pc = "start" /\ pc' = "pause"
  BY DEF StartInstance, GotoPc
<1>2. hist'.raced = hist.raced /\ hist'.pushed = None
  BY DEF StartInstance, CxInv, CxType
<1>3. /\ ctx' \in CtxRec /\ ctx'.tun = ctx.tun /\ ctx'.saved = ctx.saved /\ ctx'.handles = ctx.handles
      /\ ctx'.routes = ctx.routes /\ ctx'.params = ctx.params /\ ctx'.pulled = None
      /\ ~ctx'.do_up_ran /\ ~ctx'.completed /\ ~ctx'.wakeup
  BY C2ClearIs DEF StartInstance, CxInv, CxType
<1>4. CxType'
  BY <1>1, <1>2, <1>3 DEF StartInstance, NoSig, SigRec, CxInv, CxType, PCs, Closing, Final
<1>5. DevOK(ctx, hist.raced)'
  BY <1>1, <1>2, <1>3 DEF CxInv, DevOK, SameDev
<1>6. Equipped(ctx, pc)'
  BY <1>1, <1>2, <1>3 DEF CxInv, Equipped, SameDev, SameKit, Delayed
<1>7. OwnDevice(ctx, pc, hist.raced)'
  BY <1>1, <1>2, <1>3 DEF CxInv, OwnDevice, Clean, Closed, SameDev, SameRun, Delayed
<1>8. Progress(ctx, pc, hist)'
  BY <1>1, <1>2, <1>3 DEF CxInv, Progress, SameDev, SameRun
<1>9. Closed(ctx, pc, sig.received, hist.raced)'
  BY <1>1, <1>2, <1>3 DEF CxInv, Closed, Clean, Unused, SameDev, SameKit, DevOK
<1> QED
  BY <1>4, <1>5, <1>6, <1>7, <1>8, <1>9 DEF CxInv

\* The pause ends, or a signal ends the instance before it began.
LEMMA StartupPauseStep ==
    ASSUME CxInv, StartupPause
    PROVE  CxInv'
<1>1. opt' = opt /\ pc = "pause" /\ pc' \in {"open", "close_keys"} /\ hist' = hist /\ ctx' = ctx
  BY DEF StartupPause, GotoPc, CloseContext
<1>2. sig' \in SigRec
  BY DEF StartupPause, CloseContext, CxInv, CxType, SigRec
<1>3. CxType'
  BY <1>1, <1>2 DEF StartupPause, CxInv, CxType, PCs, Closing, Final
<1>4. DevOK(ctx, hist.raced)'
  BY <1>1, <1>2 DEF CxInv, DevOK, SameDev
<1>5. Equipped(ctx, pc)'
  BY <1>1, <1>2 DEF CxInv, Equipped, SameDev, SameKit, Delayed
<1>6. OwnDevice(ctx, pc, hist.raced)'
  BY <1>1, <1>2 DEF CxInv, OwnDevice, Clean, Closed, SameDev, SameRun, Delayed
<1>7. Progress(ctx, pc, hist)'
  BY <1>1, <1>2 DEF CxInv, Progress, SameDev, SameRun
<1>8. Closed(ctx, pc, sig.received, hist.raced)'
  BY <1>1, <1>2 DEF CxInv, Closed, Clean, Unused, SameDev, SameKit, DevOK
<1> QED
  BY <1>3, <1>4, <1>5, <1>6, <1>7, <1>8 DEF CxInv

\* Plugins, status file, event set and socket.
LEMMA OpenObjectsStep ==
    ASSUME CxInv, OpenObjects
    PROVE  CxInv'
<1>1. opt' = opt /\ pc = "open" /\ pc' = "crypto" /\ hist' = hist /\ sig' = sig
  BY DEF OpenObjects, GotoPc
<1>2. ctx' \in CtxRec /\ ctx'.plugins = opt.plugins /\ ctx'.status /\ ctx'.event_set /\ ctx'.socket
  <2> DEFINE v == opt.plugins
             y == [ctx EXCEPT !.plugins = v, !.status = TRUE]
  <2>1. v \in BOOLEAN /\ ctx \in CtxRec
    BY OptIs DEF CxInv, CxType
  <2>2. ctx' = [y EXCEPT !.event_set = TRUE, !.socket = TRUE]
    BY DEF OpenObjects
  <2> HIDE DEF v
  <2>3. y \in CtxRec /\ y.plugins = v /\ y.status
    BY <2>1 DEF CtxRec
  <2> HIDE DEF y
  <2>4. ctx' \in CtxRec /\ ctx'.event_set /\ ctx'.socket
    BY <2>2, <2>3 DEF CtxRec
  <2>5. ctx'.plugins = y.plugins /\ ctx'.status = y.status
    BY <2>2, <2>3 DEF CtxRec
  <2> QED
    BY <2>3, <2>4, <2>5 DEF v
<1>3. SameDev(ctx, ctx')
  BY DEF OpenObjects, CxInv, CxType, CtxRec, SameDev
<1>4. SameRun(ctx, ctx')
  BY DEF OpenObjects, CxInv, CxType, CtxRec, SameRun
<1>5. CxType'
  BY <1>1, <1>2, <1>3, <1>4 DEF OpenObjects, CxInv, CxType, PCs, Closing, Final
<1>6. DevOK(ctx, hist.raced)'
  BY <1>1, <1>2, <1>3, <1>4 DEF CxInv, DevOK, SameDev
<1>7. Equipped(ctx, pc)'
  BY <1>1, <1>2, <1>3, <1>4 DEF CxInv, Equipped, SameDev, SameKit, Delayed
<1>8. OwnDevice(ctx, pc, hist.raced)'
  BY <1>1, <1>2, <1>3, <1>4 DEF CxInv, OwnDevice, Clean, Closed, SameDev, SameRun, Delayed
<1>9. Progress(ctx, pc, hist)'
  BY <1>1, <1>2, <1>3, <1>4 DEF CxInv, Progress, SameDev, SameRun
<1>10. Closed(ctx, pc, sig.received, hist.raced)'
  BY <1>1, <1>2, <1>3, <1>4 DEF CxInv, Closed, Clean, Unused, SameDev, SameKit, DevOK
<1> QED
  BY <1>5, <1>6, <1>7, <1>8, <1>9, <1>10 DEF CxInv

\* Keys, and the TLS state they are for.
LEMMA InitCryptoStep ==
    ASSUME CxInv, InitCrypto
    PROVE  CxInv'
<1>1. opt' = opt /\ pc = "crypto" /\ pc' \in {"socket_1", "close_keys"} /\ hist' = hist
  BY DEF InitCrypto, GotoPc, CloseContext
<1>2. sig' \in SigRec
  BY DEF InitCrypto, CloseContext, CxInv, CxType, SigRec
<1>3. ctx' \in CtxRec /\ ctx'.ks /\ ctx'.tls = ~opt.secret
  <2> DEFINE v == ~opt.secret
  <2>1. v \in BOOLEAN /\ ctx \in CtxRec
    BY DEF CxInv, CxType
  <2>2. ctx' = [ctx EXCEPT !.pidp = TRUE, !.ks = TRUE, !.tls = v]
    BY DEF InitCrypto
  <2> HIDE DEF v
  <2>3. ctx' \in CtxRec /\ ctx'.ks /\ ctx'.tls = v
    BY <2>1, <2>2 DEF CtxRec
  <2> QED
    BY <2>3 DEF v
<1>4. /\ ctx'.event_set = ctx.event_set /\ ctx'.socket = ctx.socket /\ ctx'.status = ctx.status /\ ctx'.plugins = ctx.plugins
  BY DEF InitCrypto, CxInv, CxType, CtxRec
<1>5. SameDev(ctx, ctx')
  BY DEF InitCrypto, CxInv, CxType, CtxRec, SameDev
<1>6. SameRun(ctx, ctx')
  BY DEF InitCrypto, CxInv, CxType, CtxRec, SameRun
<1>7. CxType'
  BY <1>1, <1>2, <1>3, <1>4, <1>5, <1>6 DEF InitCrypto, CxInv, CxType, PCs, Closing, Final
<1>8. DevOK(ctx, hist.raced)'
  BY <1>1, <1>2, <1>3, <1>4, <1>5, <1>6 DEF CxInv, DevOK, SameDev
<1>9. Equipped(ctx, pc)'
  BY <1>1, <1>2, <1>3, <1>4, <1>5, <1>6 DEF CxInv, Equipped, SameDev, SameKit, Delayed
<1>10. OwnDevice(ctx, pc, hist.raced)'
  BY <1>1, <1>2, <1>3, <1>4, <1>5, <1>6 DEF CxInv, OwnDevice, Clean, Closed, SameDev, SameRun, Delayed
<1>11. Progress(ctx, pc, hist)'
  BY <1>1, <1>2, <1>3, <1>4, <1>5, <1>6 DEF CxInv, Progress, SameDev, SameRun
<1>12. Closed(ctx, pc, sig.received, hist.raced)'
  BY <1>1, <1>2, <1>3, <1>4, <1>5, <1>6 DEF CxInv, Closed, Clean, Unused, SameDev, SameKit, DevOK
<1> QED
  BY <1>7, <1>8, <1>9, <1>10, <1>11, <1>12 DEF CxInv

\* A private key that cannot be read ends the instance.
LEMMA InitCryptoFailsStep ==
    ASSUME CxInv, InitCryptoFails
    PROVE  CxInv'
<1>1. opt' = opt /\ pc = "crypto" /\ pc' = "close_keys"
  BY DEF InitCryptoFails, GotoPc
<1>2. hist'.raced = hist.raced /\ hist'.pushed = hist.pushed
        /\ hist' \in [raced : BOOLEAN, lost : BOOLEAN, pushed : Replies \cup {None}]
  BY DEF InitCryptoFails, CxInv, CxType
<1>3. sig' \in SigRec
  BY DEF InitCryptoFails, CxInv, CxType, SigRec
<1>4. ctx' \in CtxRec
  BY DEF InitCryptoFails, CxInv, CxType, CtxRec
<1>5. SameDev(ctx, ctx')
  BY DEF InitCryptoFails, CxInv, CxType, CtxRec, SameDev
<1>6. used' \in [async : 0 .. MaxAsync, soft : 0 .. MaxSoft]
  BY ContextAssumption DEF InitCryptoFails, CxInv, CxType
<1>7. CxType'
  BY <1>1, <1>2, <1>3, <1>4, <1>5, <1>6 DEF InitCryptoFails, CxInv, CxType, PCs, Closing, Final
<1>8. DevOK(ctx, hist.raced)'
  BY <1>1, <1>2, <1>3, <1>4, <1>5, <1>6 DEF CxInv, DevOK, SameDev
<1>9. Equipped(ctx, pc)'
  BY <1>1, <1>2, <1>3, <1>4, <1>5, <1>6 DEF CxInv, Equipped, SameDev, SameKit, Delayed
<1>10. OwnDevice(ctx, pc, hist.raced)'
  BY <1>1, <1>2, <1>3, <1>4, <1>5, <1>6 DEF CxInv, OwnDevice, Clean, Closed, SameDev, SameRun, Delayed
<1>11. Progress(ctx, pc, hist)'
  BY <1>1, <1>2, <1>3, <1>4, <1>5, <1>6 DEF CxInv, Progress, SameDev, SameRun
<1>12. Closed(ctx, pc, sig.received, hist.raced)'
  BY <1>1, <1>2, <1>3, <1>4, <1>5, <1>6 DEF CxInv, Closed, Clean, Unused, SameDev, SameKit, DevOK
<1> QED
  BY <1>7, <1>8, <1>9, <1>10, <1>11, <1>12 DEF CxInv

\* Buffers.
LEMMA InitSocket1Step ==
    ASSUME CxInv, InitSocket1
    PROVE  CxInv'
<1>1. opt' = opt /\ pc = "socket_1" /\ pc' = "tun" /\ hist' = hist /\ sig' = sig
  BY DEF InitSocket1, GotoPc
<1>2. ctx' \in CtxRec /\ ctx'.buffers
  BY DEF InitSocket1, CxInv, CxType, CtxRec
<1>3. /\ ctx'.event_set = ctx.event_set /\ ctx'.socket = ctx.socket /\ ctx'.status = ctx.status
      /\ ctx'.plugins = ctx.plugins /\ ctx'.ks = ctx.ks /\ ctx'.tls = ctx.tls
  BY DEF InitSocket1, CxInv, CxType, CtxRec
<1>4. SameDev(ctx, ctx')
  BY DEF InitSocket1, CxInv, CxType, CtxRec, SameDev
<1>5. SameRun(ctx, ctx')
  BY DEF InitSocket1, CxInv, CxType, CtxRec, SameRun
<1>6. CxType'
  BY <1>1, <1>2, <1>3, <1>4, <1>5 DEF InitSocket1, CxInv, CxType, PCs, Closing, Final
<1>7. DevOK(ctx, hist.raced)'
  BY <1>1, <1>2, <1>3, <1>4, <1>5 DEF CxInv, DevOK, SameDev
<1>8. Equipped(ctx, pc)'
  BY <1>1, <1>2, <1>3, <1>4, <1>5 DEF CxInv, Equipped, SameDev, SameKit, Delayed
<1>9. OwnDevice(ctx, pc, hist.raced)'
  BY <1>1, <1>2, <1>3, <1>4, <1>5 DEF CxInv, OwnDevice, Clean, Closed, SameDev, SameRun, Delayed
<1>10. Progress(ctx, pc, hist)'
  BY <1>1, <1>2, <1>3, <1>4, <1>5 DEF CxInv, Progress, SameDev, SameRun
<1>11. Closed(ctx, pc, sig.received, hist.raced)'
  BY <1>1, <1>2, <1>3, <1>4, <1>5 DEF CxInv, Closed, Clean, Unused, SameDev, SameKit, DevOK
<1> QED
  BY <1>6, <1>7, <1>8, <1>9, <1>10, <1>11 DEF CxInv

\* The device, unless it waits for do_up.
LEMMA InitTunStep ==
    ASSUME CxInv, InitTun
    PROVE  CxInv'
<1>1. opt' = opt /\ pc = "tun" /\ pc' = "once" /\ hist' = hist /\ sig' = sig
  BY DEF InitTun, GotoPc
<1>2. /\ ctx' \in CtxRec /\ SameKit(ctx, ctx') /\ DevOK(ctx', hist.raced)
      /\ ctx'.do_up_ran = ctx.do_up_ran /\ ctx'.completed = ctx.completed /\ ctx'.wakeup = ctx.wakeup
      /\ IF Delayed THEN ctx' = ctx ELSE ctx'.tun # None /\ (ctx.tun = None => ctx'.did_open_tun)
  <2>1. /\ ctx \in CtxRec /\ opt \in Opts /\ hist.raced \in BOOLEAN /\ DevOK(ctx, hist.raced)
        /\ ctx' = IF Delayed THEN ctx ELSE DoOpenTun(ctx)
    BY DEF InitTun, CxInv, CxType
  <2>2. CASE Delayed
    BY <2>1, <2>2 DEF SameKit
  <2>3. CASE ~Delayed
    BY <2>1, <2>3, OpenTunIs
  <2> QED
    BY <2>2, <2>3
<1>3. CxType'
  BY <1>1, <1>2 DEF InitTun, CxInv, CxType, PCs, Closing, Final
<1>4. DevOK(ctx, hist.raced)'
  BY <1>1, <1>2 DEF CxInv, DevOK, SameDev
<1>5. Equipped(ctx, pc)'
  BY <1>1, <1>2 DEF CxInv, Equipped, SameDev, SameKit, Delayed
<1>6. OwnDevice(ctx, pc, hist.raced)'
  BY <1>1, <1>2 DEF CxInv, OwnDevice, Clean, Closed, SameDev, SameRun, Delayed
<1>7. Progress(ctx, pc, hist)'
  BY <1>1, <1>2 DEF CxInv, Progress, SameDev, SameRun
<1>8. Closed(ctx, pc, sig.received, hist.raced)'
  BY <1>1, <1>2 DEF CxInv, Closed, Clean, Unused, SameDev, SameKit, DevOK
<1> QED
  BY <1>3, <1>4, <1>5, <1>6, <1>7, <1>8 DEF CxInv

\* Daemon, user and group.
LEMMA InitOnceStep ==
    ASSUME CxInv, InitOnce
    PROVE  CxInv'
<1>1. opt' = opt /\ pc = "once" /\ pc' = "socket_2" /\ hist' = hist /\ sig' = sig
  BY DEF InitOnce, GotoPc
<1>2. /\ ctx' \in CtxRec /\ SameDev(ctx, ctx') /\ SameKit(ctx, ctx') /\ SameRun(ctx, ctx')
  <2> DEFINE x == DoInitFirstTime(ctx)
  <2>1. ctx \in CtxRec /\ opt \in Opts /\ ctx' = DoUidGidChroot(x, ctx.did_open_tun)
    BY DEF InitOnce, CxInv, CxType
  <2>2. x \in CtxRec /\ SameDev(ctx, x) /\ SameKit(ctx, x) /\ SameRun(ctx, x)
    BY <2>1, FirstTimeIs
  <2> HIDE DEF x
  <2>3. ctx' \in CtxRec /\ SameDev(x, ctx') /\ SameKit(x, ctx') /\ SameRun(x, ctx')
    BY <2>1, <2>2, FirstTimeIs
  <2> QED
    BY <2>2, <2>3 DEF SameDev, SameKit, SameRun
<1>3. CxType'
  BY <1>1, <1>2 DEF InitOnce, CxInv, CxType, PCs, Closing, Final
<1>4. DevOK(ctx, hist.raced)'
  BY <1>1, <1>2 DEF CxInv, DevOK, SameDev
<1>5. Equipped(ctx, pc)'
  BY <1>1, <1>2 DEF CxInv, Equipped, SameDev, SameKit, Delayed
<1>6. OwnDevice(ctx, pc, hist.raced)'
  BY <1>1, <1>2 DEF CxInv, OwnDevice, Clean, Closed, SameDev, SameRun, Delayed
<1>7. Progress(ctx, pc, hist)'
  BY <1>1, <1>2 DEF CxInv, Progress, SameDev, SameRun
<1>8. Closed(ctx, pc, sig.received, hist.raced)'
  BY <1>1, <1>2 DEF CxInv, Closed, Clean, Unused, SameDev, SameKit, DevOK
<1> QED
  BY <1>3, <1>4, <1>5, <1>6, <1>7, <1>8 DEF CxInv

\* The connection, and with it the event loop.
LEMMA InitSocket2Step ==
    ASSUME CxInv, InitSocket2
    PROVE  CxInv'
<1>1. opt' = opt /\ pc = "socket_2" /\ pc' \in {"loop", "close_keys"} /\ hist' = hist
  BY DEF InitSocket2, GotoPc, CloseContext
<1>2. sig' \in SigRec /\ handler' \in {"default", "init", "normal"}
  BY DEF InitSocket2, CloseContext, CxInv, CxType, SigRec
<1>3. ctx' \in CtxRec
  <2>1. ctx \in CtxRec /\ (ctx' = ctx \/ ctx' = [ctx EXCEPT !.addr = TRUE])
    BY DEF InitSocket2, CxInv, CxType
  <2>2. [ctx EXCEPT !.addr = TRUE] \in CtxRec
    BY <2>1 DEF CtxRec
  <2> QED
    BY <2>1, <2>2
<1>4. SameDev(ctx, ctx')
  BY DEF InitSocket2, CxInv, CxType, CtxRec, SameDev
<1>5. SameKit(ctx, ctx')
  BY DEF InitSocket2, CxInv, CxType, CtxRec, SameKit
<1>6. SameRun(ctx, ctx')
  BY DEF InitSocket2, CxInv, CxType, CtxRec, SameRun
<1>7. CxType'
  BY <1>1, <1>2, <1>3, <1>4, <1>5, <1>6 DEF InitSocket2, CxInv, CxType, PCs, Closing, Final
<1>8. DevOK(ctx, hist.raced)'
  BY <1>1, <1>2, <1>3, <1>4, <1>5, <1>6 DEF CxInv, DevOK, SameDev
<1>9. Equipped(ctx, pc)'
  BY <1>1, <1>2, <1>3, <1>4, <1>5, <1>6 DEF CxInv, Equipped, SameDev, SameKit, Delayed
<1>10. OwnDevice(ctx, pc, hist.raced)'
  BY <1>1, <1>2, <1>3, <1>4, <1>5, <1>6 DEF CxInv, OwnDevice, Clean, Closed, SameDev, SameRun, Delayed
<1>11. Progress(ctx, pc, hist)'
  BY <1>1, <1>2, <1>3, <1>4, <1>5, <1>6 DEF CxInv, Progress, SameDev, SameRun
<1>12. Closed(ctx, pc, sig.received, hist.raced)'
  BY <1>1, <1>2, <1>3, <1>4, <1>5, <1>6 DEF CxInv, Closed, Clean, Unused, SameDev, SameKit, DevOK
<1> QED
  BY <1>7, <1>8, <1>9, <1>10, <1>11, <1>12 DEF CxInv

\* A fatal error.
LEMMA InitFatalStep ==
    ASSUME CxInv, InitFatal
    PROVE  CxInv'
<1>1. opt' = opt /\ pc' = "fatal" /\ hist' = hist /\ sig' = sig /\ ctx' = ctx
  BY DEF InitFatal, GotoPc
<1>2. CxType'
  BY <1>1 DEF InitFatal, CxInv, CxType, PCs, Closing, Final
<1>3. DevOK(ctx, hist.raced)'
  BY <1>1 DEF CxInv, DevOK, SameDev
<1>4. Equipped(ctx, pc)'
  BY <1>1 DEF CxInv, Equipped, SameDev, SameKit, Delayed
<1>5. OwnDevice(ctx, pc, hist.raced)'
  BY <1>1 DEF CxInv, OwnDevice, Clean, Closed, SameDev, SameRun, Delayed
<1>6. Progress(ctx, pc, hist)'
  BY <1>1 DEF CxInv, Progress, SameDev, SameRun
<1>7. Closed(ctx, pc, sig.received, hist.raced)'
  BY <1>1 DEF CxInv, Closed, Clean, Unused, SameDev, SameKit, DevOK
<1> QED
  BY <1>2, <1>3, <1>4, <1>5, <1>6, <1>7 DEF CxInv

\* The route timer.
LEMMA AddRoutesStep ==
    ASSUME CxInv, AddRoutes
    PROVE  CxInv'
<1>1. opt' = opt /\ pc = "loop" /\ pc' = pc /\ hist' = hist /\ sig' = sig /\ ctx.wakeup
  BY DEF AddRoutes
<1>2. /\ ctx' \in CtxRec /\ SameKit(ctx, ctx')
      /\ ctx'.tun = ctx.tun /\ ctx'.saved = ctx.saved /\ ctx'.params = ctx.params /\ ctx'.pulled = ctx.pulled
      /\ ctx'.handles = ctx.handles /\ ctx'.routes = ctx.tun
      /\ ctx'.do_up_ran = ctx.do_up_ran /\ ctx'.did_open_tun = ctx.did_open_tun /\ ~ctx'.wakeup
  <2> DEFINE x == [ctx EXCEPT !.wakeup = FALSE]
             y == DoRoute(x)
  <2>1. ctx \in CtxRec /\ opt \in Opts /\ ctx' = InitializationSequenceCompleted(y)
    BY DEF AddRoutes, CxInv, CxType
  <2>2. x \in CtxRec /\ ~x.wakeup /\ x.do_up_ran = ctx.do_up_ran /\ x.did_open_tun = ctx.did_open_tun
    BY <2>1 DEF CtxRec
  <2>3. SameKit(ctx, x)
    BY <2>1 DEF CtxRec, SameKit
  <2>4. SameDev(ctx, x)
    BY <2>1 DEF CtxRec, SameDev
  <2> HIDE DEF x
  <2>5. y \in CtxRec /\ y.wakeup = x.wakeup /\ y.do_up_ran = x.do_up_ran /\ y.did_open_tun = x.did_open_tun
    <3> DEFINE t == x.tun
    <3>1. y = [x EXCEPT !.routes = t] /\ t \in Strings
      BY <2>2 DEF DoRoute, CtxRec
    <3> HIDE DEF y, t
    <3> QED
      BY <2>2, <3>1 DEF CtxRec
  <2>6. SameKit(x, y)
    BY <2>2 DEF CtxRec, SameKit, DoRoute
  <2>7. /\ y.tun = x.tun /\ y.saved = x.saved /\ y.params = x.params /\ y.pulled = x.pulled
        /\ y.handles = x.handles /\ y.routes = x.tun
    BY <2>2 DEF CtxRec, DoRoute
  <2> HIDE DEF y
  <2>8. /\ ctx' \in CtxRec /\ SameDev(y, ctx') /\ SameKit(y, ctx') /\ ctx'.did_open_tun = y.did_open_tun
        /\ ctx'.do_up_ran = y.do_up_ran /\ ctx'.wakeup = y.wakeup
    BY <2>1, <2>5, CompletedIs
  <2> QED
    BY <2>2, <2>3, <2>4, <2>5, <2>6, <2>7, <2>8 DEF SameDev, SameKit
<1>3. CxType'
  BY <1>1, <1>2 DEF AddRoutes, CxInv, CxType, PCs, Closing, Final
<1>4. DevOK(ctx, hist.raced)'
  BY <1>1, <1>2 DEF CxInv, DevOK, SameDev
<1>5. Equipped(ctx, pc)'
  BY <1>1, <1>2 DEF CxInv, Equipped, SameDev, SameKit, Delayed
<1>6. OwnDevice(ctx, pc, hist.raced)'
  BY <1>1, <1>2 DEF CxInv, OwnDevice, Clean, Closed, SameDev, SameRun, Delayed
<1>7. Progress(ctx, pc, hist)'
  BY <1>1, <1>2 DEF CxInv, Progress, SameDev, SameRun
<1>8. Closed(ctx, pc, sig.received, hist.raced)'
  BY <1>1, <1>2 DEF CxInv, Closed, Clean, Unused, SameDev, SameKit, DevOK
<1> QED
  BY <1>3, <1>4, <1>5, <1>6, <1>7, <1>8 DEF CxInv

\* The event loop sees a signal.
LEMMA ProcessSignalStep ==
    ASSUME CxInv, ProcessSignal
    PROVE  CxInv'
<1>1. opt' = opt /\ pc = "loop" /\ pc' \in {"loop", "usr2", "close_keys"} /\ hist' = hist
  BY DEF ProcessSignal, GotoPc
<1>2. sig' \in SigRec
  <2>1. Remapped \in {None, "TERM", "HUP", "USR1", "USR2"}
    BY OptIs DEF Remapped, CxInv, CxType, SigRec
  <2>2. sig' = NoSig \/ sig' = [sig EXCEPT !.received = Remapped]
    BY DEF ProcessSignal
  <2>3. sig \in SigRec /\ NoSig \in SigRec
    BY DEF CxInv, CxType, SigRec, NoSig
  <2> QED
    BY <2>1, <2>2, <2>3 DEF SigRec
<1>3. ctx' \in CtxRec
  <2>1. ctx \in CtxRec /\ (ctx' = ctx \/ ctx' = [ctx EXCEPT !.exit_wait = TRUE])
    BY DEF ProcessSignal, CxInv, CxType
  <2>2. [ctx EXCEPT !.exit_wait = TRUE] \in CtxRec
    BY <2>1 DEF CtxRec
  <2> QED
    BY <2>1, <2>2
<1>4. SameDev(ctx, ctx')
  BY DEF ProcessSignal, CxInv, CxType, CtxRec, SameDev
<1>5. SameKit(ctx, ctx')
  BY DEF ProcessSignal, CxInv, CxType, CtxRec, SameKit
<1>6. SameRun(ctx, ctx')
  BY DEF ProcessSignal, CxInv, CxType, CtxRec, SameRun
<1>7. CxType'
  BY <1>1, <1>2, <1>3, <1>4, <1>5, <1>6 DEF ProcessSignal, CxInv, CxType, PCs, Closing, Final
<1>8. DevOK(ctx, hist.raced)'
  BY <1>1, <1>2, <1>3, <1>4, <1>5, <1>6 DEF CxInv, DevOK, SameDev
<1>9. Equipped(ctx, pc)'
  BY <1>1, <1>2, <1>3, <1>4, <1>5, <1>6 DEF CxInv, Equipped, SameDev, SameKit, Delayed
<1>10. OwnDevice(ctx, pc, hist.raced)'
  BY <1>1, <1>2, <1>3, <1>4, <1>5, <1>6 DEF CxInv, OwnDevice, Clean, Closed, SameDev, SameRun, Delayed
<1>11. Progress(ctx, pc, hist)'
  BY <1>1, <1>2, <1>3, <1>4, <1>5, <1>6 DEF CxInv, Progress, SameDev, SameRun
<1>12. Closed(ctx, pc, sig.received, hist.raced)'
  BY <1>1, <1>2, <1>3, <1>4, <1>5, <1>6 DEF CxInv, Closed, Clean, Unused, SameDev, SameKit, DevOK
<1> QED
  BY <1>7, <1>8, <1>9, <1>10, <1>11, <1>12 DEF CxInv

\* SIGUSR2.
LEMMA ProcessSigusr2Step ==
    ASSUME CxInv, ProcessSigusr2
    PROVE  CxInv'
<1>1. opt' = opt /\ pc = "usr2" /\ pc' = "loop" /\ ctx' = ctx
  BY DEF ProcessSigusr2, GotoPc
<1>2. hist'.raced = hist.raced /\ hist'.pushed = hist.pushed
        /\ hist' \in [raced : BOOLEAN, lost : BOOLEAN, pushed : Replies \cup {None}]
  BY DEF ProcessSigusr2, CxInv, CxType
<1>3. sig' \in SigRec
  BY DEF ProcessSigusr2, NoSig, SigRec
<1>4. CxType'
  BY <1>1, <1>2, <1>3 DEF ProcessSigusr2, CxInv, CxType, PCs, Closing, Final
<1>5. DevOK(ctx, hist.raced)'
  BY <1>1, <1>2, <1>3 DEF CxInv, DevOK, SameDev
<1>6. Equipped(ctx, pc)'
  BY <1>1, <1>2, <1>3 DEF CxInv, Equipped, SameDev, SameKit, Delayed
<1>7. OwnDevice(ctx, pc, hist.raced)'
  BY <1>1, <1>2, <1>3 DEF CxInv, OwnDevice, Clean, Closed, SameDev, SameRun, Delayed
<1>8. Progress(ctx, pc, hist)'
  BY <1>1, <1>2, <1>3 DEF CxInv, Progress, SameDev, SameRun
<1>9. Closed(ctx, pc, sig.received, hist.raced)'
  BY <1>1, <1>2, <1>3 DEF CxInv, Closed, Clean, Unused, SameDev, SameKit, DevOK
<1> QED
  BY <1>4, <1>5, <1>6, <1>7, <1>8, <1>9 DEF CxInv

\* close_instance: event set, buffers, TLS and keys.
LEMMA CloseKeysStep ==
    ASSUME CxInv, CloseKeys
    PROVE  CxInv'
<1>1. opt' = opt /\ pc = "close_keys" /\ pc' = "close_socket" /\ hist' = hist
  BY DEF CloseKeys, GotoPc
<1>2. sig' \in SigRec
  BY DEF CloseKeys, CxInv, CxType, SigRec
<1>3. ctx' \in CtxRec /\ Unused(ctx') /\ (sig'.received # "USR1" => ~ctx'.ks)
  <2> DEFINE v == ctx.ks /\ sig'.received = "USR1" /\ opt.persist_key
             x == [ctx EXCEPT !.event_set = FALSE, !.buffers = FALSE]
  <2>1. v \in BOOLEAN /\ ctx \in CtxRec
    BY DEF CxInv, CxType
  <2>2. ctx' = [x EXCEPT !.tls = FALSE, !.ks = v]
    BY DEF CloseKeys
  <2>3. sig'.received # "USR1" => ~v
    OBVIOUS
  <2> HIDE DEF v
  <2>4. x \in CtxRec /\ ~x.event_set /\ ~x.buffers
    BY <2>1 DEF CtxRec
  <2> HIDE DEF x
  <2>5. ctx' \in CtxRec /\ ~ctx'.tls /\ ctx'.ks = v
    <3> DEFINE no == FALSE
    <3>1. ctx' = [x EXCEPT !.tls = no, !.ks = v] /\ no \in BOOLEAN /\ ~no
      BY <2>2
    <3> HIDE DEF no
    <3>2. [x EXCEPT !.tls = no, !.ks = v] \in CtxRec
      BY <2>1, <2>4, <3>1 DEF CtxRec
    <3>3. ctx'.tls = no /\ ctx'.ks = v
      BY <2>4, <3>1 DEF CtxRec
    <3> QED
      BY <3>1, <3>2, <3>3
  <2>6. ctx'.event_set = x.event_set /\ ctx'.buffers = x.buffers
    BY <2>2, <2>4 DEF CtxRec
  <2> QED
    BY <2>3, <2>4, <2>5, <2>6 DEF Unused
<1>4. SameDev(ctx, ctx')
  BY DEF CloseKeys, CxInv, CxType, CtxRec, SameDev
<1>5. SameRun(ctx, ctx')
  BY DEF CloseKeys, CxInv, CxType, CtxRec, SameRun
<1>6. CxType'
  BY <1>1, <1>2, <1>3, <1>4, <1>5 DEF CloseKeys, CxInv, CxType, PCs, Closing, Final
<1>7. DevOK(ctx, hist.raced)'
  BY <1>1, <1>2, <1>3, <1>4, <1>5 DEF CxInv, DevOK, SameDev
<1>8. Equipped(ctx, pc)'
  BY <1>1, <1>2, <1>3, <1>4, <1>5 DEF CxInv, Equipped, SameDev, SameKit, Delayed
<1>9. OwnDevice(ctx, pc, hist.raced)'
  BY <1>1, <1>2, <1>3, <1>4, <1>5 DEF CxInv, OwnDevice, Clean, Closed, SameDev, SameRun, Delayed
<1>10. Progress(ctx, pc, hist)'
  BY <1>1, <1>2, <1>3, <1>4, <1>5 DEF CxInv, Progress, SameDev, SameRun
<1>11. Closed(ctx, pc, sig.received, hist.raced)'
  BY <1>1, <1>2, <1>3, <1>4, <1>5 DEF CxInv, Closed, Clean, Unused, SameDev, SameKit, DevOK
<1> QED
  BY <1>6, <1>7, <1>8, <1>9, <1>10, <1>11 DEF CxInv

\* close_instance: the socket.
LEMMA CloseSocketStep ==
    ASSUME CxInv, CloseSocket
    PROVE  CxInv'
<1>1. opt' = opt /\ pc = "close_socket" /\ pc' = "close_tun" /\ hist' = hist /\ sig' = sig
  BY DEF CloseSocket, GotoPc
<1>2. ctx' \in CtxRec /\ ~ctx'.socket
  <2> DEFINE v == ctx.addr /\ Restarting /\ opt.persist_remote_ip
  <2>1. v \in BOOLEAN /\ ctx \in CtxRec
    BY DEF CxInv, CxType
  <2>2. ctx' = [ctx EXCEPT !.socket = FALSE, !.addr = v]
    BY DEF CloseSocket
  <2> HIDE DEF v
  <2> QED
    BY <2>1, <2>2 DEF CtxRec
<1>3. ctx'.event_set = ctx.event_set /\ ctx'.buffers = ctx.buffers /\ ctx'.tls = ctx.tls /\ ctx'.ks = ctx.ks
  BY DEF CloseSocket, CxInv, CxType, CtxRec
<1>4. SameDev(ctx, ctx')
  BY DEF CloseSocket, CxInv, CxType, CtxRec, SameDev
<1>5. SameRun(ctx, ctx')
  BY DEF CloseSocket, CxInv, CxType, CtxRec, SameRun
<1>6. CxType'
  BY <1>1, <1>2, <1>3, <1>4, <1>5 DEF CloseSocket, CxInv, CxType, PCs, Closing, Final
<1>7. DevOK(ctx, hist.raced)'
  BY <1>1, <1>2, <1>3, <1>4, <1>5 DEF CxInv, DevOK, SameDev
<1>8. Equipped(ctx, pc)'
  BY <1>1, <1>2, <1>3, <1>4, <1>5 DEF CxInv, Equipped, SameDev, SameKit, Delayed
<1>9. OwnDevice(ctx, pc, hist.raced)'
  BY <1>1, <1>2, <1>3, <1>4, <1>5 DEF CxInv, OwnDevice, Clean, Closed, SameDev, SameRun, Delayed
<1>10. Progress(ctx, pc, hist)'
  BY <1>1, <1>2, <1>3, <1>4, <1>5 DEF CxInv, Progress, SameDev, SameRun
<1>11. Closed(ctx, pc, sig.received, hist.raced)'
  BY <1>1, <1>2, <1>3, <1>4, <1>5 DEF CxInv, Closed, Clean, Unused, SameDev, SameKit, DevOK
<1> QED
  BY <1>6, <1>7, <1>8, <1>9, <1>10, <1>11 DEF CxInv

\* close_instance: the device.
LEMMA CloseTunStep ==
    ASSUME CxInv, CloseTun
    PROVE  CxInv'
<1>1. opt' = opt /\ pc = "close_tun" /\ pc' = "close_rest" /\ hist' = hist /\ sig' = sig
  BY DEF CloseTun, GotoPc
<1>2. /\ ctx' \in CtxRec /\ SameKit(ctx, ctx') /\ SameRun(ctx, ctx') /\ DevOK(ctx', hist.raced)
      /\ ctx.tun = None => ctx' = ctx
      /\ ~(sig.received = "USR1" /\ opt.persist_tun) => ctx'.tun = None
  <2> DEFINE no == FALSE
  <2>1. ctx \in CtxRec /\ hist.raced \in BOOLEAN /\ DevOK(ctx, hist.raced) /\ ctx' = DoCloseTun(ctx, no)
    BY DEF CloseTun, CxInv, CxType
  <2>2. no \in BOOLEAN /\ ~no
    OBVIOUS
  <2> HIDE DEF no
  <2>3. /\ ctx' \in CtxRec /\ SameKit(ctx, ctx') /\ SameRun(ctx, ctx') /\ DevOK(ctx', hist.raced)
        /\ Shuts(ctx, no) => ctx'.tun = None /\ ctx'.routes = None
        /\ ~Shuts(ctx, no) => ctx' = ctx
    BY <2>1, <2>2, CloseTunIs
  <2> QED
    BY <2>2, <2>3 DEF Shuts
<1>3. CxType'
  BY <1>1, <1>2 DEF CloseTun, CxInv, CxType, PCs, Closing, Final
<1>4. DevOK(ctx, hist.raced)'
  BY <1>1, <1>2 DEF CxInv, DevOK, SameDev
<1>5. Equipped(ctx, pc)'
  BY <1>1, <1>2 DEF CxInv, Equipped, SameDev, SameKit, Delayed
<1>6. OwnDevice(ctx, pc, hist.raced)'
  BY <1>1, <1>2 DEF CxInv, OwnDevice, Clean, Closed, SameDev, SameRun, Delayed
<1>7. Progress(ctx, pc, hist)'
  BY <1>1, <1>2 DEF CxInv, Progress, SameDev, SameRun
<1>8. Closed(ctx, pc, sig.received, hist.raced)'
  BY <1>1, <1>2 DEF CxInv, Closed, Clean, Unused, SameDev, SameKit, DevOK
<1> QED
  BY <1>3, <1>4, <1>5, <1>6, <1>7, <1>8 DEF CxInv

\* close_instance: plugins, packet-id file and status file.
LEMMA CloseRestStep ==
    ASSUME CxInv, CloseRest
    PROVE  CxInv'
<1>1. opt' = opt /\ pc = "close_rest" /\ pc' = "after" /\ hist' = hist /\ sig' = sig
  BY DEF CloseRest, GotoPc
<1>2. ctx' \in CtxRec /\ (sig.received # "USR1" => ~ctx'.plugins /\ ~ctx'.pidp /\ ~ctx'.status)
  <2> DEFINE u == ctx.plugins /\ Restarting
             v == ctx.pidp /\ Restarting
             w == ctx.status /\ Restarting
  <2>1. u \in BOOLEAN /\ v \in BOOLEAN /\ w \in BOOLEAN /\ ctx \in CtxRec
    BY DEF CxInv, CxType
  <2>2. ctx' = [ctx EXCEPT !.plugins = u, !.pidp = v, !.status = w]
    BY DEF CloseRest
  <2>3. sig.received # "USR1" => ~u /\ ~v /\ ~w
    BY DEF Restarting
  <2> DEFINE x == [ctx EXCEPT !.plugins = u]
             y == [x EXCEPT !.pidp = v]
  <2>4. ctx' = [y EXCEPT !.status = w]
    BY <2>2
  <2> HIDE DEF u, v, w
  <2>5. x \in CtxRec /\ x.plugins = u
    BY <2>1 DEF CtxRec
  <2> HIDE DEF x
  <2>6. y \in CtxRec /\ y.plugins = x.plugins /\ y.pidp = v
    BY <2>1, <2>5 DEF CtxRec
  <2> HIDE DEF y
  <2>7. ctx' \in CtxRec /\ ctx'.plugins = y.plugins /\ ctx'.pidp = y.pidp /\ ctx'.status = w
    BY <2>1, <2>4, <2>6 DEF CtxRec
  <2> QED
    BY <2>3, <2>5, <2>6, <2>7
<1>3. /\ ctx'.event_set = ctx.event_set /\ ctx'.buffers = ctx.buffers /\ ctx'.tls = ctx.tls
      /\ ctx'.ks = ctx.ks /\ ctx'.socket = ctx.socket
  BY DEF CloseRest, CxInv, CxType, CtxRec
<1>4. SameDev(ctx, ctx')
  BY DEF CloseRest, CxInv, CxType, CtxRec, SameDev
<1>5. SameRun(ctx, ctx')
  BY DEF CloseRest, CxInv, CxType, CtxRec, SameRun
<1>6. CxType'
  BY <1>1, <1>2, <1>3, <1>4, <1>5 DEF CloseRest, CxInv, CxType, PCs, Closing, Final
<1>7. DevOK(ctx, hist.raced)'
  BY <1>1, <1>2, <1>3, <1>4, <1>5 DEF CxInv, DevOK, SameDev
<1>8. Equipped(ctx, pc)'
  BY <1>1, <1>2, <1>3, <1>4, <1>5 DEF CxInv, Equipped, SameDev, SameKit, Delayed
<1>9. OwnDevice(ctx, pc, hist.raced)'
  BY <1>1, <1>2, <1>3, <1>4, <1>5 DEF CxInv, OwnDevice, Clean, Closed, SameDev, SameRun, Delayed
<1>10. Progress(ctx, pc, hist)'
  BY <1>1, <1>2, <1>3, <1>4, <1>5 DEF CxInv, Progress, SameDev, SameRun
<1>11. Closed(ctx, pc, sig.received, hist.raced)'
  BY <1>1, <1>2, <1>3, <1>4, <1>5 DEF CxInv, Closed, Clean, Unused, SameDev, SameKit, DevOK
<1> QED
  BY <1>6, <1>7, <1>8, <1>9, <1>10, <1>11 DEF CxInv

\* The end of the SIGUSR1 loop.
LEMMA UsrLoopStep ==
    ASSUME CxInv, UsrLoop
    PROVE  CxInv'
<1>1. opt' = opt /\ pc = "after" /\ hist' = hist /\ sig' = sig /\ pc' = IF sig.received = "USR1" THEN "start" ELSE "hupchk"
  BY DEF UsrLoop, GotoPc, Restarting
<1>2. ctx' \in CtxRec
  BY DEF UsrLoop, CxInv, CxType, CtxRec
<1>3. SameDev(ctx, ctx')
  BY DEF UsrLoop, CxInv, CxType, CtxRec, SameDev
<1>4. SameKit(ctx, ctx')
  BY DEF UsrLoop, CxInv, CxType, CtxRec, SameKit
<1>5. SameRun(ctx, ctx')
  BY DEF UsrLoop, CxInv, CxType, CtxRec, SameRun
<1>6. CxType'
  BY <1>1, <1>2, <1>3, <1>4, <1>5 DEF UsrLoop, CxInv, CxType, PCs, Closing, Final
<1>7. DevOK(ctx, hist.raced)'
  BY <1>1, <1>2, <1>3, <1>4, <1>5 DEF CxInv, DevOK, SameDev
<1>8. Equipped(ctx, pc)'
  BY <1>1, <1>2, <1>3, <1>4, <1>5 DEF CxInv, Equipped, SameDev, SameKit, Delayed
<1>9. OwnDevice(ctx, pc, hist.raced)'
  BY <1>1, <1>2, <1>3, <1>4, <1>5 DEF CxInv, OwnDevice, Clean, Closed, SameDev, SameRun, Delayed
<1>10. Progress(ctx, pc, hist)'
  BY <1>1, <1>2, <1>3, <1>4, <1>5 DEF CxInv, Progress, SameDev, SameRun
<1>11. Closed(ctx, pc, sig.received, hist.raced)'
  BY <1>1, <1>2, <1>3, <1>4, <1>5 DEF CxInv, Closed, Clean, Unused, SameDev, SameKit, DevOK
<1> QED
  BY <1>6, <1>7, <1>8, <1>9, <1>10, <1>11 DEF CxInv

\* The end of the SIGHUP loop.
LEMMA HupLoopStep ==
    ASSUME CxInv, HupLoop
    PROVE  CxInv'
<1>1. opt' = opt /\ pc = "hupchk" /\ pc' \in {"main", "exit"} /\ hist' = hist /\ sig' = sig /\ ctx' = ctx
  BY DEF HupLoop, GotoPc
<1>2. CxType'
  BY <1>1 DEF HupLoop, CxInv, CxType, PCs, Closing, Final
<1>3. DevOK(ctx, hist.raced)'
  BY <1>1 DEF CxInv, DevOK, SameDev
<1>4. Equipped(ctx, pc)'
  BY <1>1 DEF CxInv, Equipped, SameDev, SameKit, Delayed
<1>5. OwnDevice(ctx, pc, hist.raced)'
  BY <1>1 DEF CxInv, OwnDevice, Clean, Closed, SameDev, SameRun, Delayed
<1>6. Progress(ctx, pc, hist)'
  BY <1>1 DEF CxInv, Progress, SameDev, SameRun
<1>7. Closed(ctx, pc, sig.received, hist.raced)'
  BY <1>1 DEF CxInv, Closed, Clean, Unused, SameDev, SameKit, DevOK
<1> QED
  BY <1>2, <1>3, <1>4, <1>5, <1>6, <1>7 DEF CxInv

\* A connection: with --pull options are asked for, else the tunnel comes up.
LEMMA EstablishedStep ==
    ASSUME CxInv, ConnectionEstablished
    PROVE  CxInv'
<1>1. opt' = opt /\ pc = "loop" /\ pc' = pc /\ hist' = hist /\ sig' = sig
  BY DEF ConnectionEstablished
<1>2. /\ ctx' \in CtxRec /\ SameKit(ctx, ctx') /\ UpReady(ctx', hist.raced)
      /\ ctx.do_up_ran => ctx'.do_up_ran /\ ctx'.tun = ctx.tun
      /\ ~ctx.do_up_ran => hist.pushed = None
  <2>1. ctx \in CtxRec /\ opt \in Opts /\ hist.raced \in BOOLEAN /\ UpReady(ctx, hist.raced)
        /\ (~ctx.do_up_ran => hist.pushed = None)
    BY LoopReady DEF ConnectionEstablished, CxInv, CxType, Progress
  <2>2. CASE opt.pull
    <3>1. ctx' = [ctx EXCEPT !.connected = TRUE, !.push_wait = TRUE]
      BY <2>2 DEF ConnectionEstablished
    <3>2. ctx' \in CtxRec /\ SameRun(ctx, ctx')
      BY <2>1, <3>1 DEF CtxRec, SameRun
    <3>3. SameKit(ctx, ctx')
      BY <2>1, <3>1 DEF CtxRec, SameKit
    <3>4. SameDev(ctx, ctx')
      BY <2>1, <3>1 DEF CtxRec, SameDev
    <3> QED
      BY <2>1, <3>2, <3>3, <3>4 DEF UpReady, DevOK, SameDev, SameRun, Delayed
  <2>3. CASE ~opt.pull
    <3> DEFINE y == DoUp(ctx)
    <3>1. ctx' = [y EXCEPT !.connected = TRUE]
      BY <2>3 DEF ConnectionEstablished
    <3>2. /\ y \in CtxRec /\ SameKit(ctx, y) /\ y.do_up_ran /\ UpReady(y, hist.raced) /\ y.tun # None
          /\ ctx.do_up_ran => y.tun = ctx.tun
      BY <2>1, UpIs
    <3> HIDE DEF y
    <3>3. ctx' \in CtxRec /\ SameRun(y, ctx')
      BY <3>1, <3>2 DEF CtxRec, SameRun
    <3>4. SameKit(y, ctx')
      BY <3>1, <3>2 DEF CtxRec, SameKit
    <3>5. SameDev(y, ctx')
      BY <3>1, <3>2 DEF CtxRec, SameDev
    <3>6. UpReady(ctx', hist.raced)
      BY <3>2, <3>3, <3>5 DEF UpReady, DevOK, SameDev, SameRun
    <3> QED
      BY <2>1, <3>2, <3>3, <3>4, <3>5, <3>6 DEF SameKit, SameDev, SameRun
  <2> QED
    BY <2>2, <2>3
<1>3. CxType'
  BY <1>1, <1>2 DEF ConnectionEstablished, CxInv, CxType, PCs, Closing, Final
<1>4. DevOK(ctx, hist.raced)'
  BY <1>1, <1>2 DEF CxInv, DevOK, SameDev, UpReady
<1>5. Equipped(ctx, pc)'
  BY <1>1, <1>2 DEF CxInv, Equipped, SameDev, SameKit, Delayed, UpReady
<1>6. OwnDevice(ctx, pc, hist.raced)'
  BY <1>1, <1>2 DEF CxInv, OwnDevice, Clean, Closed, SameDev, SameRun, Delayed, UpReady
<1>7. Progress(ctx, pc, hist)'
  BY <1>1, <1>2 DEF CxInv, Progress, SameDev, SameRun, UpReady
<1>8. Closed(ctx, pc, sig.received, hist.raced)'
  BY <1>1, <1>2 DEF CxInv, Closed, Clean, Unused, SameDev, SameKit, DevOK, UpReady
<1> QED
  BY <1>3, <1>4, <1>5, <1>6, <1>7, <1>8 DEF CxInv

\* The server's options: the tunnel comes up with them.
LEMMA PushReplyStep ==
    ASSUME NEW r \in Replies \cup {None}, CxInv, PushReply(r)
    PROVE  CxInv'
<1>1. opt' = opt /\ pc = "loop" /\ pc' = pc /\ sig' = sig /\ opt.pull /\ Delayed
  BY DEF PushReply, Delayed
<1>2. hist'.raced = hist.raced /\ hist'.pushed = (IF ctx.do_up_ran THEN hist.pushed ELSE r)
        /\ hist' \in [raced : BOOLEAN, lost : BOOLEAN, pushed : Replies \cup {None}]
  BY DEF PushReply, CxInv, CxType
<1>3. /\ ctx' \in CtxRec /\ SameKit(ctx, ctx') /\ UpReady(ctx', hist.raced)
      /\ ctx'.do_up_ran /\ ctx'.tun # None
      /\ ctx.do_up_ran => ctx'.tun = ctx.tun
      /\ ~ctx.do_up_ran /\ r # None => ctx'.tun = r
  <2> DEFINE x == IF r = None THEN ctx ELSE [ctx EXCEPT !.params = r, !.pulled = r]
             y == DoUp(x)
  <2>1. ctx \in CtxRec /\ opt \in Opts /\ hist.raced \in BOOLEAN /\ UpReady(ctx, hist.raced)
    BY LoopReady DEF PushReply, CxInv, CxType
  <2>2. x \in CtxRec /\ SameKit(ctx, x) /\ UpReady(x, hist.raced) /\ (r # None => x.pulled = r)
        /\ x.do_up_ran = ctx.do_up_ran /\ x.tun = ctx.tun
    <3>1. CASE r = None
      BY <2>1, <3>1 DEF SameKit
    <3>2. CASE r # None
      <4>1. x = Pulled(ctx, r)
        BY <3>2 DEF Pulled
      <4> HIDE DEF x
      <4> QED
        BY <1>1, <2>1, <3>2, <4>1, PulledIs DEF SameRun
    <3> QED
      BY <3>1, <3>2
  <2> HIDE DEF x
  <2>3. /\ y \in CtxRec /\ SameKit(x, y) /\ y.do_up_ran /\ UpReady(y, hist.raced) /\ y.tun # None
        /\ ~x.do_up_ran /\ opt.pull /\ x.pulled # None => y.tun = x.pulled
        /\ x.do_up_ran => y.tun = x.tun
    BY <2>1, <2>2, UpIs
  <2>4. ctx' = [y EXCEPT !.push_wait = FALSE]
    BY DEF PushReply, x
  <2> HIDE DEF y
  <2>5. ctx' \in CtxRec /\ SameRun(y, ctx')
    BY <2>3, <2>4 DEF CtxRec, SameRun
  <2>6. SameKit(y, ctx')
    BY <2>3, <2>4 DEF CtxRec, SameKit
  <2>7. SameDev(y, ctx')
    BY <2>3, <2>4 DEF CtxRec, SameDev
  <2>8. UpReady(ctx', hist.raced)
    BY <2>3, <2>5, <2>7 DEF UpReady, DevOK, SameDev, SameRun
  <2> QED
    BY <1>1, <2>2, <2>3, <2>5, <2>6, <2>7, <2>8 DEF SameKit, SameDev, SameRun
<1>4. CxType'
  BY <1>1, <1>2, <1>3 DEF PushReply, CxInv, CxType, PCs, Closing, Final
<1>5. DevOK(ctx, hist.raced)'
  BY <1>1, <1>2, <1>3 DEF CxInv, DevOK, SameDev, UpReady
<1>6. Equipped(ctx, pc)'
  BY <1>1, <1>2, <1>3 DEF CxInv, Equipped, SameDev, SameKit, Delayed, UpReady
<1>7. OwnDevice(ctx, pc, hist.raced)'
  BY <1>1, <1>2, <1>3 DEF CxInv, OwnDevice, Clean, Closed, SameDev, SameRun, Delayed, UpReady
<1>8. Progress(ctx, pc, hist)'
  BY <1>1, <1>2, <1>3 DEF CxInv, Progress, SameDev, SameRun, UpReady
<1>9. Closed(ctx, pc, sig.received, hist.raced)'
  BY <1>1, <1>2, <1>3 DEF CxInv, Closed, Clean, Unused, SameDev, SameKit, DevOK, UpReady
<1> QED
  BY <1>4, <1>5, <1>6, <1>7, <1>8, <1>9 DEF CxInv

\* Options that were refused.
LEMMA PushReplyBadStep ==
    ASSUME NEW r \in Replies, CxInv, PushReplyBad(r)
    PROVE  CxInv'
<1>1. opt' = opt /\ pc = "loop" /\ pc' = pc /\ sig' = sig /\ hist' = hist
  BY DEF PushReplyBad
<1>2. /\ ctx' \in CtxRec /\ SameKit(ctx, ctx') /\ SameRun(ctx, ctx')
      /\ UpReady(ctx', hist.raced) /\ ctx'.tun = ctx.tun /\ ctx'.routes = ctx.routes
  <2>1. ctx \in CtxRec /\ opt \in Opts /\ hist.raced \in BOOLEAN /\ UpReady(ctx, hist.raced) /\ opt.pull
    BY LoopReady DEF PushReplyBad, CxInv, CxType
  <2>2. ctx' = Pulled(ctx, r) /\ r \in Replies \cup {None} /\ r # None
    BY ContextAssumption DEF PushReplyBad, Pulled
  <2> QED
    BY <2>1, <2>2, PulledIs
<1>3. CxType'
  BY <1>1, <1>2 DEF PushReplyBad, CxInv, CxType, PCs, Closing, Final
<1>4. DevOK(ctx, hist.raced)'
  BY <1>1, <1>2 DEF CxInv, DevOK, SameDev, UpReady
<1>5. Equipped(ctx, pc)'
  BY <1>1, <1>2 DEF CxInv, Equipped, SameDev, SameKit, Delayed, UpReady
<1>6. OwnDevice(ctx, pc, hist.raced)'
  BY <1>1, <1>2 DEF CxInv, OwnDevice, Clean, Closed, SameDev, SameRun, Delayed, UpReady
<1>7. Progress(ctx, pc, hist)'
  BY <1>1, <1>2 DEF CxInv, Progress, SameDev, SameRun, UpReady
<1>8. Closed(ctx, pc, sig.received, hist.raced)'
  BY <1>1, <1>2 DEF CxInv, Closed, Clean, Unused, SameDev, SameKit, DevOK, UpReady
<1> QED
  BY <1>3, <1>4, <1>5, <1>6, <1>7, <1>8 DEF CxInv

\* A signal that the process is sent or raises.
LEMMA AsyncStep ==
    ASSUME NEW s \in {"TERM", "HUP", "USR1", "USR2"}, CxInv, Async(s)
    PROVE  CxInv'
<1>1. opt' = opt /\ pc' = pc /\ ctx' = ctx
  BY DEF Async
<1>2. hist'.raced = (hist.raced \/ pc \in Closing) /\ hist'.pushed = hist.pushed
        /\ hist' \in [raced : BOOLEAN, lost : BOOLEAN, pushed : Replies \cup {None}]
  BY DEF Async, ThrowSignal, CxInv, CxType
<1>3. sig' \in SigRec
  BY DEF Async, ThrowSignal, CxInv, CxType, SigRec
<1>4. used' \in [async : 0 .. MaxAsync, soft : 0 .. MaxSoft]
  BY ContextAssumption DEF Async, CxInv, CxType
<1>5. CxType'
  BY <1>1, <1>2, <1>3, <1>4 DEF Async, CxInv, CxType, PCs, Closing, Final
<1>6. DevOK(ctx, hist.raced)'
  BY <1>1, <1>2, <1>3, <1>4 DEF CxInv, DevOK, SameDev, Closing
<1>7. Equipped(ctx, pc)'
  BY <1>1, <1>2, <1>3, <1>4 DEF CxInv, Equipped, SameDev, SameKit, Delayed, Closing
<1>8. OwnDevice(ctx, pc, hist.raced)'
  BY <1>1, <1>2, <1>3, <1>4 DEF CxInv, OwnDevice, Clean, Closed, SameDev, SameRun, Delayed, Closing
<1>9. Progress(ctx, pc, hist)'
  BY <1>1, <1>2, <1>3, <1>4 DEF CxInv, Progress, SameDev, SameRun, Closing
<1>10. Closed(ctx, pc, sig.received, hist.raced)'
  BY <1>1, <1>2, <1>3, <1>4 DEF CxInv, Closed, Clean, Unused, SameDev, SameKit, DevOK, Closing
<1> QED
  BY <1>5, <1>6, <1>7, <1>8, <1>9, <1>10 DEF CxInv

\* A signal that the process is sent or raises.
LEMMA ManSignalStep ==
    ASSUME NEW s \in {"TERM", "HUP", "USR1", "USR2"}, CxInv, ManSignal(s)
    PROVE  CxInv'
<1>1. opt' = opt /\ pc' = pc /\ ctx' = ctx
  BY DEF ManSignal
<1>2. hist'.raced = (hist.raced \/ pc \in Closing) /\ hist'.pushed = hist.pushed
        /\ hist' \in [raced : BOOLEAN, lost : BOOLEAN, pushed : Replies \cup {None}]
  BY DEF ManSignal, ThrowSignal, CxInv, CxType
<1>3. sig' \in SigRec
  BY DEF ManSignal, ThrowSignal, CxInv, CxType, SigRec
<1>4. used' \in [async : 0 .. MaxAsync, soft : 0 .. MaxSoft]
  BY ContextAssumption DEF ManSignal, CxInv, CxType
<1>5. CxType'
  BY <1>1, <1>2, <1>3, <1>4 DEF ManSignal, CxInv, CxType, PCs, Closing, Final
<1>6. DevOK(ctx, hist.raced)'
  BY <1>1, <1>2, <1>3, <1>4 DEF CxInv, DevOK, SameDev, Closing
<1>7. Equipped(ctx, pc)'
  BY <1>1, <1>2, <1>3, <1>4 DEF CxInv, Equipped, SameDev, SameKit, Delayed, Closing
<1>8. OwnDevice(ctx, pc, hist.raced)'
  BY <1>1, <1>2, <1>3, <1>4 DEF CxInv, OwnDevice, Clean, Closed, SameDev, SameRun, Delayed, Closing
<1>9. Progress(ctx, pc, hist)'
  BY <1>1, <1>2, <1>3, <1>4 DEF CxInv, Progress, SameDev, SameRun, Closing
<1>10. Closed(ctx, pc, sig.received, hist.raced)'
  BY <1>1, <1>2, <1>3, <1>4 DEF CxInv, Closed, Clean, Unused, SameDev, SameKit, DevOK, Closing
<1> QED
  BY <1>5, <1>6, <1>7, <1>8, <1>9, <1>10 DEF CxInv

\* A signal that the process is sent or raises.
LEMMA SoftSignalStep ==
    ASSUME NEW s \in {"TERM", "USR1"}, CxInv, SoftSignal(s)
    PROVE  CxInv'
<1>1. opt' = opt /\ pc' = pc /\ ctx' = ctx
  BY DEF SoftSignal
<1>2. hist'.raced = (hist.raced \/ pc \in Closing) /\ hist'.pushed = hist.pushed
        /\ hist' \in [raced : BOOLEAN, lost : BOOLEAN, pushed : Replies \cup {None}]
  BY DEF SoftSignal, ThrowSignal, CxInv, CxType
<1>3. sig' \in SigRec
  BY DEF SoftSignal, ThrowSignal, CxInv, CxType, SigRec
<1>4. used' \in [async : 0 .. MaxAsync, soft : 0 .. MaxSoft]
  BY ContextAssumption DEF SoftSignal, CxInv, CxType
<1>5. CxType'
  BY <1>1, <1>2, <1>3, <1>4 DEF SoftSignal, CxInv, CxType, PCs, Closing, Final
<1>6. DevOK(ctx, hist.raced)'
  BY <1>1, <1>2, <1>3, <1>4 DEF CxInv, DevOK, SameDev, Closing
<1>7. Equipped(ctx, pc)'
  BY <1>1, <1>2, <1>3, <1>4 DEF CxInv, Equipped, SameDev, SameKit, Delayed, Closing
<1>8. OwnDevice(ctx, pc, hist.raced)'
  BY <1>1, <1>2, <1>3, <1>4 DEF CxInv, OwnDevice, Clean, Closed, SameDev, SameRun, Delayed, Closing
<1>9. Progress(ctx, pc, hist)'
  BY <1>1, <1>2, <1>3, <1>4 DEF CxInv, Progress, SameDev, SameRun, Closing
<1>10. Closed(ctx, pc, sig.received, hist.raced)'
  BY <1>1, <1>2, <1>3, <1>4 DEF CxInv, Closed, Clean, Unused, SameDev, SameKit, DevOK, Closing
<1> QED
  BY <1>5, <1>6, <1>7, <1>8, <1>9, <1>10 DEF CxInv

\* A signal that the process is sent or raises.
LEMMA ExitNotificationStep ==
    ASSUME CxInv, ExitNotificationTimer
    PROVE  CxInv'
<1>1. opt' = opt /\ pc' = pc /\ ctx' = ctx
  BY DEF ExitNotificationTimer
<1>2. hist'.raced = (hist.raced \/ pc \in Closing) /\ hist'.pushed = hist.pushed
        /\ hist' \in [raced : BOOLEAN, lost : BOOLEAN, pushed : Replies \cup {None}]
  BY DEF ExitNotificationTimer, ThrowSignal, CxInv, CxType
<1>3. sig' \in SigRec
  BY DEF ExitNotificationTimer, ThrowSignal, CxInv, CxType, SigRec
<1>4. used' \in [async : 0 .. MaxAsync, soft : 0 .. MaxSoft]
  BY ContextAssumption DEF ExitNotificationTimer, CxInv, CxType
<1>5. CxType'
  BY <1>1, <1>2, <1>3, <1>4 DEF ExitNotificationTimer, CxInv, CxType, PCs, Closing, Final
<1>6. DevOK(ctx, hist.raced)'
  BY <1>1, <1>2, <1>3, <1>4 DEF CxInv, DevOK, SameDev, Closing
<1>7. Equipped(ctx, pc)'
  BY <1>1, <1>2, <1>3, <1>4 DEF CxInv, Equipped, SameDev, SameKit, Delayed, Closing
<1>8. OwnDevice(ctx, pc, hist.raced)'
  BY <1>1, <1>2, <1>3, <1>4 DEF CxInv, OwnDevice, Clean, Closed, SameDev, SameRun, Delayed, Closing
<1>9. Progress(ctx, pc, hist)'
  BY <1>1, <1>2, <1>3, <1>4 DEF CxInv, Progress, SameDev, SameRun, Closing
<1>10. Closed(ctx, pc, sig.received, hist.raced)'
  BY <1>1, <1>2, <1>3, <1>4 DEF CxInv, Closed, Clean, Unused, SameDev, SameKit, DevOK, Closing
<1> QED
  BY <1>5, <1>6, <1>7, <1>8, <1>9, <1>10 DEF CxInv

\* Steps that leave the context alone.
LEMMA OtherStep ==
    ASSUME CxInv, HoldRelease \/ ManDisconnect \/ Idle \/ UNCHANGED ctxVars
    PROVE  CxInv'
<1>1. opt' = opt /\ pc' = pc /\ ctx' = ctx /\ sig' = sig /\ hist' = hist
        /\ handler' = handler /\ used' = used /\ release' \in BOOLEAN
  BY DEF HoldRelease, ManDisconnect, Idle, ctxVars, CxInv, CxType
<1>2. CxType'
  BY <1>1 DEF CxInv, CxType
<1>3. DevOK(ctx, hist.raced)'
  BY <1>1 DEF CxInv, DevOK, SameDev
<1>4. Equipped(ctx, pc)'
  BY <1>1 DEF CxInv, Equipped, SameDev, SameKit, Delayed
<1>5. OwnDevice(ctx, pc, hist.raced)'
  BY <1>1 DEF CxInv, OwnDevice, Clean, Closed, SameDev, SameRun, Delayed
<1>6. Progress(ctx, pc, hist)'
  BY <1>1 DEF CxInv, Progress, SameDev, SameRun
<1>7. Closed(ctx, pc, sig.received, hist.raced)'
  BY <1>1 DEF CxInv, Closed, Clean, Unused, SameDev, SameKit, DevOK
<1> QED
  BY <1>2, <1>3, <1>4, <1>5, <1>6, <1>7 DEF CxInv

-----------------------------------------------------------------------------
(* The theorems                                                            *)

\* The process starts with nothing.
LEMMA CxInit ==
    ASSUME ContextInit
    PROVE  CxInv
<1>1. CxType
  <2>1. ctx \in CtxRec
    <3> DEFINE yes == TRUE
               no == FALSE
    <3>1. ctx = [first_time |-> yes, root |-> yes, daemons |-> 0, params |-> Local, tun |-> None,
               saved |-> None, ks |-> no, status |-> no, plugins |-> no, pidp |-> no,
               addr |-> no, event_set |-> no, socket |-> no, buffers |-> no, tls |-> no,
               did_open_tun |-> no, do_up_ran |-> no, daemonized |-> no, uid_gid_set |-> no, pulled |-> None,
               exit_wait |-> no, wakeup |-> no, push_wait |-> no, connected |-> no, completed |-> no,
               handles |-> 0, routes |-> None]
      BY DEF ContextInit, CtxInit
    <3>2. yes \in BOOLEAN /\ no \in BOOLEAN
      OBVIOUS
    <3> HIDE DEF yes, no
    <3> QED
      BY <3>1, <3>2, NoneIs DEF CtxRec
  <2>2. sig \in SigRec /\ hist \in [raced : BOOLEAN, lost : BOOLEAN, pushed : Replies \cup {None}]
    BY DEF ContextInit, NoSig, SigRec
  <2>3. used \in [async : 0 .. MaxAsync, soft : 0 .. MaxSoft]
    BY ContextAssumption DEF ContextInit
  <2> QED
    BY <2>1, <2>2, <2>3 DEF ContextInit, CxType, PCs, Closing, Final
<1>2. DevOK(ctx, hist.raced)
  BY NoneIs DEF ContextInit, CtxInit, DevOK
<1>3. Equipped(ctx, pc) /\ OwnDevice(ctx, pc, hist.raced) /\ Progress(ctx, pc, hist)
  BY DEF ContextInit, Equipped, OwnDevice, Progress
<1>4. Closed(ctx, pc, sig.received, hist.raced)
  BY DEF ContextInit, CtxInit, Closed, Clean, Unused
<1> QED
  BY <1>1, <1>2, <1>3, <1>4 DEF CxInv

\* Every step keeps the invariant.
LEMMA CxStep ==
    ASSUME CxInv, [CtxNext]_ctxVars
    PROVE  CxInv'
<1>1. CASE MainLoops
  BY <1>1, MainStep, OpenManagementStep, UsrLoopStep, HupLoopStep DEF MainLoops
<1>2. CASE InitInstance
  BY <1>2, StartInstanceStep, StartupPauseStep, OpenObjectsStep, InitCryptoStep, InitCryptoFailsStep,
     InitSocket1Step, InitTunStep, InitOnceStep, InitSocket2Step, InitFatalStep DEF InitInstance
<1>3. CASE EventLoop
  BY <1>3, EstablishedStep, AddRoutesStep, ProcessSignalStep, ProcessSigusr2Step, ExitNotificationStep,
     PushReplyStep, PushReplyBadStep DEF EventLoop
<1>4. CASE CloseInstance
  BY <1>4, CloseKeysStep, CloseSocketStep, CloseTunStep, CloseRestStep DEF CloseInstance
<1>5. CASE CtxSignals
  BY <1>5, AsyncStep, ManSignalStep, SoftSignalStep DEF CtxSignals
<1>6. CASE HoldRelease \/ ManDisconnect \/ Idle \/ UNCHANGED ctxVars
  BY <1>6, OtherStep
<1> QED
  BY <1>1, <1>2, <1>3, <1>4, <1>5, <1>6 DEF CtxNext

\* The invariant implies what the run checks.
LEMMA CxImplies ==
    ASSUME CxInv
    PROVE  CtxInv
<1>1. CtxTypeOK
  BY DEF CxInv, CxType, CtxTypeOK, CtxRec, SigRec, Strings
<1>2. TunAccounted
  BY DEF CxInv, DevOK, TunAccounted
<1>3. ExitClean
  BY DEF CxInv, DevOK, Closed, Clean, Unused, ExitClean
<1>4. PulledInForce
  BY DEF CxInv, Progress, PulledInForce
<1>5. LoopEquipped
  BY DEF CxInv, Equipped, LoopEquipped
<1> QED
  BY <1>1, <1>2, <1>3, <1>4, <1>5 DEF CtxInv

\* Whatever options it was started with and whatever signals, management commands and replies
\* come in, in any number and order, the process holds at most the one device it knows, with
\* its routes; in the event loop it has all that a tunnel needs and, once initialisation is
\* announced complete, the device and routes the server pushed; and it exits with everything
\* closed, unless a signal came in while close_instance ran (openvpn.c, init.c, sig.c).
THEOREM ContextCorrect == CtxSpec => []CtxInv
<1>1. ContextInit => CxInv
  BY CxInit
<1>2. CxInv /\ [CtxNext]_ctxVars => CxInv'
  BY CxStep
<1>3. CxInv => CtxInv
  BY CxImplies
<1> QED
  BY <1>1, <1>2, <1>3, PTL DEF CtxSpec

\* What may close a device in one step.
LEMMA TunKept ==
    ASSUME CxInv, [CtxNext]_ctxVars, ctx.tun # None, ctx'.tun = None
    PROVE  \/ ~opt.persist_tun
           \/ pc = "close_tun" /\ sig.received # "USR1"
           \/ pc = "main" /\ hist.raced
<1>1. ctx \in CtxRec /\ opt \in Opts /\ hist.raced \in BOOLEAN /\ DevOK(ctx, hist.raced)
  BY DEF CxInv, CxType
<1>2. CASE Main
  BY <1>2 DEF CxInv, Closed, Clean, Main
<1>3. CASE OpenManagement
  BY <1>1, <1>3, FirstTimeIs DEF OpenManagement, SameDev
<1>4. CASE StartInstance
  BY <1>1, <1>4, C2ClearIs DEF StartInstance
<1>5. CASE InitTun
  BY <1>1, <1>5, OpenTunIs DEF InitTun
<1>6. CASE InitOnce
  <2> DEFINE x == DoInitFirstTime(ctx)
  <2>1. x \in CtxRec /\ x.tun = ctx.tun
    BY <1>1, FirstTimeIs DEF SameDev
  <2>2. ctx' = DoUidGidChroot(x, ctx.did_open_tun)
    BY <1>6 DEF InitOnce
  <2> HIDE DEF x
  <2> QED
    BY <1>1, <2>1, <2>2, FirstTimeIs DEF SameDev
<1>7. CASE OpenObjects \/ InitCrypto \/ InitCryptoFails \/ InitSocket1
  <2>1. CASE OpenObjects
    BY <1>1, <2>1 DEF OpenObjects, CtxRec
  <2>2. CASE InitCrypto
    BY <1>1, <2>2 DEF InitCrypto, CtxRec
  <2>3. CASE InitCryptoFails
    BY <1>1, <2>3 DEF InitCryptoFails, CtxRec
  <2>4. CASE InitSocket1
    BY <1>1, <2>4 DEF InitSocket1, CtxRec
  <2> QED
    BY <1>7, <2>1, <2>2, <2>3, <2>4
<1>8. CASE InitSocket2 \/ ProcessSignal
  <2>1. ctx' = ctx \/ ctx' = [ctx EXCEPT !.addr = TRUE] \/ ctx' = [ctx EXCEPT !.exit_wait = TRUE]
    BY <1>8 DEF InitSocket2, ProcessSignal
  <2>2. [ctx EXCEPT !.addr = TRUE].tun = ctx.tun /\ [ctx EXCEPT !.exit_wait = TRUE].tun = ctx.tun
    BY <1>1 DEF CtxRec
  <2> QED
    BY <2>1, <2>2
<1>9. CASE ConnectionEstablished
  <2>1. UpReady(ctx, hist.raced)
    BY <1>9, LoopReady DEF ConnectionEstablished
  <2>2. CASE opt.pull
    BY <1>1, <1>9, <2>2 DEF ConnectionEstablished, CtxRec
  <2>3. CASE ~opt.pull
    <3> DEFINE y == DoUp(ctx)
    <3>1. y \in CtxRec /\ y.tun # None
      BY <1>1, <2>1, UpIs
    <3>2. ctx' = [y EXCEPT !.connected = TRUE]
      BY <1>9, <2>3 DEF ConnectionEstablished
    <3> HIDE DEF y
    <3> QED
      BY <3>1, <3>2 DEF CtxRec
  <2> QED
    BY <2>2, <2>3
<1>10. CASE \E r \in Replies \cup {None} : PushReply(r)
  <2>1. PICK r \in Replies \cup {None} : PushReply(r)
    BY <1>10
  <2> DEFINE x == IF r = None THEN ctx ELSE Pulled(ctx, r)
             y == DoUp(x)
  <2>2. UpReady(ctx, hist.raced) /\ opt.pull
    BY <2>1, LoopReady DEF PushReply
  <2>3. ctx' = [y EXCEPT !.push_wait = FALSE]
    BY <2>1 DEF PushReply, Pulled
  <2>4. x \in CtxRec /\ UpReady(x, hist.raced)
    BY <1>1, <2>2, PulledIs
  <2> HIDE DEF x
  <2>5. y \in CtxRec /\ y.tun # None
    BY <1>1, <2>4, UpIs
  <2> HIDE DEF y
  <2> QED
    BY <2>3, <2>5 DEF CtxRec
<1>11. CASE AddRoutes
  <2> DEFINE x == [ctx EXCEPT !.wakeup = FALSE]
             y == DoRoute(x)
  <2>1. x \in CtxRec /\ x.tun = ctx.tun
    BY <1>1 DEF CtxRec
  <2>2. ctx' = InitializationSequenceCompleted(y)
    BY <1>11 DEF AddRoutes
  <2> HIDE DEF x
  <2>3. y \in CtxRec /\ y.tun = x.tun
    <3> DEFINE t == x.tun
    <3>1. y = [x EXCEPT !.routes = t] /\ t \in Strings
      BY <2>1 DEF DoRoute, CtxRec
    <3>2. y.tun = x.tun
      BY <2>1 DEF DoRoute, CtxRec
    <3> HIDE DEF y, t
    <3> QED
      BY <2>1, <3>1, <3>2 DEF CtxRec
  <2> HIDE DEF y
  <2> QED
    BY <1>1, <2>1, <2>2, <2>3, CompletedIs DEF SameDev
<1>12. CASE \E r \in Replies : PushReplyBad(r)
  BY <1>1, <1>12 DEF PushReplyBad, CtxRec
<1>13. CASE CloseTun
  BY <1>13 DEF CloseTun, DoCloseTun
<1>14. CASE CloseKeys \/ CloseSocket \/ CloseRest \/ UsrLoop
  <2>1. CASE CloseKeys
    BY <1>1, <2>1 DEF CloseKeys, CtxRec
  <2>2. CASE CloseSocket
    BY <1>1, <2>2 DEF CloseSocket, CtxRec
  <2>3. CASE CloseRest
    BY <1>1, <2>3 DEF CloseRest, CtxRec
  <2>4. CASE UsrLoop
    BY <1>1, <2>4 DEF UsrLoop, CtxRec
  <2> QED
    BY <1>14, <2>1, <2>2, <2>3, <2>4
<1>15. CASE ctx' = ctx
  BY <1>15
<1> QED
  <2>1. CASE MainLoops
    BY <2>1, <1>2, <1>3, <1>14, <1>15 DEF MainLoops, HupLoop
  <2>2. CASE InitInstance
    BY <2>2, <1>4, <1>5, <1>6, <1>7, <1>8, <1>15 DEF InitInstance, StartupPause, InitFatal
  <2>3. CASE EventLoop
    BY <2>3, <1>8, <1>9, <1>10, <1>11, <1>12, <1>15 DEF EventLoop, ProcessSigusr2, ExitNotificationTimer
  <2>4. CASE CloseInstance
    BY <2>4, <1>13, <1>14 DEF CloseInstance
  <2>5. CASE CtxSignals \/ HoldRelease \/ ManDisconnect \/ Idle \/ UNCHANGED ctxVars
    BY <2>5, <1>15 DEF CtxSignals, Async, ManSignal, SoftSignal, HoldRelease, ManDisconnect, Idle, ctxVars
  <2> QED
    BY <2>1, <2>2, <2>3, <2>4, <2>5 DEF CtxNext

\* --persist-tun keeps its promise in every step of every run: a SIGUSR1 restart never closes
\* the device, only another signal does, or the SIGHUP loop that forgets a device because a
\* signal came in while close_instance ran (do_close_tun, context_clear_1).
THEOREM PersistTunHolds == CtxSpec => PersistTun
<1>1. ContextInit => CxInv
  BY CxInit
<1>2. CxInv /\ [CtxNext]_ctxVars => CxInv'
  BY CxStep
<1>3. CxInv /\ [CtxNext]_ctxVars =>
        [ctx.tun # None /\ ctx'.tun = None =>
           \/ ~opt.persist_tun
           \/ pc = "close_tun" /\ sig.received # "USR1"
           \/ pc = "main" /\ hist.raced]_ctxVars
  BY TunKept
<1> QED
  BY <1>1, <1>2, <1>3, PTL DEF CtxSpec, PersistTun

(***************************************************************************)
(* The management interface.  ManState is inductive: between calls the     *)
(* connection is Settled, in every loop of the program; within one, only   *)
(* ClientOK and ToldOK hold, and OutputOK again once man_update_io_state   *)
(* ran.  CallPlace and Unblocked say where the callbacks are set and what  *)
(* the loops of manage.c have to revert to.                                *)
(***************************************************************************)

ManRec == [st : {"INITIAL", "LISTEN", "READ", "WRITE"}, who : {"none", "a", "b"}, last : {"a", "b"},
           out : Seq({"a", "b"}), in : {"none", "a", "b"}, verified : BOOLEAN,
           tries : 0 .. N_PASSWORD_RETRIES, halt : BOOLEAN, log : BOOLEAN, gave : BOOLEAN, told : BOOLEAN,
           mode : {"disabled", "user_pass"}, user : BOOLEAN, pass : BOOLEAN, hold : BOOLEAN, disabled : BOOLEAN,
           release : BOOLEAN, special : {"none", "hold", "password"}, callback : BOOLEAN, alarm : {"none"}]

\* The client and its data, at any point of a call: no alarm was raised, a verified client gave
\* the password, one more wrong password is within the limit, and what is buffered is the client's.
ClientOK(s) ==
    /\ s \in ManRec /\ Len(s.out) <= MaxOut
    /\ s.verified => s.gave
    /\ s.halt \/ s.tries < N_PASSWORD_RETRIES
    /\ s.st \in {"READ", "WRITE"} <=> s.who # "none"
    /\ s.out # <<>> => s.st = "WRITE"
    /\ s.in \in {"none", s.who} /\ \A i \in 1 .. Len(s.out) : s.out[i] = s.who

OutputOK(s) == s.st = "WRITE" => s.out # <<>>
ToldOK(s) == s.special # "none" /\ ClientConnected(s) /\ ~PasswordNeeded(s) => s.told
HaltOK(s) == ClientConnected(s) => ~s.halt

\* Between calls.
Settled(s) == ClientOK(s) /\ OutputOK(s) /\ ToldOK(s) /\ HaltOK(s)

\* All that output and the loss of a client leave alone.
SameButIo(t, s) ==
    /\ t.last = s.last /\ t.verified = s.verified /\ t.tries = s.tries /\ t.halt = s.halt /\ t.log = s.log
    /\ t.gave = s.gave /\ t.told = s.told /\ t.mode = s.mode /\ t.user = s.user /\ t.pass = s.pass
    /\ t.hold = s.hold /\ t.disabled = s.disabled /\ t.release = s.release /\ t.special = s.special
    /\ t.callback = s.callback /\ t.alarm = s.alarm
    /\ ClientConnected(t) => ClientConnected(s)

\* The client's socket is closed and the program listens again.
LEMMA ResetClientIs ==
    ASSUME NEW s, ClientOK(s)
    PROVE  LET t == man_reset_client_socket(s, TRUE)
           IN  ClientOK(t) /\ OutputOK(t) /\ SameButIo(t, s) /\ ~ClientConnected(t)
<1>1. CASE s.who = "none"
  BY <1>1 DEF man_reset_client_socket, ClientOK, OutputOK, SameButIo, ClientConnected
<1>2. CASE s.who # "none"
  <2> DEFINE e == <<>>
             t == [s EXCEPT !.in = "none", !.out = e, !.who = "none", !.st = "LISTEN"]
  <2>e. e \in Seq({"a", "b"}) /\ Len(e) = 0 /\ e = <<>>
    OBVIOUS
  <2>1. man_reset_client_socket(s, TRUE) = t
    BY <1>2 DEF man_reset_client_socket, ClientOK, ManRec
  <2>2. /\ t \in ManRec /\ t.in = "none" /\ t.out = e /\ t.who = "none" /\ t.st = "LISTEN"
        /\ t.last = s.last /\ t.verified = s.verified /\ t.tries = s.tries /\ t.halt = s.halt /\ t.log = s.log
        /\ t.gave = s.gave /\ t.told = s.told /\ t.mode = s.mode /\ t.user = s.user /\ t.pass = s.pass
        /\ t.hold = s.hold /\ t.disabled = s.disabled /\ t.release = s.release /\ t.special = s.special
        /\ t.callback = s.callback /\ t.alarm = s.alarm
    <3> HIDE DEF e
    <3> QED
      BY <2>e DEF ClientOK, ManRec
  <2> HIDE DEF t, e
  <2>3. Len(t.out) <= MaxOut /\ 1 .. Len(t.out) = {} /\ (t.out # <<>>) = FALSE
    BY <2>2, <2>e, ManagementAssumption
  <2>4. ClientOK(t)
    BY <2>2, <2>3 DEF ClientOK
  <2>5. OutputOK(t) /\ SameButIo(t, s) /\ ~ClientConnected(t)
    BY <2>2 DEF OutputOK, SameButIo, ClientConnected
  <2> QED
    BY <2>1, <2>4, <2>5
<1> QED
  BY <1>1, <1>2

\* The queue changes and the state follows.
LEMMA UpdateIs ==
    ASSUME NEW s, ClientOK(s), NEW q \in Seq({"a", "b"}), Len(q) <= MaxOut, s.who # "none",
           \A i \in 1 .. Len(q) : q[i] = s.who
    PROVE  LET t == man_update_io_state([s EXCEPT !.out = q])
           IN  ClientOK(t) /\ OutputOK(t) /\ SameButIo(t, s) /\ t.who = s.who /\ t.out = q
<1> DEFINE u == [s EXCEPT !.out = q]
           st == IF q = <<>> THEN "READ" ELSE "WRITE"
           t == [u EXCEPT !.st = st]
<1>1. u \in ManRec /\ u.who = s.who /\ u.out = q
  BY DEF ClientOK, ManRec
<1>2. man_update_io_state(u) = t
  BY <1>1 DEF man_update_io_state
<1>3. /\ t \in ManRec /\ t.in = s.in /\ t.out = q /\ t.who = s.who /\ t.st = st
      /\ t.last = s.last /\ t.verified = s.verified /\ t.tries = s.tries /\ t.halt = s.halt /\ t.log = s.log
      /\ t.gave = s.gave /\ t.told = s.told /\ t.mode = s.mode /\ t.user = s.user /\ t.pass = s.pass
      /\ t.hold = s.hold /\ t.disabled = s.disabled /\ t.release = s.release /\ t.special = s.special
      /\ t.callback = s.callback /\ t.alarm = s.alarm
  BY DEF ClientOK, ManRec
<1> HIDE DEF t
<1> QED
  BY <1>2, <1>3 DEF ClientOK, OutputOK, SameButIo, ClientConnected, u

\* A change that leaves the socket and the buffers alone.
LEMMA SameIoIs ==
    ASSUME NEW s, ClientOK(s), NEW t \in ManRec, t.st = s.st, t.who = s.who, t.out = s.out, t.in = s.in,
           t.verified => t.gave, t.halt \/ t.tries < N_PASSWORD_RETRIES
    PROVE  ClientOK(t) /\ (OutputOK(s) => OutputOK(t)) /\ (ClientConnected(t) <=> ClientConnected(s))
  BY DEF ClientOK, OutputOK, ClientConnected

\* What was written, or not.
LEMMA FlushedIs ==
    ASSUME NEW s, ClientOK(s), OutputOK(s), NEW t \in Flushed(s)
    PROVE  ClientOK(t) /\ OutputOK(t) /\ SameButIo(t, s)
<1>1. CASE t = s
  BY <1>1 DEF SameButIo
<1>2. CASE s.st = "WRITE" /\ t = man_update_io_state([s EXCEPT !.out = <<>>])
  <2> DEFINE e == <<>>
  <2>1. e \in Seq({"a", "b"}) /\ Len(e) = 0 /\ e = <<>>
    OBVIOUS
  <2>2. s.who # "none"
    BY <1>2 DEF ClientOK
  <2> HIDE DEF e
  <2>3. Len(e) <= MaxOut /\ (\A i \in 1 .. Len(e) : e[i] = s.who) /\ t = man_update_io_state([s EXCEPT !.out = e])
    BY <1>2, <2>1, ManagementAssumption
  <2> QED
    BY <2>1, <2>2, <2>3, UpdateIs
<1>3. CASE t = man_reset_client_socket(s, TRUE)
  BY <1>3, ResetClientIs
<1> QED
  BY <1>1, <1>2, <1>3 DEF Flushed

\* A message to the client: afterwards the state fits the queue.
LEMMA PushIs ==
    ASSUME NEW s, ClientOK(s), NEW t \in man_output_list_push(s)
    PROVE  ClientOK(t) /\ OutputOK(t) /\ SameButIo(t, s)
<1>1. CASE ~ClientConnected(s)
  <2>1. t = s
    BY <1>1 DEF man_output_list_push
  <2> QED
    BY <1>1, <2>1 DEF OutputOK, ClientConnected, SameButIo
<1>2. CASE ClientConnected(s)
  <2> DEFINE q == IF Len(s.out) < MaxOut THEN Append(s.out, s.who) ELSE s.out
             u == man_update_io_state([s EXCEPT !.out = q])
  <2>1. s.who \in {"a", "b"} /\ s.out \in Seq({"a", "b"}) /\ Len(s.out) <= MaxOut
        /\ \A i \in 1 .. Len(s.out) : s.out[i] = s.who
    BY <1>2 DEF ClientOK, ManRec, ClientConnected
  <2>2. q \in Seq({"a", "b"}) /\ Len(q) <= MaxOut /\ \A i \in 1 .. Len(q) : q[i] = s.who
    <3>1. CASE Len(s.out) < MaxOut
      <4>1. q = Append(s.out, s.who)
        BY <3>1
      <4>2. /\ Append(s.out, s.who) \in Seq({"a", "b"}) /\ Len(Append(s.out, s.who)) = Len(s.out) + 1
            /\ \A i \in 1 .. Len(s.out) + 1 : Append(s.out, s.who)[i] = s.who
        BY <2>1
      <4> QED
        BY <3>1, <4>1, <4>2, <2>1, ManagementAssumption
    <3>2. CASE ~(Len(s.out) < MaxOut)
      BY <3>2, <2>1
    <3> QED
      BY <3>1, <3>2
  <2>3. t \in Flushed(u)
    BY <1>2 DEF man_output_list_push
  <2> HIDE DEF q
  <2>4. ClientOK(u) /\ OutputOK(u) /\ SameButIo(u, s)
    BY <2>1, <2>2, UpdateIs
  <2> HIDE DEF u
  <2>5. ClientOK(t) /\ OutputOK(t) /\ SameButIo(t, u)
    BY <2>3, <2>4, FlushedIs
  <2> QED
    BY <2>4, <2>5 DEF SameButIo
<1> QED
  BY <1>1, <1>2

LEMMA ClientMsgIs ==
    ASSUME NEW s, ClientOK(s), NEW t \in ClientMsg(s)
    PROVE  /\ ClientOK(t) /\ SameButIo(t, s) /\ (OutputOK(s) \/ ~PasswordNeeded(s) => OutputOK(t))
           /\ PasswordNeeded(t) <=> PasswordNeeded(s)
<1>1. ClientOK(t) /\ SameButIo(t, s) /\ (OutputOK(s) \/ ~PasswordNeeded(s) => OutputOK(t))
  <2>1. CASE PasswordNeeded(s)
    BY <2>1 DEF ClientMsg, SameButIo
  <2>2. CASE ~PasswordNeeded(s)
    BY <2>2, PushIs DEF ClientMsg
  <2> QED
    BY <2>1, <2>2
<1> QED
  BY <1>1 DEF SameButIo, PasswordNeeded

LEMMA PromptIs ==
    ASSUME NEW s, ClientOK(s), NEW t \in man_prompt(s)
    PROVE  /\ ClientOK(t) /\ SameButIo(t, s) /\ (OutputOK(s) \/ PasswordNeeded(s) => OutputOK(t))
  BY PushIs DEF man_prompt, SameButIo

\* The same client in the same standing is told no less.
LEMMA StillTold ==
    ASSUME NEW s, NEW t, ToldOK(s), SameButIo(t, s) PROVE ToldOK(t)
  BY DEF ToldOK, SameButIo, PasswordNeeded

LEMMA LogMsgIs ==
    ASSUME NEW s, Settled(s), NEW t \in LogMsg(s)
    PROVE  Settled(t) /\ SameButIo(t, s)
<1>1. ClientOK(t) /\ OutputOK(t) /\ SameButIo(t, s)
  BY PushIs DEF LogMsg, Settled, SameButIo
<1> QED
  BY <1>1, StillTold DEF Settled, SameButIo, HaltOK

\* Outside of a call, what must not change by serving a client.
Frame(t, s) == t.callback = s.callback /\ t.disabled = s.disabled

\* The client is greeted, and told what the program waits for.
LEMMA WelcomeIs ==
    ASSUME NEW s, ClientOK(s), ~PasswordNeeded(s), NEW t \in man_welcome(s)
    PROVE  ClientOK(t) /\ OutputOK(t) /\ ToldOK(t) /\ Frame(t, s) /\ t.halt = s.halt
<1>1. CASE s.special = "none"
  <2>1. t \in ClientMsg(s)
    BY <1>1 DEF man_welcome
  <2>2. ClientOK(t) /\ OutputOK(t) /\ SameButIo(t, s)
    BY <2>1, ClientMsgIs
  <2> QED
    BY <1>1, <2>2 DEF SameButIo, ToldOK, Frame
<1>2. CASE s.special # "none"
  <2>1. PICK u \in ClientMsg(s) : t \in ClientMsg([u EXCEPT !.told = TRUE])
    BY <1>2 DEF man_welcome
  <2> DEFINE v == [u EXCEPT !.told = TRUE]
  <2>2. ClientOK(u) /\ OutputOK(u) /\ SameButIo(u, s) /\ ~PasswordNeeded(u)
    BY <2>1, ClientMsgIs
  <2>3. /\ v \in ManRec /\ v.st = u.st /\ v.who = u.who /\ v.out = u.out /\ v.in = u.in /\ v.verified = u.verified
        /\ v.gave = u.gave /\ v.halt = u.halt /\ v.tries = u.tries /\ v.told = TRUE /\ v.callback = u.callback
        /\ v.disabled = u.disabled
    BY <2>2 DEF ClientOK, ManRec
  <2>4. t \in ClientMsg(v)
    BY <2>1
  <2> HIDE DEF v
  <2>5. ClientOK(v) /\ OutputOK(v)
    <3>1. (v.verified => v.gave) /\ (v.halt \/ v.tries < N_PASSWORD_RETRIES)
      BY <2>2, <2>3 DEF ClientOK
    <3> QED
      BY <2>2, <2>3, <3>1, SameIoIs
  <2>6. ClientOK(t) /\ OutputOK(t) /\ SameButIo(t, v)
    BY <2>4, <2>5, ClientMsgIs
  <2> QED
    BY <2>2, <2>3, <2>6 DEF SameButIo, ToldOK, Frame
<1> QED
  BY <1>1, <1>2

\* A password: the right one lets the client in, a wrong one counts.
LEMMA PasswordIs ==
    ASSUME NEW s, ClientOK(s), OutputOK(s), ToldOK(s), ~s.halt, NEW line, NEW t \in man_check_password(s, line)
    PROVE  ClientOK(t) /\ OutputOK(t) /\ ToldOK(t) /\ Frame(t, s)
<1>1. CASE line = "secret"
  <2> DEFINE u == [s EXCEPT !.verified = TRUE, !.gave = TRUE]
  <2>1. PICK v \in ClientMsg(u) : t \in man_welcome(v)
    BY <1>1 DEF man_check_password
  <2>2. /\ u \in ManRec /\ u.st = s.st /\ u.who = s.who /\ u.out = s.out /\ u.in = s.in /\ u.verified = TRUE
        /\ u.gave = TRUE /\ u.halt = s.halt /\ u.tries = s.tries /\ u.callback = s.callback /\ u.disabled = s.disabled
    BY DEF ClientOK, ManRec
  <2> HIDE DEF u
  <2>3. ClientOK(u) /\ OutputOK(u) /\ ~PasswordNeeded(u)
    <3>1. (u.verified => u.gave) /\ (u.halt \/ u.tries < N_PASSWORD_RETRIES) /\ ~PasswordNeeded(u)
      BY <2>2 DEF ClientOK, PasswordNeeded
    <3> QED
      BY <2>2, <3>1, SameIoIs
  <2>4. ClientOK(v) /\ SameButIo(v, u) /\ ~PasswordNeeded(v)
    BY <2>1, <2>3, ClientMsgIs
  <2>5. ClientOK(t) /\ OutputOK(t) /\ ToldOK(t) /\ Frame(t, v)
    BY <2>1, <2>4, WelcomeIs
  <2> QED
    BY <2>2, <2>4, <2>5 DEF Frame, SameButIo
<1>2. CASE line # "secret"
  <2> DEFINE n == s.tries + 1
             h == n >= N_PASSWORD_RETRIES
             u == [s EXCEPT !.tries = n, !.halt = h]
  <2>1. s.tries \in 0 .. N_PASSWORD_RETRIES /\ s.tries < N_PASSWORD_RETRIES
    BY DEF ClientOK, ManRec
  <2>2. n \in 0 .. N_PASSWORD_RETRIES /\ h \in BOOLEAN /\ (h \/ n < N_PASSWORD_RETRIES)
    BY <2>1, ManagementAssumption
  <2>3. t = u
    BY <1>2 DEF man_check_password
  <2> HIDE DEF n, h
  <2>4. /\ t \in ManRec /\ t.st = s.st /\ t.who = s.who /\ t.out = s.out /\ t.in = s.in /\ t.verified = s.verified
        /\ t.gave = s.gave /\ t.halt = h /\ t.tries = n /\ t.callback = s.callback /\ t.disabled = s.disabled
        /\ t.special = s.special /\ t.told = s.told
    BY <2>2, <2>3 DEF ClientOK, ManRec
  <2> HIDE DEF u
  <2>5. ClientOK(t) /\ OutputOK(t)
    <3>1. (t.verified => t.gave) /\ (t.halt \/ t.tries < N_PASSWORD_RETRIES)
      BY <2>2, <2>4 DEF ClientOK
    <3> QED
      BY <2>4, <3>1, SameIoIs
  <2> QED
    BY <2>4, <2>5 DEF ToldOK, Frame, ClientConnected, PasswordNeeded
<1> QED
  BY <1>1, <1>2

\* What a command may change: its own flag, and nothing of the connection.
Variant(u, s) ==
    /\ u \in ManRec /\ u.st = s.st /\ u.who = s.who /\ u.out = s.out /\ u.in = s.in /\ u.verified = s.verified
    /\ u.gave = s.gave /\ u.tries = s.tries /\ u.told = s.told /\ u.special = s.special
    /\ u.callback = s.callback /\ u.disabled = s.disabled /\ (s.halt => u.halt)

LEMMA VariantIs ==
    ASSUME NEW s, ClientOK(s), NEW u, Variant(u, s)
    PROVE  /\ ClientOK(u) /\ (OutputOK(s) => OutputOK(u)) /\ (ToldOK(s) => ToldOK(u)) /\ Frame(u, s)
           /\ PasswordNeeded(u) <=> PasswordNeeded(s)
<1>1. (u.verified => u.gave) /\ (u.halt \/ u.tries < N_PASSWORD_RETRIES)
  BY DEF ClientOK, Variant
<1>2. ClientOK(u) /\ (OutputOK(s) => OutputOK(u))
  BY <1>1, SameIoIs DEF Variant
<1> QED
  BY <1>2 DEF Variant, ToldOK, ClientConnected, PasswordNeeded, Frame

\* The callbacks are set only while the tunnel is running.
Live(s) == s.callback => at.loop = "event" \/ at.ret = "event"

\* A command of a client that gave the password.
LEMMA DispatchIs ==
    ASSUME NEW s, ClientOK(s), OutputOK(s), ToldOK(s), Live(s), NEW line, NEW t \in man_dispatch_command(s, line)
    PROVE  ClientOK(t) /\ OutputOK(t) /\ ToldOK(t) /\ Frame(t, s)
<1>a. CalledBack(s) = s
  BY DEF CalledBack, Live
<1>b. s \in ManRec
  BY DEF ClientOK
<1>1. \E u : Variant(u, s) /\ (t = u \/ t \in ClientMsg(u))
  <2>1. CASE line = "exit"
    <3>1. t = [s EXCEPT !.halt = TRUE]
      BY <2>1 DEF man_dispatch_command
    <3>2. Variant(t, s)
      BY <1>b, <3>1 DEF Variant, ManRec
    <3> QED
      BY <3>2
  <2>2. CASE line = "hold release"
    <3>1. t \in ClientMsg([s EXCEPT !.release = TRUE])
      BY <2>2 DEF man_dispatch_command
    <3>2. Variant([s EXCEPT !.release = TRUE], s)
      BY <1>b DEF Variant, ManRec
    <3> QED
      BY <3>1, <3>2
  <2>3. CASE line = "hold on"
    <3>1. t \in ClientMsg([s EXCEPT !.hold = TRUE])
      BY <2>3 DEF man_dispatch_command
    <3>2. Variant([s EXCEPT !.hold = TRUE], s)
      BY <1>b DEF Variant, ManRec
    <3> QED
      BY <3>1, <3>2
  <2>4. CASE line = "hold off"
    <3>1. t \in ClientMsg([s EXCEPT !.hold = FALSE])
      BY <2>4 DEF man_dispatch_command
    <3>2. Variant([s EXCEPT !.hold = FALSE], s)
      BY <1>b DEF Variant, ManRec
    <3> QED
      BY <3>1, <3>2
  <2>5. CASE line = "log on"
    <3>1. t \in ClientMsg([s EXCEPT !.log = TRUE])
      BY <2>5 DEF man_dispatch_command
    <3>2. Variant([s EXCEPT !.log = TRUE], s)
      BY <1>b DEF Variant, ManRec
    <3> QED
      BY <3>1, <3>2
  <2>6. CASE line = "username"
    <3> DEFINE b == s.user \/ s.mode = "user_pass"
    <3>1. t \in ClientMsg([s EXCEPT !.user = b])
      BY <2>6 DEF man_dispatch_command
    <3>2. b \in BOOLEAN
      BY <1>b DEF ManRec
    <3> HIDE DEF b
    <3>3. Variant([s EXCEPT !.user = b], s)
      BY <1>b, <3>2 DEF Variant, ManRec
    <3> QED
      BY <3>1, <3>3
  <2>7. CASE line = "password"
    <3> DEFINE b == s.pass \/ s.mode # "disabled"
    <3>1. t \in ClientMsg([s EXCEPT !.pass = b])
      BY <2>7 DEF man_dispatch_command
    <3>2. b \in BOOLEAN
      BY <1>b DEF ManRec
    <3> HIDE DEF b
    <3>3. Variant([s EXCEPT !.pass = b], s)
      BY <1>b, <3>2 DEF Variant, ManRec
    <3> QED
      BY <3>1, <3>3
  <2>8. CASE line \notin {"exit", "hold release", "hold on", "hold off", "log on", "username", "password"}
    <3>1. t \in ClientMsg(s)
      BY <2>8, <1>a DEF man_dispatch_command
    <3>2. Variant(s, s)
      BY <1>b DEF Variant
    <3> QED
      BY <3>1, <3>2
  <2> QED
    BY <2>1, <2>2, <2>3, <2>4, <2>5, <2>6, <2>7, <2>8
<1>2. PICK u : Variant(u, s) /\ (t = u \/ t \in ClientMsg(u))
  BY <1>1
<1>3. ClientOK(u) /\ OutputOK(u) /\ ToldOK(u) /\ Frame(u, s)
  BY <1>2, VariantIs
<1>4. CASE t \in ClientMsg(u)
  <2>1. ClientOK(t) /\ OutputOK(t) /\ SameButIo(t, u)
    BY <1>3, <1>4, ClientMsgIs
  <2> QED
    BY <1>3, <2>1, StillTold DEF Frame, SameButIo
<1> QED
  BY <1>2, <1>3, <1>4

\* What holds between the lines of one recv.
Reading(s) == ClientOK(s) /\ OutputOK(s) /\ ToldOK(s)

LEMMA CommandIs ==
    ASSUME NEW s, Reading(s), Live(s), ~s.halt, NEW line, NEW t \in man_process_command(s, line)
    PROVE  Reading(t) /\ Frame(t, s)
<1>1. CASE PasswordNeeded(s)
  <2>1. t \in man_check_password(s, line)
    BY <1>1 DEF man_process_command
  <2> QED
    BY <2>1, PasswordIs DEF Reading
<1>2. CASE ~PasswordNeeded(s)
  <2>1. ~(mset.pw /\ ~s.gave)
    BY <1>2 DEF PasswordNeeded, Reading, ClientOK
  <2>2. t \in man_dispatch_command(s, line)
    BY <1>2, <2>1 DEF man_process_command
  <2> QED
    BY <2>2, DispatchIs DEF Reading
<1> QED
  BY <1>1, <1>2

LEMMA ProcessLineIs ==
    ASSUME NEW s, NEW S, \A u \in S : Reading(u) /\ Live(u) /\ Frame(u, s),
           NEW t \in ProcessLine(S)
    PROVE  Reading(t) /\ Live(t) /\ Frame(t, s)
<1>1. PICK u \in S : t \in IF u.halt \/ ~ClientConnected(u) THEN {u}
                           ELSE UNION {man_process_command(u, line) : line \in Commands}
  BY DEF ProcessLine
<1>2. CASE t = u
  BY <1>1, <1>2
<1>3. CASE ~u.halt /\ \E line \in Commands : t \in man_process_command(u, line)
  <2>1. Reading(t) /\ Frame(t, u)
    BY <1>1, <1>3, CommandIs
  <2> QED
    BY <1>1, <2>1 DEF Frame, Live
<1> QED
  BY <1>1, <1>2, <1>3

\* The state follows the queue.
LEMMA UpdateSelf ==
    ASSUME NEW s, ClientOK(s)
    PROVE  LET t == man_update_io_state(s) IN ClientOK(t) /\ OutputOK(t) /\ SameButIo(t, s)
<1>1. CASE s.who = "none"
  BY <1>1 DEF man_update_io_state, ClientOK, OutputOK, SameButIo
<1>2. CASE s.who # "none"
  <2> DEFINE q == s.out
  <2>1. /\ q \in Seq({"a", "b"}) /\ Len(q) <= MaxOut /\ \A i \in 1 .. Len(q) : q[i] = s.who
        /\ s = [s EXCEPT !.out = q]
    BY DEF ClientOK, ManRec
  <2> HIDE DEF q
  <2>2. LET t == man_update_io_state([s EXCEPT !.out = q]) IN ClientOK(t) /\ OutputOK(t) /\ SameButIo(t, s)
    BY <1>2, <2>1, UpdateIs
  <2> QED
    BY <2>1, <2>2
<1> QED
  BY <1>1, <1>2

\* A client is accepted, greeted or asked for the password.
LEMMA AcceptIs ==
    ASSUME NEW s, Settled(s), s.st = "LISTEN", NEW t \in man_accept(s)
    PROVE  Settled(t) /\ Frame(t, s)
<1>1. CASE t = s
  BY <1>1 DEF Frame
<1>2. CASE t # s
  <2> DEFINE e == <<>>
             z == 0
             w == IF s.last = "a" THEN "b" ELSE "a"
             a == [s EXCEPT !.who = w, !.last = w, !.log = FALSE, !.verified = FALSE, !.tries = z, !.halt = FALSE,
                            !.st = "WRITE", !.out = e, !.gave = FALSE, !.told = FALSE]
  <2>e. e \in Seq({"a", "b"}) /\ Len(e) = 0 /\ e = <<>>
    OBVIOUS
  <2>w. w \in {"a", "b"}
    OBVIOUS
  <2>1. Accepted(s) = a
    BY DEF Accepted
  <2>2. z \in 0 .. N_PASSWORD_RETRIES /\ z < N_PASSWORD_RETRIES
    BY ManagementAssumption
  <2> HIDE DEF e, w, z
  <2>i. s \in ManRec /\ s.in = "none"
    BY DEF Settled, ClientOK
  <2>3. a \in ManRec
    <3> DEFINE b == [s EXCEPT !.who = w, !.last = w, !.log = FALSE, !.verified = FALSE, !.tries = z]
    <3>1. b \in ManRec
      BY <2>w, <2>2, <2>i DEF ManRec
    <3>2. a = [b EXCEPT !.halt = FALSE, !.st = "WRITE", !.out = e, !.gave = FALSE, !.told = FALSE]
      BY <2>i DEF ManRec
    <3>3. e \in Seq({"a", "b"})
      BY <2>e
    <3> HIDE DEF b, a
    <3> QED
      BY <3>1, <3>2, <3>3 DEF ManRec
  <2>4. /\ a.who = w /\ a.st = "WRITE" /\ a.out = e /\ a.in = "none" /\ a.verified = FALSE /\ a.tries = z
        /\ a.halt = FALSE /\ a.callback = s.callback /\ a.disabled = s.disabled
    BY <2>i DEF ManRec
  <2> HIDE DEF a
  <2>5. Len(a.out) <= MaxOut /\ 1 .. Len(a.out) = {} /\ (a.out # <<>>) = FALSE
    BY <2>4, <2>e, ManagementAssumption
  <2>6. ClientOK(a) /\ ~a.halt /\ Frame(a, s)
    BY <2>2, <2>w, <2>3, <2>4, <2>5 DEF ClientOK, Frame
  <2>7. PICK u, v : /\ t = man_update_io_state(u) /\ u \in man_prompt(v)
                    /\ v \in IF PasswordNeeded(a) THEN {a} ELSE man_welcome(a)
    BY <1>2, <2>1 DEF man_accept
  <2>8. ClientOK(v) /\ ToldOK(v) /\ ~v.halt /\ Frame(v, a)
    <3>1. CASE PasswordNeeded(a)
      BY <3>1, <2>6, <2>7 DEF ToldOK, Frame
    <3>2. CASE ~PasswordNeeded(a)
      BY <3>2, <2>6, <2>7, WelcomeIs
    <3> QED
      BY <3>1, <3>2
  <2>9. ClientOK(u) /\ SameButIo(u, v)
    BY <2>7, <2>8, PromptIs
  <2>10. ClientOK(t) /\ OutputOK(t) /\ SameButIo(t, u)
    BY <2>7, <2>9, UpdateSelf
  <2>11. ToldOK(t)
    BY <2>8, <2>9, <2>10, StillTold
  <2> QED
    BY <2>6, <2>8, <2>9, <2>10, <2>11 DEF Settled, HaltOK, SameButIo, Frame
<1> QED
  BY <1>1, <1>2

\* The client's socket is closed.
LEMMA LostIs ==
    ASSUME NEW s, ClientOK(s)
    PROVE  LET t == man_reset_client_socket(s, TRUE) IN Settled(t) /\ Frame(t, s)
<1> DEFINE t == man_reset_client_socket(s, TRUE)
<1>1. ClientOK(t) /\ OutputOK(t) /\ SameButIo(t, s) /\ ~ClientConnected(t)
  BY ResetClientIs
<1> HIDE DEF t
<1>2. Settled(t) /\ Frame(t, s)
  BY <1>1 DEF Settled, HaltOK, ToldOK, SameButIo, Frame
<1> QED
  BY <1>2 DEF t

LEMMA ReadDoneIs ==
    ASSUME NEW s, Reading(s), NEW processed, NEW t \in ReadDone(s, processed)
    PROVE  Settled(t) /\ Frame(t, s)
<1>1. CASE s.halt
  BY <1>1, LostIs DEF ReadDone, Reading
<1>2. CASE ~s.halt
  <2>1. PICK u : t = man_update_io_state(u) /\ (u = s \/ u \in man_prompt(s))
    BY <1>2 DEF ReadDone
  <2>2. ClientOK(u) /\ SameButIo(u, s)
    BY <2>1, PromptIs DEF Reading, SameButIo
  <2>3. ClientOK(t) /\ OutputOK(t) /\ SameButIo(t, u)
    BY <2>1, <2>2, UpdateSelf
  <2>4. ToldOK(t)
    BY <2>2, <2>3, StillTold DEF Reading
  <2> QED
    BY <1>2, <2>2, <2>3, <2>4 DEF Settled, HaltOK, SameButIo, Frame
<1> QED
  BY <1>1, <1>2

LEMMA ReadIs ==
    ASSUME NEW s, Settled(s), Live(s), s.st = "READ", NEW t \in man_read(s)
    PROVE  Settled(t) /\ Frame(t, s)
<1> DEFINE got == Received(s)
           one == ProcessLine(got)
           two == ProcessLine(one)
<1>1. \A u \in got : Reading(u) /\ Live(u) /\ Frame(u, s)
  <2> SUFFICES ASSUME NEW piece \in {"none", s.who}
               PROVE  LET u == [s EXCEPT !.out = <<>>, !.in = piece] IN Reading(u) /\ Live(u) /\ Frame(u, s)
    BY DEF Received
  <2>1. s \in ManRec /\ s.who \in {"none", "a", "b"} /\ s.out = <<>>
    BY DEF Settled, ClientOK, ManRec
  <2> DEFINE q == s.out
             u == [s EXCEPT !.out = q, !.in = piece]
  <2>2. q = <<>> /\ q \in Seq({"a", "b"})
    BY <2>1 DEF ManRec
  <2> HIDE DEF q
  <2>3. /\ u \in ManRec /\ u.st = s.st /\ u.who = s.who /\ u.out = q /\ u.in = piece /\ u.verified = s.verified
        /\ u.gave = s.gave /\ u.tries = s.tries /\ u.told = s.told /\ u.special = s.special
        /\ u.callback = s.callback /\ u.disabled = s.disabled /\ u.halt = s.halt
    BY <2>1, <2>2 DEF ManRec
  <2> HIDE DEF u
  <2>4. q = s.out
    BY DEF q
  <2>5. ClientOK(u) /\ OutputOK(u)
    BY <2>3, <2>4 DEF Settled, ClientOK, OutputOK
  <2>6. ToldOK(u) /\ Live(u) /\ Frame(u, s)
    BY <2>3 DEF Settled, ToldOK, ClientConnected, PasswordNeeded, Live, Frame
  <2>7. u = [s EXCEPT !.out = <<>>, !.in = piece]
    BY <2>2 DEF u
  <2> QED
    BY <2>5, <2>6, <2>7 DEF Reading
<1> HIDE DEF got
<1>2. \A u \in one : Reading(u) /\ Live(u) /\ Frame(u, s)
  BY <1>1, ProcessLineIs
<1> HIDE DEF one
<1>3. \A u \in two : Reading(u) /\ Live(u) /\ Frame(u, s)
  BY <1>2, ProcessLineIs
<1> HIDE DEF two
<1>4. \/ t = s \/ t = man_reset_client_socket(s, TRUE)
      \/ \E u \in got \cup one \cup two, p \in BOOLEAN : t \in ReadDone(u, p)
  <2> DEFINE none == UNION {ReadDone(u, FALSE) : u \in got}
             some == UNION {ReadDone(u, TRUE) : u \in one \cup two}
  <2>1. man_read(s) = {man_reset_client_socket(s, TRUE), s} \cup none \cup some
    BY Zenon DEF man_read, got, one, two
  <2>2. CASE t \in none
    <3>1. PICK u \in got : t \in ReadDone(u, FALSE)
      BY <2>2
    <3> QED
      BY <3>1
  <2>3. CASE t \in some
    <3>1. PICK u \in one \cup two : t \in ReadDone(u, TRUE)
      BY <2>3
    <3> QED
      BY <3>1
  <2> QED
    <3> HIDE DEF none, some
    <3> QED
      BY <2>1, <2>2, <2>3
<1>5. CASE t = s
  BY <1>5 DEF Frame
<1>6. CASE t = man_reset_client_socket(s, TRUE)
  BY <1>6, LostIs DEF Settled
<1>7. CASE \E u \in got \cup one \cup two, p \in BOOLEAN : t \in ReadDone(u, p)
  <2>1. PICK u \in got \cup one \cup two, p \in BOOLEAN : t \in ReadDone(u, p)
    BY <1>7
  <2>2. Reading(u) /\ Frame(u, s)
    BY <1>1, <1>2, <1>3
  <2>3. Settled(t) /\ Frame(t, u)
    BY <2>1, <2>2, ReadDoneIs
  <2> QED
    BY <2>2, <2>3 DEF Frame
<1> QED
  BY <1>4, <1>5, <1>6, <1>7

LEMMA WriteIs ==
    ASSUME NEW s, Settled(s), s.st = "WRITE", NEW t \in man_write(s)
    PROVE  Settled(t) /\ Frame(t, s)
<1>1. CASE t = s
  BY <1>1 DEF Frame
<1>2. CASE t = man_reset_client_socket(s, TRUE)
  BY <1>2, LostIs DEF Settled
<1>3. CASE t = man_update_io_state([s EXCEPT !.out = Tail(s.out)])
  <2> DEFINE q == Tail(s.out)
  <2>1. s \in ManRec /\ s.out \in Seq({"a", "b"}) /\ s.out # <<>> /\ Len(s.out) <= MaxOut /\ s.who # "none"
        /\ \A i \in 1 .. Len(s.out) : s.out[i] = s.who
    BY DEF Settled, ClientOK, OutputOK, ManRec
  <2>2. q \in Seq({"a", "b"}) /\ Len(q) = Len(s.out) - 1 /\ \A i \in 1 .. Len(q) : q[i] = s.out[i + 1]
    BY <2>1
  <2>3. Len(s.out) \in Nat /\ Len(q) \in Nat
    BY <2>1, <2>2
  <2> HIDE DEF q
  <2>4. Len(q) <= MaxOut /\ \A i \in 1 .. Len(q) : q[i] = s.who
    BY <2>1, <2>2, <2>3, ManagementAssumption
  <2>5. t = man_update_io_state([s EXCEPT !.out = q])
    BY <1>3 DEF q
  <2>6. ClientOK(t) /\ OutputOK(t) /\ SameButIo(t, s)
    BY <2>1, <2>2, <2>4, <2>5, UpdateIs DEF Settled
  <2> QED
    BY <2>6, StillTold DEF Settled, HaltOK, SameButIo, Frame
<1> QED
  BY <1>1, <1>2, <1>3 DEF man_write

\* Serving the client leaves the connection in order, and what the loops set alone.
LEMMA IoIs ==
    ASSUME NEW s, Settled(s), Live(s), NEW t \in management_io(s)
    PROVE  Settled(t) /\ Frame(t, s)
<1>1. s.st \in {"INITIAL", "LISTEN", "READ", "WRITE"}
  BY DEF Settled, ClientOK, ManRec
<1>2. CASE s.st = "LISTEN"
  BY <1>2, AcceptIs DEF management_io
<1>3. CASE s.st = "READ"
  BY <1>3, ReadIs DEF management_io
<1>4. CASE s.st = "WRITE"
  BY <1>4, WriteIs DEF management_io
<1>5. CASE s.st = "INITIAL"
  BY <1>5 DEF management_io, Frame
<1> QED
  BY <1>1, <1>2, <1>3, <1>4, <1>5

Nested == {"hold_wait", "hold", "query_wait", "query", "sleep_wait", "sleep"}
AtRec == [loop : Positions, ret : {"main", "event"}, save : BOOLEAN]

\* When the program ends.
Gone(s) == s \in ManRec /\ Len(s.out) <= MaxOut /\ ToldOK(s)

\* The callbacks are set in the event loop and in the loops that return to it.
CallPlace == man.callback => at.loop \in {"event", "exit"} \/ (at.loop \in Nested /\ at.ret = "event")

\* The loops that return to the event loop kept what they have to revert to; a sleep does not revert it.
Unblocked ==
    ~mset.sleeps =>
      /\ at.loop = "event" => man.disabled
      /\ at.loop \in Nested /\ at.ret = "event" => at.save /\ at.loop \notin {"sleep_wait", "sleep"}

\* The inductive invariant of the management interface.
ManState ==
    /\ mset \in ManOptions /\ at \in AtRec
    /\ at.loop # "exit" => Settled(man)
    /\ at.loop = "exit" => Gone(man)
    /\ CallPlace /\ Unblocked

\* The settings do not change, so what is settled before the step is settled after it.
LEMMA SettledAfter ==
    ASSUME NEW t, mset' = mset, man' = t
    PROVE  (Settled(t) => Settled(man)') /\ (Gone(t) => Gone(man)')
  BY DEF Settled, Gone, ClientOK, OutputOK, HaltOK, ToldOK, ClientConnected, PasswordNeeded, ManRec

\* The client stays as it is while the program changes what it waits for.
SameClient(u, s) ==
    /\ u \in ManRec /\ u.st = s.st /\ u.who = s.who /\ u.out = s.out /\ u.in = s.in /\ u.verified = s.verified
    /\ u.gave = s.gave /\ u.tries = s.tries /\ u.halt = s.halt /\ u.callback = s.callback

LEMMA SameClientIs ==
    ASSUME NEW s, Settled(s), NEW u, SameClient(u, s)
    PROVE  /\ ClientOK(u) /\ OutputOK(u) /\ HaltOK(u) /\ (PasswordNeeded(u) <=> PasswordNeeded(s))
           /\ (ToldOK(u) => Settled(u)) /\ (u.special = "none" => Settled(u))
<1>1. (u.verified => u.gave) /\ (u.halt \/ u.tries < N_PASSWORD_RETRIES)
  BY DEF Settled, ClientOK, SameClient
<1>2. ClientOK(u) /\ OutputOK(u)
  BY <1>1, SameIoIs DEF SameClient, Settled
<1> QED
  BY <1>2 DEF Settled, SameClient, HaltOK, ToldOK, ClientConnected, PasswordNeeded

\* A client that is served while the program stays in its loop, or goes on from waiting to serving.
LEMMA ServedIs ==
    ASSUME ManState, at.loop \in Nested \cup {"event"}, NEW s \in management_io(man)
    PROVE  Settled(s) /\ Frame(s, man)
<1>1. Settled(man) /\ Live(man)
  BY DEF ManState, CallPlace, Live, Nested
<1> QED
  BY <1>1, IoIs

\* The step leaves the callbacks, and the event loop unblocked, as they were.
LEMMA FramedIs ==
    ASSUME ManState, mset' = mset, at.loop \in Nested \cup {"event"}, NEW t, man' = t, Settled(t), Frame(t, man),
           NEW loop, at' = [at EXCEPT !.loop = loop],
           loop = at.loop \/ <<at.loop, loop>> \in {<<"hold_wait", "hold">>, <<"query_wait", "query">>, <<"sleep_wait", "sleep">>}
    PROVE  ManState'
<1>1. at' \in AtRec /\ at'.loop = loop /\ at'.ret = at.ret /\ at'.save = at.save /\ loop # "exit"
      /\ (loop \in Nested <=> at.loop \in Nested) /\ (loop = "event" <=> at.loop = "event")
      /\ (loop \in {"sleep_wait", "sleep"} <=> at.loop \in {"sleep_wait", "sleep"})
  BY DEF ManState, AtRec, Positions, Nested
<1>2. Settled(man)'
  BY SettledAfter
<1>3. CallPlace' /\ Unblocked'
  BY <1>1 DEF ManState, CallPlace, Unblocked, Frame
<1> QED
  BY <1>1, <1>2, <1>3 DEF ManState

LEMMA ServeClientStep == ASSUME ManState, ServeClient PROVE ManState'
<1>1. PICK t \in management_io(man) : man' = t
  BY DEF ServeClient
<1>2. at.loop = "event" /\ mset' = mset /\ at' = at
  BY DEF ServeClient
<1>3. Settled(t) /\ Frame(t, man)
  BY <1>2, ServedIs
<1>4. at' = [at EXCEPT !.loop = at.loop]
  BY <1>2 DEF ManState, AtRec
<1> QED
  BY <1>1, <1>2, <1>3, <1>4, FramedIs

LEMMA SleepRoundStep == ASSUME ManState, SleepRound PROVE ManState'
<1>1. PICK t \in management_io(man) : man' = t
  BY DEF SleepRound
<1>2. at.loop = "sleep" /\ mset' = mset /\ at' = at /\ at.loop \in Nested
  BY DEF SleepRound, Nested
<1>3. Settled(t) /\ Frame(t, man)
  BY <1>2, ServedIs
<1>4. at' = [at EXCEPT !.loop = at.loop]
  BY <1>2 DEF ManState, AtRec
<1> QED
  BY <1>1, <1>2, <1>3, <1>4, FramedIs

\* The program tells the client what it waits for.
LEMMA AnnounceIs ==
    ASSUME NEW s, Settled(s), NEW what \in {"hold", "password"}, NEW t \in Announce(s, what)
    PROVE  Settled(t) /\ Frame(t, s)
<1> DEFINE b == ~PasswordNeeded(s)
           u == [s EXCEPT !.special = what, !.told = b]
<1>1. t \in ClientMsg(u)
  BY DEF Announce
<1>2. b \in BOOLEAN
  OBVIOUS
<1> HIDE DEF b
<1>3. SameClient(u, s) /\ u.special = what /\ u.told = b /\ Frame(u, s)
  BY <1>2 DEF SameClient, Settled, ClientOK, ManRec, Frame
<1> HIDE DEF u
<1>4. PasswordNeeded(u) <=> PasswordNeeded(s)
  BY <1>3, SameClientIs
<1>5. ToldOK(u)
  BY <1>3, <1>4 DEF ToldOK, b
<1>6. Settled(u)
  BY <1>3, <1>5, SameClientIs
<1>7. ClientOK(t) /\ SameButIo(t, u) /\ OutputOK(t)
  BY <1>1, <1>6, ClientMsgIs DEF Settled
<1>8. ToldOK(t)
  BY <1>5, <1>7, StillTold
<1> QED
  BY <1>3, <1>6, <1>7, <1>8 DEF Settled, HaltOK, SameButIo, Frame

LEMMA AskUserPassIs ==
    ASSUME NEW s, Settled(s), NEW t \in AskUserPass(s)
    PROVE  Settled(t) /\ Frame(t, s)
<1>1. PICK u \in Announce(s, "password") : t = [u EXCEPT !.mode = "user_pass"]
  BY DEF AskUserPass
<1>2. Settled(u) /\ Frame(u, s)
  BY <1>1, AnnounceIs
<1>3. SameClient(t, u) /\ t.special = u.special /\ t.told = u.told /\ t.disabled = u.disabled
  BY <1>1, <1>2, SMTT(30) DEF SameClient, Settled, ClientOK, ManRec
<1>4. ToldOK(t)
  BY <1>2, <1>3 DEF Settled, ToldOK, SameClient, ClientConnected, PasswordNeeded
<1>5. Settled(t)
  BY <1>2, <1>3, <1>4, SameClientIs
<1> QED
  BY <1>2, <1>3, <1>5 DEF Frame, SameClient

\* One round of a wait, for each of the three loops that wait for a client.
LEMMA WaitIs ==
    ASSUME ManState, mset' = mset, NEW serve,
           <<at.loop, serve>> \in {<<"hold_wait", "hold">>, <<"query_wait", "query">>, <<"sleep_wait", "sleep">>},
           NEW s \in management_io(man), NEW R, \A u \in R : Settled(s) => Settled(u) /\ Frame(u, s),
           (man' = s /\ at' = at) \/ (man' \in R /\ Goto(serve))
    PROVE  ManState'
<1>1. at.loop \in Nested
  BY DEF Nested
<1>2. Settled(s) /\ Frame(s, man)
  BY <1>1, ServedIs
<1>3. CASE man' = s /\ at' = at
  <2>1. at' = [at EXCEPT !.loop = at.loop]
    BY <1>3 DEF ManState, AtRec
  <2> QED
    BY <1>1, <1>2, <1>3, <2>1, FramedIs
<1>4. CASE man' \in R /\ Goto(serve)
  <2>1. PICK u \in R : man' = u
    BY <1>4
  <2>2. Settled(u) /\ Frame(u, man)
    BY <1>2, <2>1 DEF Frame
  <2>3. at' = [at EXCEPT !.loop = serve]
    BY <1>4 DEF Goto
  <2> QED
    BY <1>1, <2>1, <2>2, <2>3, FramedIs
<1> QED
  BY <1>3, <1>4

LEMMA HoldWaitStep == ASSUME ManState, HoldWait PROVE ManState'
<1>1. at.loop = "hold_wait" /\ mset' = mset
  BY DEF HoldWait, WaitRound
<1>2. PICK s \in management_io(man) : (man' = s /\ at' = at) \/ (man' \in Holding(s) /\ Goto("hold"))
  BY Zenon DEF HoldWait, WaitRound
<1>3. \A u \in Holding(s) : Settled(s) => Settled(u) /\ Frame(u, s)
  BY AnnounceIs DEF Holding
<1> QED
  BY <1>1, <1>2, <1>3, WaitIs

LEMMA QueryWaitStep == ASSUME ManState, QueryWait PROVE ManState'
<1>1. at.loop = "query_wait" /\ mset' = mset
  BY DEF QueryWait, WaitRound
<1>2. PICK s \in management_io(man) : (man' = s /\ at' = at) \/ (man' \in AskUserPass(s) /\ Goto("query"))
  BY Zenon DEF QueryWait, WaitRound
<1>3. \A u \in AskUserPass(s) : Settled(s) => Settled(u) /\ Frame(u, s)
  BY AskUserPassIs
<1> QED
  BY <1>1, <1>2, <1>3, WaitIs

LEMMA SleepWaitStep == ASSUME ManState, SleepWait PROVE ManState'
<1>1. at.loop = "sleep_wait" /\ mset' = mset
  BY DEF SleepWait, WaitRound
<1>2. PICK s \in management_io(man) : (man' = s /\ at' = at) \/ (man' \in Slept(s) /\ Goto("sleep"))
  BY Zenon DEF SleepWait, WaitRound
<1>3. \A u \in Slept(s) : Settled(s) => Settled(u) /\ Frame(u, s)
  BY DEF Slept, Frame
<1> QED
  BY <1>1, <1>2, <1>3, WaitIs

\* A loop is entered from the event loop, which is unblocked, or from outside of it.
LEMMA EnterIs ==
    ASSUME ManState, mset' = mset, at.loop \in {"main", "event"}, NEW t, man' = t, Settled(t), t.callback = man.callback,
           NEW loop \in Nested, at' = [loop |-> loop, ret |-> at.loop, save |-> man.disabled],
           loop \in {"sleep_wait", "sleep"} => at.loop = "main" \/ mset.sleeps
    PROVE  ManState'
<1>1. at' \in AtRec /\ at'.loop = loop /\ at'.ret = at.loop /\ at'.save = man.disabled /\ loop # "exit" /\ loop # "event"
  BY DEF ManState, AtRec, Positions, Nested, Settled, ClientOK, ManRec
<1>2. Settled(man)'
  BY SettledAfter
<1>3. CallPlace' /\ Unblocked'
  BY <1>1 DEF ManState, CallPlace, Unblocked, Nested
<1> QED
  BY <1>1, <1>2, <1>3 DEF ManState

LEMMA HoldStep == ASSUME ManState, Hold PROVE ManState'
<1> DEFINE s == HoldStart(man)
           loop == IF s.st = "LISTEN" THEN "hold_wait" ELSE "hold"
<1>1. /\ at.loop = "main" /\ mset' = mset /\ at' = [loop |-> loop, ret |-> at.loop, save |-> man.disabled]
      /\ man' = s \/ man' \in Holding(s)
  BY DEF Hold, Enter
<1>2. SameClient(s, man) /\ s.special = "none"
  BY <1>1 DEF ManState, Settled, ClientOK, ManRec, SameClient, HoldStart
<1>3. Settled(s)
  BY <1>1, <1>2, SameClientIs DEF ManState
<1> HIDE DEF s
<1>4. Settled(man') /\ man'.callback = man.callback
  <2>1. CASE man' = s
    BY <2>1, <1>2, <1>3 DEF SameClient
  <2>2. CASE man' \in Holding(s)
    BY <2>2, <1>2, <1>3, AnnounceIs DEF Holding, SameClient, Frame
  <2> QED
    BY <1>1, <2>1, <2>2
<1>5. loop \in Nested /\ loop \notin {"sleep_wait", "sleep"}
  BY DEF Nested
<1> HIDE DEF loop
<1> QED
  BY <1>1, <1>4, <1>5, EnterIs

LEMMA QueryStep == ASSUME ManState, Query PROVE ManState'
<1> DEFINE s == QueryStart(man)
           loop == IF s.st = "LISTEN" THEN "query_wait" ELSE "query"
<1>1. /\ at.loop \in {"main", "event"} /\ mset' = mset /\ at' = [loop |-> loop, ret |-> at.loop, save |-> man.disabled]
      /\ man' = s \/ man' \in AskUserPass(s)
  BY DEF Query, Enter
<1>2. SameClient(s, man) /\ s.special = "none"
  BY <1>1 DEF ManState, Settled, ClientOK, ManRec, SameClient, QueryStart
<1>3. Settled(s)
  BY <1>1, <1>2, SameClientIs DEF ManState
<1> HIDE DEF s
<1>4. Settled(man') /\ man'.callback = man.callback
  <2>1. CASE man' = s
    BY <2>1, <1>2, <1>3 DEF SameClient
  <2>2. CASE man' \in AskUserPass(s)
    BY <2>2, <1>2, <1>3, AskUserPassIs DEF SameClient, Frame
  <2> QED
    BY <1>1, <2>1, <2>2
<1>5. loop \in Nested /\ loop \notin {"sleep_wait", "sleep"}
  BY DEF Nested
<1> HIDE DEF loop
<1> QED
  BY <1>1, <1>4, <1>5, EnterIs

LEMMA SleepStep == ASSUME ManState, Sleep PROVE ManState'
<1> DEFINE s == [man EXCEPT !.disabled = FALSE]
           loop == IF s.st = "LISTEN" THEN "sleep_wait" ELSE "sleep"
<1>1. /\ at.loop \in {"main", "event"} /\ mset' = mset /\ at' = [loop |-> loop, ret |-> at.loop, save |-> man.disabled]
      /\ man' = s /\ (at.loop = "main" \/ mset.sleeps)
  BY DEF Sleep, Enter
<1>2. SameClient(s, man) /\ s.special = man.special /\ s.told = man.told
  BY <1>1 DEF ManState, Settled, ClientOK, ManRec, SameClient
<1>3. Settled(man)
  BY <1>1 DEF ManState
<1> HIDE DEF s
<1>4. ToldOK(s)
  BY <1>2, <1>3 DEF Settled, ToldOK, SameClient, ClientConnected, PasswordNeeded
<1>5. Settled(man') /\ man'.callback = man.callback
  BY <1>1, <1>2, <1>3, <1>4, SameClientIs DEF SameClient
<1>6. loop \in Nested
  BY DEF Nested
<1> HIDE DEF loop
<1> QED
  BY <1>1, <1>5, <1>6, EnterIs

\* A loop that reverts standalone_disabled returns.
LEMMA ReturnIs ==
    ASSUME ManState, mset' = mset, at.loop \in Nested, NEW t, man' = t, Settled(t), t.callback = man.callback,
           at.loop \notin {"sleep_wait", "sleep"} => t.disabled = at.save, Goto(at.ret)
    PROVE  ManState'
<1>1. at' \in AtRec /\ at'.loop = at.ret /\ at'.ret = at.ret /\ at'.save = at.save /\ at.ret \in {"main", "event"}
      /\ at.ret \notin Nested
  BY DEF ManState, AtRec, Goto, Positions, Nested
<1>2. Settled(man)'
  BY SettledAfter
<1>3. CallPlace' /\ Unblocked'
  BY <1>1 DEF ManState, CallPlace, Unblocked, Nested
<1> QED
  BY <1>1, <1>2, <1>3 DEF ManState

LEMMA RevertedIs ==
    ASSUME NEW s, Settled(s), at \in AtRec
    PROVE  /\ Settled(Reverted(s)) /\ Reverted(s).disabled = at.save /\ Reverted(s).callback = s.callback
           /\ Settled(QueryEnd(s)) /\ QueryEnd(s).disabled = at.save /\ QueryEnd(s).callback = s.callback
<1>0. at.save \in BOOLEAN
  BY DEF AtRec
<1>1. /\ SameClient(Reverted(s), s) /\ Reverted(s).special = "none" /\ Reverted(s).disabled = at.save
  BY <1>0 DEF Settled, ClientOK, ManRec, SameClient, Reverted
<1>2. /\ SameClient(QueryEnd(s), s) /\ QueryEnd(s).special = "none" /\ QueryEnd(s).disabled = at.save
  BY <1>1 DEF ManRec, SameClient, QueryEnd
<1> QED
  BY <1>1, <1>2, SameClientIs DEF SameClient

LEMMA HoldRoundStep == ASSUME ManState, HoldRound PROVE ManState'
<1>1. at.loop = "hold" /\ mset' = mset /\ at.loop \in Nested /\ at \in AtRec
  BY DEF HoldRound, Nested, ManState
<1>2. PICK s \in management_io(man) : (man' = Reverted(s) /\ Goto(at.ret)) \/ (man' = s /\ at' = at)
  BY DEF HoldRound
<1>3. Settled(s) /\ Frame(s, man)
  BY <1>1, ServedIs
<1>4. CASE man' = s /\ at' = at
  <2>1. at' = [at EXCEPT !.loop = at.loop]
    BY <1>4 DEF ManState, AtRec
  <2> QED
    BY <1>1, <1>3, <1>4, <2>1, FramedIs
<1>5. CASE man' = Reverted(s) /\ Goto(at.ret)
  <2>1. Settled(Reverted(s)) /\ Reverted(s).disabled = at.save /\ Reverted(s).callback = man.callback
    BY <1>1, <1>3, RevertedIs DEF Frame
  <2> QED
    BY <1>1, <1>5, <2>1, ReturnIs
<1> QED
  BY <1>2, <1>4, <1>5

LEMMA QueryRoundStep == ASSUME ManState, QueryRound PROVE ManState'
<1>1. at.loop = "query" /\ mset' = mset /\ at.loop \in Nested /\ at \in AtRec
  BY DEF QueryRound, Nested, ManState
<1>2. PICK s \in management_io(man) : (man' = QueryEnd(s) /\ Goto(at.ret)) \/ (man' = s /\ at' = at)
  BY DEF QueryRound
<1>3. Settled(s) /\ Frame(s, man)
  BY <1>1, ServedIs
<1>4. CASE man' = s /\ at' = at
  <2>1. at' = [at EXCEPT !.loop = at.loop]
    BY <1>4 DEF ManState, AtRec
  <2> QED
    BY <1>1, <1>3, <1>4, <2>1, FramedIs
<1>5. CASE man' = QueryEnd(s) /\ Goto(at.ret)
  <2>1. Settled(QueryEnd(s)) /\ QueryEnd(s).disabled = at.save /\ QueryEnd(s).callback = man.callback
    BY <1>1, <1>3, RevertedIs DEF Frame
  <2> QED
    BY <1>1, <1>5, <2>1, ReturnIs
<1> QED
  BY <1>2, <1>4, <1>5

LEMMA SleepEndStep == ASSUME ManState, SleepEnd PROVE ManState'
<1>1. at.loop \in {"sleep_wait", "sleep"} /\ mset' = mset /\ man' = man /\ Goto(at.ret) /\ at.loop \in Nested
      /\ at.loop # "exit"
  BY DEF SleepEnd, Nested
<1>2. Settled(man)
  BY <1>1 DEF ManState
<1> QED
  BY <1>1, <1>2, ReturnIs

\* The program ends.
LEMMA ExitIs ==
    ASSUME ManState, mset' = mset, NEW t, man' = t, Gone(t), Goto("exit")
    PROVE  ManState'
<1>1. at' \in AtRec /\ at'.loop = "exit"
  BY DEF ManState, AtRec, Goto, Positions
<1>2. Gone(man)'
  BY SettledAfter
<1>3. CallPlace' /\ Unblocked'
  BY <1>1 DEF CallPlace, Unblocked, Nested
<1> QED
  BY <1>1, <1>2, <1>3 DEF ManState

LEMMA InterruptedStep == ASSUME ManState, Interrupted PROVE ManState'
<1>1. mset' = mset /\ at.loop \in Nested /\ at.loop # "exit" /\ at \in AtRec
  BY DEF Interrupted, Nested, ManState
<1>2. Settled(man)
  BY <1>1 DEF ManState
<1>3. CASE man' = Reverted(man) /\ Goto(at.ret)
  BY <1>1, <1>2, <1>3, RevertedIs, ReturnIs
<1>4. CASE man' = QueryEnd(man) /\ Goto("exit")
  <2>1. Gone(QueryEnd(man))
    BY <1>1, <1>2, RevertedIs DEF Settled, ClientOK, Gone
  <2> QED
    BY <1>1, <1>4, <2>1, ExitIs
<1> QED
  BY <1>3, <1>4 DEF Interrupted

\* The connection is closed for good, or until the tunnel opens again.
LEMMA ClearIs ==
    ASSUME NEW s, Settled(s) PROVE LET t == ConnectionClear(s) IN Settled(t) /\ Gone(t) /\ Frame(t, s)
<1> DEFINE e == <<>>
           z == 0
           b == [s EXCEPT !.st = "INITIAL", !.who = "none", !.out = e, !.in = "none", !.verified = FALSE, !.tries = z]
           t == [b EXCEPT !.halt = FALSE, !.log = FALSE, !.mode = "disabled", !.user = FALSE, !.pass = FALSE]
<1>e. e \in Seq({"a", "b"}) /\ Len(e) = 0 /\ e = <<>>
  OBVIOUS
<1>z. z \in 0 .. N_PASSWORD_RETRIES /\ z < N_PASSWORD_RETRIES
  BY ManagementAssumption
<1>1. s \in ManRec
  BY DEF Settled, ClientOK
<1>2. ConnectionClear(s) = t
  BY <1>1 DEF ConnectionClear, ManRec
<1> HIDE DEF e, z
<1>3. /\ b \in ManRec /\ b.st = "INITIAL" /\ b.who = "none" /\ b.out = e /\ b.in = "none" /\ b.verified = FALSE
      /\ b.tries = z /\ b.callback = s.callback /\ b.disabled = s.disabled
  <2>1. e \in Seq({"a", "b"}) /\ z \in 0 .. N_PASSWORD_RETRIES
    BY <1>e, <1>z
  <2> QED
    BY <1>1, <2>1 DEF ManRec
<1> HIDE DEF b
<1>4. /\ t \in ManRec /\ t.st = "INITIAL" /\ t.who = "none" /\ t.out = e /\ t.in = "none" /\ t.verified = FALSE
      /\ t.tries = z /\ t.halt = FALSE /\ t.callback = s.callback /\ t.disabled = s.disabled
  BY <1>3 DEF ManRec
<1> HIDE DEF t
<1>5. Len(t.out) <= MaxOut /\ 1 .. Len(t.out) = {} /\ (t.out # <<>>) = FALSE
  BY <1>4, <1>e, ManagementAssumption
<1>6. ClientOK(t)
  BY <1>4, <1>5, <1>z DEF ClientOK
<1>7. OutputOK(t) /\ ToldOK(t) /\ HaltOK(t) /\ Frame(t, s)
  BY <1>4 DEF OutputOK, ToldOK, HaltOK, ClientConnected, Frame
<1> QED
  BY <1>2, <1>6, <1>7 DEF Settled, Gone, ClientOK

\* A step outside of the loops of manage.c, which leaves the place and the callbacks alone.
LEMMA InPlaceIs ==
    ASSUME ManState, mset' = mset, at' = at, at.loop \in {"main", "event"}, NEW t, man' = t, Settled(t), Frame(t, man)
    PROVE  ManState'
<1>1. Settled(man)'
  BY SettledAfter
<1> QED
  BY <1>1 DEF ManState, CallPlace, Unblocked, Frame

LEMMA ManCloseStep == ASSUME ManState, ManClose PROVE ManState'
<1>1. Settled(man) /\ mset' = mset /\ man' = ConnectionClear(man) /\ Goto("exit")
  BY DEF ManState, ManClose
<1> QED
  BY <1>1, ClearIs, ExitIs

LEMMA TunnelCloseStep == ASSUME ManState, TunnelClose PROVE ManState'
<1>1. Settled(man) /\ mset' = mset /\ man' = ConnectionClear(man) /\ at' = at /\ at.loop \in {"main", "event"}
  BY DEF ManState, TunnelClose
<1> QED
  BY <1>1, ClearIs, InPlaceIs

\* The socket begins to listen.
LEMMA ListenIs ==
    ASSUME NEW s, Settled(s), s.st = "INITIAL" PROVE LET t == [s EXCEPT !.st = "LISTEN"] IN Settled(t) /\ Frame(t, s)
<1> DEFINE t == [s EXCEPT !.st = "LISTEN"]
<1>1. /\ t \in ManRec /\ t.st = "LISTEN" /\ t.who = s.who /\ t.out = s.out /\ t.in = s.in /\ t.verified = s.verified
      /\ t.gave = s.gave /\ t.tries = s.tries /\ t.halt = s.halt /\ t.callback = s.callback /\ t.disabled = s.disabled
  BY DEF Settled, ClientOK, ManRec
<1> HIDE DEF t
<1>2. ClientOK(t)
  BY <1>1 DEF Settled, ClientOK
<1>3. OutputOK(t) /\ ToldOK(t) /\ HaltOK(t) /\ Frame(t, s)
  BY <1>1 DEF OutputOK, ToldOK, HaltOK, ClientConnected, Frame
<1>4. Settled(t) /\ Frame(t, s)
  BY <1>2, <1>3 DEF Settled
<1> QED
  BY <1>4 DEF t

LEMMA TunnelOpenStep == ASSUME ManState, TunnelOpen PROVE ManState'
<1>1. /\ Settled(man) /\ man.st = "INITIAL" /\ mset' = mset /\ man' = [man EXCEPT !.st = "LISTEN"] /\ at' = at
      /\ at.loop \in {"main", "event"}
  BY DEF ManState, TunnelOpen
<1> QED
  BY <1>1, ListenIs, InPlaceIs

LEMMA ManLogStep == ASSUME ManState, ManLog PROVE ManState'
<1>1. Settled(man) /\ mset' = mset /\ at' = at /\ at.loop \in {"main", "event"}
  BY DEF ManState, ManLog
<1>2. PICK t \in LogMsg(man) : man' = t
  BY DEF ManLog
<1>3. Settled(t) /\ Frame(t, man)
  BY <1>1, LogMsgIs DEF SameButIo, Frame
<1> QED
  BY <1>1, <1>2, <1>3, InPlaceIs

LEMMA ManOpenStep == ASSUME ManState, ManOpen PROVE ManState'
<1>1. /\ at.loop = "start" /\ mset' = mset /\ at' = [loop |-> "main", ret |-> "main", save |-> FALSE]
      /\ man' = man \/ (man.st = "INITIAL" /\ man' = [man EXCEPT !.st = "LISTEN"])
  BY DEF ManOpen
<1>2. Settled(man)
  BY <1>1 DEF ManState
<1>3. Settled(man') /\ Frame(man', man)
  <2>1. CASE man' = man
    BY <2>1, <1>2 DEF Frame
  <2>2. CASE man' # man
    BY <2>2, <1>1, <1>2, ListenIs
  <2> QED
    BY <2>1, <2>2
<1>4. Settled(man)'
  BY <1>1, <1>3, SettledAfter
<1>5. at' \in AtRec /\ at'.loop = "main" /\ ~man.callback
  BY <1>1, <1>2 DEF AtRec, Positions, ManState, CallPlace, Nested
<1> QED
  BY <1>1, <1>3, <1>4, <1>5 DEF ManState, CallPlace, Unblocked, Nested, Frame

LEMMA SetCallbackStep == ASSUME ManState, SetCallback PROVE ManState'
<1>1. at.loop = "main" /\ mset' = mset /\ man' = [man EXCEPT !.disabled = TRUE, !.callback = TRUE] /\ Goto("event")
  BY DEF SetCallback
<1>2. Settled(man)
  BY <1>1 DEF ManState
<1> DEFINE t == [man EXCEPT !.disabled = TRUE, !.callback = TRUE]
<1>3. /\ t \in ManRec /\ t.st = man.st /\ t.who = man.who /\ t.out = man.out /\ t.in = man.in
      /\ t.verified = man.verified /\ t.gave = man.gave /\ t.tries = man.tries /\ t.halt = man.halt
      /\ t.special = man.special /\ t.told = man.told /\ t.disabled = TRUE
  BY <1>2 DEF Settled, ClientOK, ManRec
<1>4. man' = t
  BY <1>1
<1> HIDE DEF t
<1>5. (t.verified => t.gave) /\ (t.halt \/ t.tries < N_PASSWORD_RETRIES)
  BY <1>2, <1>3 DEF Settled, ClientOK
<1>6. ClientOK(t) /\ OutputOK(t)
  BY <1>2, <1>3, <1>5, SameIoIs DEF Settled
<1>7. Settled(t)
  BY <1>2, <1>3, <1>6 DEF Settled, HaltOK, ToldOK, ClientConnected, PasswordNeeded
<1>8. Settled(man)'
  BY <1>1, <1>4, <1>7, SettledAfter
<1>9. at' \in AtRec /\ at'.loop = "event" /\ man'.disabled
  BY <1>1, <1>3, <1>4 DEF ManState, AtRec, Positions, Goto
<1> QED
  BY <1>1, <1>8, <1>9 DEF ManState, CallPlace, Unblocked, Nested

LEMMA ClearCallbackStep == ASSUME ManState, ClearCallback PROVE ManState'
<1> DEFINE s == management_callback_cleared([man EXCEPT !.disabled = FALSE, !.release = FALSE])
           u == man_update_io_state(s)
<1>1. at.loop = "event" /\ mset' = mset /\ man' \in Flushed(u) /\ Goto("main")
  BY DEF ClearCallback
<1>2. Settled(man)
  BY <1>1 DEF ManState
<1>3. /\ s \in ManRec /\ s.st = man.st /\ s.who = man.who /\ s.out = man.out /\ s.in = man.in
      /\ s.verified = man.verified /\ s.gave = man.gave /\ s.tries = man.tries /\ s.halt = man.halt
      /\ s.special = man.special /\ s.told = man.told /\ s.callback = FALSE
  BY <1>2 DEF Settled, ClientOK, ManRec, management_callback_cleared
<1> HIDE DEF s
<1>4. (s.verified => s.gave) /\ (s.halt \/ s.tries < N_PASSWORD_RETRIES)
  BY <1>2, <1>3 DEF Settled, ClientOK
<1>5. ClientOK(s)
  BY <1>2, <1>3, <1>4, SameIoIs DEF Settled
<1>6. ToldOK(s) /\ HaltOK(s)
  BY <1>2, <1>3, <1>5 DEF Settled, HaltOK, ToldOK, ClientConnected, PasswordNeeded
<1>7. ClientOK(u) /\ OutputOK(u) /\ SameButIo(u, s)
  BY <1>5, UpdateSelf
<1> HIDE DEF u
<1>8. PICK t \in Flushed(u) : man' = t
  BY <1>1
<1>9. ClientOK(t) /\ OutputOK(t) /\ SameButIo(t, u)
  BY <1>7, <1>8, FlushedIs
<1>10. ToldOK(t)
  BY <1>6, <1>7, <1>9, StillTold
<1>11. Settled(t) /\ t.callback = FALSE
  BY <1>3, <1>6, <1>7, <1>9, <1>10 DEF Settled, HaltOK, SameButIo
<1>12. Settled(man)'
  BY <1>1, <1>8, <1>11, SettledAfter
<1>13. at' \in AtRec /\ at'.loop = "main" /\ man'.callback = FALSE
  BY <1>1, <1>8, <1>11 DEF ManState, AtRec, Positions, Goto
<1> QED
  BY <1>1, <1>12, <1>13 DEF ManState, CallPlace, Unblocked, Nested

\* The message about a fatal error is the last one of the client.
LEMMA ManFatalStep == ASSUME ManState, ManFatal PROVE ManState'
<1> DEFINE s == [man EXCEPT !.disabled = FALSE]
<1>1. at.loop \in {"main", "event"} /\ mset' = mset /\ Goto("exit")
  BY DEF ManFatal
<1>2. PICK t \in ClientMsg(s) : man' = IF PasswordNeeded(t) THEN t ELSE man_reset_client_socket(t, FALSE)
  BY DEF ManFatal
<1>3. SameClient(s, man) /\ s.special = man.special /\ s.told = man.told /\ Settled(man)
  BY <1>1 DEF ManState, Settled, ClientOK, ManRec, SameClient
<1> HIDE DEF s
<1>4. ToldOK(s)
  BY <1>3 DEF Settled, ToldOK, SameClient, ClientConnected, PasswordNeeded
<1>5. Settled(s)
  BY <1>3, <1>4, SameClientIs
<1>6. ClientOK(t) /\ SameButIo(t, s)
  BY <1>2, <1>5, ClientMsgIs DEF Settled
<1>7. ToldOK(t)
  BY <1>4, <1>6, StillTold
<1>8. Gone(t)
  BY <1>6, <1>7 DEF ClientOK, Gone
<1>9. Gone(man')
  <2>1. CASE man' = t
    BY <2>1, <1>8
  <2>2. CASE t.who # "none" /\ man' = man_reset_client_socket(t, FALSE)
    <3> DEFINE e == <<>>
               u == [t EXCEPT !.in = "none", !.out = e, !.who = t.who, !.st = t.st]
    <3>e. e \in Seq({"a", "b"}) /\ Len(e) = 0
      OBVIOUS
    <3>1. man' = u
      BY <2>2 DEF man_reset_client_socket
    <3> HIDE DEF e
    <3>2. u \in ManRec /\ u.out = e /\ u.st = t.st /\ u.special = t.special /\ u.told = t.told /\ u.verified = t.verified
      BY <3>e, <1>8 DEF Gone, ManRec
    <3> HIDE DEF u
    <3>3. Len(u.out) <= MaxOut
      BY <3>e, <3>2, ManagementAssumption
    <3>4. ToldOK(u)
      BY <1>7, <3>2 DEF ToldOK, ClientConnected, PasswordNeeded
    <3> QED
      BY <3>1, <3>2, <3>3, <3>4 DEF Gone
  <2> QED
    BY <1>2, <2>1, <2>2 DEF man_reset_client_socket
<1> QED
  BY <1>1, <1>9, ExitIs

LEMMA ManInitIs == ManInit => ManState
<1> SUFFICES ASSUME ManInit PROVE ManState
  OBVIOUS
<1> DEFINE e == <<>>
           z == 0
<1>e. e \in Seq({"a", "b"}) /\ Len(e) = 0 /\ e = <<>>
  OBVIOUS
<1>z. z \in 0 .. N_PASSWORD_RETRIES /\ z < N_PASSWORD_RETRIES
  BY ManagementAssumption
<1>1. mset \in ManOptions /\ mset.hold \in BOOLEAN
  BY ManagementAssumption DEF ManInit
<1> DEFINE b == mset.hold
           t == [st |-> "INITIAL", who |-> "none", last |-> "b", out |-> e, in |-> "none", verified |-> FALSE,
                 tries |-> z, halt |-> FALSE, log |-> FALSE, gave |-> FALSE, told |-> FALSE,
                 mode |-> "disabled", user |-> FALSE, pass |-> FALSE,
                 hold |-> b, disabled |-> FALSE, release |-> FALSE, special |-> "none", callback |-> FALSE,
                 alarm |-> "none"]
<1>2. man = t
  BY DEF ManInit, ManagementInit
<1> HIDE DEF e, z, b
<1>3. b \in BOOLEAN
  BY <1>1 DEF b
<1>4. t \in ManRec
  BY <1>e, <1>z, <1>3 DEF ManRec
<1>5. /\ t.st = "INITIAL" /\ t.who = "none" /\ t.out = e /\ t.in = "none" /\ t.verified = FALSE
      /\ t.tries = z /\ t.halt = FALSE /\ t.callback = FALSE /\ t.special = "none"
  OBVIOUS
<1> HIDE DEF t
<1>6. Len(t.out) <= MaxOut /\ 1 .. Len(t.out) = {} /\ (t.out # <<>>) = FALSE
  BY <1>5, <1>e, ManagementAssumption
<1>7. Settled(t)
  BY <1>4, <1>5, <1>6, <1>z DEF Settled, ClientOK, OutputOK, ToldOK, HaltOK, ClientConnected
<1>8. at \in AtRec /\ at.loop = "start"
  BY DEF ManInit, AtRec, Positions
<1> QED
  BY <1>1, <1>2, <1>5, <1>7, <1>8 DEF ManState, CallPlace, Unblocked, Nested

\* Every step of the management interface keeps the invariant.
LEMMA ManStep == ManState /\ [ManNext]_manVars => ManState'
<1> SUFFICES ASSUME ManState, [ManNext]_manVars PROVE ManState'
  OBVIOUS
<1>1. CASE ManOpen
  BY <1>1, ManOpenStep
<1>2. CASE TunnelOpen
  BY <1>2, TunnelOpenStep
<1>3. CASE TunnelClose
  BY <1>3, TunnelCloseStep
<1>4. CASE SetCallback
  BY <1>4, SetCallbackStep
<1>5. CASE ClearCallback
  BY <1>5, ClearCallbackStep
<1>6. CASE ServeClient
  BY <1>6, ServeClientStep
<1>7. CASE ManLog
  BY <1>7, ManLogStep
<1>8. CASE Hold
  BY <1>8, HoldStep
<1>9. CASE HoldWait
  BY <1>9, HoldWaitStep
<1>10. CASE HoldRound
  BY <1>10, HoldRoundStep
<1>11. CASE Query
  BY <1>11, QueryStep
<1>12. CASE QueryWait
  BY <1>12, QueryWaitStep
<1>13. CASE QueryRound
  BY <1>13, QueryRoundStep
<1>14. CASE Sleep
  BY <1>14, SleepStep
<1>15. CASE SleepWait
  BY <1>15, SleepWaitStep
<1>16. CASE SleepRound
  BY <1>16, SleepRoundStep
<1>17. CASE SleepEnd
  BY <1>17, SleepEndStep
<1>18. CASE Interrupted
  BY <1>18, InterruptedStep
<1>19. CASE ManFatal
  BY <1>19, ManFatalStep
<1>20. CASE ManClose
  BY <1>20, ManCloseStep
<1>21. CASE UNCHANGED manVars
  <2>1. mset' = mset /\ man' = man /\ at' = at
    BY <1>21 DEF manVars
  <2>2. (Settled(man) => Settled(man)') /\ (Gone(man) => Gone(man)')
    BY <2>1, SettledAfter
  <2> QED
    BY <2>1, <2>2 DEF ManState, CallPlace, Unblocked
<1> QED
  BY <1>1, <1>2, <1>3, <1>4, <1>5, <1>6, <1>7, <1>8, <1>9, <1>10, <1>11, <1>12, <1>13, <1>14, <1>15, <1>16,
     <1>17, <1>18, <1>19, <1>20, <1>21 DEF ManNext

\* ManInv but for the blocking mode, which a sleep inside the event loop leaves on.
ManServes == ManTypeOK /\ Authenticated /\ CallbackAlive /\ OwnData /\ IoState /\ ClientTold

LEMMA ManStateServes == ManState => ManServes /\ (~mset.sleeps => ManInv)
<1> SUFFICES ASSUME ManState PROVE ManServes /\ (~mset.sleeps => ManInv)
  OBVIOUS
<1>1. man \in ManRec /\ Len(man.out) <= MaxOut /\ ToldOK(man)
  BY DEF ManState, Settled, Gone, ClientOK
<1> DEFINE q == man.out
           B == BoundedSeq({"a", "b"}, MaxOut)
<1>2. q \in B
  <2>1. q \in Seq({"a", "b"}) /\ Len(q) \in Nat /\ Len(q) <= MaxOut
    BY <1>1 DEF ManRec
  <2>2. q \in [1 .. Len(q) -> {"a", "b"}] /\ Len(q) \in 0 .. MaxOut
    BY <2>1, ManagementAssumption
  <2> HIDE DEF q
  <2> QED
    BY <2>2 DEF BoundedSeq, SeqOf
<1> HIDE DEF B
<1>3. ManTypeOK
  BY <1>1, <1>2 DEF ManTypeOK, ManRec, ManState, AtRec, B
<1>4. Authenticated /\ CallbackAlive
  BY <1>1 DEF Authenticated, CallbackAlive, ManRec
<1>5. ClientTold
  BY <1>1 DEF ClientTold, ToldOK
<1>6. OwnData /\ IoState
  BY DEF OwnData, IoState, ManState, Settled, ClientOK, OutputOK, ClientConnected, ToSet
<1>7. ~mset.sleeps => LoopNonblocking
  BY DEF ManState, Unblocked, LoopNonblocking
<1> QED
  BY <1>3, <1>4, <1>5, <1>6, <1>7 DEF ManServes, ManInv

\* Whatever clients do, with any number of tries and any queue: no command is carried out before its client gave the
\* password, none calls into a tunnel that is gone, buffers belong to the client that is connected, the connection
\* state follows the queue, and a client that could end a hold or a query was told of it (man_process_command,
\* man_accept, man_read, management_hold, management_query_user_pass).  Unless the event loop sleeps, it is also never
\* left in the mode that blocks on the client.
THEOREM ManCorrect == ManSpec => [](ManServes /\ (~mset.sleeps => ManInv))
<1>1. ManInit => ManState
  BY ManInitIs
<1>2. ManState /\ [ManNext]_manVars => ManState'
  BY ManStep
<1>3. ManState => ManServes /\ (~mset.sleeps => ManInv)
  BY ManStateServes
<1> QED
  BY <1>1, <1>2, <1>3, PTL DEF ManSpec
=============================================================================
