-------------------------------- MODULE Multi --------------------------------
(* The point-to-multipoint server in UDP mode: multi.c and multi.h with the  *)
(* event loop of mudp.c, the virtual address pool of pool.c, the broadcast   *)
(* queue of mbuf.c and the CIDR helper of mroute.c.                          *)
(*                                                                           *)
(* One thread serves all clients: io_wait reports what is ready, the timers  *)
(* and the management interface run, then one I/O handler or the timeout     *)
(* handler.  A handler works on the multi_context m from start to end, so it *)
(* is one action; what is chosen before and used after (the status of        *)
(* io_wait, pending, earliest_wakeup, queued packets) is state.  A client    *)
(* instance is a cell of memory: closing it drops the reference of the live  *)
(* client, and the cell is freed when the routes that still point to it are  *)
(* gone.                                                                     *)
EXTENDS Integers, FiniteSets, Sequences, SequencesExt

CONSTANTS
  Cell,            \* memory cells of client instances, 1..n; bound on the heap
  PoolSize,        \* addresses of --ifconfig-pool
  PoolAddr,        \* the virtual address of a pool handle
  Host, Net,       \* virtual addresses: hosts, and networks of --iroute
  NetBits,         \* prefix length of a network
  InNet,           \* hosts of a network
  Local,           \* the server's own virtual address
  Bucket,          \* hash bucket of a virtual address
  NBuckets,        \* buckets of vhash
  MbufCapacity,    \* --bcast-buffers
  None,
  Scenarios        \* configurations: see Config

VARIABLES
  opt,      \* the configuration in force
  m,        \* struct multi_context
  status,   \* what io_wait reported, {} for a timeout
  phase     \* "wait", "io", or "down" after multi_uninit

vars == <<opt, m, status, phase>>

Handle == 1..PoolSize
Addr == Host \cup Net

(* A configuration: the device, the options, who may connect and with what.  *)
Config(o) ==
  /\ o.buckets_per_pass \in 1..NBuckets           \* of the reaper
  /\ o.tap \in BOOLEAN /\ o.c2c \in BOOLEAN /\ o.duplicate_cn \in BOOLEAN
  /\ o.management \subseteq {"MANAGEMENT"}        \* --management
  /\ o.timers \in BOOLEAN                        \* pings, control packets: output made by pre_select
  /\ o.connect \in BOOLEAN                       \* a client-connect script or plugin, which may fail
  /\ o.refuse \in BOOLEAN                        \* a learn-address script that may fail
  /\ o.pool \in BOOLEAN                          \* --ifconfig-pool
  /\ o.persist \in {"no", "rw", "fixed"}         \* --ifconfig-pool-persist: not, file, file 0
  /\ DOMAIN o.file = Handle                      \* the pool file found at start: names or None
  /\ o.max_clients \in Nat /\ o.max_routes_per_client \in Nat
  /\ o.push \in [o.cns -> Host \cup {None}]      \* --ifconfig-push of the client's file
  /\ o.pushes \subseteq Host                     \* and of the client-connect script
  /\ o.iroutes \in [o.cns -> Seq(Addr)]          \* --iroute of the client's file
  /\ o.dests \subseteq Host                      \* addresses that packets carry

ASSUME MultiAssumption ==
  /\ PoolSize \in Nat /\ NBuckets \in Nat \ {0}
  /\ MbufCapacity \in Nat \ {0}
  /\ PoolAddr \in [Handle -> Host] /\ NetBits \in [Net -> Nat] /\ InNet \in [Net -> SUBSET Host]
  /\ Bucket \in [Addr -> 0..(NBuckets - 1)] /\ Local \in Host /\ Host \cap Net = {}
  /\ \A a, b \in Net : a # b /\ NetBits[a] = NetBits[b] => InNet[a] \cap InNet[b] = {}
  /\ \A o \in Scenarios : Config(o)

NoInst == [st |-> "free", ref |-> 0, routes |-> 0, real |-> None, cn |-> None, handle |-> None,
           addr |-> None, conn |-> FALSE, est |-> FALSE, auth |-> FALSE, hash |-> FALSE, iter |-> FALSE,
           iroutes |-> FALSE, out |-> {}]
NoRoute == [inst |-> None, cache |-> FALSE, valid |-> FALSE]

Live(s) == {i \in Cell : s.inst[i].st = "live"}

-----------------------------------------------------------------------------
(* Reference counts, routes and the routing table.                          *)

\* multi_instance_dec_refcount, n times.
Dropped(x, n) == IF x.ref - n <= 0 THEN NoInst ELSE [x EXCEPT !.ref = @ - n]

\* multi_route_del for the routes of the addresses in A: the instance that a
\* route points to gives up a route and a reference.
multi_route_del(s, A) ==
  LET n(i) == Cardinality({a \in A : s.vhash[a].inst = i})
  IN  [s EXCEPT !.inst = [i \in Cell |-> IF n(i) = 0 THEN s.inst[i]
                                         ELSE Dropped([s.inst[i] EXCEPT !.routes = @ - n(i)], n(i))],
                !.vhash = [a \in Addr |-> IF a \in A THEN NoRoute ELSE s.vhash[a]]]

\* "valid" stands for a cache_generation that is the current one and a
\* last_reference younger than MULTI_CACHE_ROUTE_TTL.
multi_route_defined(s, r) ==
  /\ r # NoRoute
  /\ s.inst[r.inst].st = "live"
  /\ r.cache => r.valid

Owner(s, a) == IF multi_route_defined(s, s.vhash[a]) THEN s.vhash[a].inst ELSE None

\* mutant: one route more than the quota.
route_quota_test_OffByOne(s, i) == s.inst[i].routes <= opt.max_routes_per_client

route_quota_test(s, i) == s.inst[i].routes < opt.max_routes_per_client

\* mutant: the route that is replaced is not released.
multi_learn_addr_KeepOld(s, i, a, cache, refuse) ==
  IF Owner(s, a) # i /\ a # Local /\ route_quota_test(s, i) /\ ~refuse
  THEN [s EXCEPT !.inst[i].ref = @ + 1, !.inst[i].routes = @ + 1,
                 !.vhash[a] = [inst |-> i, cache |-> cache, valid |-> cache]]
  ELSE s

\* mutant: an address that has a route, even a dead one, is not learned.
multi_learn_addr_Existing(s, i, a, cache, refuse) ==
  IF s.vhash[a] = NoRoute /\ a # Local /\ route_quota_test(s, i) /\ ~refuse
  THEN [s EXCEPT !.inst[i].ref = @ + 1, !.inst[i].routes = @ + 1,
                 !.vhash[a] = [inst |-> i, cache |-> cache, valid |-> cache]]
  ELSE s

\* multi_learn_addr; refuse: the learn-address script fails.  An old route of
\* the address is deleted after the new one is counted.
multi_learn_addr(s, i, a, cache, refuse) ==
  IF Owner(s, a) # i /\ a # Local /\ route_quota_test(s, i) /\ ~refuse
  THEN [multi_route_del([s EXCEPT !.inst[i].ref = @ + 1, !.inst[i].routes = @ + 1], {a})
          EXCEPT !.vhash[a] = [inst |-> i, cache |-> cache, valid |-> cache]]
  ELSE s

\* The networks in use that hold h and have a route, the most specific last.
NetRoutes(s, h) ==
  {n \in Net : /\ h \in InNet[n] /\ s.net_len[NetBits[n]] > 0
               /\ multi_route_defined(s, s.vhash[n])}

\* Where the most specific of these networks leads.
ByNet(s, h) ==
  IF NetRoutes(s, h) = {} THEN None
  ELSE s.vhash[CHOOSE x \in NetRoutes(s, h) : \A y \in NetRoutes(s, h) : NetBits[y] <= NetBits[x]].inst

Found(s, i) == [s |-> IF i # None /\ s.inst[i].st # "live" THEN [s EXCEPT !.abort = "halted"] ELSE s,
                inst |-> i]

FoundByNet(s, h, i, refuse) == Found(IF i = None THEN s ELSE multi_learn_addr(s, i, h, TRUE, refuse), i)

\* multi_get_instance_by_virtual_addr: the table after the lookup, in which a
\* host route may have been cached, and the instance found.
multi_get_instance_by_virtual_addr(s, h, cidr, refuse) ==
  IF h = Local THEN Found(s, None)
  ELSE IF Owner(s, h) # None \/ ~cidr THEN Found(s, Owner(s, h))
  ELSE FoundByNet(s, h, ByNet(s, h), refuse)

\* ++cache_generation: no cached host route is valid any more.
Invalidated(vhash) == [a \in Addr |-> [vhash[a] EXCEPT !.valid = FALSE]]

\* mutant: the cache of host routes survives a new network.
mroute_helper_add_iroute_KeepCache(s, a) ==
  IF a \in Net THEN [s EXCEPT !.net_len[NetBits[a]] = @ + 1] ELSE s

mroute_helper_add_iroute(s, a) ==
  IF a \in Net THEN [s EXCEPT !.vhash = Invalidated(@), !.net_len[NetBits[a]] = @ + 1] ELSE s

\* mutant: networks that were never added are removed.
multi_del_iroutes_Always(s, J) ==
  LET nets(j) == IF s.inst[j].cn # None THEN SelectSeq(opt.iroutes[s.inst[j].cn], LAMBDA a : a \in Net)
                 ELSE <<>>
      used(b) == FoldSet(LAMBDA j, n : n + Len(SelectSeq(nets(j), LAMBDA a : NetBits[a] = b)), 0, J)
  IN  [s EXCEPT !.net_len = [b \in DOMAIN @ |-> IF @[b] < used(b) THEN 0 ELSE @[b] - used(b)],
                !.vhash = Invalidated(@)]

\* mroute_helper_del_iroute for the networks in use by the instances in J.
multi_del_iroutes(s, J) ==
  LET nets(j) == IF s.inst[j].iroutes THEN SelectSeq(opt.iroutes[s.inst[j].cn], LAMBDA a : a \in Net)
                 ELSE <<>>
      used(b) == FoldSet(LAMBDA j, n : n + Len(SelectSeq(nets(j), LAMBDA a : NetBits[a] = b)), 0, J)
      left == [b \in DOMAIN s.net_len |-> s.net_len[b] - used(b)]
  IN  [s EXCEPT !.net_len = left,
                !.vhash = IF \E j \in J : nets(j) # <<>> THEN Invalidated(@) ELSE @,
                !.abort = IF \E b \in DOMAIN left : left[b] < 0 THEN "net_len" ELSE @]

\* multi_reap_range: undefined routes of some buckets go, and with the last
\* route of a closed instance its memory.
multi_reap_range(s, first, last) ==
  multi_route_del(s, {a \in Addr : /\ s.vhash[a] # NoRoute
                                   /\ Bucket[a] >= first /\ Bucket[a] < last
                                   /\ ~multi_route_defined(s, s.vhash[a])})

multi_reap_process(s) ==
  LET base == IF s.bucket_base >= NBuckets THEN 0 ELSE s.bucket_base
      next == base + opt.buckets_per_pass
  IN  [multi_reap_range(s, base, next) EXCEPT !.bucket_base = next]

-----------------------------------------------------------------------------
(* The address pool.  A time of release is its rank among the others.       *)

Ranked(pool) ==
  LET times == {pool[h].released : h \in Handle} \ {0}
  IN  [h \in Handle |->
         [pool[h] EXCEPT !.released = Cardinality({t \in times : t <= pool[h].released})]]

\* mutant: closing a client makes the pool forget whose address it was.
PoolReleased_Hard(pool, H) ==
  Ranked([h \in Handle |-> IF h \in H
                           THEN [pool[h] EXCEPT !.used = FALSE, !.released = 0, !.cn = None]
                           ELSE pool[h]])

\* ifconfig_pool_release of the handles H, soft: the name is remembered.
PoolReleased(pool, H) ==
  Ranked([h \in Handle |-> IF h \in H THEN [pool[h] EXCEPT !.used = FALSE, !.released = PoolSize + 1]
                           ELSE pool[h]])

\* ifconfig_pool_release of one handle, hard: everything is forgotten.
PoolForgotten(pool, h) ==
  Ranked([pool EXCEPT ![h].used = FALSE, ![h].released = 0, ![h].cn = None])

Lowest(S) == CHOOSE x \in S : \A y \in S : x <= y

\* mutant: a fixed entry is as good as any other.
ifconfig_pool_find_Fixed(pool, cn) ==
  LET free == {h \in Handle : ~pool[h].used}
      previous == {h \in free : cn # None /\ pool[h].cn = cn}
      earliest == {h \in free : \A g \in free : pool[h].released <= pool[g].released}
  IN  IF previous # {} THEN Lowest(previous) ELSE IF free # {} THEN Lowest(earliest) ELSE None

ifconfig_pool_find(pool, cn) ==
  LET free == {h \in Handle : ~pool[h].used}
      previous == {h \in free : cn # None /\ pool[h].cn = cn}
      new == {h \in free : ~pool[h].fixed}
      earliest == {h \in new : \A g \in new : pool[h].released <= pool[g].released}
  IN  IF opt.duplicate_cn THEN (IF free = {} THEN None ELSE Lowest(free))
      ELSE IF previous # {} THEN Lowest(previous)
      ELSE IF new # {} THEN Lowest(earliest) ELSE None

PoolAcquired(pool, h, cn) ==
  Ranked([pool EXCEPT ![h].used = TRUE, ![h].released = 0, ![h].cn = cn])

-----------------------------------------------------------------------------
(* The queue of broadcast and client-to-client packets: the instances they   *)
(* are for, None once the instance was closed.                               *)

mbuf_extract_item(q) ==
  LET k == {n \in 1..Len(q) : q[n] # None}
  IN  IF k = {} THEN [found |-> None, rest |-> <<>>]
      ELSE [found |-> q[Lowest(k)], rest |-> SubSeq(q, Lowest(k) + 1, Len(q))]

mbuf_add_item(s, i) ==
  LET x == mbuf_extract_item(s.mbuf)
  IN  IF Len(s.mbuf) < MbufCapacity THEN [s EXCEPT !.mbuf = Append(@, i)]
      ELSE IF x.found = None THEN [s EXCEPT !.abort = "mbuf"]
      ELSE [s EXCEPT !.mbuf = Append(x.rest, i)]

\* mutant: queued packets keep the closed instance.
mbuf_dereference_instance_Keep(q, J) == q

mbuf_dereference_instance(q, J) == [n \in DOMAIN q |-> IF q[n] \in J THEN None ELSE q[n]]

multi_bcast(s, omit) ==
  FoldSet(LAMBDA i, t : mbuf_add_item(t, i), s,
          {i \in Live(s) : i # omit /\ s.iter[s.inst[i].real] = i})

-----------------------------------------------------------------------------
(* Closing and opening clients.                                             *)

\* Closing the instances in J, one after the other: pointers are cleared, the
\* tables and queues updated, and the references of the live clients dropped.
Cleared(s, J, shutdown) ==
  LET lost == {j \in J : \/ s.inst[j].hash /\ s.hash[s.inst[j].real] # j
                         \/ s.inst[j].iter /\ s.iter[s.inst[j].real] # j}
  IN  [s EXCEPT !.pending = IF @ \in J THEN None ELSE @,
                !.earliest_wakeup = IF @ \in J THEN None ELSE @,
                !.abort = IF \E j \in J : s.inst[j].st # "live" THEN "closed twice"
                          ELSE IF lost # {} /\ ~shutdown THEN "hash" ELSE @]

Unlinked(s, J) ==
  multi_del_iroutes(
    [s EXCEPT !.hash = [r \in DOMAIN @ |-> IF @[r] \in J THEN None ELSE @[r]],
              !.iter = [r \in DOMAIN @ |-> IF @[r] \in J THEN None ELSE @[r]],
              !.schedule = @ \ J,
              !.pool = PoolReleased(@, {s.inst[j].handle : j \in J} \ {None}),
              !.mbuf = mbuf_dereference_instance(@, J)], J)

Halted(s, J) ==
  [s EXCEPT !.inst = [i \in Cell |-> IF i \in J THEN Dropped([@[i] EXCEPT !.st = "halt"], 1) ELSE @[i]]]

\* multi_close_instance.  At shutdown the tables are left alone: they are about
\* to be freed.
multi_close_instance(s, J, shutdown) ==
  Halted(IF shutdown THEN Cleared(s, J, shutdown) ELSE Unlinked(Cleared(s, J, shutdown), J), J)

\* multi_create_instance and the hash_add_fast of its caller.  A client too
\* many is refused before anything refers to it.
multi_create_instance(s, i, real) ==
  [s EXCEPT !.inst[i] = [NoInst EXCEPT !.st = "live", !.ref = 1, !.real = real,
                                       !.hash = TRUE, !.iter = TRUE],
            !.hash[real] = i, !.iter[real] = i, !.schedule = @ \cup {i}, !.pending = None]

Full(s) == Cardinality({r \in DOMAIN s.hash : s.hash[r] # None}) >= opt.max_clients

\* multi_delete_dup: other clients with the same common name.
multi_delete_dup(s, i) ==
  multi_close_instance(s, {j \in Live(s) \ {i} : /\ s.iter[s.inst[j].real] = j
                                                 /\ s.inst[j].cn = s.inst[i].cn}, FALSE)

\* The instance takes the pool address with handle h, if there is one.
Assigned(s, i, h, cn) ==
  IF h = None THEN s
  ELSE [s EXCEPT !.pool = PoolAcquired(@, h, cn), !.inst[i].handle = h, !.inst[i].addr = PoolAddr[h]]

PoolName(x) == IF opt.duplicate_cn THEN None ELSE x.cn

\* mutant: a static address leaves the pool address behind.
multi_select_virtual_addr_Leak(s, i, push) ==
  IF push # None THEN [s EXCEPT !.inst[i].handle = None, !.inst[i].addr = push]
  ELSE IF opt.pool /\ s.inst[i].handle = None
  THEN Assigned(s, i, ifconfig_pool_find(s.pool, PoolName(s.inst[i])), PoolName(s.inst[i]))
  ELSE s

\* multi_select_virtual_addr, with the address of an --ifconfig-push, or None.
multi_select_virtual_addr(s, i, push) ==
  IF push # None
  THEN [s EXCEPT !.pool = IF s.inst[i].handle = None THEN @ ELSE PoolForgotten(@, s.inst[i].handle),
                 !.inst[i].handle = None, !.inst[i].addr = push]
  ELSE IF opt.pool /\ s.inst[i].handle = None
  THEN Assigned(s, i, ifconfig_pool_find(s.pool, PoolName(s.inst[i])), PoolName(s.inst[i]))
  ELSE s

multi_add_iroutes(s, i, refuse) ==
  FoldLeft(LAMBDA t, a : multi_learn_addr(mroute_helper_add_iroute(t, a), i, a, FALSE, refuse),
           [s EXCEPT !.inst[i].iroutes = TRUE], opt.iroutes[s.inst[i].cn])

\* The parts of multi_connection_established after the client's file: the
\* client-connect plugin and script, which may push an address and succeed or
\* not (c.ok; the plugin may push an address and the script then fail), and the
\* routes, which the learn-address script may refuse.
ClientConnect(s, i, c) ==
  IF c.push # None THEN multi_select_virtual_addr(s, i, c.push) ELSE s

Routes(s, i, c) ==
  IF opt.tap \/ ~c.ok THEN s
  ELSE multi_add_iroutes(IF s.inst[i].addr = None THEN s
                         ELSE multi_learn_addr(s, i, s.inst[i].addr, FALSE, c.refuse), i, c.refuse)

multi_connection_established(s, i, c) ==
  LET d == IF opt.duplicate_cn THEN s ELSE multi_delete_dup(s, i)
      v == multi_select_virtual_addr([d EXCEPT !.inst[i].handle = None], i, opt.push[s.inst[i].cn])
  IN  [Routes(ClientConnect(v, i, c), i, c) EXCEPT !.inst[i].est = TRUE, !.inst[i].auth = c.ok]

\* What pre_select and the scripts may do when instance i is serviced.
Outcome(s, i) ==
  LET new == s.inst[i].conn /\ ~s.inst[i].est
  IN  [sig : BOOLEAN, link : IF opt.timers THEN BOOLEAN ELSE {FALSE},
       ok : IF new /\ opt.connect THEN BOOLEAN ELSE {TRUE},
       push : IF new THEN opt.pushes \cup {None} ELSE {None},
       refuse : IF opt.refuse THEN BOOLEAN ELSE {FALSE}]

Serviced(s, i, c) ==
  IF s.inst[i].conn /\ ~s.inst[i].est THEN multi_connection_established(s, i, c) ELSE s

SetPending(s, i) == [s EXCEPT !.pending = IF s.inst[i].out = {} THEN None ELSE i]

\* multi_process_post with MPP_PRE_SELECT | MPP_CLOSE_ON_SIGNAL.
multi_process_post(s, i, c) ==
  IF c.sig THEN multi_close_instance(s, {i}, FALSE)
  ELSE SetPending(Serviced([s EXCEPT !.schedule = @ \cup {i},
                                     !.inst[i].out = IF c.link THEN @ \cup {"link"} ELSE @], i, c), i)

-----------------------------------------------------------------------------
(* The event loop.                                                          *)

MultiContext(o, file) ==
  [inst |-> [i \in Cell |-> NoInst], hash |-> [r \in o.reals |-> None], iter |-> [r \in o.reals |-> None],
   vhash |-> [a \in Addr |-> NoRoute], net_len |-> [b \in {NetBits[n] : n \in Net} |-> 0],
   pool |-> [h \in Handle |-> [used |-> FALSE, cn |-> file[h],
                               fixed |-> o.persist = "fixed" /\ file[h] # None,
                               released |-> IF file[h] # None THEN 1 ELSE 0]],
   file |-> file, mbuf |-> <<>>, schedule |-> {}, pending |-> None,
   earliest_wakeup |-> None, bucket_base |-> 0,
   abort |-> "no"]

Init ==
  /\ opt \in Scenarios
  /\ m = MultiContext(opt, opt.file)
  /\ status = {} /\ phase = "wait"

\* mutant: packets are read while the queue is not empty.
p2mp_iow_flags_Eager(s) ==
  IF s.pending # None
  THEN (IF "tun" \in s.inst[s.pending].out THEN {"TUN_WRITE"} ELSE {})
       \cup (IF "link" \in s.inst[s.pending].out THEN {"SOCKET_WRITE"} ELSE {})
  ELSE {"SOCKET_WRITE", "SOCKET_READ", "TUN_READ"}

\* p2mp_iow_flags: read only when no output waits.
p2mp_iow_flags(s) ==
  IF s.pending # None
  THEN (IF "tun" \in s.inst[s.pending].out THEN {"TUN_WRITE"} ELSE {})
       \cup (IF "link" \in s.inst[s.pending].out THEN {"SOCKET_WRITE"} ELSE {})
  ELSE IF s.mbuf # <<>> THEN {"SOCKET_WRITE"} ELSE {"SOCKET_READ", "TUN_READ"}

\* multi_get_timeout, io_wait and, in a new second, the coarse timers.  Only the
\* first of several I/O events is handled, so one is reported, and with it the
\* management socket; only a timeout makes use of earliest_wakeup.
Wait ==
  /\ phase = "wait" /\ m.abort = "no"
  /\ \E io \in {{}} \cup {{e} : e \in p2mp_iow_flags(m)}, man \in SUBSET opt.management :
       /\ status' = io \cup man
       /\ \E e \in IF io \cup man = {} THEN m.schedule \cup {None} ELSE {None}, newsecond \in BOOLEAN :
            LET s == [m EXCEPT !.earliest_wakeup = e]
            IN  m' = IF newsecond THEN multi_reap_process(s) ELSE s
  /\ phase' = "io"
  /\ UNCHANGED opt

\* A cached host route is not used for MULTI_CACHE_ROUTE_TTL seconds.
Age(a) ==
  /\ phase = "wait" /\ m.vhash[a].valid
  /\ m' = [m EXCEPT !.vhash[a].valid = FALSE]
  /\ UNCHANGED <<opt, status, phase>>

Handled(s) == m' = s /\ phase' = "wait" /\ status' = {} /\ UNCHANGED opt

Ready(event, before) == phase = "io" /\ event \in status /\ status \cap before = {} /\ m.abort = "no"

\* multi_process_timeout.
Timeout ==
  /\ phase = "io" /\ status = {} /\ m.abort = "no"
  /\ LET e == m.earliest_wakeup
     IN  \/ e = None /\ Handled(m)
         \/ /\ e # None
            /\ \E c \in Outcome(m, e) : Handled([multi_process_post(m, e, c) EXCEPT !.earliest_wakeup = None])

\* management_io: a kill by common name or by address, or another command.
Management ==
  /\ Ready("MANAGEMENT", {})
  /\ \E J \in {{j \in Live(m) : m.iter[m.inst[j].real] = j /\ m.inst[j].cn = cn} : cn \in opt.cns}
              \cup {{j \in Live(m) : m.iter[m.inst[j].real] = j /\ m.inst[j].real = r} : r \in opt.reals}
              \cup {{}} :
       m' = multi_close_instance(m, J, FALSE)
  /\ status' = status \ {"MANAGEMENT"}
  /\ phase' = IF status' = {} THEN "wait" ELSE "io"
  /\ UNCHANGED opt

\* multi_process_outgoing_link: the pending instance, or the head of the queue.
OutgoingLink ==
  /\ Ready("SOCKET_WRITE", {"MANAGEMENT"})
  /\ LET q == mbuf_extract_item(m.mbuf)
         i == IF m.pending # None THEN m.pending ELSE q.found
         s == IF m.pending # None THEN m ELSE [m EXCEPT !.mbuf = q.rest]
     IN  \/ i = None /\ Handled(s)
         \/ /\ i # None
            /\ \E c \in Outcome(s, i) :
                 Handled(multi_process_post([s EXCEPT !.inst[i].out = @ \ {"link"}], i, c))

\* multi_process_outgoing_tun: "ASSERT (mi)".
OutgoingTun ==
  /\ Ready("TUN_WRITE", {"MANAGEMENT", "SOCKET_WRITE"})
  /\ LET i == m.pending
     IN  \/ i = None /\ Handled([m EXCEPT !.abort = "pending"])
         \/ /\ i # None
            /\ \E c \in Outcome(m, i) :
                 Handled(multi_process_post([m EXCEPT !.inst[i].out = @ \ {"tun"}], i, c))

\* The routing of a packet that came from instance i: its source has to be
\* i's, and with --client-to-client it may go to another client or to all.
Source(s, i, src, refuse) ==
  LET l == multi_learn_addr(s, i, src, FALSE, refuse)
  IN  IF opt.tap THEN [s |-> l, inst |-> Owner(l, src)]
      ELSE multi_get_instance_by_virtual_addr(s, src, TRUE, refuse)

ToTun(s, i) == [s EXCEPT !.inst[i].out = @ \cup {"tun"}]

ToClient(d, i) == IF d.inst = None THEN ToTun(d.s, i) ELSE mbuf_add_item(d.s, d.inst)

Routed(f, i, dest, refuse) ==
  IF f.inst # i THEN f.s
  ELSE IF ~opt.c2c THEN ToTun(f.s, i)
  ELSE IF dest = "all" THEN ToTun(multi_bcast(f.s, i), i)
  ELSE ToClient(multi_get_instance_by_virtual_addr(f.s, dest, ~opt.tap, refuse), i)

\* What a control packet does to instance i: nothing here, a name is verified,
\* or the key exchange is complete.
Control(s, i) ==
  LET x == s.inst[i]
  IN  {s} \cup {[s EXCEPT !.inst[i].cn = cn] : cn \in IF x.cn = None THEN opt.cns ELSE {}}
          \cup (IF x.cn # None /\ ~x.conn THEN {[s EXCEPT !.inst[i].conn = TRUE]} ELSE {})

\* multi_process_incoming_link: a control packet, or a packet of the tunnel,
\* dropped unless context_auth is CAS_SUCCEEDED.
Serve(s, i) ==
  \/ \E t \in Control(s, i) : \E c \in Outcome(t, i) : Handled(multi_process_post(t, i, c))
  \/ /\ s.inst[i].auth
     /\ \E src \in opt.dests, dest \in opt.dests \cup {"all"}, c \in Outcome(s, i) :
          Handled(multi_process_post(Routed(Source(s, i, src, c.refuse), i, dest, c.refuse), i, c))

\* multi_get_create_instance_udp; a new client may be refused by --connect-freq,
\* tls-auth or max_clients.
IncomingLink(real) ==
  /\ Ready("SOCKET_READ", {"MANAGEMENT", "SOCKET_WRITE", "TUN_WRITE"})
  /\ LET known == m.hash[real] # None
         free == {i \in Cell : m.inst[i].st = "free"}
         i == IF known THEN m.hash[real] ELSE Lowest(free)
     IN  \/ ~known /\ Handled(m)
         \/ /\ known \/ (free # {} /\ ~Full(m))
            /\ Serve([(IF known THEN m ELSE multi_create_instance(m, i, real))
                         EXCEPT !.pending = i, !.inst[i].out = @ \ {"tun"}], i)

\* multi_process_incoming_tun.
IncomingTun(dest) ==
  /\ Ready("TUN_READ", {"MANAGEMENT", "SOCKET_WRITE", "TUN_WRITE", "SOCKET_READ"})
  /\ \E refuse \in IF opt.refuse THEN BOOLEAN ELSE {FALSE} :
       LET f == multi_get_instance_by_virtual_addr(m, dest, ~opt.tap, refuse)
           s == [f.s EXCEPT !.pending = f.inst]
       IN  \/ dest = "all" /\ Handled(multi_bcast(m, None))
           \/ dest # "all" /\ f.inst = None /\ Handled(s)
           \/ /\ dest # "all" /\ f.inst # None
              /\ \E c \in Outcome(s, f.inst) :
                   Handled(multi_process_post([s EXCEPT !.inst[f.inst].out = @ \cup {"link"}], f.inst, c))

\* multi_ifconfig_pool_persist.
multi_ifconfig_pool_persist(s) ==
  IF opt.persist = "rw" THEN [s EXCEPT !.file = [h \in Handle |-> s.pool[h].cn]] ELSE s

\* mutant: the routes of the closed clients are not reaped.
Uninit_NoReap ==
  /\ phase = "wait" /\ m.abort = "no"
  /\ m' = multi_close_instance(multi_ifconfig_pool_persist(m),
                               {i \in Cell : \E r \in opt.reals : m.iter[r] = i}, TRUE)
  /\ phase' = "down"
  /\ UNCHANGED <<opt, status>>

\* A signal ends the loop: the pool is saved and multi_uninit frees everything.
Uninit ==
  /\ phase = "wait" /\ m.abort = "no"
  /\ LET s == multi_close_instance(multi_ifconfig_pool_persist(m),
                                   {i \in Cell : \E r \in opt.reals : m.iter[r] = i}, TRUE)
     IN  m' = multi_reap_range(s, 0, NBuckets)
  /\ phase' = "down"
  /\ UNCHANGED <<opt, status>>

Restart ==
  /\ phase = "down"
  /\ m' = MultiContext(opt, m.file)
  /\ phase' = "wait"
  /\ UNCHANGED <<opt, status>>

Next ==
  \/ Wait \/ Timeout \/ Management \/ OutgoingLink \/ OutgoingTun
  \/ \E a \in Addr : Age(a)
  \/ \E real \in opt.reals : IncomingLink(real)
  \/ \E dest \in opt.dests \cup {"all"} : IncomingTun(dest)
  \/ Uninit \/ Restart

Spec == Init /\ [][Next]_vars

-----------------------------------------------------------------------------
(* Properties.                                                              *)

\* One type invariant.
TypeOK ==
  /\ opt \in Scenarios /\ phase \in {"wait", "io", "down"}
  /\ status \subseteq {"SOCKET_READ", "SOCKET_WRITE", "TUN_READ", "TUN_WRITE", "MANAGEMENT"}
  /\ m.inst \in [Cell -> [st : {"free", "live", "halt"}, ref : Nat, routes : 0..opt.max_routes_per_client,
                          real : opt.reals \cup {None}, cn : opt.cns \cup {None},
                          handle : Handle \cup {None}, addr : Host \cup {None},
                          conn : BOOLEAN, est : BOOLEAN, auth : BOOLEAN, hash : BOOLEAN, iter : BOOLEAN,
                          iroutes : BOOLEAN, out : SUBSET {"link", "tun"}]]
  /\ m.vhash \in [Addr -> [inst : Cell \cup {None}, cache : BOOLEAN, valid : BOOLEAN]]
  /\ m.hash \in [opt.reals -> Cell \cup {None}] /\ m.iter \in [opt.reals -> Cell \cup {None}]
  /\ Len(m.mbuf) <= MbufCapacity /\ m.schedule \subseteq Cell
  /\ m.pending \in Cell \cup {None} /\ m.earliest_wakeup \in Cell \cup {None}
  /\ m.bucket_base \in 0..(NBuckets + opt.buckets_per_pass)

RoutesOf(i) == {a \in Addr : m.vhash[a].inst = i}

\* The reference count of an instance is the number of routes that point to it,
\* and one while the client is there; route_count is the number of routes.  The
\* count is kept by increments and decrements in five places.
RefcountExact ==
  phase # "down" =>
  \A i \in Cell :
    LET x == m.inst[i]
    IN  /\ x.routes = Cardinality(RoutesOf(i))
        /\ x.ref = x.routes + (IF x.st = "live" THEN 1 ELSE 0)
        /\ x.st = "free" <=> x.ref = 0

\* No table, queue or saved pointer leads to memory that was freed, and only the
\* routing table leads to clients that were closed.
NoDangling ==
  phase # "down" =>
  LET pointers == {m.pending, m.earliest_wakeup} \cup m.schedule \cup {m.mbuf[n] : n \in DOMAIN m.mbuf}
                  \cup {m.hash[r] : r \in opt.reals} \cup {m.iter[r] : r \in opt.reals}
  IN  /\ pointers \ {None} \subseteq Live(m)
      /\ \A a \in Addr : m.vhash[a] # NoRoute => m.inst[m.vhash[a].inst].st # "free"

\* A pool address is in use exactly when one live client holds it.
PoolExclusive ==
  phase # "down" =>
  \A h \in Handle :
    Cardinality({i \in Live(m) : m.inst[i].handle = h}) = (IF m.pool[h].used THEN 1 ELSE 0)

\* An address that the pool file gives to a name for good is never given to
\* another (unless --duplicate-cn makes names meaningless).  It can be lost: a
\* hard release forgets the name and leaves the entry fixed.
FixedReserved ==
  ~opt.duplicate_cn =>
  \A h \in Handle : m.pool[h].fixed => m.pool[h].cn \in {opt.file[h], None}

\* A host route made from a network's route leads to where the networks lead
\* now, by the longest prefix.
CacheCoherent ==
  phase # "down" =>
  \A h \in Host :
    m.vhash[h].cache /\ multi_route_defined(m, m.vhash[h])
    => /\ NetRoutes(m, h) # {}
       /\ \E n \in NetRoutes(m, h) : /\ m.vhash[n].inst = m.vhash[h].inst
                                     /\ \A k \in NetRoutes(m, h) : NetBits[k] <= NetBits[n]

\* A live client's network that has a route is found by lookups: its prefix
\* length is among those in use.
IroutesFound ==
  phase # "down" =>
  \A n \in Net : Owner(m, n) # None => m.net_len[NetBits[n]] > 0

\* On a routed tunnel the address that a client was given leads to this client
\* as long as it is connected, whoever had the address before.
AddressRouted ==
  phase # "down" /\ ~opt.tap /\ ~opt.refuse =>
  \A i \in Live(m) :
    m.inst[i].auth /\ m.inst[i].addr # None => Owner(m, m.inst[i].addr) = i

\* The assertions of multi.c, mudp.c, mbuf.c and mroute.c hold.
AssertsHold == m.abort \in {"no", "pending"}

\* "ASSERT (mi)" in multi_process_outgoing_tun: an instance is pending when the
\* tun device is ready for its output.
PendingAtTunWrite == m.abort # "pending"

\* Nothing is left allocated after multi_uninit.
AllFreed == phase = "down" => \A i \in Cell : m.inst[i].st = "free"

\* A client that connects again while its old connection is still there keeps
\* its pool address.
KeepsAddress ==
  [][\A i, j \in Cell :
       /\ ~opt.duplicate_cn
       /\ m.inst[i].st = "live" /\ m.inst[i].est /\ m.inst[i].handle # None
       /\ m.inst[j].st = "live" /\ ~m.inst[j].est /\ m'.inst[j].est
       /\ m.inst[i].cn = m'.inst[j].cn /\ m'.inst[j].handle # None
       => m'.inst[j].handle = m.inst[i].handle]_vars

\* The bookkeeping of the server over any churn of clients: counts are exact, nothing
\* points to a client that is gone, no assertion but the one above fails, and a server
\* that is down has freed every instance.
MultiInv == TypeOK /\ RefcountExact /\ NoDangling /\ AssertsHold /\ AllFreed

\* The virtual addresses: one owner each, reservations kept, and every way to look one up
\* (pool, route table, cached routes, networks) leads to that owner.
AddressInv == PoolExclusive /\ FixedReserved /\ CacheCoherent /\ IroutesFound /\ AddressRouted
=============================================================================
