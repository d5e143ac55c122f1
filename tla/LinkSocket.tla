----------------------------- MODULE LinkSocket -----------------------------
(***************************************************************************)
(* How a tunnel gets and loses its peer (socket.c, socket.h, proxy.c and   *)
(* socks.c): the list of --remote entries, name resolution in two phases,  *)
(* connect and accept, the dialogues with an HTTP and a SOCKS proxy, the   *)
(* addresses lsa->remote and lsa->actual that a SIGUSR1 restart may keep,  *)
(* the check of the addresses packets come from, and the descriptors.      *)
(*                                                                         *)
(* Every answer of the network is a choice: a name resolves to one of its  *)
(* addresses or not at all, connect succeeds or fails, a proxy answers     *)
(* what it likes, and a signal may come in at every place that looks.      *)
(***************************************************************************)
EXTENDS Integers, Sequences, FiniteSets

CONSTANTS
  Entries,       \* the --remote list, a sequence of [host, port]
  Proxy,         \* [host, port] of the proxy
  Ips,           \* Ips[h]: the addresses that the name h may resolve to
  Strangers,     \* addresses [ip, port] that are nobody's
  LinkOptions,   \* option sets
  Infinite       \* RESOLV_RETRY_INFINITE

VARIABLES
  lopt,     \* options: proto, mode, proxy, auth, retry (--resolv-retry), persist, float,
            \* proxyRetry and n, the length of the --remote list
  rl,       \* struct remote_list: current (from 1) and no_advance
  lsa,      \* struct link_socket_addr: remote and actual
  sock,     \* struct link_socket, and the locals of link_socket_init_phase2
  fds,      \* open descriptors
  lsig,     \* *signal_received
  lpc,      \* where the program is
  accepted  \* history: addresses whose authenticated packets were let in

linkVars == <<lopt, rl, lsa, sock, fds, lsig, lpc, accepted>>

NoHost == "none"
NoFd == 0
NoAddr == [ip |-> 0, port |-> 0]

\* What the options may be: the conditions are checks of options_postprocess and the
\* choice of the mode in do_init_socket_1.
ASSUME LinkAssumption ==
  /\ NoHost \notin DOMAIN Ips /\ Proxy \in [host : DOMAIN Ips, port : Nat]
  /\ Entries \in Seq([host : DOMAIN Ips, port : Nat])
  /\ \A h \in DOMAIN Ips : Ips[h] \subseteq Nat \ {0} /\ Ips[h] # {}
  /\ Strangers \subseteq [ip : Nat \ {0}, port : Nat]
  /\ Infinite \in Nat \ {0}
  /\ LinkOptions \subseteq
       [proto : {"udp", "client", "server"}, mode : {"default", "listen", "accept_from"},
        proxy : {"none", "http", "socks"}, auth : {"none", "basic", "ntlm"}, retry : 0 .. Infinite,
        persist : BOOLEAN, float : BOOLEAN, proxyRetry : BOOLEAN, n : 0 .. Len(Entries)]
  /\ \A o \in LinkOptions :
       /\ o.mode # "default" => o.proto = "server" /\ o.n = 0
       /\ o.proto = "client" => o.n > 0
       /\ o.proxy = "http" => o.proto = "client"
       /\ o.proxy = "socks" => o.proto # "server"

addr_defined(a) == a.ip # 0
Listener == 1     \* accept_from->sd, which belongs to another socket
MaxFds == 4       \* bound: open descriptors, which only a leak would reach

\* The smallest descriptor that is not open.
FreshFd(S) == CHOOSE d \in 1 .. Cardinality(S) + 1 : d \notin S /\ \A e \in 1 .. d - 1 : e \in S

SOCKETS == [sd |-> NoFd, ctrl |-> NoFd, host |-> NoHost, port |-> 0, dest |-> 0, list |-> FALSE,
            did |-> FALSE, dyn |-> NoHost, changed |-> FALSE, verify |-> NoAddr, left |-> 0,
            established |-> FALSE, asserted |-> TRUE, stale |-> FALSE]

-----------------------------------------------------------------------------
(* The remote list.                                                        *)

\* mutant: the entry that worked is tried again and again.
remote_list_next_Stuck(l) ==
  IF l.no_advance /\ l.current > 0 THEN l
  ELSE [l EXCEPT !.current = IF @ + 1 > lopt.n THEN 1 ELSE @ + 1]

remote_list_next(l) ==
  IF l.no_advance /\ l.current > 0
  THEN [l EXCEPT !.no_advance = FALSE]
  ELSE [l EXCEPT !.current = IF @ + 1 > lopt.n THEN 1 ELSE @ + 1]

remote_list_host(l) == IF lopt.n = 0 THEN NoHost ELSE Entries[l.current].host
remote_list_port(l) == IF lopt.n = 0 THEN 0 ELSE Entries[l.current].port

-----------------------------------------------------------------------------
(* Name resolution.                                                        *)

\* getaddr: what can come of it, "fail" and "fatal" besides the addresses.  The
\* flag GETADDR_FATAL only bites when no retry is left at the first failure.
getaddr(h, fatal, once, seconds) ==
  LET retries == IF once THEN 1 ELSE seconds \div 5
      failure == IF fatal /\ retries = 0 THEN {"fatal"}
                 ELSE IF seconds = Infinite /\ ~once THEN {} ELSE {"fail"}
  IN  [how : {"ok"}, ip : Ips[h]] \cup [how : failure, ip : {0}]

\* update_remote: the address stays when the name does not resolve.  a is the
\* address, changed the flag, stale that the lookup failed.
update_remote(h, a) ==
  IF h = NoHost THEN {[addr |-> a, changed |-> FALSE, stale |-> FALSE]}
  ELSE {IF r.how = "ok"
        THEN [addr |-> [a EXCEPT !.ip = r.ip], changed |-> r.ip # a.ip, stale |-> FALSE]
        ELSE [addr |-> a, changed |-> FALSE, stale |-> TRUE] : r \in getaddr(h, FALSE, FALSE, 1)}

\* The attempts that resolve_remote makes in its two phases.
Attempts(s, phase) ==
  LET n == IF s.list THEN lopt.n ELSE 0
  IN  IF n > 1 /\ lopt.retry = Infinite
      THEN getaddr(s.host, phase = 2, phase = 2, 0)
      ELSE IF phase = 1
      THEN getaddr(s.host, lopt.retry = 0, FALSE, 0)
      ELSE getaddr(s.host, TRUE, FALSE, lopt.retry)

\* The second half of resolve_remote: a recently used address is preferred.
Resolved(s, l) ==
  IF addr_defined(l.actual)
  THEN [sock |-> [s EXCEPT !.did = TRUE, !.dyn = NoHost], lsa |-> l, how |-> "ok"]
  ELSE [sock |-> [s EXCEPT !.did = TRUE], lsa |-> [l EXCEPT !.actual = l.remote], how |-> "ok"]

\* resolve_remote: the results it may have.  Phase 2 without retries is ASSERT (0).
resolve_remote(s, l, phase) ==
  IF s.did THEN {[sock |-> s, lsa |-> l, how |-> "ok"]}
  ELSE IF addr_defined(l.remote) THEN {Resolved(s, l)}
  ELSE IF s.host = NoHost THEN {Resolved(s, [l EXCEPT !.remote = [ip |-> 0, port |-> s.port]])}
  ELSE IF phase = 2 /\ lopt.retry = 0
  THEN {[sock |-> [s EXCEPT !.asserted = FALSE], lsa |-> l, how |-> "fatal"]}
  ELSE {IF r.how = "ok"
        THEN Resolved(s, [l EXCEPT !.remote = [ip |-> r.ip, port |-> s.port]])
        ELSE [sock |-> s, lsa |-> l, how |-> r.how] : r \in Attempts(s, phase)}

-----------------------------------------------------------------------------
(* link_socket_init_phase1 and link_socket_init_phase2.                    *)

\* mutant: the list is kept for the retries of the connection to the proxy.
Chosen_List(l) ==
  [SOCKETS EXCEPT !.host = IF lopt.proxy # "none" THEN Proxy.host ELSE remote_list_host(l),
                  !.port = IF lopt.proxy # "none" THEN Proxy.port ELSE remote_list_port(l),
                  !.dest = l.current, !.list = lopt.n > 0]

\* Where a socket connects to: the proxy, if there is one, stands in for the
\* entry of the list, which becomes the destination told to the proxy.
Chosen(l) ==
  IF lopt.proxy # "none"
  THEN [SOCKETS EXCEPT !.host = Proxy.host, !.port = Proxy.port, !.dest = l.current]
  ELSE [SOCKETS EXCEPT !.host = remote_list_host(l), !.port = remote_list_port(l),
                       !.dest = l.current, !.list = lopt.n > 0]

\* create_socket: UDP through SOCKS needs a control connection as well.
Created(s) ==
  LET a == FreshFd(fds)
      b == FreshFd(fds \cup {a})
  IN  IF lopt.mode = "accept_from" THEN [s EXCEPT !.sd = Listener]
      ELSE IF lopt.proto = "udp" /\ lopt.proxy = "socks" THEN [s EXCEPT !.sd = a, !.ctrl = b]
      ELSE [s EXCEPT !.sd = a]

Owned(s) == {s.sd, s.ctrl} \ {NoFd}

\* A fatal message ends the program, a failure without one only the attempt.
Fatal == lpc' = "exit" /\ fds' = {} /\ UNCHANGED lsig

Phase1 ==
  /\ lpc = "off"
  /\ rl' = IF lopt.n > 0 THEN remote_list_next(rl) ELSE rl
  /\ \E r \in IF lopt.mode = "accept_from"
              THEN {[sock |-> Created(Chosen(rl')), lsa |-> lsa, how |-> "ok"]}
              ELSE resolve_remote(Created(Chosen(rl')), lsa, 1) :
       /\ sock' = r.sock /\ lsa' = r.lsa
       /\ \/ r.how = "fatal" /\ Fatal
          \/ /\ r.how # "fatal" /\ lpc' = "phase2"
             /\ fds' = fds \cup Owned(r.sock) /\ lsig' = "none"
  /\ UNCHANGED <<lopt, accepted>>

AfterResolve ==
  CASE lopt.proto = "server" -> lopt.mode
    [] lopt.proto = "client" \/ lopt.proxy = "socks" -> "connect"
    [] OTHER -> "finish"

\* The signals that getaddr, select, connect and the main loop notice.
Signals == {"USR1", "TERM"}

Phase2 ==
  /\ lpc = "phase2"
  /\ \E r \in resolve_remote([sock EXCEPT !.dyn = IF lopt.retry # 0 THEN sock.host ELSE NoHost], lsa, 2) :
       /\ sock' = [r.sock EXCEPT !.verify = r.lsa.actual] /\ lsa' = r.lsa
       /\ \/ r.how = "fatal" /\ Fatal
          \/ r.how = "fail" /\ lsig' = "USR1" /\ lpc' = "close" /\ UNCHANGED fds
          \/ r.how = "ok" /\ lpc' = AfterResolve /\ UNCHANGED <<lsig, fds>>
  /\ UNCHANGED <<lopt, rl, accepted>>

\* A SIGTERM (SIGHUP, SIGINT) ends the wait for the name; SIGUSR1 is ignored.
Phase2Signal ==
  /\ lpc = "phase2" /\ ~sock.did /\ ~addr_defined(lsa.remote) /\ sock.host # NoHost /\ lopt.retry # 0
  /\ lsig' = "TERM" /\ lpc' = "close"
  /\ UNCHANGED <<lopt, rl, lsa, sock, fds, accepted>>

\* socket_listen_accept: one connection from address a.  socket_do_accept writes
\* the caller's address before it is compared.
Accept(a) ==
  /\ lpc = "default"
  /\ \E u \in update_remote(sock.dyn, sock.verify) :
       IF addr_defined(u.addr) /\ u.addr.ip # a.ip
       THEN /\ sock' = [sock EXCEPT !.verify = u.addr, !.changed = @ \/ u.changed]
            /\ UNCHANGED <<fds, lpc>>
       ELSE /\ sock' = [sock EXCEPT !.verify = u.addr, !.sd = FreshFd(fds), !.changed = @ \/ u.changed]
            /\ fds' = (fds \cup {FreshFd(fds)}) \ {sock.sd}
            /\ lpc' = "finish"
  /\ lsa' = [lsa EXCEPT !.actual = a]
  /\ UNCHANGED <<lopt, rl, lsig, accepted>>

\* LS_MODE_TCP_LISTEN only listens; LS_MODE_TCP_ACCEPT_FROM takes one connection
\* from the listener, which was lent to it.
Listen ==
  /\ lpc = "listen" /\ lpc' = "finish"
  /\ UNCHANGED <<lopt, rl, lsa, sock, fds, lsig, accepted>>

AcceptFrom(a) ==
  /\ lpc = "accept_from"
  /\ \/ /\ sock' = [sock EXCEPT !.sd = FreshFd(fds)] /\ fds' = fds \cup {FreshFd(fds)}
        /\ lsa' = [lsa EXCEPT !.actual = a]
        /\ lpc' = "finish" /\ UNCHANGED lsig
     \/ /\ sock' = [sock EXCEPT !.sd = NoFd]
        /\ lsig' = "TERM" /\ lpc' = "close" /\ UNCHANGED <<fds, lsa>>
  /\ UNCHANGED <<lopt, rl, accepted>>

AcceptSignal(g) ==
  /\ lpc = "default" /\ lsig' = g /\ lpc' = "close"
  /\ UNCHANGED <<lopt, rl, lsa, sock, fds, accepted>>

\* socket_connect.  A failed attempt moves on to the next entry of the list.
Connected ==
  /\ lpc = "connect"
  /\ lpc' = IF lopt.proxy = "none" THEN "finish" ELSE lopt.proxy
  /\ UNCHANGED <<lopt, rl, lsa, sock, fds, lsig, accepted>>

\* mutant: the descriptor of the failed attempt is forgotten.
Reopened_Leak(s, open) == [sd |-> FreshFd(open), fds |-> open \cup {FreshFd(open)}]

\* The socket of the next attempt, once the failed one is closed.
Reopened(s, open) ==
  LET old == IF lopt.proto = "udp" THEN s.ctrl ELSE s.sd
      rest == open \ {old}
  IN  [sd |-> FreshFd(rest), fds |-> rest \cup {FreshFd(rest)}]

ConnectFailed ==
  LET next == sock.list
      l    == IF next THEN remote_list_next(rl) ELSE rl
      dyn  == IF next THEN remote_list_host(l) ELSE sock.dyn
      to   == IF next THEN [lsa.actual EXCEPT !.port = remote_list_port(l)] ELSE lsa.actual
      re   == Reopened(sock, fds)
  IN  /\ lpc = "connect" /\ Cardinality(fds) < MaxFds
      /\ rl' = l /\ fds' = re.fds
      /\ \E u \in update_remote(dyn, to) :
           /\ lsa' = [lsa EXCEPT !.actual = u.addr]
           /\ sock' = [sock EXCEPT !.sd = IF lopt.proto = "udp" THEN @ ELSE re.sd,
                                   !.ctrl = IF lopt.proto = "udp" THEN re.sd ELSE @,
                                   !.dyn = dyn, !.dest = IF next THEN l.current ELSE @,
                                   !.changed = @ \/ next \/ u.changed, !.stale = u.stale]
      /\ UNCHANGED <<lopt, lsig, lpc, accepted>>

ConnectSignal(g) ==
  /\ lpc = "connect" /\ lsig' = g /\ lpc' = "close"
  /\ UNCHANGED <<lopt, rl, lsa, sock, fds, accepted>>

-----------------------------------------------------------------------------
(* The proxies.                                                            *)

\* Any failure of the dialogue, a timeout among them, restarts or ends; a
\* signal that came in meanwhile wins.
ProxyError(g) ==
  /\ lpc \in {"http", "ntlm", "drain", "socks", "request"}
  /\ g \in Signals \cup {"none"}
  /\ lpc = "drain" => g # "none"    \* a timeout ends the drain
  /\ lsig' = IF g # "none" THEN g ELSE IF lopt.proxyRetry THEN "USR1" ELSE "TERM"
  /\ lpc' = "close"
  /\ UNCHANGED <<lopt, rl, lsa, sock, fds, accepted>>

\* establish_http_proxy_passthru: the answer to CONNECT, and, for NTLM, to the
\* second CONNECT; any other status is an error.
HttpStatus(status) ==
  /\ \/ lpc = "http" /\ status = 200 /\ lpc' = "drain"
     \/ lpc = "http" /\ status = 407 /\ lopt.auth = "ntlm" /\ lpc' = "ntlm"
     \/ lpc = "ntlm" /\ status = 200 /\ lpc' = "drain"
  /\ UNCHANGED <<lopt, rl, lsa, sock, fds, lsig, accepted>>

\* The rest of the header is tossed out, the start of the stream is kept.
HttpDrained ==
  /\ lpc = "drain" /\ lpc' = "finish"
  /\ UNCHANGED <<lopt, rl, lsa, sock, fds, lsig, accepted>>

\* socks_handshake.
SocksHandshake ==
  /\ lpc = "socks" /\ lpc' = "request"
  /\ UNCHANGED <<lopt, rl, lsa, sock, fds, lsig, accepted>>

\* recv_socks_reply: the bytes of a good reply with an address of type atyp, and
\* those that it reads.  The length byte of a name counts as one of its bytes.
ReplyBytes(atyp, n) == 4 + (CASE atyp = "ipv4" -> 4 [] atyp = "ipv6" -> 16 [] atyp = "name" -> 1 + n) + 2
recv_socks_reply(atyp, n) == 4 + (CASE atyp = "ipv4" -> 4 [] atyp = "ipv6" -> 16 [] atyp = "name" -> n) + 2

\* After establish_socks_proxy_udpassoc the destination takes the proxy's place.
Redirected(s) ==
  LET to == [rl EXCEPT !.current = s.dest]
  IN  [s EXCEPT !.host = remote_list_host(to), !.port = remote_list_port(to), !.did = FALSE]

SocksReply(atyp) ==
  /\ lpc = "request"
  /\ LET left == ReplyBytes(atyp, 4) - recv_socks_reply(atyp, 4)
     IN  \/ /\ lopt.proto = "client"                     \* establish_socks_proxy_passthru
            /\ sock' = [sock EXCEPT !.left = left]
            /\ lpc' = "finish" /\ UNCHANGED <<lsa, lsig>>
         \/ /\ lopt.proto = "udp"                        \* establish_socks_proxy_udpassoc
            /\ \E r \in resolve_remote(Redirected(sock),
                                       [remote |-> NoAddr, actual |-> NoAddr], 1) :
                 /\ sock' = r.sock /\ lsa' = r.lsa
                 /\ \/ r.how = "ok" /\ lpc' = "finish" /\ UNCHANGED lsig
                    \/ r.how = "fail" /\ lpc' = "close" /\ lsig' = "USR1"
                    \/ r.how = "fatal" /\ lpc' = "exit" /\ UNCHANGED lsig
  /\ fds' = IF lpc' = "exit" THEN {} ELSE fds
  /\ UNCHANGED <<lopt, rl, accepted>>

-----------------------------------------------------------------------------
(* The link in use.                                                        *)

\* mutant: the new address of the peer is not remembered.
Finish_Forget ==
  /\ lpc = "finish" /\ lpc' = "up" /\ accepted' = {}
  /\ UNCHANGED <<lopt, rl, lsa, sock, fds, lsig>>

\* The end of link_socket_init_phase2.
Finish ==
  /\ lpc = "finish" /\ lpc' = "up" /\ accepted' = {}
  /\ lsa' = IF sock.changed THEN [lsa EXCEPT !.remote.ip = lsa.actual.ip] ELSE lsa
  /\ UNCHANGED <<lopt, rl, sock, fds, lsig>>

\* initialization_sequence_completed, of a client.
Initialized ==
  /\ lpc = "up" /\ lopt.proto # "server" /\ lopt.n > 1 /\ accepted # {}
  /\ rl' = [rl EXCEPT !.no_advance = TRUE]
  /\ UNCHANGED <<lopt, lsa, sock, fds, lsig, lpc, accepted>>

addr_match_proto(a, b) == a.ip = b.ip /\ (lopt.proto = "udp" => a.port = b.port)

\* mutant: --float is not asked for.
link_socket_verify_incoming_addr_Any(a) == addr_defined(a)

link_socket_verify_incoming_addr(a) ==
  /\ addr_defined(a)
  /\ lopt.float \/ ~addr_defined(lsa.remote) \/ addr_match_proto(a, lsa.remote)

\* process_incoming_link: a packet from a that passes authentication.
Receive(a) ==
  /\ lpc = "up" /\ lopt.mode # "listen"
  /\ lopt.proto # "udp" => a = lsa.actual      \* link_socket_read
  /\ link_socket_verify_incoming_addr(a)
  /\ accepted' = accepted \cup {a}
  /\ LET new == /\ ~sock.established \/ ~addr_match_proto(a, lsa.actual)
                /\ lopt.float \/ ~addr_defined(lsa.remote) \/ addr_match_proto(a, lsa.remote)
     IN  /\ lsa' = IF new THEN [lsa EXCEPT !.actual = a] ELSE lsa
         /\ sock' = IF new THEN [sock EXCEPT !.established = TRUE] ELSE sock
  /\ UNCHANGED <<lopt, rl, fds, lsig, lpc>>

UpSignal(g) ==
  /\ lpc = "up" /\ lsig' = g /\ lpc' = "close"
  /\ UNCHANGED <<lopt, rl, lsa, sock, fds, accepted>>

\* mutant: the control connection of a SOCKS proxy is not closed.
link_socket_close_Ctrl(s) == fds \ {s.sd}

link_socket_close(s) == fds \ Owned(s)

\* do_close_link_socket, then a restart or the end of the program.
Close ==
  /\ lpc = "close"
  /\ fds' = link_socket_close(sock)
  /\ lsa' = IF lsig = "USR1" /\ lopt.persist THEN lsa ELSE [remote |-> NoAddr, actual |-> NoAddr]
  /\ lpc' = IF lsig = "USR1" THEN "off" ELSE "exit"
  /\ sock' = SOCKETS /\ lsig' = "none" /\ accepted' = {}
  /\ UNCHANGED <<lopt, rl>>

-----------------------------------------------------------------------------
(* Specification.                                                          *)

HostAddrs(e) == [ip : Ips[e.host], port : {e.port}]
ListAddrs == UNION {HostAddrs(Entries[i]) : i \in 1 .. lopt.n}
Callers == ListAddrs \cup Strangers

LinkInit ==
  /\ lopt \in LinkOptions
  /\ rl = [current |-> 0, no_advance |-> FALSE]
  /\ lsa = [remote |-> NoAddr, actual |-> NoAddr] /\ sock = SOCKETS
  /\ fds = IF lopt.mode = "accept_from" THEN {Listener} ELSE {}
  /\ lsig = "none" /\ lpc = "off" /\ accepted = {}

\* What the program does by itself; the rest is the network's and the user's.
Establish ==
  \/ Phase1 \/ Phase2 \/ Listen \/ Connected \/ ConnectFailed
  \/ (\E a \in Callers : AcceptFrom(a))
  \/ ProxyError("none") \/ (\E st \in {200, 407} : HttpStatus(st)) \/ HttpDrained
  \/ SocksHandshake \/ (\E k \in {"ipv4", "ipv6", "name"} : SocksReply(k))
  \/ Finish \/ Close

Environment ==
  \/ \E a \in Callers : Accept(a) \/ Receive(a)
  \/ Initialized \/ Phase2Signal
  \/ \E g \in Signals : AcceptSignal(g) \/ ConnectSignal(g) \/ ProxyError(g) \/ UpSignal(g)

LinkNext == Establish \/ Environment \/ (lpc = "exit" /\ UNCHANGED linkVars)

\* The program goes on by itself: every wait in it has a timeout.
LinkSpec == LinkInit /\ [][LinkNext]_linkVars /\ WF_linkVars(Establish)

-----------------------------------------------------------------------------
(* Properties.                                                             *)

\* Descriptors are accounted for: the open ones are those the socket holds
\* (and the listener it was lent), whatever failed on the way; none is leaked by
\* socket_connect's retries or a rejected accept, none is closed under its owner.
Descriptors ==
  /\ lpc \notin {"off", "exit"} => fds = Owned(sock) \cup (IF lopt.mode = "accept_from" THEN {Listener} ELSE {})
  /\ lpc = "off" => fds = IF lopt.mode = "accept_from" THEN {Listener} ELSE {}
  /\ lpc = "up" => sock.sd # NoFd /\ (lopt.mode = "accept_from" => sock.sd # Listener)
  /\ sock.asserted      \* ASSERT (0) of resolve_remote

\* The peer that the link talks to or tries to reach is one that the
\* configuration names: the proxy while there is one to go through, otherwise
\* an entry of the --remote list, host and port together.
Peers ==
  IF lopt.proxy # "none" /\ (lopt.proto = "client" \/ lpc = "connect") THEN HostAddrs(Proxy) ELSE ListAddrs
RightPeer ==
  /\ lpc \in {"connect", "finish", "up"} /\ lopt.proto # "server" /\ lopt.n > 0 /\ ~lopt.float
  => lsa.actual \in Peers

\* RightPeer holds when no lookup of socket_connect failed and no address was
\* kept by --persist-remote-ip.
RightPeerFresh == ~sock.stale /\ ~lopt.persist => RightPeer

\* Without --float, nothing is let in from an address that --remote or the proxy
\* option does not name, whoever connected and whatever restarts came before.
NoStranger ==
  ~lopt.float /\ lopt.n > 0 =>
    \A a \in accepted : a.ip \in {b.ip : b \in ListAddrs \cup HostAddrs(Proxy)}

\* The server that a client is connected to passes the check of incoming
\* addresses, after any number of retries, changes of address and restarts that
\* keep "the most recently authenticated remote IP address" (openvpn.8).
PeerHeard == lpc = "up" /\ lopt.proto = "client" => link_socket_verify_incoming_addr(lsa.actual)

\* PeerHeard holds without --persist-remote-ip.
PeerHeardFresh == ~lopt.persist => PeerHeard

\* "The client will move on to the next host in the list, in the event of
\* connection failure" (openvpn.8): without a proxy, a TCP client whose attempts
\* keep failing tries every entry again and again.
Rotates ==
  lopt.proto = "client" /\ lopt.proxy = "none" =>
    \/ []<>(lpc = "up") \/ <>(lpc = "exit")
    \/ \A i \in DOMAIN Entries : i <= lopt.n => []<>(rl.current = i)

\* A link, however it came about: no descriptor is lost, the peer is one that the options
\* name, it is the one that is heard, and nobody else is.
LinkInv == Descriptors /\ RightPeerFresh /\ NoStranger /\ PeerHeardFresh
=============================================================================
