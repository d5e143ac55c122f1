------------------------------ MODULE MCClient ------------------------------
(***************************************************************************)
(* Small instances of what makes up a client process: Context (its life    *)
(* over signals and restarts), LinkSocket (two servers, one of them with   *)
(* two addresses, a proxy and a stranger), StreamBuf and Management.  They *)
(* share no state; a behaviour exercises one of them and leaves the others *)
(* as they are when the process has ended.                                 *)
(***************************************************************************)
EXTENDS Context, LinkSocket, StreamBuf, Management

\* the life cycle, on options that exercise each of its branches
BaseOpt ==
    [pull |-> FALSE, up_delay |-> FALSE, persist_tun |-> FALSE,
     persist_key |-> FALSE, persist_remote_ip |-> FALSE, route_delay |-> FALSE,
     daemon |-> FALSE, user |-> FALSE, inetd |-> FALSE, remap |-> None,
     notify |-> FALSE, management |-> FALSE, hold |-> FALSE,
     auth_retry |-> FALSE, secret |-> FALSE, plugins |-> FALSE,
     oneshot |-> FALSE]

\* a client as the sample configuration has it
ClientOpt == [BaseOpt EXCEPT !.pull = TRUE, !.persist_tun = TRUE,
                             !.persist_key = TRUE, !.user = TRUE]

MCOpts ==
    { BaseOpt,
      ClientOpt,
      [ClientOpt EXCEPT !.notify = TRUE, !.persist_remote_ip = TRUE],
      [ClientOpt EXCEPT !.persist_tun = FALSE, !.route_delay = TRUE,
                        !.auth_retry = TRUE],
      [BaseOpt EXCEPT !.secret = TRUE, !.up_delay = TRUE, !.persist_tun = TRUE,
                      !.route_delay = TRUE, !.remap = "HUP"],
      [BaseOpt EXCEPT !.inetd = TRUE, !.plugins = TRUE],
      [BaseOpt EXCEPT !.management = TRUE, !.hold = TRUE, !.daemon = TRUE,
                      !.persist_tun = TRUE, !.plugins = TRUE],
      [BaseOpt EXCEPT !.oneshot = TRUE] }

\* the link
MCEntries == <<[host |-> "alpha", port |-> 11], [host |-> "beta", port |-> 12]>>
MCProxy == [host |-> "proxy", port |-> 80]
MCIps == [h \in {"alpha", "beta", "proxy"} |->
            CASE h = "alpha" -> {1, 2} [] h = "beta" -> {3} [] h = "proxy" -> {9}]
MCStrangers == {[ip |-> 5, port |-> 50]}

Base == [proto |-> "client", mode |-> "default", proxy |-> "none", auth |-> "none", retry |-> 1000,
         persist |-> FALSE, float |-> FALSE, proxyRetry |-> TRUE, n |-> 2]
Retries == {0, 3, 5, 1000}
MCLinkOptions ==
  {[Base EXCEPT !.retry = r, !.persist = b, !.n = n] : r \in Retries, b \in BOOLEAN, n \in 1 .. 2}
  \cup {[Base EXCEPT !.proxy = "http", !.auth = a, !.proxyRetry = b] : a \in {"basic", "ntlm"}, b \in BOOLEAN}
  \cup {[Base EXCEPT !.proxy = "socks", !.proto = p, !.persist = b] : p \in {"udp", "client"}, b \in BOOLEAN}
  \cup {[Base EXCEPT !.proxy = "socks", !.proto = "udp", !.n = 0]}
  \cup {[Base EXCEPT !.proto = "udp", !.persist = b, !.float = c, !.retry = r] : b, c \in BOOLEAN, r \in {0, 1000}}
  \cup {[Base EXCEPT !.proto = "server", !.persist = b, !.n = n] : b \in BOOLEAN, n \in 0 .. 1}
  \cup {[Base EXCEPT !.proto = "server", !.mode = m, !.n = 0] : m \in {"listen", "accept_from"}}

MCPackets == {<<3>>, <<0, 2>>, <<1, 0, 1>>}

MCManOptions == [pw : BOOLEAN, hold : BOOLEAN, over_tunnel : BOOLEAN, sleeps : {FALSE}]
MCCommands == {"secret", "exit", "hold release", "hold on", "hold off", "kill", "log on", "username", "password"}

-----------------------------------------------------------------------------
VARIABLE part   \* the one that is exercised

CtxIdle ==
  /\ opt = BaseOpt /\ pc = "exit"
  /\ sig = NoSig /\ handler = "default" /\ ctx = CtxInit
  /\ release = FALSE /\ used = [async |-> 0, soft |-> 0]
  /\ hist = [raced |-> FALSE, lost |-> FALSE, pushed |-> None]
LinkIdle ==
  /\ lopt = Base /\ rl = [current |-> 0, no_advance |-> FALSE]
  /\ lsa = [remote |-> NoAddr, actual |-> NoAddr] /\ sock = SOCKETS
  /\ fds = {} /\ lsig = "none" /\ lpc = "exit" /\ accepted = {}
StreamIdle ==
  /\ wire = <<>> /\ sb = stream_buf_init /\ conn = "eof"
  /\ written = <<>> /\ whole = TRUE /\ read = <<>>
ManIdle ==
  /\ mset = [pw |-> FALSE, hold |-> FALSE, over_tunnel |-> FALSE, sleeps |-> FALSE]
  /\ man = ManagementInit /\ at = [loop |-> "exit", ret |-> "main", save |-> FALSE]

MCInit ==
  \/ part = "life" /\ ContextInit /\ LinkIdle /\ StreamIdle /\ ManIdle
  \/ part = "link" /\ CtxIdle /\ LinkInit /\ StreamIdle /\ ManIdle
  \/ part = "stream" /\ CtxIdle /\ LinkIdle /\ StreamInit /\ ManIdle
  \/ part = "management" /\ CtxIdle /\ LinkIdle /\ StreamIdle /\ ManInit
MCVars == <<part, ctxVars, linkVars, streamVars, manVars>>
\* the ends: the management interface is closed, the stream is broken or drained
Ended ==
  /\ \/ part = "management" /\ at.loop = "exit"
     \/ part = "stream" /\ (conn # "open" \/ (Len(written) = MaxSent /\ wire = <<>>))
  /\ UNCHANGED MCVars
MCNext ==
  \/ part = "life" /\ CtxNext /\ UNCHANGED <<part, linkVars, streamVars, manVars>>
  \/ part = "link" /\ LinkNext /\ UNCHANGED <<part, ctxVars, streamVars, manVars>>
  \/ part = "stream" /\ StreamNext /\ UNCHANGED <<part, ctxVars, linkVars, manVars>>
  \/ part = "management" /\ ManNext /\ UNCHANGED <<part, ctxVars, linkVars, streamVars>>
  \/ Ended
\* what is not exercised has ended, its fairness holds
MCSpec == MCInit /\ [][MCNext]_MCVars /\ CtxFairness /\ WF_linkVars(Establish)
=============================================================================
