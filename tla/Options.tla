------------------------------- MODULE Options -------------------------------
(***************************************************************************)
(* From options to a configuration (options.c, helper.c): what the helper  *)
(* directives --server, --server-bridge, --client and --keepalive expand   *)
(* to, the checks of options_postprocess before and after that, the pool   *)
(* of addresses a server starts with (pool.c), and the options string by   *)
(* which two ends find out whether they fit.                               *)
(*                                                                         *)
(* Two ends read their files, each with options of its own; a usage error  *)
(* ends the program.  Options without a value are names in a set.  An      *)
(* address is a number in a small range, a netmask the size of its subnet. *)
(* The build is one with crypto, TLS, OCC, fragments, on a Unix system.    *)
(***************************************************************************)
EXTENDS Integers, FiniteSets, Sequences

CONSTANTS
    OptionFiles   \* pairs of option records, of the two ends

VARIABLES
    given,    \* the options as they were parsed, of each end
    conf      \* what became of them: "unread", "usage" or "running" with a configuration

optionVars == <<given, conf>>

OptionEnds == {1, 2}
Has(o, names) == o.flags \cap names # {}
Lacks(o, names) == ~(names \subseteq o.flags)
Tls(o) == Has(o, {"tls-server", "tls-client"})

\* netmask_to_netbits: the address has to be the first of its subnet
SubnetOf(addr, size) == addr - (addr % size)
LastOf(net, size) == net + size - 1

-----------------------------------------------------------------------------
(* helper.c                                                                *)

\* proto tcp means the side that the helper chose
Proto(o, side) == IF o.proto = "tcp" THEN side ELSE o.proto

ServerUsage(o) ==
    \/ Has(o, {"client", "server-bridge", "secret", "ifconfig-pool"})
    \/ o.dev \notin {"tun", "tap"}
    \/ SubnetOf(o.server.net, o.server.size) # o.server.net
    \/ o.server.size = 1 \/ o.server.size > 65536
    \/ o.dev = "tun" /\ o.server.size < 8
    \/ o.dev = "tap" /\ o.server.size <= 4

\* mutant: the smallest subnet keeps the reserve at the end of the pool too.
ServerTun_Reserve(o) ==
    [o EXCEPT !.ifconfig = <<o.server.net + 1, o.server.net + 2>>,
              !.pool = [start |-> o.server.net + 4, end |-> LastOf(o.server.net, o.server.size) - 4],
              !.route = {<<o.server.net, o.server.size>>},
              !.push = @ \cup IF Has(o, {"client-to-client"}) THEN {<<"route", o.server.net>>}
                              ELSE IF Has(o, {"ifconfig-pool-linear"}) THEN {} ELSE {<<"route", o.server.net + 1>>}]

ServerTun(o) ==
    [o EXCEPT !.ifconfig = <<o.server.net + 1, o.server.net + 2>>,
              !.pool = [start |-> o.server.net + 4,
                        end |-> LastOf(o.server.net, o.server.size) - (IF o.server.size = 8 THEN 0 ELSE 4)],
              !.route = {<<o.server.net, o.server.size>>},
              !.push = @ \cup IF Has(o, {"client-to-client"}) THEN {<<"route", o.server.net>>}
                              ELSE IF Has(o, {"ifconfig-pool-linear"}) THEN {} ELSE {<<"route", o.server.net + 1>>}]

\* mutant: the pool begins with the server's own address.
ServerTap_First(o) ==
    [o EXCEPT !.ifconfig = <<o.server.net + 1, -o.server.size>>,
              !.pool = [start |-> o.server.net + 1, end |-> LastOf(o.server.net, o.server.size) - 1],
              !.flags = @ \cup {"pool-netmask"},
              !.push = @ \cup {<<"route-gateway", o.server.net + 1>>}]

ServerTap(o) ==
    [o EXCEPT !.ifconfig = <<o.server.net + 1, -o.server.size>>,
              !.pool = [start |-> o.server.net + 2, end |-> LastOf(o.server.net, o.server.size) - 1],
              !.flags = @ \cup {"pool-netmask"},
              !.push = @ \cup {<<"route-gateway", o.server.net + 1>>}]

BridgeUsage(o) ==
    \/ Has(o, {"client", "ifconfig-pool", "secret"})
    \/ o.dev # "tap"
    \/ \E a, b \in {o.bridge.ip, o.bridge.start, o.bridge.end} :
         SubnetOf(a, o.bridge.size) # SubnetOf(b, o.bridge.size)

Bridge(o) ==
    [o EXCEPT !.pool = [start |-> o.bridge.start, end |-> o.bridge.end],
              !.flags = @ \cup {"pool-netmask"},
              !.push = @ \cup {<<"route-gateway", o.bridge.ip>>}]

ServerMode(o) ==
    [o EXCEPT !.mode = "server", !.flags = @ \cup {"tls-server", "ifconfig-pool"}, !.proto = Proto(o, "tcp-server")]

\* helper_client_server: the expanded options; what makes it give up is HelperUsage
helper_client_server(o) ==
    IF Has(o, {"server"}) THEN ServerMode(IF o.dev = "tun" THEN ServerTun(o) ELSE ServerTap(o))
    ELSE IF Has(o, {"server-bridge"}) THEN ServerMode(Bridge(o))
    ELSE IF Has(o, {"client"})
    THEN [o EXCEPT !.flags = @ \cup {"pull", "tls-client"}, !.proto = Proto(o, "tcp-client")]
    ELSE o

HelperUsage(o) ==
    \/ Has(o, {"server"}) /\ ServerUsage(o)
    \/ ~Has(o, {"server"}) /\ Has(o, {"server-bridge"}) /\ BridgeUsage(o)
    \/ ~Has(o, {"server", "server-bridge"}) /\ Has(o, {"client"}) /\ o.key_method # 2
    \/ helper_client_server(o).proto = "tcp"

KeepaliveUsage(o) ==
    /\ o.keepalive # <<0, 0>>
    /\ \/ o.keepalive[1] <= 0 \/ o.keepalive[2] <= 0
       \/ o.keepalive[1] * 2 > o.keepalive[2]
       \/ o.ping_send # 0 \/ o.ping_rec # 0

helper_keepalive(o) ==
    IF o.keepalive = <<0, 0>> THEN o
    ELSE [o EXCEPT !.ping_send = o.keepalive[1], !.ping_action = "restart",
                   !.ping_rec = IF o.mode = "server" THEN 2 * o.keepalive[2] ELSE o.keepalive[2],
                   !.push = @ \cup IF o.mode # "server" THEN {}
                                   ELSE {<<"ping", o.keepalive[1]>>, <<"ping-restart", o.keepalive[2]>>}]

-----------------------------------------------------------------------------
(* The checks of options_postprocess.                                      *)

\* Before the helpers: proto tcp is none of the three kinds yet.
EarlyUsage(o) ==
    \/ o.dev = "none"
    \/ {"daemon", "inetd"} \subseteq o.flags
    \/ Has(o, {"inetd"}) /\ (Has(o, {"local"}) \/ o.remotes # 0 \/ o.proto = "tcp-client")
    \/ Has(o, {"inetd-nowait"}) /\ (o.proto # "tcp-server" \/ ~Tls(o) \/ o.dev # "tap")
    \/ Has(o, {"connect-retry"}) /\ o.proto # "tcp-client"
    \/ {"tun-mtu", "link-mtu"} \subseteq o.flags
    \/ Has(o, {"mtu-test"}) /\ o.proto # "udp"

\* (The comparisons of --local and --remote with each other and with --ifconfig are left out.)
AddressUsage(o) ==
    \/ o.ifconfig # <<>> /\ o.ifconfig[1] = o.ifconfig[2]
    \/ {"lport", "nobind"} \subseteq o.flags
    \/ o.remotes = 0 /\ Has(o, {"nobind"})
    \/ Has(o, {"management-hold", "management-query-passwords"}) /\ ~Has(o, {"management"})

ProtoUsage(o) ==
    \/ o.proto # "udp" /\ Has(o, {"fragment", "explicit-exit-notify"})
    \/ o.proto = "tcp-client" /\ o.remotes = 0
    \/ Has(o, {"http-proxy"}) /\ (o.proto # "tcp-client" \/ Has(o, {"socks-proxy"}))
    \/ Has(o, {"socks-proxy"}) /\ o.proto = "tcp-server"
    \/ o.proto = "tcp-server" /\ o.remotes > 1

NotInServerMode ==
    {"pull", "nobind", "http-proxy", "socks-proxy", "tun-ipv6", "shaper", "inetd", "ipchange",
     "explicit-exit-notify", "redirect-gateway", "route-delay", "up-delay", "auth-user-pass"}

OnlyInServerMode ==
    {"ifconfig-pool", "ifconfig-pool-persist", "hash-size", "learn-address", "client-connect",
     "client-disconnect", "tmp-dir", "client-config-dir", "ccd-exclusive", "client-to-client",
     "duplicate-cn", "connect-freq", "client-cert-not-required", "username-as-common-name",
     "auth-user-pass-verify", "ifconfig-pool-linear"}

ServerModeUsage(o) ==
    \/ o.dev \notin {"tun", "tap"} \/ o.proto \notin {"udp", "tcp-server"} \/ o.remotes # 0
    \/ Lacks(o, {"tls-server"}) \/ Has(o, NotInServerMode) \/ o.key_method # 2
    \/ o.proto # "udp" /\ Has(o, {"connect-freq"})
    \/ o.dev # "tap" /\ Has(o, {"pool-netmask"})
    \/ Has(o, {"ifconfig-pool-persist"}) /\ ~Has(o, {"ifconfig-pool"})
    \/ Has(o, {"ccd-exclusive"}) /\ ~Has(o, {"client-config-dir"})
    \/ Has(o, {"client-cert-not-required", "username-as-common-name"}) /\ ~Has(o, {"auth-user-pass-verify", "plugin"})

ReplayUsage(o) == Has(o, {"replay-window"}) /\ (o.proto # "udp" \/ Has(o, {"no-replay"}))

\* What may only be given in TLS mode, the options that change a default among them.
OnlyInTlsMode ==
    {"ca", "dh", "cert", "key", "pkcs12", "tls-cipher", "tls-verify", "tls-remote", "tls-timeout", "reneg-sec",
     "hand-window", "tran-window", "tls-auth", "single-session", "tls-exit", "crl-verify", "ns-cert-type", "pull"}

Credentials(o) ==
    IF Has(o, {"pkcs12"}) THEN ~Has(o, {"ca", "cert", "key"})
    ELSE /\ Has(o, {"ca"})
         /\ \/ {"cert", "key"} \subseteq o.flags
            \/ Has(o, {"pull"}) /\ ~Has(o, {"cert", "key"}) /\ Has(o, {"auth-user-pass"})

TlsUsage(o) ==
    \/ Cardinality(o.flags \cap {"tls-server", "tls-client", "secret"}) > 1
    \/ Has(o, {"tls-server"}) /\ ~Has(o, {"dh"})
    \/ Tls(o) /\ ~Credentials(o)
    \/ ~Tls(o) /\ (Has(o, OnlyInTlsMode) \/ o.key_method # 2)
    \/ Has(o, {"auth-user-pass"}) /\ ~Has(o, {"pull"})

\* The end of options_postprocess: no replay window on a stream, a first --ping-restart
\* for a client that has not pulled one yet.
Defaults(o) ==
    [o EXCEPT !.replay_window = IF o.proto = "udp" THEN @ ELSE 0,
              !.ping_rec = IF Has(o, {"pull"}) /\ o.ping_action = "undef" /\ o.proto = "udp" THEN 120 ELSE @,
              !.ping_action = IF Has(o, {"pull"}) /\ o.ping_action = "undef" /\ o.proto = "udp"
                              THEN "restart" ELSE @]

options_postprocess(o) ==
    LET s == helper_client_server(o)
        k == helper_keepalive(s)
    IN  IF \/ EarlyUsage(o) \/ HelperUsage(o) \/ KeepaliveUsage(s)
           \/ AddressUsage(k) \/ ProtoUsage(k) \/ ReplayUsage(k) \/ TlsUsage(k)
           \/ IF k.mode = "server" THEN ServerModeUsage(k) ELSE Has(k, OnlyInServerMode)
        THEN [st |-> "usage", o |-> o] ELSE [st |-> "running", o |-> Defaults(k)]

-----------------------------------------------------------------------------
(* The options string, as a record of what it says: of this end, or of the *)
(* end it expects to talk to.                                              *)

proto_remote(p, remote) ==
    IF ~remote THEN p ELSE CASE p = "tcp-server" -> "tcp-client" [] p = "tcp-client" -> "tcp-server" [] OTHER -> p

\* mutant: both ends of a key direction are called the same.
keydirection2ascii_Same(kd, remote) == IF kd = "bidirectional" THEN "" ELSE IF kd = "normal" THEN "0" ELSE "1"

keydirection2ascii(kd, remote) ==
    IF kd = "bidirectional" THEN "" ELSE IF (kd = "normal") = remote THEN "1" ELSE "0"

\* mutant: both ends name their own address first.
ifconfig_options_string_Own(o, remote) ==
    IF o.ifconfig = <<>> \/ Has(o, {"ifconfig-nowarn"}) THEN <<>>
    ELSE CASE o.dev = "tun" -> o.ifconfig
           [] o.dev = "tap" -> <<SubnetOf(o.ifconfig[1], -o.ifconfig[2]), o.ifconfig[2]>>
           [] OTHER -> <<-1, -1>>

ifconfig_options_string(o, remote) ==
    IF o.ifconfig = <<>> \/ Has(o, {"ifconfig-nowarn"}) THEN <<>>
    ELSE CASE o.dev = "tun" -> IF remote THEN o.ifconfig ELSE <<o.ifconfig[2], o.ifconfig[1]>>
           [] o.dev = "tap" -> <<SubnetOf(o.ifconfig[1], -o.ifconfig[2]), o.ifconfig[2]>>
           [] OTHER -> <<-1, -1>>

\* The options that are named if they are there; those under crypto only if there is any.
Named(o) ==
    o.flags \cap ({"tun-ipv6", "comp-lzo", "fragment"}
                    \cup (IF Tls(o) \/ Has(o, {"secret"}) THEN {"secret", "no-replay", "no-iv"} ELSE {})
                    \cup (IF Tls(o) THEN {"tls-auth"} ELSE {}))

TlsRole(o, remote) ==
    IF ~Tls(o) THEN "" ELSE IF (Has(o, {"tls-client"})) = remote THEN "tls-server" ELSE "tls-client"

\* The sizes of packets follow from the other options and from --tun-mtu or --link-mtu.
options_string(o, remote) ==
    [dev |-> o.dev, proto |-> proto_remote(o.proto, remote), named |-> Named(o),
     mtu |-> o.flags \cap {"tun-mtu", "link-mtu"},
     ifconfig |-> IF o.mode = "p2p" /\ ~Has(o, {"pull"}) THEN ifconfig_options_string(o, remote) ELSE <<>>,
     keydir |-> keydirection2ascii(o.key_direction, remote),
     cipher |-> IF Tls(o) \/ Has(o, {"secret"}) THEN o.cipher ELSE "",
     key_method |-> IF Tls(o) THEN o.key_method ELSE 0,
     role |-> TlsRole(o, remote)]

\* options_cmp_equal, at end i, of what the other end sent
options_cmp_equal(i) == options_string(conf[3 - i].o, FALSE) = options_string(conf[i].o, TRUE)

-----------------------------------------------------------------------------
(* The pool of a server (multi_init, pool.c).                              *)

PoolBase(o) == IF o.dev = "tap" \/ Has(o, {"ifconfig-pool-linear"}) THEN o.pool.start ELSE SubnetOf(o.pool.start, 4)
PoolStep(o) == IF o.dev = "tap" \/ Has(o, {"ifconfig-pool-linear"}) THEN 1 ELSE 4
ifconfig_pool_init(o) ==
    [base |-> PoolBase(o), step |-> PoolStep(o),
     size |-> (LastOf(SubnetOf(o.pool.end, PoolStep(o)), PoolStep(o)) + 1 - PoolBase(o)) \div PoolStep(o)]

\* The addresses that ifconfig_pool_acquire gives with handle n: of the server's end and of the client's.
PoolPair(o, n) ==
    LET p == ifconfig_pool_init(o)
    IN  IF p.step = 4 THEN {p.base + 4 * n + 1, p.base + 4 * n + 2} ELSE {p.base + n}

-----------------------------------------------------------------------------
OptionsInit ==
    /\ given \in OptionFiles
    /\ conf = [i \in OptionEnds |-> [st |-> "unread", o |-> given[i]]]

Postprocess(i) ==
    /\ conf[i].st = "unread"
    /\ conf' = [conf EXCEPT ![i] = options_postprocess(given[i])]
    /\ UNCHANGED given

OptionsNext == \E i \in OptionEnds : Postprocess(i)
OptionsSpec == OptionsInit /\ [][OptionsNext]_optionVars

-----------------------------------------------------------------------------
(* Properties.                                                             *)

\* What comes through the checks meets the assertions made of it later: one source of keys
\* (options_string), a known protocol (proto_remote), a device the server can serve
\* (multi_init), a pool that is not empty nor too large (ifconfig_pool_init).  The range given
\* to --server-bridge is nowhere looked at.
Checked ==
    \A i \in OptionEnds : conf[i].st = "running" =>
        LET o == conf[i].o IN
            /\ Cardinality(o.flags \cap {"tls-server", "tls-client", "secret"}) <= 1
            /\ o.proto \in {"udp", "tcp-server", "tcp-client"}
            /\ o.mode = "server" => o.dev \in {"tun", "tap"}
            /\ Has(o, {"ifconfig-pool"}) /\ ~Has(o, {"server-bridge"}) =>
                 o.pool.start <= o.pool.end /\ o.pool.end - o.pool.start < 65536

\* The pool that --server leads to has a place for a client; the addresses of any two clients
\* differ, are in the subnet that the server's route leads to, and are not the server's own,
\* nor, on a tap device, those that stand for the network and for everybody in it.
PoolApart ==
    \A i \in OptionEnds : conf[i].st = "running" /\ Has(conf[i].o, {"server"}) =>
        LET o == conf[i].o
            handles == 0 .. ifconfig_pool_init(o).size - 1
            taken == IF o.dev = "tun" THEN {o.ifconfig[1], o.ifconfig[2]}
                     ELSE {o.ifconfig[1], o.server.net, LastOf(o.server.net, o.server.size)}
        IN  /\ handles # {}
            /\ \A n \in handles :
                 /\ PoolPair(o, n) \subseteq (o.server.net .. LastOf(o.server.net, o.server.size)) \ taken
                 /\ \A n2 \in handles \ {n} : PoolPair(o, n) \cap PoolPair(o, n2) = {}

\* Which options have to agree, after the comment on options_string.
SaysIfconfig(o) == o.mode = "p2p" /\ ~Has(o, {"pull", "ifconfig-nowarn"}) /\ o.ifconfig # <<>>
Crypto(o) == IF Tls(o) THEN "tls" ELSE IF Has(o, {"secret"}) THEN "secret" ELSE "none"
Fits(a, b) ==
    /\ a.dev = b.dev
    /\ \A f \in {"tun-mtu", "link-mtu", "tun-ipv6", "comp-lzo", "fragment"} : Has(a, {f}) = Has(b, {f})
    /\ {a.proto, b.proto} \in {{"udp"}, {"tcp-server", "tcp-client"}}
    /\ SaysIfconfig(a) = SaysIfconfig(b)
    /\ SaysIfconfig(a) /\ a.dev = "tun" => a.ifconfig = <<b.ifconfig[2], b.ifconfig[1]>>
    /\ SaysIfconfig(a) /\ a.dev = "tap" =>
         /\ a.ifconfig[2] = b.ifconfig[2]
         /\ SubnetOf(a.ifconfig[1], -a.ifconfig[2]) = SubnetOf(b.ifconfig[1], -a.ifconfig[2])
    /\ Crypto(a) = Crypto(b)
    /\ Crypto(a) # "none" => a.cipher = b.cipher /\ \A f \in {"no-replay", "no-iv"} : Has(a, {f}) = Has(b, {f})
    /\ Crypto(a) = "tls" => /\ Has(a, {"tls-server"}) # Has(b, {"tls-server"})
                            /\ Has(a, {"tls-auth"}) = Has(b, {"tls-auth"}) /\ a.key_method = b.key_method
    /\ {a.key_direction, b.key_direction} \in {{"bidirectional"}, {"normal", "inverse"}}

\* Two ends that run find their options consistent exactly if they fit, and both find the same.
OccAgrees ==
    (\A i \in OptionEnds : conf[i].st = "running") =>
        \A i \in OptionEnds : options_cmp_equal(i) = Fits(conf[1].o, conf[2].o)

\* What becomes of the options of two ends.
OptionsInv == Checked /\ PoolApart /\ OccAgrees
=============================================================================
