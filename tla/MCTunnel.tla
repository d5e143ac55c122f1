------------------------------ MODULE MCTunnel ------------------------------
(***************************************************************************)
(* Instances of Tunnel: five tunnels, each with the options that interact. *)
(* Beside it Options: what two ends make of their options before they have *)
(* a tunnel.  A behaviour is one or the other.                             *)
(***************************************************************************)
EXTENDS Tunnel, Options

CONSTANT TunnelParts   \* "loop", "options" or both

VARIABLE part          \* the one that is exercised

Plain == [tls |-> FALSE, pull |-> FALSE, tcp |-> FALSE, frag |-> FALSE,
          shaper |-> 0, fast_io |-> FALSE, ping |-> 0, ping_rec |-> 0,
          ping_action |-> "USR1", timer_remote |-> FALSE, inactive |-> 0,
          occ |-> 0, mtu_test |-> 0, exit_notify |-> 0, persist |-> FALSE,
          remote |-> TRUE, refresh |-> 4]

MCConfigs ==
    { \* static key, fragments, pings, consistency check
      [Plain EXCEPT !.frag = TRUE, !.ping = 2, !.occ = 2],
      \* static key, shaped output, exit notification
      [Plain EXCEPT !.shaper = 2, !.ping = 1, !.exit_notify = 2, !.inactive = 3],
      \* static key, --fast-io, a peer whose address is not known yet
      [Plain EXCEPT !.fast_io = TRUE, !.ping = 2, !.ping_rec = 3,
                    !.timer_remote = TRUE, !.remote = FALSE, !.mtu_test = 1],
      \* TLS over UDP, options pulled from the server
      [Plain EXCEPT !.tls = TRUE, !.pull = TRUE, !.ping = 2, !.ping_rec = 4,
                    !.remote = TRUE, !.exit_notify = 1],
      \* TLS over TCP
      [Plain EXCEPT !.tls = TRUE, !.tcp = TRUE, !.ping_rec = 3, !.persist = TRUE] }

\* Options: what a file may begin with, and single options beside it
PlainOptions ==
    [dev |-> "tun", proto |-> "udp", mode |-> "p2p", flags |-> {}, server |-> [net |-> 64, size |-> 16],
     bridge |-> [ip |-> 68, start |-> 72, end |-> 76, size |-> 16], pool |-> [start |-> 80, end |-> 91],
     ifconfig |-> <<>>, route |-> {}, push |-> {}, remotes |-> 0, keepalive |-> <<0, 0>>,
     ping_send |-> 0, ping_rec |-> 0, ping_action |-> "undef", key_direction |-> "bidirectional",
     cipher |-> "BF-CBC", key_method |-> 2, replay_window |-> 64]
Credential == {"ca", "cert", "key"}
BeginsWith(flags) == [PlainOptions EXCEPT !.flags = flags]
SecretEnd == [BeginsWith({"secret"}) EXCEPT !.ifconfig = <<1, 2>>, !.key_direction = "normal"]
TlsEnd(role) == BeginsWith({role, "dh"} \cup Credential)
ServerEnd == BeginsWith({"server", "dh"} \cup Credential)
ClientEnd == [BeginsWith({"client"} \cup Credential) EXCEPT !.remotes = 1]
MCBeginnings ==
    {<<SecretEnd, [SecretEnd EXCEPT !.ifconfig = <<2, 1>>, !.key_direction = "inverse"]>>,
     <<TlsEnd("tls-server"), TlsEnd("tls-client")>>, <<ServerEnd, ClientEnd>>}
MCSingle ==
    {<<"flags", f>> : f \in {"fragment", "comp-lzo", "no-replay", "tls-auth", "tun-mtu", "ifconfig-nowarn",
                             "tls-server", "pull", "secret", "server", "inetd", "connect-retry", "nobind",
                             "client-to-client", "ccd-exclusive", "http-proxy", "auth-user-pass", "pkcs12",
                             "replay-window", "client-cert-not-required"}}
    \cup {<<"proto", p>> : p \in {"tcp", "tcp-server", "tcp-client"}}
    \cup {<<"tap", 5>>, <<"tap", 9>>, <<"dev", "null">>, <<"ifconfig", <<2, 1>> >>, <<"key_direction", "inverse">>,
          <<"key_method", 1>>, <<"cipher", "none">>, <<"mode", "server">>, <<"keepalive", <<10, 60>> >>,
          <<"remotes", 2>>}
With(o, x) ==
    CASE x[1] = "flags" -> [o EXCEPT !.flags = @ \cup {x[2]}]
      [] x[1] = "tap" -> [o EXCEPT !.dev = "tap", !.ifconfig = <<x[2], -4>>]
      [] OTHER -> [o EXCEPT ![x[1]] = x[2]]
MCServers ==
    {[ServerEnd EXCEPT !.dev = d, !.server = [net |-> n, size |-> z], !.flags = @ \cup f, !.keepalive = <<10, 60>>] :
        d \in {"tun", "tap"}, n \in {64, 66}, z \in {1, 4, 8, 16, 32},
        f \in {{}, {"ifconfig-pool-linear"}, {"client-to-client"}}}
    \cup {[With(ServerEnd, <<"tap", 68>>) EXCEPT !.flags = (@ \ {"server"}) \cup {"server-bridge"},
                                                 !.bridge.start = s] : s \in {72, 80}}
    \cup {[TlsEnd("tls-server") EXCEPT !.mode = "server", !.flags = @ \cup {"ifconfig-pool"}]}
MCOptionFiles ==
    {<<With(p[1], x), With(p[2], y)>> : p \in MCBeginnings, x, y \in MCSingle}
    \cup {<<s, ClientEnd>> : s \in MCServers} \cup MCBeginnings

-----------------------------------------------------------------------------
MCInit ==
    /\ part \in TunnelParts
    /\ Init /\ (part # "loop" => cfg = [Plain EXCEPT !.frag = TRUE, !.ping = 2, !.occ = 2])
    /\ OptionsInit /\ (part # "options" => given = <<ServerEnd, ClientEnd>>)

MCNext ==
    \/ part = "loop" /\ Next /\ UNCHANGED <<part, optionVars>>
    \/ part = "options" /\ OptionsNext /\ UNCHANGED <<part, vars>>

MCSpec == MCInit /\ [][MCNext]_<<part, vars, optionVars>>
=============================================================================
