------------------------------- MODULE Route -------------------------------
(***************************************************************************)
(* The route list of route.c and the kernel's routing table it edits: the  *)
(* options resolved against the gateway of the moment, one external route  *)
(* command at a time, --redirect-gateway and its undoing, the wait for the *)
(* interface of --route-delay, a device kept over a restart, commands that *)
(* fail, and an administrator or DHCP client editing the table meanwhile.  *)
(*                                                                         *)
(* A prefix (network and netmask) is the set of addresses it covers: the   *)
(* default route is Address, its def1 halves are Lower and Upper.          *)
(***************************************************************************)
EXTENDS Naturals, Sequences, FiniteSets, SequencesExt

CONSTANTS Lower, Upper,        \* the addresses with first bit 0 and 1
          Endpoint, OnLink,    \* the VPN gateway; no gateway (a directly attached route)
          NoAddr,              \* an address that is not defined
          vpn_gateway, net_gateway, remote_host,   \* the keywords of --route
          Tables,              \* initial routing tables
          OptionLists,         \* the --route and --redirect-gateway options of a session
          Remotes,             \* addresses of the --remote servers
          OtherGateway,        \* the gateway a DHCP client may switch to
          RoutePlatforms,      \* of "linux", "bsd" and "windows"
          MAX_ROUTES,
          MaxFailures, MaxEdits, MaxSessions

Address == Lower \cup Upper
Entry(net, gw) == [net |-> net, gw |-> gw]

VARIABLES rt,          \* the kernel's routing table, a set of entries
          foreign,     \* what the table would hold without OpenVPN
          rl,          \* struct route_list in c1
          rcmds,       \* route commands still to run in this call
          rphase,      \* "closed", "wait", "adding", "up", "deleting", "aborted"
          ropt,        \* the session's options
          rremote,     \* the peer address of the current link socket
          rplatform,
          adapterUp,   \* the tun interface has its address
          failed,      \* number of commands that have failed
          clash,       \* the default route was moved while a list that replaces it was in use
          redits, rsessions

routeVars == <<rt, foreign, rl, rcmds, rphase, ropt, rremote, rplatform, adapterUp, failed, clash, redits, rsessions>>
---------------------------------------------------------------------------
\* CLEAR (*rl)
ClearRouteList ==
    [remote_host |-> NoAddr, net_gateway |-> NoAddr, remote_endpoint |-> NoAddr,
     redirect |-> FALSE, local |-> FALSE, def1 |-> FALSE,
     routes |-> <<>>, routes_added |-> FALSE, did_redirect |-> FALSE]

DefaultRoutes == {e.gw : e \in {r \in rt : r.net = Address}}

\* get_default_gateway on Linux: the first line of /proc/net/route for 0.0.0.0/0
ProcNetRoute == IF DefaultRoutes = {} THEN {NoAddr} ELSE DefaultRoutes

\* on Windows: a row of the forward table, which the system may fail to return
ForwardTable == {NoAddr} \cup DefaultRoutes

\* on the BSDs: the answer to RTM_GET, which names a gateway only if there is one
RoutingSocket == IF DefaultRoutes = {OnLink} THEN {NoAddr} ELSE {NoAddr} \cup DefaultRoutes

DefaultGateways == CASE rplatform = "linux" -> ProcNetRoute
                     [] rplatform = "windows" -> ForwardTable
                     [] rplatform = "bsd" -> RoutingSocket

\* get_special_addr: a keyword stands for an address of rl->spec, perhaps undefined
Special(l, word) ==
    CASE word = vpn_gateway -> l.remote_endpoint
      [] word = net_gateway -> l.net_gateway
      [] word = remote_host -> l.remote_host

SpecialWords == {vpn_gateway, net_gateway, remote_host}

\* init_route: network, netmask (a host by default) and gateway (the VPN endpoint by default)
RouteNet(l, o) == IF o.net \in SpecialWords THEN {Special(l, o.net)} ELSE o.net
RouteGateway(l, o) == IF o.gw = NoAddr THEN l.remote_endpoint
                      ELSE IF o.gw \in SpecialWords THEN Special(l, o.gw) ELSE o.gw
InitRoute(l, o) == [net |-> RouteNet(l, o), gw |-> RouteGateway(l, o), defined |-> TRUE]
\* mutant: an undefined special address is not noticed
RouteResolves_Any(l, o) == TRUE
RouteResolves(l, o) == RouteNet(l, o) # {NoAddr} /\ RouteGateway(l, o) # NoAddr

\* init_route_list: the special addresses, then the options that resolve, in order
InitSpec(remote, gw, endpoint) ==
    [ClearRouteList EXCEPT !.remote_host = remote, !.net_gateway = gw, !.remote_endpoint = endpoint,
                           !.redirect = ropt'.redirect, !.local = ropt'.local, !.def1 = ropt'.def1]
InitRouteList(l) ==
    [l EXCEPT !.routes = [i \in 1..Len(SelectSeq(ropt'.routes, LAMBDA o : RouteResolves(l, o))) |->
                             InitRoute(l, SelectSeq(ropt'.routes, LAMBDA o : RouteResolves(l, o))[i])]]
---------------------------------------------------------------------------
\* Sequences of external commands.  idx is the list entry whose r->defined the
\* result of an addition is stored in, 0 for the temporary of add_route3.
AddRoute(net, gw, idx) == [op |-> "add", net |-> net, gw |-> gw, idx |-> idx]
DelRoute(net, gw, idx) == [op |-> "del", net |-> net, gw |-> gw, idx |-> idx]

CanRedirect(l) == /\ l.redirect
                  /\ NoAddr \notin {l.remote_endpoint, l.net_gateway, l.remote_host}

\* redirect_default_route_to_vpn
\* mutant: the default route is replaced before the host route exists
RedirectCommands_Late(l) ==
    (IF l.def1 THEN <<AddRoute(Lower, l.remote_endpoint, 0), AddRoute(Upper, l.remote_endpoint, 0)>>
     ELSE <<DelRoute(Address, l.net_gateway, 0), AddRoute(Address, l.remote_endpoint, 0)>>)
    \o (IF l.local THEN <<>> ELSE <<AddRoute({l.remote_host}, l.net_gateway, 0)>>)
\* mutant: def1 adds only the first half
RedirectCommands_Half(l) ==
    (IF l.local THEN <<>> ELSE <<AddRoute({l.remote_host}, l.net_gateway, 0)>>)
    \o (IF l.def1 THEN <<AddRoute(Lower, l.remote_endpoint, 0)>>
        ELSE <<DelRoute(Address, l.net_gateway, 0), AddRoute(Address, l.remote_endpoint, 0)>>)
RedirectCommands(l) ==
    (IF l.local THEN <<>> ELSE <<AddRoute({l.remote_host}, l.net_gateway, 0)>>)
    \o (IF l.def1 THEN <<AddRoute(Lower, l.remote_endpoint, 0), AddRoute(Upper, l.remote_endpoint, 0)>>
        ELSE <<DelRoute(Address, l.net_gateway, 0), AddRoute(Address, l.remote_endpoint, 0)>>)

\* undo_redirect_default_route_to_vpn
\* mutant: the original default route is not put back
UndoCommands_Forget(l) ==
    (IF l.local THEN <<>> ELSE <<DelRoute({l.remote_host}, l.net_gateway, 0)>>)
    \o (IF l.def1 THEN <<DelRoute(Lower, l.remote_endpoint, 0), DelRoute(Upper, l.remote_endpoint, 0)>>
        ELSE <<DelRoute(Address, l.remote_endpoint, 0)>>)
UndoCommands(l) ==
    (IF l.local THEN <<>> ELSE <<DelRoute({l.remote_host}, l.net_gateway, 0)>>)
    \o (IF l.def1 THEN <<DelRoute(Lower, l.remote_endpoint, 0), DelRoute(Upper, l.remote_endpoint, 0)>>
        ELSE <<DelRoute(Address, l.remote_endpoint, 0), AddRoute(Address, l.net_gateway, 0)>>)

\* add_routes: the redirection first, then each route of the list once
AddCommands(l) ==
    (IF CanRedirect(l) THEN RedirectCommands(l) ELSE <<>>)
    \o (IF l.routes_added THEN <<>>
        ELSE [i \in 1..Len(l.routes) |-> AddRoute(l.routes[i].net, l.routes[i].gw, i)])
Added(l) == [l EXCEPT !.routes_added = TRUE, !.did_redirect = @ \/ CanRedirect(l)]

\* delete_routes: the routes in reverse, those whose addition succeeded, then the redirection
DeleteCommands(l) ==
    (IF l.routes_added
     THEN Reverse(SelectSeq([i \in 1..Len(l.routes) |-> DelRoute(l.routes[i].net, l.routes[i].gw, i)],
                            LAMBDA c : l.routes[c.idx].defined))
     ELSE <<>>)
    \o (IF l.did_redirect THEN UndoCommands(l) ELSE <<>>)
---------------------------------------------------------------------------
\* windows_route_find_if_index: the gateway is on the subnet of the tun adapter,
\* once it has its address, or of another one
Reachable(gw) == gw # OnLink /\ (gw = Endpoint => adapterUp)

\* external: what the operating system's route command does.  An addition is
\* refused for an entry that exists (on Windows, that exists with this gateway);
\* a deletion is by prefix, on Windows by prefix and gateway.
Accepts(net, gw) ==
    /\ Reachable(gw)
    /\ IF rplatform # "windows" THEN \A e \in rt : e.net # net ELSE Entry(net, gw) \notin rt
Matching(net, gw) == {e \in rt : e.net = net /\ (rplatform # "windows" \/ e.gw = gw)}

\* the status of the addition, stored in the list's entry
\* mutant: an addition that failed still counts as ours
SetDefined_Always(i, ok) == rl
SetDefined(i, ok) == IF i = 0 THEN rl ELSE [rl EXCEPT !.routes[i].defined = ok]

\* add_route: a host route to its own gateway is left out
AddStep(c) ==
    \/ /\ c.net = {c.gw}
       /\ rl' = SetDefined(c.idx, FALSE)
       /\ UNCHANGED <<rt, failed>>
    \/ /\ c.net # {c.gw} /\ Accepts(c.net, c.gw)
       /\ rt' = rt \cup {Entry(c.net, c.gw)}
       /\ rl' = SetDefined(c.idx, TRUE)
       /\ UNCHANGED failed
    \/ /\ c.net # {c.gw}
       /\ ~Accepts(c.net, c.gw) \/ failed < MaxFailures
       /\ rl' = SetDefined(c.idx, FALSE)
       /\ failed' = IF Accepts(c.net, c.gw) \/ c.idx = 0 THEN failed + 1 ELSE failed
       /\ UNCHANGED rt

\* delete_route: the status is not looked at
DelStep(c) ==
    /\ \/ \E e \in Matching(c.net, c.gw) : rt' = rt \ {e} /\ UNCHANGED failed
       \/ /\ Matching(c.net, c.gw) = {} \/ failed < MaxFailures
          /\ failed' = failed + 1
          /\ UNCHANGED rt
    /\ UNCHANGED rl

RunCommand ==
    /\ rcmds # <<>> /\ rphase \in {"adding", "deleting"}
    /\ IF Head(rcmds).op = "add" THEN AddStep(Head(rcmds)) ELSE DelStep(Head(rcmds))
    /\ rcmds' = Tail(rcmds)
    /\ UNCHANGED <<foreign, rphase, ropt, rremote, rplatform, adapterUp, clash, redits, rsessions>>
---------------------------------------------------------------------------
BeginAdd(l) == /\ rcmds' = AddCommands(l) /\ rl' = Added(l) /\ rphase' = "adding"

\* add_route_to_option_list stops at MAX_ROUTES; init_route_list asserts fewer
RoutesFit(o) == Len(o.routes) < MAX_ROUTES

\* do_open_tun with no device: resolve the list, open and configure the device
\* (some platforms give it its address later), add the routes now or after --route-delay
OpenTun ==
    /\ rphase = "closed" /\ rsessions < MaxSessions
    /\ rsessions' = rsessions + 1
    /\ ropt' \in OptionLists
    /\ rremote' \in Remotes
    /\ IF ~RoutesFit(ropt')
       THEN /\ rphase' = "aborted"
            /\ UNCHANGED <<rl, rcmds, adapterUp>>
       ELSE \E gw \in DefaultGateways, endpoint \in {Endpoint, NoAddr}, host \in {rremote', NoAddr} :
              \E l \in {InitRouteList(InitSpec(host, gw, endpoint))} :
                IF ropt'.delay
                THEN rphase' = "wait" /\ rl' = l /\ rcmds' = <<>> /\ adapterUp' = (rplatform # "windows")
                ELSE BeginAdd(l) /\ adapterUp' = TRUE
    /\ UNCHANGED <<rt, foreign, rplatform, failed, clash, redits>>

\* Windows: the adapter gets its address from the driver's DHCP server
AdapterComesUp ==
    /\ rphase = "wait" /\ ~adapterUp
    /\ adapterUp' = TRUE
    /\ UNCHANGED <<rt, foreign, rl, rcmds, rphase, ropt, rremote, rplatform, failed, clash, redits, rsessions>>

\* test_routes: the adapter is up and every gateway is on some adapter's subnet
TestRoutes == /\ adapterUp
              /\ \A i \in 1..Len(rl.routes) : Reachable(rl.routes[i].gw)
              /\ rl.redirect /\ rl.remote_endpoint # NoAddr => Reachable(rl.remote_endpoint)

\* check_add_routes_dowork: the test succeeds, or route_wakeup_expire has passed
CheckAddRoutes ==
    /\ rphase = "wait"
    /\ failed' = IF TestRoutes THEN failed ELSE failed + 1
    /\ BeginAdd(rl)
    /\ UNCHANGED <<rt, foreign, ropt, rremote, rplatform, adapterUp, clash, redits, rsessions>>

AddingDone ==
    /\ rphase = "adding" /\ rcmds = <<>>
    /\ rphase' = "up"
    /\ UNCHANGED <<rt, foreign, rl, rcmds, ropt, rremote, rplatform, adapterUp, failed, clash, redits, rsessions>>

\* SIGUSR1 with --persist-tun: device, list and table stay; the next link may have another remote
PersistRestart ==
    /\ rphase = "up" /\ rsessions < MaxSessions
    /\ rsessions' = rsessions + 1
    /\ rremote' \in Remotes
    /\ UNCHANGED <<rt, foreign, rl, rcmds, rphase, ropt, rplatform, adapterUp, failed, clash, redits>>

\* do_close_tun: delete_routes ...
DeleteRoutes ==
    /\ rphase \in {"up", "wait"}
    /\ rcmds' = DeleteCommands(rl)
    /\ rphase' = "deleting"
    /\ UNCHANGED <<rt, foreign, rl, ropt, rremote, rplatform, adapterUp, failed, clash, redits, rsessions>>

\* ... then the list is cleared and the device closed; a device made with --mktun
\* stays, and with it the routes still on it
CloseTun ==
    /\ rphase = "deleting" /\ rcmds = <<>>
    /\ rphase' = "closed"
    /\ rl' = ClearRouteList
    /\ adapterUp' = FALSE
    /\ rt' \in {rt, {e \in rt : e.gw # Endpoint}}
    /\ UNCHANGED <<foreign, rcmds, ropt, rremote, rplatform, failed, clash, redits, rsessions>>

\* external: a DHCP client or administrator moves the default route to another gateway
ReplaceDefault ==
    /\ redits < MaxEdits
    /\ redits' = redits + 1
    /\ foreign' = {e \in foreign : e.net # Address} \cup {Entry(Address, OtherGateway)}
    /\ rt' = (rt \ {e \in foreign : e.net = Address}) \cup {Entry(Address, OtherGateway)}
    /\ clash' = (clash \/ (rphase # "closed" /\ rl.redirect /\ ~rl.def1))
    /\ UNCHANGED <<rl, rcmds, rphase, ropt, rremote, rplatform, adapterUp, failed, rsessions>>

RouteInit ==
    /\ rt \in Tables /\ foreign = rt
    /\ rl = ClearRouteList /\ rcmds = <<>> /\ rphase = "closed"
    /\ ropt \in OptionLists /\ rremote \in Remotes /\ rplatform \in RoutePlatforms
    /\ adapterUp = FALSE /\ failed = 0 /\ clash = FALSE /\ redits = 0 /\ rsessions = 0

RouteNext ==
    \/ OpenTun \/ AdapterComesUp \/ CheckAddRoutes \/ RunCommand \/ AddingDone
    \/ PersistRestart \/ DeleteRoutes \/ CloseTun \/ ReplaceDefault

RouteSpec == RouteInit /\ [][RouteNext]_routeVars
---------------------------------------------------------------------------
RouteTypeOK ==
    /\ rt \subseteq [net : SUBSET Address, gw : Address \cup {Endpoint, OnLink, OtherGateway}]
    /\ rphase \in {"closed", "wait", "adding", "up", "deleting", "aborted"}
    /\ \A i \in 1..Len(rl.routes) : rl.routes[i].defined \in BOOLEAN
    /\ rremote \in Remotes /\ failed \in Nat /\ adapterUp \in BOOLEAN

\* the kernel's choice: the entries with the longest matching prefix
NextHops(a) == {e.gw : e \in {r \in rt : a \in r.net /\ \A s \in rt : a \in s.net => r.net \subseteq s.net}}

\* When the device is closed the routing table is what it would be had OpenVPN
\* not run: every route added is deleted, the original default route is back,
\* and nothing else is gone (delete_routes, undo_redirect_default_route_to_vpn).
\* Not claimed when a command failed, or the default route moved while replaced.
TableRestored == rphase \in {"closed", "aborted"} /\ failed = 0 /\ ~clash => rt = foreign

\* A route that was in the table before, other than the default route, is never
\* deleted, whatever fails: an addition refused because the prefix exists is not
\* undone later (r->defined = status in add_route).
ForeignKept == {e \in foreign : e.net # Address} \subseteq rt

\* The packets of the tunnel itself are never routed into the tunnel while the
\* default route is being redirected and while it is: the host route of the
\* remote comes first (redirect_default_route_to_vpn).
NoLoop ==
    /\ rl.did_redirect /\ ~rl.local /\ rphase \in {"adding", "up"}
    /\ failed = 0 /\ rl.remote_host = rremote /\ ~clash
    => Endpoint \notin NextHops(rremote)

\* Once the redirected routes are in, every address that used the default route,
\* except the remote's, uses the tunnel, also when others move the default route
\* under the two halves of def1.
AllCaptured ==
    /\ rl.did_redirect /\ rphase = "up" /\ failed = 0 /\ ~clash
    => \A a \in Address \ {rl.remote_host} :
          (\A e \in foreign : a \in e.net => e.net = Address)
          /\ (\A i \in 1..Len(rl.routes) : a \notin rl.routes[i].net)
          => NextHops(a) = {Endpoint}

\* Routes come and go without a trace in the table of others, and the tunnel's own
\* packets stay outside it (add_routes, delete_routes, redirect_default_route_to_vpn).
RouteInv == RouteTypeOK /\ TableRestored /\ ForeignKept /\ NoLoop /\ AllCaptured
=============================================================================
