---------------------------- MODULE MCHost ----------------------------
(***************************************************************************)
(* Small instances of the parts that stand on the operating system or on   *)
(* their own: the replay file, fragmentation, the scheduler, hash tables,  *)
(* routes, event sets and plugins.  They share no state; a behaviour       *)
(* exercises one of them and leaves the others in an initial state.        *)
(***************************************************************************)
EXTENDS PacketIdPersist, Fragment, Schedule, HashTable, Route, EventSet, Plugin

VARIABLE part   \* the one that is exercised

\* Routes: 1 and 2 gateways and 3 a host on one side, 11 and 12 servers and
\* 13 a host on the other; no default route, one, and one beside a route of others
MCLower == {1, 2, 3}
MCUpper == {11, 12, 13}
Lan == Entry({1, 2}, OnLink)
MCTables ==
    {{Lan, Entry(MCLower \cup MCUpper, 1)},
     {Lan, Entry({13}, 2), Entry(MCLower \cup MCUpper, 1)},
     {Lan}}
RouteOpt(prefix, gw) == [net |-> prefix, gw |-> gw]
RouteOpts(routes, redirect, local, def1, delay) ==
    [routes |-> routes, redirect |-> redirect, local |-> local, def1 |-> def1, delay |-> delay]
MCOptionLists ==
    {RouteOpts(<<>>, TRUE, FALSE, FALSE, FALSE),
     RouteOpts(<<>>, TRUE, TRUE, FALSE, FALSE),
     RouteOpts(<<>>, TRUE, FALSE, TRUE, TRUE),
     RouteOpts(<<RouteOpt({13}, NoAddr), RouteOpt({3}, net_gateway)>>, FALSE, FALSE, FALSE, TRUE),
     RouteOpts(<<RouteOpt({13}, NoAddr), RouteOpt(remote_host, net_gateway)>>, TRUE, FALSE, TRUE, FALSE),
     RouteOpts(<<RouteOpt({13}, 2), RouteOpt({1}, 1)>>, FALSE, FALSE, FALSE, FALSE),
     RouteOpts([i \in 1 .. 3 |-> RouteOpt({3}, NoAddr)], FALSE, FALSE, FALSE, FALSE)}

\* Plugins: two that authenticate, with different users, around one that runs scripts
MCPlugins ==
    <<[kind |-> "pam", accepts |-> {"ann", "bob"}], [kind |-> "down", accepts |-> {}],
      [kind |-> "pam", accepts |-> {"ann"}]>>

\* Hash tables: three keys in one bucket, one in the other
MCHashOf == [k \in HashKeys |-> IF k = "d" THEN 1 ELSE 0]

-----------------------------------------------------------------------------
\* a part that is not exercised has one of its initial states
MCInit ==
    /\ part \in {"persist", "fragment", "schedule", "hash", "routes", "events", "plugins"}
    /\ PInit /\ PluginInit /\ ScheduleInit /\ HashInit
    /\ FragInit /\ (part # "fragment" => calm)
    /\ RouteInit
    /\ part # "routes" => /\ rt = {Lan} /\ ropt = RouteOpts(<<>>, TRUE, FALSE, FALSE, FALSE)
                          /\ rremote = 11 /\ rplatform = "linux"
    /\ EventInit
    /\ part # "events" => es = CHOOSE e \in EventSetInit(FALSE, 1) : e.method = "se"

MCNext ==
    \/ /\ part = "persist" /\ PNext
       /\ UNCHANGED <<part, fragVars, scheduleVars, hashVars, routeVars, eventVars, pluginVars>>
    \/ /\ part = "fragment" /\ FragNext
       /\ UNCHANGED <<part, pvars, scheduleVars, hashVars, routeVars, eventVars, pluginVars>>
    \/ /\ part = "schedule" /\ ScheduleNext
       /\ UNCHANGED <<part, pvars, fragVars, hashVars, routeVars, eventVars, pluginVars>>
    \/ /\ part = "hash" /\ HashNext
       /\ UNCHANGED <<part, pvars, fragVars, scheduleVars, routeVars, eventVars, pluginVars>>
    \/ /\ part = "routes" /\ RouteNext
       /\ UNCHANGED <<part, pvars, fragVars, scheduleVars, hashVars, eventVars, pluginVars>>
    \/ /\ part = "events" /\ EventNext
       /\ UNCHANGED <<part, pvars, fragVars, scheduleVars, hashVars, routeVars, pluginVars>>
    \/ /\ part = "plugins" /\ PluginNext
       /\ UNCHANGED <<part, pvars, fragVars, scheduleVars, hashVars, routeVars, eventVars>>

MCSpec ==
    MCInit /\ [][MCNext]_<<part, pvars, fragVars, scheduleVars, hashVars, routeVars, eventVars, pluginVars>>
=============================================================================
