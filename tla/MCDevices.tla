---------------------------- MODULE MCDevices ----------------------------
(***************************************************************************)
(* Small instances of the tun devices of all platforms and of the parts    *)
(* for Windows: overlapped I/O, the service and the TAP driver.  They      *)
(* share no state; a behaviour exercises one of them and leaves the others *)
(* in an initial state.                                                    *)
(***************************************************************************)
EXTENDS TunDevice, Overlapped, WinService, TapDriver

VARIABLE part   \* the one that is exercised

\* TAP driver: two transmitting threads and one reader; two processes that
\* open, configure and ask for addresses; power events
CONSTANTS t1, t2, h1, h2
MCThreads == {t1, t2}
MCHandles == {h1, h2}
MCLoads ==
    {[threads |-> {t1, t2}, handles |-> {h1}, kinds |-> {"ip"}, addrs |-> {},
      power |-> {}, reads |-> {1, 2, 3}],
     [threads |-> {t1}, handles |-> {h1, h2}, kinds |-> {"arp", "discover", "request"},
      addrs |-> {1, 2}, power |-> {}, reads |-> {}],
     [threads |-> {t1}, handles |-> {h1}, kinds |-> {"ip", "broadcast"}, addrs |-> {1},
      power |-> BOOLEAN, reads |-> {1}]}

\* Devices: the null device, dynamic and numbered units, both ways to set an address
DevConfig(type, dev, ifconfig, ipset) ==
    [type |-> type, dev |-> dev, ifconfig |-> ifconfig, ipset |-> ipset]
MCDevConfigs ==
    {DevConfig("null", 0, FALSE, "none"), DevConfig("null", 0, TRUE, "none"),
     DevConfig("tun", 0, TRUE, "ipapi"), DevConfig("tun", 1, TRUE, "ipapi"),
     DevConfig("tap", 2, TRUE, "netsh"), DevConfig("tap", 0, FALSE, "netsh")}

-----------------------------------------------------------------------------
\* a part that is not exercised has one of its initial states
MCInit ==
    /\ part \in {"device", "overlapped", "service", "tap"}
    /\ IoInit /\ ServiceInit
    /\ TapInit /\ (part # "tap" => load.reads = {})
    /\ DevInit /\ (part # "device" => dplatform = "linux")

MCNext ==
    \/ /\ part = "device" /\ DevNext
       /\ UNCHANGED <<part, ioVars, serviceVars, tapVars>>
    \/ /\ part = "overlapped" /\ IoNext
       /\ UNCHANGED <<part, devVars, serviceVars, tapVars>>
    \/ /\ part = "service" /\ ServiceNext
       /\ UNCHANGED <<part, devVars, ioVars, tapVars>>
    \/ /\ part = "tap" /\ TapNext
       /\ UNCHANGED <<part, devVars, ioVars, serviceVars>>

MCSpec == MCInit /\ [][MCNext]_<<part, devVars, ioVars, serviceVars, tapVars>>
=============================================================================
