----------------------------- MODULE TunDevice -----------------------------
(***************************************************************************)
(* Opening, configuring and closing the tun/tap device (tun.c) by several  *)
(* OpenVPN processes of one host, on each family of platforms: the search  *)
(* for a free unit, ifconfig before or after the open, the streams that    *)
(* Solaris links, the adapters and temporary addresses of Windows; steps   *)
(* that fail end the process without cleanup (M_FATAL), and processes are  *)
(* killed.                                                                 *)
(***************************************************************************)
EXTENDS Naturals, FiniteSets, Sequences, FiniteSetsExt

CONSTANTS DevProcs,     \* the OpenVPN processes of the host
          Units,        \* unit numbers, or TAP-Win32 adapters in registry order
          DevPlatforms, \* of "linux", "bsd" (generic), "openbsd", "solaris", "windows"
          DevConfigs,   \* [type, dev, ifconfig, ipset] of a process
          MaxLives      \* times a process is started

NoUnit == 0
NoOwner == {}

ASSUME DevAssumption ==
    /\ Units \subseteq Nat \ {0} /\ IsFiniteSet(Units)
    /\ NoOwner \notin DevProcs
    /\ DevConfigs \subseteq [type : {"null", "tun", "tap"}, dev : Units \cup {NoUnit},
                            ifconfig : BOOLEAN, ipset : {"none", "netsh", "ipapi", "dhcp"}]

VARIABLES dplatform,
          tt,        \* struct tuntap of each process, and where it is
          owner,     \* kernel: the process that has a unit open
          addrs,     \* kernel: whose --ifconfig addresses a unit has
          linked,    \* Solaris: units whose stream is linked under IP (I_PLINK)
          presets,   \* units configured before they were opened, by whom, and whether in use by another
          lives

devVars == <<dplatform, tt, owner, addrs, linked, presets, lives>>
---------------------------------------------------------------------------
\* clear_tuntap
ClearTuntap == [phase |-> "none", conf |-> [type |-> "null"], unit |-> NoUnit, named |-> NoUnit,
                fds |-> {}, ipapi |-> FALSE, killed |-> FALSE]

FreeUnits == {u \in Units : owner[u] = NoOwner}

\* exit without cleanup: the kernel closes what the process had open; a Unix tun
\* device goes with its address, unless Solaris has it linked
Exits(p, killed) ==
    /\ tt' = [tt EXCEPT ![p] = [ClearTuntap EXCEPT !.killed = killed]]
    /\ owner' = [u \in Units |-> IF owner[u] = p THEN NoOwner ELSE owner[u]]
    /\ addrs' = [u \in Units |-> IF owner[u] = p /\ dplatform \in {"linux", "bsd"} THEN {} ELSE addrs[u]]
    /\ UNCHANGED <<dplatform, presets, lives>>
Fatal(p) == Exits(p, tt[p].killed) /\ UNCHANGED linked

\* init_tun: --ifconfig needs a tun or tap device
InitTun(p) ==
    /\ tt[p].phase = "none" /\ lives[p] < MaxLives
    /\ lives' = [lives EXCEPT ![p] = @ + 1]
    /\ \E c \in DevConfigs :
         tt' = IF c.ifconfig /\ c.type = "null" THEN tt
               ELSE [tt EXCEPT ![p] = [ClearTuntap EXCEPT !.phase = "init", !.conf = c, !.killed = tt[p].killed]]
    /\ UNCHANGED <<dplatform, owner, addrs, linked, presets>>

\* ifconfig_order
BeforeOpen == dplatform \in {"openbsd", "windows"}
Configures(c) == c.ifconfig /\ (dplatform = "windows" => c.ipset = "netsh")

\* guess_tuntap_dev: --dev as it is, on Windows get_netsh_id, none if ambiguous
\* mutant: the first adapter is taken although there are more
Guess_First(c) == IF c.dev # NoUnit THEN c.dev ELSE Min(Units)
Guess(c) == IF c.dev # NoUnit THEN c.dev
            ELSE IF dplatform = "windows" /\ Cardinality(Units) = 1 THEN Min(Units) ELSE NoUnit

\* do_ifconfig on the name of a unit; a command that fails is fatal.  The address
\* replaces what an earlier ifconfig set.
DoIfconfig(p, u, next) ==
    /\ u # NoUnit
    /\ addrs' = [addrs EXCEPT ![u] = {p}]
    /\ tt' = [tt EXCEPT ![p].phase = next, ![p].named = u]
    /\ presets' = IF BeforeOpen THEN presets \cup {[proc |-> p, unit |-> u, busy |-> owner[u] # NoOwner]} ELSE presets
    /\ UNCHANGED <<dplatform, owner, linked, lives>>

IfconfigBefore(p) ==
    /\ tt[p].phase = "init" /\ BeforeOpen
    /\ \/ ~Configures(tt[p].conf) /\ tt' = [tt EXCEPT ![p].phase = "ready"]
          /\ UNCHANGED <<dplatform, owner, addrs, linked, presets, lives>>
       \/ Configures(tt[p].conf) /\ DoIfconfig(p, Guess(tt[p].conf), "ready")
       \/ Configures(tt[p].conf) /\ Fatal(p)

IfconfigAfter(p) ==
    /\ tt[p].phase = "opened" /\ ~BeforeOpen
    /\ \/ ~Configures(tt[p].conf) /\ tt' = [tt EXCEPT ![p].phase = "open"]
          /\ UNCHANGED <<dplatform, owner, addrs, linked, presets, lives>>
       \/ Configures(tt[p].conf) /\ DoIfconfig(p, tt[p].unit, "open")
       \/ Configures(tt[p].conf) /\ dplatform # "solaris" /\ Fatal(p)
---------------------------------------------------------------------------
CanOpen(p) == tt[p].phase = (IF BeforeOpen THEN "ready" ELSE "init")
AfterOpen(p) == IF BeforeOpen THEN "open" ELSE "opened"

Took(p, u, fds) ==
    /\ owner' = [owner EXCEPT ![u] = p]
    /\ tt' = [tt EXCEPT ![p].phase = AfterOpen(p), ![p].unit = u, ![p].fds = fds]

\* open_null
OpenNull(p) ==
    /\ CanOpen(p) /\ tt[p].conf.type = "null"
    /\ tt' = [tt EXCEPT ![p].phase = AfterOpen(p)]
    /\ UNCHANGED <<dplatform, owner, addrs, linked, presets, lives>>

\* open_tun_generic: the unit named, or the first of the numbers that opens
\* mutant: the search goes one unit too far
GenericUnits_Past(c) == IF c.dev # NoUnit THEN {c.dev} \cap FreeUnits
                        ELSE IF FreeUnits = {} THEN {Max(Units) + 1} ELSE {Min(FreeUnits)}
GenericUnits(c) == IF c.dev # NoUnit THEN {c.dev} \cap FreeUnits
                   ELSE IF FreeUnits = {} THEN {} ELSE {Min(FreeUnits)}
OpenGeneric(p) ==
    /\ CanOpen(p) /\ tt[p].conf.type # "null" /\ dplatform \in {"linux", "bsd", "openbsd"}
    /\ \/ \E u \in GenericUnits(tt[p].conf) : Took(p, u, {"fd"}) /\ UNCHANGED <<dplatform, addrs, linked, presets, lives>>
       \/ GenericUnits(tt[p].conf) = {} /\ Fatal(p)

\* open_tun on Linux 2.4: TUNSETIFF picks the unit or takes the one named; on
\* failure the fallback above closes the descriptor and goes on
OpenTunsetiff(p) ==
    /\ CanOpen(p) /\ tt[p].conf.type # "null" /\ dplatform = "linux"
    /\ \E u \in FreeUnits : tt[p].conf.dev \in {NoUnit, u} /\ Took(p, u, {"fd"})
    /\ UNCHANGED <<dplatform, addrs, linked, presets, lives>>

\* open_tun on Solaris: a new unit, a second stream linked under IP and given its
\* multiplexor id; each step may fail, and after the link the link is undone
OpenSolaris(p) ==
    /\ CanOpen(p) /\ tt[p].conf.type # "null" /\ dplatform = "solaris"
    /\ \/ \E u \in FreeUnits \ linked :
            /\ tt[p].conf.dev \in {NoUnit, u}
            /\ Took(p, u, {"fd", "ip_fd"}) /\ linked' = linked \cup {u}
            /\ UNCHANGED <<dplatform, addrs, presets, lives>>
       \/ Fatal(p)
---------------------------------------------------------------------------
\* get_unspecified_device_guid in a loop, or get_device_guid for --dev-node
AdapterUnits(c) == GenericUnits(c)

\* delete_temp_addresses, then AddIPAddress
\* mutant: addresses of a process that was killed stay on the adapter
SetIpapi_Add(u, p) == addrs[u] \cup {p}
SetIpapi(u, p) == {p}

\* the driver's point-to-point mode, which --dev tun needs, wants the --ifconfig pair
DriverConfigures(c) == c.type = "tun" => c.ifconfig
\* AddIPAddress, where the address is not set by netsh or by the driver's DHCP
UsesIpapi(c) == c.ipset = "ipapi" /\ c.ifconfig

\* open_tun on Windows: a free adapter, the driver's modes, then the address
OpenWindows(p) ==
    /\ CanOpen(p) /\ tt[p].conf.type # "null" /\ dplatform = "windows"
    /\ \/ \E u \in AdapterUnits(tt[p].conf) :
            /\ DriverConfigures(tt[p].conf)
            /\ owner' = [owner EXCEPT ![u] = p]
            /\ tt' = [tt EXCEPT ![p].phase = "open", ![p].unit = u, ![p].fds = {"hand"},
                                ![p].ipapi = UsesIpapi(tt[p].conf)]
            /\ addrs' = IF UsesIpapi(tt[p].conf)
                        THEN [addrs EXCEPT ![u] = SetIpapi(u, p)] ELSE addrs
            /\ UNCHANGED <<dplatform, linked, presets, lives>>
       \/ Fatal(p)
---------------------------------------------------------------------------
DevClosed(p) ==
    /\ tt' = [tt EXCEPT ![p] = [ClearTuntap EXCEPT !.killed = tt[p].killed]]
    /\ owner' = [u \in Units |-> IF owner[u] = p THEN NoOwner ELSE owner[u]]
    /\ UNCHANGED <<dplatform, presets, lives>>

\* close_tun_generic: the device goes, and its address with it
CloseGeneric(p) ==
    /\ tt[p].phase = "open" /\ dplatform \in {"linux", "bsd", "openbsd"}
    /\ DevClosed(p)
    /\ addrs' = IF tt[p].unit = NoUnit THEN addrs ELSE [addrs EXCEPT ![tt[p].unit] = {}]
    /\ UNCHANGED linked

\* solaris_close_tun, also from solaris_error_close when ifconfig fails
CloseSolaris(p) ==
    /\ dplatform = "solaris"
    /\ tt[p].phase = "open" \/ (tt[p].phase = "opened" /\ Configures(tt[p].conf))
    /\ DevClosed(p)
    /\ linked' = linked \ {tt[p].unit}
    /\ addrs' = IF tt[p].unit = NoUnit THEN addrs ELSE [addrs EXCEPT ![tt[p].unit] = {}]

\* close_tun on Windows: DeleteIPAddress, dhcp_release, the handle
\* mutant: the temporary address is not deleted
CloseWindows_Address(p) ==
    /\ tt[p].phase = "open" /\ dplatform = "windows"
    /\ DevClosed(p)
    /\ UNCHANGED <<addrs, linked>>
CloseWindows(p) ==
    /\ tt[p].phase = "open" /\ dplatform = "windows"
    /\ DevClosed(p)
    /\ addrs' = IF tt[p].ipapi THEN [addrs EXCEPT ![tt[p].unit] = @ \ {p}] ELSE addrs
    /\ UNCHANGED linked

\* external: the process is killed
Kill(p) == tt[p].phase # "none" /\ Exits(p, TRUE) /\ UNCHANGED linked

DevInit ==
    /\ dplatform \in DevPlatforms
    /\ tt = [p \in DevProcs |-> ClearTuntap]
    /\ owner = [u \in Units |-> NoOwner]
    /\ addrs = [u \in Units |-> {}]
    /\ linked = {} /\ presets = {}
    /\ lives = [p \in DevProcs |-> 0]

DevStep(p) ==
    \/ InitTun(p) \/ IfconfigBefore(p) \/ IfconfigAfter(p)
    \/ OpenNull(p) \/ OpenGeneric(p) \/ OpenTunsetiff(p) \/ OpenSolaris(p) \/ OpenWindows(p)
    \/ CloseGeneric(p) \/ CloseSolaris(p) \/ CloseWindows(p) \/ Kill(p)
DevNext == \E p \in DevProcs : DevStep(p)

DevSpec == DevInit /\ [][DevNext]_devVars
---------------------------------------------------------------------------
DevTypeOK ==
    /\ \A p \in DevProcs : /\ tt[p].phase \in {"none", "init", "ready", "opened", "open"}
                           /\ tt[p].unit \in Units \cup {NoUnit} /\ tt[p].named \in Units \cup {NoUnit}
                           /\ tt[p].unit # NoUnit => tt[p].fds # {}
    /\ owner \in [Units -> DevProcs \cup {NoOwner}]
    /\ addrs \in [Units -> SUBSET DevProcs]
    /\ linked \subseteq Units

\* The unit that --ifconfig configured is the unit the process has open, also
\* when the number was found by trying (do_ifconfig with guess_tuntap_dev before
\* the open, with tt->actual_name after it).
OwnUnitConfigured ==
    \A p \in DevProcs : tt[p].phase = "open" /\ tt[p].named # NoUnit => tt[p].named = tt[p].unit

\* With --ip-win32 ipapi an adapter in use has the address of its owner and no
\* other, even if a process before was killed and left its own (delete_temp_addresses),
\* unless a process with --ip-win32 netsh set it before it tried to open the adapter.
TempAddresses ==
    \A p \in DevProcs : tt[p].phase = "open" /\ tt[p].ipapi /\ (\A r \in presets : r.busy => r.unit # tt[p].unit)
                       => addrs[tt[p].unit] = {p}

\* A process that was never killed and has closed its device, or failed to open
\* it, leaves no linked stream and no address but one it set before the open, which
\* is meant to stay (close_tun, solaris_error_close).
NothingLeft ==
    (\A p \in DevProcs : ~tt[p].killed /\ tt[p].phase = "none") =>
        /\ linked = {}
        /\ \A u \in Units : \A p \in addrs[u] : \E r \in presets : r.proc = p /\ r.unit = u

\* Processes that open devices side by side configure their own unit and leave none of
\* their addresses, links or units behind (open_tun, do_ifconfig, close_tun).
DevInv == DevTypeOK /\ OwnUnitConfigured /\ TempAddresses /\ NothingLeft
=============================================================================
