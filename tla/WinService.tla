---------------------------- MODULE WinService ----------------------------
(***************************************************************************)
(* OpenVPN as a Windows service: the service wrapper of openvpnserv.c,     *)
(* which starts one openvpn process for every configuration file, and what *)
(* those processes share by name with it and with each other (win32.c):    *)
(* the manual-reset exit event, which every one of them polls in place of  *)
(* signals, and the semaphore around network shell commands.  A named      *)
(* object lives as long as some process has it open.                       *)
(***************************************************************************)
EXTENDS Naturals, FiniteSets

CONSTANTS ConfigFiles,  \* the files match () accepts, in the configuration directory
          Procs,        \* slots for openvpn processes
          MaxServices,  \* times the service manager starts the service
          MaxProcRestarts,  \* SIGUSR1 and SIGHUP restarts and net commands of a process
          MaxFails      \* failed calls and killed processes

ASSUME ServiceAssumption == MaxServices \in Nat /\ MaxProcRestarts \in Nat /\ MaxFails \in Nat

VARIABLES svc,       \* the thread of ServiceStart: [at, files, handle, gen]
          exitEvent, \* openvpn_exit_1: "none" when no process has it open
          proc,      \* the openvpn processes
          netcmd,    \* the count of openvpn_netcmd
          lostNetcmd,\* a process was killed while it had the count
          slow,      \* a process did not have the event open when its service ended
          killed,    \* a service process was killed
          fails
serviceVars == <<svc, exitEvent, proc, netcmd, lostNetcmd, slow, killed, fails>>
---------------------------------------------------------------------------
NoProcess == [at |-> "none", config |-> "none", gen |-> 0, handles |-> 0, mode |-> "undef",
           sig |-> "none", lock |-> "no", hand |-> FALSE,
           told |-> FALSE, restarts |-> 0]
Live(p) == proc[p].at # "none"
Failed(b) == fails' = fails + (IF b THEN 1 ELSE 0) /\ fails' <= MaxFails

ServiceInit ==
    /\ svc = [at |-> "stopped", files |-> {}, handle |-> FALSE, gen |-> 0]
    /\ exitEvent = "none" /\ proc = [p \in Procs |-> NoProcess] /\ netcmd = 1
    /\ lostNetcmd = FALSE /\ slow = FALSE /\ killed = FALSE /\ fails = 0

\* CreateEvent: the object of that name if there is one, else a new one
CreateEvent(initial) == IF exitEvent = "none" THEN initial ELSE exitEvent

\* the objects after a step: a named object goes with its last handle
Event(s, ps, e) == IF s.handle \/ \E p \in Procs : ps[p].handles > 0 THEN e ELSE "none"
NetcmdCount(ps, n) == IF \E p \in Procs : ps[p].hand THEN n ELSE 1

\* a process that runs without the exit event: not open yet, or failed to open
Unheard == \E p \in Procs : Live(p) /\ proc[p].handles = 0 /\ proc[p].sig # "TERM"
---------------------------------------------------------------------------
(* The service wrapper. *)

\* the service manager starts the service: the exit event is created clear,
\* or found; a set one is the event of a service whose processes still run
\* mutant: a set event is reset instead of refused
ServiceStart_Reset ==
    /\ svc.at = "stopped" /\ svc.gen < MaxServices
    /\ \/ /\ svc' = [at |-> "spawn", files |-> ConfigFiles, handle |-> TRUE, gen |-> svc.gen + 1]
          /\ exitEvent' = "clear" /\ UNCHANGED fails
       \/ /\ svc' = [svc EXCEPT !.at = "finish", !.handle = FALSE, !.gen = @ + 1]
          /\ exitEvent' = exitEvent /\ Failed(TRUE)
    /\ UNCHANGED <<proc, netcmd, lostNetcmd, slow, killed>>
ServiceStart ==
    /\ svc.at = "stopped" /\ svc.gen < MaxServices
    /\ \/ /\ exitEvent' = CreateEvent("clear") /\ UNCHANGED fails
          /\ svc' = [at |-> IF exitEvent' = "set" THEN "finish" ELSE "spawn",
                     files |-> ConfigFiles, handle |-> TRUE, gen |-> svc.gen + 1]
       \/ /\ svc' = [svc EXCEPT !.at = "finish", !.handle = FALSE, !.gen = @ + 1]
          /\ exitEvent' = exitEvent /\ Failed(TRUE)
    /\ UNCHANGED <<proc, netcmd, lostNetcmd, slow, killed>>

\* one turn of the loop over the configuration files
ServiceSpawn ==
    /\ svc.at = "spawn"
    /\ \E f \in svc.files, p \in Procs :
         /\ ~Live(p)
         /\ proc' = [proc EXCEPT ![p] = [NoProcess EXCEPT !.at = "new", !.config = f, !.gen = svc.gen]]
         /\ svc' = [svc EXCEPT !.files = @ \ {f}]
    /\ UNCHANGED <<exitEvent, netcmd, lostNetcmd, slow, killed, fails>>

\* a registry value, the log file, CreateProcess or a report to the manager fails
ServiceFails ==
    /\ svc.at = "spawn" /\ Failed(TRUE)
    /\ svc' = [svc EXCEPT !.at = "finish"]
    /\ UNCHANGED <<exitEvent, proc, netcmd, lostNetcmd, slow, killed>>

\* every file has its process: SERVICE_RUNNING, wait for the event
ServiceRunning ==
    /\ svc.at = "spawn" /\ svc.files = {}
    /\ svc' = [svc EXCEPT !.at = "running"]
    /\ UNCHANGED <<exitEvent, proc, netcmd, lostNetcmd, slow, killed, fails>>

\* the service manager stops a running service: ServiceStop on the manager's thread
ServiceStop ==
    /\ svc.at = "running" /\ exitEvent # "set"
    /\ exitEvent' = "set"
    /\ UNCHANGED <<svc, proc, netcmd, lostNetcmd, slow, killed, fails>>

\* the wait of ServiceStart ends
ServiceWoken ==
    /\ svc.at = "running" /\ exitEvent = "set"
    /\ svc' = [svc EXCEPT !.at = "finish"]
    /\ UNCHANGED <<exitEvent, proc, netcmd, lostNetcmd, slow, killed, fails>>

\* finish: ServiceStop sets the event if there is one, then it is closed
ServiceFinish ==
    /\ svc.at = "finish"
    /\ svc' = [svc EXCEPT !.at = "stopped", !.files = {}, !.handle = FALSE]
    /\ exitEvent' = Event(svc', proc, IF svc.handle THEN "set" ELSE exitEvent)
    /\ slow' = (slow \/ Unheard)
    /\ UNCHANGED <<proc, netcmd, lostNetcmd, killed, fails>>

\* the service process is killed: no event is set
ServiceKilled ==
    /\ svc.at # "stopped" /\ Failed(TRUE)
    /\ svc' = [svc EXCEPT !.at = "stopped", !.files = {}, !.handle = FALSE]
    /\ exitEvent' = Event(svc', proc, exitEvent) /\ killed' = TRUE
    /\ UNCHANGED <<proc, netcmd, lostNetcmd, slow>>
---------------------------------------------------------------------------
(* An openvpn process. *)

\* exit (), by openvpn_exit: uninit_win32 gives the semaphore back, the
\* system closes every handle
\* mutant: a fatal error while the semaphore is locked keeps its count
OpenvpnExit_Locked(p) ==
    /\ proc' = [proc EXCEPT ![p] = NoProcess]
    /\ netcmd' = NetcmdCount(proc', netcmd) /\ lostNetcmd' = (lostNetcmd /\ \E q \in Procs : proc'[q].hand)
    /\ exitEvent' = Event(svc, proc', exitEvent)
\* mutant: semaphore_close releases without asking whether it is locked
OpenvpnExit_Always(p) ==
    /\ proc' = [proc EXCEPT ![p] = NoProcess]
    /\ netcmd' = NetcmdCount(proc', IF proc[p].hand THEN netcmd + 1 ELSE netcmd)
    /\ lostNetcmd' = (lostNetcmd /\ \E q \in Procs : proc'[q].hand)
    /\ exitEvent' = Event(svc, proc', exitEvent)
OpenvpnExit(p) ==
    /\ proc' = [proc EXCEPT ![p] = NoProcess]
    /\ netcmd' = NetcmdCount(proc', IF proc[p].lock = "hold" /\ proc[p].hand THEN netcmd + 1 ELSE netcmd)
    /\ lostNetcmd' = (lostNetcmd /\ \E q \in Procs : proc'[q].hand)
    /\ exitEvent' = Event(svc, proc', exitEvent)

\* init_static, init_win32: the semaphore is opened; without one the process goes on
InitWin32(p) ==
    /\ proc[p].at = "new"
    /\ \E ok \in BOOLEAN : proc' = [proc EXCEPT ![p].at = "setup", ![p].hand = ok] /\ Failed(~ok)
    /\ UNCHANGED <<svc, exitEvent, netcmd, lostNetcmd, slow, killed>>

\* pre_setup, win32_signal_open: the exit event by name, created set when the
\* service is gone ("--service openvpn_exit_1 1"); a set event is fatal.
\* The handle of an earlier turn of the SIGHUP loop is not closed.
\* mutant: the event is created clear
PreSetup_Clear(p) ==
    /\ proc[p].at = "setup"
    /\ IF CreateEvent("clear") = "set" THEN OpenvpnExit(p)
       ELSE /\ proc' = [proc EXCEPT ![p].at = "up", ![p].mode = "service", ![p].handles = @ + 1]
            /\ exitEvent' = CreateEvent("clear") /\ UNCHANGED <<netcmd, lostNetcmd>>
    /\ UNCHANGED <<svc, slow, killed, fails>>
PreSetup(p) ==
    /\ proc[p].at = "setup"
    /\ IF CreateEvent("set") = "set" THEN OpenvpnExit(p)
       ELSE /\ proc' = [proc EXCEPT ![p].at = "up", ![p].mode = "service", ![p].handles = @ + 1]
            /\ exitEvent' = CreateEvent("set") /\ UNCHANGED <<netcmd, lostNetcmd>>
    /\ UNCHANGED <<svc, slow, killed, fails>>

\* CreateEvent fails: a note, and the process runs without any signal source
PreSetupDeaf(p) ==
    /\ proc[p].at = "setup" /\ Failed(TRUE)
    /\ proc' = [proc EXCEPT ![p].at = "up", ![p].mode = "undef"]
    /\ UNCHANGED <<svc, exitEvent, netcmd, lostNetcmd, slow, killed>>

\* win32_signal_get: a signal that is already there first, then the exit event
GetSignal(p) ==
    /\ proc[p].at = "up" /\ proc[p].lock = "no" /\ proc[p].sig = "none"
    /\ proc[p].mode = "service" /\ exitEvent = "set"
    /\ proc' = [proc EXCEPT ![p].sig = "TERM", ![p].told = TRUE]
    /\ UNCHANGED <<svc, exitEvent, netcmd, lostNetcmd, slow, killed, fails>>

\* a signal from within: a ping timeout, a lost connection, the management
\* interface, the end of the exit notification
ThrowSignal(p) ==
    /\ proc[p].at \in {"up", "notify"} /\ proc[p].lock = "no" /\ proc[p].sig = "none"
    /\ proc[p].restarts < MaxProcRestarts
    /\ \E s \in {"USR1", "HUP", "TERM"} : proc' = [proc EXCEPT ![p].sig = s, ![p].restarts = @ + 1, ![p].told = @ \/ s = "TERM"]
    /\ UNCHANGED <<svc, exitEvent, netcmd, lostNetcmd, slow, killed, fails>>

\* SIGUSR1 starts the next instance, SIGHUP the next turn of the outer loop
ProcRestart(p) ==
    /\ proc[p].at \in {"up", "notify"} /\ proc[p].lock = "no" /\ proc[p].sig \in {"USR1", "HUP"}
    /\ proc' = [proc EXCEPT ![p].sig = "none", ![p].at = IF proc[p].sig = "HUP" THEN "setup" ELSE "up"]
    /\ UNCHANGED <<svc, exitEvent, netcmd, lostNetcmd, slow, killed, fails>>

\* process_explicit_exit_notification_init: the signal is reset and its source
\* closed, so that the event, which stays set, is not seen again
ExitNotify(p) ==
    /\ proc[p].at = "up" /\ proc[p].lock = "no" /\ proc[p].sig = "TERM"
    /\ proc' = [proc EXCEPT ![p].at = "notify", ![p].mode = "undef", ![p].sig = "none",
                            ![p].handles = IF proc[p].mode = "service" THEN @ - 1 ELSE @]
    /\ exitEvent' = Event(svc, proc', exitEvent)
    /\ UNCHANGED <<svc, netcmd, lostNetcmd, slow, killed, fails>>

\* SIGTERM, from the exit event or at the end of the exit notification: the
\* routes and the device are closed and the process ends; every process may
\* also meet a fatal error
ProcExits(p) ==
    /\ \/ proc[p].at \in {"up", "notify"} /\ proc[p].sig = "TERM" /\ proc[p].lock = "no" /\ UNCHANGED fails
       \/ proc[p].at = "notify" /\ proc[p].sig = "none" /\ proc[p].lock = "no" /\ UNCHANGED fails
       \/ proc[p].at \in {"up", "notify"} /\ proc[p].lock # "wait" /\ Failed(TRUE)
    /\ OpenvpnExit(p)
    /\ UNCHANGED <<svc, slow, killed>>

\* netcmd_semaphore_lock, before ROUTE and NETSH commands, also on the way out
NetcmdLock(p) ==
    /\ proc[p].at \in {"up", "notify"} /\ proc[p].lock = "no" /\ proc[p].restarts < MaxProcRestarts
    /\ proc' = [proc EXCEPT ![p].lock = IF proc[p].hand THEN "wait" ELSE "hold", ![p].restarts = @ + 1]
    /\ UNCHANGED <<svc, exitEvent, netcmd, lostNetcmd, slow, killed, fails>>

\* semaphore_lock: the wait succeeds
\* mutant: a failed wait counts as locked
SemaphoreLock_Timeout(p) ==
    /\ proc[p].lock = "wait"
    /\ proc' = [proc EXCEPT ![p].lock = "hold"]
    /\ netcmd' = IF netcmd > 0 THEN netcmd - 1 ELSE netcmd
    /\ UNCHANGED <<svc, exitEvent, lostNetcmd, slow, killed, fails>>
SemaphoreLock(p) ==
    /\ proc[p].lock = "wait" /\ netcmd > 0
    /\ proc' = [proc EXCEPT ![p].lock = "hold"] /\ netcmd' = netcmd - 1
    /\ UNCHANGED <<svc, exitEvent, lostNetcmd, slow, killed, fails>>

\* ten minutes without the semaphore: fatal
LockTimesOut(p) ==
    /\ proc[p].lock = "wait" /\ netcmd = 0
    /\ OpenvpnExit(p)
    /\ UNCHANGED <<svc, slow, killed, fails>>

\* netcmd_semaphore_release: the command has returned
NetcmdRelease(p) ==
    /\ proc[p].lock = "hold"
    /\ proc' = [proc EXCEPT ![p].lock = "no"]
    /\ netcmd' = IF proc[p].hand THEN netcmd + 1 ELSE netcmd
    /\ UNCHANGED <<svc, exitEvent, lostNetcmd, slow, killed, fails>>

\* the process is killed: the count it held is not given back
ProcKilled(p) ==
    /\ Live(p) /\ Failed(TRUE)
    /\ proc' = [proc EXCEPT ![p] = NoProcess]
    /\ netcmd' = NetcmdCount(proc', netcmd) /\ exitEvent' = Event(svc, proc', exitEvent)
    /\ lostNetcmd' = ((lostNetcmd \/ (proc[p].lock = "hold" /\ proc[p].hand)) /\ \E q \in Procs : proc'[q].hand)
    /\ UNCHANGED <<svc, slow, killed>>

ServiceNext ==
    \/ ServiceStart \/ ServiceSpawn \/ ServiceFails \/ ServiceRunning
    \/ ServiceStop \/ ServiceWoken \/ ServiceFinish \/ ServiceKilled
    \/ \E p \in Procs :
         \/ InitWin32(p) \/ PreSetup(p) \/ PreSetupDeaf(p) \/ GetSignal(p) \/ ThrowSignal(p)
         \/ ProcRestart(p) \/ ExitNotify(p) \/ ProcExits(p) \/ NetcmdLock(p) \/ SemaphoreLock(p)
         \/ LockTimesOut(p) \/ NetcmdRelease(p) \/ ProcKilled(p)

ServiceSpec == ServiceInit /\ [][ServiceNext]_serviceVars
---------------------------------------------------------------------------
(* Properties. *)

\* The type of the state; a count of the semaphore above its maximum of one
\* would be a ReleaseSemaphore that failed.
ServiceTypeOK ==
    /\ svc \in [at : {"stopped", "spawn", "running", "finish"}, files : SUBSET ConfigFiles,
                handle : BOOLEAN, gen : 0 .. MaxServices]
    /\ exitEvent \in {"none", "clear", "set"} /\ netcmd \in 0 .. 1
    /\ proc \in [Procs -> [at : {"none", "new", "setup", "up", "notify"}, config : ConfigFiles \cup {"none"},
                           gen : 0 .. MaxServices, handles : 0 .. MaxProcRestarts + 1, mode : {"undef", "service"},
                           sig : {"none", "USR1", "HUP", "TERM"}, lock : {"no", "wait", "hold"},
                           hand : BOOLEAN, told : BOOLEAN, restarts : 0 .. MaxProcRestarts]]

\* A process that service mode governs never outlives the service unawares:
\* once the service has stopped, by whatever path through ServiceStart, the
\* exit event of every such process that is not yet exiting is set, however
\* late the process opened it.  Only a service that was killed leaves its
\* processes behind.
ExitReaches ==
    svc.at = "stopped" /\ ~killed =>
        \A p \in Procs : proc[p].mode = "service" /\ proc[p].sig # "TERM" =>
                             proc[p].handles > 0 /\ exitEvent = "set"

\* A service that starts again meets no process of an earlier one that will
\* go on running: ServiceStart refuses while one of them still has the event
\* open.  (A process that was still on its way to pre_setup is not seen, and
\* an exit notification closes the source of signals of one that was told to end,
\* by the event or from within, and then restarts.)
NoStragglers ==
    svc.at \in {"spawn", "running"} /\ ~killed /\ ~slow =>
        \A p \in Procs : proc[p].mode = "service" /\ proc[p].sig # "TERM" /\ ~proc[p].told =>
                             proc[p].gen = svc.gen

\* Two processes never run a network command at the same time.
NetcmdExclusive ==
    \A p, q \in Procs : p # q /\ proc[p].hand /\ proc[q].hand => ~(proc[p].lock = "hold" /\ proc[q].lock = "hold")

\* The one count of the semaphore is free or in the hands of a live process,
\* also after a fatal error in the middle of a command; only a process that
\* was killed takes it along, and then as long as anyone has it open.
NetcmdReturned ==
    netcmd = 0 /\ ~lostNetcmd => \E p \in Procs : proc[p].hand /\ proc[p].lock = "hold"

\* The service and its processes over two named objects: the exit event reaches every
\* process of the service, the semaphore is held by one and always comes back.
ServiceInv == ServiceTypeOK /\ ExitReaches /\ NoStragglers /\ NetcmdExclusive /\ NetcmdReturned
===========================================================================
