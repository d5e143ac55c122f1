---------------------------- MODULE DeviceProofs ----------------------------
(***************************************************************************)
(* The service and its processes: the exit event reaches every process,    *)
(* no process of an earlier service is left running unawares, the          *)
(* semaphore has one holder and comes back, for any number of processes,   *)
(* configuration files, restarts and failures.                             *)
(*                                                                         *)
(* Overlapped I/O: every packet that arrived is in one place, packets go   *)
(* out in the order they came, and no event or request is forgotten, for   *)
(* any number of packets and faults.                                       *)
(*                                                                         *)
(* The tun/tap device: processes configure the unit they open and leave    *)
(* nothing behind, for any number of processes, units and failures.        *)
(*                                                                         *)
(* The TAP driver: a read is completed once, packets come in order, and a  *)
(* session is one process's own, for any number of threads and processes.  *)
(***************************************************************************)
EXTENDS WinService, Overlapped, TunDevice, TapDriver, FiniteSetTheorems, SequenceTheorems, WellFoundedInduction, TLAPS

(***************************************************************************)
(* The service.                                                            *)
(***************************************************************************)

SvcRec == [at : {"stopped", "spawn", "running", "finish"}, files : SUBSET ConfigFiles,
           handle : BOOLEAN, gen : 0 .. MaxServices]
ProcRec == [at : {"none", "new", "setup", "up", "notify"}, config : ConfigFiles \cup {"none"},
            gen : 0 .. MaxServices, handles : 0 .. MaxProcRestarts + 1, mode : {"undef", "service"},
            sig : {"none", "USR1", "HUP", "TERM"}, lock : {"no", "wait", "hold"},
            hand : BOOLEAN, told : BOOLEAN, restarts : 0 .. MaxProcRestarts]

\* A process by itself: each turn of the SIGHUP loop leaves one more handle of the event, and
\* was paid for by a signal; service mode means that the event is open.
ProcOK(r) ==
    /\ r \in ProcRec
    /\ r.handles <= r.restarts + (IF r.at \in {"up", "notify"} /\ r.sig # "HUP" THEN 1 ELSE 0)
    /\ r.mode = "service" => r.handles > 0
    /\ r.at \in {"none", "new"} => r.handles = 0 /\ ~r.hand /\ r.lock = "no" /\ r.mode = "undef"
    /\ r.at \in {"none", "new", "setup"} => r.sig = "none"
    /\ r.lock = "wait" => r.hand
    /\ r.sig = "TERM" => r.told

ProcsOK ==
    /\ proc \in [Procs -> ProcRec]
    /\ \A p \in Procs : ProcOK(proc[p]) /\ proc[p].gen <= svc.gen

\* The exit event exists as long as someone has it open; when no service has it, nobody
\* has left it clear (unless a service was killed).
ExitOK ==
    /\ svc \in SvcRec /\ exitEvent \in {"none", "clear", "set"} /\ killed \in BOOLEAN /\ slow \in BOOLEAN
    /\ svc.at \in {"spawn", "running"} => svc.handle
    /\ svc.at = "stopped" => ~svc.handle
    /\ exitEvent # "none" <=> svc.handle \/ \E p \in Procs : proc[p].handles > 0
    /\ ~killed /\ ~svc.handle => exitEvent # "clear"

\* A process that was not told to end belongs to the present service, or still has the event
\* open with which that service ended, so that the next one is refused.
Accounted(r) ==
    \/ r.at = "none" \/ r.told
    \/ svc.at \in {"spawn", "running", "finish"} /\ r.gen = svc.gen
    \/ svc.at \in {"stopped", "finish"} /\ r.handles > 0
GensOK == ~killed /\ ~slow => \A p \in Procs : Accounted(proc[p])

\* The count of the semaphore is free, with the one process that holds it, or lost.
Holds(r) == r.hand /\ r.lock = "hold"
NetcmdOK ==
    /\ netcmd \in 0 .. 1 /\ lostNetcmd \in BOOLEAN
    /\ \A p, q \in Procs : Holds(proc[p]) /\ Holds(proc[q]) => p = q
    /\ netcmd = 1 => \A p \in Procs : ~Holds(proc[p])
    /\ lostNetcmd => netcmd = 0 /\ \A p \in Procs : ~Holds(proc[p])
    /\ netcmd = 0 /\ ~lostNetcmd => \E p \in Procs : Holds(proc[p])

SInv == ProcsOK /\ ExitOK /\ GensOK /\ NetcmdOK
-----------------------------------------------------------------------------
(* A step of one process leaves the others as they are.                    *)

LEMMA NoProcessOK == ProcOK(NoProcess)
  BY ServiceAssumption DEF ProcOK, NoProcess, ProcRec

LEMMA OneProcs ==
  ASSUME ProcsOK, svc' = svc, NEW p \in Procs, NEW new, ProcOK(new), new.gen <= svc.gen,
         proc' = [proc EXCEPT ![p] = new]
  PROVE  ProcsOK'
<1>1. new \in ProcRec
  BY DEF ProcOK
<1>2. proc' \in [Procs -> ProcRec]
  BY <1>1 DEF ProcsOK
<1>3. \A q \in Procs : proc'[q] = IF q = p THEN new ELSE proc[q]
  BY DEF ProcsOK
<1>4. \A q \in Procs : ProcOK(proc'[q]) /\ proc'[q].gen <= svc'.gen
  BY <1>3 DEF ProcsOK
<1> QED
  BY <1>2, <1>4 DEF ProcsOK, ProcOK

\* exitEvent after the step: as before, or what Event makes of it.
LEMMA OneExit ==
  ASSUME ProcsOK, ExitOK, svc' = svc, killed' = killed, slow' = slow,
         NEW p \in Procs, NEW new, new \in ProcRec, proc' = [proc EXCEPT ![p] = new],
         \/ exitEvent' = exitEvent /\ (new.handles > 0 <=> proc[p].handles > 0)
         \/ exitEvent' = exitEvent /\ exitEvent # "none" /\ new.handles > 0
         \/ exitEvent' = Event(svc, proc', exitEvent) /\ (new.handles > 0 => proc[p].handles > 0)
  PROVE  ExitOK'
<1>1. \A q \in Procs : proc'[q] = IF q = p THEN new ELSE proc[q]
  BY DEF ProcsOK
<1> DEFINE Open == svc.handle \/ \E q \in Procs : proc'[q].handles > 0
<1>2. exitEvent' # "none" <=> Open
  <2>1. CASE exitEvent' = exitEvent /\ (new.handles > 0 <=> proc[p].handles > 0)
    <3>1. \A q \in Procs : proc'[q].handles > 0 <=> proc[q].handles > 0
      BY <2>1, <1>1
    <3> QED
      BY <2>1, <3>1 DEF ExitOK
  <2>2. CASE exitEvent' = exitEvent /\ exitEvent # "none" /\ new.handles > 0
    BY <2>2, <1>1
  <2>3. CASE exitEvent' = Event(svc, proc', exitEvent) /\ (new.handles > 0 => proc[p].handles > 0)
    <3>1. exitEvent' = IF Open THEN exitEvent ELSE "none"
      BY <2>3 DEF Event
    <3>2. \A q \in Procs : proc'[q].handles > 0 => proc[q].handles > 0
      BY <2>3, <1>1
    <3>3. Open => exitEvent # "none"
      BY <3>2 DEF ExitOK
    <3> QED
      BY <3>1, <3>3
  <2> QED
    BY <2>1, <2>2, <2>3
<1>3. exitEvent' \in {exitEvent, "none"}
  BY DEF Event
<1> QED
  BY <1>2, <1>3 DEF ExitOK

LEMMA OneGens ==
  ASSUME ProcsOK, GensOK, svc' = svc, killed' = killed, slow' = slow,
         NEW p \in Procs, NEW new, proc' = [proc EXCEPT ![p] = new],
         \/ new.at = "none"
         \/ /\ proc[p].at # "none" /\ new.gen = proc[p].gen /\ (proc[p].told => new.told)
            /\ proc[p].handles > 0 => new.handles > 0 \/ new.told
  PROVE  GensOK'
<1>1. \A q \in Procs : proc'[q] = IF q = p THEN new ELSE proc[q]
  BY DEF ProcsOK
<1>2. Accounted(proc[p]) => Accounted(new)
  BY DEF Accounted
<1>3. ~killed /\ ~slow => \A q \in Procs : Accounted(proc'[q])
  BY <1>1, <1>2 DEF GensOK
<1> QED
  BY <1>3 DEF GensOK, Accounted

LEMMA OneNetcmd ==
  ASSUME ProcsOK, NetcmdOK, NEW p \in Procs, NEW new, proc' = [proc EXCEPT ![p] = new],
         netcmd' = netcmd, lostNetcmd' = lostNetcmd, Holds(new) <=> Holds(proc[p])
  PROVE  NetcmdOK'
<1>1. \A q \in Procs : proc'[q] = IF q = p THEN new ELSE proc[q]
  BY DEF ProcsOK
<1>2. \A q \in Procs : Holds(proc'[q]) <=> Holds(proc[q])
  BY <1>1
<1> QED
  BY <1>2 DEF NetcmdOK, Holds

\* The process ends, with the count or, if it was killed, without giving it back.
LEMMA EndNetcmd ==
  ASSUME ProcsOK, NetcmdOK, NEW p \in Procs, proc' = [proc EXCEPT ![p] = NoProcess],
         NEW n \in Nat, NEW l \in BOOLEAN, netcmd' = NetcmdCount(proc', n),
         lostNetcmd' = (l /\ \E q \in Procs : proc'[q].hand),
         \/ n = (IF Holds(proc[p]) THEN netcmd + 1 ELSE netcmd) /\ l = lostNetcmd
         \/ n = netcmd /\ l = (lostNetcmd \/ Holds(proc[p]))
  PROVE  NetcmdOK'
<1> DEFINE hand == \E q \in Procs : proc'[q].hand
<1>1. \A q \in Procs : proc'[q] = IF q = p THEN NoProcess ELSE proc[q]
  BY DEF ProcsOK
<1>2. \A q \in Procs : Holds(proc'[q]) <=> q # p /\ Holds(proc[q])
  BY <1>1 DEF Holds, NoProcess
<1>3. CASE ~hand
  <2>1. netcmd' = 1 /\ lostNetcmd' = FALSE
    BY <1>3 DEF NetcmdCount
  <2>2. \A q \in Procs : ~Holds(proc'[q])
    BY <1>3 DEF Holds
  <2> QED
    BY <2>1, <2>2 DEF NetcmdOK, Holds
<1>4. CASE hand /\ Holds(proc[p])
  <2>1. netcmd = 0 /\ lostNetcmd = FALSE /\ \A q \in Procs : ~Holds(proc'[q])
    BY <1>2, <1>4 DEF NetcmdOK
  <2>2. netcmd' = n /\ lostNetcmd' = l /\ lostNetcmd' \in BOOLEAN
    BY <1>4 DEF NetcmdCount
  <2>3. (netcmd' = 1 /\ lostNetcmd' = FALSE) \/ (netcmd' = 0 /\ lostNetcmd' = TRUE)
    BY <1>4, <2>1, <2>2
  <2> QED
    BY <2>1, <2>3 DEF NetcmdOK, Holds
<1>5. CASE hand /\ ~Holds(proc[p])
  <2>1. netcmd' = netcmd /\ lostNetcmd' = lostNetcmd
    <3>1. netcmd' = n /\ lostNetcmd' = l
      BY <1>5 DEF NetcmdCount
    <3>2. n = netcmd /\ l = lostNetcmd
      BY <1>5 DEF NetcmdOK
    <3> QED
      BY <3>1, <3>2
  <2>2. \A q \in Procs : Holds(proc'[q]) <=> Holds(proc[q])
    BY <1>2, <1>5
  <2> QED
    BY <2>1, <2>2 DEF NetcmdOK, Holds
<1> QED
  BY <1>3, <1>4, <1>5

\* exit (), whatever leads to it.
LEMMA ExitInv ==
  ASSUME SInv, NEW p \in Procs, OpenvpnExit(p), svc' = svc, killed' = killed, slow' = slow
  PROVE  SInv'
<1>1. /\ proc' = [proc EXCEPT ![p] = NoProcess] /\ exitEvent' = Event(svc, proc', exitEvent)
      /\ netcmd' = NetcmdCount(proc', IF proc[p].lock = "hold" /\ proc[p].hand THEN netcmd + 1 ELSE netcmd)
      /\ lostNetcmd' = (lostNetcmd /\ \E q \in Procs : proc'[q].hand)
  BY DEF OpenvpnExit
<1>2. NoProcess.at = "none" /\ NoProcess.handles = 0 /\ NoProcess.gen = 0 /\ NoProcess \in ProcRec
  BY NoProcessOK DEF NoProcess, ProcOK
<1>3. NoProcess.gen <= svc.gen /\ ~(NoProcess.handles > 0) /\ netcmd \in 0 .. 1 /\ lostNetcmd \in BOOLEAN
  <2>1. svc.gen \in Nat
    BY ServiceAssumption DEF SInv, ExitOK, SvcRec
  <2> QED
    BY <1>2, <2>1 DEF SInv, NetcmdOK
<1>4. ProcsOK'
  BY <1>1, <1>2, <1>3, NoProcessOK, OneProcs DEF SInv
<1>5. ExitOK'
  BY <1>1, <1>2, <1>3, OneExit DEF SInv
<1>6. GensOK'
  BY <1>1, <1>2, OneGens DEF SInv
<1>7. NetcmdOK'
  <2> DEFINE n == IF Holds(proc[p]) THEN netcmd + 1 ELSE netcmd
  <2>1. n \in Nat /\ netcmd' = NetcmdCount(proc', n)
    BY <1>1, <1>3 DEF Holds
  <2> HIDE DEF n
  <2>2. n = IF Holds(proc[p]) THEN netcmd + 1 ELSE netcmd
    BY DEF n
  <2> QED
    BY <1>1, <1>3, <2>1, <2>2, EndNetcmd DEF SInv
<1> QED
  BY <1>4, <1>5, <1>6, <1>7 DEF SInv

\* Any other step of a process that leaves the semaphore alone.
LEMMA StepInv ==
  ASSUME SInv, svc' = svc, killed' = killed, slow' = slow,
         NEW p \in Procs, NEW new, proc' = [proc EXCEPT ![p] = new], ProcOK(new),
         netcmd' = netcmd, lostNetcmd' = lostNetcmd, Holds(new) <=> Holds(proc[p]),
         proc[p].at # "none", new.gen = proc[p].gen, proc[p].told => new.told,
         proc[p].handles > 0 => new.handles > 0 \/ new.told,
         \/ exitEvent' = exitEvent /\ (new.handles > 0 <=> proc[p].handles > 0)
         \/ exitEvent' = exitEvent /\ exitEvent # "none" /\ new.handles > 0
         \/ exitEvent' = Event(svc, proc', exitEvent) /\ (new.handles > 0 => proc[p].handles > 0)
  PROVE  SInv'
<1>1. new \in ProcRec /\ new.gen <= svc.gen
  BY DEF SInv, ProcsOK, ProcOK
<1>2. ProcsOK'
  BY <1>1, OneProcs DEF SInv
<1>3. ExitOK'
  BY <1>1, OneExit DEF SInv
<1>4. GensOK'
  BY OneGens DEF SInv
<1>5. NetcmdOK'
  BY OneNetcmd DEF SInv
<1> QED
  BY <1>2, <1>3, <1>4, <1>5 DEF SInv

-----------------------------------------------------------------------------
(* The steps of a process.                                                 *)

LEMMA InitWin32Inv ==
  ASSUME SInv, NEW p \in Procs, InitWin32(p) PROVE SInv'
<1>1. PICK ok \in BOOLEAN : proc' = [proc EXCEPT ![p].at = "setup", ![p].hand = ok]
  BY DEF InitWin32
<1> DEFINE new == [proc[p] EXCEPT !.at = "setup", !.hand = ok]
<1>2. proc' = [proc EXCEPT ![p] = new]
  BY <1>1 DEF SInv, ProcsOK
<1>3. proc[p] \in ProcRec /\ ProcOK(proc[p]) /\ proc[p].at = "new"
  BY DEF SInv, ProcsOK, InitWin32
<1>4. new \in ProcRec
  BY <1>3 DEF ProcRec
<1>5. /\ new.at = "setup" /\ new.hand = ok /\ new.lock = "no" /\ new.gen = proc[p].gen /\ new.told = proc[p].told
      /\ new.handles = 0 /\ proc[p].handles = 0 /\ new.mode = "undef" /\ new.sig = "none" /\ new.restarts = proc[p].restarts
      /\ proc[p].lock = "no" /\ proc[p].restarts \in Nat
  BY <1>3, ServiceAssumption DEF ProcOK, ProcRec
<1> HIDE DEF new
<1>6. ProcOK(new)
  BY <1>4, <1>5 DEF ProcOK
<1>7. Holds(new) <=> Holds(proc[p])
  BY <1>5 DEF Holds
<1>8. svc' = svc /\ killed' = killed /\ slow' = slow /\ netcmd' = netcmd /\ lostNetcmd' = lostNetcmd
      /\ exitEvent' = exitEvent /\ proc[p].at # "none"
  BY DEF InitWin32
<1> QED
  BY <1>2, <1>5, <1>6, <1>7, <1>8, StepInv

LEMMA PreSetupInv ==
  ASSUME SInv, NEW p \in Procs, PreSetup(p) PROVE SInv'
<1>1. svc' = svc /\ killed' = killed /\ slow' = slow /\ proc[p].at = "setup"
  BY DEF PreSetup
<1>2. CASE CreateEvent("set") = "set"
  <2>1. OpenvpnExit(p)
    BY <1>2 DEF PreSetup
  <2> QED
    BY <1>1, <2>1, ExitInv
<1>3. CASE CreateEvent("set") # "set"
  <2>1. /\ proc' = [proc EXCEPT ![p].at = "up", ![p].mode = "service", ![p].handles = @ + 1]
        /\ exitEvent' = CreateEvent("set") /\ netcmd' = netcmd /\ lostNetcmd' = lostNetcmd
    BY <1>3 DEF PreSetup
  <2>2. exitEvent' = exitEvent /\ exitEvent # "none"
    BY <1>3, <2>1 DEF CreateEvent
  <2> DEFINE new == [proc[p] EXCEPT !.at = "up", !.mode = "service", !.handles = @ + 1]
  <2>3. proc' = [proc EXCEPT ![p] = new]
    BY <2>1 DEF SInv, ProcsOK
  <2>4. proc[p] \in ProcRec /\ ProcOK(proc[p])
    BY DEF SInv, ProcsOK
  <2>5. /\ new.at = "up" /\ new.hand = proc[p].hand /\ new.lock = proc[p].lock /\ new.gen = proc[p].gen
        /\ new.told = proc[p].told /\ new.mode = "service" /\ new.sig = "none" /\ new.restarts = proc[p].restarts
        /\ new.handles = proc[p].handles + 1 /\ proc[p].handles \in Nat
        /\ proc[p].handles <= proc[p].restarts /\ proc[p].restarts \in 0 .. MaxProcRestarts
    BY <1>1, <2>4, ServiceAssumption DEF ProcOK, ProcRec
  <2>6. new \in ProcRec
    <3> DEFINE k1 == [proc[p] EXCEPT !.at = "up"]
               k2 == [k1 EXCEPT !.mode = "service"]
               n == proc[p].handles + 1
    <3>1. k1 \in ProcRec /\ k1.handles = proc[p].handles
      BY <2>4 DEF ProcRec
    <3>2. n \in 0 .. MaxProcRestarts + 1
      BY <2>5, ServiceAssumption
    <3>3. new = [k2 EXCEPT !.handles = n]
      OBVIOUS
    <3> HIDE DEF k1, n, new
    <3>4. k2 \in ProcRec
      BY <3>1 DEF ProcRec
    <3> HIDE DEF k2
    <3> QED
      BY <3>2, <3>3, <3>4 DEF ProcRec
  <2> HIDE DEF new
  <2>7. ProcOK(new)
    BY <2>4, <2>5, <2>6 DEF ProcOK
  <2>8. (Holds(new) <=> Holds(proc[p])) /\ new.handles > 0
    BY <2>5 DEF Holds
  <2> QED
    BY <1>1, <2>1, <2>2, <2>3, <2>5, <2>7, <2>8, StepInv
<1> QED
  BY <1>2, <1>3

LEMMA PreSetupDeafInv ==
  ASSUME SInv, NEW p \in Procs, PreSetupDeaf(p) PROVE SInv'
<1> DEFINE new == [proc[p] EXCEPT !.at = "up", !.mode = "undef"]
<1>1. proc' = [proc EXCEPT ![p] = new]
  BY DEF SInv, ProcsOK, PreSetupDeaf
<1>2. proc[p] \in ProcRec /\ ProcOK(proc[p]) /\ proc[p].at = "setup"
  BY DEF SInv, ProcsOK, PreSetupDeaf
<1>3. new \in ProcRec
  BY <1>2 DEF ProcRec
<1>4. /\ new.at = "up" /\ new.hand = proc[p].hand /\ new.lock = proc[p].lock /\ new.gen = proc[p].gen
      /\ new.told = proc[p].told /\ new.handles = proc[p].handles /\ new.mode = "undef" /\ new.sig = "none"
      /\ new.restarts = proc[p].restarts /\ proc[p].handles \in Nat
      /\ proc[p].handles <= proc[p].restarts /\ proc[p].restarts \in Nat
  BY <1>2, ServiceAssumption DEF ProcOK, ProcRec
<1> HIDE DEF new
<1>5. ProcOK(new)
  BY <1>2, <1>3, <1>4 DEF ProcOK
<1>6. Holds(new) <=> Holds(proc[p])
  BY <1>4 DEF Holds
<1>7. svc' = svc /\ killed' = killed /\ slow' = slow /\ netcmd' = netcmd /\ lostNetcmd' = lostNetcmd
      /\ exitEvent' = exitEvent
  BY DEF PreSetupDeaf
<1> QED
  BY <1>1, <1>2, <1>4, <1>5, <1>6, <1>7, StepInv

LEMMA GetSignalInv ==
  ASSUME SInv, NEW p \in Procs, GetSignal(p) PROVE SInv'
<1> DEFINE new == [proc[p] EXCEPT !.sig = "TERM", !.told = TRUE]
<1>1. proc' = [proc EXCEPT ![p] = new]
  BY DEF SInv, ProcsOK, GetSignal
<1>2. proc[p] \in ProcRec /\ ProcOK(proc[p]) /\ proc[p].at = "up" /\ proc[p].sig = "none"
  BY DEF SInv, ProcsOK, GetSignal
<1>3. new \in ProcRec
  BY <1>2 DEF ProcRec
<1>4. /\ new.at = "up" /\ new.hand = proc[p].hand /\ new.lock = proc[p].lock /\ new.gen = proc[p].gen
      /\ new.told = TRUE /\ new.handles = proc[p].handles /\ new.mode = proc[p].mode /\ new.sig = "TERM"
      /\ new.restarts = proc[p].restarts
  BY <1>2 DEF ProcRec
<1> HIDE DEF new
<1>5. ProcOK(new)
  BY <1>2, <1>3, <1>4 DEF ProcOK
<1>6. Holds(new) <=> Holds(proc[p])
  BY <1>4 DEF Holds
<1>7. svc' = svc /\ killed' = killed /\ slow' = slow /\ netcmd' = netcmd /\ lostNetcmd' = lostNetcmd
      /\ exitEvent' = exitEvent
  BY DEF GetSignal
<1> QED
  BY <1>1, <1>2, <1>4, <1>5, <1>6, <1>7, StepInv

LEMMA ThrowSignalInv ==
  ASSUME SInv, NEW p \in Procs, ThrowSignal(p) PROVE SInv'
<1>1. PICK s \in {"USR1", "HUP", "TERM"} :
         proc' = [proc EXCEPT ![p].sig = s, ![p].restarts = @ + 1, ![p].told = @ \/ s = "TERM"]
  BY DEF ThrowSignal
<1> DEFINE t == proc[p].told \/ s = "TERM"
           n == proc[p].restarts + 1
           k1 == [proc[p] EXCEPT !.sig = s]
           k2 == [k1 EXCEPT !.restarts = n]
           new == [k2 EXCEPT !.told = t]
<1>2. proc' = [proc EXCEPT ![p] = new]
  BY <1>1 DEF SInv, ProcsOK
<1>3. proc[p] \in ProcRec /\ ProcOK(proc[p]) /\ proc[p].at \in {"up", "notify"} /\ proc[p].sig = "none"
      /\ proc[p].restarts < MaxProcRestarts /\ proc[p].restarts \in 0 .. MaxProcRestarts
      /\ proc[p].handles \in 0 .. MaxProcRestarts + 1
  BY DEF SInv, ProcsOK, ThrowSignal, ProcRec
<1>4. t \in BOOLEAN /\ n \in 0 .. MaxProcRestarts /\ (s = "TERM" => t) /\ (proc[p].told => t)
  BY <1>3, ServiceAssumption DEF ProcRec
<1>5. /\ new.at = proc[p].at /\ new.hand = proc[p].hand /\ new.lock = proc[p].lock /\ new.gen = proc[p].gen
      /\ new.told = t /\ new.handles = proc[p].handles /\ new.mode = proc[p].mode /\ new.sig = s /\ new.restarts = n
  BY <1>3 DEF ProcRec
<1> HIDE DEF new, t
<1>6. new \in ProcRec
  <2> HIDE DEF n
  <2>1. k1 \in ProcRec
    BY <1>3 DEF ProcRec
  <2> HIDE DEF k1
  <2>2. k2 \in ProcRec
    BY <1>4, <2>1 DEF ProcRec
  <2> HIDE DEF k2
  <2> QED
    BY <1>4, <2>2 DEF ProcRec, new
<1>7. ProcOK(new)
  <2>1. new.handles <= new.restarts
    BY <1>3, <1>5, ServiceAssumption DEF ProcOK
  <2>2. new.handles <= new.restarts + (IF new.at \in {"up", "notify"} /\ new.sig # "HUP" THEN 1 ELSE 0)
    BY <2>1, <1>3, <1>5, ServiceAssumption
  <2> QED
    BY <1>3, <1>4, <1>5, <1>6, <2>2 DEF ProcOK
<1>8. Holds(new) <=> Holds(proc[p])
  BY <1>5 DEF Holds
<1>9. svc' = svc /\ killed' = killed /\ slow' = slow /\ netcmd' = netcmd /\ lostNetcmd' = lostNetcmd
      /\ exitEvent' = exitEvent
  BY DEF ThrowSignal
<1> QED
  BY <1>2, <1>3, <1>4, <1>5, <1>7, <1>8, <1>9, StepInv

LEMMA ProcRestartInv ==
  ASSUME SInv, NEW p \in Procs, ProcRestart(p) PROVE SInv'
<1> DEFINE a == IF proc[p].sig = "HUP" THEN "setup" ELSE "up"
           new == [proc[p] EXCEPT !.sig = "none", !.at = a]
<1>1. proc' = [proc EXCEPT ![p] = new]
  BY DEF SInv, ProcsOK, ProcRestart
<1>2. proc[p] \in ProcRec /\ ProcOK(proc[p]) /\ proc[p].at \in {"up", "notify"} /\ proc[p].sig \in {"USR1", "HUP"}
      /\ proc[p].restarts \in Nat /\ proc[p].handles \in Nat /\ proc[p].lock = "no"
  BY ServiceAssumption DEF SInv, ProcsOK, ProcRestart, ProcRec
<1>3. a \in {"setup", "up"} /\ (a = "setup" <=> proc[p].sig = "HUP")
  OBVIOUS
<1>4. /\ new.at = a /\ new.hand = proc[p].hand /\ new.lock = proc[p].lock /\ new.gen = proc[p].gen
      /\ new.told = proc[p].told /\ new.handles = proc[p].handles /\ new.mode = proc[p].mode /\ new.sig = "none"
      /\ new.restarts = proc[p].restarts
  BY <1>2 DEF ProcRec
<1> HIDE DEF a
<1>5. new \in ProcRec
  BY <1>2, <1>3 DEF ProcRec
<1> HIDE DEF new
<1>6. ProcOK(new)
  BY <1>2, <1>3, <1>4, <1>5 DEF ProcOK
<1>7. Holds(new) <=> Holds(proc[p])
  BY <1>4 DEF Holds
<1>8. svc' = svc /\ killed' = killed /\ slow' = slow /\ netcmd' = netcmd /\ lostNetcmd' = lostNetcmd
      /\ exitEvent' = exitEvent
  BY DEF ProcRestart
<1> QED
  BY <1>1, <1>2, <1>4, <1>6, <1>7, <1>8, StepInv

LEMMA ExitNotifyInv ==
  ASSUME SInv, NEW p \in Procs, ExitNotify(p) PROVE SInv'
<1> DEFINE h == IF proc[p].mode = "service" THEN proc[p].handles - 1 ELSE proc[p].handles
           k1 == [proc[p] EXCEPT !.at = "notify"]
           k2 == [k1 EXCEPT !.mode = "undef"]
           k3 == [k2 EXCEPT !.sig = "none"]
           new == [k3 EXCEPT !.handles = h]
<1>1. proc' = [proc EXCEPT ![p] = new]
  BY DEF SInv, ProcsOK, ExitNotify
<1>2. proc[p] \in ProcRec /\ ProcOK(proc[p]) /\ proc[p].at = "up" /\ proc[p].sig = "TERM"
      /\ proc[p].restarts \in Nat /\ proc[p].handles \in 0 .. MaxProcRestarts + 1 /\ proc[p].lock = "no"
  BY ServiceAssumption DEF SInv, ProcsOK, ExitNotify, ProcRec
<1>3. h \in 0 .. MaxProcRestarts + 1 /\ h <= proc[p].handles
  BY <1>2, ServiceAssumption DEF ProcOK
<1>4. /\ new.at = "notify" /\ new.hand = proc[p].hand /\ new.lock = proc[p].lock /\ new.gen = proc[p].gen
      /\ new.told = proc[p].told /\ new.handles = h /\ new.mode = "undef" /\ new.sig = "none"
      /\ new.restarts = proc[p].restarts
  BY <1>2 DEF ProcRec
<1> HIDE DEF new, h
<1>5. new \in ProcRec
  <2>1. k1 \in ProcRec
    BY <1>2 DEF ProcRec
  <2> HIDE DEF k1
  <2>2. k2 \in ProcRec
    BY <2>1 DEF ProcRec
  <2> HIDE DEF k2
  <2>3. k3 \in ProcRec
    BY <2>2 DEF ProcRec
  <2> HIDE DEF k3
  <2> QED
    BY <1>3, <2>3 DEF ProcRec, new
<1>6. ProcOK(new)
  <2>1. new.handles <= new.restarts + 1
    BY <1>2, <1>3, <1>4, ServiceAssumption DEF ProcOK
  <2> QED
    BY <1>2, <1>4, <1>5, <2>1 DEF ProcOK
<1>7. (Holds(new) <=> Holds(proc[p])) /\ (new.handles > 0 => proc[p].handles > 0) /\ proc[p].told
  BY <1>2, <1>3, <1>4, ServiceAssumption DEF Holds, ProcOK
<1>8. svc' = svc /\ killed' = killed /\ slow' = slow /\ netcmd' = netcmd /\ lostNetcmd' = lostNetcmd
      /\ exitEvent' = Event(svc, proc', exitEvent)
  BY DEF ExitNotify
<1> QED
  BY <1>1, <1>2, <1>4, <1>6, <1>7, <1>8, StepInv

LEMMA NetcmdLockInv ==
  ASSUME SInv, NEW p \in Procs, NetcmdLock(p) PROVE SInv'
<1> DEFINE l == IF proc[p].hand THEN "wait" ELSE "hold"
           n == proc[p].restarts + 1
           k1 == [proc[p] EXCEPT !.lock = l]
           new == [k1 EXCEPT !.restarts = n]
<1>1. proc' = [proc EXCEPT ![p] = new]
  BY DEF SInv, ProcsOK, NetcmdLock
<1>2. proc[p] \in ProcRec /\ ProcOK(proc[p]) /\ proc[p].at \in {"up", "notify"} /\ proc[p].lock = "no"
      /\ proc[p].restarts \in 0 .. MaxProcRestarts /\ proc[p].restarts < MaxProcRestarts
      /\ proc[p].handles \in 0 .. MaxProcRestarts + 1
  BY DEF SInv, ProcsOK, NetcmdLock, ProcRec
<1>3. n \in 0 .. MaxProcRestarts /\ l \in {"wait", "hold"} /\ (l = "wait" <=> proc[p].hand)
  BY <1>2, ServiceAssumption DEF ProcRec
<1>4. /\ new.at = proc[p].at /\ new.hand = proc[p].hand /\ new.lock = l /\ new.gen = proc[p].gen
      /\ new.told = proc[p].told /\ new.handles = proc[p].handles /\ new.mode = proc[p].mode
      /\ new.sig = proc[p].sig /\ new.restarts = n
  BY <1>2 DEF ProcRec
<1> HIDE DEF new, l
<1>5. new \in ProcRec
  <2> HIDE DEF n
  <2>1. k1 \in ProcRec
    BY <1>2, <1>3 DEF ProcRec
  <2> HIDE DEF k1
  <2> QED
    BY <1>3, <2>1 DEF ProcRec, new
<1>6. ProcOK(new)
  <2>1. new.handles <= new.restarts + (IF new.at \in {"up", "notify"} /\ new.sig # "HUP" THEN 1 ELSE 0)
    BY <1>2, <1>4, ServiceAssumption DEF ProcOK
  <2> QED
    BY <1>2, <1>3, <1>4, <1>5, <2>1 DEF ProcOK
<1>7. Holds(new) <=> Holds(proc[p])
  BY <1>2, <1>3, <1>4 DEF Holds
<1>8. svc' = svc /\ killed' = killed /\ slow' = slow /\ netcmd' = netcmd /\ lostNetcmd' = lostNetcmd
      /\ exitEvent' = exitEvent
  BY DEF NetcmdLock
<1> QED
  BY <1>1, <1>2, <1>4, <1>6, <1>7, <1>8, StepInv

\* The two steps that move the count between the semaphore and a process.
LEMMA LockStep ==
  ASSUME SInv, NEW p \in Procs, NEW l \in {"no", "hold"}, proc' = [proc EXCEPT ![p].lock = l],
         UNCHANGED <<svc, exitEvent, slow, killed>>, proc[p].at \notin {"none", "new"},
         NetcmdOK'
  PROVE  SInv'
<1> DEFINE new == [proc[p] EXCEPT !.lock = l]
<1>1. proc' = [proc EXCEPT ![p] = new]
  BY DEF SInv, ProcsOK
<1>2. proc[p] \in ProcRec /\ ProcOK(proc[p])
  BY DEF SInv, ProcsOK
<1>3. new \in ProcRec
  BY <1>2 DEF ProcRec
<1>4. /\ new.at = proc[p].at /\ new.hand = proc[p].hand /\ new.lock = l /\ new.gen = proc[p].gen
      /\ new.told = proc[p].told /\ new.handles = proc[p].handles /\ new.mode = proc[p].mode
      /\ new.sig = proc[p].sig /\ new.restarts = proc[p].restarts
  BY <1>2 DEF ProcRec
<1> HIDE DEF new
<1>5. ProcOK(new) /\ new.gen <= svc.gen
  <2>1. ProcOK(new)
    BY <1>2, <1>3, <1>4 DEF ProcOK
  <2> QED
    BY <1>4, <2>1 DEF SInv, ProcsOK
<1>6. ProcsOK'
  BY <1>1, <1>5, OneProcs DEF SInv
<1>7. ExitOK'
  BY <1>1, <1>3, <1>4, OneExit DEF SInv
<1>8. GensOK'
  BY <1>1, <1>4, OneGens, ZenonT(30) DEF SInv
<1> QED
  BY <1>6, <1>7, <1>8 DEF SInv

LEMMA NetcmdFree ==
  ASSUME netcmd' = 1, lostNetcmd' = FALSE, \A q \in Procs : ~Holds(proc'[q])
  PROVE  NetcmdOK'
<1>1. netcmd' \in 0 .. 1 /\ ~(netcmd' = 0)
  OBVIOUS
<1>2. lostNetcmd' \in BOOLEAN /\ ~lostNetcmd'
  OBVIOUS
<1> QED
  BY <1>1, <1>2, Zenon DEF NetcmdOK, Holds

LEMMA NetcmdTaken ==
  ASSUME NEW p \in Procs, netcmd' = 0, lostNetcmd' = FALSE, \A q \in Procs : Holds(proc'[q]) <=> q = p
  PROVE  NetcmdOK'
<1>1. netcmd' \in 0 .. 1 /\ ~(netcmd' = 1)
  OBVIOUS
<1>2. lostNetcmd' \in BOOLEAN /\ ~lostNetcmd'
  OBVIOUS
<1>3. Holds(proc'[p]) /\ \A q, r \in Procs : Holds(proc'[q]) /\ Holds(proc'[r]) => q = r
  OBVIOUS
<1> QED
  BY <1>1, <1>2, <1>3, Zenon DEF NetcmdOK, Holds

LEMMA SemaphoreLockInv ==
  ASSUME SInv, NEW p \in Procs, SemaphoreLock(p) PROVE SInv'
<1>1. proc' = [proc EXCEPT ![p].lock = "hold"] /\ netcmd' = netcmd - 1 /\ netcmd > 0 /\ proc[p].lock = "wait"
      /\ UNCHANGED <<svc, exitEvent, lostNetcmd, slow, killed>>
  BY DEF SemaphoreLock
<1>2. proc[p].at \notin {"none", "new"} /\ proc[p].hand
  BY <1>1 DEF SInv, ProcsOK, ProcOK
<1>3. netcmd = 1 /\ netcmd' = 0 /\ lostNetcmd = FALSE /\ \A q \in Procs : ~Holds(proc[q])
  BY <1>1 DEF SInv, NetcmdOK
<1>4. \A q \in Procs : Holds(proc'[q]) <=> q = p
  <2>1. \A q \in Procs \ {p} : proc'[q] = proc[q]
    BY <1>1 DEF SInv, ProcsOK
  <2>2. proc'[p].lock = "hold" /\ proc'[p].hand = proc[p].hand
    BY <1>1 DEF SInv, ProcsOK, ProcRec
  <2> QED
    BY <1>2, <1>3, <2>1, <2>2 DEF Holds
<1>5. NetcmdOK'
  <2>1. netcmd' = 0 /\ lostNetcmd' = FALSE
    BY <1>1, <1>3
  <2> QED
    BY <1>4, <2>1, NetcmdTaken
<1> QED
  BY <1>1, <1>2, <1>5, LockStep

LEMMA NetcmdReleaseInv ==
  ASSUME SInv, NEW p \in Procs, NetcmdRelease(p) PROVE SInv'
<1>1. proc' = [proc EXCEPT ![p].lock = "no"] /\ netcmd' = (IF proc[p].hand THEN netcmd + 1 ELSE netcmd)
      /\ proc[p].lock = "hold" /\ UNCHANGED <<svc, exitEvent, lostNetcmd, slow, killed>>
  BY DEF NetcmdRelease
<1>2. proc[p].at \notin {"none", "new"}
  BY <1>1 DEF SInv, ProcsOK, ProcOK
<1>3. \A q \in Procs : Holds(proc'[q]) <=> q # p /\ Holds(proc[q])
  <2>1. \A q \in Procs \ {p} : proc'[q] = proc[q]
    BY <1>1 DEF SInv, ProcsOK
  <2>2. proc'[p].lock = "no"
    BY <1>1 DEF SInv, ProcsOK, ProcRec
  <2> QED
    BY <2>1, <2>2 DEF Holds
<1>4. CASE proc[p].hand
  <2>1. Holds(proc[p])
    BY <1>1, <1>4 DEF Holds
  <2>2. netcmd = 0 /\ netcmd' = 1 /\ lostNetcmd = FALSE /\ \A q \in Procs : ~Holds(proc'[q])
    BY <1>1, <1>3, <1>4, <2>1 DEF SInv, NetcmdOK
  <2>3. lostNetcmd' = FALSE
    BY <1>1, <2>2
  <2>4. NetcmdOK'
    BY <2>2, <2>3, NetcmdFree
  <2> QED
    BY <1>1, <1>2, <2>4, LockStep
<1>5. CASE ~proc[p].hand
  <2>1. \A q \in Procs : Holds(proc'[q]) <=> Holds(proc[q])
    BY <1>3, <1>5 DEF Holds
  <2>2. NetcmdOK'
    BY <1>1, <1>5, <2>1 DEF SInv, NetcmdOK, Holds
  <2> QED
    BY <1>1, <1>2, <2>2, LockStep
<1> QED
  BY <1>4, <1>5

LEMMA ProcKilledInv ==
  ASSUME SInv, NEW p \in Procs, ProcKilled(p) PROVE SInv'
<1>1. /\ proc' = [proc EXCEPT ![p] = NoProcess] /\ exitEvent' = Event(svc, proc', exitEvent)
      /\ netcmd' = NetcmdCount(proc', netcmd)
      /\ lostNetcmd' = ((lostNetcmd \/ (proc[p].lock = "hold" /\ proc[p].hand)) /\ \E q \in Procs : proc'[q].hand)
      /\ svc' = svc /\ killed' = killed /\ slow' = slow
  BY DEF ProcKilled
<1>2. NoProcess.at = "none" /\ NoProcess.handles = 0 /\ NoProcess.gen = 0 /\ NoProcess \in ProcRec
  BY NoProcessOK DEF NoProcess, ProcOK
<1>3. NoProcess.gen <= svc.gen /\ ~(NoProcess.handles > 0) /\ netcmd \in 0 .. 1 /\ lostNetcmd \in BOOLEAN
  <2>1. svc.gen \in Nat
    BY ServiceAssumption DEF SInv, ExitOK, SvcRec
  <2> QED
    BY <1>2, <2>1 DEF SInv, NetcmdOK
<1>4. ProcsOK'
  BY <1>1, <1>2, <1>3, NoProcessOK, OneProcs DEF SInv
<1>5. ExitOK'
  BY <1>1, <1>2, <1>3, OneExit DEF SInv
<1>6. GensOK'
  BY <1>1, <1>2, OneGens DEF SInv
<1>7. NetcmdOK'
  <2> DEFINE l == lostNetcmd \/ Holds(proc[p])
  <2>1. l \in BOOLEAN /\ lostNetcmd' = (l /\ \E q \in Procs : proc'[q].hand)
    BY <1>1, <1>3 DEF Holds
  <2> HIDE DEF l
  <2>2. l = (lostNetcmd \/ Holds(proc[p])) /\ netcmd \in Nat
    BY <1>3 DEF l
  <2> QED
    BY <1>1, <2>1, <2>2, EndNetcmd DEF SInv
<1> QED
  BY <1>4, <1>5, <1>6, <1>7 DEF SInv

-----------------------------------------------------------------------------
(* The steps of the service.                                               *)

LEMMA SameNetcmd ==
  ASSUME NetcmdOK, UNCHANGED <<proc, netcmd, lostNetcmd>> PROVE NetcmdOK'
  BY DEF NetcmdOK, Holds

LEMMA SameProcs ==
  ASSUME ProcsOK, proc' = proc, svc'.gen = svc.gen PROVE ProcsOK'
  BY DEF ProcsOK, ProcOK

LEMMA ServiceStartInv ==
  ASSUME SInv, ServiceStart PROVE SInv'
<1>1. /\ svc.at = "stopped" /\ svc.gen < MaxServices /\ svc \in SvcRec /\ svc.handle = FALSE
      /\ svc.gen \in Nat /\ svc.gen + 1 \in 0 .. MaxServices
      /\ UNCHANGED <<proc, netcmd, lostNetcmd, slow, killed>>
  BY ServiceAssumption DEF SInv, ExitOK, SvcRec, ServiceStart
<1>2. svc'.gen = svc.gen + 1 /\ svc' \in SvcRec
  <2>1. CASE svc' = [at |-> IF exitEvent' = "set" THEN "finish" ELSE "spawn",
                     files |-> ConfigFiles, handle |-> TRUE, gen |-> svc.gen + 1]
    BY <1>1, <2>1 DEF SvcRec
  <2>2. CASE svc' = [svc EXCEPT !.at = "finish", !.handle = FALSE, !.gen = @ + 1]
    <3> DEFINE n == svc.gen + 1
               k1 == [svc EXCEPT !.at = "finish"]
               k2 == [k1 EXCEPT !.handle = FALSE]
    <3>1. svc' = [k2 EXCEPT !.gen = n]
      BY <1>1, <2>2 DEF SvcRec
    <3>2. k1 \in SvcRec
      BY <1>1 DEF SvcRec
    <3> HIDE DEF k1
    <3>3. k2 \in SvcRec
      BY <3>2 DEF SvcRec
    <3> HIDE DEF k2, n
    <3>4. n \in 0 .. MaxServices
      BY <1>1 DEF n
    <3> QED
      BY <3>1, <3>3, <3>4 DEF SvcRec, n
  <2> QED
    BY <2>1, <2>2 DEF ServiceStart
<1>3. \A p \in Procs : proc[p] \in ProcRec /\ proc[p].gen <= svc.gen /\ proc[p].gen \in Nat
  BY ServiceAssumption DEF SInv, ProcsOK, ProcRec
<1>4. ProcsOK'
  <2>1. \A p \in Procs : proc[p].gen <= svc'.gen
    BY <1>1, <1>2, <1>3
  <2> QED
    BY <1>1, <2>1 DEF SInv, ProcsOK, ProcOK
<1>5. NetcmdOK'
  BY <1>1, SameNetcmd DEF SInv
<1>6. CASE /\ exitEvent' = CreateEvent("clear")
           /\ svc' = [at |-> IF exitEvent' = "set" THEN "finish" ELSE "spawn",
                      files |-> ConfigFiles, handle |-> TRUE, gen |-> svc.gen + 1]
  <2>1. exitEvent' # "none" /\ exitEvent' \in {"none", "clear", "set"}
    BY <1>6 DEF CreateEvent, SInv, ExitOK
  <2>2. svc'.handle = TRUE /\ svc'.at = IF exitEvent' = "set" THEN "finish" ELSE "spawn"
    BY <1>6
  <2>3. ExitOK'
    BY <1>1, <1>2, <2>1, <2>2 DEF SInv, ExitOK
  <2>4. ASSUME ~killed, ~slow, NEW p \in Procs PROVE Accounted(proc[p])'
    <3>1. proc[p].at = "none" \/ proc[p].told \/ proc[p].handles > 0
      BY <1>1, <2>4 DEF SInv, GensOK, Accounted
    <3>2. CASE exitEvent' = "set"
      BY <1>1, <2>2, <3>1, <3>2 DEF Accounted
    <3>3. CASE exitEvent' # "set"
      <4>1. exitEvent = "none"
        BY <1>1, <1>6, <2>4, <3>3 DEF CreateEvent, SInv, ExitOK
      <4>2. ~(proc[p].handles > 0)
        BY <4>1 DEF SInv, ExitOK
      <4> QED
        BY <1>1, <3>1, <4>2 DEF Accounted
    <3> QED
      BY <3>2, <3>3
  <2>5. GensOK'
    BY <1>1, <2>4 DEF GensOK
  <2> QED
    BY <1>4, <1>5, <2>3, <2>5 DEF SInv
<1>7. CASE /\ svc' = [svc EXCEPT !.at = "finish", !.handle = FALSE, !.gen = @ + 1]
           /\ exitEvent' = exitEvent
  <2>1. svc'.handle = FALSE /\ svc'.at = "finish"
    BY <1>1, <1>7 DEF SvcRec
  <2>2. ExitOK'
    BY <1>1, <1>2, <1>7, <2>1 DEF SInv, ExitOK
  <2>3. GensOK'
    BY <1>1, <2>1 DEF SInv, GensOK, Accounted
  <2> QED
    BY <1>4, <1>5, <2>2, <2>3 DEF SInv
<1> QED
  BY <1>6, <1>7 DEF ServiceStart

LEMMA ServiceSpawnInv ==
  ASSUME SInv, ServiceSpawn PROVE SInv'
<1>1. PICK f \in svc.files, p \in Procs :
         /\ proc[p].at = "none"
         /\ proc' = [proc EXCEPT ![p] = [NoProcess EXCEPT !.at = "new", !.config = f, !.gen = svc.gen]]
         /\ svc' = [svc EXCEPT !.files = @ \ {f}]
  BY DEF ServiceSpawn, Live
<1>2. UNCHANGED <<exitEvent, netcmd, lostNetcmd, slow, killed>> /\ svc.at = "spawn"
  BY DEF ServiceSpawn
<1>3. svc \in SvcRec /\ f \in ConfigFiles /\ svc.gen \in 0 .. MaxServices
  BY DEF SInv, ExitOK, SvcRec
<1> DEFINE new == [NoProcess EXCEPT !.at = "new", !.config = f, !.gen = svc.gen]
<1>4. /\ new.at = "new" /\ new.hand = FALSE /\ new.lock = "no" /\ new.gen = svc.gen /\ new.told = FALSE
      /\ new.handles = 0 /\ new.mode = "undef" /\ new.sig = "none" /\ new.restarts = 0
  BY DEF NoProcess
<1>5. new \in ProcRec
  <2> DEFINE k1 == [NoProcess EXCEPT !.at = "new"]
             k2 == [k1 EXCEPT !.config = f]
  <2>1. k1 \in ProcRec
    BY NoProcessOK DEF ProcOK, ProcRec
  <2> HIDE DEF k1
  <2>2. k2 \in ProcRec
    BY <1>3, <2>1 DEF ProcRec
  <2>3. new = [k2 EXCEPT !.gen = svc.gen]
    BY DEF k1
  <2> HIDE DEF k2, new
  <2> QED
    BY <1>3, <2>2, <2>3 DEF ProcRec
<1> HIDE DEF new
<1>6. ProcOK(new)
  BY <1>4, <1>5 DEF ProcOK
<1>7. svc' \in SvcRec /\ svc'.at = svc.at /\ svc'.gen = svc.gen /\ svc'.handle = svc.handle
  BY <1>1, <1>3 DEF SvcRec
<1>8. \A q \in Procs : proc'[q] = IF q = p THEN new ELSE proc[q]
  BY <1>1 DEF SInv, ProcsOK, new
<1>9. ProcsOK'
  <2>1. proc' \in [Procs -> ProcRec]
    BY <1>1, <1>5 DEF SInv, ProcsOK, new
  <2>2. \A q \in Procs : ProcOK(proc'[q]) /\ proc'[q].gen <= svc'.gen
    <3>1. new.gen <= svc'.gen
      BY <1>3, <1>4, <1>7, ServiceAssumption
    <3> QED
      BY <1>6, <1>7, <1>8, <3>1 DEF SInv, ProcsOK
  <2> QED
    BY <2>1, <2>2 DEF ProcsOK, ProcOK
<1>10. proc[p].handles = 0 /\ ~proc[p].hand
  BY <1>1 DEF SInv, ProcsOK, ProcOK
<1>11. ExitOK'
  <2>1. \A q \in Procs : proc'[q].handles > 0 <=> proc[q].handles > 0
    BY <1>4, <1>8, <1>10
  <2> QED
    BY <1>2, <1>7, <2>1 DEF SInv, ExitOK
<1>12. GensOK'
  <2>1. ~killed /\ ~slow => \A q \in Procs : Accounted(proc[q])'
    BY <1>2, <1>4, <1>7, <1>8 DEF SInv, GensOK, Accounted
  <2> QED
    BY <1>2, <2>1 DEF GensOK
<1>13. NetcmdOK'
  <2>1. \A q \in Procs : Holds(proc'[q]) <=> Holds(proc[q])
    BY <1>4, <1>8, <1>10 DEF Holds
  <2> QED
    BY <1>2, <2>1 DEF SInv, NetcmdOK, Holds
<1> QED
  BY <1>9, <1>11, <1>12, <1>13 DEF SInv

\* Only svc.at changes, within the life of a service.
LEMMA MoveInv ==
  ASSUME SInv, svc.at \in {"spawn", "running"}, NEW a \in {"running", "finish"},
         svc' = [svc EXCEPT !.at = a],
         UNCHANGED <<exitEvent, proc, netcmd, lostNetcmd, slow, killed>>
  PROVE  SInv'
<1>1. svc' \in SvcRec /\ svc'.at = a /\ svc'.gen = svc.gen /\ svc'.handle = svc.handle
  BY DEF SInv, ExitOK, SvcRec
<1>2. ProcsOK' /\ NetcmdOK'
  BY <1>1, SameProcs, SameNetcmd DEF SInv
<1>3. ExitOK'
  BY <1>1 DEF SInv, ExitOK
<1>4. GensOK'
  BY <1>1 DEF SInv, GensOK, Accounted
<1> QED
  BY <1>2, <1>3, <1>4 DEF SInv

LEMMA ServiceStopInv ==
  ASSUME SInv, ServiceStop PROVE SInv'
<1>1. svc.at = "running" /\ exitEvent' = "set" /\ UNCHANGED <<svc, proc, netcmd, lostNetcmd, slow, killed>>
  BY DEF ServiceStop
<1>2. ProcsOK' /\ NetcmdOK'
  BY <1>1, SameProcs, SameNetcmd DEF SInv
<1>3. svc.handle
  BY <1>1 DEF SInv, ExitOK
<1>4. ExitOK'
  BY <1>1, <1>3 DEF SInv, ExitOK
<1>5. GensOK'
  BY <1>1 DEF SInv, GensOK, Accounted
<1> QED
  BY <1>2, <1>4, <1>5 DEF SInv

\* The service closes its handle of the event.
LEMMA CloseExit ==
  ASSUME SInv, svc.at # "stopped", svc' = [svc EXCEPT !.at = "stopped", !.files = {}, !.handle = FALSE],
         NEW e \in {"none", "clear", "set"}, exitEvent' = Event(svc', proc, e),
         UNCHANGED <<proc, netcmd, lostNetcmd>>,
         e # exitEvent => e = "set" /\ svc.handle, killed' \in BOOLEAN, slow' \in BOOLEAN,
         ~killed' => e # "clear"
  PROVE  ProcsOK' /\ NetcmdOK' /\ ExitOK' /\ svc'.at = "stopped"
<1>1. svc' \in SvcRec /\ svc'.at = "stopped" /\ svc'.gen = svc.gen /\ svc'.handle = FALSE
  BY DEF SInv, ExitOK, SvcRec
<1>2. ProcsOK' /\ NetcmdOK'
  BY <1>1, SameProcs, SameNetcmd DEF SInv
<1>3. exitEvent' = IF \E p \in Procs : proc[p].handles > 0 THEN e ELSE "none"
  BY <1>1 DEF Event
<1>4. (\E p \in Procs : proc[p].handles > 0) => e # "none"
  BY DEF SInv, ExitOK
<1>5. ExitOK'
  BY <1>1, <1>3, <1>4 DEF ExitOK
<1> QED
  BY <1>1, <1>2, <1>5

LEMMA ServiceFinishInv ==
  ASSUME SInv, ServiceFinish PROVE SInv'
<1> DEFINE e == IF svc.handle THEN "set" ELSE exitEvent
<1>1. /\ svc.at = "finish" /\ svc' = [svc EXCEPT !.at = "stopped", !.files = {}, !.handle = FALSE]
      /\ exitEvent' = Event(svc', proc, e) /\ slow' = (slow \/ Unheard)
      /\ UNCHANGED <<proc, netcmd, lostNetcmd, killed>>
  BY DEF ServiceFinish
<1>2. /\ e \in {"none", "clear", "set"} /\ (e # exitEvent => e = "set" /\ svc.handle)
      /\ killed' \in BOOLEAN /\ slow' \in BOOLEAN /\ (~killed' => e # "clear")
  BY <1>1 DEF SInv, ExitOK, Unheard
<1> HIDE DEF e
<1>3. ProcsOK' /\ NetcmdOK' /\ ExitOK' /\ svc'.at = "stopped"
  BY <1>1, <1>2, CloseExit
<1>4. ASSUME ~killed', ~slow', NEW p \in Procs PROVE Accounted(proc[p])'
  <2>1. ~Unheard
    BY <1>1, <1>4
  <2>2. proc[p].at = "none" \/ proc[p].handles # 0 \/ proc[p].sig = "TERM"
    BY <2>1 DEF Unheard, Live
  <2>3. proc[p].handles \in Nat /\ (proc[p].sig = "TERM" => proc[p].told)
    BY ServiceAssumption DEF SInv, ProcsOK, ProcOK, ProcRec
  <2>4. proc[p].at = "none" \/ proc[p].told \/ proc[p].handles > 0
    BY <2>2, <2>3
  <2> QED
    BY <1>1, <1>3, <2>4 DEF Accounted
<1>5. GensOK'
  BY <1>4 DEF GensOK
<1> QED
  BY <1>3, <1>5 DEF SInv

LEMMA ServiceKilledInv ==
  ASSUME SInv, ServiceKilled PROVE SInv'
<1>1. /\ svc.at # "stopped" /\ svc' = [svc EXCEPT !.at = "stopped", !.files = {}, !.handle = FALSE]
      /\ exitEvent' = Event(svc', proc, exitEvent) /\ killed' = TRUE
      /\ UNCHANGED <<proc, netcmd, lostNetcmd, slow>>
  BY DEF ServiceKilled
<1>2. exitEvent \in {"none", "clear", "set"} /\ slow' \in BOOLEAN /\ killed' \in BOOLEAN
  BY <1>1 DEF SInv, ExitOK
<1>3. ProcsOK' /\ NetcmdOK' /\ ExitOK'
  BY <1>1, <1>2, CloseExit
<1>4. GensOK'
  BY <1>1 DEF GensOK
<1> QED
  BY <1>3, <1>4 DEF SInv

-----------------------------------------------------------------------------
LEMMA ServiceInitInv == ServiceInit => SInv
<1> SUFFICES ASSUME ServiceInit PROVE SInv
  OBVIOUS
<1>1. svc \in SvcRec /\ svc.at = "stopped" /\ svc.handle = FALSE /\ svc.gen = 0
  BY ServiceAssumption DEF ServiceInit, SvcRec
<1>2. \A p \in Procs : proc[p] = NoProcess
  BY DEF ServiceInit
<1>3. NoProcess.at = "none" /\ NoProcess.handles = 0 /\ NoProcess.gen = 0 /\ NoProcess.hand = FALSE
      /\ NoProcess \in ProcRec
  BY NoProcessOK DEF NoProcess, ProcOK
<1>4. ProcsOK
  BY <1>1, <1>2, <1>3, NoProcessOK DEF ProcsOK, ServiceInit
<1>5. ExitOK /\ GensOK
  <2>1. exitEvent = "none" /\ killed = FALSE /\ slow = FALSE
    BY DEF ServiceInit
  <2>2. \A p \in Procs : ~(proc[p].handles > 0) /\ proc[p].at = "none"
    BY <1>2, <1>3
  <2> QED
    BY <1>1, <2>1, <2>2 DEF ExitOK, GensOK, Accounted
<1>6. NetcmdOK
  <2>0. netcmd = 1 /\ lostNetcmd = FALSE
    BY DEF ServiceInit
  <2>1. ~(netcmd = 0) /\ netcmd \in 0 .. 1
    BY <2>0
  <2>3. lostNetcmd \in BOOLEAN /\ ~lostNetcmd
    BY <2>0
  <2>2. \A p \in Procs : ~Holds(proc[p])
    BY <1>2, <1>3 DEF Holds
  <2> QED
    BY <2>1, <2>2, <2>3, Zenon DEF NetcmdOK
<1> QED
  BY <1>4, <1>5, <1>6 DEF SInv

LEMMA ServiceNextInv == SInv /\ [ServiceNext]_serviceVars => SInv'
<1> SUFFICES ASSUME SInv, [ServiceNext]_serviceVars PROVE SInv'
  OBVIOUS
<1>1. CASE ServiceStart
  BY <1>1, ServiceStartInv
<1>2. CASE ServiceSpawn
  BY <1>2, ServiceSpawnInv
<1>3. CASE ServiceFails
  BY <1>3, MoveInv DEF ServiceFails
<1>4. CASE ServiceRunning
  BY <1>4, MoveInv DEF ServiceRunning
<1>5. CASE ServiceStop
  BY <1>5, ServiceStopInv
<1>6. CASE ServiceWoken
  BY <1>6, MoveInv DEF ServiceWoken
<1>7. CASE ServiceFinish
  BY <1>7, ServiceFinishInv
<1>8. CASE ServiceKilled
  BY <1>8, ServiceKilledInv
<1>9. ASSUME NEW p \in Procs,
             \/ InitWin32(p) \/ PreSetup(p) \/ PreSetupDeaf(p) \/ GetSignal(p) \/ ThrowSignal(p)
             \/ ProcRestart(p) \/ ExitNotify(p) \/ ProcExits(p) \/ NetcmdLock(p) \/ SemaphoreLock(p)
             \/ LockTimesOut(p) \/ NetcmdRelease(p) \/ ProcKilled(p)
      PROVE  SInv'
  <2>1. ProcExits(p) \/ LockTimesOut(p) => SInv'
    BY ExitInv DEF ProcExits, LockTimesOut
  <2> QED
    BY <1>9, <2>1, InitWin32Inv, PreSetupInv, PreSetupDeafInv, GetSignalInv, ThrowSignalInv,
       ProcRestartInv, ExitNotifyInv, NetcmdLockInv, SemaphoreLockInv, NetcmdReleaseInv, ProcKilledInv
<1>10. CASE UNCHANGED serviceVars
  <2>1. UNCHANGED <<svc, exitEvent, proc, netcmd, lostNetcmd, slow, killed>>
    BY <1>10 DEF serviceVars
  <2> QED
    BY <2>1 DEF SInv, ProcsOK, ProcOK, ExitOK, GensOK, Accounted, NetcmdOK, Holds
<1> QED
  BY <1>1, <1>2, <1>3, <1>4, <1>5, <1>6, <1>7, <1>8, <1>9, <1>10 DEF ServiceNext

\* The four parts of the invariant give what the runs check.
LEMMA SInvService == SInv => ServiceInv
<1> SUFFICES ASSUME SInv PROVE ServiceInv
  OBVIOUS
<1>1. ServiceTypeOK
  BY DEF SInv, ProcsOK, ExitOK, NetcmdOK, ServiceTypeOK, ProcRec, SvcRec
<1>2. ExitReaches
  BY DEF SInv, ProcsOK, ProcOK, ExitOK, ExitReaches
<1>3. NoStragglers
  <2> SUFFICES ASSUME svc.at \in {"spawn", "running"}, ~killed, ~slow, NEW p \in Procs,
                      proc[p].mode = "service", proc[p].sig # "TERM", ~proc[p].told
               PROVE  proc[p].gen = svc.gen
    BY DEF NoStragglers
  <2>1. Accounted(proc[p]) /\ proc[p].at # "none"
    BY DEF SInv, GensOK, ProcsOK, ProcOK
  <2> QED
    BY <2>1 DEF Accounted
<1>4. NetcmdExclusive
  BY DEF SInv, NetcmdOK, Holds, NetcmdExclusive
<1>5. NetcmdReturned
  BY DEF SInv, NetcmdOK, Holds, NetcmdReturned
<1> QED
  BY <1>1, <1>2, <1>3, <1>4, <1>5 DEF ServiceInv

\* For any number of configurations, processes, restarts and failures: the exit event reaches
\* every process in service mode, a new service meets none of an old one that was not told to
\* end, one process at a time runs network commands and the semaphore comes back.
THEOREM ServiceCorrect == ServiceSpec => []ServiceInv
  BY ServiceInitInv, ServiceNextInv, SInvService, PTL DEF ServiceSpec

(***************************************************************************)
(* Overlapped I/O.                                                         *)
(***************************************************************************)
IoStates == {"INITIAL", "QUEUED", "IMMEDIATE_RETURN"}
KrnlStates == {"idle", "pending", "done", "failed"}
IoRec == [iostate : IoStates, event : BOOLEAN, status : {"ok", "pending", "err"}, buf : 0 .. MaxArrivals]

\* A read of a side: io, what the kernel knows of it, whether the side is open, what the
\* forwarder holds and what the kernel keeps.
ReadOK(io, k, op, f, w) ==
    /\ io.iostate = "INITIAL" => ~io.event /\ k = "idle"
    /\ io.iostate = "QUEUED" => op /\ k # "idle" /\ (io.event <=> k # "pending")
    /\ io.iostate = "IMMEDIATE_RETURN" => op /\ k = "idle" /\ io.event
    /\ f # NoPacket => io.iostate = "INITIAL"
    /\ k = "pending" => w = <<>>
    /\ k = "failed" => io.buf = NoPacket
    /\ io.iostate = "IMMEDIATE_RETURN" /\ io.status # "ok" => io.buf = NoPacket
    /\ k = "pending" => io.buf = NoPacket
WriteOK(io, k, op) ==
    /\ io.iostate = "INITIAL" => k = "idle" /\ (op => io.event)
    /\ io.iostate = "QUEUED" => op /\ k # "idle" /\ (io.event <=> k # "pending")
    /\ io.iostate = "IMMEDIATE_RETURN" => op /\ k = "idle" /\ io.event

\* The packets of a side, first those that went furthest: taken by the other side's driver,
\* queued there, held by the forwarder, in the read buffer, in the kernel; and the lost ones.
Below(A, B) == \A a \in A, b \in B : a < b
FlowOK(O, Q, F, R, W, L, n) ==
    /\ Below(O, Q) /\ Below(O, F) /\ Below(O, R) /\ Below(O, W)
    /\ Below(Q, F) /\ Below(Q, R) /\ Below(Q, W)
    /\ Below(F, R) /\ Below(F, W) /\ Below(R, W)
    /\ \A x \in L : x \notin O /\ x \notin Q /\ x \notin F /\ x \notin R /\ x \notin W
    /\ O \cup Q \cup F \cup R \cup W \cup L = 1 .. n
Increasing(s) == \A i, j \in 1 .. Len(s) : i < j => s[i] < s[j]

ReadHolds(io, k) == {p \in {io.buf} : p # NoPacket /\ (io.iostate = "IMMEDIATE_RETURN" \/ k = "done")}
WriteHolds(io, k) == {p \in {io.buf} : k = "pending"}
Carries(p) == {p} \ {NoPacket}

OvType ==
    /\ reads \in [Sides -> IoRec] /\ writes \in [Sides -> IoRec]
    /\ opened \in [Sides -> BOOLEAN] /\ came \in [Sides -> 0 .. MaxArrivals]
    /\ krnl \in [Sides -> [r : KrnlStates, w : KrnlStates]]
    /\ fwd \in [Sides -> 0 .. MaxArrivals] /\ faults \in 0 .. MaxFaults
    /\ waits \in [Sides -> Seq(Nat)] /\ out \in [Sides -> Seq(Nat)] /\ lost \in [Sides -> SUBSET Nat]
RSide(d) == ReadOK(reads[d], krnl[d].r, opened[d], fwd[d], waits[d])
WSide(d) == WriteOK(writes[d], krnl[d].w, opened[d])
FSide(d) ==
    /\ Increasing(waits[d]) /\ Increasing(out[d])
    /\ FlowOK(Range(out[d]), WriteHolds(writes[Other(d)], krnl[Other(d)].w), Carries(fwd[d]),
              ReadHolds(reads[d], krnl[d].r), Range(waits[d]), lost[d], came[d])
OvInv == OvType /\ \A d \in Sides : RSide(d) /\ WSide(d) /\ FSide(d)
-----------------------------------------------------------------------------
\* There are two sides.
LEMMA TwoSides ==
    ASSUME NEW d \in Sides
    PROVE  Other(d) \in Sides /\ Other(Other(d)) = d /\ Other(d) # d /\ \A e \in Sides : e = d \/ e = Other(d)
BY DEF Sides, Other

\* A packet comes in and waits in the kernel.
LEMMA FlowArrives ==
    ASSUME NEW O, NEW Q, NEW F, NEW R, NEW W, NEW L, NEW n \in Nat, FlowOK(O, Q, F, R, W, L, n)
    PROVE  FlowOK(O, Q, F, R, W \cup {n + 1}, L, n + 1)
<1>1. \A x \in O \cup Q \cup F \cup R \cup W \cup L : x \in Nat /\ x < n + 1
  BY DEF FlowOK
<1>2. O \cup Q \cup F \cup R \cup (W \cup {n + 1}) \cup L = 1 .. n + 1
  BY DEF FlowOK
<1> QED
  BY <1>1, <1>2 DEF FlowOK, Below

\* A packet comes in and fills the read that is queued.
LEMMA FlowFills ==
    ASSUME NEW O, NEW Q, NEW F, NEW L, NEW n \in Nat, FlowOK(O, Q, F, {}, {}, L, n)
    PROVE  FlowOK(O, Q, F, {n + 1}, {}, L, n + 1)
<1>1. \A x \in O \cup Q \cup F \cup L : x \in Nat /\ x < n + 1
  BY DEF FlowOK
<1>2. O \cup Q \cup F \cup {n + 1} \cup {} \cup L = 1 .. n + 1
  BY DEF FlowOK
<1> QED
  BY <1>1, <1>2 DEF FlowOK, Below

\* The first packet that waits goes to the read buffer.
LEMMA FlowTaken ==
    ASSUME NEW O, NEW Q, NEW F, NEW W, NEW L, NEW n \in Nat, FlowOK(O, Q, F, {}, W, L, n),
           NEW h \in W, \A w \in W : w = h \/ h < w
    PROVE  FlowOK(O, Q, F, {h}, W \ {h}, L, n)
BY DEF FlowOK, Below

\* The read buffer goes to the forwarder.
LEMMA FlowRead ==
    ASSUME NEW O, NEW Q, NEW R, NEW W, NEW L, NEW n \in Nat, FlowOK(O, Q, {}, R, W, L, n)
    PROVE  FlowOK(O, Q, R, {}, W, L, n)
BY DEF FlowOK, Below

\* The forwarder queues a write, the driver takes it at once, or fails it at once.
LEMMA FlowWritten ==
    ASSUME NEW O, NEW F, NEW R, NEW W, NEW L, NEW n \in Nat, FlowOK(O, {}, F, R, W, L, n)
    PROVE  /\ FlowOK(O, F, {}, R, W, L, n)
           /\ FlowOK(O \cup F, {}, {}, R, W, L, n)
           /\ FlowOK(O, {}, {}, R, W, L \cup F, n)
<1>1. \A x \in O \cup F \cup R \cup W \cup L : x \in Nat
  BY DEF FlowOK
<1> QED
  BY <1>1 DEF FlowOK, Below

\* A queued write is done, or fails.
LEMMA FlowCompletes ==
    ASSUME NEW O, NEW Q, NEW F, NEW R, NEW W, NEW L, NEW n \in Nat, FlowOK(O, Q, F, R, W, L, n)
    PROVE  /\ FlowOK(O \cup Q, {}, F, R, W, L, n)
           /\ FlowOK(O, {}, F, R, W, L \cup Q, n)
<1>1. \A x \in O \cup Q \cup F \cup R \cup W \cup L : x \in Nat
  BY DEF FlowOK
<1> QED
  BY <1>1 DEF FlowOK, Below

\* What the forwarder holds is dropped; and what the kernel and the read buffer have.
LEMMA FlowDrops ==
    ASSUME NEW O, NEW Q, NEW F, NEW R, NEW W, NEW L, NEW n \in Nat, FlowOK(O, Q, F, R, W, L, n)
    PROVE  /\ FlowOK(O, Q, {}, R, W, L \cup F, n)
           /\ FlowOK(O, Q, F, {}, {}, L \cup (R \cup W), n)
<1>1. \A x \in O \cup Q \cup F \cup R \cup W \cup L : x \in Nat
  BY DEF FlowOK
<1> QED
  BY <1>1 DEF FlowOK, Below

\* A larger packet is appended to an increasing sequence.
LEMMA IncreasingAppend ==
    ASSUME NEW s \in Seq(Nat), NEW x \in Nat, Increasing(s), Below(Range(s), {x})
    PROVE  Increasing(Append(s, x)) /\ Range(Append(s, x)) = Range(s) \cup {x} /\ Append(s, x) \in Seq(Nat)
<1> DEFINE t == Append(s, x)
<1>1. t \in Seq(Nat) /\ Len(t) = Len(s) + 1 /\ t[Len(s) + 1] = x /\ \A i \in 1 .. Len(s) : t[i] = s[i]
  OBVIOUS
<1>2. Len(s) \in Nat /\ DOMAIN s = 1 .. Len(s) /\ DOMAIN t = 1 .. Len(s) + 1
  BY <1>1
<1> HIDE DEF t
<1>3. \A i \in 1 .. Len(s) : s[i] \in Range(s)
  BY <1>2 DEF Range
<1>4. Range(t) = Range(s) \cup {x}
  <2>1. Range(t) \subseteq Range(s) \cup {x}
    BY <1>1, <1>2, <1>3 DEF Range
  <2>2. Range(s) \cup {x} \subseteq Range(t)
    BY <1>1, <1>2 DEF Range
  <2> QED
    BY <2>1, <2>2
<1>5. Increasing(t)
  <2> SUFFICES ASSUME NEW i \in 1 .. Len(s) + 1, NEW j \in 1 .. Len(s) + 1, i < j PROVE t[i] < t[j]
    BY <1>1 DEF Increasing
  <2>1. i \in 1 .. Len(s) /\ t[i] = s[i] /\ s[i] \in Range(s)
    BY <1>1, <1>2, <1>3
  <2>2. CASE j = Len(s) + 1
    BY <2>1, <2>2, <1>1 DEF Below
  <2>3. CASE j # Len(s) + 1
    <3>1. j \in 1 .. Len(s)
      BY <2>3, <1>2
    <3>2. t[j] = s[j]
      BY <3>1, <1>1
    <3> QED
      BY <3>1, <3>2, <2>1 DEF Increasing
  <2> QED
    BY <2>2, <2>3
<1> QED
  BY <1>1, <1>4, <1>5 DEF t

\* The head of an increasing sequence is its least.
LEMMA IncreasingTail ==
    ASSUME NEW s \in Seq(Nat), Increasing(s), s # <<>>
    PROVE  /\ Head(s) \in Range(s) /\ Head(s) \in Nat /\ \A w \in Range(s) : w = Head(s) \/ Head(s) < w
           /\ Range(Tail(s)) = Range(s) \ {Head(s)} /\ Increasing(Tail(s)) /\ Tail(s) \in Seq(Nat)
<1> DEFINE t == Tail(s)
           h == Head(s)
<1>1. t \in Seq(Nat) /\ Len(t) = Len(s) - 1 /\ h = s[1] /\ (\A i \in 1 .. Len(s) - 1 : t[i] = s[i + 1])
  OBVIOUS
<1>2. Len(s) \in Nat /\ Len(s) >= 1 /\ DOMAIN s = 1 .. Len(s) /\ DOMAIN t = 1 .. Len(s) - 1
  BY <1>1
<1>a. \A i \in 1 .. Len(s) : s[i] \in Nat
  OBVIOUS
<1> HIDE DEF t, h
<1>3. \A i \in 1 .. Len(s) : s[i] \in Range(s) /\ (i # 1 => h < s[i])
  <2> SUFFICES ASSUME NEW i \in 1 .. Len(s) PROVE s[i] \in Range(s) /\ (i # 1 => h < s[i])
    OBVIOUS
  <2>1. s[i] \in Range(s)
    BY <1>2 DEF Range
  <2>2. 1 \in 1 .. Len(s) /\ (i # 1 => 1 < i)
    BY <1>2
  <2> QED
    BY <1>1, <2>1, <2>2 DEF Increasing
<1>4. \A w \in Range(s) : w = h \/ h < w
  BY <1>1, <1>2, <1>3 DEF Range
<1>5. Range(t) \subseteq Range(s) \ {h}
  <2> SUFFICES ASSUME NEW i \in 1 .. Len(s) - 1 PROVE t[i] \in Range(s) \ {h}
    BY <1>2 DEF Range
  <2>1. i + 1 \in 1 .. Len(s) /\ i + 1 # 1 /\ t[i] = s[i + 1]
    BY <1>1, <1>2
  <2>2. s[i + 1] \in Range(s) /\ h < s[i + 1] /\ s[i + 1] \in Nat /\ h \in Nat
    BY <2>1, <1>1, <1>2, <1>3, <1>a
  <2> QED
    BY <2>1, <2>2
<1>6. Range(s) \ {h} \subseteq Range(t)
  <2> SUFFICES ASSUME NEW i \in 1 .. Len(s), s[i] # h PROVE s[i] \in Range(t)
    BY <1>2 DEF Range
  <2>1. i - 1 \in 1 .. Len(s) - 1 /\ t[i - 1] = s[i]
    BY <1>1, <1>2
  <2> QED
    BY <2>1, <1>2 DEF Range
<1>7. Increasing(t)
  <2> SUFFICES ASSUME NEW i \in 1 .. Len(s) - 1, NEW j \in 1 .. Len(s) - 1, i < j PROVE t[i] < t[j]
    BY <1>1 DEF Increasing
  <2>1. i + 1 \in 1 .. Len(s) /\ j + 1 \in 1 .. Len(s) /\ i + 1 < j + 1 /\ t[i] = s[i + 1] /\ t[j] = s[j + 1]
    BY <1>1, <1>2
  <2> QED
    BY <2>1 DEF Increasing
<1>8. h \in Range(s) /\ h \in Nat
  BY <1>1, <1>2, <1>3, <1>a
<1> QED
  BY <1>1, <1>4, <1>5, <1>6, <1>7, <1>8 DEF t, h

\* What a request leaves in the overlapped_io.
Asked(a, p, answer) ==
    /\ a.buf = p
    /\ a.iostate = (IF answer = "pending" THEN "QUEUED" ELSE "IMMEDIATE_RETURN")
    /\ a.status = (IF answer = "now" THEN "ok" ELSE IF answer = "pending" THEN "pending" ELSE "err")
    /\ a.event <=> answer # "pending"
\* A request with the buffer p, answered.
LEMMA AnsweredIs ==
    ASSUME NEW io \in IoRec, NEW p \in 0 .. MaxArrivals, NEW answer \in {"now", "pending", "error"}
    PROVE  \E a \in IoRec : Answered([io EXCEPT !.buf = p], answer) = a /\ Asked(a, p, answer)
<1> DEFINE ib == [io EXCEPT !.buf = p]
<1>1. ib = [iostate |-> io.iostate, event |-> io.event, status |-> io.status, buf |-> p]
  BY DEF IoRec
<1> DEFINE yes == TRUE
           no == FALSE
<1>b. yes \in BOOLEAN /\ no \in BOOLEAN /\ yes /\ ~no
  OBVIOUS
<1> HIDE DEF ib, yes, no
<1>2. CASE answer = "now"
  <2> DEFINE a == [iostate |-> "IMMEDIATE_RETURN", event |-> yes, status |-> "ok", buf |-> p]
  <2>1. Answered(ib, answer) = a
    BY <1>1, <1>2 DEF Answered, yes
  <2>2. a \in IoRec /\ a.buf = p /\ a.iostate = "IMMEDIATE_RETURN" /\ a.status = "ok" /\ a.event = yes
    BY <1>b DEF IoRec, IoStates
  <2> HIDE DEF a
  <2>3. a.event <=> answer # "pending"
    BY <2>2, <1>b, <1>2
  <2>4. /\ a.iostate = (IF answer = "pending" THEN "QUEUED" ELSE "IMMEDIATE_RETURN")
        /\ a.status = (IF answer = "now" THEN "ok" ELSE IF answer = "pending" THEN "pending" ELSE "err")
    BY <2>2, <1>2
  <2> QED
    BY <2>1, <2>2, <2>3, <2>4, Zenon DEF ib, Asked
<1>3. CASE answer = "pending"
  <2> DEFINE a == [iostate |-> "QUEUED", event |-> no, status |-> "pending", buf |-> p]
  <2>1. Answered(ib, answer) = a
    BY <1>1, <1>3 DEF Answered, no
  <2>2. a \in IoRec /\ a.buf = p /\ a.iostate = "QUEUED" /\ a.status = "pending" /\ a.event = no
    BY <1>b DEF IoRec, IoStates
  <2> HIDE DEF a
  <2>3. a.event <=> answer # "pending"
    BY <2>2, <1>b, <1>3
  <2>4. /\ a.iostate = (IF answer = "pending" THEN "QUEUED" ELSE "IMMEDIATE_RETURN")
        /\ a.status = (IF answer = "now" THEN "ok" ELSE IF answer = "pending" THEN "pending" ELSE "err")
    BY <2>2, <1>3
  <2> QED
    BY <2>1, <2>2, <2>3, <2>4, Zenon DEF ib, Asked
<1>4. CASE answer = "error"
  <2> DEFINE a == [iostate |-> "IMMEDIATE_RETURN", event |-> yes, status |-> "err", buf |-> p]
  <2>1. Answered(ib, answer) = a
    BY <1>1, <1>4 DEF Answered, yes
  <2>2. a \in IoRec /\ a.buf = p /\ a.iostate = "IMMEDIATE_RETURN" /\ a.status = "err" /\ a.event = yes
    BY <1>b DEF IoRec, IoStates
  <2> HIDE DEF a
  <2>3. a.event <=> answer # "pending"
    BY <2>2, <1>b, <1>4
  <2>4. /\ a.iostate = (IF answer = "pending" THEN "QUEUED" ELSE "IMMEDIATE_RETURN")
        /\ a.status = (IF answer = "now" THEN "ok" ELSE IF answer = "pending" THEN "pending" ELSE "err")
    BY <2>2, <1>4
  <2> QED
    BY <2>1, <2>2, <2>3, <2>4, Zenon DEF ib, Asked
<1> QED
  BY <1>2, <1>3, <1>4

\* A new overlapped_io.
LEMMA InitIs ==
    /\ \A b \in BOOLEAN : /\ OverlappedIoInit(b) \in IoRec /\ OverlappedIoInit(b).iostate = "INITIAL"
                          /\ OverlappedIoInit(b).event = b /\ OverlappedIoInit(b).buf = NoPacket
    /\ \A d \in Sides : FrameInit(d)[1] = OverlappedIoInit(FALSE) /\ FrameInit(d)[2] = OverlappedIoInit(TRUE)
BY OverlappedAssumption DEF OverlappedIoInit, IoRec, IoStates, NoPacket, FrameInit, InitTunPost, SocketFrameInit

\* Finishing an operation that the kernel is through with makes it INITIAL and resets its event.
LEMMA FinalizeIs ==
    ASSUME NEW d \in Sides, NEW io \in IoRec, NEW k \in KrnlStates, ~(io.iostate = "QUEUED" /\ k = "pending"),
           io.iostate # "INITIAL"
    PROVE  \E a \in IoRec :
             /\ Finalize(d, io, k).io = a /\ a.buf = io.buf /\ a.iostate = "INITIAL" /\ ~a.event
             /\ Finalize(d, io, k).ret \in {"ok", "bad"}
             /\ Finalize(d, io, k).ret = "ok" <=> IF io.iostate = "QUEUED" THEN k = "done" ELSE io.status = "ok"
<1> DEFINE no == FALSE
           a == [iostate |-> "INITIAL", event |-> no, status |-> io.status, buf |-> io.buf]
           ret == IF io.iostate = "QUEUED" THEN (IF k = "done" THEN "ok" ELSE "bad")
                  ELSE (IF io.status = "ok" THEN "ok" ELSE "bad")
<1>1. no \in BOOLEAN /\ ~no
  OBVIOUS
<1>2. [io EXCEPT !.iostate = "INITIAL", !.event = FALSE] = a
  <2> DEFINE i1 == [io EXCEPT !.iostate = "INITIAL"]
  <2>1. [io EXCEPT !.iostate = "INITIAL", !.event = FALSE] = [i1 EXCEPT !.event = no]
    OBVIOUS
  <2>2. i1 = [iostate |-> "INITIAL", event |-> io.event, status |-> io.status, buf |-> io.buf]
    BY DEF IoRec
  <2> HIDE DEF no, i1
  <2>3. [i1 EXCEPT !.event = no] = a
    BY <2>2
  <2> QED
    BY <2>1, <2>3
<1>3. io.iostate = "QUEUED" \/ io.iostate = "IMMEDIATE_RETURN"
  BY DEF IoRec, IoStates
<1>4. Finalize(d, io, k) = [io |-> [io EXCEPT !.iostate = "INITIAL", !.event = FALSE], ret |-> ret]
  <2>1. CASE io.iostate = "QUEUED"
    BY <2>1 DEF Finalize, TunFinalize, SocketFinalize
  <2>2. CASE io.iostate = "IMMEDIATE_RETURN"
    BY <2>2 DEF Finalize, TunFinalize, SocketFinalize
  <2> QED
    BY <1>3, <2>1, <2>2
<1> HIDE DEF no
<1>5. a \in IoRec /\ a.buf = io.buf /\ a.iostate = "INITIAL" /\ a.event = no
  BY <1>1 DEF IoRec, IoStates
<1>6. ret \in {"ok", "bad"} /\ (ret = "ok" <=> IF io.iostate = "QUEUED" THEN k = "done" ELSE io.status = "ok")
  OBVIOUS
<1> HIDE DEF a, ret
<1>7. Finalize(d, io, k).io = a /\ Finalize(d, io, k).ret = ret
  BY <1>2, <1>4
<1>8. ~a.event
  BY <1>5, <1>1
<1> QED
  BY <1>5, <1>6, <1>7, <1>8, Zenon

\* The kernel completes an operation of a side: the event, and the buffer of a read.
Signalled(a, io, p) == a.buf = p /\ a.iostate = io.iostate /\ a.status = io.status /\ a.event
\* The event is set, with the packet that came or with the buffer as it was.
LEMMA SignalledIs ==
    ASSUME NEW f \in [Sides -> IoRec], NEW d \in Sides, NEW p \in 0 .. MaxArrivals
    PROVE  /\ \E a \in IoRec : [f EXCEPT ![d].buf = p, ![d].event = TRUE] = [f EXCEPT ![d] = a] /\ Signalled(a, f[d], p)
           /\ \E a \in IoRec : [f EXCEPT ![d].event = TRUE] = [f EXCEPT ![d] = a] /\ Signalled(a, f[d], f[d].buf)
<1> DEFINE yes == TRUE
           io == f[d]
           a == [iostate |-> io.iostate, event |-> yes, status |-> io.status, buf |-> p]
           b == [iostate |-> io.iostate, event |-> yes, status |-> io.status, buf |-> io.buf]
<1>1. yes \in BOOLEAN /\ yes /\ io \in IoRec
  OBVIOUS
<1>2. [[io EXCEPT !.buf = p] EXCEPT !.event = TRUE] = a /\ [io EXCEPT !.event = TRUE] = b
  <2> DEFINE i1 == [io EXCEPT !.buf = p]
  <2>1. /\ [[io EXCEPT !.buf = p] EXCEPT !.event = TRUE] = [i1 EXCEPT !.event = yes]
        /\ [io EXCEPT !.event = TRUE] = [io EXCEPT !.event = yes]
    OBVIOUS
  <2> HIDE DEF yes, io
  <2>2. i1 = [iostate |-> io.iostate, event |-> io.event, status |-> io.status, buf |-> p]
    BY <1>1 DEF IoRec
  <2>3. [io EXCEPT !.event = yes] = b
    <3>1. io = [iostate |-> io.iostate, event |-> io.event, status |-> io.status, buf |-> io.buf]
      BY <1>1 DEF IoRec
    <3> QED
      BY ONLY <3>1
  <2> HIDE DEF i1
  <2>4. [i1 EXCEPT !.event = yes] = a
    BY <2>2
  <2> QED
    BY <2>1, <2>3, <2>4
<1>3. [f EXCEPT ![d].buf = p, ![d].event = TRUE] = [f EXCEPT ![d] = a]
  BY <1>2
<1>4. [f EXCEPT ![d].event = TRUE] = [f EXCEPT ![d] = b]
  BY <1>2
<1> HIDE DEF yes, io
<1>5. a \in IoRec /\ a.buf = p /\ a.iostate = io.iostate /\ a.status = io.status /\ a.event = yes
  BY <1>1 DEF IoRec, IoStates
<1>6. b \in IoRec /\ b.buf = io.buf /\ b.iostate = io.iostate /\ b.status = io.status /\ b.event = yes
  BY <1>1 DEF IoRec, IoStates
<1> HIDE DEF a, b
<1>7. a.event /\ b.event
  BY <1>1, <1>5, <1>6
<1> QED
  BY <1>3, <1>4, <1>5, <1>6, <1>7, Zenon DEF io, Signalled

\* The kernel's requests.
Krnls == [Sides -> [r : KrnlStates, w : KrnlStates]]
SetR(k, d, x) == [k EXCEPT ![d].r = x]
SetW(k, d, x) == [k EXCEPT ![d].w = x]
\* The kernel's read request of a side changes.
LEMMA KrnlReadIs ==
    ASSUME NEW k \in Krnls, NEW d \in Sides, NEW x \in KrnlStates
    PROVE  /\ SetR(k, d, x) \in Krnls
           /\ SetR(k, d, x)[d].r = x /\ SetR(k, d, x)[d].w = k[d].w /\ \A e \in Sides : e # d => SetR(k, d, x)[e] = k[e]
BY DEF Krnls, SetR
\* The kernel's write request of a side changes.
LEMMA KrnlWriteIs ==
    ASSUME NEW k \in Krnls, NEW d \in Sides, NEW x \in KrnlStates
    PROVE  /\ SetW(k, d, x) \in Krnls
           /\ SetW(k, d, x)[d].w = x /\ SetW(k, d, x)[d].r = k[d].r /\ \A e \in Sides : e # d => SetW(k, d, x)[e] = k[e]
BY DEF Krnls, SetW

\* Two idle sides (init_tun_post, socket_frame_init) satisfy the invariant.
LEMMA OvInit == IoInit => OvInv
<1> SUFFICES ASSUME IoInit PROVE OvInv
  OBVIOUS
<1>1. \A d \in Sides : reads[d] = OverlappedIoInit(FALSE) /\ writes[d] = OverlappedIoInit(TRUE)
  BY InitIs DEF IoInit
<1>2. OvType
  <2>1. reads \in [Sides -> IoRec] /\ writes \in [Sides -> IoRec]
    BY InitIs DEF IoInit
  <2>2. krnl \in [Sides -> [r : KrnlStates, w : KrnlStates]]
    BY DEF IoInit, KrnlStates
  <2>3. opened \in [Sides -> BOOLEAN] /\ came \in [Sides -> 0 .. MaxArrivals] /\ fwd \in [Sides -> 0 .. MaxArrivals]
    BY OverlappedAssumption DEF IoInit, NoPacket
  <2>4. waits \in [Sides -> Seq(Nat)] /\ out \in [Sides -> Seq(Nat)] /\ lost \in [Sides -> SUBSET Nat] /\ faults \in 0 .. MaxFaults
    BY OverlappedAssumption DEF IoInit
  <2> QED
    BY <2>1, <2>2, <2>3, <2>4 DEF OvType
<1>3. ASSUME NEW d \in Sides PROVE RSide(d) /\ WSide(d) /\ FSide(d)
  <2>1. Other(d) \in Sides
    BY TwoSides
  <2>2. /\ krnl[d].r = "idle" /\ krnl[d].w = "idle" /\ krnl[Other(d)].w = "idle" /\ opened[d]
        /\ fwd[d] = NoPacket /\ waits[d] = <<>> /\ out[d] = <<>> /\ lost[d] = {} /\ came[d] = 0
    BY <2>1 DEF IoInit
  <2>3. reads[d].iostate = "INITIAL" /\ ~reads[d].event /\ writes[d].iostate = "INITIAL" /\ writes[d].event
    BY <1>1, InitIs
  <2>4. RSide(d)
    BY <2>2, <2>3 DEF RSide, ReadOK
  <2>5. WSide(d)
    BY <2>2, <2>3 DEF WSide, WriteOK
  <2>6. Range(<<>>) = {}
    BY DEF Range
  <2>7. ReadHolds(reads[d], krnl[d].r) = {} /\ WriteHolds(writes[Other(d)], krnl[Other(d)].w) = {} /\ Carries(fwd[d]) = {}
    BY <2>2, <2>3 DEF ReadHolds, WriteHolds, Carries
  <2>8. FlowOK({}, {}, {}, {}, {}, {}, 0)
    BY DEF FlowOK, Below
  <2>9. Increasing(<<>>)
    BY DEF Increasing
  <2> QED
    BY <2>2, <2>4, <2>5, <2>6, <2>7, <2>8, <2>9 DEF FSide
<1> QED
  BY <1>2, <1>3 DEF OvInv

\* What a side's invariant depends on.
LEMMA OvFrame ==
    ASSUME NEW e \in Sides
    PROVE  /\ /\ RSide(e) /\ reads'[e] = reads[e] /\ krnl'[e].r = krnl[e].r /\ opened'[e] = opened[e]
              /\ fwd'[e] = fwd[e] /\ waits'[e] = waits[e]
              => RSide(e)'
           /\ /\ WSide(e) /\ writes'[e] = writes[e] /\ krnl'[e].w = krnl[e].w /\ opened'[e] = opened[e]
              => WSide(e)'
           /\ /\ FSide(e) /\ reads'[e] = reads[e] /\ krnl'[e].r = krnl[e].r /\ came'[e] = came[e]
              /\ writes'[Other(e)] = writes[Other(e)] /\ krnl'[Other(e)].w = krnl[Other(e)].w
              /\ waits'[e] = waits[e] /\ fwd'[e] = fwd[e] /\ out'[e] = out[e] /\ lost'[e] = lost[e]
              => FSide(e)'
<1>1. ASSUME RSide(e), reads'[e] = reads[e], krnl'[e].r = krnl[e].r, opened'[e] = opened[e],
             fwd'[e] = fwd[e], waits'[e] = waits[e]
      PROVE  RSide(e)'
  BY ONLY <1>1 DEF RSide
<1>2. ASSUME WSide(e), writes'[e] = writes[e], krnl'[e].w = krnl[e].w, opened'[e] = opened[e]
      PROVE  WSide(e)'
  BY ONLY <1>2 DEF WSide
<1>3. ASSUME FSide(e), reads'[e] = reads[e], krnl'[e].r = krnl[e].r, came'[e] = came[e],
             writes'[Other(e)] = writes[Other(e)], krnl'[Other(e)].w = krnl[Other(e)].w,
             waits'[e] = waits[e], fwd'[e] = fwd[e], out'[e] = out[e], lost'[e] = lost[e]
      PROVE  FSide(e)'
  BY ONLY <1>3 DEF FSide
<1> QED
  BY <1>1, <1>2, <1>3, Zenon

\* A packet that arrives goes behind those that wait, or into the read that is queued, for
\* which none wait.
LEMMA OvArrive ==
    ASSUME OvInv, NEW d \in Sides, Arrive(d)
    PROVE  OvInv'
<1> DEFINE o == Other(d)
           n == came[d]
<1>1. o \in Sides /\ o # d /\ Other(o) = d /\ \A e \in Sides : e = d \/ e = o
  BY TwoSides
<1>2. OvType /\ RSide(d) /\ WSide(d) /\ FSide(d) /\ RSide(o) /\ WSide(o) /\ FSide(o)
  BY <1>1 DEF OvInv
<1>3. n \in Nat /\ n + 1 \in 0 .. MaxArrivals /\ came'[d] = n + 1 /\ came'[o] = came[o] /\ came' \in [Sides -> 0 .. MaxArrivals]
  BY <1>1, <1>2, OverlappedAssumption DEF OvType, Arrive
<1>4. /\ writes' = writes /\ opened' = opened /\ fwd' = fwd /\ out' = out /\ lost' = lost /\ faults' = faults
  BY DEF Arrive
<1>5. CASE krnl[d].r = "pending"
  <2>1. waits' = waits /\ reads' = [reads EXCEPT ![d].buf = n + 1, ![d].event = TRUE] /\ krnl' = [krnl EXCEPT ![d].r = "done"]
    BY <1>5 DEF Arrive
  <2>2. PICK a \in IoRec : reads' = [reads EXCEPT ![d] = a] /\ Signalled(a, reads[d], n + 1)
    <3>1. reads \in [Sides -> IoRec]
      BY <1>2 DEF OvType, Krnls
    <3> HIDE DEF n
    <3> QED
      BY <2>1, <1>3, <3>1, SignalledIs, Zenon
  <2>3. reads' \in [Sides -> IoRec] /\ reads'[d] = a /\ reads'[o] = reads[o]
    BY <2>2, <1>1, <1>2 DEF OvType, Krnls
  <2>4. /\ krnl' \in Krnls /\ krnl'[d].r = "done" /\ krnl'[d].w = krnl[d].w
        /\ krnl'[o] = krnl[o]
    <3>1. krnl \in Krnls /\ "done" \in KrnlStates /\ krnl' = SetR(krnl, d, "done")
      BY <1>2, <2>1 DEF OvType, KrnlStates, Krnls, SetR
    <3> HIDE DEF o
    <3> QED
      BY <1>1, <3>1, KrnlReadIs
  <2>5. OvType'
    BY <1>2, <1>3, <1>4, <2>1, <2>3, <2>4 DEF OvType, Krnls
  <2>6. reads[d].iostate = "QUEUED" /\ opened[d] /\ fwd[d] = NoPacket /\ waits[d] = <<>> /\ reads[d].buf = NoPacket
    BY <1>2, <1>5 DEF RSide, ReadOK, OvType, IoRec, IoStates
  <2>7. RSide(d)'
    BY <1>4, <2>1, <2>2, <2>3, <2>4, <2>6 DEF RSide, ReadOK, Signalled
  <2>8. RSide(o)' /\ WSide(o)' /\ WSide(d)' /\ FSide(o)'
    BY <1>1, <1>2, <1>3, <1>4, <2>1, <2>3, <2>4, OvFrame
  <2>9. Range(waits[d]) = {} /\ ReadHolds(reads[d], krnl[d].r) = {} /\ ReadHolds(a, "done") = {n + 1}
    BY <2>2, <2>6, <1>3, <1>5 DEF Range, ReadHolds, NoPacket, Signalled
  <2>10. FSide(d)'
    <3>1. FlowOK(Range(out[d]), WriteHolds(writes[o], krnl[o].w), Carries(fwd[d]), {n + 1}, {}, lost[d], n + 1)
      BY <1>2, <1>3, <2>9, FlowFills DEF FSide
    <3> QED
      BY <3>1, <1>2, <1>3, <1>4, <2>1, <2>3, <2>4, <2>9 DEF FSide
  <2> QED
    BY <1>1, <2>5, <2>7, <2>8, <2>10 DEF OvInv
<1>6. CASE krnl[d].r # "pending"
  <2>1. waits' = [waits EXCEPT ![d] = Append(@, n + 1)] /\ reads' = reads /\ krnl' = krnl
    BY <1>6 DEF Arrive
  <2>2. waits[d] \in Seq(Nat) /\ waits \in [Sides -> Seq(Nat)]
    BY <1>2 DEF OvType, Krnls
  <2>3. waits'[d] = Append(waits[d], n + 1) /\ waits'[o] = waits[o] /\ waits' \in [Sides -> Seq(Nat)]
    BY <2>1, <2>2, <1>1, <1>3
  <2>4. Below(Range(waits[d]), {n + 1})
    BY <1>2, <1>3 DEF FSide, FlowOK, Below
  <2>5. Increasing(waits'[d]) /\ Range(waits'[d]) = Range(waits[d]) \cup {n + 1}
    <3>1. Increasing(waits[d]) /\ n + 1 \in Nat
      BY <1>2, <1>3 DEF FSide
    <3> HIDE DEF n
    <3> QED
      BY <3>1, <2>2, <2>3, <2>4, IncreasingAppend, Zenon
  <2>6. OvType'
    BY <1>2, <1>3, <1>4, <2>1, <2>3 DEF OvType, Krnls
  <2>7. RSide(d)'
    BY <1>2, <1>4, <2>1, <1>6 DEF RSide, ReadOK, Signalled
  <2>8. RSide(o)' /\ WSide(o)' /\ WSide(d)' /\ FSide(o)'
    BY <1>1, <1>2, <1>3, <1>4, <2>1, <2>3, OvFrame
  <2>9. FSide(d)'
    <3>1. FlowOK(Range(out[d]), WriteHolds(writes[o], krnl[o].w), Carries(fwd[d]), ReadHolds(reads[d], krnl[d].r),
                 Range(waits[d]) \cup {n + 1}, lost[d], n + 1)
      BY <1>2, <1>3, FlowArrives DEF FSide
    <3> QED
      BY <3>1, <1>2, <1>3, <1>4, <2>1, <2>5 DEF FSide
  <2> QED
    BY <1>1, <2>6, <2>7, <2>8, <2>9 DEF OvInv
<1> QED
  BY <1>5, <1>6

\* A fault is counted.
LEMMA FaultIs ==
    ASSUME OvType, NEW b, Fault(b)
    PROVE  faults' \in 0 .. MaxFaults
<1>1. (IF b THEN 1 ELSE 0) \in Nat
  OBVIOUS
<1> DEFINE x == IF b THEN 1 ELSE 0
<1> HIDE DEF x
<1>2. x \in Nat /\ faults' = faults + x /\ faults' <= MaxFaults /\ faults \in 0 .. MaxFaults
  BY <1>1 DEF Fault, OvType, x
<1> QED
  BY ONLY <1>2, OverlappedAssumption

\* A queued read that fails had no packet.
LEMMA OvReadFails ==
    ASSUME OvInv, NEW d \in Sides, ReadFails(d)
    PROVE  OvInv'
<1> DEFINE o == Other(d)
<1>1. o \in Sides /\ o # d /\ Other(o) = d /\ \A e \in Sides : e = d \/ e = o
  BY TwoSides
<1>2. OvType /\ RSide(d) /\ WSide(d) /\ FSide(d) /\ RSide(o) /\ WSide(o) /\ FSide(o)
  BY <1>1 DEF OvInv
<1> HIDE DEF o
<1>3. /\ krnl[d].r = "pending" /\ Fault(TRUE) /\ krnl' = [krnl EXCEPT ![d].r = "failed"]
      /\ reads' = [reads EXCEPT ![d].event = TRUE]
      /\ writes' = writes /\ opened' = opened /\ came' = came /\ waits' = waits /\ fwd' = fwd /\ out' = out /\ lost' = lost
  BY DEF ReadFails
<1>4. PICK a \in IoRec : reads' = [reads EXCEPT ![d] = a] /\ Signalled(a, reads[d], reads[d].buf)
  <2>1. reads \in [Sides -> IoRec] /\ 0 \in 0 .. MaxArrivals
    BY <1>2, OverlappedAssumption DEF OvType, Krnls
  <2> QED
    BY <2>1, <1>3, SignalledIs, Zenon
<1>5. reads' \in [Sides -> IoRec] /\ reads'[d] = a /\ reads'[o] = reads[o]
  BY <1>4, <1>1, <1>2 DEF OvType, Krnls
<1>6. /\ krnl' \in Krnls /\ krnl'[d].r = "failed" /\ krnl'[d].w = krnl[d].w
      /\ krnl'[o] = krnl[o]
  <2>1. krnl \in Krnls /\ "failed" \in KrnlStates /\ krnl' = SetR(krnl, d, "failed")
    BY <1>2, <1>3 DEF OvType, KrnlStates, Krnls, SetR
  <2> QED
    BY <2>1, <1>1, KrnlReadIs
<1>7. OvType'
  BY <1>2, <1>3, <1>5, <1>6, FaultIs DEF OvType, Krnls
<1>8. reads[d].iostate = "QUEUED" /\ opened[d] /\ fwd[d] = NoPacket /\ waits[d] = <<>> /\ reads[d].buf = NoPacket
  BY <1>2, <1>3 DEF RSide, ReadOK, OvType, IoRec, IoStates
<1>9. RSide(d)'
  BY <1>3, <1>4, <1>5, <1>6, <1>8 DEF RSide, ReadOK, Signalled
<1>10. RSide(o)' /\ WSide(o)' /\ WSide(d)' /\ FSide(o)'
  BY <1>1, <1>2, <1>3, <1>5, <1>6, OvFrame
<1>11. ReadHolds(reads[d], krnl[d].r) = {} /\ ReadHolds(a, "failed") = {}
  BY <1>3, <1>4, <1>8 DEF ReadHolds, Signalled
<1>12. FSide(d)'
  BY <1>2, <1>3, <1>5, <1>6, <1>11 DEF FSide, o
<1> QED
  BY <1>1, <1>7, <1>9, <1>10, <1>12 DEF OvInv

\* A queued write that ends moves its packet, the oldest that is not out, to the other side.
LEMMA OvWriteCompletes ==
    ASSUME OvInv, NEW d \in Sides, NEW ok \in BOOLEAN, WriteCompletes(d, ok)
    PROVE  OvInv'
<1> DEFINE o == Other(d)
           p == writes[d].buf
           k == IF ok THEN "done" ELSE "failed"
<1>1. o \in Sides /\ o # d /\ Other(o) = d /\ \A e \in Sides : e = d \/ e = o
  BY TwoSides
<1>2. OvType /\ RSide(d) /\ WSide(d) /\ FSide(d) /\ RSide(o) /\ WSide(o) /\ FSide(o)
  BY <1>1 DEF OvInv
<1>3. /\ krnl[d].w = "pending" /\ Fault(~ok) /\ krnl' = [krnl EXCEPT ![d].w = k]
      /\ writes' = [writes EXCEPT ![d].event = TRUE]
      /\ out' = (IF ok THEN [out EXCEPT ![o] = Append(@, p)] ELSE out)
      /\ lost' = (IF ok THEN lost ELSE [lost EXCEPT ![o] = @ \cup {p}])
      /\ reads' = reads /\ opened' = opened /\ came' = came /\ waits' = waits /\ fwd' = fwd
  BY DEF WriteCompletes
<1>4. k \in {"done", "failed"}
  OBVIOUS
<1> HIDE DEF o, k
<1>5. PICK a \in IoRec : writes' = [writes EXCEPT ![d] = a] /\ Signalled(a, writes[d], writes[d].buf)
  <2>1. writes \in [Sides -> IoRec] /\ 0 \in 0 .. MaxArrivals
    BY <1>2, OverlappedAssumption DEF OvType, Krnls
  <2> QED
    BY <2>1, <1>3, SignalledIs, Zenon
<1>6. writes' \in [Sides -> IoRec] /\ writes'[d] = a /\ writes'[o] = writes[o] /\ p \in Nat
  BY <1>5, <1>1, <1>2, OverlappedAssumption DEF OvType, IoRec
<1>7. /\ krnl' \in Krnls /\ krnl'[d].w = k /\ krnl'[d].r = krnl[d].r
      /\ krnl'[o] = krnl[o]
  <2>1. krnl \in Krnls /\ k \in KrnlStates /\ krnl' = SetW(krnl, d, k)
    BY <1>2, <1>3, <1>4 DEF OvType, KrnlStates, Krnls, SetW
  <2> QED
    BY <2>1, <1>1, KrnlWriteIs
<1>8. RSide(d)' /\ RSide(o)' /\ WSide(o)'
  BY <1>1, <1>2, <1>3, <1>6, <1>7, OvFrame
<1>9. WSide(d)'
  <2>1. writes[d].iostate = "QUEUED" /\ opened[d]
    BY <1>2, <1>3 DEF WSide, WriteOK, OvType, IoRec, IoStates
  <2> QED
    BY <2>1, <1>3, <1>4, <1>5, <1>6, <1>7 DEF WSide, WriteOK, Signalled
<1>10. WriteHolds(writes[d], krnl[d].w) = {p} /\ WriteHolds(writes'[d], krnl'[d].w) = {}
  BY <1>3, <1>4, <1>7 DEF WriteHolds
<1>11. out[o] \in Seq(Nat) /\ out \in [Sides -> Seq(Nat)] /\ lost \in [Sides -> SUBSET Nat]
  BY <1>1, <1>2 DEF OvType, Krnls
<1>12. FlowOK(Range(out[o]), {p}, Carries(fwd[o]), ReadHolds(reads[o], krnl[o].r), Range(waits[o]), lost[o], came[o])
  BY <1>1, <1>2, <1>10 DEF FSide
<1>13. came[o] \in Nat
  BY <1>1, <1>2, OverlappedAssumption DEF OvType, Krnls
<1>14. CASE ok
  <2>1. out'[o] = Append(out[o], p) /\ out'[d] = out[d] /\ lost' = lost /\ out' \in [Sides -> Seq(Nat)]
    BY <1>14, <1>3, <1>1, <1>6, <1>11
  <2>2. Below(Range(out[o]), {p}) /\ Increasing(out[o])
    BY <1>2, <1>12 DEF FlowOK, FSide
  <2>3. Increasing(out'[o]) /\ Range(out'[o]) = Range(out[o]) \cup {p}
    <3> HIDE DEF p
    <3> QED
      BY <1>6, <1>11, <2>1, <2>2, IncreasingAppend, Zenon
  <2>4. FlowOK(Range(out[o]) \cup {p}, {}, Carries(fwd[o]), ReadHolds(reads[o], krnl[o].r), Range(waits[o]), lost[o], came[o])
    BY <1>12, <1>13, FlowCompletes
  <2>5. FSide(o)'
    BY <1>1, <1>2, <1>3, <1>7, <1>10, <2>1, <2>3, <2>4 DEF FSide
  <2>6. FSide(d)'
    BY <1>1, <1>2, <1>3, <1>6, <1>7, <2>1, OvFrame DEF o
  <2>7. OvType'
    BY <1>2, <1>3, <1>6, <1>7, <2>1, FaultIs DEF OvType, Krnls
  <2> QED
    BY <1>1, <1>8, <1>9, <2>5, <2>6, <2>7 DEF OvInv
<1>15. CASE ~ok
  <2>1. lost'[o] = lost[o] \cup {p} /\ lost'[d] = lost[d] /\ out' = out /\ lost' \in [Sides -> SUBSET Nat]
    BY <1>15, <1>3, <1>1, <1>6, <1>11
  <2>2. FlowOK(Range(out[o]), {}, Carries(fwd[o]), ReadHolds(reads[o], krnl[o].r), Range(waits[o]), lost[o] \cup {p}, came[o])
    BY <1>12, <1>13, FlowCompletes
  <2>3. FSide(o)'
    BY <1>1, <1>2, <1>3, <1>7, <1>10, <2>1, <2>2 DEF FSide
  <2>4. FSide(d)'
    BY <1>1, <1>2, <1>3, <1>6, <1>7, <2>1, OvFrame DEF o
  <2>5. OvType'
    BY <1>2, <1>3, <1>6, <1>7, <2>1, FaultIs DEF OvType, Krnls
  <2> QED
    BY <1>1, <1>8, <1>9, <2>3, <2>4, <2>5 DEF OvInv
<1> QED
  BY <1>14, <1>15

\* tun_read_queue and socket_recv_queue take the packet that has waited longest, or none.
LEMMA OvQueueRead ==
    ASSUME OvInv, NEW d \in Sides, QueueRead(d)
    PROVE  OvInv'
<1> DEFINE o == Other(d)
           h == Head(waits[d])
<1>1. o \in Sides /\ o # d /\ Other(o) = d /\ \A e \in Sides : e = d \/ e = o
  BY TwoSides
<1>2. OvType /\ RSide(d) /\ WSide(d) /\ FSide(d) /\ RSide(o) /\ WSide(o) /\ FSide(o)
  BY <1>1 DEF OvInv
<1>3. /\ opened[d] /\ fwd[d] = NoPacket /\ reads[d].iostate = "INITIAL"
      /\ writes' = writes /\ opened' = opened /\ came' = came /\ fwd' = fwd /\ out' = out /\ lost' = lost
  BY DEF QueueRead
<1>4. PICK answer \in {"now", "pending", "error"} :
        /\ (answer = "now") = (waits[d] # <<>> /\ answer # "error") /\ Fault(answer = "error")
        /\ reads' = [reads EXCEPT ![d] = ReadQueue(d, answer, IF answer = "now" THEN h ELSE NoPacket)]
        /\ waits' = [waits EXCEPT ![d] = IF answer = "now" THEN Tail(@) ELSE @]
        /\ krnl' = [krnl EXCEPT ![d].r = IF answer = "pending" THEN "pending" ELSE "idle"]
  BY DEF QueueRead
<1>5. (answer = "now" => waits[d] # <<>>) /\ (answer = "pending" => waits[d] = <<>>)
  BY <1>4
<1>6. waits[d] \in Seq(Nat) /\ waits \in [Sides -> Seq(Nat)] /\ Increasing(waits[d]) /\ came[d] \in Nat
      /\ reads[d] \in IoRec /\ reads \in [Sides -> IoRec]
  BY <1>2, OverlappedAssumption DEF OvType, FSide
<1>7. answer = "now" => h \in Range(waits[d]) /\ h \in 1 .. came[d] /\ h \in 0 .. MaxArrivals /\ h # NoPacket
  <2> SUFFICES ASSUME answer = "now" PROVE h \in Range(waits[d]) /\ h \in 1 .. came[d] /\ h \in 0 .. MaxArrivals /\ h # NoPacket
    OBVIOUS
  <2>1. h \in Range(waits[d])
    BY <1>5, <1>6, IncreasingTail
  <2> HIDE DEF h
  <2>2. h \in 1 .. came[d]
    BY <2>1, <1>2 DEF FSide, FlowOK
  <2>3. came[d] \in 0 .. MaxArrivals
    BY <1>2 DEF OvType, Krnls
  <2> QED
    BY <2>1, <2>2, <2>3, OverlappedAssumption DEF NoPacket
<1> DEFINE p == IF answer = "now" THEN h ELSE NoPacket
<1>8. p \in 0 .. MaxArrivals
  BY <1>7, OverlappedAssumption DEF NoPacket
<1>9. ReadQueue(d, answer, p) = Answered([reads[d] EXCEPT !.buf = p], answer)
  BY DEF ReadQueue, TunReadQueue, SocketRecvQueue
<1>10. reads' = [reads EXCEPT ![d] = ReadQueue(d, answer, p)]
  BY <1>4
<1>11. answer = "now" => p = h
  OBVIOUS
<1>12. answer # "now" => p = NoPacket
  OBVIOUS
<1> HIDE DEF p, o
<1>13. PICK a \in IoRec : Answered([reads[d] EXCEPT !.buf = p], answer) = a /\ Asked(a, p, answer)
  BY <1>6, <1>8, AnsweredIs, Zenon
<1>14. reads' \in [Sides -> IoRec] /\ reads'[d] = a /\ reads'[o] = reads[o]
  BY <1>1, <1>6, <1>9, <1>10, <1>13
<1>15. waits' \in [Sides -> Seq(Nat)] /\ waits'[o] = waits[o]
       /\ waits'[d] = (IF answer = "now" THEN Tail(waits[d]) ELSE waits[d])
  BY <1>1, <1>4, <1>5, <1>6, IncreasingTail
<1>16. /\ krnl' \in Krnls /\ krnl'[d].w = krnl[d].w
       /\ krnl'[d].r = (IF answer = "pending" THEN "pending" ELSE "idle") /\ krnl'[o] = krnl[o]
  <2> DEFINE k == IF answer = "pending" THEN "pending" ELSE "idle"
  <2>1. krnl \in Krnls /\ k \in KrnlStates /\ krnl' = SetR(krnl, d, k)
    BY <1>2, <1>4 DEF OvType, KrnlStates, Krnls, SetR
  <2> HIDE DEF k
  <2>2. krnl' \in Krnls /\ krnl'[d].w = krnl[d].w /\ krnl'[d].r = k /\ krnl'[o] = krnl[o]
    BY <2>1, <1>1, KrnlReadIs
  <2> QED
    BY <2>2 DEF k
<1>17. OvType'
  BY <1>2, <1>3, <1>4, <1>14, <1>15, <1>16, FaultIs DEF OvType, Krnls
<1>18. RSide(d)'
  <2>1. CASE answer = "now"
    BY <2>1, <1>3, <1>13, <1>14, <1>16 DEF RSide, ReadOK, Asked
  <2>2. CASE answer = "pending"
    BY <2>2, <1>3, <1>5, <1>12, <1>13, <1>14, <1>15, <1>16 DEF RSide, ReadOK, Asked
  <2>3. CASE answer = "error"
    BY <2>3, <1>3, <1>12, <1>13, <1>14, <1>16 DEF RSide, ReadOK, Asked
  <2> QED
    BY <2>1, <2>2, <2>3
<1>19. RSide(o)' /\ WSide(o)' /\ WSide(d)' /\ FSide(o)'
  BY <1>1, <1>2, <1>3, <1>14, <1>15, <1>16, OvFrame
<1>20. ReadHolds(reads[d], krnl[d].r) = {}
  BY <1>2, <1>3 DEF ReadHolds, RSide, ReadOK
<1>21. FSide(d)'
  <2>1. CASE answer = "now"
    <3>1. ReadHolds(reads'[d], krnl'[d].r) = {h}
      BY <2>1, <1>7, <1>11, <1>13, <1>14, <1>16 DEF ReadHolds, Asked
    <3>2. /\ h \in Range(waits[d]) /\ \A w \in Range(waits[d]) : w = h \/ h < w
          /\ Range(waits'[d]) = Range(waits[d]) \ {h} /\ Increasing(waits'[d])
      BY <2>1, <1>5, <1>6, <1>15, IncreasingTail
    <3> HIDE DEF h
    <3>3. FlowOK(Range(out[d]), WriteHolds(writes[o], krnl[o].w), Carries(fwd[d]), {}, Range(waits[d]), lost[d], came[d])
      BY <1>2, <1>20 DEF FSide, o
    <3>4. FlowOK(Range(out[d]), WriteHolds(writes[o], krnl[o].w), Carries(fwd[d]), {h}, Range(waits[d]) \ {h}, lost[d], came[d])
      BY <1>6, <3>2, <3>3, FlowTaken
    <3> QED
      BY <3>1, <3>2, <3>4, <1>2, <1>3, <1>16 DEF FSide, o
  <2>2. CASE answer # "now"
    <3>1. ReadHolds(reads'[d], krnl'[d].r) = {}
      BY <2>2, <1>12, <1>13, <1>14 DEF ReadHolds, Asked
    <3>2. waits'[d] = waits[d]
      BY <2>2, <1>15
    <3> QED
      BY <3>1, <3>2, <1>2, <1>3, <1>16, <1>20 DEF FSide, o
  <2> QED
    BY <2>1, <2>2
<1> QED
  BY <1>1, <1>17, <1>18, <1>19, <1>21 DEF OvInv

\* The read event says that the read is over: finishing it hands its packet, if it has one,
\* to the forwarder.
LEMMA OvReadIncoming ==
    ASSUME OvInv, NEW d \in Sides, ReadIncoming(d)
    PROVE  OvInv'
<1> DEFINE o == Other(d)
           io == reads[d]
           k == krnl[d].r
<1>1. o \in Sides /\ o # d /\ Other(o) = d /\ \A e \in Sides : e = d \/ e = o
  BY TwoSides
<1>2. OvType /\ RSide(d) /\ WSide(d) /\ FSide(d) /\ RSide(o) /\ WSide(o) /\ FSide(o)
  BY <1>1 DEF OvInv
<1>3. /\ opened[d] /\ fwd[d] = NoPacket /\ io.event
      /\ writes' = writes /\ opened' = opened /\ came' = came /\ waits' = waits /\ out' = out /\ lost' = lost /\ faults' = faults
      /\ krnl' = [krnl EXCEPT ![d].r = IF @ = "pending" THEN @ ELSE "idle"]
  BY DEF ReadIncoming
<1>4. reads' = [reads EXCEPT ![d] = Finalize(d, io, k).io]
  BY DEF ReadIncoming
<1>5. fwd' = [fwd EXCEPT ![d] = IF Finalize(d, io, k).ret = "ok" THEN Finalize(d, io, k).io.buf ELSE NoPacket]
  BY DEF ReadIncoming
<1>6. /\ io \in IoRec /\ k \in KrnlStates /\ reads \in [Sides -> IoRec] /\ fwd \in [Sides -> 0 .. MaxArrivals]
      /\ krnl \in Krnls /\ came[d] \in Nat /\ io.buf \in 0 .. MaxArrivals
  BY <1>2, OverlappedAssumption DEF OvType, Krnls, IoRec
<1>7. /\ io.iostate \in {"QUEUED", "IMMEDIATE_RETURN"} /\ k # "pending"
      /\ io.iostate = "QUEUED" => k \in {"done", "failed"}
      /\ io.iostate = "IMMEDIATE_RETURN" => k = "idle"
      /\ (k = "failed" \/ (io.iostate = "IMMEDIATE_RETURN" /\ io.status # "ok")) => io.buf = NoPacket
  BY <1>2, <1>3, <1>6 DEF RSide, ReadOK, IoRec, IoStates, KrnlStates
<1>8. krnl' = SetR(krnl, d, "idle") /\ "idle" \in KrnlStates
  BY <1>3, <1>7 DEF SetR, KrnlStates
<1>9. krnl' \in Krnls /\ krnl'[d].r = "idle" /\ krnl'[d].w = krnl[d].w /\ krnl'[o] = krnl[o]
  BY <1>1, <1>6, <1>8, KrnlReadIs
<1> HIDE DEF o, io, k
<1>10. PICK a \in IoRec :
             /\ Finalize(d, io, k).io = a /\ a.buf = io.buf /\ a.iostate = "INITIAL" /\ ~a.event
             /\ Finalize(d, io, k).ret \in {"ok", "bad"}
             /\ Finalize(d, io, k).ret = "ok" <=> IF io.iostate = "QUEUED" THEN k = "done" ELSE io.status = "ok"
  BY <1>6, <1>7, FinalizeIs
<1> DEFINE p == IF Finalize(d, io, k).ret = "ok" THEN io.buf ELSE NoPacket
<1>11. p \in 0 .. MaxArrivals /\ fwd' = [fwd EXCEPT ![d] = p]
  BY <1>5, <1>6, <1>10, OverlappedAssumption DEF NoPacket
<1>12. ReadHolds(io, k) = Carries(p)
  <2>1. CASE io.iostate = "QUEUED"
    BY <2>1, <1>7, <1>10 DEF ReadHolds, Carries
  <2>2. CASE io.iostate = "IMMEDIATE_RETURN"
    BY <2>2, <1>7, <1>10 DEF ReadHolds, Carries
  <2> QED
    BY <1>7, <2>1, <2>2
<1> HIDE DEF p
<1>13. fwd' \in [Sides -> 0 .. MaxArrivals] /\ fwd'[d] = p /\ fwd'[o] = fwd[o]
  BY <1>1, <1>6, <1>11
<1>14. reads' \in [Sides -> IoRec] /\ reads'[d] = a /\ reads'[o] = reads[o]
  BY <1>1, <1>4, <1>6, <1>10
<1>15. OvType'
  BY <1>2, <1>3, <1>9, <1>13, <1>14 DEF OvType, Krnls
<1>16. RSide(d)'
  BY <1>9, <1>10, <1>14 DEF RSide, ReadOK
<1>17. RSide(o)' /\ WSide(o)' /\ WSide(d)' /\ FSide(o)'
  BY <1>1, <1>2, <1>3, <1>9, <1>13, <1>14, OvFrame
<1>18. FSide(d)'
  <2>1. Carries(fwd[d]) = {} /\ ReadHolds(a, "idle") = {}
    BY <1>3, <1>10 DEF Carries, ReadHolds
  <2>2. FlowOK(Range(out[d]), WriteHolds(writes[o], krnl[o].w), {}, Carries(p), Range(waits[d]), lost[d], came[d])
    BY <1>2, <1>12, <2>1 DEF FSide, o, io, k
  <2>3. FlowOK(Range(out[d]), WriteHolds(writes[o], krnl[o].w), Carries(p), {}, Range(waits[d]), lost[d], came[d])
    BY <2>2, <1>6, FlowRead
  <2> QED
    BY <2>1, <2>3, <1>2, <1>3, <1>9, <1>13, <1>14 DEF FSide, o
<1> QED
  BY <1>1, <1>15, <1>16, <1>17, <1>18 DEF OvInv

\* A write whose event is signalled is finished, and the next one can be queued.
LEMMA FinishedIs ==
    ASSUME OvInv, NEW d \in Sides, WriteReady(d)
    PROVE  Finished(d) \in IoRec /\ Finished(d).iostate = "INITIAL" /\ krnl[d].w # "pending"
<1>1. OvType /\ WSide(d) /\ opened[d] /\ writes[d].event
  BY DEF OvInv, WriteReady
<1>2. writes[d] \in IoRec /\ krnl[d].w \in KrnlStates /\ writes[d].iostate \in IoStates
  BY <1>1 DEF OvType, IoRec
<1>3. krnl[d].w # "pending"
  BY <1>1, <1>2 DEF WSide, WriteOK, IoStates
<1>4. CASE writes[d].iostate = "INITIAL"
  BY <1>2, <1>3, <1>4 DEF Finished, OverlappedIoActive
<1>5. CASE writes[d].iostate # "INITIAL"
  <2>1. Finished(d) = Finalize(d, writes[d], krnl[d].w).io
    BY <1>2, <1>5 DEF Finished, OverlappedIoActive, IoStates
  <2>2. Finalize(d, writes[d], krnl[d].w).io \in IoRec /\ Finalize(d, writes[d], krnl[d].w).io.iostate = "INITIAL"
    BY <1>2, <1>3, <1>5, FinalizeIs
  <2> QED
    BY <1>3, <2>1, <2>2
<1> QED
  BY <1>4, <1>5

\* The forwarder's packet goes to the driver, which has none of it left.
LEMMA OvWriteOutgoing ==
    ASSUME OvInv, NEW d \in Sides, WriteOutgoing(d)
    PROVE  OvInv'
<1> DEFINE o == Other(d)
           p == fwd[o]
           fin == Finished(d)
<1>1. o \in Sides /\ o # d /\ Other(o) = d /\ \A e \in Sides : e = d \/ e = o
  BY TwoSides
<1>2. OvType /\ RSide(d) /\ WSide(d) /\ FSide(d) /\ RSide(o) /\ WSide(o) /\ FSide(o)
  BY <1>1 DEF OvInv
<1>3. /\ p # NoPacket /\ WriteReady(d) /\ fwd' = [fwd EXCEPT ![o] = NoPacket]
      /\ reads' = reads /\ opened' = opened /\ came' = came /\ waits' = waits
  BY DEF WriteOutgoing
<1>4. fin \in IoRec /\ fin.iostate = "INITIAL" /\ krnl[d].w # "pending" /\ opened[d]
  BY <1>3, FinishedIs DEF WriteReady
<1>5. PICK answer \in {"now", "pending", "error"} :
         /\ Fault(answer = "error")
         /\ writes' = [writes EXCEPT ![d] = WriteQueue(d, fin, answer, p)]
         /\ krnl' = [krnl EXCEPT ![d].w = IF answer = "pending" THEN "pending" ELSE "idle"]
         /\ out' = (IF answer = "now" THEN [out EXCEPT ![o] = Append(@, writes'[d].buf)] ELSE out)
         /\ lost' = (IF answer = "error" THEN [lost EXCEPT ![o] = @ \cup {p}] ELSE lost)
  BY <1>4 DEF WriteOutgoing
<1>6. WriteQueue(d, fin, answer, p) = Answered([fin EXCEPT !.buf = p], answer)
  BY <1>4 DEF WriteQueue, TunWriteQueue, SocketSendQueue
<1>7. p \in 0 .. MaxArrivals /\ p \in Nat /\ writes \in [Sides -> IoRec] /\ fwd \in [Sides -> 0 .. MaxArrivals] /\ came[o] \in Nat
      /\ out[o] \in Seq(Nat) /\ out \in [Sides -> Seq(Nat)] /\ lost \in [Sides -> SUBSET Nat]
  BY <1>1, <1>2, OverlappedAssumption DEF OvType
<1> HIDE DEF o, p, fin
<1>8. PICK a \in IoRec : Answered([fin EXCEPT !.buf = p], answer) = a /\ Asked(a, p, answer)
  BY <1>4, <1>7, AnsweredIs, Zenon
<1>9. writes' \in [Sides -> IoRec] /\ writes'[d] = a /\ writes'[o] = writes[o] /\ writes'[d].buf = p
  BY <1>1, <1>5, <1>6, <1>7, <1>8 DEF Asked
<1>10. /\ krnl' \in Krnls /\ krnl'[d].w = (IF answer = "pending" THEN "pending" ELSE "idle") /\ krnl'[d].r = krnl[d].r
       /\ krnl'[o] = krnl[o]
  <2> DEFINE k == IF answer = "pending" THEN "pending" ELSE "idle"
  <2>1. krnl \in Krnls /\ k \in KrnlStates /\ krnl' = SetW(krnl, d, k)
    BY <1>2, <1>5 DEF OvType, KrnlStates, Krnls, SetW
  <2> HIDE DEF k
  <2>2. krnl' \in Krnls /\ krnl'[d].r = krnl[d].r /\ krnl'[d].w = k /\ krnl'[o] = krnl[o]
    BY <2>1, <1>1, KrnlWriteIs
  <2> QED
    BY <2>2 DEF k
<1>11. fwd' \in [Sides -> 0 .. MaxArrivals] /\ fwd'[o] = NoPacket /\ fwd'[d] = fwd[d]
  BY <1>1, <1>3, <1>7, OverlappedAssumption DEF NoPacket
<1>12. WSide(d)'
  BY <1>3, <1>4, <1>8, <1>9, <1>10 DEF WSide, WriteOK, Asked
<1>13. WSide(o)' /\ RSide(d)'
  BY <1>1, <1>2, <1>3, <1>9, <1>10, <1>11, OvFrame
<1>14. RSide(o)'
  BY <1>2, <1>3, <1>10, <1>11 DEF RSide, ReadOK
<1>15. Carries(fwd[o]) = {p} /\ WriteHolds(writes[d], krnl[d].w) = {} /\ Carries(fwd'[o]) = {}
  BY <1>3, <1>4, <1>11 DEF Carries, WriteHolds, p
<1>16. FlowOK(Range(out[o]), {}, {p}, ReadHolds(reads[o], krnl[o].r), Range(waits[o]), lost[o], came[o])
  BY <1>1, <1>2, <1>15 DEF FSide
<1>17. /\ FlowOK(Range(out[o]), {p}, {}, ReadHolds(reads[o], krnl[o].r), Range(waits[o]), lost[o], came[o])
       /\ FlowOK(Range(out[o]) \cup {p}, {}, {}, ReadHolds(reads[o], krnl[o].r), Range(waits[o]), lost[o], came[o])
       /\ FlowOK(Range(out[o]), {}, {}, ReadHolds(reads[o], krnl[o].r), Range(waits[o]), lost[o] \cup {p}, came[o])
  BY <1>16, <1>7, FlowWritten
<1>18. Increasing(waits[o]) /\ Increasing(out[o])
  BY <1>2 DEF FSide
<1>19. CASE answer = "now"
  <2>1. out'[o] = Append(out[o], p) /\ out'[d] = out[d] /\ lost' = lost /\ out' \in [Sides -> Seq(Nat)]
    BY <1>19, <1>1, <1>5, <1>7, <1>9
  <2>2. Below(Range(out[o]), {p})
    BY <1>16 DEF FlowOK
  <2>3. Increasing(out'[o]) /\ Range(out'[o]) = Range(out[o]) \cup {p}
    BY <1>7, <1>18, <2>1, <2>2, IncreasingAppend, Zenon
  <2>4. WriteHolds(writes'[d], krnl'[d].w) = {}
    BY <1>19, <1>10 DEF WriteHolds
  <2>5. FSide(o)'
    BY <1>1, <1>3, <1>10, <1>15, <1>17, <1>18, <2>1, <2>3, <2>4 DEF FSide
  <2>6. FSide(d)'
    BY <1>1, <1>2, <1>3, <1>9, <1>10, <1>11, <2>1, OvFrame DEF o
  <2>7. OvType'
    BY <1>2, <1>3, <1>5, <1>9, <1>10, <1>11, <2>1, FaultIs DEF OvType, Krnls
  <2> QED
    BY <1>1, <1>12, <1>13, <1>14, <2>5, <2>6, <2>7 DEF OvInv
<1>20. CASE answer = "pending"
  <2>1. out' = out /\ lost' = lost
    BY <1>20, <1>5
  <2>2. WriteHolds(writes'[d], krnl'[d].w) = {p}
    BY <1>20, <1>9, <1>10 DEF WriteHolds
  <2>3. FSide(o)'
    BY <1>1, <1>3, <1>10, <1>15, <1>17, <1>18, <2>1, <2>2 DEF FSide
  <2>4. FSide(d)'
    BY <1>1, <1>2, <1>3, <1>9, <1>10, <1>11, <2>1, OvFrame DEF o
  <2>5. OvType'
    BY <1>2, <1>3, <1>5, <1>9, <1>10, <1>11, <2>1, FaultIs DEF OvType, Krnls
  <2> QED
    BY <1>1, <1>12, <1>13, <1>14, <2>3, <2>4, <2>5 DEF OvInv
<1>21. CASE answer = "error"
  <2>1. out' = out /\ lost'[o] = lost[o] \cup {p} /\ lost'[d] = lost[d] /\ lost' \in [Sides -> SUBSET Nat]
    BY <1>21, <1>1, <1>5, <1>7
  <2>2. WriteHolds(writes'[d], krnl'[d].w) = {}
    BY <1>21, <1>10 DEF WriteHolds
  <2>3. FSide(o)'
    BY <1>1, <1>3, <1>10, <1>15, <1>17, <1>18, <2>1, <2>2 DEF FSide
  <2>4. FSide(d)'
    BY <1>1, <1>2, <1>3, <1>9, <1>10, <1>11, <2>1, OvFrame DEF o
  <2>5. OvType'
    BY <1>2, <1>3, <1>5, <1>9, <1>10, <1>11, <2>1, FaultIs DEF OvType, Krnls
  <2> QED
    BY <1>1, <1>12, <1>13, <1>14, <2>3, <2>4, <2>5 DEF OvInv
<1> QED
  BY <1>19, <1>20, <1>21

\* A close gives up what its side holds, and cancels before it frees.
LEMMA OvRestart ==
    ASSUME OvInv, NEW ds \in {{"link"}, Sides}, IoRestart(ds)
    PROVE  OvInv'
<1>1. OvType /\ (\A d \in Sides : opened[d]) /\ Fault(TRUE) /\ came' = came /\ out' = out
  BY DEF OvInv, IoRestart
<1>2. ASSUME NEW d \in Sides
      PROVE  /\ opened'[d] = (d \notin ds)
             /\ krnl'[d] = (IF d \in ds THEN [r |-> "idle", w |-> "idle"] ELSE krnl[d])
             /\ reads'[d] = (IF d \in ds THEN OverlappedIoInit(FALSE) ELSE reads[d])
             /\ writes'[d] = (IF d \in ds THEN OverlappedIoInit(FALSE) ELSE writes[d])
             /\ waits'[d] = (IF d \in ds THEN <<>> ELSE waits[d]) /\ fwd'[d] = NoPacket
             /\ lost'[d] = lost[d] \cup ({fwd[d]} \ {NoPacket})
                    \cup (IF d \in ds THEN InBuffer(d) \cup Range(waits[d]) ELSE {})
                    \cup (IF Other(d) \in ds THEN Queued(d) ELSE {})
  BY DEF IoRestart, CancelIo, OverlappedIoClose
<1> DEFINE init == OverlappedIoInit(FALSE)
<1>3. init \in IoRec /\ init.iostate = "INITIAL" /\ ~init.event
  BY InitIs
<1>4. OverlappedIoInit(FALSE) = init
  OBVIOUS
<1> HIDE DEF init
<1>7. ASSUME NEW d \in Sides, d \in ds
      PROVE  /\ ~opened'[d] /\ krnl'[d].r = "idle" /\ krnl'[d].w = "idle"
             /\ reads'[d] = init /\ writes'[d] = init /\ waits'[d] = <<>>
  <2>1. krnl'[d] = [r |-> "idle", w |-> "idle"]
    BY <1>2, <1>7
  <2>2. reads'[d] = OverlappedIoInit(FALSE) /\ writes'[d] = OverlappedIoInit(FALSE)
    BY <1>2, <1>7, Zenon
  <2>3. ~opened'[d] /\ waits'[d] = <<>>
    BY <1>2, <1>7
  <2> QED
    <3>1. krnl'[d].r = "idle" /\ krnl'[d].w = "idle"
      BY <2>1
    <3> QED
      BY <3>1, <2>2, <2>3, <1>4, Zenon
<1>5. ASSUME NEW d \in Sides PROVE RSide(d)' /\ WSide(d)' /\ FSide(d)'
  <2> DEFINE o == Other(d)
             O == Range(out[d])
             Q == WriteHolds(writes[o], krnl[o].w)
             F == Carries(fwd[d])
             R == ReadHolds(reads[d], krnl[d].r)
             W == Range(waits[d])
             L == lost[d]
             n == came[d]
             L1 == L \cup F
             L2 == L1 \cup (IF d \in ds THEN R \cup W ELSE {})
             L3 == L2 \cup (IF o \in ds THEN Q ELSE {})
             R2 == IF d \in ds THEN {} ELSE R
             W2 == IF d \in ds THEN {} ELSE W
             Q3 == IF o \in ds THEN {} ELSE Q
  <2>1. o \in Sides /\ RSide(d) /\ WSide(d) /\ FSide(d) /\ opened[d] /\ n \in Nat
    BY <1>1, TwoSides, OverlappedAssumption DEF OvInv, OvType
  <2>2. RSide(d)'
    <3>1. CASE d \in ds
      <4>1. reads'[d] = init /\ krnl'[d].r = "idle" /\ fwd'[d] = NoPacket
        BY <3>1, <1>2, <1>7
      <4> QED
        BY <4>1, <1>3 DEF RSide, ReadOK
    <3>2. CASE d \notin ds
      <4>1. reads'[d] = reads[d] /\ krnl'[d] = krnl[d] /\ fwd'[d] = NoPacket /\ opened'[d] /\ waits'[d] = waits[d]
        BY <3>2, <1>2
      <4> QED
        BY <4>1, <2>1 DEF RSide, ReadOK
    <3> QED
      BY <3>1, <3>2
  <2>3. WSide(d)'
    <3>1. CASE d \in ds
      <4>1. writes'[d] = init /\ krnl'[d].w = "idle" /\ ~opened'[d]
        BY <3>1, <1>2, <1>7
      <4> QED
        BY <4>1, <1>3 DEF WSide, WriteOK
    <3>2. CASE d \notin ds
      <4>1. writes'[d] = writes[d] /\ krnl'[d] = krnl[d] /\ opened'[d]
        BY <3>2, <1>2
      <4> QED
        BY <4>1, <2>1 DEF WSide, WriteOK
    <3> QED
      BY <3>1, <3>2
  <2>4. InBuffer(d) = F \cup R /\ Queued(d) = Q
    BY DEF InBuffer, Queued, ReadHolds, WriteHolds, Carries
  <2>5. lost'[d] = L3
    BY <1>2, <2>4 DEF Carries
  <2>6. WriteHolds(writes'[o], krnl'[o].w) = Q3
    <3>1. CASE o \in ds
      <4>1. krnl'[o].w = "idle"
        BY <3>1, <1>7, <2>1
      <4> QED
        BY <3>1, <4>1 DEF WriteHolds
    <3>2. CASE o \notin ds
      <4>1. krnl'[o] = krnl[o] /\ writes'[o] = writes[o]
        BY <3>2, <1>2, <2>1
      <4> QED
        BY <3>2, <4>1
    <3> QED
      BY <3>1, <3>2
  <2>7. ReadHolds(reads'[d], krnl'[d].r) = R2 /\ Range(waits'[d]) = W2 /\ Increasing(waits'[d]) /\ Carries(fwd'[d]) = {}
    <3>1. CASE d \in ds
      <4>1. reads'[d] = init /\ krnl'[d].r = "idle" /\ waits'[d] = <<>>
        BY <3>1, <1>2, <1>7
      <4>2. Range(<<>>) = {} /\ Increasing(<<>>)
        BY DEF Range, Increasing
      <4>3. ReadHolds(init, "idle") = {}
        BY <1>3 DEF ReadHolds
      <4>4. Carries(fwd'[d]) = {}
        BY <1>2 DEF Carries
      <4> QED
        BY <3>1, <4>1, <4>2, <4>3, <4>4
    <3>2. CASE d \notin ds
      <4>1. reads'[d] = reads[d] /\ krnl'[d] = krnl[d] /\ waits'[d] = waits[d]
        BY <3>2, <1>2
      <4>2. Increasing(waits[d])
        BY <2>1 DEF FSide
      <4>3. Carries(fwd'[d]) = {}
        BY <1>2 DEF Carries
      <4> QED
        BY <3>2, <4>1, <4>2, <4>3
    <3> QED
      BY <3>1, <3>2
  <2>8. FlowOK(O, Q, F, R, W, L, n) /\ Increasing(out[d])
    BY <2>1 DEF FSide
  <2>9. FlowOK(O, Q3, {}, R2, W2, L3, n)
    <3> HIDE DEF O, Q, F, R, W, L, n, o
    <3>1. FlowOK(O, Q, {}, R, W, L1, n)
      BY <2>1, <2>8, FlowDrops
    <3>2. FlowOK(O, Q, {}, R2, W2, L2, n)
      <4>1. CASE d \in ds
        <5> HIDE DEF L1
        <5> QED
          BY <3>1, <4>1, <2>1, FlowDrops
      <4>2. CASE d \notin ds
        <5>1. R2 = R /\ W2 = W /\ L2 = L1
          BY <4>2
        <5> QED
          BY <3>1, <5>1
      <4> QED
        BY <4>1, <4>2
    <3>3. CASE o \in ds
      <4> HIDE DEF L2, R2, W2
      <4> QED
        BY <3>2, <3>3, <2>1, FlowCompletes
    <3>4. CASE o \notin ds
      <4>1. L3 = L2 /\ Q3 = Q
        BY <3>4
      <4> QED
        BY <3>2, <4>1
    <3> QED
      BY <3>3, <3>4
  <2>10. FSide(d)'
    <3> HIDE DEF Q3, R2, W2, L3
    <3> QED
      BY <1>1, <2>5, <2>6, <2>7, <2>8, <2>9 DEF FSide
  <2> QED
    BY <2>2, <2>3, <2>10
<1>6. OvType'
  <2>1. /\ opened' = [d \in Sides |-> d \notin ds]
        /\ krnl' = [d \in Sides |-> IF d \in ds THEN [r |-> "idle", w |-> "idle"] ELSE krnl[d]]
        /\ reads' = [d \in Sides |-> IF d \in ds THEN init ELSE reads[d]]
        /\ writes' = [d \in Sides |-> IF d \in ds THEN init ELSE writes[d]]
        /\ waits' = [d \in Sides |-> IF d \in ds THEN <<>> ELSE waits[d]] /\ fwd' = [d \in Sides |-> NoPacket]
    BY <1>4 DEF IoRestart, CancelIo, OverlappedIoClose
  <2>2. opened' \in [Sides -> BOOLEAN] /\ waits' \in [Sides -> Seq(Nat)]
    BY <2>1, <1>1 DEF OvType
  <2>3. krnl' \in [Sides -> [r : KrnlStates, w : KrnlStates]]
    BY <2>1, <1>1 DEF OvType, KrnlStates
  <2>4. reads' \in [Sides -> IoRec] /\ writes' \in [Sides -> IoRec]
    BY <2>1, <1>1, <1>3 DEF OvType
  <2>5. fwd' \in [Sides -> 0 .. MaxArrivals]
    BY <2>1, OverlappedAssumption DEF NoPacket
  <2>7. faults' \in 0 .. MaxFaults
    BY <1>1, FaultIs
  <2>6. lost' \in [Sides -> SUBSET Nat]
    <3>1. ASSUME NEW d \in Sides PROVE lost'[d] \subseteq Nat
      <4>1. lost'[d] \subseteq 1 .. came'[d] /\ came'[d] \in Nat
        BY <1>1, <1>5, OverlappedAssumption DEF FSide, FlowOK, OvType
      <4> QED
        BY <4>1
    <3>2. lost' = [d \in Sides |-> lost'[d]]
      BY DEF IoRestart
    <3> QED
      BY <3>1, <3>2
  <2> QED
    BY <1>1, <2>2, <2>3, <2>4, <2>5, <2>6, <2>7 DEF OvType
<1> QED
  BY <1>5, <1>6 DEF OvInv

\* An opened side starts idle.
LEMMA OvOpenSide ==
    ASSUME OvInv, NEW d \in Sides, OpenSide(d)
    PROVE  OvInv'
<1> DEFINE o == Other(d)
           ri == OverlappedIoInit(FALSE)
           wi == OverlappedIoInit(TRUE)
<1>1. o \in Sides /\ o # d /\ Other(o) = d /\ \A e \in Sides : e = d \/ e = o
  BY TwoSides
<1>2. OvType /\ RSide(d) /\ WSide(d) /\ FSide(d) /\ RSide(o) /\ WSide(o) /\ FSide(o)
  BY <1>1 DEF OvInv
<1>3. /\ ~opened[d] /\ opened' = [opened EXCEPT ![d] = TRUE]
      /\ reads' = [reads EXCEPT ![d] = ri] /\ writes' = [writes EXCEPT ![d] = wi]
      /\ krnl' = krnl /\ came' = came /\ waits' = waits /\ fwd' = fwd /\ out' = out /\ lost' = lost /\ faults' = faults
  BY InitIs DEF OpenSide
<1>4. ri \in IoRec /\ ri.iostate = "INITIAL" /\ ~ri.event /\ wi \in IoRec /\ wi.iostate = "INITIAL" /\ wi.event
  BY InitIs
<1> HIDE DEF o, ri, wi
<1>5. opened \in [Sides -> BOOLEAN] /\ reads \in [Sides -> IoRec] /\ writes \in [Sides -> IoRec]
  BY <1>2 DEF OvType
<1>6. /\ opened' \in [Sides -> BOOLEAN] /\ opened'[d] /\ opened'[o] = opened[o]
      /\ reads' \in [Sides -> IoRec] /\ reads'[d] = ri /\ reads'[o] = reads[o]
      /\ writes' \in [Sides -> IoRec] /\ writes'[d] = wi /\ writes'[o] = writes[o]
  BY <1>1, <1>3, <1>4, <1>5
<1>7. OvType'
  BY <1>2, <1>3, <1>6 DEF OvType
<1>8. reads[d].iostate = "INITIAL" /\ krnl[d].r = "idle" /\ writes[d].iostate = "INITIAL" /\ krnl[d].w = "idle"
  <2>1. reads[d].iostate \in IoStates /\ writes[d].iostate \in IoStates
    BY <1>5 DEF IoRec
  <2> QED
    BY <2>1, <1>2, <1>3 DEF RSide, WSide, ReadOK, WriteOK, IoStates
<1>9. RSide(d)'
  BY <1>3, <1>4, <1>6, <1>8 DEF RSide, ReadOK
<1>10. WSide(d)'
  BY <1>3, <1>4, <1>6, <1>8 DEF WSide, WriteOK
<1>11. RSide(o)' /\ WSide(o)'
  BY <1>1, <1>2, <1>3, <1>6, OvFrame
<1>12. FSide(d)'
  <2>1. ReadHolds(reads[d], krnl[d].r) = {} /\ ReadHolds(ri, krnl[d].r) = {}
    BY <1>4, <1>8 DEF ReadHolds
  <2> QED
    BY <2>1, <1>2, <1>3, <1>6 DEF FSide, o
<1>13. FSide(o)'
  <2>1. WriteHolds(writes[d], krnl[d].w) = {} /\ WriteHolds(wi, krnl[d].w) = {}
    BY <1>8 DEF WriteHolds
  <2> QED
    BY <2>1, <1>1, <1>2, <1>3, <1>6 DEF FSide
<1> QED
  BY <1>1, <1>7, <1>9, <1>10, <1>11, <1>12, <1>13 DEF OvInv

\* The invariant is inductive.
LEMMA OvStep == OvInv /\ [IoNext]_ioVars => OvInv'
<1> SUFFICES ASSUME OvInv, [IoNext]_ioVars PROVE OvInv'
  OBVIOUS
<1>1. CASE UNCHANGED ioVars
  BY <1>1 DEF ioVars, OvInv, OvType, RSide, WSide, FSide
<1>2. ASSUME NEW ds \in {{"link"}, Sides}, IoRestart(ds) PROVE OvInv'
  BY <1>2, OvRestart
<1>3. ASSUME NEW d \in Sides, Arrive(d) PROVE OvInv'
  BY <1>3, OvArrive
<1>4. ASSUME NEW d \in Sides, ReadFails(d) PROVE OvInv'
  BY <1>4, OvReadFails
<1>5. ASSUME NEW d \in Sides, NEW ok \in BOOLEAN, WriteCompletes(d, ok) PROVE OvInv'
  BY <1>5, OvWriteCompletes
<1>6. ASSUME NEW d \in Sides, QueueRead(d) PROVE OvInv'
  BY <1>6, OvQueueRead
<1>7. ASSUME NEW d \in Sides, ReadIncoming(d) PROVE OvInv'
  BY <1>7, OvReadIncoming
<1>8. ASSUME NEW d \in Sides, WriteOutgoing(d) PROVE OvInv'
  BY <1>8, OvWriteOutgoing
<1>9. ASSUME NEW d \in Sides, OpenSide(d) PROVE OvInv'
  BY <1>9, OvOpenSide
<1> QED
  BY <1>1, <1>2, <1>3, <1>4, <1>5, <1>6, <1>7, <1>8, <1>9, Zenon DEF IoNext

\* A packet is in one place.
LEMMA OnePlace ==
    ASSUME OvInv, NEW d \in Sides, NEW p \in 1 .. came[d]
    PROVE  1 = Cardinality({w \in {"kernel", "read", "forward", "queued", "out", "lost"} :
                    CASE w = "kernel" -> p \in Range(waits[d])
                      [] w = "read" -> p \in InBuffer(d) \ {fwd[d]}
                      [] w = "forward" -> p = fwd[d]
                      [] w = "queued" -> krnl[Other(d)].w = "pending" /\ writes[Other(d)].buf = p
                      [] w = "out" -> p \in Range(out[d])
                      [] w = "lost" -> p \in lost[d]})
<1> DEFINE O == Range(out[d])
           Q == WriteHolds(writes[Other(d)], krnl[Other(d)].w)
           F == Carries(fwd[d])
           R == ReadHolds(reads[d], krnl[d].r)
           W == Range(waits[d])
           L == lost[d]
           Places == {"kernel", "read", "forward", "queued", "out", "lost"}
           At(w) == CASE w = "kernel" -> p \in Range(waits[d])
                      [] w = "read" -> p \in InBuffer(d) \ {fwd[d]}
                      [] w = "forward" -> p = fwd[d]
                      [] w = "queued" -> krnl[Other(d)].w = "pending" /\ writes[Other(d)].buf = p
                      [] w = "out" -> p \in Range(out[d])
                      [] w = "lost" -> p \in lost[d]
<1>1. FlowOK(O, Q, F, R, W, L, came[d]) /\ p \in Nat /\ p # NoPacket
  BY OverlappedAssumption DEF OvInv, FSide, OvType, NoPacket
<1>2. fwd[d] # NoPacket => R = {}
  BY DEF OvInv, RSide, ReadOK, ReadHolds
<1>3. /\ At("kernel") <=> p \in W
      /\ At("read") <=> p \in R
      /\ At("forward") <=> p \in F
      /\ At("queued") <=> p \in Q
      /\ At("out") <=> p \in O
      /\ At("lost") <=> p \in L
  <2>1. p = fwd[d] <=> p \in F
    BY <1>1 DEF Carries
  <2>2. p \in InBuffer(d) \ {fwd[d]} <=> p \in R
    BY <1>1, <1>2 DEF InBuffer, ReadHolds
  <2>3. krnl[Other(d)].w = "pending" /\ writes[Other(d)].buf = p <=> p \in Q
    BY DEF WriteHolds
  <2> QED
    BY <2>1, <2>2, <2>3
<1> HIDE DEF At, O, Q, F, R, W, L
<1>4. p \in O \/ p \in Q \/ p \in F \/ p \in R \/ p \in W \/ p \in L
  BY <1>1 DEF FlowOK
<1>5. /\ p \in O => p \notin Q /\ p \notin F /\ p \notin R /\ p \notin W /\ p \notin L
      /\ p \in Q => p \notin F /\ p \notin R /\ p \notin W /\ p \notin L
      /\ p \in F => p \notin R /\ p \notin W /\ p \notin L
      /\ p \in R => p \notin W /\ p \notin L
      /\ p \in W => p \notin L
  BY <1>1 DEF FlowOK, Below
<1>6. \E v \in Places : \A w \in Places : At(w) <=> w = v
  BY <1>3, <1>4, <1>5
<1>7. PICK v \in Places : \A w \in Places : At(w) <=> w = v
  BY <1>6
<1>8. {w \in Places : At(w)} = {v}
  BY <1>7
<1>9. Cardinality({w \in Places : At(w)}) = 1
  BY <1>8, FS_Singleton
<1> QED
  BY <1>9 DEF At

\* The invariant implies what the runs check.
LEMMA OvImplies == OvInv => IoInv
<1> SUFFICES ASSUME OvInv PROVE IoInv
  OBVIOUS
<1>1. IoTypeOK
  BY DEF OvInv, OvType, IoTypeOK, IoRec, IoStates, KrnlStates
<1>2. PacketsKept
  <2>1. \A d \in Sides : \A i, j \in 1 .. Len(out[d]) : i < j => out[d][i] < out[d][j]
    BY DEF OvInv, FSide, Increasing
  <2> QED
    BY <2>1, OnePlace, Zenon DEF PacketsKept
<1>3. \A d \in Sides : reads[d].iostate \in IoStates /\ writes[d].iostate \in IoStates
  BY DEF OvInv, OvType, IoRec
<1>4. IoWakes
  BY <1>3 DEF OvInv, RSide, WSide, ReadOK, WriteOK, IoWakes, IoStates
<1>5. RequestsKnown
  BY <1>3 DEF OvInv, RSide, WSide, ReadOK, WriteOK, RequestsKnown, IoStates
<1> QED
  BY <1>1, <1>2, <1>4, <1>5 DEF IoInv

\* Overlapped I/O loses, repeats and reorders no packet, loses no wakeup and frees no buffer
\* that the kernel has a request on, for any number of packets and faults.
THEOREM OverlappedCorrect == IoSpec => []IoInv
<1>1. IoInit => OvInv
  BY OvInit
<1>2. OvInv /\ [IoNext]_ioVars => OvInv'
  BY OvStep
<1>3. OvInv => IoInv
  BY OvImplies
<1> QED
  BY <1>1, <1>2, <1>3, PTL DEF IoSpec
(***************************************************************************)
(* The tun/tap device.                                                     *)
(***************************************************************************)

\* The state of a process's struct tuntap, and of the kernel.
DevPhases == {"none", "init", "ready", "opened", "open"}
TunRec == [phase : DevPhases, conf : DevConfigs \cup {[type |-> "null"]}, unit : Units \cup {NoUnit},
           named : Units \cup {NoUnit}, fds : SUBSET {"fd", "ip_fd", "hand"}, ipapi : BOOLEAN,
           killed : BOOLEAN]
PresetRec == [proc : DevProcs, unit : Units, busy : BOOLEAN]
DevType ==
    /\ tt \in [DevProcs -> TunRec]
    /\ owner \in [Units -> DevProcs \cup {NoOwner}]
    /\ addrs \in [Units -> SUBSET DevProcs]
    /\ linked \subseteq Units /\ presets \subseteq PresetRec

\* What a struct tuntap holds in each phase, and how the name, the unit and --dev agree.
TunOK(x) ==
    /\ x.phase \in {"none", "init", "ready"} => x.unit = NoUnit /\ ~x.ipapi
    /\ x.phase \in {"none", "init", "opened"} => x.named = NoUnit
    /\ x.phase = "ready" => BeforeOpen
    /\ x.phase = "opened" => ~BeforeOpen
    /\ x.phase # "none" => x.conf \in DevConfigs /\ (x.conf.type = "null" => ~x.conf.ifconfig)
    /\ x.unit # NoUnit => x.fds # {} /\ x.conf.dev \in {NoUnit, x.unit}
    /\ x.ipapi => x.unit # NoUnit /\ dplatform = "windows"
    /\ x.phase \in {"opened", "open"} => (x.unit = NoUnit <=> x.conf.type = "null")
    /\ x.named # NoUnit => /\ x.conf.type # "null"
                           /\ x.named = IF BeforeOpen THEN Guess(x.conf) ELSE x.unit

\* The kernel and the processes agree on who has a unit open.
OwnerOK == \A p \in DevProcs, u \in Units : owner[u] = p <=> tt[p].unit = u
AnyKilled == \E p \in DevProcs : tt[p].killed
LinkOK ==
    /\ dplatform # "solaris" => linked = {}
    /\ AnyKilled \/ \A u \in linked : owner[u] # NoOwner

\* Where an address comes from.
AddrOf(a, u) ==
    \/ \E r \in presets : r.proc = a /\ r.unit = u
    \/ tt[a].phase = "open" /\ tt[a].unit = u /\ (dplatform = "windows" => tt[a].ipapi)
AddrOK == AnyKilled \/ \A u \in Units : \A a \in addrs[u] : AddrOf(a, u)
DevIInv == DevType /\ (\A p \in DevProcs : TunOK(tt[p])) /\ OwnerOK /\ LinkOK /\ AddrOK /\ TempAddresses

-----------------------------------------------------------------------------
(* Lemmas about the choice of a unit                                       *)

\* The smallest number of a set.
LEMMA MinIs ==
    ASSUME NEW S, S \subseteq Nat, S # {}
    PROVE  Min(S) \in S /\ \A y \in S : Min(S) <= y
<1> DEFINE R == OpToRel(<, Nat)
<1>1. R = {ss \in Nat \X Nat : ss[1] < ss[2]}
  BY Zenon DEF OpToRel
<1>2. IsWellFoundedOn(R, Nat)
  BY NatLessThanWellFounded, Zenon
<1> HIDE DEF R
<1>3. PICK x \in S : \A y \in S : ~(<<y, x>> \in R)
  BY <1>2, WFMin
<1>4. \A y \in S : x <= y
  <2> SUFFICES ASSUME NEW y \in S PROVE x <= y
    OBVIOUS
  <2>1. <<y, x>> \in Nat \X Nat /\ <<y, x>>[1] = y /\ <<y, x>>[2] = x
    OBVIOUS
  <2>2. ~(y < x)
    BY <1>1, <1>3, <2>1
  <2> QED
    BY <2>2
<1> QED
  BY <1>4 DEF Min

\* open_tun_generic and the search for an adapter open a free unit, the one named if one is.
LEMMA GenericUnitsIs ==
    ASSUME NEW c \in DevConfigs, NEW u \in GenericUnits(c)
    PROVE  u \in FreeUnits /\ c.dev \in {NoUnit, u}
<1>1. CASE c.dev # NoUnit
  BY <1>1 DEF GenericUnits
<1>2. CASE c.dev = NoUnit /\ FreeUnits # {}
  <2>1. FreeUnits \subseteq Nat
    BY DevAssumption DEF FreeUnits
  <2>2. u = Min(FreeUnits)
    BY <1>2 DEF GenericUnits
  <2> QED
    BY <1>2, <2>1, <2>2, MinIs
<1>3. CASE c.dev = NoUnit /\ FreeUnits = {}
  BY <1>3 DEF GenericUnits
<1> QED
  BY <1>1, <1>2, <1>3

\* guess_tuntap_dev: a guess is the unit that will be opened.
LEMMA GuessIs ==
    ASSUME NEW c \in DevConfigs
    PROVE  /\ Guess(c) \in Units \cup {NoUnit}
           /\ Guess(c) # NoUnit => \A u \in Units : c.dev \in {NoUnit, u} => Guess(c) = u
<1>1. c.dev \in Units \cup {NoUnit}
  BY DevAssumption
<1>2. CASE c.dev # NoUnit
  BY <1>1, <1>2 DEF Guess
<1>3. CASE c.dev = NoUnit /\ dplatform = "windows" /\ Cardinality(Units) = 1
  <2>1. PICK x : Units = {x}
    BY <1>3, DevAssumption, FS_Singleton
  <2>2. Min(Units) = x
    BY <2>1, DevAssumption, MinIs
  <2>3. Guess(c) = x
    BY <1>3, <2>2 DEF Guess
  <2> QED
    BY <1>3, <2>1, <2>3
<1>4. CASE c.dev = NoUnit /\ ~(dplatform = "windows" /\ Cardinality(Units) = 1)
  BY <1>4 DEF Guess
<1> QED
  BY <1>2, <1>3, <1>4
-----------------------------------------------------------------------------
(* Kinds of steps                                                          *)

\* The device types of the platform stay.
LEMMA ProcSame ==
    ASSUME dplatform' = dplatform, NEW p \in DevProcs, TunOK(tt'[p])
    PROVE  TunOK(tt[p])'
BY DEF TunOK, BeforeOpen, Guess

\* A process that is done with its device: closed, failed or killed.
LEMMA Leaves ==
    ASSUME DevIInv, NEW p \in DevProcs, dplatform' = dplatform, presets' = presets,
           tt' \in [DevProcs -> TunRec], \A q \in DevProcs \ {p} : tt'[q] = tt[q],
           tt'[p].phase = "none", tt'[p].unit = NoUnit, tt'[p].named = NoUnit, ~tt'[p].ipapi,
           tt[p].killed => tt'[p].killed,
           owner' = [u \in Units |-> IF owner[u] = p THEN NoOwner ELSE owner[u]],
           addrs' \in [Units -> SUBSET DevProcs], \A u \in Units : addrs'[u] \subseteq addrs[u],
           dplatform = "windows" => \A u \in Units : u # tt[p].unit => addrs'[u] = addrs[u],
           linked' \subseteq linked,
           \/ tt'[p].killed
           \/ /\ tt[p].unit \notin linked'
              /\ tt[p].phase = "open" /\ (dplatform = "windows" => tt[p].ipapi) =>
                   \A u \in Units : tt[p].unit = u => p \notin addrs'[u]
    PROVE  DevIInv'
<1>1. /\ tt \in [DevProcs -> TunRec] /\ owner \in [Units -> DevProcs \cup {NoOwner}]
      /\ linked \subseteq Units /\ presets \subseteq PresetRec /\ \A q \in DevProcs : TunOK(tt[q])
  BY DEF DevIInv, DevType
<1>2. DevType'
  BY <1>1 DEF DevType
<1>3. \A q \in DevProcs : TunOK(tt[q])'
  <2> SUFFICES ASSUME NEW q \in DevProcs PROVE TunOK(tt[q])'
    OBVIOUS
  <2>1. TunOK(tt'[q])
    <3>1. CASE q = p
      BY <3>1 DEF TunOK
    <3>2. CASE q # p
      BY <3>2, <1>1
    <3> QED
      BY <3>1, <3>2
  <2> QED
    BY <2>1, ProcSame
<1>4. OwnerOK'
  <2> SUFFICES ASSUME NEW q \in DevProcs, NEW u \in Units
               PROVE  owner'[u] = q <=> tt'[q].unit = u
    BY DEF OwnerOK
  <2>1. NoUnit \notin Units /\ NoOwner \notin DevProcs
    BY DevAssumption DEF NoUnit
  <2>2. owner[u] = q <=> tt[q].unit = u
    BY DEF DevIInv, OwnerOK
  <2>3. owner'[u] = IF owner[u] = p THEN NoOwner ELSE owner[u]
    OBVIOUS
  <2> QED
    BY <2>1, <2>2, <2>3
<1>5. AnyKilled => AnyKilled'
  BY DEF AnyKilled
<1>6. LinkOK'
  <2>1. dplatform' # "solaris" => linked' = {}
    BY DEF DevIInv, LinkOK
  <2>2. ASSUME ~AnyKilled', NEW u \in linked' PROVE owner'[u] # NoOwner
    <3>1. ~tt'[p].killed /\ u \in Units /\ ~AnyKilled
      BY <1>1, <1>5, <2>2 DEF AnyKilled
    <3>2. owner[u] # NoOwner /\ u # tt[p].unit
      BY <2>2, <3>1 DEF DevIInv, LinkOK
    <3>3. owner[u] # p
      BY <3>1, <3>2 DEF DevIInv, OwnerOK
    <3> QED
      BY <3>1, <3>2, <3>3
  <2> QED
    BY <2>1, <2>2 DEF LinkOK
<1>7. AddrOK'
  <2> SUFFICES ASSUME ~AnyKilled', NEW u \in Units, NEW a \in addrs'[u] PROVE AddrOf(a, u)'
    BY DEF AddrOK
  <2>1. ~tt'[p].killed /\ ~AnyKilled /\ a \in addrs[u] /\ a \in DevProcs
    BY <1>5 DEF AnyKilled, DevIInv, DevType
  <2>2. AddrOf(a, u)
    BY <2>1 DEF DevIInv, AddrOK
  <2>3. CASE a = p
    BY <2>1, <2>2, <2>3 DEF AddrOf
  <2>4. CASE a # p
    BY <2>1, <2>2, <2>4 DEF AddrOf
  <2> QED
    BY <2>3, <2>4
<1>8. TempAddresses'
  <2> SUFFICES ASSUME NEW q \in DevProcs, tt'[q].phase = "open", tt'[q].ipapi,
                      \A r \in presets' : r.busy => r.unit # tt'[q].unit
               PROVE  addrs'[tt'[q].unit] = {q}
    BY DEF TempAddresses
  <2>1. q # p /\ tt'[q] = tt[q]
    OBVIOUS
  <2>2. tt[q].unit \in Units /\ dplatform = "windows"
    BY <1>1, <2>1 DEF TunOK, TunRec
  <2>3. tt[q].unit # tt[p].unit
    BY <2>1, <2>2 DEF DevIInv, OwnerOK
  <2>4. addrs[tt[q].unit] = {q}
    BY <2>1 DEF DevIInv, TempAddresses
  <2> QED
    BY <2>1, <2>2, <2>3, <2>4
<1> QED
  BY <1>2, <1>3, <1>4, <1>6, <1>7, <1>8 DEF DevIInv

\* A process that goes on without touching a unit.
LEMMA Moves ==
    ASSUME DevIInv, NEW p \in DevProcs, UNCHANGED <<dplatform, owner, addrs, linked, presets>>,
           tt' \in [DevProcs -> TunRec], \A q \in DevProcs \ {p} : tt'[q] = tt[q],
           TunOK(tt'[p]), tt'[p].unit = tt[p].unit, tt'[p].killed = tt[p].killed,
           tt[p].phase # "open", ~tt'[p].ipapi
    PROVE  DevIInv'
<1>1. \A q \in DevProcs : TunOK(tt[q])'
  BY ProcSame DEF DevIInv
<1>2. DevType'
  BY DEF DevIInv, DevType
<1>3. OwnerOK'
  <2> SUFFICES ASSUME NEW q \in DevProcs, NEW u \in Units
               PROVE  owner'[u] = q <=> tt'[q].unit = u
    BY DEF OwnerOK
  <2> QED
    BY DEF DevIInv, OwnerOK
<1>4. AnyKilled => AnyKilled'
  BY DEF AnyKilled
<1>5. LinkOK'
  BY <1>4 DEF DevIInv, LinkOK
<1>6. AddrOK'
  <2> SUFFICES ASSUME ~AnyKilled', NEW u \in Units, NEW a \in addrs'[u] PROVE AddrOf(a, u)'
    BY DEF AddrOK
  <2>1. AddrOf(a, u) /\ a \in DevProcs
    BY <1>4 DEF DevIInv, AddrOK, DevType
  <2> QED
    BY <2>1 DEF AddrOf
<1>7. TempAddresses'
  <2> SUFFICES ASSUME NEW q \in DevProcs, tt'[q].phase = "open", tt'[q].ipapi,
                      \A r \in presets' : r.busy => r.unit # tt'[q].unit
               PROVE  addrs'[tt'[q].unit] = {q}
    BY DEF TempAddresses
  <2>1. q # p /\ tt'[q] = tt[q]
    OBVIOUS
  <2> QED
    BY <2>1 DEF DevIInv, TempAddresses
<1> QED
  BY <1>1, <1>2, <1>3, <1>5, <1>6, <1>7 DEF DevIInv

\* ifconfig sets the address of a unit for the process whose name it has.
LEMMA Configured ==
    ASSUME DevIInv, NEW p \in DevProcs, NEW u \in Units, NEW next \in {"ready", "open"},
           DoIfconfig(p, u, next), tt[p].phase # "open",
           IF BeforeOpen THEN next = "ready" /\ tt[p].phase = "init" /\ u = Guess(tt[p].conf)
                         ELSE next = "open" /\ tt[p].phase = "opened" /\ u = tt[p].unit,
           tt[p].conf.type # "null"
    PROVE  DevIInv'
<1>1. /\ tt \in [DevProcs -> TunRec] /\ owner \in [Units -> DevProcs \cup {NoOwner}]
      /\ addrs \in [Units -> SUBSET DevProcs]
      /\ linked \subseteq Units /\ presets \subseteq PresetRec /\ \A q \in DevProcs : TunOK(tt[q])
  BY DEF DevIInv, DevType
<1>2. /\ addrs' = [addrs EXCEPT ![u] = {p}] /\ UNCHANGED <<dplatform, owner, linked>>
      /\ presets' = IF BeforeOpen THEN presets \cup {[proc |-> p, unit |-> u, busy |-> owner[u] # NoOwner]} ELSE presets
  BY DEF DoIfconfig
<1>3. /\ tt' = [tt EXCEPT ![p] = [tt[p] EXCEPT !.phase = next, !.named = u]]
  BY <1>1 DEF DoIfconfig, TunRec
<1>4. [tt[p] EXCEPT !.phase = next, !.named = u] \in TunRec
  <2> DEFINE x == tt[p]
  <2>1. x \in TunRec /\ next \in DevPhases /\ u \in Units \cup {NoUnit}
    BY <1>1 DEF DevPhases
  <2> HIDE DEF x
  <2>2. [x EXCEPT !.phase = next, !.named = u] \in TunRec
    BY <2>1 DEF TunRec
  <2> QED
    BY <2>2 DEF x
<1>5. /\ tt' \in [DevProcs -> TunRec] /\ \A q \in DevProcs \ {p} : tt'[q] = tt[q]
  BY <1>1, <1>3, <1>4
<1>6. /\ tt'[p].phase = next /\ tt'[p].named = u /\ tt'[p].unit = tt[p].unit /\ tt'[p].conf = tt[p].conf
      /\ tt'[p].fds = tt[p].fds /\ tt'[p].ipapi = tt[p].ipapi /\ tt'[p].killed = tt[p].killed
  BY <1>1, <1>3 DEF TunRec
<1>7. DevType'
  <2>1. [proc |-> p, unit |-> u, busy |-> owner[u] # NoOwner] \in PresetRec
    <3> DEFINE b == owner[u] # NoOwner
    <3>1. b \in BOOLEAN
      OBVIOUS
    <3> HIDE DEF b
    <3>2. [proc |-> p, unit |-> u, busy |-> b] \in PresetRec
      BY <3>1 DEF PresetRec
    <3> QED
      BY <3>2 DEF b
  <2> QED
    BY <1>1, <1>2, <1>5, <2>1 DEF DevType
<1>8. ~tt[p].ipapi
  BY <1>1 DEF TunOK, BeforeOpen
<1>9. TunOK(tt'[p])
  <2>1. TunOK(tt[p])
    BY <1>1
  <2> QED
    BY <1>6, <1>8, <2>1 DEF TunOK
<1>10. \A q \in DevProcs : TunOK(tt[q])'
  BY <1>1, <1>2, <1>5, <1>9, ProcSame
<1>11. OwnerOK'
  <2> SUFFICES ASSUME NEW q \in DevProcs, NEW v \in Units
               PROVE  owner'[v] = q <=> tt'[q].unit = v
    BY DEF OwnerOK
  <2> QED
    BY <1>2, <1>5, <1>6 DEF DevIInv, OwnerOK
<1>12. AnyKilled => AnyKilled'
  BY <1>5, <1>6 DEF AnyKilled
<1>13. LinkOK'
  BY <1>2, <1>12 DEF DevIInv, LinkOK
<1>14. AddrOK'
  <2> SUFFICES ASSUME ~AnyKilled', NEW v \in Units, NEW a \in addrs'[v] PROVE AddrOf(a, v)'
    BY DEF AddrOK
  <2>1. CASE v = u
    <3>1. a = p
      BY <1>1, <1>2, <2>1
    <3>2. CASE BeforeOpen
      <4>1. [proc |-> p, unit |-> u, busy |-> owner[u] # NoOwner] \in presets'
        BY <1>2, <3>2
      <4> QED
        BY <2>1, <3>1, <4>1 DEF AddrOf
    <3>3. CASE ~BeforeOpen
      BY <1>2, <1>6, <2>1, <3>1, <3>3 DEF AddrOf, BeforeOpen
    <3> QED
      BY <3>2, <3>3
  <2>2. CASE v # u
    <3>1. a \in addrs[v] /\ a \in DevProcs
      BY <1>1, <1>2, <2>2
    <3>2. AddrOf(a, v)
      BY <1>12, <3>1 DEF DevIInv, AddrOK
    <3>3. CASE \E r \in presets : r.proc = a /\ r.unit = v
      BY <1>2, <3>3 DEF AddrOf
    <3>4. CASE ~(\E r \in presets : r.proc = a /\ r.unit = v)
      <4>1. tt[a].phase = "open" /\ tt[a].unit = v /\ (dplatform = "windows" => tt[a].ipapi)
        BY <3>2, <3>4 DEF AddrOf
      <4>2. tt'[a] = tt[a]
        BY <1>5, <3>1, <4>1
      <4> QED
        BY <1>2, <4>1, <4>2 DEF AddrOf
    <3> QED
      BY <3>3, <3>4
  <2> QED
    BY <2>1, <2>2
<1>15. TempAddresses'
  <2> SUFFICES ASSUME NEW q \in DevProcs, tt'[q].phase = "open", tt'[q].ipapi,
                      \A r \in presets' : r.busy => r.unit # tt'[q].unit
               PROVE  addrs'[tt'[q].unit] = {q}
    BY DEF TempAddresses
  <2>1. q # p /\ tt'[q] = tt[q]
    BY <1>5, <1>6, <1>8
  <2>2. tt[q].unit \in Units /\ BeforeOpen
    BY <1>1, <2>1 DEF TunOK, TunRec, BeforeOpen
  <2>3. owner[tt[q].unit] = q /\ q # NoOwner
    BY <2>2, DevAssumption DEF DevIInv, OwnerOK
  <2>4. tt[q].unit # u
    <3>1. [proc |-> p, unit |-> u, busy |-> owner[u] # NoOwner] \in presets'
      BY <1>2, <2>2
    <3> DEFINE r == [proc |-> p, unit |-> u, busy |-> owner[u] # NoOwner]
    <3>2. r.busy => r.unit # tt'[q].unit
      BY <3>1
    <3> QED
      BY <2>1, <2>3, <3>2
  <2>5. addrs[tt[q].unit] = {q}
    BY <1>2, <2>1, <2>2 DEF DevIInv, TempAddresses
  <2> QED
    BY <1>1, <1>2, <2>1, <2>2, <2>4, <2>5
<1> QED
  BY <1>7, <1>10, <1>11, <1>13, <1>14, <1>15 DEF DevIInv

\* A process that opens a free unit; on Windows it may set the address too.
LEMMA Opens ==
    ASSUME DevIInv, NEW p \in DevProcs, NEW u \in FreeUnits, CanOpen(p), dplatform' = dplatform,
           presets' = presets, owner' = [owner EXCEPT ![u] = p],
           tt' \in [DevProcs -> TunRec], \A q \in DevProcs \ {p} : tt'[q] = tt[q],
           TunOK(tt'[p]), tt'[p].unit = u, tt'[p].killed = tt[p].killed,
           tt'[p].ipapi => dplatform = "windows",
           addrs' = IF tt'[p].ipapi THEN [addrs EXCEPT ![u] = {p}] ELSE addrs,
           linked' \subseteq linked \cup {u}, dplatform # "solaris" => linked' = linked,
           tt'[p].ipapi => tt'[p].phase = "open"
    PROVE  DevIInv'
<1>1. /\ tt \in [DevProcs -> TunRec] /\ owner \in [Units -> DevProcs \cup {NoOwner}]
      /\ addrs \in [Units -> SUBSET DevProcs] /\ u \in Units /\ owner[u] = NoOwner
      /\ linked \subseteq Units /\ presets \subseteq PresetRec /\ \A q \in DevProcs : TunOK(tt[q])
  BY DEF DevIInv, DevType, FreeUnits
<1>2. NoUnit \notin Units /\ NoOwner \notin DevProcs
  BY DevAssumption DEF NoUnit
<1>3. tt[p].unit = NoUnit /\ tt[p].phase # "open" /\ ~tt[p].ipapi
  BY <1>1 DEF CanOpen, TunOK
<1>4. DevType'
  BY <1>1 DEF DevType
<1>5. \A q \in DevProcs : TunOK(tt[q])'
  BY <1>1, ProcSame
<1>6. OwnerOK'
  <2> SUFFICES ASSUME NEW q \in DevProcs, NEW v \in Units
               PROVE  owner'[v] = q <=> tt'[q].unit = v
    BY DEF OwnerOK
  <2>1. owner[v] = q <=> tt[q].unit = v
    BY DEF DevIInv, OwnerOK
  <2>2. owner'[v] = IF v = u THEN p ELSE owner[v]
    BY <1>1
  <2> QED
    BY <1>1, <1>2, <1>3, <2>1, <2>2
<1>7. AnyKilled => AnyKilled'
  BY DEF AnyKilled
<1>8. LinkOK'
  <2>1. \A v \in Units : owner'[v] = IF v = u THEN p ELSE owner[v]
    BY <1>1
  <2> QED
    BY <1>1, <1>2, <1>7, <2>1 DEF DevIInv, LinkOK
<1>9. AddrOK'
  <2> SUFFICES ASSUME ~AnyKilled', NEW v \in Units, NEW a \in addrs'[v] PROVE AddrOf(a, v)'
    BY DEF AddrOK
  <2>1. CASE tt'[p].ipapi /\ v = u
    <3>1. a = p
      BY <1>1, <2>1
    <3> QED
      BY <2>1, <3>1 DEF AddrOf
  <2>2. CASE ~(tt'[p].ipapi /\ v = u)
    <3>1. a \in addrs[v] /\ a \in DevProcs
      BY <1>1, <2>2
    <3>2. AddrOf(a, v)
      BY <1>7, <3>1 DEF DevIInv, AddrOK
    <3> QED
      BY <1>3, <3>1, <3>2 DEF AddrOf
  <2> QED
    BY <2>1, <2>2
<1>10. TempAddresses'
  <2> SUFFICES ASSUME NEW q \in DevProcs, tt'[q].phase = "open", tt'[q].ipapi,
                      \A r \in presets' : r.busy => r.unit # tt'[q].unit
               PROVE  addrs'[tt'[q].unit] = {q}
    BY DEF TempAddresses
  <2>1. CASE q = p
    BY <1>1, <2>1
  <2>2. CASE q # p
    <3>1. tt'[q] = tt[q] /\ tt[q].unit \in Units
      BY <1>1, <2>2 DEF TunOK, TunRec
    <3>2. tt[q].unit # u
      BY <1>1, <1>2, <3>1 DEF DevIInv, OwnerOK
    <3>3. addrs[tt[q].unit] = {q}
      BY <3>1 DEF DevIInv, TempAddresses
    <3> QED
      BY <1>1, <3>1, <3>2, <3>3
  <2> QED
    BY <2>1, <2>2
<1> QED
  BY <1>4, <1>5, <1>6, <1>8, <1>9, <1>10 DEF DevIInv
-----------------------------------------------------------------------------
(* The steps of a process                                                  *)

\* A cleared struct tuntap.
Cleared(k) == [ClearTuntap EXCEPT !.killed = k]

\* What clear_tuntap leaves.
LEMMA ClearIs ==
    ASSUME NEW k \in BOOLEAN, NEW x, x = Cleared(k)
    PROVE  /\ x \in TunRec /\ x.phase = "none" /\ x.unit = NoUnit /\ x.named = NoUnit /\ ~x.ipapi
           /\ x.killed = k
<1> DEFINE no == FALSE
           y == [phase |-> "none", conf |-> [type |-> "null"], unit |-> NoUnit, named |-> NoUnit,
                 fds |-> {}, ipapi |-> no, killed |-> k]
<1>1. x = y
  BY DEF Cleared, ClearTuntap
<1>2. no \in BOOLEAN /\ ~no
  OBVIOUS
<1> HIDE DEF no
<1>3. y \in TunRec
  BY <1>2 DEF TunRec, DevPhases
<1>4. y.phase = "none" /\ y.unit = NoUnit /\ y.named = NoUnit /\ y.ipapi = no /\ y.killed = k
  OBVIOUS
<1> HIDE DEF y
<1> QED
  BY <1>1, <1>2, <1>3, <1>4

\* M_FATAL before a device is open, or after the open where nothing is linked; and a kill.
LEMMA ExitsStep ==
    ASSUME DevIInv, NEW p \in DevProcs, UNCHANGED <<dplatform, presets, linked>>,
           owner' = [u \in Units |-> IF owner[u] = p THEN NoOwner ELSE owner[u]],
           addrs' = [u \in Units |-> IF owner[u] = p /\ dplatform \in {"linux", "bsd"} THEN {} ELSE addrs[u]],
           NEW k \in BOOLEAN, tt' = [tt EXCEPT ![p] = Cleared(k)],
           tt[p].killed => tt'[p].killed,
           tt'[p].killed \/ (tt[p].phase # "open" /\ (dplatform = "solaris" => tt[p].unit = NoUnit))
    PROVE  DevIInv'
<1>1. /\ tt \in [DevProcs -> TunRec] /\ addrs \in [Units -> SUBSET DevProcs] /\ linked \subseteq Units
  BY DEF DevIInv, DevType
<1>2. /\ tt' \in [DevProcs -> TunRec] /\ \A q \in DevProcs \ {p} : tt'[q] = tt[q]
      /\ tt'[p].phase = "none" /\ tt'[p].unit = NoUnit /\ tt'[p].named = NoUnit /\ ~tt'[p].ipapi
  <2> DEFINE x == Cleared(k)
  <2>1. x \in TunRec /\ x.phase = "none" /\ x.unit = NoUnit /\ x.named = NoUnit /\ ~x.ipapi
    BY ClearIs
  <2>2. tt' = [tt EXCEPT ![p] = x]
    OBVIOUS
  <2> HIDE DEF x
  <2> QED
    BY <1>1, <2>1, <2>2
<1>3. addrs' \in [Units -> SUBSET DevProcs] /\ \A u \in Units : addrs'[u] \subseteq addrs[u]
  BY <1>1
<1>4. dplatform = "windows" => \A u \in Units : u # tt[p].unit => addrs'[u] = addrs[u]
  BY <1>1
<1>5. \/ tt'[p].killed
      \/ /\ tt[p].unit \notin linked'
         /\ tt[p].phase = "open" /\ (dplatform = "windows" => tt[p].ipapi) =>
              \A u \in Units : tt[p].unit = u => p \notin addrs'[u]
  <2>1. NoUnit \notin Units
    BY DevAssumption DEF NoUnit
  <2> QED
    BY <1>1, <2>1 DEF DevIInv, LinkOK
<1> QED
  BY <1>2, <1>3, <1>4, <1>5, Leaves

\* M_FATAL
LEMMA FatalStep ==
    ASSUME DevIInv, NEW p \in DevProcs, Fatal(p),
           tt[p].phase # "open", dplatform = "solaris" => tt[p].unit = NoUnit
    PROVE  DevIInv'
<1> DEFINE k == tt[p].killed
<1>1. tt \in [DevProcs -> TunRec] /\ k \in BOOLEAN
  BY DEF DevIInv, DevType, TunRec
<1>2. /\ UNCHANGED <<dplatform, presets, linked>> /\ tt' = [tt EXCEPT ![p] = Cleared(k)]
      /\ owner' = [u \in Units |-> IF owner[u] = p THEN NoOwner ELSE owner[u]]
      /\ addrs' = [u \in Units |-> IF owner[u] = p /\ dplatform \in {"linux", "bsd"} THEN {} ELSE addrs[u]]
  BY DEF Fatal, Exits, Cleared
<1> HIDE DEF k
<1>3. tt'[p].killed = k
  BY <1>1, <1>2, ClearIs
<1>4. tt[p].killed => tt'[p].killed
  BY <1>3 DEF k
<1> QED
  BY <1>1, <1>2, <1>4, ExitsStep

\* A kill.
LEMMA KillStep ==
    ASSUME DevIInv, NEW p \in DevProcs, Kill(p)
    PROVE  DevIInv'
<1> DEFINE yes == TRUE
<1>1. tt \in [DevProcs -> TunRec] /\ yes \in BOOLEAN /\ yes
  BY DEF DevIInv, DevType
<1>2. /\ UNCHANGED <<dplatform, presets, linked>> /\ tt' = [tt EXCEPT ![p] = Cleared(yes)]
      /\ owner' = [u \in Units |-> IF owner[u] = p THEN NoOwner ELSE owner[u]]
      /\ addrs' = [u \in Units |-> IF owner[u] = p /\ dplatform \in {"linux", "bsd"} THEN {} ELSE addrs[u]]
  BY DEF Kill, Exits, Cleared
<1> HIDE DEF yes
<1>3. tt'[p].killed
  BY <1>1, <1>2, ClearIs
<1>4. /\ tt[p].killed => tt'[p].killed
      /\ tt'[p].killed \/ (tt[p].phase # "open" /\ (dplatform = "solaris" => tt[p].unit = NoUnit))
  BY <1>3
<1>5. yes \in BOOLEAN
  BY <1>1
<1> QED
  BY <1>2, <1>4, <1>5, ExitsStep

\* A struct tuntap as init_tun leaves it.
Started(c, k) == [ClearTuntap EXCEPT !.phase = "init", !.conf = c, !.killed = k]

\* What init_tun leaves.
LEMMA StartIs ==
    ASSUME NEW k \in BOOLEAN, NEW c \in DevConfigs, NEW x,
           x = Started(c, k)
    PROVE  /\ x \in TunRec /\ x.phase = "init" /\ x.unit = NoUnit /\ x.named = NoUnit /\ ~x.ipapi
           /\ x.killed = k /\ x.conf = c
<1> DEFINE no == FALSE
           y == [phase |-> "init", conf |-> c, unit |-> NoUnit, named |-> NoUnit,
                 fds |-> {}, ipapi |-> no, killed |-> k]
<1>1. x = y
  BY DEF Started, ClearTuntap
<1>2. no \in BOOLEAN /\ ~no
  OBVIOUS
<1> HIDE DEF no
<1>3. y \in TunRec
  BY <1>2 DEF TunRec, DevPhases
<1>4. /\ y.phase = "init" /\ y.unit = NoUnit /\ y.named = NoUnit /\ y.ipapi = no /\ y.killed = k
      /\ y.conf = c
  OBVIOUS
<1> HIDE DEF y
<1> QED
  BY <1>1, <1>2, <1>3, <1>4

\* init_tun
LEMMA InitTunStep ==
    ASSUME DevIInv, NEW p \in DevProcs, InitTun(p)
    PROVE  DevIInv'
<1>1. PICK c \in DevConfigs :
         tt' = IF c.ifconfig /\ c.type = "null" THEN tt
               ELSE [tt EXCEPT ![p] = [ClearTuntap EXCEPT !.phase = "init", !.conf = c, !.killed = tt[p].killed]]
  BY DEF InitTun
<1>2. /\ tt[p].phase = "none" /\ UNCHANGED <<dplatform, owner, addrs, linked, presets>>
      /\ tt \in [DevProcs -> TunRec] /\ TunOK(tt[p])
  BY DEF InitTun, DevIInv, DevType
<1>3. CASE c.ifconfig /\ c.type = "null"
  <2>1. tt' = tt /\ ~tt[p].ipapi
    BY <1>1, <1>2, <1>3 DEF TunOK
  <2> QED
    BY <1>2, <2>1, Moves
<1>4. CASE ~(c.ifconfig /\ c.type = "null")
  <2> DEFINE x == [ClearTuntap EXCEPT !.phase = "init", !.conf = c, !.killed = tt[p].killed]
  <2>1. tt' = [tt EXCEPT ![p] = x]
    BY <1>1, <1>4
  <2>2. /\ x \in TunRec /\ x.phase = "init" /\ x.unit = NoUnit /\ x.named = NoUnit /\ ~x.ipapi
        /\ x.killed = tt[p].killed /\ x.conf = c
    <3> DEFINE k == tt[p].killed
    <3>1. k \in BOOLEAN /\ x = Started(c, k)
      BY <1>2 DEF TunRec, Started
    <3> HIDE DEF k, x
    <3>2. /\ x \in TunRec /\ x.phase = "init" /\ x.unit = NoUnit /\ x.named = NoUnit /\ ~x.ipapi
          /\ x.killed = k /\ x.conf = c
      BY <3>1, StartIs
    <3> QED
      BY <3>2 DEF k
  <2> HIDE DEF x
  <2>3. TunOK(x)
    BY <1>4, <2>2 DEF TunOK
  <2>4. tt' \in [DevProcs -> TunRec] /\ tt'[p] = x /\ \A q \in DevProcs \ {p} : tt'[q] = tt[q]
    BY <1>2, <2>1, <2>2
  <2>5. tt[p].unit = NoUnit /\ TunOK(tt'[p])
    BY <1>2, <2>3, <2>4 DEF TunOK
  <2> QED
    BY <1>2, <2>2, <2>4, <2>5, Moves
<1> QED
  BY <1>3, <1>4

\* A phase that changes and nothing else.
LEMMA PhaseStep ==
    ASSUME DevIInv, NEW p \in DevProcs, NEW STATE next, next \in DevPhases,
           tt' = [tt EXCEPT ![p].phase = next],
           UNCHANGED <<dplatform, owner, addrs, linked, presets>>, tt[p].phase # "open",
           ~tt[p].ipapi, TunOK([tt[p] EXCEPT !.phase = next])
    PROVE  DevIInv'
<1>1. tt \in [DevProcs -> TunRec]
  BY DEF DevIInv, DevType
<1> DEFINE x == [tt[p] EXCEPT !.phase = next]
<1>2. tt' = [tt EXCEPT ![p] = x]
  BY <1>1 DEF TunRec
<1>3. x \in TunRec /\ x.unit = tt[p].unit /\ x.killed = tt[p].killed /\ x.ipapi = tt[p].ipapi
  BY <1>1 DEF TunRec
<1> HIDE DEF x
<1>4. tt' \in [DevProcs -> TunRec] /\ tt'[p] = x /\ \A q \in DevProcs \ {p} : tt'[q] = tt[q]
  BY <1>1, <1>2, <1>3
<1>5. TunOK(tt'[p])
  BY <1>4 DEF x
<1> QED
  BY <1>3, <1>4, <1>5, Moves

\* do_ifconfig before the open
LEMMA IfconfigBeforeStep ==
    ASSUME DevIInv, NEW p \in DevProcs, IfconfigBefore(p)
    PROVE  DevIInv'
<1>1. /\ tt[p].phase = "init" /\ BeforeOpen /\ TunOK(tt[p]) /\ tt[p] \in TunRec
  BY DEF IfconfigBefore, DevIInv, DevType
<1>2. tt[p].conf \in DevConfigs /\ tt[p].unit = NoUnit /\ ~tt[p].ipapi
  BY <1>1 DEF TunOK
<1>3. CASE /\ tt' = [tt EXCEPT ![p].phase = "ready"]
           /\ UNCHANGED <<dplatform, owner, addrs, linked, presets, lives>>
  <2>1. TunOK([tt[p] EXCEPT !.phase = "ready"])
    BY <1>1 DEF TunOK, TunRec
  <2> QED
    BY <1>1, <1>2, <1>3, <2>1, PhaseStep DEF DevPhases
<1>4. CASE Configures(tt[p].conf) /\ DoIfconfig(p, Guess(tt[p].conf), "ready")
  <2> DEFINE u == Guess(tt[p].conf)
  <2>1. u \in Units
    BY <1>2, <1>4, GuessIs DEF DoIfconfig
  <2>2. tt[p].conf.type # "null"
    BY <1>1, <1>4 DEF TunOK, Configures
  <2>3. DoIfconfig(p, u, "ready") /\ u = Guess(tt[p].conf)
    BY <1>4
  <2> HIDE DEF u
  <2> QED
    BY <1>1, <2>1, <2>2, <2>3, Configured
<1>5. CASE Fatal(p)
  BY <1>1, <1>2, <1>5, FatalStep
<1> QED
  BY <1>3, <1>4, <1>5 DEF IfconfigBefore

\* do_ifconfig after the open
LEMMA IfconfigAfterStep ==
    ASSUME DevIInv, NEW p \in DevProcs, IfconfigAfter(p)
    PROVE  DevIInv'
<1>1. /\ tt[p].phase = "opened" /\ ~BeforeOpen /\ TunOK(tt[p]) /\ tt[p] \in TunRec
  BY DEF IfconfigAfter, DevIInv, DevType
<1>2. tt[p].conf \in DevConfigs /\ ~tt[p].ipapi
  BY <1>1 DEF TunOK, BeforeOpen
<1>3. CASE /\ tt' = [tt EXCEPT ![p].phase = "open"]
           /\ UNCHANGED <<dplatform, owner, addrs, linked, presets, lives>>
  <2>1. TunOK([tt[p] EXCEPT !.phase = "open"])
    BY <1>1 DEF TunOK, TunRec
  <2> QED
    BY <1>1, <1>2, <1>3, <2>1, PhaseStep DEF DevPhases
<1>4. CASE Configures(tt[p].conf) /\ DoIfconfig(p, tt[p].unit, "open")
  <2> DEFINE u == tt[p].unit
  <2>1. u \in Units
    BY <1>1, <1>4 DEF DoIfconfig, TunRec
  <2>2. tt[p].conf.type # "null"
    BY <1>1, <1>4 DEF TunOK, Configures
  <2>3. DoIfconfig(p, u, "open") /\ u = tt[p].unit
    BY <1>4
  <2> HIDE DEF u
  <2> QED
    BY <1>1, <2>1, <2>2, <2>3, Configured
<1>5. CASE dplatform # "solaris" /\ Fatal(p)
  BY <1>1, <1>2, <1>5, FatalStep
<1> QED
  BY <1>3, <1>4, <1>5 DEF IfconfigAfter

\* What a process that is about to open its device has.
LEMMA OpenReady ==
    ASSUME DevIInv, NEW p \in DevProcs, CanOpen(p)
    PROVE  /\ tt \in [DevProcs -> TunRec] /\ tt[p] \in TunRec /\ TunOK(tt[p])
           /\ tt[p].phase \in {"init", "ready"} /\ tt[p].unit = NoUnit /\ ~tt[p].ipapi
           /\ tt[p].conf \in DevConfigs
           /\ ~BeforeOpen => tt[p].named = NoUnit
           /\ AfterOpen(p) = IF BeforeOpen THEN "open" ELSE "opened"
<1>1. tt \in [DevProcs -> TunRec] /\ TunOK(tt[p])
  BY DEF DevIInv, DevType
<1> QED
  BY <1>1 DEF CanOpen, TunOK, AfterOpen

\* open_null
LEMMA OpenNullStep ==
    ASSUME DevIInv, NEW p \in DevProcs, OpenNull(p)
    PROVE  DevIInv'
<1>1. /\ tt[p] \in TunRec /\ TunOK(tt[p]) /\ tt[p].conf.type = "null"
      /\ tt[p].phase \in {"init", "ready"} /\ tt[p].unit = NoUnit /\ ~tt[p].ipapi
      /\ tt[p].conf \in DevConfigs
      /\ AfterOpen(p) = IF BeforeOpen THEN "open" ELSE "opened"
  BY OpenReady DEF OpenNull
<1> DEFINE next == AfterOpen(p)
<1>2. /\ tt' = [tt EXCEPT ![p].phase = next] /\ UNCHANGED <<dplatform, owner, addrs, linked, presets>>
      /\ next = IF BeforeOpen THEN "open" ELSE "opened"
  BY <1>1 DEF OpenNull
<1> HIDE DEF next
<1>3. TunOK([tt[p] EXCEPT !.phase = next])
  <2> DEFINE x == [tt[p] EXCEPT !.phase = next]
  <2>1. /\ x.phase = next /\ x.conf = tt[p].conf /\ x.unit = tt[p].unit /\ x.named = tt[p].named
        /\ x.ipapi = tt[p].ipapi
    BY <1>1 DEF TunRec
  <2> HIDE DEF x
  <2>2. tt[p].named = NoUnit
    BY <1>1 DEF TunOK
  <2>3. TunOK(x)
    BY <1>1, <1>2, <2>1, <2>2 DEF TunOK
  <2> QED
    BY <2>3 DEF x
<1>4. next \in DevPhases
  BY <1>2 DEF DevPhases
<1> QED
  BY <1>1, <1>2, <1>3, <1>4, PhaseStep

\* A unit opened on a system other than Windows.
LEMMA TookStep ==
    ASSUME DevIInv, NEW p \in DevProcs, CanOpen(p), tt[p].conf.type # "null",
           NEW u \in FreeUnits, tt[p].conf.dev \in {NoUnit, u},
           NEW fds \in SUBSET {"fd", "ip_fd", "hand"}, fds # {}, Took(p, u, fds),
           UNCHANGED <<dplatform, addrs, presets>>,
           linked' \subseteq linked \cup {u}, dplatform # "solaris" => linked' = linked
    PROVE  DevIInv'
<1>1. /\ tt \in [DevProcs -> TunRec] /\ tt[p] \in TunRec /\ TunOK(tt[p])
      /\ tt[p].phase \in {"init", "ready"} /\ tt[p].unit = NoUnit /\ ~tt[p].ipapi
      /\ tt[p].conf \in DevConfigs /\ (~BeforeOpen => tt[p].named = NoUnit)
      /\ AfterOpen(p) = IF BeforeOpen THEN "open" ELSE "opened"
  BY OpenReady
<1> DEFINE next == AfterOpen(p)
           x == [tt[p] EXCEPT !.phase = next, !.unit = u, !.fds = fds]
<1>2. next = IF BeforeOpen THEN "open" ELSE "opened"
  BY <1>1
<1>3. owner' = [owner EXCEPT ![u] = p] /\ tt' = [tt EXCEPT ![p].phase = next, ![p].unit = u, ![p].fds = fds]
  BY DEF Took
<1> HIDE DEF next
<1>4. tt' = [tt EXCEPT ![p] = x]
  BY <1>1, <1>3 DEF TunRec
<1>5. u \in Units /\ next \in DevPhases /\ NoUnit \notin Units
  BY <1>2, DevAssumption DEF FreeUnits, DevPhases, NoUnit
<1>6. /\ x \in TunRec
      /\ x.phase = next /\ x.conf = tt[p].conf /\ x.unit = u /\ x.named = tt[p].named /\ x.fds = fds
      /\ x.ipapi = tt[p].ipapi /\ x.killed = tt[p].killed
  BY <1>1, <1>5 DEF TunRec
<1> HIDE DEF x
<1>7. TunOK(x)
  BY <1>1, <1>2, <1>5, <1>6 DEF TunOK
<1>8. tt' \in [DevProcs -> TunRec] /\ tt'[p] = x /\ \A q \in DevProcs \ {p} : tt'[q] = tt[q]
  BY <1>1, <1>4, <1>6
<1>9. TunOK(tt'[p]) /\ ~tt'[p].ipapi /\ tt'[p].unit = u /\ tt'[p].killed = tt[p].killed
  BY <1>1, <1>6, <1>7, <1>8
<1>10. addrs' = IF tt'[p].ipapi THEN [addrs EXCEPT ![u] = {p}] ELSE addrs
  BY <1>9
<1> QED
  BY <1>3, <1>8, <1>9, <1>10, Opens

\* open_tun_generic
LEMMA OpenGenericStep ==
    ASSUME DevIInv, NEW p \in DevProcs, OpenGeneric(p)
    PROVE  DevIInv'
<1>1. /\ CanOpen(p) /\ tt[p].conf.type # "null" /\ dplatform # "solaris"
      /\ tt[p].conf \in DevConfigs /\ tt[p].phase # "open"
  BY OpenReady DEF OpenGeneric
<1>2. CASE Fatal(p)
  BY <1>1, <1>2, FatalStep
<1>3. ASSUME NEW u \in GenericUnits(tt[p].conf), Took(p, u, {"fd"}),
             UNCHANGED <<dplatform, addrs, linked, presets, lives>>
      PROVE  DevIInv'
  <2>1. u \in FreeUnits /\ tt[p].conf.dev \in {NoUnit, u}
    BY <1>1, GenericUnitsIs
  <2> QED
    BY <1>1, <1>3, <2>1, TookStep
<1> QED
  BY <1>2, <1>3 DEF OpenGeneric

\* open_tun on Linux
LEMMA OpenTunsetiffStep ==
    ASSUME DevIInv, NEW p \in DevProcs, OpenTunsetiff(p)
    PROVE  DevIInv'
<1>1. PICK u \in FreeUnits : tt[p].conf.dev \in {NoUnit, u} /\ Took(p, u, {"fd"})
  BY DEF OpenTunsetiff
<1> QED
  BY <1>1, TookStep DEF OpenTunsetiff

\* open_tun on Solaris
LEMMA OpenSolarisStep ==
    ASSUME DevIInv, NEW p \in DevProcs, OpenSolaris(p)
    PROVE  DevIInv'
<1>1. CanOpen(p) /\ tt[p].conf.type # "null" /\ tt[p].phase # "open" /\ tt[p].unit = NoUnit
  BY OpenReady DEF OpenSolaris
<1>2. CASE Fatal(p)
  BY <1>1, <1>2, FatalStep
<1>3. ASSUME NEW u \in FreeUnits \ linked, tt[p].conf.dev \in {NoUnit, u},
             Took(p, u, {"fd", "ip_fd"}), linked' = linked \cup {u},
             UNCHANGED <<dplatform, addrs, presets, lives>>
      PROVE  DevIInv'
  BY <1>1, <1>3, TookStep DEF OpenSolaris
<1> QED
  BY <1>2, <1>3 DEF OpenSolaris

\* open_tun on Windows
LEMMA OpenWindowsStep ==
    ASSUME DevIInv, NEW p \in DevProcs, OpenWindows(p)
    PROVE  DevIInv'
<1>1. /\ tt \in [DevProcs -> TunRec] /\ tt[p] \in TunRec /\ TunOK(tt[p])
      /\ CanOpen(p) /\ tt[p].phase # "open" /\ tt[p].unit = NoUnit
      /\ tt[p].conf \in DevConfigs /\ tt[p].conf.type # "null" /\ dplatform = "windows"
  BY OpenReady DEF OpenWindows
<1>2. CASE Fatal(p)
  BY <1>1, <1>2, FatalStep
<1>3. ASSUME NEW u \in AdapterUnits(tt[p].conf), owner' = [owner EXCEPT ![u] = p],
             tt' = [tt EXCEPT ![p].phase = "open", ![p].unit = u, ![p].fds = {"hand"},
                              ![p].ipapi = UsesIpapi(tt[p].conf)],
             addrs' = IF UsesIpapi(tt[p].conf) THEN [addrs EXCEPT ![u] = SetIpapi(u, p)] ELSE addrs,
             UNCHANGED <<dplatform, linked, presets, lives>>
      PROVE  DevIInv'
  <2> DEFINE b == UsesIpapi(tt[p].conf)
             x == [tt[p] EXCEPT !.phase = "open", !.unit = u, !.fds = {"hand"}, !.ipapi = b]
  <2>1. u \in FreeUnits /\ tt[p].conf.dev \in {NoUnit, u}
    BY <1>1, GenericUnitsIs DEF AdapterUnits
  <2>2. b \in BOOLEAN
    BY DEF UsesIpapi
  <2>3. /\ tt' = [tt EXCEPT ![p].phase = "open", ![p].unit = u, ![p].fds = {"hand"}, ![p].ipapi = b]
        /\ addrs' = IF b THEN [addrs EXCEPT ![u] = {p}] ELSE addrs
    BY <1>3 DEF SetIpapi
  <2> HIDE DEF b
  <2>4. tt' = [tt EXCEPT ![p] = x]
    BY <1>1, <2>3 DEF TunRec
  <2>5. u \in Units /\ NoUnit \notin Units /\ "open" \in DevPhases
    BY <2>1, DevAssumption DEF FreeUnits, DevPhases, NoUnit
  <2>6. /\ x \in TunRec
        /\ x.phase = "open" /\ x.conf = tt[p].conf /\ x.unit = u /\ x.named = tt[p].named
        /\ x.fds = {"hand"} /\ x.ipapi = b /\ x.killed = tt[p].killed
    BY <1>1, <2>2, <2>5 DEF TunRec
  <2> HIDE DEF x
  <2>7. TunOK(x)
    BY <1>1, <2>1, <2>5, <2>6 DEF TunOK, BeforeOpen
  <2>8. tt' \in [DevProcs -> TunRec] /\ tt'[p] = x /\ \A q \in DevProcs \ {p} : tt'[q] = tt[q]
    BY <1>1, <2>4, <2>6
  <2>9. /\ TunOK(tt'[p]) /\ tt'[p].unit = u /\ tt'[p].killed = tt[p].killed /\ tt'[p].phase = "open"
        /\ addrs' = IF tt'[p].ipapi THEN [addrs EXCEPT ![u] = {p}] ELSE addrs
    BY <2>3, <2>6, <2>7, <2>8
  <2> QED
    BY <1>1, <1>3, <2>1, <2>8, <2>9, Opens
<1> QED
  BY <1>2, <1>3 DEF OpenWindows

\* What closing does on every system.
LEMMA ClosedIs ==
    ASSUME DevIInv, NEW p \in DevProcs, DevClosed(p)
    PROVE  /\ dplatform' = dplatform /\ presets' = presets
           /\ tt' \in [DevProcs -> TunRec] /\ \A q \in DevProcs \ {p} : tt'[q] = tt[q]
           /\ tt'[p].phase = "none" /\ tt'[p].unit = NoUnit /\ tt'[p].named = NoUnit /\ ~tt'[p].ipapi
           /\ tt'[p].killed = tt[p].killed
           /\ owner' = [u \in Units |-> IF owner[u] = p THEN NoOwner ELSE owner[u]]
           /\ addrs \in [Units -> SUBSET DevProcs] /\ linked \subseteq Units
           /\ tt[p] \in TunRec /\ TunOK(tt[p])
<1> DEFINE k == tt[p].killed
           x == Cleared(k)
<1>1. /\ tt \in [DevProcs -> TunRec] /\ k \in BOOLEAN /\ TunOK(tt[p])
      /\ addrs \in [Units -> SUBSET DevProcs] /\ linked \subseteq Units
  BY DEF DevIInv, DevType, TunRec
<1>2. /\ dplatform' = dplatform /\ presets' = presets /\ tt' = [tt EXCEPT ![p] = x]
      /\ owner' = [u \in Units |-> IF owner[u] = p THEN NoOwner ELSE owner[u]]
  BY DEF DevClosed, Cleared
<1> HIDE DEF k
<1>3. x \in TunRec /\ x.phase = "none" /\ x.unit = NoUnit /\ x.named = NoUnit /\ ~x.ipapi /\ x.killed = k
  BY <1>1, ClearIs
<1> HIDE DEF x
<1>4. tt' \in [DevProcs -> TunRec] /\ tt'[p] = x /\ \A q \in DevProcs \ {p} : tt'[q] = tt[q]
  BY <1>1, <1>2, <1>3
<1> QED
  BY <1>1, <1>2, <1>3, <1>4 DEF k

\* The address of the unit goes with it.
LEMMA AddressGone ==
    ASSUME DevIInv, NEW p \in DevProcs,
           addrs' = IF tt[p].unit = NoUnit THEN addrs ELSE [addrs EXCEPT ![tt[p].unit] = {}]
    PROVE  /\ addrs' \in [Units -> SUBSET DevProcs] /\ \A u \in Units : addrs'[u] \subseteq addrs[u]
           /\ \A u \in Units : tt[p].unit = u => p \notin addrs'[u]
<1>1. addrs \in [Units -> SUBSET DevProcs] /\ tt[p].unit \in Units \cup {NoUnit} /\ NoUnit \notin Units
  BY DevAssumption DEF DevIInv, DevType, TunRec, NoUnit
<1> QED
  BY <1>1

\* close_tun_generic
LEMMA CloseGenericStep ==
    ASSUME DevIInv, NEW p \in DevProcs, CloseGeneric(p)
    PROVE  DevIInv'
<1>1. DevClosed(p) /\ dplatform \notin {"windows", "solaris"} /\ linked' = linked /\ linked = {}
  BY DEF CloseGeneric, DevIInv, LinkOK
<1>2. /\ addrs' \in [Units -> SUBSET DevProcs] /\ \A u \in Units : addrs'[u] \subseteq addrs[u]
      /\ \A u \in Units : tt[p].unit = u => p \notin addrs'[u]
  BY AddressGone DEF CloseGeneric
<1> QED
  BY <1>1, <1>2, ClosedIs, Leaves

\* solaris_close_tun
LEMMA CloseSolarisStep ==
    ASSUME DevIInv, NEW p \in DevProcs, CloseSolaris(p)
    PROVE  DevIInv'
<1>1. DevClosed(p) /\ dplatform = "solaris" /\ linked' = linked \ {tt[p].unit}
  BY DEF CloseSolaris
<1>2. /\ addrs' \in [Units -> SUBSET DevProcs] /\ \A u \in Units : addrs'[u] \subseteq addrs[u]
      /\ \A u \in Units : tt[p].unit = u => p \notin addrs'[u]
  BY AddressGone DEF CloseSolaris
<1> QED
  BY <1>1, <1>2, ClosedIs, Leaves

\* close_tun on Windows
LEMMA CloseWindowsStep ==
    ASSUME DevIInv, NEW p \in DevProcs, CloseWindows(p)
    PROVE  DevIInv'
<1>1. /\ DevClosed(p) /\ dplatform = "windows" /\ linked' = linked /\ linked = {}
      /\ addrs' = IF tt[p].ipapi THEN [addrs EXCEPT ![tt[p].unit] = @ \ {p}] ELSE addrs
  BY DEF CloseWindows, DevIInv, LinkOK
<1>2. addrs \in [Units -> SUBSET DevProcs] /\ (tt[p].ipapi => tt[p].unit \in Units)
  BY <1>1, ClosedIs DEF TunOK, TunRec
<1>3. /\ addrs' \in [Units -> SUBSET DevProcs] /\ \A u \in Units : addrs'[u] \subseteq addrs[u]
      /\ tt[p].ipapi => \A u \in Units : tt[p].unit = u => p \notin addrs'[u]
      /\ \A u \in Units : u # tt[p].unit => addrs'[u] = addrs[u]
  BY <1>1, <1>2
<1> QED
  BY <1>1, <1>3, ClosedIs, Leaves
-----------------------------------------------------------------------------
(* The theorem                                                             *)

\* No process has started.
LEMMA DevIInit ==
    ASSUME DevInit
    PROVE  DevIInv
<1> DEFINE no == FALSE
           x == [phase |-> "none", conf |-> [type |-> "null"], unit |-> NoUnit, named |-> NoUnit,
                 fds |-> {}, ipapi |-> no, killed |-> no]
<1>1. no \in BOOLEAN /\ ~no /\ ClearTuntap = x
  BY DEF ClearTuntap
<1> HIDE DEF no
<1>2. /\ ClearTuntap \in TunRec /\ ClearTuntap.phase = "none" /\ ClearTuntap.unit = NoUnit
      /\ ClearTuntap.named = NoUnit /\ ~ClearTuntap.ipapi
  <2>1. x \in TunRec
    BY <1>1 DEF TunRec, DevPhases
  <2>2. x.phase = "none" /\ x.unit = NoUnit /\ x.named = NoUnit /\ x.ipapi = no
    OBVIOUS
  <2> HIDE DEF x
  <2> QED
    BY <1>1, <2>1, <2>2
<1>3. DevType
  BY <1>2 DEF DevInit, DevType
<1>4. \A p \in DevProcs : tt[p] = ClearTuntap
  BY DEF DevInit
<1>5. \A p \in DevProcs : TunOK(tt[p])
  BY <1>2, <1>4 DEF TunOK
<1>6. OwnerOK
  <2>1. NoUnit \notin Units /\ NoOwner \notin DevProcs
    BY DevAssumption DEF NoUnit
  <2> QED
    BY <1>2, <1>4, <2>1 DEF DevInit, OwnerOK
<1>7. LinkOK /\ AddrOK
  BY DEF DevInit, LinkOK, AddrOK
<1>8. TempAddresses
  BY <1>2, <1>4 DEF TempAddresses
<1> QED
  BY <1>3, <1>5, <1>6, <1>7, <1>8 DEF DevIInv

\* Every step keeps the invariant.
LEMMA DevIStep ==
    ASSUME DevIInv, [DevNext]_devVars
    PROVE  DevIInv'
<1>1. ASSUME NEW p \in DevProcs, DevStep(p) PROVE DevIInv'
  BY <1>1, InitTunStep, IfconfigBeforeStep, IfconfigAfterStep, OpenNullStep, OpenGenericStep,
     OpenTunsetiffStep, OpenSolarisStep, OpenWindowsStep, CloseGenericStep, CloseSolarisStep,
     CloseWindowsStep, KillStep DEF DevStep
<1>2. CASE UNCHANGED devVars
  BY <1>2 DEF devVars, DevIInv, DevType, TunOK, BeforeOpen, Guess, OwnerOK, LinkOK, AddrOK, AnyKilled,
              AddrOf, TempAddresses
<1> QED
  BY <1>1, <1>2 DEF DevNext

\* The invariant implies what the run checks.
LEMMA DevIImplies ==
    ASSUME DevIInv
    PROVE  DevInv
<1>1. /\ tt \in [DevProcs -> TunRec] /\ owner \in [Units -> DevProcs \cup {NoOwner}]
      /\ addrs \in [Units -> SUBSET DevProcs] /\ linked \subseteq Units
      /\ \A p \in DevProcs : TunOK(tt[p])
  BY DEF DevIInv, DevType
<1>2. DevTypeOK
  BY <1>1 DEF DevTypeOK, TunOK, TunRec, DevPhases
<1>3. OwnUnitConfigured
  <2> SUFFICES ASSUME NEW p \in DevProcs, tt[p].phase = "open", tt[p].named # NoUnit
               PROVE  tt[p].named = tt[p].unit
    BY DEF OwnUnitConfigured
  <2>1. TunOK(tt[p]) /\ tt[p].unit \in Units \cup {NoUnit}
    BY <1>1 DEF TunRec
  <2>2. tt[p].conf \in DevConfigs /\ tt[p].unit \in Units /\ tt[p].conf.dev \in {NoUnit, tt[p].unit}
    BY <2>1 DEF TunOK
  <2>3. tt[p].named = IF BeforeOpen THEN Guess(tt[p].conf) ELSE tt[p].unit
    BY <2>1 DEF TunOK
  <2> QED
    BY <2>2, <2>3, GuessIs
<1>4. NothingLeft
  <2> SUFFICES ASSUME \A p \in DevProcs : ~tt[p].killed /\ tt[p].phase = "none"
               PROVE  /\ linked = {}
                      /\ \A u \in Units : \A p \in addrs[u] : \E r \in presets : r.proc = p /\ r.unit = u
    BY DEF NothingLeft
  <2>1. ~AnyKilled
    BY DEF AnyKilled
  <2>2. \A u \in Units : owner[u] = NoOwner
    <3>1. \A p \in DevProcs : tt[p].unit \notin Units
      BY <1>1, DevAssumption DEF TunOK, NoUnit
    <3> QED
      BY <1>1, <3>1 DEF DevIInv, OwnerOK
  <2>3. linked = {}
    BY <1>1, <2>1, <2>2 DEF DevIInv, LinkOK
  <2>4. ASSUME NEW u \in Units, NEW p \in addrs[u] PROVE \E r \in presets : r.proc = p /\ r.unit = u
    BY <1>1, <2>1 DEF DevIInv, AddrOK, AddrOf
  <2> QED
    BY <2>3, <2>4
<1> QED
  BY <1>2, <1>3, <1>4 DEF DevInv, DevIInv

\* For any number of processes, units, starts, failures and kills, and on every platform: the
\* unit --ifconfig configured is the unit the process has open, an adapter with an --ip-win32
\* ipapi address has its owner's only, and processes that close their device or fail to open
\* it leave no link and no address behind (open_tun, do_ifconfig, close_tun in tun.c).
THEOREM DeviceCorrect == DevSpec => []DevInv
<1>1. DevInit => DevIInv
  BY DevIInit
<1>2. DevIInv /\ [DevNext]_devVars => DevIInv'
  BY DevIStep
<1>3. DevIInv => DevInv
  BY DevIImplies
<1> QED
  BY <1>1, <1>2, <1>3, PTL DEF DevSpec

(***************************************************************************)
(* The TAP driver.                                                         *)
(***************************************************************************)

ReadStates == {"none", "try", "pend", "queued", "taken", "done"}
TapRec == [life : {"none", "failed", "up", "halting", "flushing", "flushed", "gone"},
           iface : BOOLEAN, run : BOOLEAN, opens : 0 .. 1, halt : BOOLEAN, media : BOOLEAN, always : BOOLEAN,
           remote : {NoAddress} \cup Addresses, server : {NoAddress} \cup Addresses, arp : BOOLEAN,
           smac : {"none", "own", "peer"}, optlen : {0} \cup OptionLens, disc : BOOLEAN, bad : Nat,
           res : SUBSET Resources]
ThrRec == [pc : {"idle", "work", "push", "match", "complete"}, pkt : Packets, irp : Nat]
LogRec == [opens : Nat, n : Nat, pkt : Nat, wrong : BOOLEAN, over : BOOLEAN, mute : BOOLEAN]

DriverTypes ==
    /\ load \in Loads /\ tap \in TapRec
    /\ pq \in Seq(Nat) /\ Len(pq) <= PACKET_QUEUE_SIZE /\ iq \in Seq(Reads) /\ Len(iq) <= IRP_QUEUE_SIZE
    /\ irp \in [Reads -> ReadStates] /\ thr \in [Threads -> ThrRec]
    /\ hnd \subseteq Handles /\ closing \in {"no", "irps", "packets", "media"} /\ log \in LogRec

\* A read is in the queue, or a thread has it, exactly when its state says so.
ReadsOK ==
    /\ IsInjective(iq) /\ \A i \in Reads : irp[i] = "queued" <=> i \in ToSet(iq)
    /\ \A t \in Threads : thr[t].pc = "complete" => thr[t].irp \in Reads /\ irp[thr[t].irp] = "taken"
    /\ \A t, u \in Threads : thr[t].pc = "complete" /\ thr[u].pc = "complete" /\ thr[t].irp = thr[u].irp => t = u
    /\ \A i \in Reads : irp[i] = "taken" => \E t \in Threads : thr[t].pc = "complete" /\ thr[t].irp = i

\* The packets in the queue are newer than the last one handed out, and in order.
PacketsOK ==
    /\ Increasing(pq) /\ \A w \in Range(pq) : log.pkt < w /\ w <= log.n
    /\ log.pkt <= log.n /\ ~log.wrong /\ ~log.over

\* A close holds the mutex until the media status is back, and the process is gone by then.
OpenOK ==
    /\ \A g, h \in hnd : g = h
    /\ hnd # {} /\ ~tap.halt => tap.opens = 1
    /\ closing # "no" => hnd = {}
    /\ tap.halt => tap.opens = 0

ModeOK ==
    /\ hnd # {} /\ ~tap.halt => ModeOf(tap) = ses
    /\ hnd = {} /\ closing = "no" /\ ~tap.halt => tap.media = tap.always
    /\ tap.always => tap.media
    /\ OneResponder /\ DhcpAnswers

\* Once the flush has begun no call is in the driver, and none comes in.
LifeOK ==
    /\ tap.halt <=> tap.life \in {"halting", "flushing", "flushed", "gone"}
    /\ tap.life \in {"none", "failed"} => hnd = {}
    /\ tap.life \in {"flushing", "flushed", "gone"} => NoCalls /\ iq = <<>>
    /\ tap.life \in {"flushed", "gone"} => pq = <<>>
    /\ tap.life = "gone" => tap.res = {}
    /\ tap.life = "failed" => tap.res \subseteq {"adapter"}

DriverInv == DriverTypes /\ ReadsOK /\ PacketsOK /\ OpenOK /\ ModeOK /\ LifeOK

\* A read is completed.
LEMMA CompletedIs ==
    ASSUME irp \in [Reads -> ReadStates], NEW i \in Reads, irp[i] \notin {"done", "none"}
    PROVE  Completed(irp, i) = [irp EXCEPT ![i] = "done"]
  BY DEF Completed

\* A new element is appended to a queue.
LEMMA QueueAppend ==
    ASSUME NEW S, NEW s \in Seq(S), NEW e \in S, IsInjective(s), e \notin ToSet(s)
    PROVE  /\ Append(s, e) \in Seq(S) /\ Len(Append(s, e)) = Len(s) + 1
           /\ IsInjective(Append(s, e)) /\ ToSet(Append(s, e)) = ToSet(s) \cup {e}
<1> DEFINE t == Append(s, e)
<1>1. t \in Seq(S) /\ Len(t) = Len(s) + 1 /\ t[Len(s) + 1] = e /\ \A i \in 1 .. Len(s) : t[i] = s[i]
  OBVIOUS
<1>2. Len(s) \in Nat /\ DOMAIN s = 1 .. Len(s) /\ DOMAIN t = 1 .. Len(s) + 1
  BY <1>1
<1> HIDE DEF t
<1>3. ToSet(t) = ToSet(s) \cup {e}
  BY <1>1, <1>2 DEF ToSet
<1>4. IsInjective(t)
  <2> SUFFICES ASSUME NEW i \in 1 .. Len(s) + 1, NEW j \in 1 .. Len(s) + 1, t[i] = t[j] PROVE i = j
    BY <1>2 DEF IsInjective
  <2>1. \A k \in 1 .. Len(s) : t[k] = s[k] /\ t[k] # e
    BY <1>1, <1>2 DEF ToSet
  <2>2. CASE i \in 1 .. Len(s) /\ j \in 1 .. Len(s)
    BY <2>1, <2>2, <1>2 DEF IsInjective
  <2>3. CASE i = Len(s) + 1 \/ j = Len(s) + 1
    BY <2>1, <2>3, <1>1, <1>2
  <2> QED
    BY <2>2, <2>3, <1>2
<1> QED
  BY <1>1, <1>3, <1>4 DEF t

\* The element at some place is taken out of a queue.
LEMMA QueueRemove ==
    ASSUME NEW S, NEW s \in Seq(S), IsInjective(s), NEW k \in DOMAIN s
    PROVE  /\ RemoveAt(s, k) \in Seq(S) /\ Len(RemoveAt(s, k)) = Len(s) - 1
           /\ IsInjective(RemoveAt(s, k)) /\ ToSet(RemoveAt(s, k)) = ToSet(s) \ {s[k]}
<1> DEFINE t == RemoveAt(s, k)
           n == Len(s)
<1>1. n \in Nat /\ DOMAIN s = 1 .. n /\ k \in 1 .. n /\ \A i \in 1 .. n : s[i] \in S
  OBVIOUS
<1> DEFINE u == SubSeq(s, 1, k - 1)
           v == SubSeq(s, k + 1, n)
<1>2. u \in Seq(S) /\ Len(u) = k - 1 /\ \A i \in 1 .. k - 1 : u[i] = s[i]
  <2>1. \A i \in 1 .. k - 1 : s[i] \in S
    BY <1>1
  <2>2. /\ u \in Seq(S) /\ Len(u) = (IF 1 <= k - 1 THEN (k - 1) - 1 + 1 ELSE 0)
        /\ \A i \in 1 .. (k - 1) - 1 + 1 : u[i] = s[1 + i - 1]
    BY <1>1, <2>1, SubSeqProperties
  <2> HIDE DEF u
  <2> QED
    BY <1>1, <2>2
<1>3. v \in Seq(S) /\ Len(v) = n - k /\ \A i \in 1 .. n - k : v[i] = s[k + i]
  <2>1. \A i \in k + 1 .. n : s[i] \in S
    BY <1>1
  <2>2. /\ v \in Seq(S) /\ Len(v) = (IF k + 1 <= n THEN n - (k + 1) + 1 ELSE 0)
        /\ \A i \in 1 .. n - (k + 1) + 1 : v[i] = s[(k + 1) + i - 1]
    BY <1>1, <2>1, SubSeqProperties
  <2> HIDE DEF v, n
  <2>3. ASSUME NEW i \in 1 .. n - k PROVE v[i] = s[k + i]
    <3>1. i \in 1 .. n - (k + 1) + 1 /\ (k + 1) + i - 1 = k + i
      BY <1>1
    <3> QED
      BY <2>2, <3>1
  <2>4. Len(v) = n - k
    BY <1>1, <2>2
  <2> QED
    BY <2>2, <2>3, <2>4
<1>4. /\ t \in Seq(S) /\ Len(t) = n - 1 /\ DOMAIN t = 1 .. n - 1
      /\ \A i \in 1 .. n - 1 : t[i] = IF i < k THEN s[i] ELSE s[i + 1]
  <2>1. t = u \o v
    BY DEF RemoveAt
  <2> HIDE DEF t, u, v, n
  <2>2. t \in Seq(S) /\ Len(t) = Len(u) + Len(v)
        /\ \A i \in 1 .. Len(u) + Len(v) : t[i] = IF i <= Len(u) THEN u[i] ELSE v[i - Len(u)]
    BY <1>2, <1>3, <2>1, ConcatProperties
  <2>3. Len(t) = n - 1 /\ DOMAIN t = 1 .. n - 1
    BY <1>1, <1>2, <1>3, <2>2
  <2>4. ASSUME NEW i \in 1 .. n - 1 PROVE t[i] = IF i < k THEN s[i] ELSE s[i + 1]
    <3>1. t[i] = IF i <= k - 1 THEN u[i] ELSE v[i - (k - 1)]
      BY <1>1, <1>2, <1>3, <2>2
    <3>2. CASE i < k
      BY <3>1, <3>2, <1>1, <1>2
    <3>3. CASE ~(i < k)
      <4>1. i - (k - 1) \in 1 .. n - k /\ k + (i - (k - 1)) = i + 1
        BY <3>3, <1>1
      <4>2. v[i - (k - 1)] = s[i + 1]
        BY <4>1, <1>3
      <4> QED
        BY <3>1, <3>3, <4>2, <1>1
    <3> QED
      BY <3>2, <3>3
  <2> QED
    BY <2>2, <2>3, <2>4
<1> HIDE DEF t, u, v, n
<1>5. ToSet(t) \subseteq ToSet(s) \ {s[k]}
  <2> SUFFICES ASSUME NEW i \in 1 .. n - 1 PROVE t[i] \in ToSet(s) \ {s[k]}
    BY <1>4 DEF ToSet
  <2>1. \E j \in 1 .. n : j # k /\ t[i] = s[j]
    BY <1>1, <1>4
  <2> QED
    BY <2>1, <1>1 DEF ToSet, IsInjective
<1>6. ToSet(s) \ {s[k]} \subseteq ToSet(t)
  <2> SUFFICES ASSUME NEW j \in 1 .. n, s[j] # s[k] PROVE s[j] \in ToSet(t)
    BY <1>1 DEF ToSet
  <2>1. \E i \in 1 .. n - 1 : t[i] = s[j]
    <3>1. CASE j < k
      BY <3>1, <1>1, <1>4
    <3>2. CASE j > k
      <4>1. j - 1 \in 1 .. n - 1 /\ ~(j - 1 < k) /\ (j - 1) + 1 = j
        BY <3>2, <1>1
      <4> QED
        BY <4>1, <1>4
    <3> QED
      BY <3>1, <3>2, <1>1
  <2> QED
    BY <2>1, <1>4 DEF ToSet
<1>7. IsInjective(t)
  <2> SUFFICES ASSUME NEW i \in 1 .. n - 1, NEW j \in 1 .. n - 1, t[i] = t[j] PROVE i = j
    BY <1>4 DEF IsInjective
  <2> DEFINE at(x) == IF x < k THEN x ELSE x + 1
  <2>1. at(i) \in 1 .. n /\ at(j) \in 1 .. n /\ t[i] = s[at(i)] /\ t[j] = s[at(j)]
    BY <1>1, <1>4
  <2>2. at(i) = at(j)
    BY <2>1, <1>1 DEF IsInjective
  <2> QED
    BY <2>2, <1>1
<1> QED
  BY <1>4, <1>5, <1>6, <1>7 DEF t, n

\* The head of a queue is taken.
LEMMA QueueTail ==
    ASSUME NEW S, NEW s \in Seq(S), IsInjective(s), s # <<>>
    PROVE  /\ Tail(s) \in Seq(S) /\ Len(Tail(s)) = Len(s) - 1 /\ Head(s) \in ToSet(s) /\ Head(s) \in S
           /\ IsInjective(Tail(s)) /\ ToSet(Tail(s)) = ToSet(s) \ {Head(s)}
<1>1. 1 \in DOMAIN s /\ Head(s) = s[1] /\ Len(s) \in Nat /\ Len(s) >= 1 /\ DOMAIN s = 1 .. Len(s) /\ s[1] \in S
  OBVIOUS
<1>2. RemoveAt(s, 1) = Tail(s)
  <2>1. SubSeq(s, 1, 0) = <<>> /\ Tail(s) = SubSeq(s, 2, Len(s)) /\ Tail(s) \in Seq(S)
    BY TailIsSubSeq, SubSeqEmpty, HeadTailProperties
  <2>2. RemoveAt(s, 1) = SubSeq(s, 1, 0) \o SubSeq(s, 2, Len(s))
    BY DEF RemoveAt
  <2> QED
    BY <2>1, <2>2, ConcatEmptySeq
<1>3. /\ RemoveAt(s, 1) \in Seq(S) /\ Len(RemoveAt(s, 1)) = Len(s) - 1
      /\ IsInjective(RemoveAt(s, 1)) /\ ToSet(RemoveAt(s, 1)) = ToSet(s) \ {s[1]}
  BY <1>1, QueueRemove
<1>4. s[1] \in ToSet(s)
  BY <1>1 DEF ToSet
<1> QED
  BY <1>1, <1>2, <1>3, <1>4

\* What a step leaves alone keeps its part of the invariant.
LEMMA SameReads == ASSUME ReadsOK, UNCHANGED <<iq, irp, thr>> PROVE ReadsOK'
  BY DEF ReadsOK

LEMMA SamePackets == ASSUME PacketsOK, UNCHANGED <<pq, log>> PROVE PacketsOK'
  BY DEF PacketsOK

LEMMA SameOpen == ASSUME OpenOK, UNCHANGED <<tap, hnd, closing>> PROVE OpenOK'
  BY DEF OpenOK

LEMMA SameMode ==
    ASSUME ModeOK, UNCHANGED <<tap, hnd, closing, ses>>, log'.mute = log.mute PROVE ModeOK'
  BY DEF ModeOK, ModeOf, DefaultMode, OneResponder, DhcpAnswers

\* While the flush has not begun, LifeOK speaks of the handles and of the adapter only.
LEMMA LifeBefore ==
    ASSUME LifeOK, UNCHANGED <<tap, hnd>>, tap.life \notin {"flushing", "flushed", "gone"} PROVE LifeOK'
  BY DEF LifeOK

LEMMA SameLife == ASSUME LifeOK, UNCHANGED <<tap, hnd, closing, irp, thr, iq, pq>> PROVE LifeOK'
  BY DEF LifeOK, NoCalls

\* A call is in progress, so the flush has not begun.
LEMMA CallNotFlushed ==
    ASSUME LifeOK,
           \/ \E i \in Reads : irp[i] \in {"try", "pend"}
           \/ \E t \in Threads : thr[t].pc # "idle"
           \/ closing # "no" \/ iq # <<>>
    PROVE  tap.life \notin {"flushing", "flushed", "gone"}
  BY DEF LifeOK, NoCalls

\* A read goes from one state to another, neither of which is the queue or a thread.
LEMMA ReadMoves ==
    ASSUME DriverTypes, ReadsOK, NEW i \in Reads, NEW st \in ReadStates \ {"queued", "taken"},
           irp[i] \notin {"queued", "taken"}, irp' = [irp EXCEPT ![i] = st], UNCHANGED <<iq, thr>>
    PROVE  ReadsOK' /\ irp' \in [Reads -> ReadStates]
<1>1. irp' \in [Reads -> ReadStates] /\ \A j \in Reads : irp'[j] = IF j = i THEN st ELSE irp[j]
  BY DEF DriverTypes
<1> QED
  BY <1>1 DEF ReadsOK

LEMMA ReadIssued == ASSUME DriverInv, NEW h \in Handles, Read(h) PROVE DriverInv'
<1>1. /\ h \in hnd /\ UNCHANGED <<load, tap, pq, iq, thr, hnd, closing, ses, log>>
      /\ \E i \in load.reads, st \in {"done"} \cup (IF Hooked(h) /\ tap.iface THEN {"try"} ELSE {}) :
           irp[i] = "none" /\ irp' = [irp EXCEPT ![i] = st]
  BY DEF Read
<1>2. PICK i \in load.reads, st \in {"done", "try"} :
           irp[i] = "none" /\ irp' = [irp EXCEPT ![i] = st] /\ (st = "try" => ~tap.halt)
  BY <1>1 DEF Hooked
<1>3. i \in Reads
  BY TapAssumption DEF DriverInv, DriverTypes, Reads
<1>4. ReadsOK' /\ irp' \in [Reads -> ReadStates]
  BY <1>1, <1>2, <1>3, ReadMoves DEF DriverInv, ReadStates
<1>5. LifeOK'
  <2>1. \A j \in Reads : irp'[j] = IF j = i THEN st ELSE irp[j]
    BY <1>2 DEF DriverInv, DriverTypes
  <2>2. NoCalls /\ tap.halt => NoCalls'
    BY <1>1, <1>2, <2>1 DEF NoCalls
  <2> QED
    BY <1>1, <2>2 DEF DriverInv, LifeOK
<1>6. DriverTypes'
  BY <1>1, <1>4 DEF DriverInv, DriverTypes
<1> QED
  BY <1>1, <1>4, <1>5, <1>6, SamePackets, SameOpen, SameMode DEF DriverInv

\* The oldest packet is handed out.
LEMMA HandOut ==
    ASSUME DriverTypes, PacketsOK, pq # <<>>, pq' = Tail(pq), log' = Pair(log, Head(pq))
    PROVE  /\ PacketsOK' /\ pq' \in Seq(Nat) /\ Len(pq') <= PACKET_QUEUE_SIZE
           /\ log' \in LogRec /\ log'.mute = log.mute
<1>1. pq \in Seq(Nat) /\ Increasing(pq) /\ log \in LogRec /\ Len(pq) <= PACKET_QUEUE_SIZE
  BY DEF DriverTypes, PacketsOK
<1>2. /\ Head(pq) \in Range(pq) /\ Head(pq) \in Nat /\ \A w \in Range(pq) : w = Head(pq) \/ Head(pq) < w
      /\ Range(Tail(pq)) = Range(pq) \ {Head(pq)} /\ Increasing(Tail(pq)) /\ Tail(pq) \in Seq(Nat)
  BY <1>1, IncreasingTail
<1>3. Len(pq') <= PACKET_QUEUE_SIZE
  BY <1>1, TapAssumption
<1>4. log.pkt < Head(pq) /\ Head(pq) <= log.n /\ log.pkt \in Nat /\ log.n \in Nat
  BY <1>1, <1>2 DEF PacketsOK, LogRec
<1>5. log' = [log EXCEPT !.pkt = Head(pq), !.wrong = FALSE]
  <2>1. log' = [log EXCEPT !.pkt = Head(pq), !.wrong = log.wrong \/ Head(pq) <= log.pkt]
    BY DEF Pair
  <2>2. log.wrong = FALSE /\ (Head(pq) <= log.pkt) = FALSE
    BY <1>1, <1>4 DEF PacketsOK, LogRec
  <2> QED
    BY <2>1, <2>2
<1>6. /\ log' \in LogRec /\ log'.pkt = Head(pq) /\ log'.n = log.n /\ log'.wrong = FALSE
      /\ log'.over = log.over /\ log'.mute = log.mute
  BY <1>1, <1>2, <1>4, <1>5 DEF LogRec, PacketsOK
<1>7. PacketsOK'
  BY <1>2, <1>4, <1>6 DEF PacketsOK
<1> QED
  BY <1>2, <1>3, <1>6, <1>7

LEMMA ReadTried == ASSUME DriverInv, NEW i \in Reads, ReadTry(i) PROVE DriverInv'
<1>1. irp[i] = "try" /\ UNCHANGED <<load, tap, iq, thr, hnd, closing, ses>>
  BY DEF ReadTry
<1>2. tap.life \notin {"flushing", "flushed", "gone"}
  BY <1>1, CallNotFlushed DEF DriverInv
<1>3. CASE Immediate
  <2>1. irp' = Completed(irp, i) /\ pq' = Tail(pq) /\ pq # <<>> /\ iq = <<>>
        /\ log' = [Pair(log, Head(pq)) EXCEPT !.over = @ \/ iq # <<>>]
    BY <1>3 DEF ReadTry, Immediate
  <2>2. log' = Pair(log, Head(pq))
    BY <2>1 DEF Pair, DriverInv, DriverTypes, LogRec
  <2>3. irp' = [irp EXCEPT ![i] = "done"]
    BY <1>1, <2>1, CompletedIs DEF DriverInv, DriverTypes
  <2>4. ReadsOK' /\ irp' \in [Reads -> ReadStates]
    BY <1>1, <2>3, ReadMoves DEF DriverInv, ReadStates
  <2>5. /\ PacketsOK' /\ pq' \in Seq(Nat) /\ Len(pq') <= PACKET_QUEUE_SIZE /\ log' \in LogRec
        /\ log'.mute = log.mute
    BY <2>1, <2>2, HandOut DEF DriverInv
  <2>6. DriverTypes'
    BY <1>1, <2>4, <2>5 DEF DriverInv, DriverTypes
  <2> QED
    BY <1>1, <1>2, <2>4, <2>5, <2>6, SameOpen, SameMode, LifeBefore DEF DriverInv
<1>4. CASE ~Immediate
  <2>1. irp' = [irp EXCEPT ![i] = "pend"] /\ UNCHANGED <<pq, log>>
    BY <1>4 DEF ReadTry
  <2>2. ReadsOK' /\ irp' \in [Reads -> ReadStates]
    BY <1>1, <2>1, ReadMoves DEF DriverInv, ReadStates
  <2>3. DriverTypes'
    BY <1>1, <2>1, <2>2 DEF DriverInv, DriverTypes
  <2> QED
    BY <1>1, <1>2, <2>1, <2>2, <2>3, SamePackets, SameOpen, SameMode, LifeBefore DEF DriverInv
<1> QED
  BY <1>3, <1>4

LEMMA ReadPended == ASSUME DriverInv, NEW i \in Reads, ReadPend(i) PROVE DriverInv'
<1>1. irp[i] = "pend" /\ UNCHANGED <<load, tap, pq, thr, hnd, closing, ses, log>>
  BY DEF ReadPend
<1>2. tap.life \notin {"flushing", "flushed", "gone"}
  BY <1>1, CallNotFlushed DEF DriverInv
<1>3. CASE IS_UP(tap) /\ Len(iq) < IRP_QUEUE_SIZE
  <2>1. iq' = Append(iq, i) /\ irp' = [irp EXCEPT ![i] = "queued"]
    BY <1>3 DEF ReadPend
  <2>2. i \notin ToSet(iq) /\ IsInjective(iq) /\ iq \in Seq(Reads)
    BY <1>1 DEF DriverInv, ReadsOK, DriverTypes
  <2>3. iq' \in Seq(Reads) /\ Len(iq') = Len(iq) + 1 /\ IsInjective(iq') /\ ToSet(iq') = ToSet(iq) \cup {i}
    BY <2>1, <2>2, QueueAppend
  <2>4. irp' \in [Reads -> ReadStates] /\ \A j \in Reads : irp'[j] = IF j = i THEN "queued" ELSE irp[j]
    BY <2>1 DEF DriverInv, DriverTypes, ReadStates
  <2>5. ReadsOK'
    BY <1>1, <2>3, <2>4 DEF DriverInv, ReadsOK
  <2>6. DriverTypes'
    BY <1>1, <1>3, <2>2, <2>3, <2>4, TapAssumption DEF DriverInv, DriverTypes
  <2> QED
    BY <1>1, <1>2, <2>5, <2>6, SamePackets, SameOpen, SameMode, LifeBefore DEF DriverInv
<1>4. CASE ~(IS_UP(tap) /\ Len(iq) < IRP_QUEUE_SIZE)
  <2>1. irp' = Completed(irp, i) /\ UNCHANGED iq
    BY <1>4 DEF ReadPend
  <2>2. irp' = [irp EXCEPT ![i] = "done"]
    BY <1>1, <2>1, CompletedIs DEF DriverInv, DriverTypes
  <2>3. ReadsOK' /\ irp' \in [Reads -> ReadStates]
    BY <1>1, <2>1, <2>2, ReadMoves DEF DriverInv, ReadStates
  <2>4. DriverTypes'
    BY <1>1, <2>1, <2>3 DEF DriverInv, DriverTypes
  <2> QED
    BY <1>1, <1>2, <2>3, <2>4, SamePackets, SameOpen, SameMode, LifeBefore DEF DriverInv
<1> QED
  BY <1>3, <1>4

\* A read is taken out of the queue and completed: cancelled, or flushed.
LEMMA ReadFlushed ==
    ASSUME DriverInv, NEW i \in ToSet(iq), irp' = Completed(irp, i), iq' \in Seq(Reads), Len(iq') = Len(iq) - 1,
           IsInjective(iq'), ToSet(iq') = ToSet(iq) \ {i}, UNCHANGED <<load, pq, thr, hnd, log>>
    PROVE  ReadsOK' /\ irp' \in [Reads -> ReadStates] /\ Len(iq') <= IRP_QUEUE_SIZE
           /\ tap.life \notin {"flushing", "flushed", "gone"}
<1>1. i \in Reads /\ irp[i] = "queued" /\ iq # <<>>
  BY DEF DriverInv, DriverTypes, ReadsOK, ToSet
<1>2. irp' = [irp EXCEPT ![i] = "done"]
  BY <1>1, CompletedIs DEF DriverInv, DriverTypes
<1>3. irp' \in [Reads -> ReadStates] /\ \A j \in Reads : irp'[j] = IF j = i THEN "done" ELSE irp[j]
  BY <1>1, <1>2 DEF DriverInv, DriverTypes, ReadStates
<1>4. ReadsOK'
  BY <1>1, <1>3 DEF DriverInv, ReadsOK
<1>5. Len(iq') <= IRP_QUEUE_SIZE
  BY TapAssumption DEF DriverInv, DriverTypes
<1>6. tap.life \notin {"flushing", "flushed", "gone"}
  BY <1>1, CallNotFlushed DEF DriverInv
<1> QED
  BY <1>3, <1>4, <1>5, <1>6

LEMMA ReadCancelled == ASSUME DriverInv, NEW i \in Reads, Cancel(i) PROVE DriverInv'
<1>1. UNCHANGED <<load, tap, pq, thr, hnd, closing, ses, log>>
  BY DEF Cancel
<1>2. CASE i \notin ToSet(iq) /\ UNCHANGED <<iq, irp>>
  <2>1. DriverTypes'
    BY <1>1, <1>2 DEF DriverInv, DriverTypes
  <2> QED
    BY <1>1, <1>2, <2>1, SameReads, SamePackets, SameOpen, SameMode, SameLife DEF DriverInv
<1>3. ASSUME NEW k \in DOMAIN iq, iq[k] = i, iq' = RemoveAt(iq, k), irp' = Completed(irp, i) PROVE DriverInv'
  <2>1. iq \in Seq(Reads) /\ IsInjective(iq) /\ i \in ToSet(iq)
    BY <1>3 DEF DriverInv, DriverTypes, ReadsOK, ToSet
  <2>2. iq' \in Seq(Reads) /\ Len(iq') = Len(iq) - 1 /\ IsInjective(iq') /\ ToSet(iq') = ToSet(iq) \ {i}
    BY <1>3, <2>1, QueueRemove
  <2>3. /\ ReadsOK' /\ irp' \in [Reads -> ReadStates] /\ Len(iq') <= IRP_QUEUE_SIZE
        /\ tap.life \notin {"flushing", "flushed", "gone"}
    BY <1>1, <1>3, <2>1, <2>2, ReadFlushed
  <2>4. DriverTypes'
    BY <1>1, <2>2, <2>3 DEF DriverInv, DriverTypes
  <2> QED
    BY <1>1, <2>3, <2>4, SamePackets, SameOpen, SameMode, LifeBefore DEF DriverInv
<1> QED
  BY <1>2, <1>3 DEF Cancel

LEMMA IdleIs == IdleThread \in ThrRec /\ IdleThread.pc = "idle"
<1>1. [kind |-> "ip", addr |-> NoAddress] \in [kind : {"ip", "broadcast"}, addr : {NoAddress}]
  OBVIOUS
<1> QED
  BY <1>1 DEF IdleThread, ThrRec, Packets

\* A thread that has no read goes on without one.
LEMMA ThreadMoves ==
    ASSUME DriverInv, NEW t \in Threads, NEW r \in ThrRec, Become(t, r), thr[t].pc # "complete", r.pc # "complete",
           UNCHANGED <<iq, irp>>
    PROVE  ReadsOK' /\ thr' \in [Threads -> ThrRec]
<1>1. thr' \in [Threads -> ThrRec] /\ \A u \in Threads : thr'[u] = IF u = t THEN r ELSE thr[u]
  BY DEF DriverInv, DriverTypes, Become
<1> QED
  BY <1>1 DEF DriverInv, ReadsOK

LEMMA Transmitted == ASSUME DriverInv, NEW t \in Threads, NEW p \in Packets, Transmit(t, p) PROVE DriverInv'
<1>1. /\ thr[t].pc = "idle" /\ tap.opens # 0 /\ Become(t, [IdleThread EXCEPT !.pc = "work", !.pkt = p])
      /\ UNCHANGED <<load, tap, pq, iq, irp, hnd, closing, ses, log>>
  BY DEF Transmit
<1>2. [IdleThread EXCEPT !.pc = "work", !.pkt = p] \in ThrRec /\ [IdleThread EXCEPT !.pc = "work", !.pkt = p].pc = "work"
  BY IdleIs DEF ThrRec
<1>3. ReadsOK' /\ thr' \in [Threads -> ThrRec]
  BY <1>1, <1>2, ThreadMoves
<1>4. tap.life \notin {"flushing", "flushed", "gone"}
  BY <1>1 DEF DriverInv, OpenOK, LifeOK
<1>5. DriverTypes'
  BY <1>1, <1>3 DEF DriverInv, DriverTypes
<1> QED
  BY <1>1, <1>3, <1>4, <1>5, SamePackets, SameOpen, SameMode, LifeBefore DEF DriverInv

\* The virtual DHCP server notes the message; it has room for its reply unless the options are too long.
LEMMA DhcpProcessed ==
    ASSUME DriverInv, NEW msg, NEW ciaddr, tap' = ProcessDHCP(tap, msg, ciaddr),
           ses' = IF hnd # {} THEN ModeOf(ProcessDHCP(tap, msg, ciaddr)) ELSE ses,
           log' = [log EXCEPT !.mute = @ \/ DhcpReply(tap, msg, ciaddr) = "none"], UNCHANGED <<hnd, closing>>
    PROVE  /\ tap' \in TapRec /\ tap'.life = tap.life /\ tap'.halt = tap.halt /\ tap'.opens = tap.opens
           /\ tap'.res = tap.res /\ log' \in LogRec /\ ModeOK'
           /\ log'.n = log.n /\ log'.pkt = log.pkt /\ log'.wrong = log.wrong /\ log'.over = log.over
<1>1. tap \in TapRec /\ log \in LogRec
  BY DEF DriverInv, DriverTypes
<1> DEFINE d == tap.disc \/ msg = "discover"
           b == IF msg = "request" /\ ciaddr # DhcpAddr /\ tap.bad < BAD_DHCPREQUEST_NAK_THRESHOLD
                THEN tap.bad + 1 ELSE tap.bad
<1>2. tap' = [tap EXCEPT !.disc = d, !.bad = b] /\ d \in BOOLEAN /\ b \in Nat
  BY <1>1 DEF ProcessDHCP, TapRec
<1> HIDE DEF d, b
<1>3. /\ tap' \in TapRec /\ tap'.life = tap.life /\ tap'.halt = tap.halt /\ tap'.opens = tap.opens
      /\ tap'.res = tap.res /\ tap'.media = tap.media /\ tap'.always = tap.always /\ tap'.remote = tap.remote
      /\ tap'.server = tap.server /\ tap'.arp = tap.arp /\ tap'.smac = tap.smac
  BY <1>1, <1>2 DEF TapRec
<1> DEFINE m == log.mute \/ DhcpReply(tap, msg, ciaddr) = "none"
<1>4. log' = [log EXCEPT !.mute = m] /\ m \in BOOLEAN
  BY <1>1 DEF LogRec
<1> HIDE DEF m
<1>5. /\ log' \in LogRec /\ log'.n = log.n /\ log'.pkt = log.pkt /\ log'.wrong = log.wrong
      /\ log'.over = log.over /\ log'.mute = m
  BY <1>1, <1>4 DEF LogRec
<1>6. DhcpAnswers'
  <2> SUFFICES ASSUME \A len \in OptionLens : len <= 256 - 22 PROVE ~m
    BY <1>5 DEF DhcpAnswers
  <2>1. tap.optlen \in {0} \cup OptionLens /\ tap.optlen \in Nat
    BY <1>1, TapAssumption DEF TapRec
  <2>2. (ReplySize(tap) > 256) = FALSE
    BY <2>1 DEF ReplySize
  <2>3. DhcpReply(tap, msg, ciaddr) # "none"
    BY <2>2 DEF DhcpReply
  <2> QED
    BY <2>3 DEF m, DriverInv, ModeOK, DhcpAnswers
<1>7. OneResponder'
  BY <1>3 DEF DriverInv, ModeOK, OneResponder
<1>8. hnd' # {} => ModeOf(tap)' = ses'
  BY DEF ModeOf, DefaultMode
<1>9. ModeOK'
  BY <1>3, <1>6, <1>7, <1>8 DEF DriverInv, ModeOK
<1> QED
  BY <1>3, <1>5, <1>9

LEMMA Worked == ASSUME DriverInv, NEW t \in Threads, Work(t) PROVE DriverInv'
<1>1. thr[t].pc = "work" /\ UNCHANGED <<load, pq, iq, irp, hnd, closing>> /\ thr[t] \in ThrRec
  BY DEF Work, DriverInv, DriverTypes
<1>2. tap.life \notin {"flushing", "flushed", "gone"}
  BY <1>1, CallNotFlushed DEF DriverInv
<1>3. CASE Masquerade(thr[t].pkt) /\ Bootp(thr[t].pkt)
  <2> DEFINE msg == thr[t].pkt.kind
             ciaddr == thr[t].pkt.addr
  <2>1. /\ tap' = ProcessDHCP(tap, msg, ciaddr) /\ Become(t, IdleThread)
        /\ ses' = (IF hnd # {} THEN ModeOf(ProcessDHCP(tap, msg, ciaddr)) ELSE ses)
        /\ log' = [log EXCEPT !.mute = @ \/ DhcpReply(tap, msg, ciaddr) = "none"]
    BY <1>3 DEF Work
  <2>2. ReadsOK' /\ thr' \in [Threads -> ThrRec]
    BY <1>1, <2>1, IdleIs, ThreadMoves
  <2>3. /\ tap' \in TapRec /\ tap'.life = tap.life /\ tap'.halt = tap.halt /\ tap'.opens = tap.opens
        /\ tap'.res = tap.res /\ log' \in LogRec /\ ModeOK'
        /\ log'.n = log.n /\ log'.pkt = log.pkt /\ log'.wrong = log.wrong /\ log'.over = log.over
    <3> HIDE DEF msg, ciaddr
    <3> QED
      BY <1>1, <2>1, DhcpProcessed
  <2>4. DriverTypes'
    BY <1>1, <2>2, <2>3 DEF DriverInv, DriverTypes
  <2>5. PacketsOK' /\ OpenOK'
    BY <1>1, <2>3 DEF DriverInv, PacketsOK, OpenOK
  <2>6. LifeOK'
    BY <1>1, <1>2, <2>3 DEF DriverInv, LifeOK
  <2> QED
    BY <2>2, <2>3, <2>4, <2>5, <2>6 DEF DriverInv
<1>4. CASE ~(Masquerade(thr[t].pkt) /\ Bootp(thr[t].pkt))
  <2>1. /\ Become(t, IF Masquerade(thr[t].pkt) \/ (tap.remote # NoAddress /\ thr[t].pkt.kind # "ip")
                     THEN IdleThread ELSE [thr[t] EXCEPT !.pc = "push"])
        /\ UNCHANGED <<tap, ses, log>>
    BY <1>4 DEF Work
  <2>2. [thr[t] EXCEPT !.pc = "push"] \in ThrRec /\ [thr[t] EXCEPT !.pc = "push"].pc = "push"
    BY <1>1 DEF ThrRec
  <2>3. ReadsOK' /\ thr' \in [Threads -> ThrRec]
    BY <1>1, <2>1, <2>2, IdleIs, ThreadMoves
  <2>4. DriverTypes'
    BY <1>1, <2>1, <2>3 DEF DriverInv, DriverTypes
  <2> QED
    BY <1>1, <1>2, <2>1, <2>3, <2>4, SamePackets, SameOpen, SameMode, LifeBefore DEF DriverInv
<1> QED
  BY <1>3, <1>4

LEMMA Pushed == ASSUME DriverInv, NEW t \in Threads, Push(t) PROVE DriverInv'
<1>1. thr[t].pc = "push" /\ UNCHANGED <<load, tap, iq, irp, hnd, closing, ses>> /\ thr[t] \in ThrRec
  BY DEF Push, DriverInv, DriverTypes
<1>2. tap.life \notin {"flushing", "flushed", "gone"}
  BY <1>1, CallNotFlushed DEF DriverInv
<1>3. CASE IS_UP(tap) /\ Len(pq) < PACKET_QUEUE_SIZE
  <2>1. /\ pq' = Append(pq, log.n + 1) /\ log' = [log EXCEPT !.n = @ + 1]
        /\ Become(t, [thr[t] EXCEPT !.pc = "match"])
    BY <1>3 DEF Push
  <2>2. [thr[t] EXCEPT !.pc = "match"] \in ThrRec /\ [thr[t] EXCEPT !.pc = "match"].pc = "match"
    BY <1>1 DEF ThrRec
  <2>3. ReadsOK' /\ thr' \in [Threads -> ThrRec]
    BY <1>1, <2>1, <2>2, ThreadMoves
  <2>4. /\ pq \in Seq(Nat) /\ log \in LogRec /\ log.n \in Nat /\ log.pkt \in Nat /\ Increasing(pq)
        /\ log' \in LogRec /\ log'.n = log.n + 1 /\ log'.pkt = log.pkt /\ log'.wrong = log.wrong
        /\ log'.over = log.over /\ log'.mute = log.mute /\ Range(pq) \subseteq Nat
    <3>1. pq \in Seq(Nat) /\ log \in LogRec /\ log.n \in Nat /\ log.pkt \in Nat /\ Increasing(pq)
      BY DEF DriverInv, DriverTypes, LogRec, PacketsOK
    <3>2. Range(pq) \subseteq Nat
      BY <3>1 DEF Range
    <3>3. log.n + 1 \in Nat /\ log' = [log EXCEPT !.n = log.n + 1]
      BY <2>1, <3>1
    <3> QED
      BY <3>1, <3>2, <3>3 DEF LogRec
  <2>5. Below(Range(pq), {log.n + 1})
    BY <2>4 DEF DriverInv, PacketsOK, Below
  <2>6. /\ Increasing(pq') /\ Range(pq') = Range(pq) \cup {log.n + 1} /\ pq' \in Seq(Nat)
    <3>1. log.n + 1 \in Nat
      BY <2>4
    <3> QED
      BY <2>1, <2>4, <2>5, <3>1, IncreasingAppend
  <2>7. PacketsOK'
    <3>1. ASSUME NEW w \in Range(pq') PROVE log'.pkt < w /\ w <= log'.n
      <4>1. CASE w = log.n + 1
        BY <4>1, <2>4 DEF DriverInv, PacketsOK
      <4>2. CASE w \in Range(pq)
        <5>1. w \in Nat /\ log.pkt < w /\ w <= log.n
          BY <4>2, <2>4 DEF DriverInv, PacketsOK
        <5> QED
          BY <5>1, <2>4
      <4> QED
        BY <4>1, <4>2, <2>6
    <3> QED
      BY <3>1, <2>4, <2>6 DEF DriverInv, PacketsOK
  <2>8. Len(pq') <= PACKET_QUEUE_SIZE
    BY <1>3, <2>1, <2>4, TapAssumption
  <2>9. DriverTypes'
    BY <1>1, <2>3, <2>4, <2>6, <2>8 DEF DriverInv, DriverTypes
  <2> QED
    BY <1>1, <1>2, <2>3, <2>4, <2>7, <2>9, SameOpen, SameMode, LifeBefore DEF DriverInv
<1>4. CASE ~(IS_UP(tap) /\ Len(pq) < PACKET_QUEUE_SIZE)
  <2>1. Become(t, IdleThread) /\ UNCHANGED <<pq, log>>
    BY <1>4 DEF Push
  <2>2. ReadsOK' /\ thr' \in [Threads -> ThrRec]
    BY <1>1, <2>1, IdleIs, ThreadMoves
  <2>3. DriverTypes'
    BY <1>1, <2>1, <2>2 DEF DriverInv, DriverTypes
  <2> QED
    BY <1>1, <1>2, <2>1, <2>2, <2>3, SamePackets, SameOpen, SameMode, LifeBefore DEF DriverInv
<1> QED
  BY <1>3, <1>4

LEMMA Matched == ASSUME DriverInv, NEW t \in Threads, Match(t) PROVE DriverInv'
<1>1. thr[t].pc = "match" /\ UNCHANGED <<load, tap, hnd, closing, ses>> /\ thr[t] \in ThrRec
  BY DEF Match, DriverInv, DriverTypes
<1>2. tap.life \notin {"flushing", "flushed", "gone"}
  BY <1>1, CallNotFlushed DEF DriverInv
<1>3. CASE IS_UP(tap) /\ pq # <<>> /\ iq # <<>>
  <2> DEFINE i == Head(iq)
             r == [thr[t] EXCEPT !.pc = "complete", !.irp = i]
  <2>1. /\ pq' = Tail(pq) /\ iq' = Tail(iq) /\ log' = Pair(log, Head(pq)) /\ irp' = [irp EXCEPT ![i] = "taken"]
        /\ thr' = [thr EXCEPT ![t] = r]
    BY <1>3 DEF Match, Become
  <2>2. iq \in Seq(Reads) /\ IsInjective(iq)
    BY DEF DriverInv, DriverTypes, ReadsOK
  <2>3. /\ iq' \in Seq(Reads) /\ Len(iq') = Len(iq) - 1 /\ IsInjective(iq') /\ ToSet(iq') = ToSet(iq) \ {i}
        /\ i \in ToSet(iq) /\ i \in Reads
    BY <1>3, <2>1, <2>2, QueueTail
  <2>4. /\ PacketsOK' /\ pq' \in Seq(Nat) /\ Len(pq') <= PACKET_QUEUE_SIZE /\ log' \in LogRec
        /\ log'.mute = log.mute
    BY <1>3, <2>1, HandOut DEF DriverInv
  <2> HIDE DEF i
  <2>5. r \in ThrRec /\ r.pc = "complete" /\ r.irp = i
    <3>1. i \in Nat
      BY <2>3, TapAssumption DEF Reads
    <3> QED
      BY <1>1, <3>1 DEF ThrRec
  <2> HIDE DEF r
  <2>6. /\ thr' \in [Threads -> ThrRec] /\ \A u \in Threads : thr'[u] = IF u = t THEN r ELSE thr[u]
    BY <2>1, <2>5 DEF DriverInv, DriverTypes
  <2>7. irp' \in [Reads -> ReadStates] /\ \A j \in Reads : irp'[j] = IF j = i THEN "taken" ELSE irp[j]
    BY <2>1, <2>3 DEF DriverInv, DriverTypes, ReadStates
  <2>8. irp[i] = "queued"
    BY <2>3 DEF DriverInv, ReadsOK
  <2>9. ReadsOK'
    <3>1. \A j \in Reads : irp'[j] = "queued" <=> j \in ToSet(iq')
      BY <2>3, <2>7 DEF DriverInv, ReadsOK
    <3>2. \A u \in Threads : thr'[u].pc = "complete" => thr'[u].irp \in Reads /\ irp'[thr'[u].irp] = "taken"
      BY <2>3, <2>5, <2>6, <2>7 DEF DriverInv, ReadsOK
    <3>3. \A u \in Threads : u # t /\ thr'[u].pc = "complete" => thr'[u].irp # i
      BY <2>6, <2>8 DEF DriverInv, ReadsOK
    <3>4. ASSUME NEW u \in Threads, NEW v \in Threads, thr'[u].pc = "complete", thr'[v].pc = "complete",
                 thr'[u].irp = thr'[v].irp
          PROVE  u = v
      BY <2>5, <2>6, <3>3, <3>4 DEF DriverInv, ReadsOK
    <3>5. ASSUME NEW j \in Reads, irp'[j] = "taken"
          PROVE  \E u \in Threads : thr'[u].pc = "complete" /\ thr'[u].irp = j
      <4>1. CASE j = i
        BY <4>1, <2>5, <2>6
      <4>2. CASE j # i
        <5>1. PICK u \in Threads : thr[u].pc = "complete" /\ thr[u].irp = j
          BY <3>5, <4>2, <2>7 DEF DriverInv, ReadsOK
        <5>2. u # t
          BY <5>1, <1>1
        <5> QED
          BY <5>1, <5>2, <2>6
      <4> QED
        BY <4>1, <4>2
    <3> QED
      BY <2>3, <3>1, <3>2, <3>4, <3>5 DEF ReadsOK
  <2>10. DriverTypes'
    <3>1. Len(iq') <= IRP_QUEUE_SIZE
      BY <2>2, <2>3, TapAssumption DEF DriverInv, DriverTypes
    <3> QED
      BY <1>1, <2>3, <2>4, <2>6, <2>7, <3>1 DEF DriverInv, DriverTypes
  <2> QED
    BY <1>1, <1>2, <2>4, <2>9, <2>10, SameOpen, SameMode, LifeBefore DEF DriverInv
<1>4. CASE ~(IS_UP(tap) /\ pq # <<>> /\ iq # <<>>)
  <2>1. Become(t, IdleThread) /\ UNCHANGED <<pq, iq, irp, log>>
    BY <1>4 DEF Match
  <2>2. ReadsOK' /\ thr' \in [Threads -> ThrRec]
    BY <1>1, <2>1, IdleIs, ThreadMoves
  <2>3. DriverTypes'
    BY <1>1, <2>1, <2>2 DEF DriverInv, DriverTypes
  <2> QED
    BY <1>1, <1>2, <2>1, <2>2, <2>3, SamePackets, SameOpen, SameMode, LifeBefore DEF DriverInv
<1> QED
  BY <1>3, <1>4

LEMMA IrpCompleted == ASSUME DriverInv, NEW t \in Threads, CompleteIRP(t) PROVE DriverInv'
<1> DEFINE i == thr[t].irp
           r == [thr[t] EXCEPT !.pc = "match", !.irp = 0]
<1>1. /\ thr[t].pc = "complete" /\ irp' = Completed(irp, i) /\ thr' = [thr EXCEPT ![t] = r]
      /\ UNCHANGED <<load, tap, pq, iq, hnd, closing, ses, log>> /\ thr[t] \in ThrRec
  BY DEF CompleteIRP, Become, DriverInv, DriverTypes
<1>2. tap.life \notin {"flushing", "flushed", "gone"}
  BY <1>1, CallNotFlushed DEF DriverInv
<1>3. i \in Reads /\ irp[i] = "taken"
  BY <1>1 DEF DriverInv, ReadsOK
<1>4. r \in ThrRec /\ r.pc = "match"
  BY <1>1 DEF ThrRec
<1>a. irp' = [irp EXCEPT ![i] = "done"]
  BY <1>1, <1>3, CompletedIs DEF DriverInv, DriverTypes
<1>5. irp' \in [Reads -> ReadStates] /\ \A j \in Reads : irp'[j] = IF j = i THEN "done" ELSE irp[j]
  BY <1>a, <1>3 DEF DriverInv, DriverTypes, ReadStates
<1> HIDE DEF r
<1>6. /\ thr' \in [Threads -> ThrRec] /\ \A u \in Threads : thr'[u] = IF u = t THEN r ELSE thr[u]
  BY <1>1, <1>4 DEF DriverInv, DriverTypes
<1>7. \A u \in Threads : u # t /\ thr[u].pc = "complete" => thr[u].irp # i
  BY <1>1 DEF DriverInv, ReadsOK
<1> HIDE DEF i
<1>8. ReadsOK'
  <2>1. \A j \in Reads : irp'[j] = "queued" <=> j \in ToSet(iq')
    BY <1>1, <1>3, <1>5 DEF DriverInv, ReadsOK
  <2>2. \A u \in Threads : thr'[u].pc = "complete" => thr'[u].irp \in Reads /\ irp'[thr'[u].irp] = "taken"
    BY <1>4, <1>5, <1>6, <1>7 DEF DriverInv, ReadsOK
  <2>3. \A u, v \in Threads : thr'[u].pc = "complete" /\ thr'[v].pc = "complete" /\ thr'[u].irp = thr'[v].irp => u = v
    BY <1>4, <1>6 DEF DriverInv, ReadsOK
  <2>4. ASSUME NEW j \in Reads, irp'[j] = "taken"
        PROVE  \E u \in Threads : thr'[u].pc = "complete" /\ thr'[u].irp = j
    <3>1. PICK u \in Threads : thr[u].pc = "complete" /\ thr[u].irp = j
      BY <2>4, <1>5 DEF DriverInv, ReadsOK
    <3>2. u # t
      BY <2>4, <3>1, <1>5 DEF i
    <3> QED
      BY <3>1, <3>2, <1>6
  <2> QED
    BY <1>1, <2>1, <2>2, <2>3, <2>4 DEF DriverInv, ReadsOK
<1>9. DriverTypes'
  BY <1>1, <1>5, <1>6 DEF DriverInv, DriverTypes
<1> QED
  BY <1>1, <1>2, <1>8, <1>9, SamePackets, SameOpen, SameMode, LifeBefore DEF DriverInv

\* Resetting an adapter leaves its life, its media status and its opens alone.
LEMMA ResetIs ==
    ASSUME NEW a \in TapRec
    PROVE  LET b == ResetTapAdapterState(a)
           IN  /\ b \in TapRec /\ b.opens = a.opens /\ b.life = a.life /\ b.halt = a.halt /\ b.res = a.res
               /\ b.media = a.media /\ b.always = a.always /\ b.remote = NoAddress /\ b.server = NoAddress
               /\ b.optlen = 0 /\ b.disc = FALSE /\ b.bad = 0
  BY DEF ResetTapAdapterState, TapRec

LEMMA Created == ASSUME DriverInv, NEW h \in Handles, Create(h) PROVE DriverInv'
<1>1. /\ tap.life \in {"up", "halting"} /\ ~tap.halt /\ h \notin hnd /\ closing = "no" /\ tap.opens = 0
      /\ tap' = [ResetTapAdapterState(tap) EXCEPT !.opens = 1] /\ hnd' = hnd \cup {h}
      /\ ses' = DefaultMode /\ log' = [log EXCEPT !.opens = @ + 1] /\ UNCHANGED <<load, pq, iq, irp, thr, closing>>
  BY DEF Create
<1>2. tap \in TapRec /\ log \in LogRec
  BY DEF DriverInv, DriverTypes
<1>3. /\ tap' \in TapRec /\ tap'.opens = 1 /\ tap'.life = tap.life /\ tap'.halt = tap.halt /\ tap'.res = tap.res
      /\ tap'.media = tap.media /\ tap'.always = tap.always /\ tap'.remote = NoAddress /\ tap'.server = NoAddress
      /\ tap'.optlen = 0 /\ tap'.disc = FALSE /\ tap'.bad = 0
  <2>1. 1 \in 0 .. 1
    OBVIOUS
  <2> DEFINE b == ResetTapAdapterState(tap)
  <2>2. /\ b \in TapRec /\ b.life = tap.life /\ b.halt = tap.halt /\ b.res = tap.res
        /\ b.media = tap.media /\ b.always = tap.always /\ b.remote = NoAddress /\ b.server = NoAddress
        /\ b.optlen = 0 /\ b.disc = FALSE /\ b.bad = 0
    BY <1>2, ResetIs
  <2>3. tap' = [b EXCEPT !.opens = 1]
    BY <1>1
  <2> HIDE DEF b
  <2> QED
    BY <2>1, <2>2, <2>3 DEF TapRec
<1>4. /\ log' \in LogRec /\ log'.n = log.n /\ log'.pkt = log.pkt /\ log'.wrong = log.wrong /\ log'.over = log.over
      /\ log'.mute = log.mute
  BY <1>1, <1>2 DEF LogRec
<1>5. hnd = {} /\ hnd' = {h} /\ tap.media = tap.always
  BY <1>1 DEF DriverInv, OpenOK, ModeOK
<1>6. ModeOf(tap)' = ses'
  <2>1. ses' = [media |-> tap.always, remote |-> NoAddress, server |-> NoAddress, optlen |-> 0, disc |-> FALSE, bad |-> 0]
    BY <1>1 DEF DefaultMode
  <2>2. DOMAIN DefaultMode' = {"media", "remote", "server", "optlen", "disc", "bad"}
    BY DEF DefaultMode
  <2>3. ModeOf(tap)' = [f \in {"media", "remote", "server", "optlen", "disc", "bad"} |-> tap'[f]]
    BY <2>2 DEF ModeOf
  <2> QED
    BY <1>3, <1>5, <2>1, <2>3
<1>7. ModeOK'
  BY <1>1, <1>3, <1>4, <1>5, <1>6 DEF DriverInv, ModeOK, OneResponder, DhcpAnswers
<1>8. OpenOK' /\ PacketsOK' /\ ReadsOK'
  BY <1>1, <1>3, <1>4, <1>5, SameReads DEF DriverInv, OpenOK, PacketsOK
<1>9. LifeOK'
  BY <1>1, <1>3 DEF DriverInv, LifeOK
<1>10. DriverTypes'
  BY <1>1, <1>3, <1>4, <1>5 DEF DriverInv, DriverTypes
<1> QED
  BY <1>7, <1>8, <1>9, <1>10 DEF DriverInv

\* An adapter in another mode, in the same stage of its life.
SameStage(a, b) ==
    /\ a.life = b.life /\ a.halt = b.halt /\ a.opens = b.opens /\ a.res = b.res /\ a.always = b.always

LEMMA Reconfigured ==
    ASSUME DriverInv, NEW h \in Handles, Hooked(h), NEW a \in TapRec, Configure(a), SameStage(a, tap),
           a.always => a.media, a.remote # NoAddress /\ a.server = a.remote => ~a.arp /\ a.smac = "peer"
    PROVE  DriverInv'
<1>1. tap' = a /\ ses' = ModeOf(a) /\ UNCHANGED <<load, pq, iq, irp, thr, hnd, closing, log>> /\ h \in hnd
  BY DEF Configure, Hooked
<1>2. ModeOf(tap)' = ses'
  BY <1>1 DEF ModeOf, DefaultMode
<1>3. ModeOK'
  BY <1>1, <1>2 DEF DriverInv, ModeOK, OneResponder, DhcpAnswers
<1>4. OpenOK' /\ PacketsOK' /\ ReadsOK'
  BY <1>1, SameReads, SamePackets DEF DriverInv, OpenOK, SameStage
<1>5. LifeOK'
  BY <1>1 DEF DriverInv, LifeOK, NoCalls, SameStage
<1>6. DriverTypes'
  BY <1>1 DEF DriverInv, DriverTypes
<1> QED
  BY <1>3, <1>4, <1>5, <1>6 DEF DriverInv

\* The two modes agree on who answers for an address.
LEMMA CheckIs ==
    ASSUME NEW a \in TapRec
    PROVE  LET b == CheckIfDhcpAndPointToPointMode(a)
           IN  /\ b \in TapRec /\ SameStage(b, a) /\ b.media = a.media
               /\ b.remote # NoAddress /\ b.server = b.remote => ~b.arp /\ b.smac = "peer"
<1>1. CASE a.remote # NoAddress /\ a.server = a.remote
  <2>1. CheckIfDhcpAndPointToPointMode(a) = [a EXCEPT !.smac = "peer", !.arp = FALSE]
    BY <1>1 DEF CheckIfDhcpAndPointToPointMode
  <2> QED
    BY <2>1 DEF TapRec, SameStage
<1>2. CASE ~(a.remote # NoAddress /\ a.server = a.remote)
  BY <1>2 DEF CheckIfDhcpAndPointToPointMode, SameStage
<1> QED
  BY <1>1, <1>2

LEMMA PointToPointSet ==
    ASSUME DriverInv, NEW h \in Handles, NEW addr \in Addresses, ConfigPointToPoint(h, addr) PROVE DriverInv'
<1> DEFINE a == [tap EXCEPT !.remote = addr]
           b == CheckIfDhcpAndPointToPointMode(a)
<1>1. Hooked(h) /\ Configure(b)
  BY DEF ConfigPointToPoint
<1>2. a \in TapRec /\ SameStage(a, tap) /\ a.media = tap.media
  BY DEF DriverInv, DriverTypes, TapRec, SameStage
<1> HIDE DEF a
<1>3. /\ b \in TapRec /\ SameStage(b, a) /\ b.media = a.media
      /\ b.remote # NoAddress /\ b.server = b.remote => ~b.arp /\ b.smac = "peer"
  BY <1>2, CheckIs
<1> HIDE DEF b
<1>4. SameStage(b, tap) /\ (b.always => b.media)
  BY <1>2, <1>3 DEF SameStage, DriverInv, ModeOK
<1> QED
  BY <1>1, <1>3, <1>4, Reconfigured

LEMMA DhcpMasqSet ==
    ASSUME DriverInv, NEW h \in Handles, NEW addr \in Addresses, ConfigDhcpMasq(h, addr) PROVE DriverInv'
<1> DEFINE a == [tap EXCEPT !.server = addr, !.arp = TRUE, !.optlen = 0, !.smac = "own"]
           b == CheckIfDhcpAndPointToPointMode(a)
<1>1. Hooked(h) /\ Configure(b)
  BY DEF ConfigDhcpMasq
<1>2. a \in TapRec /\ SameStage(a, tap) /\ a.media = tap.media
  BY DEF DriverInv, DriverTypes, TapRec, SameStage
<1> HIDE DEF a
<1>3. /\ b \in TapRec /\ SameStage(b, a) /\ b.media = a.media
      /\ b.remote # NoAddress /\ b.server = b.remote => ~b.arp /\ b.smac = "peer"
  BY <1>2, CheckIs
<1> HIDE DEF b
<1>4. SameStage(b, tap) /\ (b.always => b.media)
  BY <1>2, <1>3 DEF SameStage, DriverInv, ModeOK
<1> QED
  BY <1>1, <1>3, <1>4, Reconfigured

LEMMA DhcpOptionsSet ==
    ASSUME DriverInv, NEW h \in Handles, NEW len \in OptionLens, ConfigDhcpSetOpt(h, len) PROVE DriverInv'
<1> DEFINE a == [tap EXCEPT !.optlen = len]
<1>1. Hooked(h) /\ Configure(a)
  BY DEF ConfigDhcpSetOpt
<1>2. /\ a \in TapRec /\ SameStage(a, tap) /\ a.media = tap.media /\ a.remote = tap.remote
      /\ a.server = tap.server /\ a.arp = tap.arp /\ a.smac = tap.smac
  BY DEF DriverInv, DriverTypes, TapRec, SameStage
<1> HIDE DEF a
<1>3. (a.always => a.media) /\ (a.remote # NoAddress /\ a.server = a.remote => ~a.arp /\ a.smac = "peer")
  BY <1>2 DEF SameStage, DriverInv, ModeOK, OneResponder
<1> QED
  BY <1>1, <1>2, <1>3, Reconfigured

\* The media status follows, unless it is always on.
LEMMA MediaIs ==
    ASSUME DriverInv, NEW st \in BOOLEAN
    PROVE  LET a == SetMediaStatus(tap, st)
           IN  /\ a \in TapRec /\ SameStage(a, tap) /\ a.remote = tap.remote /\ a.server = tap.server
               /\ a.arp = tap.arp /\ a.smac = tap.smac /\ a.media = (st \/ a.always)
<1>1. CASE tap.always
  <2>1. tap.media = TRUE
    BY <1>1 DEF DriverInv, ModeOK, DriverTypes, TapRec
  <2> QED
    BY <1>1, <2>1 DEF SetMediaStatus, SameStage, DriverInv, DriverTypes
<1>2. CASE ~tap.always
  <2>1. SetMediaStatus(tap, st) = [tap EXCEPT !.media = st] /\ tap.always = FALSE
    BY <1>2 DEF SetMediaStatus, DriverInv, DriverTypes, TapRec
  <2> QED
    BY <2>1 DEF SameStage, DriverInv, DriverTypes, TapRec
<1> QED
  BY <1>1, <1>2

LEMMA MediaStatusSet ==
    ASSUME DriverInv, NEW h \in Handles, NEW st \in BOOLEAN, IoctlMediaStatus(h, st) PROVE DriverInv'
<1> DEFINE a == SetMediaStatus(tap, st)
<1>1. Hooked(h) /\ Configure(a)
  BY DEF IoctlMediaStatus
<1>2. /\ a \in TapRec /\ SameStage(a, tap) /\ a.remote = tap.remote /\ a.server = tap.server
      /\ a.arp = tap.arp /\ a.smac = tap.smac /\ a.media = (st \/ a.always)
  BY MediaIs
<1> HIDE DEF a
<1>3. (a.always => a.media) /\ (a.remote # NoAddress /\ a.server = a.remote => ~a.arp /\ a.smac = "peer")
  BY <1>2 DEF DriverInv, ModeOK, OneResponder
<1> QED
  BY <1>1, <1>2, <1>3, Reconfigured

LEMMA HandleClosed == ASSUME DriverInv, NEW h \in Handles, CloseHandle(h) PROVE DriverInv'
<1>1. h \in hnd /\ closing = "no" /\ hnd' = hnd \ {h} /\ UNCHANGED <<load, pq, iq, irp, thr, ses, log>>
  BY DEF CloseHandle
<1>2. hnd' = {} /\ tap \in TapRec
  BY <1>1 DEF DriverInv, OpenOK, DriverTypes
<1>3. CASE tap.halt
  <2>1. UNCHANGED <<tap, closing>>
    BY <1>3 DEF CloseHandle
  <2>2. OpenOK' /\ ModeOK'
    BY <1>1, <1>2, <1>3, <2>1 DEF DriverInv, OpenOK, ModeOK, OneResponder, DhcpAnswers
  <2>3. LifeOK'
    BY <1>1, <1>2, <2>1 DEF DriverInv, LifeOK, NoCalls
  <2>4. DriverTypes'
    BY <1>1, <1>2, <2>1 DEF DriverInv, DriverTypes
  <2> QED
    BY <1>1, <2>2, <2>3, <2>4, SameReads, SamePackets DEF DriverInv
<1>4. CASE ~tap.halt
  <2>1. tap' = ResetTapAdapterState([tap EXCEPT !.opens = 0]) /\ closing' = "irps"
    BY <1>4 DEF CloseHandle
  <2>2. /\ tap' \in TapRec /\ tap'.opens = 0 /\ tap'.life = tap.life /\ tap'.halt = tap.halt /\ tap'.res = tap.res
        /\ tap'.media = tap.media /\ tap'.always = tap.always /\ tap'.remote = NoAddress
    <3>1. 0 \in 0 .. 1
      OBVIOUS
    <3> DEFINE a == [tap EXCEPT !.opens = 0]
    <3>2. /\ a \in TapRec /\ a.opens = 0 /\ a.life = tap.life /\ a.halt = tap.halt /\ a.res = tap.res
          /\ a.media = tap.media /\ a.always = tap.always
      BY <1>2, <3>1 DEF TapRec
    <3>3. tap' = ResetTapAdapterState(a)
      BY <2>1
    <3> HIDE DEF a
    <3> QED
      BY <3>2, <3>3, ResetIs
  <2>3. OpenOK' /\ ModeOK'
    BY <1>1, <1>2, <1>4, <2>1, <2>2 DEF DriverInv, OpenOK, ModeOK, OneResponder, DhcpAnswers
  <2>4. LifeOK'
    BY <1>1, <1>2, <1>4, <2>2 DEF DriverInv, LifeOK
  <2>5. DriverTypes'
    BY <1>1, <1>2, <2>1, <2>2 DEF DriverInv, DriverTypes
  <2> QED
    BY <1>1, <2>3, <2>4, <2>5, SameReads, SamePackets DEF DriverInv
<1> QED
  BY <1>3, <1>4

\* A turn of the first loop of FlushQueues.
LEMMA FlushIrpIs ==
    ASSUME DriverInv, FlushIrp, UNCHANGED <<load, pq, thr, hnd, log>>
    PROVE  /\ ReadsOK' /\ irp' \in [Reads -> ReadStates] /\ iq' \in Seq(Reads) /\ Len(iq') <= IRP_QUEUE_SIZE
           /\ iq # <<>> => tap.life \notin {"flushing", "flushed", "gone"}
           /\ iq = <<>> => UNCHANGED <<iq, irp>>
<1>1. iq \in Seq(Reads) /\ IsInjective(iq) /\ irp \in [Reads -> ReadStates] /\ Len(iq) <= IRP_QUEUE_SIZE
  BY DEF DriverInv, DriverTypes, ReadsOK
<1>2. CASE iq = <<>>
  <2>1. UNCHANGED <<iq, irp>>
    BY <1>2 DEF FlushIrp
  <2> QED
    BY <1>1, <1>2, <2>1, SameReads DEF DriverInv
<1>3. CASE iq # <<>>
  <2>1. iq' = Tail(iq) /\ irp' = Completed(irp, Head(iq))
    BY <1>3 DEF FlushIrp
  <2>2. /\ iq' \in Seq(Reads) /\ Len(iq') = Len(iq) - 1 /\ IsInjective(iq') /\ ToSet(iq') = ToSet(iq) \ {Head(iq)}
        /\ Head(iq) \in ToSet(iq)
    BY <1>1, <1>3, <2>1, QueueTail
  <2> QED
    BY <1>3, <2>1, <2>2, ReadFlushed
<1> QED
  BY <1>2, <1>3

\* A turn of the second loop.
LEMMA FlushPacketIs ==
    ASSUME DriverInv, FlushPacket, UNCHANGED log
    PROVE  PacketsOK' /\ pq' \in Seq(Nat) /\ Len(pq') <= PACKET_QUEUE_SIZE /\ (pq = <<>> => pq' = <<>>)
<1>1. pq \in Seq(Nat) /\ Increasing(pq) /\ Len(pq) <= PACKET_QUEUE_SIZE
  BY DEF DriverInv, DriverTypes, PacketsOK
<1>2. CASE pq = <<>>
  <2>1. UNCHANGED pq
    BY <1>2 DEF FlushPacket
  <2> QED
    BY <1>1, <1>2, <2>1, SamePackets DEF DriverInv
<1>3. CASE pq # <<>>
  <2>1. pq' = Tail(pq)
    BY <1>3 DEF FlushPacket
  <2>2. Range(Tail(pq)) \subseteq Range(pq) /\ Increasing(Tail(pq)) /\ Tail(pq) \in Seq(Nat)
    BY <1>1, <1>3, IncreasingTail
  <2>3. Len(Tail(pq)) <= PACKET_QUEUE_SIZE
    BY <1>1, <1>3, TapAssumption
  <2> QED
    BY <1>3, <2>1, <2>2, <2>3 DEF DriverInv, PacketsOK
<1> QED
  BY <1>2, <1>3

LEMMA CloseFlushed ==
    ASSUME DriverInv, CloseFlushIrps \/ CloseFlushPackets \/ CloseEnd PROVE DriverInv'
<1>1. closing # "no"
  BY DEF CloseFlushIrps, CloseFlushPackets, CloseEnd
<1>2. tap.life \notin {"flushing", "flushed", "gone"} /\ hnd = {}
  BY <1>1, CallNotFlushed DEF DriverInv, OpenOK
<1>3. CASE CloseFlushIrps
  <2>1. FlushIrp /\ closing' \in {"irps", "packets"} /\ UNCHANGED <<load, tap, pq, thr, hnd, ses, log>>
    BY <1>3 DEF CloseFlushIrps
  <2>2. ReadsOK' /\ irp' \in [Reads -> ReadStates] /\ iq' \in Seq(Reads) /\ Len(iq') <= IRP_QUEUE_SIZE
    BY <2>1, FlushIrpIs
  <2>3. DriverTypes'
    BY <2>1, <2>2 DEF DriverInv, DriverTypes
  <2>4. OpenOK' /\ ModeOK'
    BY <1>1, <1>2, <2>1 DEF DriverInv, OpenOK, ModeOK, OneResponder, DhcpAnswers
  <2> QED
    BY <1>2, <2>1, <2>2, <2>3, <2>4, SamePackets, LifeBefore DEF DriverInv
<1>4. CASE CloseFlushPackets
  <2>1. FlushPacket /\ closing' \in {"packets", "media"} /\ UNCHANGED <<load, tap, iq, irp, thr, hnd, ses, log>>
    BY <1>4 DEF CloseFlushPackets
  <2>2. PacketsOK' /\ pq' \in Seq(Nat) /\ Len(pq') <= PACKET_QUEUE_SIZE
    BY <2>1, FlushPacketIs
  <2>3. DriverTypes'
    BY <2>1, <2>2 DEF DriverInv, DriverTypes
  <2>4. OpenOK' /\ ModeOK'
    BY <1>1, <1>2, <2>1 DEF DriverInv, OpenOK, ModeOK, OneResponder, DhcpAnswers
  <2> QED
    BY <1>2, <2>1, <2>2, <2>3, <2>4, SameReads, LifeBefore DEF DriverInv
<1>5. CASE CloseEnd
  <2>1. closing' = "no" /\ tap' = SetMediaStatus(tap, FALSE) /\ UNCHANGED <<load, pq, iq, irp, thr, hnd, ses, log>>
    BY <1>5 DEF CloseEnd
  <2>2. /\ tap' \in TapRec /\ SameStage(tap', tap) /\ tap'.remote = tap.remote /\ tap'.server = tap.server
        /\ tap'.arp = tap.arp /\ tap'.smac = tap.smac /\ tap'.media = (FALSE \/ tap'.always)
    BY <2>1, MediaIs
  <2>3. tap'.media = tap'.always
    BY <2>2 DEF TapRec
  <2>4. OpenOK' /\ ModeOK'
    BY <1>2, <2>1, <2>2, <2>3 DEF DriverInv, OpenOK, ModeOK, OneResponder, DhcpAnswers, SameStage
  <2>5. LifeOK'
    BY <1>2, <2>1, <2>2 DEF DriverInv, LifeOK, SameStage
  <2>6. DriverTypes'
    BY <2>1, <2>2 DEF DriverInv, DriverTypes
  <2> QED
    BY <2>1, <2>4, <2>5, <2>6, SameReads, SamePackets DEF DriverInv
<1> QED
  BY <1>3, <1>4, <1>5

LEMMA PowerSet ==
    ASSUME DriverInv, NEW on \in BOOLEAN, SetPower(on) PROVE DriverInv'
<1>1. tap' = [tap EXCEPT !.iface = on] /\ UNCHANGED <<load, pq, iq, irp, thr, hnd, closing, ses, log>>
  BY DEF SetPower
<1>2. /\ tap' \in TapRec /\ SameStage(tap', tap) /\ tap'.remote = tap.remote /\ tap'.server = tap.server
      /\ tap'.arp = tap.arp /\ tap'.smac = tap.smac /\ tap'.media = tap.media /\ tap'.optlen = tap.optlen
      /\ tap'.disc = tap.disc /\ tap'.bad = tap.bad
  BY <1>1 DEF DriverInv, DriverTypes, TapRec, SameStage
<1>3. ModeOf(tap)' = ModeOf(tap)
  BY <1>2 DEF ModeOf, DefaultMode
<1>4. OpenOK' /\ ModeOK'
  BY <1>1, <1>2, <1>3 DEF DriverInv, OpenOK, ModeOK, OneResponder, DhcpAnswers, SameStage
<1>5. LifeOK'
  BY <1>1, <1>2 DEF DriverInv, LifeOK, SameStage, NoCalls
<1>6. DriverTypes'
  BY <1>1, <1>2 DEF DriverInv, DriverTypes
<1> QED
  BY <1>1, <1>4, <1>5, <1>6, SameReads, SamePackets DEF DriverInv

\* Freeing leaves nothing of what a failed creation had acquired but the adapter's memory.
LEMMA FreedIs ==
    /\ \A r \in Failures : AdapterFreeResources(TapDeviceFreeResources(r)) \subseteq {"adapter"}
    /\ \A r \in SUBSET Resources : AdapterFreeResources(TapDeviceFreeResources(r)) \ {"instance", "adapter"} = {}
<1>1. \A r \in SUBSET Resources : AdapterFreeResources(TapDeviceFreeResources(r)) \subseteq {"instance", "adapter"}
  BY DEF AdapterFreeResources, TapDeviceFreeResources, Resources, TapPart, AdapterPart
<1>2. ASSUME NEW r \in Failures PROVE r \in SUBSET Resources /\ "instance" \notin r
  <2>1. CASE r \in {{}, AdapterPart, AdapterPart \cup {"name"}, AdapterPart \cup {"name", "tapname"},
                    AdapterPart \cup {"name", "tapname", "linkname"}}
    BY <2>1 DEF Resources, TapPart, AdapterPart
  <2>2. CASE \E q \in SUBSET {"packetq", "irpq"} : r = TapPart \cup q
    BY <2>2 DEF Resources, TapPart, AdapterPart
  <2> QED
    BY <2>1, <2>2 DEF Failures
<1>3. \A r \in Failures : "instance" \notin AdapterFreeResources(TapDeviceFreeResources(r))
  BY <1>2 DEF AdapterFreeResources, TapDeviceFreeResources
<1> QED
  BY <1>1, <1>2, <1>3

LEMMA AdapterCreated == ASSUME DriverInv, AdapterCreate PROVE DriverInv'
<1>1. tap.life = "none" /\ UNCHANGED <<load, pq, iq, irp, thr, hnd, closing, ses, log>> /\ hnd = {} /\ tap \in TapRec
      /\ tap.halt = FALSE
  BY DEF AdapterCreate, DriverInv, LifeOK, DriverTypes, TapRec
<1>2. CASE \E always \in BOOLEAN :
             tap' = [tap EXCEPT !.life = "up", !.iface = TRUE, !.run = TRUE, !.always = always, !.media = always,
                                !.res = Resources]
  <2>1. PICK always \in BOOLEAN :
             tap' = [tap EXCEPT !.life = "up", !.iface = TRUE, !.run = TRUE, !.always = always, !.media = always,
                                !.res = Resources]
    BY <1>2
  <2>2. /\ tap' \in TapRec /\ tap'.life = "up" /\ tap'.always = always /\ tap'.media = always /\ tap'.halt = FALSE
        /\ tap'.opens = tap.opens /\ tap'.remote = tap.remote /\ tap'.server = tap.server /\ tap'.arp = tap.arp
        /\ tap'.smac = tap.smac
    BY <1>1, <2>1 DEF TapRec
  <2>3. OpenOK' /\ ModeOK' /\ LifeOK'
    BY <1>1, <2>2 DEF DriverInv, OpenOK, ModeOK, LifeOK, OneResponder, DhcpAnswers
  <2>4. DriverTypes'
    BY <1>1, <2>2 DEF DriverInv, DriverTypes
  <2> QED
    BY <1>1, <2>3, <2>4, SameReads, SamePackets DEF DriverInv
<1>3. CASE \E r \in Failures :
             tap' = [tap EXCEPT !.life = "failed", !.res = AdapterFreeResources(TapDeviceFreeResources(r))]
  <2>1. PICK r \in Failures :
             tap' = [tap EXCEPT !.life = "failed", !.res = AdapterFreeResources(TapDeviceFreeResources(r))]
    BY <1>3
  <2>2. AdapterFreeResources(TapDeviceFreeResources(r)) \subseteq {"adapter"} /\ {"adapter"} \subseteq Resources
    BY <2>1, FreedIs DEF Resources, TapPart, AdapterPart
  <2> DEFINE x == AdapterFreeResources(TapDeviceFreeResources(r))
  <2>3. tap' = [tap EXCEPT !.life = "failed", !.res = x] /\ x \in SUBSET Resources /\ x \subseteq {"adapter"}
    BY <2>1, <2>2
  <2> HIDE DEF x
  <2>4. /\ tap' \in TapRec /\ tap'.life = "failed" /\ tap'.always = tap.always /\ tap'.media = tap.media
        /\ tap'.halt = FALSE /\ tap'.res = x /\ tap'.opens = tap.opens /\ tap'.remote = tap.remote
        /\ tap'.server = tap.server /\ tap'.arp = tap.arp /\ tap'.smac = tap.smac
    BY <1>1, <2>3 DEF TapRec
  <2>5. OpenOK' /\ ModeOK' /\ LifeOK'
    BY <1>1, <2>3, <2>4 DEF DriverInv, OpenOK, ModeOK, LifeOK, OneResponder, DhcpAnswers
  <2>6. DriverTypes'
    BY <1>1, <2>4 DEF DriverInv, DriverTypes
  <2> QED
    BY <1>1, <2>5, <2>6, SameReads, SamePackets DEF DriverInv
<1> QED
  BY <1>2, <1>3 DEF AdapterCreate

LEMMA AdapterHalted == ASSUME DriverInv, AdapterHalt PROVE DriverInv'
<1>1. tap' = Halting(tap) /\ UNCHANGED <<load, pq, iq, irp, thr, hnd, closing, ses, log>> /\ tap \in TapRec
  BY DEF AdapterHalt, DriverInv, DriverTypes
<1>2. /\ tap' \in TapRec /\ tap'.life = "halting" /\ tap'.halt = TRUE /\ tap'.opens = 0 /\ tap'.always = tap.always
      /\ tap'.media = tap.media /\ tap'.remote = tap.remote /\ tap'.server = tap.server /\ tap'.arp = tap.arp
      /\ tap'.smac = tap.smac
  <2>1. tap' = [tap EXCEPT !.life = "halting", !.iface = FALSE, !.run = FALSE, !.opens = 0, !.halt = TRUE]
    BY <1>1 DEF Halting
  <2>2. 0 \in 0 .. 1
    OBVIOUS
  <2> DEFINE a == [tap EXCEPT !.life = "halting", !.iface = FALSE, !.run = FALSE]
  <2>3. /\ a \in TapRec /\ a.life = "halting" /\ a.always = tap.always /\ a.media = tap.media
        /\ a.remote = tap.remote /\ a.server = tap.server /\ a.arp = tap.arp /\ a.smac = tap.smac
    BY <1>1 DEF TapRec
  <2>4. tap' = [a EXCEPT !.opens = 0, !.halt = TRUE]
    BY <1>1, <2>1 DEF TapRec
  <2> HIDE DEF a
  <2> QED
    BY <2>2, <2>3, <2>4 DEF TapRec
<1>3. OpenOK' /\ ModeOK' /\ LifeOK'
  BY <1>1, <1>2 DEF DriverInv, OpenOK, ModeOK, LifeOK, OneResponder, DhcpAnswers
<1>4. DriverTypes'
  BY <1>1, <1>2 DEF DriverInv, DriverTypes
<1> QED
  BY <1>1, <1>3, <1>4, SameReads, SamePackets DEF DriverInv

\* The flush goes on to the next stage of the halt.
LEMMA StageMoves ==
    ASSUME DriverInv, tap.halt, NEW l \in {"halting", "flushing", "flushed", "gone"}, NEW r \in SUBSET Resources,
           tap' = [tap EXCEPT !.life = l, !.res = r], UNCHANGED <<hnd, closing, log>>
    PROVE  /\ tap' \in TapRec /\ OpenOK' /\ ModeOK' /\ tap'.halt = TRUE /\ tap'.life = l /\ tap'.res = r
<1>1. /\ tap' \in TapRec /\ tap'.life = l /\ tap'.res = r /\ tap'.halt = TRUE /\ tap'.opens = tap.opens
      /\ tap'.always = tap.always /\ tap'.media = tap.media /\ tap'.remote = tap.remote /\ tap'.server = tap.server
      /\ tap'.arp = tap.arp /\ tap'.smac = tap.smac
  BY DEF DriverInv, DriverTypes, TapRec
<1> QED
  BY <1>1 DEF DriverInv, OpenOK, ModeOK, OneResponder, DhcpAnswers

LEMMA HaltFlushed == ASSUME DriverInv, HaltFlushIrps \/ HaltFlushPackets \/ HaltFree PROVE DriverInv'
<1>1. tap \in TapRec /\ tap.res \in SUBSET Resources
  BY DEF DriverInv, DriverTypes, TapRec
<1>2. tap = [tap EXCEPT !.life = tap.life, !.res = tap.res]
  BY <1>1 DEF TapRec
<1>3. CASE HaltFlushIrps
  <2>1. /\ tap.life = "halting" /\ NoCalls /\ FlushIrp /\ UNCHANGED <<load, pq, thr, hnd, closing, ses, log>>
        /\ tap' = IF iq = <<>> THEN [tap EXCEPT !.life = "flushing"] ELSE tap
    BY <1>3 DEF HaltFlushIrps
  <2>2. /\ ReadsOK' /\ irp' \in [Reads -> ReadStates] /\ iq' \in Seq(Reads) /\ Len(iq') <= IRP_QUEUE_SIZE
        /\ iq = <<>> => UNCHANGED <<iq, irp>>
    BY <2>1, FlushIrpIs
  <2>3. tap.halt
    BY <2>1 DEF DriverInv, LifeOK
  <2> DEFINE l == IF iq = <<>> THEN "flushing" ELSE "halting"
  <2>4. tap' = [tap EXCEPT !.life = l, !.res = tap.res]
    BY <1>1, <2>1 DEF TapRec
  <2>5. l \in {"halting", "flushing", "flushed", "gone"}
    OBVIOUS
  <2>6. /\ tap' \in TapRec /\ OpenOK' /\ ModeOK' /\ tap'.halt = TRUE /\ tap'.life = l /\ tap'.res = tap.res
    <3> HIDE DEF l
    <3> QED
      BY <1>1, <2>1, <2>3, <2>4, <2>5, StageMoves
  <2>7. LifeOK'
    BY <2>1, <2>2, <2>6 DEF LifeOK, NoCalls
  <2>8. DriverTypes'
    BY <2>1, <2>2, <2>6 DEF DriverInv, DriverTypes
  <2> QED
    BY <2>1, <2>2, <2>6, <2>7, <2>8, SamePackets DEF DriverInv
<1>4. CASE HaltFlushPackets
  <2>1. /\ tap.life = "flushing" /\ FlushPacket /\ UNCHANGED <<load, iq, irp, thr, hnd, closing, ses, log>>
        /\ tap' = IF pq = <<>> THEN [tap EXCEPT !.life = "flushed"] ELSE tap
    BY <1>4 DEF HaltFlushPackets
  <2>2. PacketsOK' /\ pq' \in Seq(Nat) /\ Len(pq') <= PACKET_QUEUE_SIZE /\ (pq = <<>> => pq' = <<>>)
    BY <2>1, FlushPacketIs
  <2>3. tap.halt /\ NoCalls /\ iq = <<>>
    BY <2>1 DEF DriverInv, LifeOK
  <2> DEFINE l == IF pq = <<>> THEN "flushed" ELSE "flushing"
  <2>4. tap' = [tap EXCEPT !.life = l, !.res = tap.res]
    BY <1>1, <2>1 DEF TapRec
  <2>5. l \in {"halting", "flushing", "flushed", "gone"}
    OBVIOUS
  <2>6. /\ tap' \in TapRec /\ OpenOK' /\ ModeOK' /\ tap'.halt = TRUE /\ tap'.life = l /\ tap'.res = tap.res
    <3> HIDE DEF l
    <3> QED
      BY <1>1, <2>1, <2>3, <2>4, <2>5, StageMoves
  <2>7. LifeOK'
    BY <2>1, <2>2, <2>3, <2>6 DEF LifeOK, NoCalls
  <2>8. DriverTypes'
    BY <2>1, <2>2, <2>6 DEF DriverInv, DriverTypes
  <2> QED
    BY <2>1, <2>2, <2>6, <2>7, <2>8, SameReads DEF DriverInv
<1>5. CASE HaltFree
  <2> DEFINE r == AdapterFreeResources(TapDeviceFreeResources(tap.res)) \ {"instance", "adapter"}
  <2>1. /\ tap.life = "flushed" /\ UNCHANGED <<load, pq, iq, irp, thr, hnd, closing, ses, log>>
        /\ tap' = [tap EXCEPT !.life = "gone", !.res = r]
    BY <1>5 DEF HaltFree
  <2>2. r = {} /\ r \in SUBSET Resources
    BY <1>1, FreedIs
  <2>3. tap.halt /\ NoCalls /\ iq = <<>> /\ pq = <<>>
    BY <2>1 DEF DriverInv, LifeOK
  <2> HIDE DEF r
  <2>4. /\ tap' \in TapRec /\ OpenOK' /\ ModeOK' /\ tap'.halt = TRUE /\ tap'.life = "gone" /\ tap'.res = r
    BY <2>1, <2>2, <2>3, StageMoves
  <2>5. LifeOK'
    BY <2>1, <2>2, <2>3, <2>4 DEF LifeOK, NoCalls
  <2>6. DriverTypes'
    BY <2>1, <2>4 DEF DriverInv, DriverTypes
  <2> QED
    BY <2>1, <2>4, <2>5, <2>6, SameReads, SamePackets DEF DriverInv
<1> QED
  BY <1>3, <1>4, <1>5

LEMMA DriverStarts == TapInit => DriverInv
<1> SUFFICES ASSUME TapInit PROVE DriverInv
  OBVIOUS
<1>1. /\ load \in Loads /\ tap = TapStart /\ pq = <<>> /\ iq = <<>> /\ irp = [i \in Reads |-> "none"]
      /\ thr = [t \in Threads |-> IdleThread] /\ hnd = {} /\ closing = "no"
      /\ log = [opens |-> 0, n |-> 0, pkt |-> 0, wrong |-> FALSE, over |-> FALSE, mute |-> FALSE]
  BY DEF TapInit
<1>2. tap \in TapRec /\ log \in LogRec
  BY <1>1 DEF TapStart, TapRec, LogRec
<1>3. DriverTypes
  BY <1>1, <1>2, IdleIs, TapAssumption DEF DriverTypes, ReadStates
<1>4. ReadsOK
  BY <1>1, IdleIs DEF ReadsOK, IsInjective, ToSet
<1>5. PacketsOK
  BY <1>1 DEF PacketsOK, Increasing, Range
<1>6. OpenOK /\ ModeOK /\ LifeOK
  BY <1>1 DEF OpenOK, ModeOK, LifeOK, TapStart, OneResponder, DhcpAnswers
<1> QED
  BY <1>3, <1>4, <1>5, <1>6 DEF DriverInv

LEMMA DriverSteps == DriverInv /\ [TapNext]_tapVars => DriverInv'
<1> SUFFICES ASSUME DriverInv, [TapNext]_tapVars PROVE DriverInv'
  OBVIOUS
<1>1. /\ load.threads \subseteq Threads /\ load.handles \subseteq Handles /\ load.addrs \subseteq Addresses
      /\ load.power \subseteq BOOLEAN
  BY TapAssumption DEF DriverInv, DriverTypes
<1>2. CASE AdapterCreate \/ AdapterHalt \/ HaltFlushIrps \/ HaltFlushPackets \/ HaltFree
  BY <1>2, AdapterCreated, AdapterHalted, HaltFlushed
<1>3. CASE \E on \in load.power : SetPower(on)
  BY <1>1, <1>3, PowerSet
<1>4. CASE \E t \in load.threads : Work(t) \/ Push(t) \/ Match(t) \/ CompleteIRP(t)
  BY <1>1, <1>4, Worked, Pushed, Matched, IrpCompleted
<1>5. CASE \E t \in load.threads : \E p \in Packets : p.kind \in load.kinds /\ Transmit(t, p)
  BY <1>1, <1>5, Transmitted
<1>6. CASE \E i \in Reads : ReadTry(i) \/ ReadPend(i) \/ Cancel(i)
  BY <1>6, ReadTried, ReadPended, ReadCancelled
<1>7. CASE \E h \in load.handles : Create(h) \/ CloseHandle(h) \/ Read(h)
  BY <1>1, <1>7, Created, HandleClosed, ReadIssued
<1>8. CASE \E h \in load.handles : \E a \in load.addrs : ConfigPointToPoint(h, a) \/ ConfigDhcpMasq(h, a)
  BY <1>1, <1>8, PointToPointSet, DhcpMasqSet
<1>9. CASE \E h \in load.handles : \E len \in OptionLens : ConfigDhcpSetOpt(h, len)
  BY <1>1, <1>9, DhcpOptionsSet
<1>10. CASE \E h \in load.handles : \E b \in BOOLEAN : IoctlMediaStatus(h, b)
  BY <1>1, <1>10, MediaStatusSet
<1>11. CASE CloseFlushIrps \/ CloseFlushPackets \/ CloseEnd
  BY <1>11, CloseFlushed
<1>12. CASE UNCHANGED tapVars
  <2>1. UNCHANGED <<load, tap, pq, iq, irp, thr, hnd, closing, ses, log>>
    BY <1>12 DEF tapVars
  <2>2. DriverTypes'
    BY <2>1 DEF DriverInv, DriverTypes
  <2> QED
    BY <2>1, <2>2, SameReads, SamePackets, SameOpen, SameMode, SameLife DEF DriverInv
<1> QED
  BY <1>2, <1>3, <1>4, <1>5, <1>6, <1>7, <1>8, <1>9, <1>10, <1>11, <1>12 DEF TapNext

LEMMA DriverImplies == DriverInv => TapInv
<1> SUFFICES ASSUME DriverInv PROVE TapInv
  OBVIOUS
<1>1. TapTypeOK
  BY DEF DriverInv, DriverTypes, TapTypeOK, TapRec, ThrRec, ReadStates
<1>2. CompletedOnce
  <2>1. iq \in Seq(Reads) /\ irp \in [Reads -> ReadStates]
    BY DEF DriverInv, DriverTypes
  <2>2. ToSet(iq) \subseteq Reads /\ \A i \in Reads : irp[i] # "twice"
    BY <2>1 DEF ToSet, ReadStates
  <2> QED
    BY <2>2 DEF DriverInv, ReadsOK, CompletedOnce
<1>3. Exclusive /\ SessionIntact /\ ServedInOrder /\ OneResponder /\ DhcpAnswers
  BY DEF DriverInv, OpenOK, ModeOK, PacketsOK, Exclusive, SessionIntact, ServedInOrder
<1>4. AdapterFreed
  <2>1. ASSUME tap.life = "gone", NEW i \in Reads PROVE irp[i] \in {"none", "done"}
    <3>1. NoCalls /\ iq = <<>>
      BY <2>1 DEF DriverInv, LifeOK
    <3>2. irp[i] \in ReadStates \ {"try", "pend"}
      BY <3>1 DEF NoCalls, DriverInv, DriverTypes
    <3>3. irp[i] # "queued"
      BY <3>1 DEF DriverInv, ReadsOK, ToSet
    <3>4. irp[i] # "taken"
      BY <3>1 DEF DriverInv, ReadsOK, NoCalls
    <3> QED
      BY <3>2, <3>3, <3>4 DEF ReadStates
  <2> QED
    BY <2>1 DEF DriverInv, LifeOK, AdapterFreed
<1> QED
  BY <1>1, <1>2, <1>3, <1>4 DEF TapInv

\* For any number of transmitting threads, processes and reads, any lengths of the queues and
\* of the DHCP options: a read is completed once, whether by a packet, its cancellation, a close
\* or a halt; packets are handed out in order; a session has its own mode and no other process;
\* and a halt leaves no read, packet or resource (AdapterTransmit, TapDeviceHook, CancelIRP,
\* FlushQueues, DestroyTapDevice in tapdrvr.c).
THEOREM TapCorrect == TapSpec => []TapInv
<1>1. TapInit => DriverInv
  BY DriverStarts
<1>2. DriverInv /\ [TapNext]_tapVars => DriverInv'
  BY DriverSteps
<1>3. DriverInv => TapInv
  BY DriverImplies
<1> QED
  BY <1>1, <1>2, <1>3, PTL DEF TapSpec
=============================================================================
