------------------------------ MODULE TapDriver ------------------------------
(* The TAP-Win32 driver, tap-win32/: a virtual network adapter whose sent    *)
(* packets are read, and whose received packets are written, by a process    *)
(* that opened the device.                                                   *)
(*                                                                           *)
(* AdapterTransmit runs in several threads of the network stack at once      *)
(* (Threads), TapDeviceHook in those of the processes, the cancel routine in *)
(* whichever thread cancels a read, AdapterHalt in its own.  A step is what  *)
(* a thread does while it holds m_QueueLock, or from one such section to the *)
(* next.  A read request (IRP) is numbered by when it was issued.            *)
EXTENDS Integers, Sequences, SequencesExt

CONSTANTS
  Threads, Handles,                  \* threads that transmit; processes that open the device
  Loads,                             \* [threads, handles, kinds, addrs, power, reads]: what the environment of the driver does
  PACKET_QUEUE_SIZE, IRP_QUEUE_SIZE,
  BAD_DHCPREQUEST_NAK_THRESHOLD,
  OptionLens,                        \* lengths of the DHCP options that a process supplies
  Addresses, DhcpAddr,               \* IP addresses of endpoints; m_dhcp_addr, the address that the masquerade gives out
  MaxPackets, MaxReads, MaxOpens     \* bounds: packets queued, reads issued, opens

ASSUME TapAssumption ==
  /\ \A l \in Loads : /\ l.threads \subseteq Threads /\ l.handles \subseteq Handles /\ l.addrs \subseteq Addresses
                       /\ l.power \subseteq BOOLEAN /\ l.reads \subseteq 1 .. MaxReads
  /\ {PACKET_QUEUE_SIZE, IRP_QUEUE_SIZE, BAD_DHCPREQUEST_NAK_THRESHOLD} \subseteq Nat \ {0}
  /\ {MaxPackets, MaxReads, MaxOpens} \subseteq Nat /\ Addresses \subseteq Nat \ {0}
  /\ OptionLens \subseteq 0 .. 256

VARIABLES
  load,       \* the one of Loads that this behaviour has
  tap,        \* struct TapAdapter and its extension
  pq, iq,     \* m_PacketQueue: packets, numbered as they were queued; m_IrpQueue: reads
  irp,        \* the state of each read
  thr,        \* the transmitting threads
  hnd,        \* handles on the device
  closing,    \* progress of an IRP_MJ_CLOSE, which holds m_OpenCloseMutex
  ses,        \* history: what the process that has the device open configured and saw
  log         \* history: opens, packets, last pair served, what went wrong

tapVars == <<load, tap, pq, iq, irp, thr, hnd, closing, ses, log>>
Reads == 1 .. MaxReads
NoAddress == 0

IS_UP(a) == a.iface /\ a.run

----------------------------------------------------------------------------
(* Modes of the adapter.                                                     *)

\* What an open device can be configured to, and what it then sees.
DefaultMode == [media |-> tap.always, remote |-> NoAddress, server |-> NoAddress, optlen |-> 0, disc |-> FALSE, bad |-> 0]
ModeOf(a) == [f \in DOMAIN DefaultMode |-> a[f]]

ResetTapAdapterState(a) ==
  [a EXCEPT !.remote = NoAddress, !.server = NoAddress, !.arp = FALSE, !.smac = "none", !.optlen = 0, !.disc = FALSE,
            !.bad = 0]

\* mutant: the flag is kept although the two addresses are one
CheckMode_Keep(a) == a
CheckIfDhcpAndPointToPointMode(a) ==
  IF a.remote # NoAddress /\ a.server = a.remote THEN [a EXCEPT !.smac = "peer", !.arp = FALSE] ELSE a

SetMediaStatus(a, state) == IF a.always THEN a ELSE [a EXCEPT !.media = state]

\* SendDHCPMsg: type 3, server id 6, lease 6, netmask 6, the supplied options, end 1, in a buffer of 256.
ReplySize(a) == 3 + 6 + 6 + 6 + a.optlen + 1

\* ProcessDHCP: the reply to a DHCPDISCOVER, or to a DHCPREQUEST with a client address.
ProcessDHCP(a, msg, ciaddr) ==
  [a EXCEPT !.disc = @ \/ msg = "discover",
            !.bad = IF msg = "request" /\ ciaddr # DhcpAddr /\ @ < BAD_DHCPREQUEST_NAK_THRESHOLD THEN @ + 1 ELSE @]
DhcpReply(a, msg, ciaddr) ==
  IF msg = "request" /\ (ciaddr \notin {NoAddress, DhcpAddr} \/ ~a.disc \/ a.bad >= BAD_DHCPREQUEST_NAK_THRESHOLD)
  THEN "nak"
  ELSE IF ReplySize(a) > 256 THEN "none" ELSE IF msg = "discover" THEN "offer" ELSE "ack"

----------------------------------------------------------------------------
(* Reads.                                                                    *)

\* IoCompleteRequest
Completed(f, i) == [f EXCEPT ![i] = IF @ \in {"done", "none"} THEN "twice" ELSE "done"]

\* A read is paired with a packet: both in the order in which they came.
Pair(l, p) == [l EXCEPT !.pkt = p, !.wrong = @ \/ p <= l.pkt]

\* Nothing is in TapDeviceHook or AdapterTransmit.  The driver sleeps half a second and takes it for granted.
NoCalls ==
  /\ closing = "no" /\ \A i \in Reads : irp[i] \notin {"try", "pend"}
  /\ \A t \in Threads : thr[t].pc = "idle"

Hooked(h) == h \in hnd /\ ~tap.halt

\* IRP_MJ_READ up to the first section: it ends with an error if the device is halted, or its buffer cannot be mapped,
\* or the interface is down.
Read(h) ==
  /\ h \in hnd
  /\ \E i \in load.reads, st \in {"done"} \cup (IF Hooked(h) /\ tap.iface THEN {"try"} ELSE {}) :
       /\ irp[i] = "none" /\ \A j \in Reads : j < i => irp[j] # "none"
       /\ irp' = [irp EXCEPT ![i] = st]
  /\ UNCHANGED <<load, tap, pq, iq, thr, hnd, closing, ses, log>>

\* mutant: a read is served although others wait
Immediate_Overtake == IS_UP(tap) /\ pq # <<>>
Immediate == IS_UP(tap) /\ pq # <<>> /\ iq = <<>>

ReadTry(i) ==
  /\ irp[i] = "try"
  /\ IF Immediate
     THEN irp' = Completed(irp, i) /\ pq' = Tail(pq) /\ log' = [Pair(log, Head(pq)) EXCEPT !.over = @ \/ iq # <<>>]
     ELSE irp' = [irp EXCEPT ![i] = "pend"] /\ UNCHANGED <<pq, log>>
  /\ UNCHANGED <<load, tap, iq, thr, hnd, closing, ses>>

\* mutant: the size of the queue is not checked
ReadPend_Full(i) ==
  /\ irp[i] = "pend"
  /\ IF IS_UP(tap)
     THEN iq' = Append(iq, i) /\ irp' = [irp EXCEPT ![i] = "queued"]
     ELSE irp' = Completed(irp, i) /\ UNCHANGED iq
  /\ UNCHANGED <<load, tap, pq, thr, hnd, closing, ses, log>>
ReadPend(i) ==
  /\ irp[i] = "pend"
  /\ IF IS_UP(tap) /\ Len(iq) < IRP_QUEUE_SIZE
     THEN iq' = Append(iq, i) /\ irp' = [irp EXCEPT ![i] = "queued"]
     ELSE irp' = Completed(irp, i) /\ UNCHANGED iq
  /\ UNCHANGED <<load, tap, pq, thr, hnd, closing, ses, log>>

\* mutant: the cancel routine completes a read that was taken from the queue
Cancel_Taken(i) ==
  /\ irp[i] \in {"queued", "taken"}
  /\ iq' = SelectSeq(iq, LAMBDA j : j # i) /\ irp' = Completed(irp, i)
  /\ UNCHANGED <<load, tap, pq, thr, hnd, closing, ses, log>>
\* CancelIRPCallback: the cancel routine is set until CompleteIRP clears it; it completes what is still in the queue.
\* QueueExtract takes out every place of the read, and there is no more than one (CompletedOnce).
Cancel(i) ==
  /\ irp[i] \in {"queued", "taken"}
  /\ \/ \E k \in DOMAIN iq : iq[k] = i /\ iq' = RemoveAt(iq, k) /\ irp' = Completed(irp, i)
     \/ i \notin ToSet(iq) /\ UNCHANGED <<iq, irp>>
  /\ UNCHANGED <<load, tap, pq, thr, hnd, closing, ses, log>>

----------------------------------------------------------------------------
(* AdapterTransmit.                                                          *)

Packets == [kind : {"ip", "broadcast"}, addr : {NoAddress}] \cup [kind : {"arp"}, addr : Addresses]
           \cup [kind : {"discover"}, addr : {NoAddress}] \cup [kind : {"request"}, addr : {NoAddress, DhcpAddr} \cup Addresses]
IdleThread == [pc |-> "idle", pkt |-> [kind |-> "ip", addr |-> NoAddress], irp |-> 0]

Become(t, r) == thr' = [thr EXCEPT ![t] = r]

Transmit(t, p) ==
  /\ tap.life \in {"up", "halting"} /\ thr[t].pc = "idle"
  /\ tap.opens # 0 /\ tap.media
  /\ Become(t, [IdleThread EXCEPT !.pc = "work", !.pkt = p])
  /\ UNCHANGED <<load, tap, pq, iq, irp, hnd, closing, ses, log>>

Bootp(p) == p.kind \in {"discover", "request"}
Masquerade(p) == tap.server # NoAddress /\ (Bootp(p) \/ (p.kind = "arp" /\ tap.arp /\ p.addr = tap.server))

\* The packet is for the virtual DHCP server, or is of no use in point-to-point mode, or is to be queued.
Work(t) ==
  /\ thr[t].pc = "work"
  /\ IF Masquerade(thr[t].pkt) /\ Bootp(thr[t].pkt)
     THEN /\ tap' = ProcessDHCP(tap, thr[t].pkt.kind, thr[t].pkt.addr)
          /\ ses' = IF hnd # {} THEN ModeOf(ProcessDHCP(tap, thr[t].pkt.kind, thr[t].pkt.addr)) ELSE ses
          /\ log' = [log EXCEPT !.mute = @ \/ DhcpReply(tap, thr[t].pkt.kind, thr[t].pkt.addr) = "none"]
          /\ Become(t, IdleThread)
     ELSE /\ Become(t, IF Masquerade(thr[t].pkt) \/ (tap.remote # NoAddress /\ thr[t].pkt.kind # "ip")
                       THEN IdleThread ELSE [thr[t] EXCEPT !.pc = "push"])
          /\ UNCHANGED <<tap, ses, log>>
  /\ UNCHANGED <<load, pq, iq, irp, hnd, closing>>

Push(t) ==
  /\ thr[t].pc = "push" /\ log.n < MaxPackets
  /\ IF IS_UP(tap) /\ Len(pq) < PACKET_QUEUE_SIZE
     THEN /\ pq' = Append(pq, log.n + 1)
          /\ log' = [log EXCEPT !.n = @ + 1]
          /\ Become(t, [thr[t] EXCEPT !.pc = "match"])
     ELSE Become(t, IdleThread) /\ UNCHANGED <<pq, log>>
  /\ UNCHANGED <<load, tap, iq, irp, hnd, closing, ses>>

Match(t) ==
  /\ thr[t].pc = "match"
  /\ IF IS_UP(tap) /\ pq # <<>> /\ iq # <<>>
     THEN /\ pq' = Tail(pq) /\ iq' = Tail(iq) /\ log' = Pair(log, Head(pq))
          /\ irp' = [irp EXCEPT ![Head(iq)] = "taken"]
          /\ Become(t, [thr[t] EXCEPT !.pc = "complete", !.irp = Head(iq)])
     ELSE Become(t, IdleThread) /\ UNCHANGED <<pq, iq, irp, log>>
  /\ UNCHANGED <<load, tap, hnd, closing, ses>>

CompleteIRP(t) ==
  /\ thr[t].pc = "complete"
  /\ irp' = Completed(irp, thr[t].irp)
  /\ Become(t, [thr[t] EXCEPT !.pc = "match", !.irp = 0])
  /\ UNCHANGED <<load, tap, pq, iq, hnd, closing, ses, log>>

----------------------------------------------------------------------------
(* Opening, configuring and closing the device.                              *)

\* mutant: an open does not wait for the mutex
Create_Unlocked(h) ==
  /\ tap.life \in {"up", "halting"} /\ ~tap.halt /\ h \notin hnd /\ log.opens < MaxOpens
  /\ tap.run /\ tap.opens = 0
  /\ tap' = [ResetTapAdapterState(tap) EXCEPT !.opens = 1]
  /\ hnd' = hnd \cup {h} /\ ses' = DefaultMode /\ log' = [log EXCEPT !.opens = @ + 1]
  /\ UNCHANGED <<load, pq, iq, irp, thr, closing>>
\* mutant: a second process may open the device
Create_Shared(h) ==
  /\ tap.life \in {"up", "halting"} /\ ~tap.halt /\ h \notin hnd /\ log.opens < MaxOpens
  /\ closing = "no" /\ tap.run
  /\ tap' = [ResetTapAdapterState(tap) EXCEPT !.opens = 1]
  /\ hnd' = hnd \cup {h} /\ ses' = DefaultMode /\ log' = [log EXCEPT !.opens = @ + 1]
  /\ UNCHANGED <<load, pq, iq, irp, thr, closing>>
\* IRP_MJ_CREATE; a thread below DISPATCH_LEVEL waits for the mutex.  A refused open changes nothing.
Create(h) ==
  /\ tap.life \in {"up", "halting"} /\ ~tap.halt /\ h \notin hnd /\ log.opens < MaxOpens
  /\ closing = "no" /\ tap.run /\ tap.opens = 0
  /\ tap' = [ResetTapAdapterState(tap) EXCEPT !.opens = 1]
  /\ hnd' = hnd \cup {h} /\ ses' = DefaultMode /\ log' = [log EXCEPT !.opens = @ + 1]
  /\ UNCHANGED <<load, pq, iq, irp, thr, closing>>

Configure(a) == tap' = a /\ ses' = ModeOf(a) /\ UNCHANGED <<load, pq, iq, irp, thr, hnd, closing, log>>

ConfigPointToPoint(h, addr) ==
  Hooked(h) /\ Configure(CheckIfDhcpAndPointToPointMode([tap EXCEPT !.remote = addr]))
ConfigDhcpMasq(h, addr) ==
  Hooked(h) /\ Configure(CheckIfDhcpAndPointToPointMode(
                           [tap EXCEPT !.server = addr, !.arp = TRUE, !.optlen = 0, !.smac = "own"]))
ConfigDhcpSetOpt(h, len) == Hooked(h) /\ tap.server # NoAddress /\ Configure([tap EXCEPT !.optlen = len])
IoctlMediaStatus(h, state) == Hooked(h) /\ Configure(SetMediaStatus(tap, state))

\* IRP_MJ_CLOSE, sent when the reads of the handle are completed: with a halted device only the handle goes.
CloseHandle(h) ==
  /\ h \in hnd /\ closing = "no" /\ \A i \in Reads : irp[i] \in {"none", "done"}
  /\ hnd' = hnd \ {h}
  /\ IF tap.halt THEN UNCHANGED <<tap, closing>>
     ELSE tap' = ResetTapAdapterState([tap EXCEPT !.opens = 0]) /\ closing' = "irps"
  /\ UNCHANGED <<load, pq, iq, irp, thr, ses, log>>

\* FlushQueues: two loops that take one read, or one packet, at a time until there is none
FlushIrp == IF iq = <<>> THEN UNCHANGED <<iq, irp>> ELSE iq' = Tail(iq) /\ irp' = Completed(irp, Head(iq))
FlushPacket == pq' = IF pq = <<>> THEN pq ELSE Tail(pq)
CloseFlushIrps ==
  /\ closing = "irps" /\ FlushIrp /\ closing' = IF iq = <<>> THEN "packets" ELSE closing
  /\ UNCHANGED <<load, tap, pq, thr, hnd, ses, log>>
CloseFlushPackets ==
  /\ closing = "packets" /\ FlushPacket /\ closing' = IF pq = <<>> THEN "media" ELSE closing
  /\ UNCHANGED <<load, tap, iq, irp, thr, hnd, ses, log>>
CloseEnd ==
  /\ closing = "media" /\ closing' = "no" /\ tap' = SetMediaStatus(tap, FALSE)
  /\ UNCHANGED <<load, pq, iq, irp, thr, hnd, ses, log>>

----------------------------------------------------------------------------
(* The adapter.                                                              *)

\* AdapterModify with OID_PNP_SET_POWER
SetPower(on) ==
  /\ tap.life = "up" /\ tap' = [tap EXCEPT !.iface = on]
  /\ UNCHANGED <<load, pq, iq, irp, thr, hnd, closing, ses, log>>

\* What has been acquired where the creation can fail: before the adapter, at its name, at the table or the name of the
\* device, at its link, at its registration, at the queues (both are tried), at the list of instances.
AdapterPart == {"adapter", "mclock", "shutdown"}
TapPart == AdapterPart \cup {"name", "tapname", "linkname", "device", "spinlock"}
Failures ==
  {{}, AdapterPart, AdapterPart \cup {"name"}, AdapterPart \cup {"name", "tapname"},
   AdapterPart \cup {"name", "tapname", "linkname"}} \cup {TapPart \cup q : q \in SUBSET {"packetq", "irpq"}}
Resources == TapPart \cup {"packetq", "irpq", "instance"}
\* mutant: the queues are not freed
TapDeviceFreeResources_Queues(r) == r \ {"linkname", "device", "tapname", "spinlock"}
TapDeviceFreeResources(r) == r \ {"packetq", "irpq", "linkname", "device", "tapname", "spinlock"}
AdapterFreeResources(r) == r \ {"name", "shutdown", "mclock"}

\* AdapterCreate and CreateTapDevice: success, or a failure that undoes what was done.
AdapterCreate ==
  /\ tap.life = "none"
  /\ \/ \E always \in BOOLEAN :
          tap' = [tap EXCEPT !.life = "up", !.iface = TRUE, !.run = TRUE, !.always = always, !.media = always,
                             !.res = Resources]
     \/ \E r \in Failures :
          tap' = [tap EXCEPT !.life = "failed", !.res = AdapterFreeResources(TapDeviceFreeResources(r))]
  /\ UNCHANGED <<load, pq, iq, irp, thr, hnd, closing, ses, log>>

Halting(a) == [a EXCEPT !.life = "halting", !.iface = FALSE, !.run = FALSE, !.opens = 0, !.halt = TRUE]

\* AdapterHalt and DestroyTapDevice
AdapterHalt == tap.life = "up" /\ tap' = Halting(tap) /\ UNCHANGED <<load, pq, iq, irp, thr, hnd, closing, ses, log>>
HaltFlushIrps ==
  /\ tap.life = "halting" /\ NoCalls /\ FlushIrp
  /\ tap' = IF iq = <<>> THEN [tap EXCEPT !.life = "flushing"] ELSE tap
  /\ UNCHANGED <<load, pq, thr, hnd, closing, ses, log>>
HaltFlushPackets ==
  /\ tap.life = "flushing" /\ FlushPacket
  /\ tap' = IF pq = <<>> THEN [tap EXCEPT !.life = "flushed"] ELSE tap
  /\ UNCHANGED <<load, iq, irp, thr, hnd, closing, ses, log>>
HaltFree ==
  /\ tap.life = "flushed"
  /\ tap' = [tap EXCEPT !.life = "gone", !.res = AdapterFreeResources(TapDeviceFreeResources(@)) \ {"instance", "adapter"}]
  /\ UNCHANGED <<load, pq, iq, irp, thr, hnd, closing, ses, log>>

TapStart ==
  [life |-> "none", iface |-> FALSE, run |-> FALSE, opens |-> 0, halt |-> FALSE, media |-> FALSE, always |-> FALSE,
   remote |-> NoAddress, server |-> NoAddress, arp |-> FALSE, smac |-> "none", optlen |-> 0, disc |-> FALSE, bad |-> 0,
   res |-> {}]

TapInit ==
  /\ load \in Loads /\ tap = TapStart
  /\ pq = <<>> /\ iq = <<>> /\ irp = [i \in Reads |-> "none"] /\ thr = [t \in Threads |-> IdleThread]
  /\ hnd = {} /\ closing = "no" /\ ses = DefaultMode
  /\ log = [opens |-> 0, n |-> 0, pkt |-> 0, wrong |-> FALSE, over |-> FALSE, mute |-> FALSE]

TapNext ==
  \/ AdapterCreate \/ AdapterHalt \/ HaltFlushIrps \/ HaltFlushPackets \/ HaltFree \/ \E on \in load.power : SetPower(on)
  \/ \E t \in load.threads :
       Work(t) \/ Push(t) \/ Match(t) \/ CompleteIRP(t) \/ \E p \in Packets : p.kind \in load.kinds /\ Transmit(t, p)
  \/ \E i \in Reads : ReadTry(i) \/ ReadPend(i) \/ Cancel(i)
  \/ \E h \in load.handles :
       \/ Create(h) \/ CloseHandle(h) \/ Read(h)
       \/ \E a \in load.addrs : ConfigPointToPoint(h, a) \/ ConfigDhcpMasq(h, a)
       \/ \E len \in OptionLens : ConfigDhcpSetOpt(h, len)
       \/ \E b \in BOOLEAN : IoctlMediaStatus(h, b)
  \/ CloseFlushIrps \/ CloseFlushPackets \/ CloseEnd

TapSpec == TapInit /\ [][TapNext]_tapVars

----------------------------------------------------------------------------
(* Properties.                                                               *)

TapTypeOK ==
  /\ tap.life \in {"none", "failed", "up", "halting", "flushing", "flushed", "gone"}
  /\ tap.remote \in {NoAddress} \cup Addresses /\ tap.server \in {NoAddress} \cup Addresses /\ tap.opens \in 0 .. 1
  /\ Len(pq) <= PACKET_QUEUE_SIZE /\ Len(iq) <= IRP_QUEUE_SIZE
  /\ irp \in [Reads -> {"none", "try", "pend", "queued", "taken", "done", "twice"}]
  /\ \A t \in Threads : thr[t].pc \in {"idle", "work", "push", "match", "complete"}
  /\ hnd \subseteq Handles /\ closing \in {"no", "irps", "packets", "media"}

\* A read is completed once, whoever gets to it first: a packet, its cancellation, a close or a halt; a read that is
\* still in the queue or in the hands of a thread is not completed, and no other read is in the queue, nor one of them
\* twice.
CompletedOnce ==
  /\ \A i \in Reads : irp[i] # "twice"
  /\ {i \in Reads : irp[i] = "queued"} = ToSet(iq) /\ IsInjective(iq)

\* One process at a time has the device open, and while one has, the device knows.
Exclusive == (\A g, h \in hnd : g = h) /\ (hnd # {} /\ ~tap.halt => tap.opens = 1)

\* The device is in the mode that the process having it open has set, and remembers no DHCP dialogue but the ones since
\* it was opened: nothing of the last process, or of the rest of its close, reaches into the session of the next.
SessionIntact == hnd # {} /\ ~tap.halt => ModeOf(tap) = ses

\* Packets are handed out in the order in which they were queued, and to the reads that wait the longest.
ServedInOrder == ~log.wrong /\ ~log.over

\* When the remote endpoint of a point-to-point adapter is also its DHCP server, only one answers for the address.
OneResponder == tap.remote # NoAddress /\ tap.server = tap.remote => ~tap.arp /\ tap.smac = "peer"

\* A halted adapter leaves no read unanswered, no packet and no resource behind, a failed creation none but the memory
\* of the adapter itself.
AdapterFreed ==
  /\ tap.life = "gone" => tap.res = {} /\ pq = <<>> /\ \A i \in Reads : irp[i] \in {"none", "done"}
  /\ tap.life = "failed" => tap.res \subseteq {"adapter"}

\* The virtual DHCP server leaves no message without its reply, as long as the options that processes supply leave
\* room for the 22 bytes of its own (longer ones are accepted and silence it: DHCPMSG_BUF_OVERFLOW).
DhcpAnswers == (\A len \in OptionLens : len <= 256 - 22) => ~log.mute

\* The driver between its threads, its callers and the adapter's life: reads and packets are answered once and in
\* order, a session is one process's own, and a halt leaves nothing.
TapInv ==
  /\ TapTypeOK /\ CompletedOnce /\ Exclusive /\ SessionIntact
  /\ ServedInOrder /\ OneResponder /\ AdapterFreed /\ DhcpAnswers
=============================================================================
