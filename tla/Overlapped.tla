---------------------------- MODULE Overlapped ----------------------------
(***************************************************************************)
(* Overlapped I/O on Windows (tun.c, socket.c, win32.c): the TAP adapter   *)
(* and the UDP socket each have one read and one write that may be queued  *)
(* in the kernel, with a manual-reset event object per operation that      *)
(* io_wait waits for.  The forwarder reads a packet of one side, holds it  *)
(* in to_link or to_tun, and writes it to the other side when that side's  *)
(* write event is signalled.                                               *)
(***************************************************************************)
EXTENDS Naturals, Sequences, SequencesExt, FiniteSets

CONSTANTS MaxArrivals,  \* packets that arrive on a side
          MaxFaults    \* operations that fail, and closes of the device
ASSUME OverlappedAssumption == MaxArrivals \in Nat /\ MaxFaults \in Nat

Sides == {"tun", "link"}
Other(d) == IF d = "tun" THEN "link" ELSE "tun"
NoPacket == 0
Garbage == MaxArrivals + 1

VARIABLES reads, writes,  \* struct overlapped_io of each side
          opened,         \* the side's handle and buffers exist
          krnl,           \* kernel: state of the side's "r" and "w" request
          came,           \* packets 1 .. came[d] arrived on side d, and
          waits,          \*   those the kernel still keeps
          fwd,            \* to_link (read from "tun"), to_tun (read from "link")
          out,            \* packets of side d that the other side's driver took
          lost,           \* packets of side d that an error or a close took
          faults
ioVars == <<reads, writes, opened, krnl, came, waits, fwd, out, lost, faults>>
---------------------------------------------------------------------------
\* overlapped_io_init: manual reset event, initially event_state
OverlappedIoInit(event_state) ==
    [iostate |-> "INITIAL", event |-> event_state, status |-> "ok", buf |-> NoPacket]
\* init_tun_post, socket_frame_init: nothing to read yet, ready to be written to
InitTunPost == <<OverlappedIoInit(FALSE), OverlappedIoInit(TRUE)>>
SocketFrameInit == <<OverlappedIoInit(FALSE), OverlappedIoInit(TRUE)>>
FrameInit(d) == IF d = "tun" THEN InitTunPost ELSE SocketFrameInit

\* overlapped_io_active
OverlappedIoActive(io) == io.iostate \in {"QUEUED", "IMMEDIATE_RETURN"}

IoInit ==
    /\ reads = [d \in Sides |-> FrameInit(d)[1]] /\ writes = [d \in Sides |-> FrameInit(d)[2]]
    /\ opened = [d \in Sides |-> TRUE]
    /\ krnl = [d \in Sides |-> [r |-> "idle", w |-> "idle"]]
    /\ came = [d \in Sides |-> 0] /\ waits = [d \in Sides |-> <<>>]
    /\ fwd = [d \in Sides |-> NoPacket] /\ out = [d \in Sides |-> <<>>]
    /\ lost = [d \in Sides |-> {}] /\ faults = 0

\* mutant: the event of an immediate return is left to the kernel
Answered_Unset(io, answer) ==
    [io EXCEPT !.iostate = IF answer = "pending" THEN "QUEUED" ELSE "IMMEDIATE_RETURN",
               !.status = IF answer = "error" THEN "err" ELSE "ok", !.event = FALSE]
\* how the kernel answers a request at once, and what io becomes: "now" (the event is
\* set by the caller), "pending" (set by the kernel at completion), "error"
Answered(io, answer) ==
    CASE answer = "now"     -> [io EXCEPT !.iostate = "IMMEDIATE_RETURN", !.status = "ok", !.event = TRUE]
      [] answer = "pending" -> [io EXCEPT !.iostate = "QUEUED", !.status = "pending", !.event = FALSE]
      [] answer = "error"   -> [io EXCEPT !.iostate = "IMMEDIATE_RETURN", !.status = "err", !.event = TRUE]

\* tun_read_queue, socket_recv_queue: the buffer goes back to its initial state
TunReadQueue(io, answer, p) == Answered([io EXCEPT !.buf = p], answer)
SocketRecvQueue(io, answer, p) == Answered([io EXCEPT !.buf = p], answer)
ReadQueue(d, answer, p) ==
    IF d = "tun" THEN TunReadQueue(reads[d], answer, p) ELSE SocketRecvQueue(reads[d], answer, p)

\* tun_write_queue, socket_send_queue: nothing unless INITIAL, a private copy of buf
\* mutant: the driver is given the forwarder's own buffer
TunWriteQueue_Shared(io, answer, p) ==
    IF io.iostate = "INITIAL" THEN Answered([io EXCEPT !.buf = IF answer = "pending" THEN Garbage ELSE p], answer) ELSE io
TunWriteQueue(io, answer, p) ==
    IF io.iostate = "INITIAL" THEN Answered([io EXCEPT !.buf = p], answer) ELSE io
SocketSendQueue(io, answer, p) ==
    IF io.iostate = "INITIAL" THEN Answered([io EXCEPT !.buf = p], answer) ELSE io
WriteQueue(d, io, answer, p) ==
    IF d = "tun" THEN TunWriteQueue(io, answer, p) ELSE SocketSendQueue(io, answer, p)

\* tun_finalize, socket_finalize: [io, ret]; ret = "bad" stands for -1
TunFinalize(io, k) ==
    CASE io.iostate = "QUEUED" /\ k = "pending" -> [io |-> io, ret |-> "bad"]
      [] io.iostate = "QUEUED" /\ k # "pending" ->
            [io |-> [io EXCEPT !.iostate = "INITIAL", !.event = FALSE], ret |-> IF k = "done" THEN "ok" ELSE "bad"]
      [] io.iostate = "IMMEDIATE_RETURN" ->
            [io |-> [io EXCEPT !.iostate = "INITIAL", !.event = FALSE], ret |-> IF io.status = "ok" THEN "ok" ELSE "bad"]
      [] io.iostate = "INITIAL" -> [io |-> io, ret |-> "bad"]
SocketFinalize(io, k) ==
    CASE io.iostate = "QUEUED" /\ k = "pending" -> [io |-> io, ret |-> "bad"]
      [] io.iostate = "QUEUED" /\ k # "pending" ->
            [io |-> [io EXCEPT !.iostate = "INITIAL", !.event = FALSE], ret |-> IF k = "done" THEN "ok" ELSE "bad"]
      [] io.iostate = "IMMEDIATE_RETURN" ->
            [io |-> [io EXCEPT !.iostate = "INITIAL", !.event = FALSE], ret |-> IF io.status = "ok" THEN "ok" ELSE "bad"]
      [] io.iostate = "INITIAL" -> [io |-> io, ret |-> "bad"]
Finalize(d, io, k) == IF d = "tun" THEN TunFinalize(io, k) ELSE SocketFinalize(io, k)
---------------------------------------------------------------------------
Fault(b) == faults' = faults + (IF b THEN 1 ELSE 0) /\ faults' <= MaxFaults

\* environment: a packet comes in, and completes the read that is queued
Arrive(d) ==
    /\ came[d] < MaxArrivals /\ came' = [came EXCEPT ![d] = @ + 1]
    /\ IF krnl[d].r = "pending"
       THEN /\ reads' = [reads EXCEPT ![d].buf = came[d] + 1, ![d].event = TRUE]
            /\ krnl' = [krnl EXCEPT ![d].r = "done"] /\ UNCHANGED waits
       ELSE waits' = [waits EXCEPT ![d] = Append(@, came[d] + 1)] /\ UNCHANGED <<reads, krnl>>
    /\ UNCHANGED <<writes, opened, fwd, out, lost, faults>>

\* environment: the driver fails a queued read, finishes or fails a queued write
ReadFails(d) ==
    /\ krnl[d].r = "pending" /\ Fault(TRUE)
    /\ krnl' = [krnl EXCEPT ![d].r = "failed"] /\ reads' = [reads EXCEPT ![d].event = TRUE]
    /\ UNCHANGED <<writes, opened, came, waits, fwd, out, lost>>
WriteCompletes(d, ok) ==
    /\ krnl[d].w = "pending" /\ Fault(~ok)
    /\ krnl' = [krnl EXCEPT ![d].w = IF ok THEN "done" ELSE "failed"]
    /\ writes' = [writes EXCEPT ![d].event = TRUE]
    /\ out' = IF ok THEN [out EXCEPT ![Other(d)] = Append(@, writes[d].buf)] ELSE out
    /\ lost' = IF ok THEN lost ELSE [lost EXCEPT ![Other(d)] = @ \cup {writes[d].buf}]
    /\ UNCHANGED <<reads, opened, came, waits, fwd>>

\* io_wait, tun_set and socket_set with EVENT_READ: only while what was read before
\* has been written
QueueRead(d) ==
    /\ opened[d] /\ fwd[d] = NoPacket /\ reads[d].iostate = "INITIAL"
    /\ \E answer \in {"now", "pending", "error"} :
         /\ (answer = "now") = (waits[d] # <<>> /\ answer # "error") /\ Fault(answer = "error")
         /\ reads' = [reads EXCEPT ![d] = ReadQueue(d, answer, IF answer = "now" THEN Head(waits[d]) ELSE NoPacket)]
         /\ waits' = [waits EXCEPT ![d] = IF answer = "now" THEN Tail(@) ELSE @]
         /\ krnl' = [krnl EXCEPT ![d].r = IF answer = "pending" THEN "pending" ELSE "idle"]
    /\ UNCHANGED <<writes, opened, came, fwd, out, lost>>

\* read_tun_buffered, link_socket_read_udp_win32, when the wait returned the read event
ReadIncoming(d) ==
    /\ opened[d] /\ fwd[d] = NoPacket /\ reads[d].event
    /\ \E f \in {Finalize(d, reads[d], krnl[d].r)} :
         /\ reads' = [reads EXCEPT ![d] = f.io]
         /\ fwd' = [fwd EXCEPT ![d] = IF f.ret = "ok" THEN f.io.buf ELSE NoPacket]
    /\ krnl' = [krnl EXCEPT ![d].r = IF @ = "pending" THEN @ ELSE "idle"]
    /\ UNCHANGED <<writes, opened, came, waits, out, lost, faults>>

\* tun_write_win32, link_socket_write_win32: finish the write before, queue this one; the
\* forwarder resets its buffer whatever came of it.  Only called on a write event.
\* mutant: written without waiting for the event
WriteReady_Always(d) == opened[d]
WriteReady(d) == opened[d] /\ writes[d].event
Finished(d) == IF OverlappedIoActive(writes[d]) THEN Finalize(d, writes[d], krnl[d].w).io ELSE writes[d]
WriteOutgoing(d) ==
    /\ fwd[Other(d)] # NoPacket /\ WriteReady(d)
    /\ \E answer \in {"now", "pending", "error"} :
         /\ Fault(answer = "error")
         /\ writes' = [writes EXCEPT ![d] = WriteQueue(d, Finished(d), answer, fwd[Other(d)])]
         /\ IF Finished(d).iostate # "INITIAL"
            THEN UNCHANGED <<krnl, out, lost>>   \* the queue function did nothing
            ELSE /\ krnl' = [krnl EXCEPT ![d].w = IF answer = "pending" THEN "pending" ELSE "idle"]
                 /\ out' = IF answer = "now" THEN [out EXCEPT ![Other(d)] = Append(@, writes'[d].buf)] ELSE out
                 /\ lost' = IF answer = "error" THEN [lost EXCEPT ![Other(d)] = @ \cup {fwd[Other(d)]}] ELSE lost
    /\ fwd' = [fwd EXCEPT ![Other(d)] = NoPacket]
    /\ UNCHANGED <<reads, opened, came, waits>>

\* close_tun (CancelIo, then the buffers go), link_socket_close (the socket first): the
\* kernel drops its requests and the packets it kept
InBuffer(d) ==
    {p \in {fwd[d]} \cup (IF reads[d].iostate = "IMMEDIATE_RETURN" \/ krnl[d].r = "done" THEN {reads[d].buf} ELSE {}) :
        p # NoPacket}
Queued(d) == IF krnl[Other(d)].w = "pending" THEN {writes[Other(d)].buf} ELSE {}
OverlappedIoClose(ds) ==
    /\ reads' = [d \in Sides |-> IF d \in ds THEN OverlappedIoInit(FALSE) ELSE reads[d]]
    /\ writes' = [d \in Sides |-> IF d \in ds THEN OverlappedIoInit(FALSE) ELSE writes[d]]
\* mutant: the buffers are freed while requests are queued
CancelIo_None(ds) == krnl' = krnl
CancelIo(ds) == krnl' = [d \in Sides |-> IF d \in ds THEN [r |-> "idle", w |-> "idle"] ELSE krnl[d]]
\* a restart closes the socket, without --persist-tun the device too; to_link and to_tun go
IoRestart(ds) ==
    /\ \A d \in Sides : opened[d]
    /\ Fault(TRUE) /\ opened' = [d \in Sides |-> d \notin ds]
    /\ CancelIo(ds) /\ OverlappedIoClose(ds)
    /\ lost' = [d \in Sides |-> lost[d] \cup ({fwd[d]} \ {NoPacket})
                    \cup (IF d \in ds THEN InBuffer(d) \cup Range(waits[d]) ELSE {})
                    \cup (IF Other(d) \in ds THEN Queued(d) ELSE {})]
    /\ waits' = [d \in Sides |-> IF d \in ds THEN <<>> ELSE waits[d]]
    /\ fwd' = [d \in Sides |-> NoPacket]
    /\ UNCHANGED <<came, out>>
\* the restart opens it again
OpenSide(d) ==
    /\ ~opened[d] /\ opened' = [opened EXCEPT ![d] = TRUE]
    /\ reads' = [reads EXCEPT ![d] = FrameInit(d)[1]] /\ writes' = [writes EXCEPT ![d] = FrameInit(d)[2]]
    /\ UNCHANGED <<krnl, came, waits, fwd, out, lost, faults>>

IoNext ==
    \/ \E ds \in {{"link"}, Sides} : IoRestart(ds)
    \/ \E d \in Sides :
        \/ Arrive(d) \/ ReadFails(d) \/ \E ok \in BOOLEAN : WriteCompletes(d, ok)
        \/ QueueRead(d) \/ ReadIncoming(d) \/ WriteOutgoing(d) \/ OpenSide(d)
IoSpec == IoInit /\ [][IoNext]_ioVars
---------------------------------------------------------------------------
\* Type invariant.
IoTypeOK ==
    /\ \A io \in {reads[d] : d \in Sides} \cup {writes[d] : d \in Sides} :
         /\ io.iostate \in {"INITIAL", "QUEUED", "IMMEDIATE_RETURN"} /\ io.event \in BOOLEAN
         /\ io.status \in {"ok", "pending", "err"} /\ io.buf \in 0 .. MaxArrivals
    /\ opened \in [Sides -> BOOLEAN] /\ came \in [Sides -> 0 .. MaxArrivals]
    /\ krnl \in [Sides -> [r : {"idle", "pending", "done", "failed"}, w : {"idle", "pending", "done", "failed"}]]
    /\ fwd \in [Sides -> 0 .. MaxArrivals] /\ faults \in 0 .. MaxFaults

\* A packet that arrived is always in exactly one place (the kernel's queue, the read buffer,
\* the forwarder, a queued write, the other side, or lost to a reported error or a close), and
\* the other side receives packets in the order they came: finishing an operation that is
\* still in the kernel, queueing over one that is, or sharing a buffer would lose, repeat or
\* replace one without a message.
PacketsKept ==
    \A d \in Sides :
        /\ \A p \in 1 .. came[d] :
             1 = Cardinality({w \in {"kernel", "read", "forward", "queued", "out", "lost"} :
                    CASE w = "kernel" -> p \in Range(waits[d])
                      [] w = "read" -> p \in InBuffer(d) \ {fwd[d]}
                      [] w = "forward" -> p = fwd[d]
                      [] w = "queued" -> krnl[Other(d)].w = "pending" /\ writes[Other(d)].buf = p
                      [] w = "out" -> p \in Range(out[d])
                      [] w = "lost" -> p \in lost[d]})
        /\ \A i, j \in 1 .. Len(out[d]) : i < j => out[d][i] < out[d][j]

\* An event that is not signalled stands for an operation the kernel is still busy with (or,
\* for reads, for one that io_wait has yet to queue): a completion whose event got reset would
\* leave the forwarder waiting for ever.
IoWakes ==
    \A d \in Sides : opened[d] =>
        /\ ~reads[d].event => reads[d].iostate = "INITIAL" \/ krnl[d].r = "pending"
        /\ ~writes[d].event => writes[d].iostate = "QUEUED" /\ krnl[d].w = "pending"

\* The kernel has no request on a buffer that close_tun or link_socket_close freed, and none
\* that the state of the overlapped_io does not know of.
RequestsKnown ==
    \A d \in Sides :
        /\ krnl[d].r # "idle" => opened[d] /\ reads[d].iostate = "QUEUED"
        /\ krnl[d].w # "idle" => opened[d] /\ writes[d].iostate = "QUEUED"

\* Overlapped operations lose no packet and no wakeup, and no buffer is freed while the
\* kernel has a request on it (tun_read_queue, socket_send_queue, *_finalize).
IoInv == IoTypeOK /\ PacketsKept /\ IoWakes /\ RequestsKnown
=============================================================================
