----------------------------- MODULE StreamBuf ------------------------------
(***************************************************************************)
(* Packets over TCP (struct stream_buf, socket.c).  The sender puts a      *)
(* length in front of each packet; the receiver, who gets the bytes in     *)
(* chunks of any size, cuts the stream into packets again.  What it reads  *)
(* beyond the end of a packet is kept as the residual of the stream.       *)
(*                                                                         *)
(* Two things may go wrong on the way.  A send() on a socket with a full   *)
(* buffer may take only some of the bytes, which process_outgoing_link     *)
(* reports and does not repair, and the connection may be closed.  The     *)
(* assertions have to hold for every stream of bytes, the packets that     *)
(* were sent whole before the first short write have to arrive.            *)
(***************************************************************************)
EXTENDS Integers, Sequences

CONSTANTS
  MaxLen,      \* sb->maxlen
  Slack,       \* room of the buffer behind its first maxlen bytes
  Packets,     \* packets, as sequences of bytes
  MaxSent      \* bound: packets written

\* A length fits packet_size_type; the headroom of a frame leaves room for the
\* length prefix as well.
ASSUME StreamAssumption ==
  /\ MaxLen \in Nat /\ MaxLen >= 3 /\ MaxLen < 256 * 256
  /\ Slack \in Nat /\ Slack >= 2 /\ MaxSent \in Nat
  /\ \A p \in Packets : p \in Seq(0 .. 255) /\ Len(p) \in 1 .. MaxLen

VARIABLES
  wire,     \* bytes between send() and recv()
  sb,       \* struct stream_buf of the receiver
  conn,     \* "open", "eof" (recv returned 0) or "reset" (socket_connection_reset)
  written,  \* history: packets written whole, up to the first short write
  whole,    \* history: no write was short
  read      \* history: packets that link_socket_read_tcp returned, up to then

streamVars == <<wire, sb, conn, written, whole, read>>

-----------------------------------------------------------------------------
(* The length prefix, packet_size_type in network order.                   *)

PrefixLen == 2
Prefix(n) == <<n \div 256, n % 256>>
PrefixValue(b) == b[1] * 256 + b[2]
Encode(p) == Prefix(Len(p)) \o p

-----------------------------------------------------------------------------
(* struct stream_buf: off counts the bytes that buf_read took from buf.    *)

\* mutant: a residual in the buffer that was set up is forgotten.
stream_buf_reset_All(s) ==
  [s EXCEPT !.formed = FALSE, !.buf = <<>>, !.off = 0, !.next = 0, !.len = -1, !.residual = <<>>]

stream_buf_reset(s) ==
  [s EXCEPT !.formed = FALSE, !.buf = <<>>, !.off = 0, !.next = 0, !.len = -1]

stream_buf_init ==
  stream_buf_reset([buf |-> <<>>, off |-> 0, len |-> -1, next |-> 0,
                    residual |-> <<>>, formed |-> FALSE, error |-> FALSE, asserted |-> TRUE])

\* next is the number of bytes that the next recv may take; the two assertions.
stream_buf_set_next(s) ==
  LET n == (IF s.len >= 0 THEN s.len ELSE MaxLen) - Len(s.buf)
  IN  [s EXCEPT !.next = n,
                !.asserted = @ /\ n > 0 /\ s.off + Len(s.buf) + n <= MaxLen + Slack]

\* The length, once two bytes are there; a bad one is an error of the stream.
TakePrefix(s) ==
  IF s.len < 0 /\ Len(s.buf) >= PrefixLen
  THEN LET n == PrefixValue(s.buf)
       IN  IF n < 1 \/ n > MaxLen
           THEN [stream_buf_reset(s) EXCEPT !.error = TRUE]
           ELSE [s EXCEPT !.len = n, !.buf = SubSeq(@, PrefixLen + 1, Len(@)), !.off = @ + PrefixLen]
  ELSE s

\* mutant: a packet is complete only when bytes of the next one are there.
Complete_Strict(s) == s.len > 0 /\ Len(s.buf) > s.len

Complete(s) == s.len > 0 /\ Len(s.buf) >= s.len

\* The packet stays in buf, the excess becomes the residual.
SplitExcess(s) ==
  [s EXCEPT !.buf = SubSeq(@, 1, s.len), !.residual = SubSeq(s.buf, s.len + 1, Len(s.buf)),
            !.asserted = @ /\ Len(s.buf) - s.len <= MaxLen]

\* stream_buf_added: whether a packet is complete, and the buffer afterwards.
AfterPrefix(s) ==
  IF s.error /\ s.len < 0 /\ s.buf = <<>>
  THEN [done |-> FALSE, sb |-> s]
  ELSE IF Complete(s)
  THEN [done |-> TRUE, sb |-> SplitExcess(s)]
  ELSE [done |-> FALSE, sb |-> stream_buf_set_next(s)]

stream_buf_added(s, bytes) == AfterPrefix(TakePrefix([s EXCEPT !.buf = @ \o bytes]))

\* stream_buf_read_setup_dowork: a residual is looked at first.
FromResidual(r) == IF r.done THEN [r.sb EXCEPT !.formed = TRUE] ELSE stream_buf_set_next(r.sb)

stream_buf_read_setup(s) ==
  IF s.residual # <<>> /\ ~s.formed
  THEN FromResidual(stream_buf_added([s EXCEPT !.buf = s.residual, !.residual = <<>>], <<>>))
  ELSE IF s.formed THEN s ELSE stream_buf_set_next(s)

-----------------------------------------------------------------------------
(* Steps.                                                                  *)

\* link_socket_write_tcp; a short write sends n bytes of the packet.
Write(p) ==
  /\ wire' = wire \o Encode(p)
  /\ written' = IF whole THEN Append(written, p) ELSE written
  /\ UNCHANGED <<sb, conn, whole, read>>

WriteShort(p, n) ==
  /\ n < Len(Encode(p))
  /\ wire' = wire \o SubSeq(Encode(p), 1, n)
  /\ whole' = FALSE
  /\ UNCHANGED <<sb, conn, written, read>>

\* recv_line at the end of establish_http_proxy_passthru reads a byte at a
\* time; the first one of the stream is not ASCII and becomes the residual.
Lookahead ==
  /\ sb = stream_buf_init /\ read = <<>> /\ wire # <<>> /\ conn = "open"
  /\ sb' = [sb EXCEPT !.residual = <<Head(wire)>>]
  /\ wire' = Tail(wire)
  /\ UNCHANGED <<conn, written, whole, read>>

\* socket_set (or multi_tcp_action): the buffer is set up before the wait.
\* mutant: the wait looks at the socket although a packet is complete.
Setup_Twice ==
  /\ conn = "open"
  /\ sb' = stream_buf_read_setup([sb EXCEPT !.formed = FALSE])
  /\ UNCHANGED <<wire, conn, written, whole, read>>

Setup ==
  /\ conn = "open"
  /\ sb' = stream_buf_read_setup(sb)
  /\ UNCHANGED <<wire, conn, written, whole, read>>

\* link_socket_read_tcp has a packet: stream_buf_get_final, stream_buf_reset.
\* One that has none is reported as an empty read, or as a reset on an error.
ReadResult(r) ==
  IF r.done
  THEN /\ read' = IF whole \/ Len(read) < Len(written) THEN Append(read, r.sb.buf) ELSE read
       /\ sb' = stream_buf_reset(r.sb)
       /\ UNCHANGED conn
  ELSE /\ sb' = r.sb
       /\ conn' = IF r.sb.error THEN "reset" ELSE conn
       /\ UNCHANGED read

\* mutant: a packet that came from the residual is not taken out of the buffer.
ReadFormed_Keep ==
  /\ conn = "open" /\ sb.formed
  /\ read' = Append(read, sb.buf)
  /\ UNCHANGED <<wire, sb, conn, written, whole>>

ReadFormed ==
  /\ conn = "open" /\ sb.formed
  /\ ReadResult([done |-> TRUE, sb |-> sb])
  /\ UNCHANGED <<wire, written, whole>>

\* recv takes k bytes.
ReadSome(k) ==
  /\ conn = "open" /\ ~sb.formed
  /\ k \in 1 .. sb.next /\ k <= Len(wire)
  /\ wire' = SubSeq(wire, k + 1, Len(wire))
  /\ ReadResult(stream_buf_added(sb, SubSeq(wire, 1, k)))
  /\ UNCHANGED <<written, whole>>

\* The peer closed the connection: recv returns 0 once the stream is drained.
ReadEof ==
  /\ conn = "open" /\ ~sb.formed /\ sb.next > 0 /\ wire = <<>>
  /\ conn' = "eof"
  /\ UNCHANGED <<wire, sb, written, whole, read>>

StreamInit ==
  /\ wire = <<>> /\ sb = stream_buf_init /\ conn = "open"
  /\ written = <<>> /\ whole = TRUE /\ read = <<>>

StreamNext ==
  \/ /\ Len(written) < MaxSent /\ whole /\ conn = "open"
     /\ \E p \in Packets : Write(p) \/ \E n \in 0 .. Len(p) + 1 : WriteShort(p, n)
  \/ /\ ~whole /\ Len(wire) <= PrefixLen /\ conn = "open"   \* what follows a short write
     /\ \E p \in Packets : Write(p)
  \/ Lookahead \/ Setup \/ ReadFormed \/ (\E k \in 1 .. MaxLen : ReadSome(k)) \/ ReadEof

StreamSpec == StreamInit /\ [][StreamNext]_streamVars

-----------------------------------------------------------------------------
(* Properties.                                                             *)

\* The assertions of stream_buf_set_next (a read of at least one byte, which
\* fits the buffer) and of the copy of the residual hold for every stream of
\* bytes, the remains of a short write included; a formed packet is whole.
StreamAsserts ==
  /\ sb.asserted
  /\ sb.formed => Len(sb.buf) = sb.len
  /\ sb.len \in {-1} \cup 1 .. MaxLen
  /\ sb.off + Len(sb.buf) <= MaxLen + Slack

\* Nothing gets stuck: when the wire is drained and no part of a packet is
\* held, every packet written so far has been returned by link_socket_read_tcp,
\* so a residual is never forgotten and a whole packet never waits for the next.
StreamDrained ==
  whole /\ wire = <<>> /\ ~sb.formed /\ sb.buf = <<>> /\ sb.residual = <<>> => read = written

\* stream_buf implements a first-in first-out channel of packets, from the peer
\* ("tx") to this end ("rx"), for the packets written before a short write.
Channel == INSTANCE FifoChannel WITH
  Client <- "tx", Server <- "rx", Data <- Packets,
  produced <- [e \in {"tx", "rx"} |-> IF e = "tx" THEN written ELSE <<>>],
  delivered <- [e \in {"tx", "rx"} |-> IF e = "rx" THEN read ELSE <<>>]
StreamIsFifo == Channel!Spec

\* Packets come out of the stream whole, without waiting for the next one.
StreamInv == StreamAsserts /\ StreamDrained
=============================================================================
