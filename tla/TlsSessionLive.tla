--------------------------- MODULE TlsSessionLive ---------------------------
(***************************************************************************)
(* TlsSession with a record of what each step did, from which fairness is  *)
(* stated: whether a packet is due is not a matter of the state but of its *)
(* timer.                                                                  *)
(***************************************************************************)
EXTENDS TlsSession

VARIABLE last   \* the end that ran last, what it sent, whether it arrived

LiveInit == TlsInit /\ last = <<TlsClient, "nothing", TRUE>>

\* What a call of tls_multi_process puts in to_link.
Kind(d) == IF d = NoDatagram THEN "nothing" ELSE IF d.op = "ACK" THEN "ack" ELSE "packet"

LiveNext ==
  \E p \in TlsPeer : \E r \in tls_multi_process(p) :
    /\ Process(p, r)
    /\ last' = <<p, Kind(r.out), losses' = losses>>

\* The event loop of either end calls tls_multi_process for ever (at least when
\* TLS_MULTI_REFRESH seconds have passed); a packet that stays unacknowledged
\* is retransmitted for ever (reliable_send_timeout); the network loses only
\* finitely many datagrams.
TlsFairness ==
  \A p \in TlsPeer :
    /\ []<>(last \in {<<p, "nothing", TRUE>>, <<p, "ack", TRUE>>})
    /\ []<>(multi[p].s["TM_ACTIVE"].prim.unacked # {}) => []<>(last = <<p, "packet", TRUE>>)

LiveSpec == LiveInit /\ [][LiveNext]_<<tlsVars, last>> /\ TlsFairness

\* Once an end starts the n-th negotiation of the session, both end up with an
\* active key of that negotiation or a later one, also when both start it at
\* once and a datagram is lost.
Converges ==
  \A n \in UNION {0 .. s.keys - 1 : s \in Scenarios} :
    (\E p \in TlsPeer : multi[p].s["TM_ACTIVE"].n > n)
    ~> (\A p \in TlsPeer : LET ks == multi[p].s["TM_ACTIVE"].prim
                        IN  ks.gen.n >= n /\ ks.st >= S_ACTIVE)
=============================================================================
