------------------------------- MODULE MCLive -------------------------------
(* Liveness of the reliability layer and of the TLS sessions above it, on   *)
(* small instances side by side: a behaviour exercises one of the two and   *)
(* leaves the other one in its initial state.                               *)
EXTENDS Reliable, TlsSessionLive

\* the client sends two packets, the server only acknowledges
MCMaxPackets == [p \in {Client, Server} |-> IF p = Client THEN 2 ELSE 0]

\* two negotiations and a loss
Liveness ==
  {[single |-> FALSE, sids |-> 2, keys |-> 2, losses |-> 1, copies |-> 0, failures |-> 0]}

VARIABLE layer   \* the one that is exercised

\* no negotiation has begun and none will
TlsIdle ==
  /\ opt \in Scenarios /\ delayed = {} /\ losses = 0 /\ copies = 0 /\ failures = 0
  /\ multi = [p \in TlsPeer |-> [tls_multi_init(p, 1) EXCEPT !.s["TM_ACTIVE"].n = 0]]
  /\ last = <<TlsClient, "nothing", TRUE>>

MCInit ==
  \/ layer = "reliable" /\ Init /\ TlsIdle
  \/ layer = "tls" /\ Init /\ LiveInit
MCNext ==
  \/ layer = "reliable" /\ Next /\ UNCHANGED <<tlsVars, last, layer>>
  \/ layer = "tls" /\ LiveNext /\ UNCHANGED <<vars, layer>>
MCSpec ==
  /\ MCInit /\ [][MCNext]_<<vars, tlsVars, last, layer>>
  /\ layer = "reliable" => Fairness
  /\ layer = "tls" => TlsFairness
=============================================================================
