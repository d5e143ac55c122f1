------------------------------ MODULE MCMulti ------------------------------
(* The server with two pool addresses, h1 and h2, a static address h3, and a *)
(* host h4 in a network and in a part of it.                                 *)
(* Beside it the event loop of the TCP server with two clients, and the      *)
(* identity of one client: a behaviour is one of a server over UDP or TCP or *)
(* of the handshakes of a client.                                            *)
EXTENDS Multi, MultiTcp, TlsVerify

CONSTANTS h0, h1, h2, h3, h4, wide, narrow, alice, bob, carol, r1, r2, c1, c2, Protos

VARIABLE proto   \* what is under way

MCHost == {h0, h1, h2, h3, h4}
MCNet == {wide, narrow}
MCPoolAddr == <<h1, h2>>
MCNetBits == wide :> 16 @@ narrow :> 24
MCInNet == wide :> {h4} @@ narrow :> {h4}
MCBucket == [a \in MCHost \cup MCNet |-> IF a \in {h1, h4, wide} THEN 0 ELSE 1]

Symmetry == Permutations({r1, r2}) \cup Permutations({c1, c2})

\* Two clients on a routed tunnel that come and go and share the pool.
Churn ==
  [buckets_per_pass |-> 1, tap |-> FALSE, c2c |-> FALSE, duplicate_cn |-> FALSE,
   management |-> {}, timers |-> FALSE,
   connect |-> FALSE, refuse |-> FALSE, pool |-> TRUE, persist |-> "no", file |-> <<None, None>>, max_clients |-> 2,
   max_routes_per_client |-> 3, cns |-> {alice, bob}, reals |-> {r1, r2},
   push |-> [c \in {alice, bob} |-> None], pushes |-> {},
   iroutes |-> alice :> <<>> @@ bob :> <<>>, dests |-> {}]

\* One name, in two connections.
OneName == [Churn EXCEPT !.cns = {alice}, !.push = alice :> None, !.iroutes = alice :> <<>>]

\* Nested networks behind the two clients, and traffic to a host in both.
Routing ==
  [Churn EXCEPT !.buckets_per_pass = 2, !.pool = FALSE, !.dests = {h4},
                !.iroutes = alice :> <<wide>> @@ bob :> <<narrow>>]

\* Scripts that refuse, and a quota that the networks use up.
Refusing == [OneName EXCEPT !.iroutes = alice :> <<wide, narrow>>, !.dests = {h4}, !.connect = TRUE, !.refuse = TRUE,
                            !.max_routes_per_client = 2]

\* A bridge: addresses are learned from packets, which go to other clients.
Bridge ==
  [OneName EXCEPT !.duplicate_cn = TRUE, !.tap = TRUE, !.c2c = TRUE, !.pool = FALSE, !.dests = {h4},
                  !.max_routes_per_client = 1]

\* Output that waits while the management interface kills clients.
Killing == [OneName EXCEPT !.management = {"MANAGEMENT"}, !.timers = TRUE, !.dests = {h1}]

\* The pool file: read-only, or written at the end and read again.
FixedPool == [Churn EXCEPT !.persist = "fixed", !.file = <<alice, carol>>]
Reserved == [OneName EXCEPT !.persist = "fixed", !.file = <<alice, None>>, !.connect = TRUE, !.pushes = {h3}]
SavedPool == [Churn EXCEPT !.buckets_per_pass = 2, !.persist = "rw", !.connect = TRUE]

\* A static address from the client-connect script, and clients of one name.
Static == [OneName EXCEPT !.connect = TRUE, !.pushes = {h3}]
SameName == [OneName EXCEPT !.duplicate_cn = TRUE]

Safety == {SavedPool, FixedPool, Reserved, Routing, Refusing, Bridge, Killing, Static, SameName}
Kill == {Killing}

MCTcpOptions ==
  {[n_bcast_buf |-> 4, bcast |-> FALSE, c2c |-> FALSE, one_cn |-> FALSE]}
  \cup {[n_bcast_buf |-> 2, bcast |-> TRUE, c2c |-> b, one_cn |-> ~b] : b \in BOOLEAN}

VOpt(cert, as_cn, ccd, plugin, script) ==
  [cert |-> cert, as_cn |-> as_cn, ccd |-> ccd, plugin |-> plugin, script |-> script]

\* Certificates alone; with passwords beside them; passwords that give the name; no certificates.
MCVerifyOptions ==
  {VOpt(TRUE, FALSE, FALSE, FALSE, FALSE), VOpt(TRUE, FALSE, TRUE, TRUE, TRUE),
   VOpt(TRUE, TRUE, FALSE, FALSE, TRUE), VOpt(FALSE, TRUE, TRUE, FALSE, TRUE),
   VOpt(FALSE, FALSE, FALSE, TRUE, TRUE)}

IdleUdp == Init /\ opt = Killing
IdleTcp == TcpInit /\ topt = [n_bcast_buf |-> 2, bcast |-> TRUE, c2c |-> TRUE, one_cn |-> FALSE]
IdleVerify == VerifyInit /\ vopt = VOpt(TRUE, FALSE, FALSE, FALSE, FALSE)

MCInit ==
  /\ proto \in Protos
  /\ \/ proto = "udp" /\ Init /\ IdleTcp /\ IdleVerify
     \/ proto = "tcp" /\ TcpInit /\ IdleUdp /\ IdleVerify
     \/ proto = "verify" /\ VerifyInit /\ IdleUdp /\ IdleTcp
MCNext ==
  \/ proto = "udp" /\ Next /\ UNCHANGED <<proto, tcpVars, verifyVars>>
  \/ proto = "tcp" /\ TcpNext /\ UNCHANGED <<proto, vars, verifyVars>>
  \/ proto = "verify" /\ VerifyNext /\ UNCHANGED <<proto, vars, tcpVars>>
MCSpec == MCInit /\ [][MCNext]_<<proto, vars, tcpVars, verifyVars>>
=============================================================================
