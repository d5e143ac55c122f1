---------------------------- MODULE MCTlsSession ----------------------------
(* The runs of TlsSession and of PacketId, one at a time: the negotiation of *)
(* keys, and the window of packet ids that each key has.  A small IdLimit    *)
(* stands for 2^32.                                                          *)
EXTENDS TlsSession, PacketId

CONSTANT Parts    \* which of "tls" and "packet_id" the run is about
VARIABLE part     \* the one this behaviour is about

Bounds(sids, keys, dups, fails) ==
  [single |-> FALSE, sids |-> sids, keys |-> keys, losses |-> 0, copies |-> dups,
   failures |-> fails]

\* Renegotiations with a duplicate that arrives late.
Renegotiation == Bounds(2, 3, 1, 0)

Safety ==
  {Renegotiation,
   Bounds(2, 4, 0, 0),    \* enough renegotiations for the key id to be recycled
   Bounds(4, 1, 0, 1),    \* a restart, with room to connect anew
   Bounds(3, 2, 0, 1),    \* a renegotiation and a failure
   [Bounds(3, 1, 1, 2) EXCEPT !.single = TRUE]}

Continuity == {Renegotiation}

MCInit ==
  /\ part \in Parts /\ TlsInit /\ Init
  /\ part = "packet_id" => opt = Renegotiation
MCNext ==
  \/ part = "tls" /\ TlsNext /\ UNCHANGED <<part, vars>>
  \/ part = "packet_id" /\ Next /\ UNCHANGED <<part, tlsVars>>
MCSpec == MCInit /\ [][MCNext]_<<part, tlsVars, vars>>
=============================================================================
