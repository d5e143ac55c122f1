---------------------------- MODULE FifoChannel -----------------------------
(***************************************************************************)
(* What the reliability layer promises to the two TLS objects that talk    *)
(* through it: one first-in first-out channel in each direction.           *)
(* produced[p] is everything p has put into its channel, delivered[p]      *)
(* everything p has taken out of the other's.                              *)
(***************************************************************************)
EXTENDS Naturals, Sequences

CONSTANTS Client, Server, Data

VARIABLES produced, delivered

Ends == {Client, Server}
Peer(p) == IF p = Client THEN Server ELSE Client

Init ==
  /\ produced = [p \in Ends |-> <<>>]
  /\ delivered = [p \in Ends |-> <<>>]

Put(p, d) ==
  /\ produced' = [produced EXCEPT ![p] = Append(@, d)]
  /\ UNCHANGED delivered

Get(p) ==
  /\ Len(delivered[p]) < Len(produced[Peer(p)])
  /\ delivered' = [delivered EXCEPT ![p] =
                     Append(@, produced[Peer(p)][Len(delivered[p]) + 1])]
  /\ UNCHANGED produced

Next == \E p \in Ends : Get(p) \/ \E d \in Data : Put(p, d)

Spec == Init /\ [][Next]_<<produced, delivered>>
=============================================================================
