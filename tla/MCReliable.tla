----------------------------- MODULE MCReliable -----------------------------
(* Small instances of Reliable.                                            *)
EXTENDS Reliable, TLC

CONSTANTS ClientPackets, ServerPackets   \* bounds: packets each end produces

MCMaxPackets == [p \in {Client, Server} |->
                   IF p = Client THEN ClientPackets ELSE ServerPackets]

\* Payloads are only compared.
DataSymmetry == Permutations(Data)
=============================================================================
