------------------------------ MODULE MCCoreKx ------------------------------
(* CoreKx for TLC: two peers; a is the one that starts the exchange. *)
EXTENDS CoreKx

CONSTANTS a, b

MCPeers == {a, b}
MCHash == [p \in MCPeers |-> IF p = a THEN 1 ELSE 2]
MCOneRekeys == [p \in MCPeers |-> IF p = a THEN 2 ELSE 1]
=============================================================================
