---------------------------- MODULE MCNeighbours ----------------------------
EXTENDS Neighbours

CONSTANTS A, B, a1, a2

(* A's ATS knows two addresses of B, so that A can switch; B's knows one. *)
MCUsable == [p \in {A, B} |-> IF p = A THEN {a1, a2} ELSE {a1}]
MCMaxSyn == [p \in {A, B} |-> IF p = A THEN 2 ELSE 1]
=============================================================================
