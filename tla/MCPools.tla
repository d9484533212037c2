------------------------------ MODULE MCPools -------------------------------
(* An instance of Pools: records of 4, blocks of 7 that hold one full record *)
(* and a short one behind it, responses of two or three records.              *)
EXTENDS Pools, TLC

CONSTANTS c1, c2

TwoConns == {c1, c2}
Symmetric == Permutations(TwoConns)

MCShapes == {<<2, 3>>, <<2, 6>>, <<2, 7>>, <<2, 9>>, <<2, 10>>}
AllFaults == {"nomem", "swaps", "refuses"}
=============================================================================
