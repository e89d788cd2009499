----------------------------- MODULE MCGcePool -----------------------------
(* Two environments and two workers: one environment can refresh, start or  *)
(* stop at every point of the other's claim, and either can meet a worker   *)
(* the other has left behind.                                               *)
EXTENDS GcePool, TLC

CONSTANTS left, right, east, west

TwoEnvs == {left, right}
TwoVms == {east, west}
AllFaults == FaultKinds
LostStop == {"stop"}
Symmetry == Permutations(TwoEnvs) \cup Permutations(TwoVms)
============================================================================
