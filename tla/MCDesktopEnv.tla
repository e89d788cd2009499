---------------------------- MODULE MCDesktopEnv ----------------------------
(***************************************************************************)
(* Three worker processes on one host with one trial each, or two of which  *)
(* one runs two trials.                                                     *)
(***************************************************************************)
EXTENDS DesktopEnv, TLC

CONSTANTS p1, p2, p3

MCProcs == {p1, p2, p3}
MCLoads ==
    {f \in [MCProcs -> 0 .. 2] : \A n \in {0, 1, 2} : \E p \in MCProcs : f[p] = n}
        \cup {[p \in MCProcs |-> 1]}
Symmetry == Permutations(MCProcs)
=============================================================================
