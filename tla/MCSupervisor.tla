---------------------------- MODULE MCSupervisor ----------------------------
(* Instances of Supervisor for TLC. *)
EXTENDS Supervisor, TLC

CONSTANTS p1, p2, p3, p4   \* model values: the process ids

ThreePids == {p1, p2, p3}
FourPids  == {p1, p2, p3, p4}
Symmetric == Permutations(FourPids)
=============================================================================
