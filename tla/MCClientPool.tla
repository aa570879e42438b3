---------------------------- MODULE MCClientPool ----------------------------
(* Instances of ClientPool for TLC. *)
EXTENDS ClientPool

CONSTANT MaxFrees   \* a bound on how often each object is freed

Bounded     == \A i \in Index : frees[i] < MaxFrees
BoundedNext == ServerNext /\ (Accept => Bounded)
BoundedSpec == ServerInit /\ [][BoundedNext]_svars
=============================================================================
