------------------------------- MODULE MCGame -------------------------------
(* Instances of Game for TLC. *)
EXTENDS Game, TLC

CONSTANTS c1, c2, c3   \* model values: the elements of the pool

TwoSlots   == {c1, c2}
ThreeSlots == {c1, c2, c3}
Symmetric  == Permutations(ThreeSlots)

OneStep  == {1}
TwoSteps == {1, 2}

=============================================================================
