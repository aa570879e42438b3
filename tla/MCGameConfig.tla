---------------------------- MODULE MCGameConfig ----------------------------
(* Instances of GameConfig for TLC. *)
EXTENDS GameConfig

CONSTANTS a, b   \* model values: two positions

TwoPositions == {a, b}

\* The shipped script: 126 coins (drop_coin.json) of type 1 at a, then 10 obstacles
\* (drop_obstacle.json) of type 3 at b, into rows of 50.
Shipped == [k \in Rows |-> IF k = 1 THEN 126 ELSE IF k = 3 THEN 10 ELSE 0]

RunScript ==
    \/ count[1] < Shipped[1] /\ AddDropItemPosition(1, a)
    \/ count[1] = Shipped[1] /\ count[3] < Shipped[3] /\ AddDropItemPosition(3, b)

ScriptSpec == ConfigInit /\ [][RunScript]_configVars
=============================================================================
