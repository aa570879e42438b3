---------------------------- MODULE MCDropItems ----------------------------
(* Instances of DropItems for TLC. *)
EXTENDS DropItems, TLC

CONSTANTS
    p1, p2,      \* model values: the players
    MaxRounds,   \* a bound on the number of matches
    MaxAlive,    \* a bound on the items of all matches together
    MaxCoins,    \* a bound on the coins of a player
    MaxGiven     \* a bound on the positions of a type

TwoPlayers == {p1, p2}
TwoKinds   == {1, 2}
OneStep    == {1}

\* Coins: two at first, refreshed up to three.  Obstacles: one at first, never
\* refreshed (as shipped).
ItemType    == <<1, 2>>
ItemInit    == <<2, 1>>
ItemMax     == <<3, 0>>
ItemRefresh == <<1, 0>>

\* Every position is given once: the n-th of type k is <<k, n>>.
Places == DropRows \X (1..MaxGiven)

Bounds ==
    /\ \A k \in DropRows :
        /\ Len(given[k]) <= MaxGiven
        /\ \A n \in 1..Len(given[k]) : given[k][n] = <<k, n>>
    /\ round <= MaxRounds
    /\ Len(alive) <= MaxAlive
    /\ \A p \in Players : gained[p] <= MaxCoins

BoundedSpec == Init /\ [][Next /\ Bounds']_vars
=============================================================================
