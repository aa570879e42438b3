----------------------------- MODULE GameConfig -----------------------------
(***************************************************************************)
(* The tables that config.lua fills through GameConfig (game_config.cpp):  *)
(* the item positions by type and the checkpoints.                         *)
(*                                                                         *)
(* m_DropItemPositionArray[DROPITEM_COUNT][MAX_DORPITME_POS_COUNT] is one  *)
(* block of memory, row after row.  AddDropItemPosition does not check the *)
(* length of a row: entry n of type k goes to cell k * RowLength + n,      *)
(* whichever row that is; only a cell beyond the block would be outside.   *)
(***************************************************************************)
EXTENDS Integers, Sequences

CONSTANTS
    Types,          \* DROPITEM_COUNT: 0 is DROPITEM_SET_NONE
    RowLength,      \* MAX_DORPITME_POS_COUNT
    MaxPoints,      \* MAX_CHECK_POINT_COUNT
    MaxIndex,       \* 64, the largest index AddCheckPoint accepts
    Positions,      \* the positions that config.lua may add
    NONE

ASSUME ConfigAssumption ==
    /\ Types \in Nat \ {0} /\ RowLength \in Nat \ {0}
    /\ MaxPoints \in Nat /\ MaxIndex \in Nat
    /\ NONE \notin Positions

Rows     == 0..(Types - 1)
DropRows == 1..(Types - 1)
Cells    == 0..(Types * RowLength - 1)

VARIABLES
    cell,       \* m_DropItemPositionArray
    count,      \* m_DropItemPositionCount
    points,     \* m_CheckerPointArray: the indices added, the last one the end
    given       \* history: the positions added for each type, in order

configVars == <<cell, count, points, given>>

Cell(k, n) == k * RowLength + n

-----------------------------------------------------------------------------
\* GameConfig::Init clears the counts.
ConfigInit ==
    /\ cell = [c \in Cells |-> NONE]
    /\ count = [k \in Rows |-> 0]
    /\ points = <<>>
    /\ given = [k \in Rows |-> <<>>]

\* Variant: the count is advanced before the entry is written.
Slot_AfterCount(k) == Cell(k, count[k] + 1)

\* Where AddDropItemPosition writes.
Slot(k) == Cell(k, count[k])

\* AddDropItemPosition of a valid type; within the block, what happens to the other
\* rows is defined by the layout.
AddDropItemPosition(k, p) ==
    /\ k \in DropRows
    /\ Slot(k) \in Cells
    /\ cell'  = [cell EXCEPT ![Slot(k)] = p]
    /\ count' = [count EXCEPT ![k] = @ + 1]
    /\ given' = [given EXCEPT ![k] = Append(@, p)]
    /\ UNCHANGED points

PointFits == Len(points) < MaxPoints

\* AddCheckPoint of an index in range; any other is refused.
AddCheckPoint(i) ==
    /\ i \in 0..MaxIndex
    /\ PointFits
    /\ points' = Append(points, i)
    /\ UNCHANGED <<cell, count, given>>

\* CopyDropItemPosition's index into the row of type k, for the n-th item
Index(k, n) == n % count[k]

\* What it copies.
CopyDropItemPosition(k, n) == cell[Cell(k, Index(k, n))]

\* A call of the script.
ConfigNext ==
    \/ \E k \in DropRows, p \in Positions : AddDropItemPosition(k, p)
    \/ \E i \in 0..MaxIndex : AddCheckPoint(i)

-----------------------------------------------------------------------------
(* Properties *)

\* Every table keeps its type, and the checkpoints their bound.
ConfigTypeOK ==
    /\ cell \in [Cells -> Positions \cup {NONE}]
    /\ count \in [Rows -> Nat]
    /\ points \in Seq(0..MaxIndex) /\ Len(points) <= MaxPoints
    /\ given \in [Rows -> Seq(Positions)]

\* No type has been given more positions than its row holds.
WithinRows == \A k \in DropRows : count[k] <= RowLength

\* The items of a type are created at the positions that were given for it, in
\* their order (CopyDropItemPosition): this is what config.lua:57 and config.lua:80
\* set up.
PositionsAsGiven ==
    \A k \in DropRows : \A n \in 1..Len(given[k]) :
        CopyDropItemPosition(k, n - 1) = given[k][n]
=============================================================================
