----------------------------- MODULE LapChecker -----------------------------
(***************************************************************************)
(* How the server recognises a finished lap: the checkpoint part of        *)
(* Game::OnPlayerMove (game.cpp) for one client.  Points 0..EndIndex-1 lie *)
(* along the track and EndIndex is its end point; the client's             *)
(* m_RoadCheckerTag, a uint64, remembers which of them it has touched, as  *)
(* the set of its bits that are 1.                                         *)
(*                                                                         *)
(* The shift `1 << i' that selects the bit of point i is an int shift:     *)
(* the processor takes i modulo IntBits, and the sign bit is extended when *)
(* the result meets the uint64.                                            *)
(***************************************************************************)
EXTENDS Integers, FiniteSets

CONSTANTS
    EndIndex,   \* mIndex of the end point
    IntBits,    \* the width of an int
    LongBits    \* the width of m_RoadCheckerTag

ASSUME LapAssumption ==
    /\ EndIndex \in Nat
    /\ IntBits \in Nat \ {0}
    /\ LongBits \in Nat /\ LongBits >= IntBits

Points == 0..(EndIndex - 1)
Bits   == 0..(LongBits - 1)

VARIABLES
    tag,       \* m_RoadCheckerTag
    last,      \* m_LastCheckIndex
    complete,  \* m_Complete
    \* History
    touched,   \* the points this client has touched on this lap
    known,     \* tag has been reset since this client took the slot
    verdict,   \* what the last visit to the end point was found to be
    seen       \* how many points had been touched at that visit

code    == <<tag, last, complete>>
history == <<touched, known, verdict, seen>>
vars    == <<code, history>>

-----------------------------------------------------------------------------
\* 1 << i, as a uint64
Mask(i) ==
    LET b == i % IntBits
    IN  IF b = IntBits - 1 THEN b..(LongBits - 1) ELSE {b}

\* The loop of OnPlayerMove: the points whose bit is not set in t.
Untagged(t) == {i \in Points : Mask(i) \cap t = {}}

\* Variant: the count of touched points is what has to stay below half.
LapValid_Swapped(t) == 2 * Cardinality(Points \ Untagged(t)) < EndIndex

\* untag_count < p.mIndex * 0.5f
LapValid(t) == 2 * Cardinality(Untagged(t)) < EndIndex

\* Variant: the bits of an invalid lap are kept.
TagAfterLap_Kept(t) == IF LapValid(t) THEN {} ELSE t

\* m_RoadCheckerTag after the end point: both branches reset it.
TagAfterLap(t) == {}

\* Variant: the tag of the last match stays.
TagAtStart_Kept == tag

\* m_RoadCheckerTag after StartGame
TagAtStart == {}

\* The point a moving client heads for, and the one an idle client is shown the way to.
MovesTo == IF tag = {} THEN 0 ELSE last + 1
IdlesTo == IF tag = {} THEN 1 ELSE last + 1

\* The points that CheckDir and GetDir find for the segment of the track up to point n.
Found(n) == {n - 1, n} \cap 0..EndIndex

-----------------------------------------------------------------------------
\* A position within reach of point p, which is not the end point.
Touch(p) ==
    /\ last'    = p
    /\ tag'     = tag \cup Mask(p)
    /\ touched' = touched \cup {p}
    /\ UNCHANGED <<complete, known, verdict, seen>>

\* A position within reach of the end point.
ReachEnd ==
    /\ last'     = 0
    /\ tag'      = TagAfterLap(tag)
    /\ complete' = (complete \/ LapValid(tag))
    /\ verdict'  = IF ~known THEN "unknown" ELSE IF LapValid(tag) THEN "valid" ELSE "invalid"
    /\ seen'     = Cardinality(touched)
    /\ touched'  = {}
    /\ known'    = TRUE

\* StartGame resets the tag and m_Complete of every player, not m_LastCheckIndex.
StartGame ==
    /\ tag'      = TagAtStart
    /\ complete' = FALSE
    /\ touched'  = {}
    /\ known'    = TRUE
    /\ UNCHANGED <<last, verdict, seen>>

\* The slot passes to a new client: OnConnected resets nothing of this.
ChangeHands ==
    /\ touched' = {}
    /\ known'   = FALSE
    /\ UNCHANGED <<code, verdict, seen>>

\* The pool's memory comes from new[]: the fields hold anything.
Init ==
    /\ tag \in SUBSET Bits
    /\ last \in 0..EndIndex
    /\ complete \in BOOLEAN
    /\ touched = {} /\ known = FALSE
    /\ verdict = "unknown" /\ seen = 0

Next ==
    \/ \E p \in Points : Touch(p)
    \/ ReachEnd
    \/ StartGame
    \/ ChangeHands

Spec == Init /\ [][Next]_vars

-----------------------------------------------------------------------------
(* Properties *)

\* Every variable keeps its type, and the tag its width.
TypeOK ==
    /\ tag \in SUBSET Bits
    /\ last \in 0..EndIndex
    /\ complete \in BOOLEAN
    /\ touched \subseteq Points
    /\ known \in BOOLEAN
    /\ verdict \in {"unknown", "valid", "invalid"}
    /\ seen \in Nat

\* Once it has been reset, the tag holds the bits of the points touched on this lap
\* and no others: nothing is carried over from a lap, a match or a client.
TagIsThisLap == known => tag = UNION {Mask(p) : p \in touched}

\* The comment of game.cpp:170: a lap that is found valid touched more than half
\* of the points.
ValidLapTouchedHalf == verdict = "valid" => 2 * seen > EndIndex

\* And no lap that touched more than half of them is refused, on any track.
InvalidLapMissedHalf == verdict = "invalid" => 2 * seen <= EndIndex

\* On a lap that has begun, a client's heading is compared with the segment after a
\* point touched on this lap, though StartGame leaves m_LastCheckIndex stale; and both
\* ends of the segment that an idle client is shown are always found on the track.
DirectionFromThisLap ==
    known =>
        /\ tag # {} => last \in touched /\ Found(MovesTo) = {last, last + 1}
        /\ EndIndex > 0 => Found(IdlesTo) = {IdlesTo - 1, IdlesTo}
=============================================================================
