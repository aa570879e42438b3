-------------------------- MODULE LapCheckerProofs --------------------------
(***************************************************************************)
(* Proofs about LapChecker, for every track and every width.               *)
(***************************************************************************)
EXTENDS LapChecker, FiniteSetTheorems, TLAPS

LEMMA PointsFinite == IsFiniteSet(Points) /\ Cardinality(Points) = EndIndex
  BY LapAssumption, FS_Interval, SMT DEF Points

\* The bits of a point lie within the tag, and there is at least one.
LEMMA MaskType ==
    ASSUME NEW i \in Points
    PROVE  Mask(i) \subseteq Bits /\ Mask(i) # {}
  <1> DEFINE b == i % IntBits
  <1>1. b \in 0..(IntBits - 1)
    BY LapAssumption, SMT DEF Points
  <1>2. b \in Int /\ 0 <= b /\ b <= LongBits - 1 /\ LongBits \in Nat
    BY <1>1, LapAssumption, SMT
  <1>3. b..(LongBits - 1) \subseteq Bits /\ b \in Bits /\ b \in b..(LongBits - 1)
    BY <1>2, SMT DEF Bits
  <1>4. Mask(i) = IF b = IntBits - 1 THEN b..(LongBits - 1) ELSE {b}
    BY DEF Mask
  <1> HIDE DEF b
  <1> QED
    BY <1>3, <1>4

LEMMA TypeInit == Init => TypeOK
  <1> SUFFICES ASSUME Init PROVE TypeOK
    OBVIOUS
  <1>1. seen \in Nat
    BY SMT DEF Init
  <1> QED
    BY <1>1 DEF Init, TypeOK

LEMMA TouchedCount ==
    ASSUME TypeOK
    PROVE  IsFiniteSet(touched) /\ Cardinality(touched) \in Nat
  BY PointsFinite, FS_Subset, FS_CardinalityType DEF TypeOK

LEMMA TypeStep == TypeOK /\ [Next]_vars => TypeOK'
  <1> SUFFICES ASSUME TypeOK, [Next]_vars PROVE TypeOK'
    OBVIOUS
  <1>1. ASSUME NEW p \in Points, Touch(p) PROVE TypeOK'
    <2>1. p \in 0..EndIndex
      BY LapAssumption, SMT DEF Points
    <2> QED
      BY <1>1, <2>1, MaskType DEF TypeOK, Touch
  <1>2. CASE ReachEnd
    <2>1. 0 \in 0..EndIndex
      BY LapAssumption, SMT
    <2>2. complete' \in BOOLEAN
      BY <1>2 DEF TypeOK, ReachEnd, LapValid
    <2> QED
      BY <1>2, <2>1, <2>2, TouchedCount DEF TypeOK, ReachEnd, TagAfterLap
  <1>3. CASE StartGame
    BY <1>3 DEF TypeOK, StartGame, TagAtStart
  <1>4. CASE ChangeHands
    BY <1>4 DEF TypeOK, ChangeHands, code
  <1>5. CASE UNCHANGED vars
    BY <1>5 DEF TypeOK, vars, code, history
  <1> QED
    BY <1>1, <1>2, <1>3, <1>4, <1>5 DEF Next

\* The tag stays within its 64 bits, and every other field keeps its type.
THEOREM TypeCorrect == Spec => []TypeOK
  BY TypeInit, TypeStep, PTL DEF Spec

-----------------------------------------------------------------------------
(* The tag is that of this lap *)

LEMMA TagStep == TagIsThisLap /\ [Next]_vars => TagIsThisLap'
  <1> SUFFICES ASSUME TagIsThisLap, [Next]_vars PROVE TagIsThisLap'
    OBVIOUS
  <1>1. ASSUME NEW p \in Points, Touch(p) PROVE TagIsThisLap'
    <2>1. UNION {Mask(q) : q \in touched'} = (UNION {Mask(q) : q \in touched}) \cup Mask(p)
      BY <1>1 DEF Touch
    <2> QED
      BY <1>1, <2>1 DEF Touch, TagIsThisLap
  <1>2. CASE ReachEnd
    BY <1>2 DEF TagIsThisLap, ReachEnd, TagAfterLap
  <1>3. CASE StartGame
    BY <1>3 DEF TagIsThisLap, StartGame, TagAtStart
  <1>4. CASE ChangeHands
    BY <1>4 DEF TagIsThisLap, ChangeHands, code
  <1>5. CASE UNCHANGED vars
    BY <1>5 DEF TagIsThisLap, vars, code, history
  <1> QED
    BY <1>1, <1>2, <1>3, <1>4, <1>5 DEF Next

\* No bit survives from an earlier lap, match or client once the tag was reset.
THEOREM TagInvariant == Spec => []TagIsThisLap
  <1>1. Init => TagIsThisLap
    BY DEF Init, TagIsThisLap
  <1> QED
    BY <1>1, TagStep, PTL DEF Spec

-----------------------------------------------------------------------------
(* What the verdict on a lap says of the points touched *)

\* A point that was touched has its bit set, so at least the touched points count.
LEMMA UntaggedBound ==
    ASSUME TypeOK, TagIsThisLap, known
    PROVE  /\ Cardinality(Untagged(tag)) \in Nat
           /\ Cardinality(Untagged(tag)) <= EndIndex - Cardinality(touched)
  <1>1. Untagged(tag) \subseteq Points \ touched
    <2> SUFFICES ASSUME NEW i \in touched, i \in Points, Mask(i) \cap tag = {}
                 PROVE  FALSE
      BY DEF Untagged
    <2>1. Mask(i) \subseteq tag
      BY DEF TagIsThisLap
    <2> QED
      BY <2>1, MaskType
  <1>2. Points \cap touched = touched
    BY DEF TypeOK
  <1>3. /\ IsFiniteSet(Points \ touched)
        /\ Cardinality(Points \ touched) = EndIndex - Cardinality(touched)
    BY <1>2, PointsFinite, FS_Difference
  <1> QED
    BY <1>1, <1>3, FS_Subset, FS_CardinalityType

\* When the points are no more than the bits of an int, no two points share a bit:
\* exactly the points that were not touched count as missed.
LEMMA UntaggedExact ==
    ASSUME TypeOK, TagIsThisLap, known, EndIndex <= IntBits
    PROVE  Cardinality(Untagged(tag)) = EndIndex - Cardinality(touched)
  <1>1. \A i \in Points : i % IntBits = i
    BY LapAssumption, SMT DEF Points
  <1>2. \A i, j \in Points : i # j => Mask(i) \cap Mask(j) = {}
    <2> TAKE i, j \in Points
    <2> HAVE i # j
    <2>1. /\ i \in Int /\ j \in Int /\ i <= IntBits - 1 /\ j <= IntBits - 1
          /\ IntBits \in Int
      BY LapAssumption, SMT DEF Points
    <2>2. /\ Mask(i) = IF i = IntBits - 1 THEN i..(LongBits - 1) ELSE {i}
          /\ Mask(j) = IF j = IntBits - 1 THEN j..(LongBits - 1) ELSE {j}
      BY <1>1 DEF Mask
    <2>3. CASE i = IntBits - 1
      <3>1. j \notin i..(LongBits - 1) /\ j # IntBits - 1
        BY <2>1, <2>3, SMT
      <3> QED
        BY <2>2, <3>1
    <2>4. CASE i # IntBits - 1
      <3>1. i \notin j..(LongBits - 1) \/ j # IntBits - 1
        BY <2>1, <2>4, SMT
      <3> QED
        BY <2>2, <2>4, <3>1
    <2> QED
      BY <2>3, <2>4
  <1>3. Untagged(tag) = Points \ touched
    <2>1. ASSUME NEW i \in Points, i \notin touched PROVE Mask(i) \cap tag = {}
      BY <1>2, <2>1 DEF TagIsThisLap, TypeOK
    <2>2. ASSUME NEW i \in Points, i \in touched PROVE Mask(i) \cap tag # {}
      <3>1. Mask(i) \subseteq tag
        BY <2>2 DEF TagIsThisLap
      <3> QED
        BY <3>1, MaskType
    <2> QED
      BY <2>1, <2>2 DEF Untagged
  <1>4. Points \cap touched = touched
    BY DEF TypeOK
  <1> QED
    BY <1>3, <1>4, PointsFinite, FS_Difference

\* On any track, a lap is refused only if it missed at least half of the points.
THEOREM NoLapWronglyRefused == Spec => []InvalidLapMissedHalf
  <1>1. Init => InvalidLapMissedHalf
    BY DEF Init, InvalidLapMissedHalf
  <1>2. TypeOK /\ TagIsThisLap /\ InvalidLapMissedHalf /\ [Next]_vars
            => InvalidLapMissedHalf'
    <2> SUFFICES ASSUME TypeOK, TagIsThisLap, InvalidLapMissedHalf, [Next]_vars
                 PROVE  InvalidLapMissedHalf'
      OBVIOUS
    <2>1. CASE ReachEnd
      <3> SUFFICES ASSUME known, ~LapValid(tag) PROVE 2 * seen' <= EndIndex
        BY <2>1 DEF ReachEnd, InvalidLapMissedHalf
      <3>1. seen' = Cardinality(touched) /\ Cardinality(touched) \in Nat
        BY <2>1, TouchedCount DEF ReachEnd
      <3>2. ~(2 * Cardinality(Untagged(tag)) < EndIndex)
        BY DEF LapValid
      <3> QED
        BY <3>1, <3>2, UntaggedBound, LapAssumption, SMT
    <2>2. CASE ~ReachEnd
      BY <2>2 DEF InvalidLapMissedHalf, Next, Touch, StartGame, ChangeHands,
                  vars, history
    <2> QED
      BY <2>1, <2>2
  <1> QED
    BY <1>1, <1>2, TypeCorrect, TagInvariant, PTL DEF Spec

\* On a track with no more points before its end than an int has bits, a lap that
\* is found valid touched more than half of them.  (The shipped track has 41.)
THEOREM ShortTrackHonest ==
    ASSUME EndIndex <= IntBits
    PROVE  Spec => []ValidLapTouchedHalf
  <1>1. Init => ValidLapTouchedHalf
    BY DEF Init, ValidLapTouchedHalf
  <1>2. TypeOK /\ TagIsThisLap /\ ValidLapTouchedHalf /\ [Next]_vars
            => ValidLapTouchedHalf'
    <2> SUFFICES ASSUME TypeOK, TagIsThisLap, ValidLapTouchedHalf, [Next]_vars
                 PROVE  ValidLapTouchedHalf'
      OBVIOUS
    <2>1. CASE ReachEnd
      <3> SUFFICES ASSUME known, LapValid(tag) PROVE 2 * seen' > EndIndex
        BY <2>1 DEF ReachEnd, ValidLapTouchedHalf
      <3>1. seen' = Cardinality(touched) /\ Cardinality(touched) \in Nat
        BY <2>1, TouchedCount DEF ReachEnd
      <3>2. 2 * Cardinality(Untagged(tag)) < EndIndex
        BY DEF LapValid
      <3>3. Cardinality(Untagged(tag)) = EndIndex - Cardinality(touched)
        BY UntaggedExact
      <3> QED
        BY <3>1, <3>2, <3>3, LapAssumption, SMT
    <2>2. CASE ~ReachEnd
      BY <2>2 DEF ValidLapTouchedHalf, Next, Touch, StartGame, ChangeHands,
                  vars, history
    <2> QED
      BY <2>1, <2>2
  <1> QED
    BY <1>1, <1>2, TypeCorrect, TagInvariant, PTL DEF Spec

\* Whenever the tag is not empty, m_LastCheckIndex is a point of this lap.
LastOnThisLap == known /\ tag # {} => last \in touched

\* What is found of the segment up to a point of the track that is not the first.
LEMMA SegmentFound ==
    ASSUME NEW n \in Int, n - 1 \in Points
    PROVE  Found(n) = {n - 1, n}
  <1>1. n - 1 \in 0..EndIndex /\ n \in 0..EndIndex
    BY LapAssumption, SMT DEF Points
  <1> QED
    BY <1>1 DEF Found

LEMMA LastGivesDirection == TypeOK /\ LastOnThisLap => DirectionFromThisLap
  <1> SUFFICES ASSUME TypeOK, LastOnThisLap, known PROVE DirectionFromThisLap
    BY DEF DirectionFromThisLap
  <1>1. CASE tag = {}
    <2>1. IdlesTo = 1 /\ (EndIndex > 0 => 1 - 1 \in Points)
      BY <1>1, LapAssumption, SMT DEF IdlesTo, Points
    <2> QED
      BY <1>1, <2>1, SegmentFound DEF DirectionFromThisLap
  <1>2. CASE tag # {}
    <2>1. last \in touched /\ last \in Points
      BY <1>2 DEF LastOnThisLap, TypeOK
    <2>2. last + 1 \in Int /\ (last + 1) - 1 = last
      BY <2>1, LapAssumption, SMT DEF Points
    <2>3. Found(last + 1) = {last, last + 1}
      BY <2>1, <2>2, SegmentFound
    <2>4. MovesTo = last + 1 /\ IdlesTo = last + 1
      BY <1>2 DEF MovesTo, IdlesTo
    <2> QED
      BY <1>2, <2>1, <2>2, <2>3, <2>4 DEF DirectionFromThisLap
  <1> QED
    BY <1>1, <1>2

\* The direction check never works with a point of an earlier lap, and always finds
\* the segment it needs, on any track.
THEOREM DirectionInvariant == Spec => []DirectionFromThisLap
  <1>1. Init => LastOnThisLap
    BY DEF Init, LastOnThisLap
  <1>2. LastOnThisLap /\ [Next]_vars => LastOnThisLap'
    <2> SUFFICES ASSUME LastOnThisLap, [Next]_vars PROVE LastOnThisLap'
      OBVIOUS
    <2>1. ASSUME NEW p \in Points, Touch(p) PROVE LastOnThisLap'
      BY <2>1 DEF Touch, LastOnThisLap
    <2>2. CASE ReachEnd
      BY <2>2 DEF ReachEnd, TagAfterLap, LastOnThisLap
    <2>3. CASE StartGame
      BY <2>3 DEF StartGame, TagAtStart, LastOnThisLap
    <2>4. CASE ChangeHands
      BY <2>4 DEF ChangeHands, LastOnThisLap
    <2>5. CASE UNCHANGED vars
      BY <2>5 DEF vars, code, history, LastOnThisLap
    <2> QED
      BY <2>1, <2>2, <2>3, <2>4, <2>5 DEF Next
  <1> QED
    BY <1>1, <1>2, LastGivesDirection, TypeCorrect, PTL DEF Spec
=============================================================================
