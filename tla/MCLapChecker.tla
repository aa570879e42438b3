---------------------------- MODULE MCLapChecker ----------------------------
(* Instances of LapChecker for TLC. *)
EXTENDS LapChecker

\* The shipped track (roadchecker.json: points 0..40, end point 41) with the real
\* widths, for a client that drives the points in their order but may go for the
\* end point at any time, from a tag that is already reset.
InOrder == {p \in Points : (touched = {} /\ p = 0) \/ (touched # {} /\ p = last + 1)}

DriveInOrder == (\E p \in InOrder : Touch(p)) \/ ReachEnd

ShippedTrack ==
    /\ tag = {} /\ last = 0 /\ complete = FALSE
    /\ touched = {} /\ known = TRUE
    /\ verdict = "unknown" /\ seen = 0
    /\ [][DriveInOrder]_vars
=============================================================================
