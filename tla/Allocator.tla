----------------------------- MODULE Allocator -----------------------------
(***************************************************************************)
(* What a pool of objects promises: an object is handed to one owner at a  *)
(* time, and the handle of an object dies when the object is given back.   *)
(***************************************************************************)
CONSTANTS Index, Handle

VARIABLES
    busy,     \* the objects that are out
    handle    \* the handle each object answers to

vars == <<busy, handle>>

Init ==
    /\ busy = {}
    /\ handle \in [Index -> Handle]

Allocate(i) ==
    /\ i \notin busy
    /\ busy' = busy \cup {i}
    /\ UNCHANGED handle

Free(i) ==
    /\ i \in busy
    /\ busy' = busy \ {i}
    /\ \E h \in Handle \ {handle[i]} : handle' = [handle EXCEPT ![i] = h]

Next == \E i \in Index : Allocate(i) \/ Free(i)

Spec == Init /\ [][Next]_vars
=============================================================================
