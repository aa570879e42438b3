------------------------------- MODULE Match -------------------------------
(***************************************************************************)
(* What the game promises its clients, with neither clocks nor messages:   *)
(* matches follow one another through fixed phases, a match lives as long  *)
(* as it has a player, and one that is closed takes all its members along. *)
(* Game implements this specification.                                     *)
(***************************************************************************)
CONSTANT Slots

VARIABLES
    phase,     \* where the match is
    members,   \* the clients that have introduced themselves
    players    \* those of them that race; the others watch

vars == <<phase, members, players>>

Init ==
    /\ phase = "None"
    /\ members = {} /\ players = {}

\* A client introduces itself; it may later turn into an observer, for good.
Play(s) ==
    /\ s \notin members
    /\ members' = members \cup {s}
    /\ players' = players \cup {s}
    /\ UNCHANGED phase

Watch(s) ==
    /\ s \notin members \/ s \in players
    /\ members' = members \cup {s}
    /\ players' = players \ {s}
    /\ UNCHANGED phase

\* A client leaves while another player remains, or between two matches.
Leave(s) ==
    /\ s \in members
    /\ players \ {s} # {} \/ phase = "Wait"
    /\ members' = members \ {s}
    /\ players' = players \ {s}
    /\ UNCHANGED phase

\* The end of a match, and what the last player's departure does.
Close ==
    /\ phase # "Wait"
    /\ phase' = "Wait"
    /\ members' = {}
    /\ players' = {}

\* A client stops the match: everyone stays.
Abort == phase # "Wait" /\ phase' = "Wait"

Gather  == phase \in {"None", "Wait"}  /\ phase' = "Load"
Show    == phase = "Load"              /\ phase' = "Show"
Start   == phase = "Show"              /\ phase' \in {"Play", "Balance"}
Balance == phase = "Play"              /\ phase' = "Balance"
Publish == phase = "Balance"           /\ phase' = "SyncScore"

Advance ==
    /\ Abort \/ Gather \/ Show \/ Start \/ Balance \/ Publish
    /\ UNCHANGED <<members, players>>

Next ==
    \/ \E s \in Slots : Play(s) \/ Watch(s) \/ Leave(s)
    \/ Close
    \/ Advance

Spec == Init /\ [][Next]_vars

=============================================================================
