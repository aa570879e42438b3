--------------------------- MODULE MCUdpSessions ---------------------------
(* Instances of UdpSessions for TLC. *)
EXTENDS UdpSessions

CONSTANTS g1, g2, g3   \* model values: the peers

TwoPeers   == {g1, g2}
ThreePeers == {g1, g2, g3}
OneStep    == {1}
TwoSteps   == {1, 2}
=============================================================================
