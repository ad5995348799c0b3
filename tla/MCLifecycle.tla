---------------------------- MODULE MCLifecycle ----------------------------
(* Model values for the instances of Lifecycle that TLC checks. *)
EXTENDS Lifecycle
CONSTANTS host, box, p1, p2, p3

BothSpaces == {host, box}
OneSpace   == {host}
Unread     == {box}
ThreePids  == {p1, p2, p3}
=============================================================================
