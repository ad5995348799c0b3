----------------------------- MODULE MCIdentity -----------------------------
(* Model values for the instances of Identity that TLC checks. *)
EXTENDS Identity
CONSTANTS c1, c2, c3, i1, i2, i3

TwoCallers   == {c1, c2}
ThreeCallers == {c1, c2, c3}
ThreeIds     == {i1, i2, i3}
=============================================================================
