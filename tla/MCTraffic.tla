----------------------------- MODULE MCTraffic -----------------------------
(* Values for the instances of Traffic that TLC checks: two processes and one *)
(* host, a TCP socket that both may hold and a UDP socket of the first.       *)
EXTENDS Traffic
CONSTANTS t, u, d1

TwoSockets == {t, u}
OneFlow    == {u}
ThreeKeys  == {<<1, t>>, <<2, t>>, <<1, u>>}
Https      == [s \in TwoSockets |-> 443]
OneHost    == [s \in TwoSockets |-> d1]
AllBuilds  == {"linux", "darwin", "other"}
OnLinux    == {"linux"}
TwoInUse   == Cardinality(open \cup DOMAIN samples \cup {k \in Keys : owed[k] # 0 \/ ConnOf(k) \in DOMAIN conns}) <= 2

\* What the last poll leaves is checked, and what the sockets do after it is not
\* followed: no poll would see it.
InPlay     == TwoInUse /\ clock < MaxTime
=============================================================================
