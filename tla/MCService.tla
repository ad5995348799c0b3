----------------------------- MODULE MCService -----------------------------
(* Model values for the instances of Service that TLC checks. *)
EXTENDS Service, TLC
CONSTANTS h1, h2, site, p1, p2, n1, n2, r1, r2

TwoPublic   == {h1, h2}
WithSite    == {h1, h2, site}
OneOwner    == {p1}
TwoOwners   == {p1, p2}
TwoNames    == {n1, n2}
OneName     == {n1}
SecondName  == {n2}
NoNames     == {}
NoLoops     == {}
OneReading  == {r1}
TwoReadings == {r1, r2}
OneLoop     == {"http"}

\* Nothing tells one public host, or one owner, from another.
Alike == Permutations(TwoPublic) \cup Permutations(TwoOwners)
=============================================================================
