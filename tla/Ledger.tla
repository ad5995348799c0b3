------------------------------- MODULE Ledger -------------------------------
(***************************************************************************)
(* What the uploads of one machine promise to the backend, without windows, *)
(* clocks or errors.  Polls are numbered in the order they are recorded;    *)
(* every report covers the polls after some base up to the newest one; the  *)
(* base moves only when a report of exactly the open polls was received, or *)
(* when the daemon ends and forgets them.  Uploader.tla implements this.    *)
(***************************************************************************)
EXTENDS Integers

VARIABLES recorded,   \* number of polls recorded so far
          base,       \* polls up to here are settled or forgotten
          issued,     \* reports sent
          received,   \* reports the backend has processed
          acked       \* reports the daemon knows to be processed

vars == <<recorded, base, issued, received, acked>>

Report == [from |-> base, to |-> recorded]
Reports == [from : Nat, to : Nat]

TypeOK == /\ recorded \in Nat /\ base \in Nat /\ base <= recorded
          /\ issued \in SUBSET Reports
          /\ received \in SUBSET issued
          /\ acked \in SUBSET received

Init == /\ recorded = 0 /\ base = 0
        /\ issued = {} /\ received = {} /\ acked = {}

Record == /\ recorded' = recorded + 1
          /\ UNCHANGED <<base, issued, received, acked>>

Issue == /\ base < recorded
         /\ issued' = issued \cup {Report}
         /\ UNCHANGED <<recorded, base, received, acked>>

Receive == /\ \E r \in issued : received' = received \cup {r}
           /\ UNCHANGED <<recorded, base, issued, acked>>

Settle == /\ Report \in received
          /\ acked' = acked \cup {Report}
          /\ base' = recorded
          /\ UNCHANGED <<recorded, issued, received>>

Forget == /\ base' = recorded
          /\ UNCHANGED <<recorded, issued, received, acked>>

Next == Record \/ Issue \/ Receive \/ Settle \/ Forget

Spec == Init /\ [][Next]_vars

-----------------------------------------------------------------------------
\* Two reports cover disjoint polls, or start together and the longer repeats
\* the shorter: a backend that keeps, for each start, the longest report it has
\* received counts no poll twice, in whatever order reports arrive.
Apart(r, s)  == r.to <= s.from \/ s.to <= r.from
NeverOverlap == \A r, s \in issued : r.from = s.from \/ Apart(r, s)

\* That backend loses nothing the daemon was told it has: what was acknowledged
\* is the longest report of its start.
AckedIsLongest == \A a \in acked, r \in issued : r.from = a.from => r.to <= a.to
=============================================================================
