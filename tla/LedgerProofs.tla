---------------------------- MODULE LedgerProofs ----------------------------
(***************************************************************************)
(* Proofs about Ledger.tla: reports never overlap and nothing acknowledged  *)
(* is superseded by a shorter report.                                       *)
(***************************************************************************)
EXTENDS Ledger, TLAPS

\* A report starts at the base or ended before it; an acknowledged one ended
\* before it.
BaseInv == /\ \A r \in issued : r.from < r.to /\ r.to <= recorded
           /\ \A r \in issued : r.from = base \/ r.to <= base
           /\ \A a \in acked : a.to <= base

LedgerInv == TypeOK /\ BaseInv /\ NeverOverlap /\ AckedIsLongest

LEMMA LedgerStep == LedgerInv /\ [Next]_vars => LedgerInv'
<1> SUFFICES ASSUME LedgerInv, [Next]_vars PROVE LedgerInv'
  OBVIOUS
<1>0. /\ recorded \in Nat /\ base \in Nat /\ base <= recorded
      /\ \A r \in issued : r.from \in Nat /\ r.to \in Nat
      /\ acked \subseteq issued /\ received \subseteq issued /\ acked \subseteq received
  BY DEF LedgerInv, TypeOK, Reports
<1> USE DEF LedgerInv
<1>1. CASE Record
  BY <1>0, <1>1 DEF Record, TypeOK, BaseInv, NeverOverlap, AckedIsLongest, Apart
<1>2. CASE Issue
  <2>1. issued' = issued \cup {Report} /\ UNCHANGED <<recorded, base, received, acked>>
        /\ base < recorded
    BY <1>2 DEF Issue
  <2>2. Report.from = base /\ Report.to = recorded /\ Report \in Reports
    BY <1>0 DEF Report, Reports
  <2>3. TypeOK'
    BY <2>1, <2>2 DEF TypeOK
  <2>4. BaseInv'
    BY <1>0, <2>1, <2>2 DEF BaseInv
  <2>5. NeverOverlap'
    BY <2>1, <2>2 DEF BaseInv, NeverOverlap, Apart
  <2>6. AckedIsLongest'
    <3>1. \A a \in acked : a.from < a.to /\ a.to <= base
      BY <1>0 DEF BaseInv
    <3> QED BY <1>0, <2>1, <2>2, <3>1 DEF AckedIsLongest
  <2> QED BY <2>3, <2>4, <2>5, <2>6
<1>3. CASE Receive
  BY <1>3 DEF Receive, TypeOK, BaseInv, NeverOverlap, AckedIsLongest
<1>4. CASE Settle
  <2>1. /\ Report \in received /\ acked' = acked \cup {Report} /\ base' = recorded
        /\ UNCHANGED <<recorded, issued, received>>
    BY <1>4 DEF Settle
  <2>2. Report.to = recorded
    BY DEF Report
  <2>3. TypeOK' /\ BaseInv'
    BY <1>0, <2>1, <2>2 DEF TypeOK, BaseInv
  <2>4. NeverOverlap'
    BY <2>1 DEF NeverOverlap
  <2>5. AckedIsLongest'
    BY <2>1, <2>2 DEF AckedIsLongest, BaseInv
  <2> QED BY <2>3, <2>4, <2>5
<1>5. CASE Forget
  BY <1>0, <1>5 DEF Forget, TypeOK, BaseInv, NeverOverlap, AckedIsLongest
<1>6. CASE UNCHANGED vars
  BY <1>6 DEF vars, TypeOK, BaseInv, NeverOverlap, AckedIsLongest, Report
<1> QED BY <1>1, <1>2, <1>3, <1>4, <1>5, <1>6 DEF Next

\* Reports are disjoint or extend one another, and what was acknowledged is
\* the longest of its start.
THEOREM LedgerCorrect == Spec => [](NeverOverlap /\ AckedIsLongest)
<1>1. Init => LedgerInv
  BY DEF Init, LedgerInv, TypeOK, BaseInv, NeverOverlap, AckedIsLongest
<1>2. LedgerInv => NeverOverlap /\ AckedIsLongest
  BY DEF LedgerInv
<1> QED BY <1>1, <1>2, LedgerStep, PTL DEF Spec
=============================================================================
