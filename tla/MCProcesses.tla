---------------------------- MODULE MCProcesses ----------------------------
(* Values for the instance of Processes that TLC checks: one pid, since pids do *)
(* not depend on each other, and two programs that may take it.                *)
EXTENDS Processes
CONSTANTS p1, g1, g2, none
TwoPrograms == {g1, g2}
OnePid      == {p1}
=============================================================================
