----------------------------- MODULE SlaBreachMC ----------------------------
(***************************************************************************)
(* SlaBreach and its Reports for model checking. Due dates are counted in  *)
(* ticks of the scan's cron: a response is due after one, a resolution     *)
(* after one too, so that one scan can find both overdue.                  *)
(***************************************************************************)
EXTENDS Reports, TLC

DueAtOne == [t \in BreachTypes |-> 1]

ScanSymmetry == Permutations(Scans)
=============================================================================
