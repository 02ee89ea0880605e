----------------------------- MODULE MCPlanner -----------------------------
(* Small instances of Planner for TLC. *)
EXTENDS Planner
\* Every budget off, at zero, below, at and above the sizes that occur.
SmallBudgets == [MaxBytes : {-1, 0, 1, 2, 3, 5}, MaxMessages : {0, 1, 2, 3},
                 SoloAbove : {-1, 0, 1, 2}]
=============================================================================
