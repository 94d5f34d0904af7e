------------------------- MODULE MCBudgetActivities -------------------------
(* Instances of BudgetActivities for TLC. *)
EXTENDS BudgetActivities, TLC

Symmetry == Permutations(Workflows)
=============================================================================
