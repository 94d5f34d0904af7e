-------------------------- MODULE MCLoopActivities --------------------------
(* LoopActivities on a small instance.                                     *)
EXTENDS LoopActivities, TLC

MCSymmetry == Permutations(Workers) \cup Permutations(Keys)
=============================================================================
