--------------------------- MODULE MCAuditLogger ---------------------------
(* Instances of AuditLogger for TLC. *)
EXTENDS AuditLogger, TLC

Symmetry == Permutations(Threads) \cup Permutations(Tasks)
=============================================================================
