-------------------------- MODULE MCHitlEndpoints --------------------------
(* Instances of HitlEndpoints for TLC. *)
EXTENDS HitlEndpoints, TLC

\* No retries but of the call of the model: the retries of the other activities do
\* not interact with the handlers.
OneAttempt == [a \in ActivityCalls |-> IF a = "LLMInvoke" THEN 2 ELSE 1]

Symmetry == Permutations(Approvers) \cup Permutations(Requests)
=============================================================================
