------------------------ MODULE MCAgentTaskWorkflow ------------------------
(* Instances of AgentTaskWorkflow for TLC. *)
EXTENDS AgentTaskWorkflow

\* The retry policies as written in scheduler.py.
CodeAttempts ==
    [a \in ActivityCalls |->
        CASE a \in {"PolicyEval", "BudgetPreCheck"} -> 1
          [] a = "LLMInvoke" -> 5
          [] OTHER -> 3]

=============================================================================
