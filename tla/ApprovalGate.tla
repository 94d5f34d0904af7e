---------------------------- MODULE ApprovalGate ----------------------------
(***************************************************************************)
(* What the human-in-the-loop gate of AgentTaskWorkflow promises, without  *)
(* activities, retries, signals or timers: a task that needs a review      *)
(* enters it at most once, leaves it at most once and never comes back,    *)
(* and the language model is called for it only after an approval.         *)
(***************************************************************************)
VARIABLES
    required,   \* does this task need a review?  Fixed when the task starts
    gate,       \* PendingApprovalState
    called      \* has the language model been called for this task?

gateVars == <<required, gate, called>>

\* PendingApprovalState, src/control_plane/scheduler.py
PendingApprovalState ==
    {"not-required", "awaiting-approval", "approved", "denied", "timed-out"}

GateInit ==
    /\ required \in BOOLEAN
    /\ gate = "not-required"
    /\ called = FALSE

Enter ==
    /\ required
    /\ gate = "not-required"
    /\ gate' = "awaiting-approval"
    /\ UNCHANGED <<required, called>>

Resolve ==
    /\ gate = "awaiting-approval"
    /\ gate' \in {"approved", "denied", "timed-out"}
    /\ UNCHANGED <<required, called>>

Call ==
    /\ gate = IF required THEN "approved" ELSE "not-required"
    /\ called' = TRUE
    /\ UNCHANGED <<required, gate>>

GateNext == Enter \/ Resolve \/ Call

GateSpec == GateInit /\ [][GateNext]_gateVars
=============================================================================
