------------------------- MODULE AgentTaskWorkflow -------------------------
(***************************************************************************)
(* One execution of the Temporal workflow AgentTaskWorkflow                *)
(* (src/control_plane/scheduler.py): the stages of the governance loop,    *)
(* each an activity with a retry policy and a schedule-to-close timeout,   *)
(* and the pending-approval gate with its signals and its durable timer.   *)
(*                                                                         *)
(* Workflow code is deterministic and replayed, so its state survives a    *)
(* crash of the worker; an activity attempt does not.  No activity sets a  *)
(* start-to-close or a heartbeat timeout, so the server learns of a lost   *)
(* attempt only when the schedule-to-close timeout fires, and an attempt   *)
(* that is merely slow then goes on running after the workflow has moved   *)
(* on: it is kept in "zombies" until it has run or its worker dies.        *)
(***************************************************************************)
EXTENDS Naturals, Sequences, FiniteSets

CONSTANTS
    Approvers,          \* who may sign an approve or deny signal
    MaximumAttempts,    \* RetryPolicy.maximum_attempts of each activity call
    NONE                \* Python's None

VARIABLES
    inp,                \* the two facts of WorkflowInput the control depends on
    pc,                 \* the await run() is suspended in, or how it ended
    attempt,            \* activity.info().attempt of the activity pc awaits
    attempt_state,      \* how far that attempt has got
    zombies,            \* activity calls given up on whose attempt still runs
    workflow_status,
    approval_state,
    approval_signal,
    pending_since,      \* is _pending_since_epoch_seconds set?
    log                 \* audit events and model calls, in order of emission

workflowState == <<workflow_status, approval_state, approval_signal, pending_since>>
vars == <<inp, pc, attempt, attempt_state, zombies, workflowState, log>>

\* The calls of workflow.execute_activity in run() and _await_pending_approval();
\* the four "...Audit" calls are all of the activity WorkflowAudit.
Pipeline ==
    {"PrePIIScrub", "PolicyEval", "JITTokenIssue", "BudgetPreCheck",
     "LLMInvoke", "BudgetRecordSpend", "PostSanitize"}
AuditCalls == {"PendingAudit", "TimeoutAudit", "DecisionAudit", "FailedAudit", "HitlAudit"}
ActivityCalls == Pipeline \cup AuditCalls

ASSUME AttemptsAssumption == MaximumAttempts \in [ActivityCalls -> Nat \ {0}]

\* "suspended": run() raised HITLEscalationError, which is no Temporal failure
\* type; the SDK fails the workflow task and retries it for ever.
Closed == {"completed", "failed"}
WorkflowPoints == ActivityCalls \cup Closed \cup {"created", "wait_condition", "suspended"}

WorkflowStatus ==
    {"pending", "running", "completed", "failed", "human_intervention_required",
     "denied", "timed-out"}

PendingApprovalState ==
    {"not-required", "awaiting-approval", "approved", "denied", "timed-out"}

ApprovalSignalPayload == [approver_id : Approvers, approved : BOOLEAN]

ASSUME NoneAssumption == NONE \notin ApprovalSignalPayload

Events ==
    {"workflow.started", "policy.allowed", "policy.denied", "token.issued",
     "budget.pre_check", "llm.retried", "adapter.complete", "workflow.pending_approval",
     "workflow.timed_out", "workflow.approved", "workflow.denied", "workflow.failed",
     "workflow.hitl_required", "workflow.completed"}

Logged(e) == \E i \in DOMAIN log : log[i] = e

TypeOK ==
    /\ inp \in [needs_approval : BOOLEAN, budgeted : BOOLEAN]
    /\ pc \in WorkflowPoints
    /\ attempt \in Nat
    /\ pc \in ActivityCalls => attempt \in 1..MaximumAttempts[pc]
    /\ attempt_state \in {"scheduled", "started", "ok", "retryable", "non_retryable", "lost"}
    /\ zombies \in [ActivityCalls -> Nat]
    /\ workflow_status \in WorkflowStatus
    /\ approval_state \in PendingApprovalState
    /\ approval_signal \in ApprovalSignalPayload \cup {NONE}
    /\ pending_since \in BOOLEAN
    /\ log \in Seq(Events)

Init ==
    /\ inp \in [needs_approval : BOOLEAN, budgeted : BOOLEAN]
    /\ pc = "created"
    /\ attempt = 0
    /\ attempt_state = "scheduled"
    /\ zombies = [a \in ActivityCalls |-> 0]
    /\ workflow_status = "pending"
    /\ approval_state = "not-required"
    /\ approval_signal = NONE
    /\ pending_since = FALSE
    /\ log = <<>>

-----------------------------------------------------------------------------
(***************************************************************************)
(* Workflow code: what run() does from one await to the next.              *)
(***************************************************************************)
Goto(point) ==
    /\ pc' = point
    /\ attempt' = IF point \in ActivityCalls THEN 1 ELSE attempt
    /\ attempt_state' = "scheduled"

Start ==
    /\ pc = "created"
    /\ workflow_status' = "running"
    /\ pending_since' = FALSE
    /\ Goto("PrePIIScrub")
    /\ UNCHANGED <<inp, zombies, approval_state, approval_signal, log>>

\* _await_pending_approval, up to its first await.
EnterGate ==
    /\ approval_state' = "awaiting-approval"
    /\ workflow_status' = "human_intervention_required"
    /\ pending_since' = TRUE
    /\ Goto("PendingAudit")
    /\ UNCHANGED approval_signal

\* Mutant of Resume: the budget pre-check is forgotten.
ResumeUnchecked == Goto("LLMInvoke") /\ UNCHANGED workflowState

\* Behind the gate: the budget pre-check is skipped for a task without a budget.
Resume ==
    /\ Goto(IF inp.budgeted THEN "BudgetPreCheck" ELSE "LLMInvoke")
    /\ UNCHANGED workflowState

Proceed(point) == Goto(point) /\ UNCHANGED workflowState

\* The activity pc awaits has completed.
Continue ==
    CASE pc = "PrePIIScrub"       -> Proceed("PolicyEval")
      [] pc = "PolicyEval"        -> Proceed("JITTokenIssue")
      [] pc = "JITTokenIssue"     -> IF inp.needs_approval THEN EnterGate ELSE Resume
      [] pc = "PendingAudit"      -> Proceed("wait_condition")
      [] pc = "TimeoutAudit"      -> Proceed("completed")
      [] pc = "DecisionAudit"     -> IF approval_state = "approved" THEN Resume ELSE Proceed("completed")
      [] pc = "BudgetPreCheck"    -> Proceed("LLMInvoke")
      [] pc = "LLMInvoke"         -> Proceed(IF inp.budgeted THEN "BudgetRecordSpend" ELSE "PostSanitize")
      [] pc = "BudgetRecordSpend" -> Proceed("PostSanitize")
      [] pc = "FailedAudit"       -> Proceed("failed")
      [] pc = "HitlAudit"         -> Proceed("suspended")
      [] OTHER                    -> /\ pc = "PostSanitize"
                                     /\ workflow_status' = "completed"
                                     /\ Goto("completed")
                                     /\ UNCHANGED <<approval_state, approval_signal, pending_since>>

\* Mutants of ActivityError: the gate is reset when an activity fails the workflow; the
\* failure of an audit call at the gate is passed over.
ActivityErrorResets(cause) ==
    \/ /\ pc # "LLMInvoke"
       /\ approval_state' = "not-required"
       /\ Goto("failed")
       /\ UNCHANGED <<workflow_status, approval_signal, pending_since>>
    \/ /\ pc = "LLMInvoke"
       /\ IF cause = "non_retryable"
            THEN workflow_status' = "failed" /\ Goto("FailedAudit")
            ELSE workflow_status' = "human_intervention_required" /\ Goto("HitlAudit")
       /\ UNCHANGED <<approval_state, approval_signal, pending_since>>

ActivityErrorPassedOver(cause) ==
    IF pc \in {"PendingAudit", "TimeoutAudit", "DecisionAudit"} THEN Resume ELSE Proceed("failed")

\* execute_activity raises ActivityError.  Only the LLMInvoke call is guarded; the
\* error of any other call leaves run() and fails the workflow as it stands.
ActivityError(cause) ==
    \/ /\ pc # "LLMInvoke"
       /\ Proceed("failed")
    \/ /\ pc = "LLMInvoke"
       /\ IF cause = "non_retryable"
            THEN workflow_status' = "failed" /\ Goto("FailedAudit")
            ELSE workflow_status' = "human_intervention_required" /\ Goto("HitlAudit")
       /\ UNCHANGED <<approval_state, approval_signal, pending_since>>

\* Mutant of ApprovalDecided: the status is left as it was during the wait.
ApprovalDecidedStale ==
    /\ pc = "wait_condition"
    /\ approval_signal # NONE
    /\ approval_state' = IF approval_signal.approved THEN "approved" ELSE "denied"
    /\ pending_since' = FALSE
    /\ Goto("DecisionAudit")
    /\ UNCHANGED <<inp, zombies, workflow_status, approval_signal, log>>

\* wait_condition: the predicate holds.
ApprovalDecided ==
    /\ pc = "wait_condition"
    /\ approval_signal # NONE
    /\ approval_state' = IF approval_signal.approved THEN "approved" ELSE "denied"
    /\ workflow_status' = IF approval_signal.approved THEN "running" ELSE "denied"
    /\ pending_since' = FALSE
    /\ Goto("DecisionAudit")
    /\ UNCHANGED <<inp, zombies, approval_signal, log>>

\* Mutants of ApprovalTimeout: the gate is not marked as timed out; the timer is looked
\* at before the signals.
ApprovalTimeoutUnmarked ==
    /\ pc = "wait_condition"
    /\ approval_signal = NONE
    /\ workflow_status' = "timed-out"
    /\ pending_since' = FALSE
    /\ Goto("TimeoutAudit")
    /\ UNCHANGED <<inp, zombies, approval_state, approval_signal, log>>

ApprovalTimeoutFirst ==
    /\ pc = "wait_condition"
    /\ approval_state' = "timed-out"
    /\ workflow_status' = "timed-out"
    /\ pending_since' = FALSE
    /\ Goto("TimeoutAudit")
    /\ UNCHANGED <<inp, zombies, approval_signal, log>>

\* wait_condition: TimeoutError.  Signal handlers of an activation run before its
\* timers, so a recorded signal always wins over a timer that fired with it.
ApprovalTimeout ==
    /\ pc = "wait_condition"
    /\ approval_signal = NONE
    /\ approval_state' = "timed-out"
    /\ workflow_status' = "timed-out"
    /\ pending_since' = FALSE
    /\ Goto("TimeoutAudit")
    /\ UNCHANGED <<inp, zombies, approval_signal, log>>

\* Mutant of Signal: the handlers do not look at the state of the gate.
SignalUnguarded(decision) ==
    /\ pc \notin Closed
    /\ approval_signal' = decision
    /\ UNCHANGED <<inp, pc, attempt, attempt_state, zombies,
                   workflow_status, approval_state, pending_since, log>>

\* The signal handlers "approve" and "deny", which differ in name only.  A closed
\* workflow takes no signal; while an activity is in flight the handler still runs.
Signal(decision) ==
    /\ pc \notin Closed
    /\ approval_signal' = IF approval_state = "awaiting-approval" THEN decision ELSE approval_signal
    /\ UNCHANGED <<inp, pc, attempt, attempt_state, zombies,
                   workflow_status, approval_state, pending_since, log>>

-----------------------------------------------------------------------------
(***************************************************************************)
(* Activities: an attempt is scheduled, started by a worker, runs its body *)
(* (emitting what the body emits) and is reported to the server.           *)
(***************************************************************************)

\* What the body of an attempt that succeeds emits.
EmitsOnSuccess(a, n) ==
    CASE a = "PrePIIScrub"    -> <<"workflow.started">>
      [] a = "PolicyEval"     -> <<"policy.allowed">>
      [] a = "JITTokenIssue"  -> <<"token.issued">>
      [] a = "BudgetPreCheck" -> <<"budget.pre_check">>
      [] a = "LLMInvoke"      -> IF n > 1 THEN <<"llm.retried", "adapter.complete">>
                                          ELSE <<"adapter.complete">>
      [] a = "PostSanitize"   -> <<"workflow.completed">>
      [] a = "PendingAudit"   -> <<"workflow.pending_approval">>
      [] a = "TimeoutAudit"   -> <<"workflow.timed_out">>
      [] a = "DecisionAudit"  -> IF approval_state = "approved" THEN <<"workflow.approved">>
                                                                ELSE <<"workflow.denied">>
      [] a = "FailedAudit"    -> <<"workflow.failed">>
      [] a = "HitlAudit"      -> <<"workflow.hitl_required">>
      [] OTHER                -> <<>>

\* What an attempt that raises may have emitted before it did.  PrePIIScrub reports
\* the start before it looks for an injection; PolicyEval audits its verdict before it
\* raises a denial or masks the prompt; LLMInvoke may fail before, in or after the call.
\* The others emit last and raise before.
EmitsOnFailure(a, n) ==
    CASE a = "PrePIIScrub" -> {<<>>, <<"workflow.started">>}
      [] a = "PolicyEval"  -> {<<>>, <<"policy.denied">>, <<"policy.allowed">>}
      [] a = "LLMInvoke"   -> IF n > 1 THEN {<<>>, <<"llm.retried">>, <<"llm.retried", "adapter.complete">>}
                                       ELSE {<<>>, <<"adapter.complete">>}
      [] OTHER             -> {<<>>}

\* The calls whose body raises an error of a non-retryable type.
NonRetryable == {"PolicyEval", "BudgetPreCheck", "LLMInvoke", "BudgetRecordSpend"}

StartAttempt ==
    /\ pc \in ActivityCalls
    /\ attempt_state = "scheduled"
    /\ attempt_state' = "started"
    /\ UNCHANGED <<inp, pc, attempt, zombies, workflowState, log>>

RunBody ==
    /\ pc \in ActivityCalls
    /\ attempt_state = "started"
    /\ \/ /\ attempt_state' = "ok"
          /\ log' = log \o EmitsOnSuccess(pc, attempt)
       \/ /\ attempt_state' \in {"retryable"} \cup (IF pc \in NonRetryable THEN {"non_retryable"} ELSE {})
          /\ \E emitted \in EmitsOnFailure(pc, attempt) : log' = log \o emitted
    /\ UNCHANGED <<inp, pc, attempt, zombies, workflowState>>

\* The result reaches the server: completion, another attempt, or ActivityError.
ReportOk ==
    /\ pc \in ActivityCalls
    /\ attempt_state = "ok"
    /\ Continue
    /\ UNCHANGED <<inp, zombies, log>>

\* Mutants of Retry: one attempt too many; an attempt that is not counted.
RetryOffByOne ==
    /\ pc \in ActivityCalls
    /\ attempt_state = "retryable"
    /\ attempt <= MaximumAttempts[pc]
    /\ attempt' = attempt + 1
    /\ attempt_state' = "scheduled"
    /\ UNCHANGED <<inp, pc, zombies, workflowState, log>>
RetryUncounted ==
    /\ pc \in ActivityCalls
    /\ attempt_state = "retryable"
    /\ attempt_state' = "scheduled"
    /\ UNCHANGED <<inp, pc, attempt, zombies, workflowState, log>>

Retry ==
    /\ pc \in ActivityCalls
    /\ attempt_state = "retryable"
    /\ attempt < MaximumAttempts[pc]
    /\ attempt' = attempt + 1
    /\ attempt_state' = "scheduled"
    /\ UNCHANGED <<inp, pc, zombies, workflowState, log>>

ReportFailure ==
    /\ pc \in ActivityCalls
    /\ \/ attempt_state = "non_retryable"
       \/ attempt_state = "retryable" /\ attempt = MaximumAttempts[pc]
    /\ ActivityError(attempt_state)
    /\ UNCHANGED <<inp, zombies, log>>

\* Mutant of ScheduleToClose: the WorkflowAudit calls are made without a timeout.
ScheduleToCloseUnset ==
    /\ pc \in Pipeline
    /\ zombies' = [zombies EXCEPT ![pc] = IF attempt_state = "started" THEN attempt ELSE 0]
    /\ ActivityError("timeout")
    /\ UNCHANGED <<inp, log>>

\* schedule_to_close_timeout fires; a started attempt is left running.
ScheduleToClose ==
    /\ pc \in ActivityCalls
    /\ zombies' = [zombies EXCEPT ![pc] = IF attempt_state = "started" THEN attempt ELSE 0]
    /\ ActivityError("timeout")
    /\ UNCHANGED <<inp, log>>

\* An abandoned attempt runs its body; the server ignores its result.
ZombieRuns ==
    \E a \in ActivityCalls :
        /\ zombies[a] # 0
        /\ zombies' = [zombies EXCEPT ![a] = 0]
        /\ \E emitted \in {EmitsOnSuccess(a, zombies[a])} \cup EmitsOnFailure(a, zombies[a]) :
              log' = log \o emitted
        /\ UNCHANGED <<inp, pc, attempt, attempt_state, workflowState>>

\* The worker process dies: every attempt it was running is gone, reported or not.
WorkerCrash ==
    /\ attempt_state' = IF pc \in ActivityCalls /\ attempt_state # "scheduled" THEN "lost" ELSE attempt_state
    /\ zombies' = [a \in ActivityCalls |-> 0]
    /\ UNCHANGED <<inp, pc, attempt, workflowState, log>>

-----------------------------------------------------------------------------
WorkerStep == StartAttempt \/ RunBody \/ ReportOk \/ Retry \/ ReportFailure \/ ZombieRuns
TimerStep == ScheduleToClose \/ ApprovalTimeout
WorkflowNext == Start \/ ApprovalDecided \/ WorkerStep \/ TimerStep \/ WorkerCrash

Next == WorkflowNext \/ \E decision \in ApprovalSignalPayload : Signal(decision)

Spec == Init /\ [][Next]_vars

\* The server fires its durable timers and the worker goes on executing workflow
\* tasks; no fairness is assumed of activity attempts, signals or crashes.
Fairness ==
    /\ WF_vars(Start)
    /\ WF_vars(ApprovalDecided)
    /\ WF_vars(ApprovalTimeout)
    /\ WF_vars(ScheduleToClose)

LiveSpec == Spec /\ Fairness

-----------------------------------------------------------------------------
Calls(n) == Cardinality({i \in 1..n : log[i] = "adapter.complete"})
Retries(n) == Cardinality({i \in 1..n : log[i] = "llm.retried"})
LoggedBefore(e, i) == \E j \in 1..(i - 1) : log[j] = e

\* Every call of the model, also one made by a retried or an abandoned LLMInvoke
\* attempt, comes after the policy allowed the task, a token was issued, the review
\* (if the projected spend asks for one) was approved and audited as approved, and
\* the budget (if there is one) was checked.
GovernedCalls ==
    \A i \in DOMAIN log : log[i] = "adapter.complete" =>
        /\ LoggedBefore("policy.allowed", i)
        /\ LoggedBefore("token.issued", i)
        /\ inp.needs_approval => LoggedBefore("workflow.approved", i)
        /\ inp.budgeted => LoggedBefore("budget.pre_check", i)

\* The verdict is the last decision a signal handler recorded: a signal that comes
\* after the verdict, or after the timeout, leaves no trace in the workflow.
VerdictIsLastSignal ==
    /\ approval_state = "approved" => approval_signal # NONE /\ approval_signal.approved
    /\ approval_state = "denied" => approval_signal # NONE /\ ~ approval_signal.approved
    /\ approval_state = "timed-out" => approval_signal = NONE

\* The audit trail never contradicts the gate: an event that announces a verdict is
\* only ever emitted for that verdict, however often its activity is retried and
\* however late an abandoned attempt emits it.
AuditAgreesWithVerdict ==
    /\ Logged("workflow.approved") => approval_state = "approved"
    /\ Logged("workflow.denied") => approval_state = "denied"
    /\ Logged("workflow.timed_out") => approval_state = "timed-out"

\* A run that returns an output either went through the whole pipeline, or was
\* refused at the gate and never reached the model; its status then says so, in the
\* word of the gate, as run() has it, or as "failed", as ADR-009 has it.  A run that
\* escalates to a human has audited the escalation.
OutcomeConsistent ==
    /\ pc = "completed" =>
        \/ /\ workflow_status = "completed"
           /\ Logged("adapter.complete") /\ Logged("workflow.completed")
        \/ /\ approval_state \in {"denied", "timed-out"}
           /\ workflow_status \in {approval_state, "failed"}
           /\ ~ Logged("adapter.complete") /\ ~ Logged("workflow.completed")
    /\ pc = "suspended" =>
           /\ workflow_status = "human_intervention_required"
           /\ Logged("workflow.hitl_required") /\ ~ Logged("workflow.completed")

\* The model is called at most LLM_RETRY_POLICY.maximum_attempts times, and every
\* call but the first is announced by an llm.retried event of its own.
RetriesAudited ==
    \A n \in DOMAIN log :
        /\ Calls(n) <= MaximumAttempts["LLMInvoke"]
        /\ Calls(n) <= Retries(n) + 1

\* The gate as the workflow implements it: entered and left at most once, a verdict
\* never revised, no call of the model before an approval.
Gate == INSTANCE ApprovalGate WITH
    required <- inp.needs_approval,
    gate <- approval_state,
    called <- Logged("adapter.complete")
ImplementsGate == Gate!GateSpec

\* A task never hangs: whatever attempts are lost and whether or not anybody reviews
\* it, run() ends or escalates, because every wait of run() has a timeout.
Terminates == <>(pc \in Closed \cup {"suspended"})
=============================================================================
