---------------------- MODULE AgentTaskWorkflowProofs ----------------------
(***************************************************************************)
(* Theorems about AgentTaskWorkflow, for any set of approvers and any      *)
(* retry policy, and about HitlEndpoints, whose endpoints drive the        *)
(* workflow as its specification allows, so that they carry over.          *)
(***************************************************************************)
EXTENDS HitlEndpoints, FiniteSetTheorems, TLAPS

\* The provers, and their seconds, for a leaf that does not name one.
USE ZenonT(3), SMTT(60), ZenonT(60), SMTT(61)

Emitted(e, s) == \E j \in DOMAIN s : s[j] = e

\* The points of run() by what has happened when it reaches them.
BeforeGate == {"created", "PrePIIScrub", "PolicyEval", "JITTokenIssue"}
AtGate == {"PendingAudit", "wait_condition"}
BehindGate == {"BudgetPreCheck", "LLMInvoke", "BudgetRecordSpend", "PostSanitize",
               "FailedAudit", "HitlAudit", "suspended"}
AfterGate == AtGate \cup BehindGate \cup {"TimeoutAudit", "DecisionAudit"}
AfterPreCheck == BehindGate \ {"BudgetPreCheck"}

GateOpen == approval_state = IF inp.needs_approval THEN "approved" ELSE "not-required"

\* Everything that has to precede a call of the model is in the log.
Cleared ==
    /\ Logged("policy.allowed")
    /\ Logged("token.issued")
    /\ GateOpen
    /\ inp.needs_approval => Logged("workflow.approved")
    /\ inp.budgeted => Logged("budget.pre_check")

\* Where run() is tells how far the gate and the log have got.
PointInv ==
    /\ pc \in BeforeGate => approval_state = "not-required"
    /\ pc \in AtGate => approval_state = "awaiting-approval"
    /\ pc = "TimeoutAudit" => approval_state = "timed-out"
    /\ pc = "DecisionAudit" => approval_state \in {"approved", "denied"}
    /\ pc \in BehindGate => GateOpen
    /\ pc \in AfterGate \cup {"JITTokenIssue"} => Logged("policy.allowed")
    /\ pc \in AfterGate => Logged("token.issued")
    /\ pc \in BehindGate /\ inp.needs_approval => Logged("workflow.approved")
    /\ pc \in AfterPreCheck /\ inp.budgeted => Logged("budget.pre_check")

\* An attempt that has run successfully has left its event.
ReportInv ==
    attempt_state = "ok" =>
        /\ pc = "PolicyEval" => Logged("policy.allowed")
        /\ pc = "JITTokenIssue" => Logged("token.issued")
        /\ pc = "BudgetPreCheck" => Logged("budget.pre_check")
        /\ pc = "DecisionAudit" /\ approval_state = "approved" => Logged("workflow.approved")

\* The gate, its signal, and the attempts given up on.
GateInv ==
    /\ approval_state # "not-required" => inp.needs_approval
    /\ approval_state = "not-required" => approval_signal = NONE
    /\ zombies["LLMInvoke"] # 0 => Cleared
    /\ zombies["TimeoutAudit"] # 0 => approval_state = "timed-out"
    /\ zombies["DecisionAudit"] # 0 => approval_state \in {"approved", "denied"}

\* The inductive invariant.
IInv ==
    /\ TypeOK
    /\ PointInv
    /\ ReportInv
    /\ GateInv
    /\ VerdictIsLastSignal
    /\ AuditAgreesWithVerdict
    /\ GovernedCalls

-----------------------------------------------------------------------------
\* Appending to the log loses nothing, adds what is appended, and moves nothing.
LEMMA LogAppend ==
    ASSUME NEW s \in Seq(Events), log \in Seq(Events), log' = log \o s
    PROVE  /\ log' \in Seq(Events)
           /\ \A e : Logged(e)' <=> Logged(e) \/ Emitted(e, s)
           /\ \A i \in DOMAIN log : i \in DOMAIN log' /\ log'[i] = log[i]
           /\ \A i \in DOMAIN log' : i \notin DOMAIN log => i > Len(log) /\ Emitted(log'[i], s)
<1>1. log' \in Seq(Events) /\ Len(log') = Len(log) + Len(s)
  OBVIOUS
<1>2. \A i \in 1..Len(log) : log'[i] = log[i]
  OBVIOUS
<1>3. \A i \in (Len(log) + 1)..(Len(log) + Len(s)) : log'[i] = s[i - Len(log)]
  OBVIOUS
<1>4. \A j \in 1..Len(s) : log'[j + Len(log)] = s[j] /\ j + Len(log) \in 1..Len(log')
  BY <1>1
<1>5. /\ DOMAIN log = 1..Len(log) /\ DOMAIN s = 1..Len(s) /\ DOMAIN log' = 1..Len(log')
      /\ Len(log) \in Nat /\ Len(s) \in Nat
  BY <1>1
<1>6. \A i \in DOMAIN log' : i \notin DOMAIN log => i > Len(log) /\ Emitted(log'[i], s)
  <2> SUFFICES ASSUME NEW i \in DOMAIN log', i \notin DOMAIN log
               PROVE  i > Len(log) /\ Emitted(log'[i], s)
    OBVIOUS
  <2>1. i \in (Len(log) + 1)..(Len(log) + Len(s)) /\ i - Len(log) \in DOMAIN s
    BY <1>1, <1>5
  <2> QED  BY <2>1, <1>3, <1>5 DEF Emitted
<1>7. ASSUME NEW e PROVE Logged(e)' <=> Logged(e) \/ Emitted(e, s)
  <2>1. ASSUME Logged(e)' PROVE Logged(e) \/ Emitted(e, s)
    BY <2>1, <1>2, <1>5, <1>6 DEF Logged
  <2>2. ASSUME Logged(e) PROVE Logged(e)'
    BY <2>2, <1>1, <1>2, <1>5 DEF Logged
  <2>3. ASSUME Emitted(e, s) PROVE Logged(e)'
    BY <2>3, <1>4, <1>5, ZenonT(60) DEF Logged, Emitted
  <2> QED  BY <2>1, <2>2, <2>3
<1> QED  BY <1>1, <1>2, <1>5, <1>6, <1>7

\* What the body of an attempt of call a may emit.
Emissions(a, n) == {EmitsOnSuccess(a, n)} \cup EmitsOnFailure(a, n)

\* Only LLMInvoke calls the model, and each audit event has one activity that emits it.
LEMMA EmissionFacts ==
    ASSUME NEW a \in ActivityCalls, NEW n \in Nat, NEW s \in Emissions(a, n)
    PROVE  /\ s \in Seq(Events)
           /\ Emitted("adapter.complete", s) => a = "LLMInvoke"
           /\ Emitted("workflow.approved", s) => a = "DecisionAudit" /\ approval_state = "approved"
           /\ Emitted("workflow.denied", s) => a = "DecisionAudit" /\ approval_state # "approved"
           /\ Emitted("workflow.timed_out", s) => a = "TimeoutAudit"
<1>1. ASSUME NEW x, NEW y, NEW e
      PROVE  /\ s = <<>> => ~ Emitted(e, s)
             /\ s = <<x>> => (Emitted(e, s) <=> e = x)
             /\ s = <<x, y>> => (Emitted(e, s) <=> e = x \/ e = y)
  BY DEF Emitted
<1>2. ASSUME NEW x \in Events, NEW y \in Events
      PROVE  <<>> \in Seq(Events) /\ <<x>> \in Seq(Events) /\ <<x, y>> \in Seq(Events)
  OBVIOUS
<1>3. "llm.retried" \in Events /\ "adapter.complete" \in Events
  BY DEF Events
<1>4. CASE a = "LLMInvoke"
  <2>1. s \in {<<>>, <<"llm.retried">>, <<"adapter.complete">>, <<"llm.retried", "adapter.complete">>}
    BY <1>4 DEF Emissions, EmitsOnSuccess, EmitsOnFailure
  <2>2. s \in Seq(Events)
    BY <1>2, <1>3, <2>1, ZenonT(60)
  <2>3. \A e : Emitted(e, s) => e \in {"llm.retried", "adapter.complete"}
    BY <1>1, <2>1
  <2>4. /\ ~ Emitted("workflow.approved", s) /\ ~ Emitted("workflow.denied", s)
        /\ ~ Emitted("workflow.timed_out", s)
    BY <2>3
  <2> QED  BY <1>4, <2>2, <2>4
<1>5. CASE a # "LLMInvoke"
  <2>1. \/ s = <<>>
        \/ \E x \in Events \ {"adapter.complete", "workflow.approved", "workflow.denied",
                              "workflow.timed_out"} : s = <<x>>
        \/ a = "DecisionAudit" /\ approval_state = "approved" /\ s = <<"workflow.approved">>
        \/ a = "DecisionAudit" /\ approval_state # "approved" /\ s = <<"workflow.denied">>
        \/ a = "TimeoutAudit" /\ s = <<"workflow.timed_out">>
    BY <1>5 DEF Emissions, EmitsOnSuccess, EmitsOnFailure, Events,
                ActivityCalls, Pipeline, AuditCalls
  <2>2. s = <<>> \/ \E x \in Events : s = <<x>>
    BY <2>1 DEF Events
  <2>3. s \in Seq(Events)
    BY <1>2, <1>3, <2>2, ZenonT(60)
  <2>4. ~ Emitted("adapter.complete", s)
    BY <1>1, <2>1
  <2>5. Emitted("workflow.approved", s) => a = "DecisionAudit" /\ approval_state = "approved"
    BY <1>1, <2>1
  <2>6. Emitted("workflow.denied", s) => a = "DecisionAudit" /\ approval_state # "approved"
    BY <1>1, <2>1
  <2>7. Emitted("workflow.timed_out", s) => a = "TimeoutAudit"
    BY <1>1, <2>1
  <2> QED  BY <2>3, <2>4, <2>5, <2>6, <2>7
<1> QED  BY <1>4, <1>5

\* What an attempt that succeeds has emitted.
LEMMA SuccessFacts ==
    ASSUME NEW n \in Nat
    PROVE  /\ Emitted("policy.allowed", EmitsOnSuccess("PolicyEval", n))
           /\ Emitted("token.issued", EmitsOnSuccess("JITTokenIssue", n))
           /\ Emitted("budget.pre_check", EmitsOnSuccess("BudgetPreCheck", n))
           /\ approval_state = "approved" =>
                 Emitted("workflow.approved", EmitsOnSuccess("DecisionAudit", n))
BY DEF EmitsOnSuccess, Emitted

-----------------------------------------------------------------------------
\* A step that appends what an attempt of a may emit keeps the properties of the log,
\* if the workflow has got far enough for a to run.
LEMMA EmissionStep ==
    ASSUME IInv, NEW a \in ActivityCalls, NEW n \in Nat, NEW s \in Emissions(a, n),
           log' = log \o s, UNCHANGED <<inp, workflowState>>,
           a = "LLMInvoke" => Cleared,
           a = "TimeoutAudit" => approval_state = "timed-out",
           a = "DecisionAudit" => approval_state \in {"approved", "denied"}
    PROVE  /\ log' \in Seq(Events)
           /\ \A e : Logged(e)' <=> Logged(e) \/ Emitted(e, s)
           /\ GovernedCalls'
           /\ AuditAgreesWithVerdict'
           /\ VerdictIsLastSignal'
<1>0. log \in Seq(Events)
  BY DEF IInv, TypeOK
<1>1. /\ s \in Seq(Events)
      /\ Emitted("adapter.complete", s) => Cleared
      /\ Emitted("workflow.approved", s) => approval_state = "approved"
      /\ Emitted("workflow.denied", s) => approval_state = "denied"
      /\ Emitted("workflow.timed_out", s) => approval_state = "timed-out"
  BY EmissionFacts
<1>2. /\ log' \in Seq(Events)
      /\ \A e : Logged(e)' <=> Logged(e) \/ Emitted(e, s)
      /\ \A i \in DOMAIN log : i \in DOMAIN log' /\ log'[i] = log[i]
      /\ \A i \in DOMAIN log' : i \notin DOMAIN log => i > Len(log) /\ Emitted(log'[i], s)
  BY <1>0, <1>1, LogAppend, ZenonT(60)
<1>3. AuditAgreesWithVerdict'
  BY <1>1, <1>2 DEF IInv, AuditAgreesWithVerdict, workflowState
<1>4. VerdictIsLastSignal'
  BY DEF IInv, VerdictIsLastSignal, workflowState
<1>5. GovernedCalls'
  <2>1. SUFFICES ASSUME NEW i \in DOMAIN log', log'[i] = "adapter.complete"
                 PROVE  /\ LoggedBefore("policy.allowed", i)'
                        /\ LoggedBefore("token.issued", i)'
                        /\ inp.needs_approval => LoggedBefore("workflow.approved", i)'
                        /\ inp.budgeted => LoggedBefore("budget.pre_check", i)'
    BY DEF GovernedCalls
  <2>2. DOMAIN log = 1..Len(log) /\ Len(log) \in Nat /\ i \in Nat
    BY <1>0, <1>2
  <2>3. CASE i \in DOMAIN log
    <3>1. \A j \in 1..(i - 1) : log'[j] = log[j]
      BY <1>2, <2>2, <2>3
    <3>2. \A e : LoggedBefore(e, i) => LoggedBefore(e, i)'
      BY <3>1, ZenonT(60) DEF LoggedBefore
    <3> QED  BY <1>2, <2>1, <2>3, <3>2 DEF IInv, GovernedCalls
  <2>4. CASE i \notin DOMAIN log
    <3>1. Cleared /\ i > Len(log)
      BY <1>1, <1>2, <2>1, <2>4
    <3>2. ASSUME NEW e, Logged(e) PROVE LoggedBefore(e, i)'
      <4>1. PICK j \in 1..Len(log) : log[j] = e
        BY <2>2, <3>2 DEF Logged
      <4>2. j \in 1..(i - 1) /\ log'[j] = e
        BY <1>2, <2>2, <3>1, <4>1
      <4> QED  BY <4>2 DEF LoggedBefore
    <3> QED  BY <3>1, <3>2 DEF Cleared
  <2> QED  BY <2>3, <2>4
<1> QED  BY <1>2, <1>3, <1>4, <1>5

\* A step that leaves the log alone keeps what is said of the log only.
LEMMA SilentStep ==
    ASSUME IInv, UNCHANGED <<inp, log>>
    PROVE  GovernedCalls' /\ \A e : Logged(e)' <=> Logged(e)
BY DEF IInv, GovernedCalls, LoggedBefore, Logged

\* A step of the workflow code: the log stays, run() comes to another point.
LEMMA MoveStep ==
    ASSUME IInv, NEW point \in WorkflowPoints, Goto(point), UNCHANGED <<inp, log>>,
           workflow_status' \in WorkflowStatus, approval_state' \in PendingApprovalState,
           pending_since' \in BOOLEAN, UNCHANGED approval_signal,
           zombies' \in [ActivityCalls -> Nat],
           PointInv', GateInv', VerdictIsLastSignal', AuditAgreesWithVerdict'
    PROVE  IInv'
<1>1. GovernedCalls'
  BY SilentStep
<1>2. TypeOK'
  <2>1. \A a \in ActivityCalls : 1 \in 1..MaximumAttempts[a]
    BY AttemptsAssumption
  <2> QED  BY <2>1 DEF IInv, TypeOK, Goto
<1>3. ReportInv'
  BY DEF ReportInv, Goto
<1> QED  BY <1>1, <1>2, <1>3 DEF IInv

\* Start preserves the inductive invariant.
LEMMA StartPreserves == ASSUME IInv, Start PROVE IInv'
<1>1. \A e : Logged(e)' <=> Logged(e)
  BY SilentStep DEF Start
<1>2. PointInv' /\ GateInv'
  BY <1>1 DEF IInv, Start, Goto, PointInv, GateInv, BeforeGate, AtGate, BehindGate,
              AfterGate, AfterPreCheck, Cleared, GateOpen
<1>3. VerdictIsLastSignal' /\ AuditAgreesWithVerdict'
  BY <1>1 DEF IInv, Start, VerdictIsLastSignal, AuditAgreesWithVerdict
<1>4. "PrePIIScrub" \in WorkflowPoints /\ "running" \in WorkflowStatus
  BY DEF WorkflowPoints, ActivityCalls, Pipeline, WorkflowStatus
<1> QED  BY <1>2, <1>3, <1>4, MoveStep, ZenonT(60) DEF IInv, TypeOK, Start

\* Both ways out of the wait.
LEMMA VerdictPreserves ==
    ASSUME IInv, ApprovalDecided \/ ApprovalTimeout
    PROVE  IInv'
<1> USE DEF ApprovalDecided, ApprovalTimeout
<1>1. \A e : Logged(e)' <=> Logged(e)
  BY SilentStep
<1>2. /\ pc = "wait_condition" /\ approval_state = "awaiting-approval"
      /\ inp.needs_approval /\ Logged("policy.allowed") /\ Logged("token.issued")
  BY DEF IInv, PointInv, GateInv, AtGate, AfterGate
<1>3. PointInv' /\ GateInv'
  BY <1>1, <1>2 DEF IInv, Goto, PointInv, GateInv, BeforeGate, AtGate, BehindGate,
              AfterGate, AfterPreCheck, Cleared, GateOpen
<1>4. VerdictIsLastSignal' /\ AuditAgreesWithVerdict'
  BY <1>1, <1>2 DEF IInv, VerdictIsLastSignal, AuditAgreesWithVerdict
<1>5. /\ workflow_status' \in WorkflowStatus /\ approval_state' \in PendingApprovalState
      /\ {"DecisionAudit", "TimeoutAudit"} \subseteq WorkflowPoints
  BY DEF WorkflowPoints, ActivityCalls, AuditCalls, WorkflowStatus, PendingApprovalState
<1> QED  BY <1>3, <1>4, <1>5, MoveStep, ZenonT(60) DEF IInv, TypeOK

\* EnterGate preserves the inductive invariant.
LEMMA EnterGatePreserves ==
    ASSUME IInv, pc = "JITTokenIssue", attempt_state = "ok", inp.needs_approval,
           EnterGate, UNCHANGED <<inp, zombies, log>>
    PROVE  IInv'
<1>1. \A e : Logged(e)' <=> Logged(e)
  BY SilentStep
<1>2. /\ approval_state = "not-required" /\ approval_signal = NONE
      /\ Logged("policy.allowed") /\ Logged("token.issued")
  BY DEF IInv, PointInv, GateInv, ReportInv, BeforeGate
<1>3. PointInv' /\ GateInv'
  BY <1>1, <1>2 DEF IInv, EnterGate, Goto, PointInv, GateInv, BeforeGate, AtGate, BehindGate,
              AfterGate, AfterPreCheck, Cleared, GateOpen
<1>4. VerdictIsLastSignal' /\ AuditAgreesWithVerdict'
  BY <1>1, <1>2 DEF IInv, EnterGate, VerdictIsLastSignal, AuditAgreesWithVerdict
<1>5. /\ workflow_status' \in WorkflowStatus /\ approval_state' \in PendingApprovalState
      /\ "PendingAudit" \in WorkflowPoints /\ pending_since' \in BOOLEAN
  BY DEF EnterGate, WorkflowPoints, ActivityCalls, AuditCalls, WorkflowStatus, PendingApprovalState
<1> QED  BY <1>3, <1>4, <1>5, MoveStep DEF IInv, TypeOK, EnterGate

\* Every other move of run() leaves the gate as it is.
LEMMA OtherMovePreserves ==
    ASSUME IInv, NEW point \in WorkflowPoints, Goto(point),
           UNCHANGED <<inp, log, approval_state, approval_signal, pending_since>>,
           workflow_status' \in WorkflowStatus,
           zombies' \in [ActivityCalls -> Nat],
           PointInv',
           \A a \in {"LLMInvoke", "TimeoutAudit", "DecisionAudit"} :
              zombies'[a] # 0 => zombies[a] # 0 \/ pc = a
    PROVE  IInv'
<1>1. \A e : Logged(e)' <=> Logged(e)
  BY SilentStep
<1>2. pc = "LLMInvoke" => Cleared
  BY DEF IInv, PointInv, Cleared, BehindGate, AfterGate, AfterPreCheck
<1>3. Cleared => Cleared'
  BY <1>1 DEF Cleared, GateOpen
<1>4. /\ pc = "TimeoutAudit" => approval_state = "timed-out"
      /\ pc = "DecisionAudit" => approval_state \in {"approved", "denied"}
  BY DEF IInv, PointInv
<1>5. GateInv'
  BY <1>2, <1>3, <1>4 DEF IInv, GateInv
<1>6. VerdictIsLastSignal' /\ AuditAgreesWithVerdict'
  BY <1>1 DEF IInv, VerdictIsLastSignal, AuditAgreesWithVerdict
<1> QED  BY <1>5, <1>6, MoveStep DEF IInv, TypeOK

\* Where a completed activity takes run(), except into the gate.
LEMMA ContinueMoves ==
    ASSUME IInv, pc \in ActivityCalls, attempt_state = "ok", Continue,
           ~ (pc = "JITTokenIssue" /\ inp.needs_approval), UNCHANGED <<inp, zombies, log>>
    PROVE  \E point \in WorkflowPoints :
              /\ Goto(point)
              /\ UNCHANGED <<approval_state, approval_signal, pending_since>>
              /\ workflow_status' \in WorkflowStatus
              /\ PointInv'
<1> USE DEF Goto, Proceed, Resume, workflowState
<1>1. /\ \A e : Logged(e)' <=> Logged(e)
      /\ workflow_status \in WorkflowStatus
      /\ "completed" \in WorkflowStatus
  BY SilentStep DEF IInv, TypeOK, WorkflowStatus
<1>2. WorkflowPoints = {"created", "wait_condition", "suspended", "completed", "failed",
                        "PrePIIScrub", "PolicyEval", "JITTokenIssue", "BudgetPreCheck",
                        "LLMInvoke", "BudgetRecordSpend", "PostSanitize", "PendingAudit",
                        "TimeoutAudit", "DecisionAudit", "FailedAudit", "HitlAudit"}
  BY DEF WorkflowPoints, ActivityCalls, Pipeline, AuditCalls, Closed
<1>3. PointInv /\ ReportInv /\ GateInv
  BY DEF IInv
<1> DEFINE Move(point) ==
              /\ Goto(point)
              /\ UNCHANGED <<approval_state, approval_signal, pending_since>>
              /\ workflow_status' \in WorkflowStatus
<1>4. ASSUME NEW point \in WorkflowPoints, Move(point),
             point \in BehindGate => GateOpen,
             point \in AtGate => approval_state = "awaiting-approval",
             point \in BeforeGate => approval_state = "not-required",
             point \notin {"TimeoutAudit", "DecisionAudit"},
             point \in AfterGate \cup {"JITTokenIssue"} => Logged("policy.allowed"),
             point \in AfterGate => Logged("token.issued"),
             point \in BehindGate /\ inp.needs_approval => Logged("workflow.approved"),
             point \in AfterPreCheck /\ inp.budgeted => Logged("budget.pre_check")
      PROVE  PointInv'
  BY <1>1, <1>4 DEF PointInv, GateOpen
<1> USE <1>1, <1>2, <1>3
<1> HIDE DEF Goto
<1> USE DEF BeforeGate, AtGate, BehindGate, AfterGate, AfterPreCheck
<1>5. CASE pc = "PrePIIScrub"
  <2>1. Move("PolicyEval")  BY <1>5 DEF Continue
  <2> QED  BY <1>4, <1>5, <2>1 DEF PointInv
<1>6. CASE pc = "PolicyEval"
  <2>1. Move("JITTokenIssue")  BY <1>6 DEF Continue
  <2> QED  BY <1>4, <1>6, <2>1 DEF PointInv, ReportInv
<1>7. CASE pc = "JITTokenIssue"
  <2>1. Move(IF inp.budgeted THEN "BudgetPreCheck" ELSE "LLMInvoke")  BY <1>7 DEF Continue
  <2>2. GateOpen /\ ~ inp.needs_approval  BY <1>7 DEF PointInv, GateOpen
  <2> QED  BY <1>4, <1>7, <2>1, <2>2 DEF PointInv, ReportInv
<1>8. CASE pc = "PendingAudit"
  <2>1. Move("wait_condition")  BY <1>8 DEF Continue
  <2> QED  BY <1>4, <1>8, <2>1 DEF PointInv
<1>9. CASE pc = "TimeoutAudit"
  <2>1. Move("completed")  BY <1>9 DEF Continue
  <2> QED  BY <1>4, <1>9, <2>1
<1>10. CASE pc = "DecisionAudit" /\ approval_state = "approved"
  <2>1. Move(IF inp.budgeted THEN "BudgetPreCheck" ELSE "LLMInvoke")  BY <1>10 DEF Continue
  <2>2. GateOpen  BY <1>10 DEF GateInv, GateOpen
  <2> QED  BY <1>4, <1>10, <2>1, <2>2 DEF PointInv, ReportInv
<1>11. CASE pc = "DecisionAudit" /\ approval_state # "approved"
  <2>1. Move("completed")  BY <1>11 DEF Continue
  <2> QED  BY <1>4, <1>11, <2>1
<1>12. CASE pc = "BudgetPreCheck"
  <2>1. Move("LLMInvoke")  BY <1>12 DEF Continue
  <2> QED  BY <1>4, <1>12, <2>1 DEF PointInv, ReportInv
<1>13. CASE pc = "LLMInvoke"
  <2>1. Move(IF inp.budgeted THEN "BudgetRecordSpend" ELSE "PostSanitize")  BY <1>13 DEF Continue
  <2> QED  BY <1>4, <1>13, <2>1 DEF PointInv
<1>14. CASE pc = "BudgetRecordSpend"
  <2>1. Move("PostSanitize")  BY <1>14 DEF Continue
  <2> QED  BY <1>4, <1>14, <2>1 DEF PointInv
<1>15. CASE pc = "FailedAudit"
  <2>1. Move("failed")  BY <1>15 DEF Continue
  <2> QED  BY <1>4, <1>15, <2>1
<1>16. CASE pc = "HitlAudit"
  <2>1. Move("suspended")  BY <1>16 DEF Continue
  <2> QED  BY <1>4, <1>16, <2>1 DEF PointInv
<1>17. CASE pc = "PostSanitize"
  <2>1. Move("completed")  BY <1>17 DEF Continue
  <2> QED  BY <1>4, <1>17, <2>1
<1> QED
  BY <1>5, <1>6, <1>7, <1>8, <1>9, <1>10, <1>11, <1>12, <1>13, <1>14, <1>15, <1>16, <1>17
     DEF ActivityCalls, Pipeline, AuditCalls

\* ReportOk preserves the inductive invariant.
LEMMA ReportOkPreserves == ASSUME IInv, ReportOk PROVE IInv'
<1>1. CASE pc = "JITTokenIssue" /\ inp.needs_approval
  <2>1. EnterGate
    BY <1>1 DEF ReportOk, Continue
  <2> QED  BY <1>1, <2>1, EnterGatePreserves DEF ReportOk
<1>2. CASE ~ (pc = "JITTokenIssue" /\ inp.needs_approval)
  <2>1. PICK point \in WorkflowPoints :
              /\ Goto(point)
              /\ UNCHANGED <<approval_state, approval_signal, pending_since>>
              /\ workflow_status' \in WorkflowStatus
              /\ PointInv'
    BY <1>2, ContinueMoves DEF ReportOk
  <2> QED  BY <2>1, OtherMovePreserves DEF ReportOk, IInv, TypeOK
<1> QED  BY <1>1, <1>2

\* An ActivityError, reported or by timeout: run() ends, or LLMInvoke is audited.
LEMMA ErrorPreserves ==
    ASSUME IInv, pc \in ActivityCalls, NEW cause, ActivityError(cause),
           UNCHANGED <<inp, log>>, zombies' \in [ActivityCalls -> Nat],
           \A a \in ActivityCalls : zombies'[a] # 0 => zombies[a] # 0 \/ pc = a
    PROVE  IInv'
<1>1. /\ \A e : Logged(e)' <=> Logged(e)
      /\ {"failed", "FailedAudit", "HitlAudit"} \subseteq WorkflowPoints
      /\ {"failed", "human_intervention_required"} \subseteq WorkflowStatus
      /\ {"LLMInvoke", "TimeoutAudit", "DecisionAudit"} \subseteq ActivityCalls
  BY SilentStep DEF WorkflowPoints, WorkflowStatus, ActivityCalls, Pipeline, AuditCalls, Closed
<1>2. PICK point \in {"failed", "FailedAudit", "HitlAudit"} :
              /\ Goto(point)
              /\ UNCHANGED <<approval_state, approval_signal, pending_since>>
              /\ workflow_status' \in WorkflowStatus
              /\ point = "failed" \/ pc = "LLMInvoke"
  <2>1. CASE pc # "LLMInvoke"
    BY <2>1 DEF ActivityError, Proceed, workflowState, IInv, TypeOK
  <2>2. CASE pc = "LLMInvoke"
    BY <1>1, <2>2 DEF ActivityError
  <2> QED  BY <2>1, <2>2
<1>3. PointInv'
  BY <1>1, <1>2 DEF IInv, PointInv, GateOpen, Goto, BeforeGate, AtGate, BehindGate,
                    AfterGate, AfterPreCheck
<1> QED  BY <1>1, <1>2, <1>3, OtherMovePreserves

\* ReportFailure preserves the inductive invariant.
LEMMA ReportFailurePreserves == ASSUME IInv, ReportFailure PROVE IInv'
BY ErrorPreserves DEF ReportFailure, IInv, TypeOK

\* ScheduleToClose preserves the inductive invariant.
LEMMA ScheduleToClosePreserves == ASSUME IInv, ScheduleToClose PROVE IInv'
<1>1. zombies \in [ActivityCalls -> Nat] /\ attempt \in Nat
  BY DEF IInv, TypeOK
<1>2. /\ zombies' \in [ActivityCalls -> Nat]
      /\ \A a \in ActivityCalls : zombies'[a] # 0 => zombies[a] # 0 \/ pc = a
  BY <1>1 DEF ScheduleToClose
<1> QED  BY <1>2, ErrorPreserves DEF ScheduleToClose

\* The steps of an attempt that neither emit nor move run().
LEMMA AttemptPreserves ==
    ASSUME IInv, StartAttempt \/ Retry \/ WorkerCrash
    PROVE  IInv'
<1> USE DEF StartAttempt, Retry, WorkerCrash, workflowState
<1>1. GovernedCalls' /\ \A e : Logged(e)' <=> Logged(e)
  BY SilentStep
<1>2. TypeOK'
  <2>1. MaximumAttempts \in [ActivityCalls -> Nat \ {0}]
    BY AttemptsAssumption
  <2> QED  BY <2>1 DEF IInv, TypeOK
<1>3. PointInv' /\ ReportInv'
  BY <1>1 DEF IInv, PointInv, ReportInv, GateOpen
<1>4. {"LLMInvoke", "TimeoutAudit", "DecisionAudit"} \subseteq ActivityCalls
  BY DEF ActivityCalls, Pipeline, AuditCalls
<1>5. GateInv'
  BY <1>1, <1>4 DEF IInv, GateInv, Cleared, GateOpen
<1>6. VerdictIsLastSignal' /\ AuditAgreesWithVerdict'
  BY <1>1 DEF IInv, VerdictIsLastSignal, AuditAgreesWithVerdict
<1> QED  BY <1>1, <1>2, <1>3, <1>5, <1>6 DEF IInv

\* RunBody preserves the inductive invariant.
LEMMA RunBodyPreserves == ASSUME IInv, RunBody PROVE IInv'
<1>1. attempt \in Nat /\ pc \in ActivityCalls /\ UNCHANGED <<inp, pc, attempt, zombies, workflowState>>
  BY DEF IInv, TypeOK, RunBody
<1>2. PICK s \in Emissions(pc, attempt) :
         /\ log' = log \o s
         /\ attempt_state' = "ok" => s = EmitsOnSuccess(pc, attempt)
  BY DEF RunBody, Emissions
<1>3. /\ pc = "LLMInvoke" => Cleared
      /\ pc = "TimeoutAudit" => approval_state = "timed-out"
      /\ pc = "DecisionAudit" => approval_state \in {"approved", "denied"}
  BY DEF IInv, PointInv, Cleared, BehindGate, AfterGate, AfterPreCheck
<1>4. /\ log' \in Seq(Events)
      /\ \A e : Logged(e)' <=> Logged(e) \/ Emitted(e, s)
      /\ GovernedCalls' /\ AuditAgreesWithVerdict' /\ VerdictIsLastSignal'
  BY <1>1, <1>2, <1>3, EmissionStep
<1>5. TypeOK'
  BY <1>1, <1>4 DEF IInv, TypeOK, RunBody, workflowState
<1>6. PointInv' /\ GateInv'
  BY <1>1, <1>4 DEF IInv, PointInv, GateInv, Cleared, GateOpen, workflowState
<1>7. ReportInv'
  BY <1>1, <1>2, <1>4, SuccessFacts DEF ReportInv, workflowState
<1> QED  BY <1>4, <1>5, <1>6, <1>7 DEF IInv

\* ZombieRuns preserves the inductive invariant.
LEMMA ZombieRunsPreserves == ASSUME IInv, ZombieRuns PROVE IInv'
<1>1. PICK a \in ActivityCalls :
        /\ zombies[a] # 0
        /\ zombies' = [zombies EXCEPT ![a] = 0]
        /\ \E s \in Emissions(a, zombies[a]) : log' = log \o s
        /\ UNCHANGED <<inp, pc, attempt, attempt_state, workflowState>>
  BY ZenonT(60) DEF ZombieRuns, Emissions
<1>2. PICK s \in Emissions(a, zombies[a]) : log' = log \o s
  BY <1>1, ZenonT(60)
<1>3. /\ zombies[a] \in Nat
      /\ zombies' \in [ActivityCalls -> Nat]
      /\ \A b \in ActivityCalls : zombies'[b] # 0 => zombies[b] # 0
      /\ {"LLMInvoke", "TimeoutAudit", "DecisionAudit"} \subseteq ActivityCalls
  <2>1. {"LLMInvoke", "TimeoutAudit", "DecisionAudit"} \subseteq ActivityCalls
    BY DEF ActivityCalls, Pipeline, AuditCalls
  <2>2. zombies \in [ActivityCalls -> Nat]
    BY DEF IInv, TypeOK
  <2> QED  BY <1>1, <2>1, <2>2
<1>4. /\ a = "LLMInvoke" => Cleared
      /\ a = "TimeoutAudit" => approval_state = "timed-out"
      /\ a = "DecisionAudit" => approval_state \in {"approved", "denied"}
  BY <1>1 DEF IInv, GateInv
<1>5. /\ log' \in Seq(Events)
      /\ \A e : Logged(e)' <=> Logged(e) \/ Emitted(e, s)
      /\ GovernedCalls' /\ AuditAgreesWithVerdict' /\ VerdictIsLastSignal'
  BY <1>1, <1>2, <1>3, <1>4, EmissionStep, ZenonT(60)
<1>6. TypeOK'
  BY <1>1, <1>3, <1>5 DEF IInv, TypeOK, workflowState
<1>7. PointInv' /\ ReportInv' /\ GateInv'
  BY <1>1, <1>3, <1>5 DEF IInv, PointInv, ReportInv, GateInv, Cleared, GateOpen, workflowState
<1> QED  BY <1>5, <1>6, <1>7 DEF IInv

\* Signal preserves the inductive invariant.
LEMMA SignalPreserves ==
    ASSUME IInv, NEW decision \in ApprovalSignalPayload, Signal(decision)
    PROVE  IInv'
<1>1. GovernedCalls' /\ \A e : Logged(e)' <=> Logged(e)
  BY SilentStep DEF Signal
<1>2. TypeOK'
  BY DEF IInv, TypeOK, Signal
<1>3. PointInv' /\ ReportInv' /\ GateInv'
  BY <1>1 DEF IInv, Signal, PointInv, ReportInv, GateInv, Cleared, GateOpen
<1>4. VerdictIsLastSignal' /\ AuditAgreesWithVerdict'
  BY <1>1 DEF IInv, Signal, VerdictIsLastSignal, AuditAgreesWithVerdict
<1> QED  BY <1>1, <1>2, <1>3, <1>4 DEF IInv

-----------------------------------------------------------------------------
\* The initial states satisfy the inductive invariant.
LEMMA InitEstablishes == Init => IInv
<1> SUFFICES ASSUME Init PROVE IInv
  OBVIOUS
<1>1. log \in Seq(Events) /\ (\A e : ~ Logged(e)) /\ DOMAIN log = {}
  BY DEF Init, Logged
<1>2. TypeOK
  BY <1>1, ZenonT(60) DEF Init, TypeOK, WorkflowPoints, WorkflowStatus, PendingApprovalState,
              ActivityCalls, Pipeline, AuditCalls
<1>3. PointInv /\ ReportInv
  BY DEF Init, PointInv, ReportInv, BeforeGate, AtGate, BehindGate, AfterGate, AfterPreCheck
<1>4. GateInv
  BY DEF Init, GateInv, ActivityCalls, Pipeline, AuditCalls
<1>5. VerdictIsLastSignal /\ AuditAgreesWithVerdict /\ GovernedCalls
  BY <1>1 DEF Init, VerdictIsLastSignal, AuditAgreesWithVerdict, GovernedCalls
<1> QED  BY <1>2, <1>3, <1>4, <1>5 DEF IInv

\* Every step, and stuttering, preserves the inductive invariant.
LEMMA NextPreserves == IInv /\ [Next]_vars => IInv'
<1> SUFFICES ASSUME IInv, [Next]_vars PROVE IInv'
  OBVIOUS
<1>1. CASE Start  BY <1>1, StartPreserves
<1>2. CASE ApprovalDecided \/ ApprovalTimeout  BY <1>2, VerdictPreserves
<1>3. CASE StartAttempt \/ Retry \/ WorkerCrash  BY <1>3, AttemptPreserves
<1>4. CASE RunBody  BY <1>4, RunBodyPreserves
<1>5. CASE ReportOk  BY <1>5, ReportOkPreserves
<1>6. CASE ReportFailure  BY <1>6, ReportFailurePreserves
<1>7. CASE ScheduleToClose  BY <1>7, ScheduleToClosePreserves
<1>8. CASE ZombieRuns  BY <1>8, ZombieRunsPreserves
<1>9. CASE \E decision \in ApprovalSignalPayload : Signal(decision)
  BY <1>9, SignalPreserves
<1>10. CASE UNCHANGED vars
  <2>1. UNCHANGED <<inp, pc, attempt, attempt_state, zombies, log, approval_state, approval_signal,
                    workflow_status, pending_since>>
    BY <1>10 DEF vars, workflowState
  <2>2. TypeOK'
    BY <2>1 DEF IInv, TypeOK
  <2>3. PointInv' /\ ReportInv'
    BY <2>1 DEF IInv, PointInv, ReportInv, GateOpen, Logged
  <2>4. GateInv'
    BY <2>1 DEF IInv, GateInv, Cleared, GateOpen, Logged
  <2>5. VerdictIsLastSignal' /\ AuditAgreesWithVerdict'
    BY <2>1 DEF IInv, VerdictIsLastSignal, AuditAgreesWithVerdict, Logged
  <2>6. GovernedCalls'
    BY <2>1 DEF IInv, GovernedCalls, LoggedBefore
  <2> QED  BY <2>2, <2>3, <2>4, <2>5, <2>6, ZenonT(60) DEF IInv
<1> QED
  BY <1>1, <1>2, <1>3, <1>4, <1>5, <1>6, <1>7, <1>8, <1>9, <1>10
     DEF Next, WorkflowNext, WorkerStep, TimerStep

\* The inductive invariant holds of every reachable state of the workflow.
THEOREM Invariance == Spec => []IInv
BY InitEstablishes, NextPreserves, PTL DEF Spec

\* run(), its activities and the signal handlers only ever hold values of their types,
\* and no activity is attempted more often than its retry policy says.
THEOREM TypeCorrectness == Spec => []TypeOK
<1>1. IInv => TypeOK  BY DEF IInv
<1> QED  BY Invariance, <1>1, PTL

\* No attempt of LLMInvoke, retried or abandoned, calls the model before the policy,
\* the token, the review and the budget check are behind it in the audit log.
THEOREM CallsAreGoverned == Spec => []GovernedCalls
<1>1. IInv => GovernedCalls  BY DEF IInv
<1> QED  BY Invariance, <1>1, PTL

\* What _await_pending_approval concluded is what the last signal it accepted said,
\* for as long as the workflow exists and whatever signals follow.
THEOREM VerdictIsSignalled == Spec => []VerdictIsLastSignal
<1>1. IInv => VerdictIsLastSignal  BY DEF IInv
<1> QED  BY Invariance, <1>1, PTL

\* WorkflowAudit never announces a verdict other than the one the gate holds.
THEOREM AuditIsTruthful == Spec => []AuditAgreesWithVerdict
<1>1. IInv => AuditAgreesWithVerdict  BY DEF IInv
<1> QED  BY Invariance, <1>1, PTL

-----------------------------------------------------------------------------
(***************************************************************************)
(* How a run ends.  OutcomeConsistent is inductive together with what the  *)
(* status is on the way to each end, what the events of the last stages    *)
(* say, and that nothing but PostSanitize behind an open gate, run or      *)
(* abandoned, emits workflow.completed.                                    *)
(***************************************************************************)
OutcomeInv ==
    /\ OutcomeConsistent
    /\ pc = "TimeoutAudit" => workflow_status = "timed-out"
    /\ pc = "DecisionAudit" /\ approval_state = "denied" => workflow_status = "denied"
    /\ pc = "HitlAudit" => workflow_status = "human_intervention_required"
    /\ pc \in {"BudgetRecordSpend", "PostSanitize"} => Logged("adapter.complete")
    /\ attempt_state = "ok" =>
        /\ pc = "LLMInvoke" => Logged("adapter.complete")
        /\ pc = "PostSanitize" => Logged("workflow.completed")
        /\ pc = "HitlAudit" => Logged("workflow.hitl_required")
    /\ Logged("workflow.completed") \/ zombies["PostSanitize"] # 0 =>
        GateOpen /\ pc \in {"PostSanitize", "completed", "failed"}

\* A gate that refused the task is not open, and the model has not been called.
LEMMA RefusedFacts ==
    ASSUME IInv, approval_state \in {"denied", "timed-out"}
    PROVE  ~ GateOpen /\ ~ Logged("adapter.complete")
<1>1. inp.needs_approval /\ ~ Logged("workflow.approved")
  BY DEF IInv, GateInv, AuditAgreesWithVerdict
<1>2. ASSUME NEW i \in DOMAIN log, log[i] = "adapter.complete" PROVE FALSE
  <2>1. LoggedBefore("workflow.approved", i)
    BY <1>1, <1>2 DEF IInv, GovernedCalls
  <2>2. log \in Seq(Events)
    BY DEF IInv, TypeOK
  <2>3. \A j \in 1..(i - 1) : j \in DOMAIN log
    BY <2>2
  <2> QED  BY <1>1, <2>1, <2>3 DEF LoggedBefore, Logged
<1> QED  BY <1>1, <1>2 DEF GateOpen, Logged

\* Only PostSanitize emits workflow.completed.
LEMMA CompletedEmission ==
    ASSUME NEW a \in ActivityCalls, NEW n \in Nat, NEW s \in Emissions(a, n),
           Emitted("workflow.completed", s)
    PROVE  a = "PostSanitize"
<1>1. ASSUME NEW x, NEW y
      PROVE  /\ s = <<>> => ~ Emitted("workflow.completed", s)
             /\ s = <<x>> => (Emitted("workflow.completed", s) <=> "workflow.completed" = x)
             /\ s = <<x, y>> => (Emitted("workflow.completed", s) <=> "workflow.completed" \in {x, y})
  BY DEF Emitted
<1>2. \/ a = "PostSanitize" \/ s = <<>>
      \/ \E x \in Events \ {"workflow.completed"} : s = <<x>>
      \/ s = <<"llm.retried", "adapter.complete">>
  BY DEF Emissions, EmitsOnSuccess, EmitsOnFailure, Events, ActivityCalls, Pipeline, AuditCalls
<1> QED  BY <1>1, <1>2

\* What an attempt of one of the last stages has emitted when it succeeds.
LEMMA LastStagesEmit ==
    ASSUME NEW n \in Nat
    PROVE  /\ Emitted("adapter.complete", EmitsOnSuccess("LLMInvoke", n))
           /\ Emitted("workflow.completed", EmitsOnSuccess("PostSanitize", n))
           /\ Emitted("workflow.hitl_required", EmitsOnSuccess("HitlAudit", n))
<1>1. /\ Emitted("adapter.complete", <<"adapter.complete">>)
      /\ Emitted("adapter.complete", <<"llm.retried", "adapter.complete">>)
      /\ Emitted("workflow.completed", <<"workflow.completed">>)
      /\ Emitted("workflow.hitl_required", <<"workflow.hitl_required">>)
  BY DEF Emitted
<1> QED  BY <1>1 DEF EmitsOnSuccess

\* A step that emits, of an attempt that is awaited or was given up on.
LEMMA EmissionOutcome ==
    ASSUME IInv, IInv', OutcomeInv, UNCHANGED <<inp, pc, workflowState>>,
           NEW a \in ActivityCalls, NEW n \in Nat, NEW s \in Emissions(a, n), log' = log \o s,
           a = pc \/ zombies[a] # 0,
           zombies'["PostSanitize"] # 0 => zombies["PostSanitize"] # 0,
           attempt_state' = "ok" => attempt_state = "ok" \/ (a = pc /\ s = EmitsOnSuccess(a, n))
    PROVE  OutcomeInv'
<1>1. /\ \A e : Logged(e)' <=> Logged(e) \/ Emitted(e, s)
      /\ Emitted("adapter.complete", s) => a = "LLMInvoke"
      /\ Emitted("workflow.completed", s) => a = "PostSanitize"
  BY LogAppend, EmissionFacts, CompletedEmission, ZenonT(60) DEF IInv, TypeOK
<1>2. a = "PostSanitize" => GateOpen /\ pc \in {"PostSanitize", "completed", "failed"}
  BY DEF OutcomeInv, IInv, PointInv, BehindGate
<1>3. GateOpen' <=> GateOpen
  BY DEF GateOpen, workflowState
<1>4. OutcomeConsistent'
  <2>1. approval_state \in {"denied", "timed-out"} =>
           ~ GateOpen /\ ~ Logged("adapter.complete") /\ ~ Logged("adapter.complete")'
    <3>1. a = "LLMInvoke" => GateOpen
      BY DEF IInv, PointInv, GateInv, Cleared, BehindGate
    <3> QED  BY <1>1, <3>1, RefusedFacts
  <2> QED  BY <1>1, <1>2, <2>1 DEF OutcomeInv, OutcomeConsistent, workflowState
<1>5. attempt_state' = "ok" =>
        /\ pc = "LLMInvoke" => Logged("adapter.complete")'
        /\ pc = "PostSanitize" => Logged("workflow.completed")'
        /\ pc = "HitlAudit" => Logged("workflow.hitl_required")'
  BY <1>1, LastStagesEmit DEF OutcomeInv
<1> QED  BY <1>1, <1>2, <1>3, <1>4, <1>5 DEF OutcomeInv, workflowState

\* Where run() goes when an activity has completed.
LEMMA ContinueOutcome ==
    ASSUME IInv, IInv', OutcomeInv, ReportOk
    PROVE  OutcomeInv'
<1>1. /\ \A e : Logged(e)' <=> Logged(e)
      /\ pc \in ActivityCalls /\ attempt_state = "ok" /\ UNCHANGED <<inp, zombies>>
      /\ attempt_state' = "scheduled"
  BY SilentStep DEF ReportOk, Continue, EnterGate, Resume, Proceed, Goto, ActivityCalls, Pipeline, AuditCalls
<1>2. pc # "PostSanitize" => ~ Logged("workflow.completed") /\ zombies["PostSanitize"] = 0
  BY <1>1 DEF OutcomeInv, ActivityCalls, Pipeline, AuditCalls
<1>3. CASE pc \in {"PrePIIScrub", "PolicyEval", "JITTokenIssue", "PendingAudit", "BudgetPreCheck"}
  <2>1. pc' \in {"PolicyEval", "JITTokenIssue", "PendingAudit", "BudgetPreCheck", "LLMInvoke", "wait_condition"}
    BY <1>3 DEF ReportOk, Continue, EnterGate, Resume, Proceed, Goto
  <2> QED  BY <1>1, <1>2, <1>3, <2>1 DEF OutcomeInv, OutcomeConsistent
<1>4. CASE pc \in {"TimeoutAudit", "DecisionAudit"}
  <2>1. /\ approval_state \in {"denied", "timed-out", "approved"}
        /\ approval_state # "approved" => workflow_status = approval_state
    BY <1>4 DEF OutcomeInv, IInv, PointInv
  <2>2. /\ UNCHANGED <<workflow_status, approval_state>>
        /\ pc' \in {"BudgetPreCheck", "LLMInvoke", "completed"}
        /\ pc' = "completed" => approval_state # "approved"
    <3>1. Continue
      BY DEF ReportOk
    <3>2. CASE pc = "TimeoutAudit"
      BY <2>1, <3>1, <3>2 DEF Continue, Proceed, Goto, workflowState, IInv, PointInv
    <3>3. CASE pc = "DecisionAudit"
      BY <3>1, <3>3 DEF Continue, Resume, Proceed, Goto, workflowState
    <3> QED  BY <1>4, <3>2, <3>3
  <2>3. pc' = "completed" => ~ Logged("adapter.complete")
    BY <2>1, <2>2, RefusedFacts
  <2> QED  BY <1>1, <1>2, <1>4, <2>1, <2>2, <2>3 DEF OutcomeInv, OutcomeConsistent
<1>5. CASE pc \in {"LLMInvoke", "BudgetRecordSpend"}
  <2>1. pc' \in {"BudgetRecordSpend", "PostSanitize"} /\ Logged("adapter.complete")
    BY <1>1, <1>5 DEF ReportOk, Continue, Proceed, Goto, OutcomeInv
  <2> QED  BY <1>1, <1>2, <1>5, <2>1 DEF OutcomeInv, OutcomeConsistent
<1>6. CASE pc \in {"FailedAudit", "HitlAudit"}
  <2>1. /\ UNCHANGED <<workflow_status, approval_state>>
        /\ pc' = IF pc = "FailedAudit" THEN "failed" ELSE "suspended"
    BY <1>6 DEF ReportOk, Continue, Proceed, Goto, workflowState
  <2> QED  BY <1>1, <1>2, <1>6, <2>1 DEF OutcomeInv, OutcomeConsistent
<1>7. CASE pc = "PostSanitize"
  <2>1. pc' = "completed" /\ workflow_status' = "completed" /\ UNCHANGED approval_state
    BY <1>7 DEF ReportOk, Continue, Goto
  <2>2. Logged("adapter.complete") /\ Logged("workflow.completed") /\ GateOpen
    BY <1>1, <1>7 DEF OutcomeInv
  <2> QED  BY <1>1, <1>7, <2>1, <2>2 DEF OutcomeInv, OutcomeConsistent, GateOpen
<1> QED  BY <1>1, <1>3, <1>4, <1>5, <1>6, <1>7 DEF ActivityCalls, Pipeline, AuditCalls

\* How an ActivityError, reported or by timeout, ends or escalates run().
LEMMA ErrorOutcome ==
    ASSUME IInv, IInv', OutcomeInv, pc \in ActivityCalls, NEW cause, ActivityError(cause),
           UNCHANGED <<inp, log>>,
           zombies'["PostSanitize"] # 0 => zombies["PostSanitize"] # 0 \/ pc = "PostSanitize"
    PROVE  OutcomeInv'
<1>1. /\ \A e : Logged(e)' <=> Logged(e)
      /\ attempt_state' = "scheduled" /\ UNCHANGED approval_state
  BY SilentStep DEF ActivityError, Proceed, Goto, workflowState
<1>2. /\ pc' \in {"failed", "FailedAudit", "HitlAudit"}
      /\ pc' # "failed" => pc = "LLMInvoke"
      /\ pc' = "HitlAudit" => workflow_status' = "human_intervention_required"
  BY DEF ActivityError, Proceed, Goto
<1>3. Logged("workflow.completed") \/ zombies'["PostSanitize"] # 0 => GateOpen /\ pc = "PostSanitize"
  BY DEF OutcomeInv, IInv, PointInv, BehindGate, ActivityCalls, Pipeline, AuditCalls
<1> QED  BY <1>1, <1>2, <1>3 DEF OutcomeInv, OutcomeConsistent, GateOpen

\* The steps that neither emit nor report leave the outcome consistent.
LEMMA SilentOutcome ==
    ASSUME IInv, IInv', OutcomeInv,
           \/ Start \/ ApprovalDecided \/ ApprovalTimeout
           \/ StartAttempt \/ Retry \/ WorkerCrash
           \/ \E decision \in ApprovalSignalPayload : Signal(decision)
    PROVE  OutcomeInv'
<1>0. "PostSanitize" \in ActivityCalls
  BY DEF ActivityCalls, Pipeline
<1>1. CASE Start \/ ApprovalDecided \/ ApprovalTimeout
  <2>1. /\ \A e : Logged(e)' <=> Logged(e)
        /\ UNCHANGED zombies /\ attempt_state' = "scheduled"
    BY <1>1, SilentStep DEF Start, ApprovalDecided, ApprovalTimeout, Goto
  <2>2. ~ Logged("workflow.completed") /\ zombies["PostSanitize"] = 0
    BY <1>1 DEF OutcomeInv, Start, ApprovalDecided, ApprovalTimeout
  <2>3. /\ pc' \in {"PrePIIScrub", "TimeoutAudit", "DecisionAudit"}
        /\ pc' = "TimeoutAudit" => workflow_status' = "timed-out"
        /\ pc' = "DecisionAudit" /\ approval_state' = "denied" => workflow_status' = "denied"
    BY <1>1 DEF Start, ApprovalDecided, ApprovalTimeout, Goto
  <2> QED  BY <2>1, <2>2, <2>3 DEF OutcomeInv, OutcomeConsistent
<1>2. CASE \/ StartAttempt \/ Retry \/ WorkerCrash
           \/ \E decision \in ApprovalSignalPayload : Signal(decision)
  <2>1. /\ \A e : Logged(e)' <=> Logged(e)
        /\ UNCHANGED <<inp, pc, workflow_status, approval_state>>
        /\ attempt_state' = "ok" => attempt_state = "ok"
        /\ zombies'["PostSanitize"] # 0 => zombies["PostSanitize"] # 0
    BY <1>0, <1>2, SilentStep DEF StartAttempt, Retry, WorkerCrash, Signal, workflowState
  <2> QED  BY <2>1 DEF OutcomeInv, OutcomeConsistent, GateOpen
<1> QED  BY <1>1, <1>2

\* Every step, and stuttering, keeps the outcome consistent.
LEMMA OutcomeStep == IInv /\ IInv' /\ OutcomeInv /\ [Next]_vars => OutcomeInv'
<1> SUFFICES ASSUME IInv, IInv', OutcomeInv, [Next]_vars PROVE OutcomeInv'
  OBVIOUS
<1>0. zombies \in [ActivityCalls -> Nat] /\ attempt \in Nat /\ "PostSanitize" \in ActivityCalls
  BY DEF IInv, TypeOK, ActivityCalls, Pipeline
<1>1. CASE RunBody
  <2>1. PICK s \in Emissions(pc, attempt) :
           /\ log' = log \o s
           /\ attempt_state' = "ok" => s = EmitsOnSuccess(pc, attempt)
    BY <1>1 DEF RunBody, Emissions
  <2>2. /\ UNCHANGED <<inp, pc, workflowState>> /\ UNCHANGED zombies
        /\ pc \in ActivityCalls /\ attempt \in Nat
    BY <1>0, <1>1 DEF RunBody
  <2> QED  BY <2>1, <2>2, EmissionOutcome
<1>2. CASE ZombieRuns
  <2>1. PICK a \in ActivityCalls :
          /\ zombies[a] # 0
          /\ zombies' = [zombies EXCEPT ![a] = 0]
          /\ \E s \in Emissions(a, zombies[a]) : log' = log \o s
          /\ UNCHANGED <<inp, pc, attempt, attempt_state, workflowState>>
    BY <1>2, ZenonT(60) DEF ZombieRuns, Emissions
  <2>2. zombies[a] \in Nat /\ (zombies'["PostSanitize"] # 0 => zombies["PostSanitize"] # 0)
    BY <1>0, <2>1
  <2>3. PICK s \in Emissions(a, zombies[a]) : log' = log \o s
    BY <2>1, ZenonT(60)
  <2> QED  BY <2>1, <2>2, <2>3, EmissionOutcome
<1>3. CASE ReportOk
  BY <1>3, ContinueOutcome
<1>4. CASE ReportFailure
  BY <1>4, ErrorOutcome DEF ReportFailure
<1>5. CASE ScheduleToClose
  <2>1. zombies'["PostSanitize"] # 0 => zombies["PostSanitize"] # 0 \/ pc = "PostSanitize"
    BY <1>0, <1>5 DEF ScheduleToClose
  <2> QED  BY <1>5, <2>1, ErrorOutcome DEF ScheduleToClose
<1>6. CASE UNCHANGED vars
  BY <1>6 DEF vars, workflowState, OutcomeInv, OutcomeConsistent, GateOpen, Logged
<1> QED
  BY <1>1, <1>2, <1>3, <1>4, <1>5, <1>6, SilentOutcome
     DEF Next, WorkflowNext, WorkerStep, TimerStep

\* run() returns only what its status and its audit log bear out: a task that completed
\* went through the model and the sanitizer, one refused at the gate never reached the
\* model, one that escalates has audited that, whatever abandoned attempts still emit.
THEOREM OutcomesAreConsistent == Spec => []OutcomeConsistent
<1>1. Init => OutcomeInv
  BY DEF Init, OutcomeInv, OutcomeConsistent, Logged, ActivityCalls, Pipeline
<1>2. OutcomeInv => OutcomeConsistent
  BY DEF OutcomeInv
<1> QED  BY <1>1, <1>2, OutcomeStep, Invariance, PTL DEF Spec

-----------------------------------------------------------------------------
\* A step that leaves the gate alone, and the calls of the model.
LEMMA GateStutters ==
    ASSUME UNCHANGED <<inp, approval_state>>, Logged("adapter.complete")' <=> Logged("adapter.complete")
    PROVE  UNCHANGED Gate!gateVars
BY DEF Gate!gateVars, Logged

\* A step that emits what an attempt of a may emit calls the model, or stutters.
LEMMA GateEmission ==
    ASSUME IInv, NEW a \in ActivityCalls, NEW n \in Nat, NEW s \in Emissions(a, n),
           log' = log \o s, UNCHANGED <<inp, workflowState>>, a = "LLMInvoke" => Cleared
    PROVE  [Gate!GateNext]_Gate!gateVars
<1>1. /\ s \in Seq(Events) /\ log \in Seq(Events)
      /\ Emitted("adapter.complete", s) => Cleared
  BY EmissionFacts DEF IInv, TypeOK
<1>2. Logged("adapter.complete")' <=> Logged("adapter.complete") \/ Emitted("adapter.complete", s)
  BY <1>1, LogAppend, ZenonT(60)
<1>3. CASE Emitted("adapter.complete", s)
  <2>1. GateOpen /\ UNCHANGED <<inp, approval_state>>
    BY <1>1, <1>3 DEF Cleared, workflowState
  <2>2. (Logged("adapter.complete")' = TRUE)
    BY <1>2, <1>3 DEF Logged
  <2>3. Gate!Call
    BY <2>1, <2>2 DEF Gate!Call, GateOpen
  <2> QED  BY <2>3 DEF Gate!GateNext
<1>4. CASE ~ Emitted("adapter.complete", s)
  BY <1>2, <1>4, GateStutters DEF workflowState
<1> QED  BY <1>3, <1>4

\* A completed activity takes run() into the gate, or leaves the gate alone.
LEMMA GateReportOk ==
    ASSUME IInv, ReportOk
    PROVE  [Gate!GateNext]_Gate!gateVars
<1>1. UNCHANGED inp /\ (Logged("adapter.complete")' <=> Logged("adapter.complete"))
  BY SilentStep DEF ReportOk
<1>2. CASE pc = "JITTokenIssue" /\ inp.needs_approval
  <2>1. /\ approval_state = "not-required"
        /\ approval_state' = "awaiting-approval"
    BY <1>2 DEF IInv, PointInv, BeforeGate, ReportOk, Continue, EnterGate
  <2>2. UNCHANGED Logged("adapter.complete")
    BY DEF ReportOk, Logged
  <2>3. Gate!Enter
    BY <1>1, <1>2, <2>1, <2>2 DEF Gate!Enter
  <2> QED  BY <2>3 DEF Gate!GateNext
<1>3. CASE ~ (pc = "JITTokenIssue" /\ inp.needs_approval)
  <2>1. UNCHANGED approval_state
    BY <1>3, ContinueMoves DEF ReportOk
  <2> QED  BY <1>1, <2>1, GateStutters
<1> QED  BY <1>2, <1>3

\* Only a verdict or the timeout takes run() out of the gate.
LEMMA GateVerdict ==
    ASSUME IInv, ApprovalDecided \/ ApprovalTimeout
    PROVE  Gate!GateNext
<1>1. /\ approval_state = "awaiting-approval"
      /\ approval_state' \in {"approved", "denied", "timed-out"}
      /\ UNCHANGED <<inp, log>>
  BY DEF IInv, PointInv, AtGate, ApprovalDecided, ApprovalTimeout
<1>2. UNCHANGED Logged("adapter.complete")
  BY <1>1 DEF Logged
<1>3. Gate!Resolve
  BY <1>1, <1>2 DEF Gate!Resolve
<1> QED  BY <1>3 DEF Gate!GateNext

\* Every step of the workflow is a step of the gate, or leaves it alone.
LEMMA GateStep ==
    ASSUME IInv, [Next]_vars
    PROVE  [Gate!GateNext]_Gate!gateVars
<1>1. CASE ReportOk  BY <1>1, GateReportOk
<1>2. CASE ApprovalDecided \/ ApprovalTimeout  BY <1>2, GateVerdict
<1>3. CASE RunBody
  <2>1. \E s \in Emissions(pc, attempt) : log' = log \o s
    BY <1>3 DEF RunBody, Emissions
  <2>2. pc = "LLMInvoke" => Cleared
    BY DEF IInv, PointInv, Cleared, BehindGate, AfterGate, AfterPreCheck
  <2> QED  BY <1>3, <2>1, <2>2, GateEmission, ZenonT(60) DEF RunBody, IInv, TypeOK
<1>4. CASE ZombieRuns
  <2>1. PICK a \in ActivityCalls :
          /\ zombies[a] # 0
          /\ \E s \in Emissions(a, zombies[a]) : log' = log \o s
          /\ UNCHANGED <<inp, workflowState>>
    BY <1>4, ZenonT(60) DEF ZombieRuns, Emissions
  <2>2. a = "LLMInvoke" => Cleared
    BY <2>1 DEF IInv, GateInv
  <2>3. zombies[a] \in Nat
    BY DEF IInv, TypeOK
  <2> QED  BY <2>1, <2>2, <2>3, GateEmission, ZenonT(60)
<1>5. CASE \/ Start \/ StartAttempt \/ Retry \/ WorkerCrash \/ UNCHANGED vars
           \/ \E decision \in ApprovalSignalPayload : Signal(decision)
  <2>1. UNCHANGED <<inp, approval_state, log>>
    BY <1>5 DEF Start, StartAttempt, Retry, WorkerCrash, Signal, vars, workflowState
  <2> QED  BY <2>1, SilentStep, GateStutters
<1>6. CASE ReportFailure \/ ScheduleToClose
  <2>1. UNCHANGED <<inp, approval_state, log>>
    BY <1>6 DEF ReportFailure, ScheduleToClose, ActivityError, Proceed, workflowState
  <2> QED  BY <2>1, SilentStep, GateStutters
<1> QED
  BY <1>1, <1>2, <1>3, <1>4, <1>5, <1>6 DEF Next, WorkflowNext, WorkerStep, TimerStep

\* The initial states of the workflow are those of the gate.
LEMMA GateStart == Init => Gate!GateInit
<1> SUFFICES ASSUME Init PROVE Gate!GateInit
  OBVIOUS
<1>1. Logged("adapter.complete") = FALSE
  BY DEF Init, Logged
<1> QED  BY <1>1 DEF Init, Gate!GateInit

\* AgentTaskWorkflow implements the gate ApprovalGate promises: entered at most once,
\* left at most once, and the model called only on the open side of it, for any
\* retry policy and with any number of reviewers.
THEOREM WorkflowImplementsGate == Spec => ImplementsGate
BY GateStart, GateStep, Invariance, PTL DEF Spec, ImplementsGate, Gate!GateSpec

\* What the gate gives whoever reads approval_state: a verdict is never revised, by a
\* late signal, a timer or a retry, and behind a refusal or a timeout no step calls the
\* model for the first time, not even an attempt that was given up and runs on.
THEOREM VerdictsAreFinal ==
    Spec => [][/\ approval_state \in {"approved", "denied", "timed-out"} => UNCHANGED approval_state
               /\ approval_state \in {"denied", "timed-out"} => UNCHANGED Logged("adapter.complete")]_vars
<1> DEFINE Final == /\ approval_state \in {"approved", "denied", "timed-out"} => UNCHANGED approval_state
                    /\ approval_state \in {"denied", "timed-out"} => UNCHANGED Logged("adapter.complete")
<1>1. IInv /\ [Next]_vars => Final
  <2>1. Gate!GateNext => Final
    BY DEF Gate!GateNext, Gate!Enter, Gate!Resolve, Gate!Call
  <2>2. UNCHANGED Gate!gateVars => Final
    BY DEF Gate!gateVars
  <2> QED BY <2>1, <2>2, GateStep
<1> QED BY <1>1, Invariance, PTL DEF Spec

-----------------------------------------------------------------------------
(***************************************************************************)
(* The calls of the model, counted.                                        *)
(***************************************************************************)
\* How often an event occurs in a log, and among its first n entries.
CountIn(s, e, n) == Cardinality({i \in 1..n : s[i] = e})
Count(s, e) == CountIn(s, e, Len(s))

\* RetriesAudited, of any log, from its beginning on.
RetriesAuditedIn(s) ==
    \A n \in 0..Len(s) :
        /\ CountIn(s, "adapter.complete", n) <= MaximumAttempts["LLMInvoke"]
        /\ CountIn(s, "adapter.complete", n) <= CountIn(s, "llm.retried", n) + 1

\* The points of run() before the call of LLMInvoke.
BeforeCall == BeforeGate \cup AtGate \cup {"TimeoutAudit", "DecisionAudit", "BudgetPreCheck"}

\* No call precedes LLMInvoke; while it is awaited every attempt has called at most
\* once, the current one only if its body has run; an attempt given up on still has
\* its own call to make.
RetryInv ==
    /\ pc \in BeforeCall => Count(log, "adapter.complete") = 0 /\ zombies["LLMInvoke"] = 0
    /\ pc = "LLMInvoke" =>
          /\ zombies["LLMInvoke"] = 0
          /\ Count(log, "adapter.complete") <= attempt
          /\ attempt_state \in {"scheduled", "started"} => Count(log, "adapter.complete") < attempt
    /\ zombies["LLMInvoke"] # 0 =>
          /\ Count(log, "adapter.complete") < zombies["LLMInvoke"]
          /\ zombies["LLMInvoke"] <= MaximumAttempts["LLMInvoke"]
    /\ RetriesAuditedIn(log)

\* Appending to a sequence leaves its elements in place and puts the new one last.
LEMMA AppendedEvent ==
    ASSUME NEW S, NEW s \in Seq(S), NEW e \in S
    PROVE  /\ Append(s, e) \in Seq(S) /\ Len(s) \in Nat /\ Len(Append(s, e)) = Len(s) + 1
           /\ \A i \in 1..Len(s) : Append(s, e)[i] = s[i]
           /\ Append(s, e)[Len(s) + 1] = e
<1>1. Append(s, e) \in Seq(S) /\ Len(s) \in Nat  OBVIOUS
<1>2. Len(Append(s, e)) = Len(s) + 1  OBVIOUS
<1>3. \A i \in 1..Len(s) : Append(s, e)[i] = s[i]  OBVIOUS
<1>4. Append(s, e)[Len(s) + 1] = e  OBVIOUS
<1> QED  BY <1>1, <1>2, <1>3, <1>4, ZenonT(60)

\* One more event counts for itself alone, and keeps a log audited if it is no call of
\* the model, or one there is an attempt and an announcement left for.
LEMMA CountAppend ==
    ASSUME NEW s \in Seq(Events), NEW e \in Events, RetriesAuditedIn(s),
           e = "adapter.complete" =>
              /\ Count(s, e) < MaximumAttempts["LLMInvoke"]
              /\ Count(s, e) <= Count(s, "llm.retried")
    PROVE  /\ Append(s, e) \in Seq(Events)
           /\ \A x : Count(s, x) \in Nat
           /\ \A x : Count(Append(s, e), x) = Count(s, x) + (IF x = e THEN 1 ELSE 0)
           /\ RetriesAuditedIn(Append(s, e))
<1> DEFINE t == Append(s, e)
<1>1. /\ t \in Seq(Events) /\ Len(s) \in Nat /\ Len(t) = Len(s) + 1
      /\ \A i \in 1..Len(s) : t[i] = s[i]
      /\ t[Len(s) + 1] = e
  BY AppendedEvent
<1> HIDE DEF t
<1>2. ASSUME NEW x, NEW n \in 0..Len(s) PROVE CountIn(t, x, n) = CountIn(s, x, n)
  <2>1. {i \in 1..n : t[i] = x} = {i \in 1..n : s[i] = x}
    BY <1>1
  <2> QED  BY <2>1, ZenonT(60) DEF CountIn
<1>3. ASSUME NEW x
      PROVE  /\ Count(s, x) \in Nat
             /\ Count(t, x) = Count(s, x) + (IF x = e THEN 1 ELSE 0)
  <2> DEFINE S == {i \in 1..Len(s) : s[i] = x}
             T == {i \in 1..Len(t) : t[i] = x}
  <2>1. IsFiniteSet(S) /\ Cardinality(S) \in Nat
    <3>1. IsFiniteSet(1..Len(s)) /\ S \in SUBSET (1..Len(s))
      BY <1>1, FS_Interval
    <3> QED  BY <3>1, FS_Subset, FS_CardinalityType
  <2>2. T = IF x = e THEN S \cup {Len(s) + 1} ELSE S
    BY <1>1
  <2>3. Len(s) + 1 \notin S
    BY <1>1
  <2>4. Count(s, x) = Cardinality(S) /\ Count(t, x) = Cardinality(T)
    BY DEF Count, CountIn
  <2> HIDE DEF S, T
  <2>5. Cardinality(S \cup {Len(s) + 1}) = Cardinality(S) + 1
    BY <2>1, <2>3, FS_AddElement, ZenonT(60)
  <2> QED  BY <2>1, <2>2, <2>4, <2>5
<1>4. ASSUME NEW n \in 0..Len(t)
      PROVE  /\ CountIn(t, "adapter.complete", n) <= MaximumAttempts["LLMInvoke"]
             /\ CountIn(t, "adapter.complete", n) <= CountIn(t, "llm.retried", n) + 1
  <2>1. CASE n \in 0..Len(s)
    BY <1>2, <2>1 DEF RetriesAuditedIn
  <2>2. CASE n = Len(t)
    <3>1. /\ Count(s, "adapter.complete") <= MaximumAttempts["LLMInvoke"]
          /\ Count(s, "adapter.complete") <= Count(s, "llm.retried") + 1
      BY <1>1 DEF RetriesAuditedIn, Count
    <3>2. MaximumAttempts["LLMInvoke"] \in Nat
      BY AttemptsAssumption DEF ActivityCalls, Pipeline
    <3>3. /\ CountIn(t, "adapter.complete", n) = Count(t, "adapter.complete")
          /\ CountIn(t, "llm.retried", n) = Count(t, "llm.retried")
      BY <2>2 DEF Count
    <3>4. /\ Count(s, "adapter.complete") \in Nat /\ Count(s, "llm.retried") \in Nat
          /\ Count(t, "adapter.complete") = Count(s, "adapter.complete") + (IF "adapter.complete" = e THEN 1 ELSE 0)
          /\ Count(t, "llm.retried") = Count(s, "llm.retried") + (IF "llm.retried" = e THEN 1 ELSE 0)
      BY <1>3
    <3> QED  BY <3>1, <3>2, <3>3, <3>4
  <2> QED  BY <1>1, <2>1, <2>2
<1>5. RetriesAuditedIn(t)
  BY <1>4 DEF RetriesAuditedIn
<1> QED  BY <1>1, <1>3, <1>5 DEF t

\* The body of an attempt calls the model at most once, and only as LLMInvoke; one that
\* is not the first has announced itself before.
LEMMA EmissionCounts ==
    ASSUME log \in Seq(Events), RetriesAuditedIn(log), NEW a \in ActivityCalls, NEW n \in Nat,
           NEW s \in Emissions(a, n), log' = log \o s,
           a = "LLMInvoke" => Count(log, "adapter.complete") < n /\ n <= MaximumAttempts["LLMInvoke"]
    PROVE  /\ RetriesAuditedIn(log)'
           /\ Count(log, "adapter.complete") \in Nat
           /\ Count(log, "adapter.complete")' \in Nat
           /\ Count(log, "adapter.complete")' <= Count(log, "adapter.complete") + 1
           /\ a # "LLMInvoke" => Count(log, "adapter.complete")' = Count(log, "adapter.complete")
<1> DEFINE call == "adapter.complete"
           retried == "llm.retried"
<1>1. call \in Events /\ retried \in Events /\ "workflow.started" \in Events /\ call # retried
  BY DEF Events
<1>2. \A x : Count(log, x) \in Nat
  <2>1. "workflow.started" # "adapter.complete"
    OBVIOUS
  <2> QED  BY <1>1, <2>1, CountAppend
<1>3. Count(log, call) <= Count(log, retried) + 1
  BY DEF RetriesAuditedIn, Count
<1>4. CASE s = <<>>
  <2>1. log' = log
    BY <1>4
  <2> QED  BY <1>2, <2>1
<1>5. ASSUME NEW e \in Events, e # call, s = <<e>>
      PROVE  RetriesAuditedIn(log') /\ Count(log', call) = Count(log, call)
  <2>1. log' = Append(log, e)
    BY <1>5
  <2>2. /\ \A x : Count(log, x) \in Nat
        /\ \A x : Count(Append(log, e), x) = Count(log, x) + (IF x = e THEN 1 ELSE 0)
        /\ RetriesAuditedIn(Append(log, e))
    <3>1. e # "adapter.complete"
      BY <1>5
    <3> HIDE DEF call, retried
    <3> QED  BY <3>1, CountAppend
  <2>3. Count(Append(log, e), call) = Count(log, call)
    <3>1. call # e
      BY <1>5
    <3> HIDE DEF call
    <3> QED  BY <2>2, <3>1
  <2> QED  BY <2>1, <2>2, <2>3
<1>6. CASE a # "LLMInvoke"
  <2>1. s = <<>> \/ \E e \in Events : e # call /\ s = <<e>>
    BY <1>6 DEF Emissions, EmitsOnSuccess, EmitsOnFailure, Events, ActivityCalls, Pipeline, AuditCalls
  <2> QED  BY <1>2, <1>4, <1>5, <2>1
<1>7. CASE a = "LLMInvoke"
  <2>1. /\ Count(log, call) < n /\ n <= MaximumAttempts["LLMInvoke"]
        /\ MaximumAttempts["LLMInvoke"] \in Nat
    BY <1>7, AttemptsAssumption DEF ActivityCalls, Pipeline
  <2>2. \/ s = <<>> \/ s = <<retried>>
        \/ n <= 1 /\ s = <<call>>
        \/ s = <<retried, call>>
    BY <1>7 DEF Emissions, EmitsOnSuccess, EmitsOnFailure
  <2>3. CASE n <= 1 /\ s = <<call>>
    <3>1. log' = Append(log, call)
      BY <2>3
    <3>2. Count(log, call) = 0 /\ Count(log, call) <= Count(log, retried) /\ Count(log, call) < MaximumAttempts["LLMInvoke"]
      BY <1>2, <2>1, <2>3
    <3>3. RetriesAuditedIn(log') /\ Count(log', call) = Count(log, call) + 1
      BY <1>1, <3>1, <3>2, CountAppend
    <3> QED  BY <1>2, <1>7, <3>3
  <2>4. CASE s = <<retried, call>>
    <3> DEFINE l == Append(log, retried)
    <3>1. log' = Append(l, call) /\ l \in Seq(Events)
      BY <1>1, <2>4
    <3>2. RetriesAuditedIn(l) /\ \A x : Count(l, x) = Count(log, x) + (IF x = retried THEN 1 ELSE 0)
      BY <1>1, CountAppend
    <3> HIDE DEF l
    <3>3. Count(l, call) = Count(log, call) /\ Count(l, retried) = Count(log, retried) + 1
      BY <1>1, <1>2, <3>2
    <3>4. Count(l, call) <= Count(l, retried) /\ Count(l, call) < MaximumAttempts["LLMInvoke"]
      BY <1>2, <1>3, <2>1, <3>3
    <3>5. RetriesAuditedIn(log') /\ Count(log', call) = Count(l, call) + 1
      BY <1>1, <3>1, <3>2, <3>4, CountAppend
    <3> QED  BY <1>2, <1>7, <3>3, <3>5
  <2> QED  BY <1>1, <1>2, <1>4, <1>5, <1>7, <2>2, <2>3, <2>4
<1> QED  BY <1>6, <1>7

\* Where workflow code takes run(): LLMInvoke is awaited once.
LEMMA MovesPastCall ==
    ASSUME IInv, Start \/ ReportOk \/ ReportFailure \/ ApprovalDecided \/ ApprovalTimeout \/ ScheduleToClose
    PROVE  \E point :
              /\ Goto(point) /\ UNCHANGED log
              /\ point \in BeforeCall \cup {"LLMInvoke"} => pc \in BeforeCall
<1> USE DEF Goto, Proceed, workflowState, BeforeCall, BeforeGate, AtGate
<1>1. CASE Start \/ ApprovalDecided \/ ApprovalTimeout
  BY <1>1 DEF Start, ApprovalDecided, ApprovalTimeout
<1>2. CASE ReportFailure \/ ScheduleToClose
  BY <1>2 DEF ReportFailure, ScheduleToClose, ActivityError
<1>3. CASE ReportOk
  <2>1. CASE pc = "JITTokenIssue"
    BY <1>3, <2>1 DEF ReportOk, Continue, EnterGate, Resume
  <2>2. CASE pc = "DecisionAudit"
    BY <1>3, <2>2 DEF ReportOk, Continue, Resume
  <2>3. CASE pc \notin {"JITTokenIssue", "DecisionAudit"}
    BY <1>3, <2>3 DEF ReportOk, Continue
  <2> QED  BY <2>1, <2>2, <2>3
<1> QED  BY <1>1, <1>2, <1>3

\* Every step keeps the calls within the attempts.
LEMMA RetryStep == IInv /\ IInv' /\ RetryInv /\ [Next]_vars => RetryInv'
<1> SUFFICES ASSUME IInv, IInv', RetryInv, [Next]_vars PROVE RetryInv'
  OBVIOUS
<1> DEFINE calls == Count(log, "adapter.complete")
<1>1. /\ log \in Seq(Events) /\ zombies \in [ActivityCalls -> Nat] /\ attempt \in Nat
      /\ "LLMInvoke" \in ActivityCalls /\ "LLMInvoke" \notin BeforeCall
      /\ pc = "LLMInvoke" => attempt \in 1..MaximumAttempts["LLMInvoke"]
      /\ pc' = "LLMInvoke" => attempt' \in 1..MaximumAttempts["LLMInvoke"]
      /\ MaximumAttempts["LLMInvoke"] \in Nat
  BY AttemptsAssumption DEF IInv, TypeOK, ActivityCalls, Pipeline, BeforeCall, BeforeGate, AtGate
<1>2. calls \in Nat
  <2>1. IsFiniteSet(1..Len(log)) /\ {i \in 1..Len(log) : log[i] = "adapter.complete"} \in SUBSET (1..Len(log))
    BY <1>1, FS_Interval
  <2> QED  BY <2>1, FS_Subset, FS_CardinalityType DEF Count, CountIn
<1> HIDE DEF calls
<1>3. ASSUME UNCHANGED log PROVE calls' = calls /\ RetriesAuditedIn(log)'
  BY <1>3 DEF calls, RetryInv
<1>4. CASE RunBody
  <2>1. PICK s \in Emissions(pc, attempt) : log' = log \o s
    BY <1>4 DEF RunBody, Emissions
  <2>2. pc \in ActivityCalls /\ attempt_state = "started" /\ attempt_state' \notin {"scheduled", "started"}
        /\ UNCHANGED <<pc, attempt, zombies>>
    BY <1>4 DEF RunBody
  <2>3. pc = "LLMInvoke" => calls < attempt /\ attempt <= MaximumAttempts["LLMInvoke"] /\ zombies["LLMInvoke"] = 0
    BY <1>1, <2>2 DEF RetryInv, calls
  <2>4. /\ RetriesAuditedIn(log)' /\ calls' \in Nat /\ calls' <= calls + 1
        /\ pc # "LLMInvoke" => calls' = calls
    BY <1>1, <2>1, <2>2, <2>3, EmissionCounts, ZenonT(60) DEF RetryInv, calls
  <2>5. CASE pc = "LLMInvoke"
    BY <1>1, <1>2, <2>2, <2>3, <2>4, <2>5 DEF RetryInv, calls
  <2>6. CASE pc # "LLMInvoke"
    BY <2>2, <2>4, <2>6 DEF RetryInv, calls
  <2> QED  BY <2>5, <2>6
<1>5. CASE ZombieRuns
  <2>1. PICK a \in ActivityCalls :
          /\ zombies[a] # 0
          /\ zombies' = [zombies EXCEPT ![a] = 0]
          /\ \E s \in Emissions(a, zombies[a]) : log' = log \o s
          /\ UNCHANGED <<pc, attempt, attempt_state>>
    BY <1>5, ZenonT(60) DEF ZombieRuns, Emissions
  <2>2. PICK s \in Emissions(a, zombies[a]) : log' = log \o s
    BY <2>1, ZenonT(60)
  <2>3. /\ zombies[a] \in Nat /\ zombies'["LLMInvoke"] = IF a = "LLMInvoke" THEN 0 ELSE zombies["LLMInvoke"]
    BY <1>1, <2>1
  <2>4. a = "LLMInvoke" => /\ calls < zombies[a] /\ zombies[a] <= MaximumAttempts["LLMInvoke"]
                           /\ pc \notin BeforeCall \cup {"LLMInvoke"}
    BY <2>1 DEF RetryInv, calls
  <2>5. /\ RetriesAuditedIn(log)' /\ calls' \in Nat /\ calls' <= calls + 1
        /\ a # "LLMInvoke" => calls' = calls
    BY <1>1, <2>2, <2>3, <2>4, EmissionCounts, ZenonT(60) DEF RetryInv, calls
  <2>6. CASE a = "LLMInvoke"
    BY <2>1, <2>3, <2>4, <2>5, <2>6 DEF RetryInv
  <2>7. CASE a # "LLMInvoke"
    BY <2>1, <2>3, <2>5, <2>7 DEF RetryInv, calls
  <2> QED  BY <2>6, <2>7
<1>6. CASE Start \/ ReportOk \/ ReportFailure \/ ApprovalDecided \/ ApprovalTimeout \/ ScheduleToClose
  <2>1. PICK point : /\ Goto(point) /\ UNCHANGED log
                     /\ point \in BeforeCall \cup {"LLMInvoke"} => pc \in BeforeCall
    BY <1>6, MovesPastCall
  <2>2. calls' = calls /\ RetriesAuditedIn(log)'
    BY <1>3, <2>1
  <2>3. \/ zombies'["LLMInvoke"] = zombies["LLMInvoke"]
        \/ pc = "LLMInvoke" /\ zombies'["LLMInvoke"] = IF attempt_state = "started" THEN attempt ELSE 0
    BY <1>1, <1>6 DEF Start, ReportOk, ReportFailure, ApprovalDecided, ApprovalTimeout, ScheduleToClose
  <2>4. pc' \in BeforeCall \cup {"LLMInvoke"} => calls' = 0 /\ zombies'["LLMInvoke"] = 0
    BY <1>1, <2>1, <2>2, <2>3 DEF RetryInv, Goto, calls
  <2>5. pc' = "LLMInvoke" => calls' < attempt' /\ calls' <= attempt'
    BY <1>1, <2>4
  <2>6. zombies'["LLMInvoke"] # 0 =>
           calls' < zombies'["LLMInvoke"] /\ zombies'["LLMInvoke"] <= MaximumAttempts["LLMInvoke"]
    BY <1>1, <2>2, <2>3 DEF RetryInv, calls
  <2> QED  BY <2>2, <2>4, <2>5, <2>6 DEF RetryInv, calls
<1>7. CASE StartAttempt \/ Retry \/ WorkerCrash
  <2>1. UNCHANGED <<pc, log>> /\ (zombies'["LLMInvoke"] = zombies["LLMInvoke"] \/ zombies'["LLMInvoke"] = 0)
    BY <1>1, <1>7 DEF StartAttempt, Retry, WorkerCrash
  <2>2. calls' = calls /\ RetriesAuditedIn(log)'
    BY <1>3, <2>1
  <2>3. pc = "LLMInvoke" => /\ calls <= attempt'
                            /\ attempt_state' \in {"scheduled", "started"} => calls < attempt'
    BY <1>1, <1>2, <1>7 DEF RetryInv, calls, StartAttempt, Retry, WorkerCrash
  <2> QED  BY <1>1, <2>1, <2>2, <2>3 DEF RetryInv, calls
<1>8. CASE UNCHANGED vars \/ \E decision \in ApprovalSignalPayload : Signal(decision)
  <2>1. UNCHANGED <<pc, attempt, attempt_state, zombies, log>>
    BY <1>8 DEF vars, Signal
  <2> QED  BY <1>3, <2>1 DEF RetryInv, calls
<1> QED  BY <1>4, <1>5, <1>6, <1>7, <1>8 DEF Next, WorkflowNext, WorkerStep, TimerStep

\* The model is called at most maximum_attempts times, and every call but the first is
\* announced by an llm.retried event of its own, for any retry policy and however
\* attempts are lost, retried, or go on running after the workflow has given them up.
THEOREM RetriesAreAudited == Spec => []RetriesAudited
<1>1. Init => RetryInv
  <2> SUFFICES ASSUME Init PROVE RetryInv
    OBVIOUS
  <2>1. Len(log) = 0 /\ zombies["LLMInvoke"] = 0 /\ pc = "created"
    BY DEF Init, ActivityCalls, Pipeline
  <2>2. \A e : CountIn(log, e, 0) = 0
    BY FS_EmptySet DEF CountIn
  <2>3. RetriesAuditedIn(log) /\ Count(log, "adapter.complete") = 0
    BY <2>1, <2>2, AttemptsAssumption DEF RetriesAuditedIn, Count, ActivityCalls, Pipeline
  <2> QED  BY <2>1, <2>3 DEF RetryInv
<1>2. IInv /\ RetryInv => RetriesAudited
  <2> SUFFICES ASSUME IInv, RetryInv PROVE RetriesAudited
    OBVIOUS
  <2>1. DOMAIN log \subseteq 0..Len(log)
    BY DEF IInv, TypeOK
  <2> QED  BY <2>1, ZenonT(60) DEF RetryInv, RetriesAuditedIn, CountIn, RetriesAudited, Calls, Retries
<1> QED  BY <1>1, <1>2, RetryStep, Invariance, PTL DEF Spec

-----------------------------------------------------------------------------
(***************************************************************************)
(* The endpoints.                                                          *)
(***************************************************************************)
\* Every step of the composition is a step of the workflow or leaves it alone.
LEMMA HandlerStep ==
    ASSUME requests \in [Requests -> Request], [HitlNext]_hitlVars
    PROVE  [Next]_vars
<1>1. ASSUME NEW q \in Requests, SignalWorkflow(q) PROVE [Next]_vars
  <2>1. requests[q].approver_id \in Approvers
    BY DEF Request
  <2>2. [approver_id |-> requests[q].approver_id, approved |-> requests[q].action = "approve"]
           \in ApprovalSignalPayload
    BY <2>1 DEF ApprovalSignalPayload
  <2> QED  BY <1>1, <2>2 DEF SignalWorkflow, Next
<1>2. ASSUME NEW q \in Requests, Authorize(q) \/ EvaluatePolicy(q) \/ GetPendingSnapshot(q)
      PROVE  UNCHANGED vars
  BY <1>2 DEF Authorize, EvaluatePolicy, GetPendingSnapshot
<1> QED  BY <1>1, <1>2 DEF HitlNext, Handler, Next, hitlVars

\* What a handler does to the requests, and when it leaves the decision alone.
LEMMA HandlerRequests ==
    ASSUME TypeOK, requests \in [Requests -> Request], NEW q \in Requests, Handler(q)
    PROVE  /\ requests' \in [Requests -> Request]
           /\ requests[q].at # "answered"
           /\ \A other \in Requests : other # q => requests'[other] = requests[other]
           /\ requests'[q].action = requests[q].action
           /\ requests'[q].approver_id = requests[q].approver_id
           /\ \/ UNCHANGED approval_signal /\ requests'[q].found = requests[q].found
              \/ /\ Signal([approver_id |-> requests[q].approver_id,
                            approved |-> requests[q].action = "approve"])
                 /\ requests'[q].at = "answered" /\ requests'[q].answer \in {"200", "500"}
                 /\ requests'[q].found = approval_state
<1>1. requests[q] \in Request /\ DOMAIN requests = Requests /\ approval_state \in PendingApprovalState
  BY DEF TypeOK
<1>2. ASSUME NEW point \in {"snapshot", "authorized", "pending"}, Advance(q, point)
      PROVE  /\ requests' \in [Requests -> Request]
             /\ \A other \in Requests : other # q => requests'[other] = requests[other]
             /\ requests'[q] = [requests[q] EXCEPT !.at = point]
  <2>1. [requests[q] EXCEPT !.at = point] \in Request
    BY <1>1, ZenonT(60) DEF Request
  <2> QED  BY <1>1, <1>2, <2>1 DEF Advance
<1>3. ASSUME NEW code \in Answers, Answer(q, code)
      PROVE  /\ requests' \in [Requests -> Request]
             /\ \A other \in Requests : other # q => requests'[other] = requests[other]
             /\ requests'[q] = [requests[q] EXCEPT !.at = "answered", !.answer = code]
  <2>1. [requests[q] EXCEPT !.at = "answered", !.answer = code] \in Request
    BY <1>1, ZenonT(60) DEF Request
  <2> QED  BY <1>1, <1>3, <2>1 DEF Answer
<1>4. CASE Authorize(q) \/ EvaluatePolicy(q) \/ GetPendingSnapshot(q)
  <2>1. UNCHANGED approval_signal /\ requests[q].at # "answered"
    BY <1>4 DEF Authorize, EvaluatePolicy, GetPendingSnapshot, vars, workflowState
  <2>2. \/ \E point \in {"snapshot", "authorized", "pending"} : Advance(q, point)
        \/ \E code \in Answers : Answer(q, code)
    BY <1>4 DEF Authorize, EvaluatePolicy, GetPendingSnapshot, Answers
  <2> QED  BY <1>1, <1>2, <1>3, <2>1, <2>2 DEF Request
<1>5. CASE requests[q].at = "pending" /\ Answer(q, "500") /\ UNCHANGED vars
  <2>1. "500" \in Answers /\ UNCHANGED approval_signal
    BY <1>5 DEF Answers, vars, workflowState
  <2> QED  BY <1>1, <1>3, <1>5, <2>1 DEF Request
<1>6. ASSUME NEW code \in {"200", "500"}, requests[q].at = "pending",
             Signal([approver_id |-> requests[q].approver_id, approved |-> requests[q].action = "approve"]),
             requests' = [requests EXCEPT ![q].at = "answered", ![q].answer = code,
                                          ![q].found = approval_state]
      PROVE  /\ requests' \in [Requests -> Request]
             /\ \A other \in Requests : other # q => requests'[other] = requests[other]
             /\ requests'[q].action = requests[q].action
             /\ requests'[q].approver_id = requests[q].approver_id
             /\ requests'[q].at = "answered" /\ requests'[q].answer = code
             /\ requests'[q].found = approval_state
  <2>1. [requests[q] EXCEPT !.at = "answered", !.answer = code, !.found = approval_state] \in Request
    BY <1>1, ZenonT(60) DEF Request, Answers
  <2> QED  BY <1>1, <1>6, <2>1 DEF Request
<1> QED  BY <1>4, <1>5, <1>6 DEF Handler, SignalWorkflow

\* The requests keep their type, so that the workflow behind the approve and deny
\* endpoints is one that is sent arbitrary signals at arbitrary times.
LEMMA EndpointsDriveWorkflow == HitlSpec => Spec /\ [](requests \in [Requests -> Request])
<1> DEFINE Typed == requests \in [Requests -> Request]
<1>1. HitlInit => Init /\ TypeOK /\ Typed
  BY InitEstablishes DEF HitlInit, IInv, Request
<1>2. IInv /\ Typed /\ [HitlNext]_hitlVars => IInv' /\ Typed' /\ [Next]_vars
  <2> SUFFICES ASSUME IInv, Typed, [HitlNext]_hitlVars PROVE IInv' /\ Typed' /\ [Next]_vars
    OBVIOUS
  <2>1. [Next]_vars
    BY HandlerStep
  <2>2. IInv'
    BY <2>1, NextPreserves
  <2>3. Typed'
    BY HandlerRequests DEF IInv, HitlNext, hitlVars
  <2> QED  BY <2>1, <2>2, <2>3
<1>3. HitlInit => IInv
  BY InitEstablishes DEF HitlInit
<1> QED  BY <1>1, <1>2, <1>3, PTL DEF HitlSpec, Spec

\* Driven by the endpoints, too, the model is called only after a review that was
\* asked for has been approved.
COROLLARY EndpointCallsAreGoverned == HitlSpec => []GovernedCalls
BY EndpointsDriveWorkflow, CallsAreGoverned, PTL

\* So do the other safety properties of the workflow: verdicts are the recorded
\* decisions, audited as such, outcomes agree with them and retries are announced.
COROLLARY EndpointRunsAreSound ==
    HitlSpec => [](VerdictIsLastSignal /\ AuditAgreesWithVerdict /\ OutcomeConsistent /\ RetriesAudited)
BY EndpointsDriveWorkflow, VerdictIsSignalled, AuditIsTruthful, OutcomesAreConsistent,
   RetriesAreAudited, PTL

\* The endpoints and the workflow together implement the approval gate: whatever is
\* requested, a gate is entered and left once, and a verdict is never revised.
COROLLARY EndpointsImplementGate == HitlSpec => ImplementsGate
BY EndpointsDriveWorkflow, WorkflowImplementsGate, PTL

-----------------------------------------------------------------------------
\* The request that decided has been answered, so nothing changes it any more; and where
\* a request met the open gate there is a decision.
AuthorInv ==
    /\ requests \in [Requests -> Request]
    /\ approval_signal \in ApprovalSignalPayload \cup {NONE}
    /\ approval_signal # NONE =>
        \E q \in Recorded :
            /\ requests[q].at = "answered"
            /\ requests[q].answer \in {"200", "500"}
            /\ requests[q].approver_id = approval_signal.approver_id
            /\ requests[q].action = "approve" <=> approval_signal.approved
    /\ Recorded # {} => approval_signal # NONE

\* Only the signal handlers write the decision.
LEMMA WorkflowKeepsSignal == ASSUME WorkflowNext PROVE UNCHANGED approval_signal
BY DEF WorkflowNext, WorkerStep, TimerStep, Start, ApprovalDecided, ApprovalTimeout, StartAttempt,
       RunBody, ReportOk, Retry, ReportFailure, ScheduleToClose, ZombieRuns, WorkerCrash,
       Continue, EnterGate, Resume, Proceed, ActivityError, workflowState

\* Every step of the composition keeps the author of the decision.
LEMMA AuthorStep == TypeOK /\ AuthorInv /\ [HitlNext]_hitlVars => AuthorInv'
<1> SUFFICES ASSUME TypeOK, AuthorInv, [HitlNext]_hitlVars PROVE AuthorInv'
  OBVIOUS
<1>1. CASE UNCHANGED <<approval_signal, requests>>
  BY <1>1 DEF AuthorInv, Recorded
<1>2. ASSUME NEW q \in Requests, Handler(q) PROVE AuthorInv'
  <2> DEFINE decision == [approver_id |-> requests[q].approver_id, approved |-> requests[q].action = "approve"]
  <2>1. /\ requests' \in [Requests -> Request]
        /\ requests[q].at # "answered"
        /\ \A other \in Requests : other # q => requests'[other] = requests[other]
        /\ requests'[q].action = requests[q].action
        /\ requests'[q].approver_id = requests[q].approver_id
        /\ \/ UNCHANGED approval_signal /\ requests'[q].found = requests[q].found
           \/ /\ Signal(decision)
              /\ requests'[q].at = "answered" /\ requests'[q].answer \in {"200", "500"}
              /\ requests'[q].found = approval_state
    BY <1>2, HandlerRequests DEF AuthorInv
  <2>2. requests[q].approver_id \in Approvers
    BY DEF AuthorInv, Request
  <2>3. decision \in ApprovalSignalPayload /\ decision # NONE
    <3>1. [approver_id |-> requests[q].approver_id, approved |-> requests[q].action = "approve"]
             \in ApprovalSignalPayload
        BY <2>2 DEF ApprovalSignalPayload
    <3> QED  BY <3>1, NoneAssumption
  <2>4. /\ decision.approver_id = requests[q].approver_id
        /\ decision.approved <=> requests[q].action = "approve"
    OBVIOUS
  <2> HIDE DEF decision
  <2>5. ASSUME UNCHANGED approval_signal, approval_signal # NONE
        PROVE  \E other \in Recorded' :
                  /\ requests'[other].at = "answered"
                  /\ requests'[other].answer \in {"200", "500"}
                  /\ requests'[other].approver_id = approval_signal.approver_id
                  /\ requests'[other].action = "approve" <=> approval_signal.approved
    <3>1. PICK other \in Recorded : /\ requests[other].at = "answered"
                                    /\ requests[other].answer \in {"200", "500"}
                                    /\ requests[other].approver_id = approval_signal.approver_id
                                    /\ requests[other].action = "approve" <=> approval_signal.approved
      BY <2>5 DEF AuthorInv
    <3>2. other \in Requests /\ other # q
      BY <2>1, <3>1 DEF Recorded
    <3>3. requests'[other] = requests[other] /\ other \in Recorded'
      BY <2>1, <3>1, <3>2 DEF Recorded
    <3> QED  BY <3>1, <3>3
  <2>6. CASE UNCHANGED approval_signal /\ requests'[q].found # "awaiting-approval"
    <3>1. Recorded' # {} => Recorded # {}
      BY <2>1, <2>6 DEF Recorded
    <3> QED  BY <2>1, <2>5, <2>6, <3>1 DEF AuthorInv
  <2>7. CASE UNCHANGED approval_signal /\ requests'[q].found = requests[q].found
    <3>1. Recorded' # {} => Recorded # {}
      BY <2>1, <2>7 DEF Recorded
    <3> QED  BY <2>1, <2>5, <2>7, <3>1 DEF AuthorInv
  <2>8. CASE /\ approval_signal' = decision /\ requests'[q].found = "awaiting-approval"
             /\ requests'[q].at = "answered" /\ requests'[q].answer \in {"200", "500"}
    <3>1. q \in Recorded'
      BY <2>8 DEF Recorded
    <3>2. /\ requests'[q].approver_id = approval_signal'.approver_id
          /\ requests'[q].action = "approve" <=> approval_signal'.approved
      BY <2>1, <2>4, <2>8
    <3> QED  BY <2>1, <2>3, <2>8, <3>1, <3>2 DEF AuthorInv
  <2> QED  BY <2>1, <2>6, <2>7, <2>8 DEF Signal
<1>3. CASE WorkflowNext /\ UNCHANGED requests
  BY <1>1, <1>3, WorkflowKeepsSignal
<1> QED  BY <1>1, <1>2, <1>3 DEF HitlNext, hitlVars, vars, workflowState

\* The author of a decision is known throughout.
LEMMA AuthorInvariance == HitlSpec => [](IInv /\ AuthorInv)
<1>1. HitlInit => AuthorInv
  <2> SUFFICES ASSUME HitlInit PROVE AuthorInv
    OBVIOUS
  <2>1. requests \in [Requests -> Request] /\ \A q \in Requests : requests[q].found = NONE
    BY DEF HitlInit, Request
  <2>2. approval_signal = NONE
    BY DEF HitlInit, Init
  <2>3. Recorded = {}
    BY <2>1, FoundAssumption DEF Recorded, PendingApprovalState
  <2> QED  BY <2>1, <2>2, <2>3 DEF AuthorInv
<1>2. HitlSpec => []IInv
  BY EndpointsDriveWorkflow, Invariance, PTL
<1>3. IInv => TypeOK
  BY DEF IInv
<1> QED  BY <1>1, <1>2, <1>3, AuthorStep, PTL DEF HitlSpec

\* The handlers of router.py only ever answer with the codes docs/api-reference.md
\* lists and 500, and the workflow behind them keeps its types.
THEOREM EndpointTypeCorrectness == HitlSpec => []HitlTypeOK
<1>1. IInv /\ AuthorInv => HitlTypeOK
  BY DEF IInv, AuthorInv, HitlTypeOK
<1> QED  BY <1>1, AuthorInvariance, PTL

\* Whatever requests race with each other and with the timer, the decision a workflow
\* holds, and the approver it names, are those of one request that passed the checks of
\* its handler, recorded while the gate was open.
THEOREM DecisionsHaveAuthors == HitlSpec => []DecisionHasAuthor
<1>1. IInv /\ AuthorInv => DecisionHasAuthor
  BY DEF AuthorInv, DecisionHasAuthor
<1> QED  BY <1>1, AuthorInvariance, PTL

\* No call of the model without an approver: if a task that asked for a review reached
\* the model, one of the requests was an authorised approval that met the open gate.
THEOREM CallsHaveApprovers == HitlSpec => []CallHasApprover
<1>1. IInv /\ AuthorInv => CallHasApprover
  <2> SUFFICES ASSUME IInv, AuthorInv, inp.needs_approval, Logged("adapter.complete")
               PROVE  \E q \in Recorded : requests[q].action = "approve" /\ requests[q].answer \in {"200", "500"}
    BY DEF CallHasApprover
  <2>1. PICK i \in DOMAIN log : log[i] = "adapter.complete"
    BY DEF Logged
  <2>2. PICK j \in 1..(i - 1) : log[j] = "workflow.approved"
    BY <2>1 DEF IInv, GovernedCalls, LoggedBefore
  <2>3. j \in DOMAIN log
    BY <2>1, <2>2 DEF IInv, TypeOK
  <2>4. approval_state = "approved"
    BY <2>2, <2>3 DEF IInv, AuditAgreesWithVerdict, Logged
  <2>5. approval_signal # NONE /\ approval_signal.approved
    BY <2>4 DEF IInv, VerdictIsLastSignal
  <2> QED  BY <2>5 DEF AuthorInv
<1> QED  BY <1>1, AuthorInvariance, PTL

\* A decision that met the open gate is never lost to the timer, and only another that
\* met it can overrule it, for any number of requests and whatever they were answered.
THEOREM RecordedDecisionsStand == HitlSpec => []RecordedDecisionStands
<1>1. IInv /\ AuthorInv => RecordedDecisionStands
  <2> SUFFICES ASSUME IInv, AuthorInv, Recorded # {}
               PROVE  /\ approval_state \notin {"not-required", "timed-out"}
                      /\ ~ Logged("workflow.timed_out")
                      /\ approval_state = "approved" => \E other \in Recorded : requests[other].action = "approve"
                      /\ approval_state = "denied" => \E other \in Recorded : requests[other].action = "deny"
    BY DEF RecordedDecisionStands
  <2>1. approval_signal # NONE
    BY DEF AuthorInv
  <2>2. approval_state \notin {"not-required", "timed-out"} /\ ~ Logged("workflow.timed_out")
    BY <2>1 DEF IInv, GateInv, VerdictIsLastSignal, AuditAgreesWithVerdict
  <2>3. PICK q \in Recorded : requests[q].action = "approve" <=> approval_signal.approved
    BY <2>1 DEF AuthorInv
  <2>4. requests[q].action \in {"approve", "deny"}
    BY DEF AuthorInv, Recorded, Request
  <2>5. /\ approval_state = "approved" => requests[q].action = "approve"
        /\ approval_state = "denied" => requests[q].action = "deny"
    BY <2>3, <2>4 DEF IInv, VerdictIsLastSignal
  <2> QED  BY <2>2, <2>5
<1> QED  BY <1>1, AuthorInvariance, PTL
=============================================================================
