---------------------------- MODULE LoopDetector ----------------------------
(***************************************************************************)
(* The execution contexts of src/watchdog/loop_detector.py as values: what *)
(* record_step makes of a context, which circuit-breaker error, if any, it *)
(* raises, and how a context is carried over a restart by a checkpoint.    *)
(***************************************************************************)
EXTENDS Naturals, Sequences, FiniteSets

CONSTANTS
    MaxAgentSteps,      \* max_agent_steps
    MaxTokenVelocity    \* max_token_velocity

ASSUME LoopAssumption == MaxAgentSteps \in Nat /\ MaxTokenVelocity \in Nat

LoopSignal == {"progress", "no_progress", "human_intervention_required"}

LoopErrors == {"LoopDetectedError", "TokenVelocityError", "PendingApprovalError"}

Steps == [token_delta : Nat, signal : LoopSignal]
NumberedSteps == [step_number : Nat, token_delta : Nat, signal : LoopSignal]

\* ExecutionContext, and the ExecutionCheckpoint that carries one over a restart: its
\* steps have their numbers.
Contexts ==
    [steps : Seq(Steps),
     total_tokens : Nat,
     loop_detected : BOOLEAN,
     intervention_required : BOOLEAN]
Checkpoints ==
    [steps : Seq(NumberedSteps),
     total_tokens : Nat,
     loop_detected : BOOLEAN,
     intervention_required : BOOLEAN]

NewContext ==
    [steps |-> <<>>, total_tokens |-> 0, loop_detected |-> FALSE, intervention_required |-> FALSE]

\* _no_progress_streak: the steps from which on none has another signal.
NoProgressStreak(steps) ==
    Cardinality({i \in 1..Len(steps) : \A j \in i..Len(steps) : steps[j].signal = "no_progress"})

\* Mutant of StepError: the breaker trips one step late.
StepErrorLate(steps) ==
    LET step == steps[Len(steps)] IN
    IF step.token_delta > MaxTokenVelocity THEN "TokenVelocityError"
    ELSE IF step.signal = "human_intervention_required" THEN "PendingApprovalError"
    ELSE IF NoProgressStreak(steps) > MaxAgentSteps THEN "LoopDetectedError"
    ELSE "none"

\* The error record_step raises once the step is appended; "none" where it returns.
StepError(steps) ==
    LET step == steps[Len(steps)] IN
    IF step.token_delta > MaxTokenVelocity THEN "TokenVelocityError"
    ELSE IF step.signal = "human_intervention_required" THEN "PendingApprovalError"
    ELSE IF NoProgressStreak(steps) >= MaxAgentSteps THEN "LoopDetectedError"
    ELSE "none"

RecordStep(ctx, token_delta, signal) ==
    LET steps == Append(ctx.steps, [token_delta |-> token_delta, signal |-> signal]) IN
    [steps |-> steps,
     total_tokens |-> ctx.total_tokens + token_delta,
     loop_detected |-> ctx.loop_detected \/ StepError(steps) \in {"TokenVelocityError", "LoopDetectedError"},
     intervention_required |-> ctx.intervention_required \/ StepError(steps) = "PendingApprovalError"]

Checkpoint(ctx) ==
    [total_tokens |-> ctx.total_tokens,
     loop_detected |-> ctx.loop_detected,
     intervention_required |-> ctx.intervention_required,
     steps |-> [i \in 1..Len(ctx.steps) |->
                  [step_number |-> i,
                   token_delta |-> ctx.steps[i].token_delta,
                   signal |-> ctx.steps[i].signal]]]

\* Mutants of Restore: a new context; the signals are not restored, nor is the streak.
RestoreAnew(snapshot) == NewContext
RestoreTallies(snapshot) ==
    [steps |-> [i \in 1..Len(snapshot.steps) |->
                  [token_delta |-> snapshot.steps[i].token_delta, signal |-> "progress"]],
     total_tokens |-> snapshot.total_tokens,
     loop_detected |-> snapshot.loop_detected,
     intervention_required |-> snapshot.intervention_required]

Restore(snapshot) ==
    [steps |-> [i \in 1..Len(snapshot.steps) |->
                  [token_delta |-> snapshot.steps[i].token_delta,
                   signal |-> snapshot.steps[i].signal]],
     total_tokens |-> snapshot.total_tokens,
     loop_detected |-> snapshot.loop_detected,
     intervention_required |-> snapshot.intervention_required]
=============================================================================
