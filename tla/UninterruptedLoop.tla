------------------------- MODULE UninterruptedLoop -------------------------
(***************************************************************************)
(* What LoopRecordStep promises: the task has one loop detector that lives *)
(* as long as the task, is told of every step exactly once, and ends the   *)
(* task at the first step that trips a breaker or asks for a human.  There *)
(* are no workers, attempts, checkpoints or payloads here.                 *)
(***************************************************************************)
EXTENDS Naturals, Sequences

CONSTANTS
    TokenDeltas,            \* the tokens a step may have used
    LoopSignal, NewContext, RecordStep(_, _, _), StepError(_)   \* the detector

VARIABLES
    context,    \* the ExecutionContext of the task
    verdict,    \* "running", the error that ended the task, or "failed"
    totals      \* what the error reported

loopVars == <<context, verdict, totals>>

Totals(ctx) == [step_count |-> Len(ctx.steps), total_tokens |-> ctx.total_tokens]

LoopInit ==
    /\ context = NewContext
    /\ verdict = "running"
    /\ totals = Totals(NewContext)

\* A step the detector lets pass.
Pass(token_delta, signal) ==
    LET after == RecordStep(context, token_delta, signal) IN
    /\ verdict = "running"
    /\ StepError(after.steps) = "none"
    /\ context' = after
    /\ totals' = Totals(after)
    /\ UNCHANGED verdict

\* A step it does not, which counts in the report.
Trip(token_delta, signal) ==
    LET after == RecordStep(context, token_delta, signal) IN
    /\ verdict = "running"
    /\ StepError(after.steps) # "none"
    /\ verdict' = StepError(after.steps)
    /\ totals' = Totals(after)
    /\ UNCHANGED context

\* The task ends for a reason of its own; a step it was taking is not counted.
Fail ==
    /\ verdict = "running"
    /\ verdict' = "failed"
    /\ UNCHANGED <<context, totals>>

LoopNext ==
    \/ \E token_delta \in TokenDeltas, signal \in LoopSignal :
          Pass(token_delta, signal) \/ Trip(token_delta, signal)
    \/ Fail

LoopSpec == LoopInit /\ [][LoopNext]_loopVars
=============================================================================
