--------------------------- MODULE LoopActivities ---------------------------
(***************************************************************************)
(* The activity LoopRecordStep (src/control_plane/scheduler.py) under a    *)
(* workflow that calls it once per agent step and owns the checkpoint, as  *)
(* in tests/test_loop_recovery.py.  Workflow code and attempts run on      *)
(* worker processes that crash, and that come back with another encryption *)
(* key when the key is being rotated.  An attempt builds a detector of its *)
(* own, restores the checkpoint into it and records the step; its body has *)
(* no await, so it is one step, and its result reaches the workflow in     *)
(* another.                                                                *)
(***************************************************************************)
EXTENDS LoopDetector, PayloadCodec

CONSTANTS
    Workers,
    Keys,               \* values of AEGIS_TEMPORAL_ENCRYPTION_KEY
    TokenDeltas,        \* the tokens a step may have used
    MaxSteps,           \* bound: steps of a task
    MaximumAttempts,    \* RetryPolicy.maximum_attempts of the call
    NONE                \* Python's None

\* The values exchanged with Temporal: inputs, results and their payloads.
Inputs == [checkpoint : Checkpoints \cup {NONE}, token_delta : TokenDeltas, signal : LoopSignal]
Results == [checkpoint : Checkpoints]
Payloads(values) ==
    [encoding : {EncryptedEncoding},
     original_encoding : {PlainEncoding},
     data : [key : Keys, token : values]]

Counts == [step_count : Nat, total_tokens : Nat]
Replies ==
    [raised : LoopErrors \cup {"none", "retryable"},
     totals : Counts,
     result : Payloads(Results) \cup {NONE}]

ASSUME LoopActivitiesAssumption ==
    /\ TokenDeltas \subseteq Nat /\ MaxSteps \in Nat /\ MaximumAttempts \in Nat \ {0}
    /\ NONE \notin Checkpoints /\ NONE \notin Replies
    /\ NONE \notin Payloads(Inputs) /\ NONE \notin Payloads(Results)
    /\ NONE \notin Workers /\ "lost" \notin Workers \cup {NONE}

VARIABLES
    keys,       \* the key of each worker's codec
    last,       \* the payload of the last LoopRecordResult in the history, or NONE
    call,       \* the payload of the LoopRecordInput being worked on, or NONE
    attempt,    \* its number, 0 where there is no call
    runner,     \* the worker that has started the attempt, or NONE
    reply,      \* what the body has returned or raised, or NONE
    abandoned,  \* attempts given up on that still run: worker and call
    status,     \* "running", the error that ended the task, or "failed"
    report,     \* step_count and total_tokens as the workflow knows them
    audit       \* for each step, how often each audit event has been emitted

callVars == <<last, call, attempt, status, report>>
vars == <<keys, callVars, runner, reply, abandoned, audit>>

\* The events of LoopRecordStep, and those its detector, which has the same logger, emits
\* itself.  The event of create_context, which names no step, is left out.
AuditEvents ==
    {"loop.step_recorded", "loop.halted", "loop.velocity_exceeded", "loop.pending_approval",
     "detector.loop.detected", "detector.loop.pending_approval"}

Totals(ctx) == [step_count |-> Len(ctx.steps), total_tokens |-> ctx.total_tokens]

TypeOK ==
    /\ keys \in [Workers -> Keys]
    /\ last \in Payloads(Results) \cup {NONE}
    /\ call \in Payloads(Inputs) \cup {NONE}
    /\ attempt \in 0..MaximumAttempts
    /\ call = NONE <=> attempt = 0
    /\ runner \in Workers \cup {NONE, "lost"}
    /\ reply \in Replies \cup {NONE}
    /\ abandoned \subseteq [worker : Workers, call : Payloads(Inputs)]
    /\ status \in LoopErrors \cup {"running", "failed"}
    /\ report \in Counts
    /\ audit \in [1..MaxSteps -> [AuditEvents -> Nat]]

Init ==
    /\ keys \in [Workers -> Keys]
    /\ last = NONE
    /\ call = NONE
    /\ attempt = 0
    /\ runner = NONE
    /\ reply = NONE
    /\ abandoned = {}
    /\ status = "running"
    /\ report = Totals(NewContext)
    /\ audit = [n \in 1..MaxSteps |-> [event \in AuditEvents |-> 0]]

-----------------------------------------------------------------------------
\* The value a payload carries to whoever can read it.
Value(payload) == Decode(payload.data.key, payload).data

\* The checkpoint workflow code on worker w passes on: that of the last result.
Held(w) == IF last = NONE THEN NONE ELSE Decode(keys[w], last).data.checkpoint

\* Workflow code on worker w reads the last result and calls LoopRecordStep.  A worker
\* whose key does not fit fails the workflow task, which another takes up.
ExecuteActivity(w, token_delta, signal) ==
    /\ status = "running" /\ call = NONE
    /\ report.step_count < MaxSteps
    /\ last # NONE => Decodable(keys[w], last)
    /\ call' = Encode(keys[w], Plain([checkpoint |-> Held(w),
                                      token_delta |-> token_delta, signal |-> signal]))
    /\ attempt' = 1
    /\ UNCHANGED <<keys, last, status, report, runner, reply, abandoned, audit>>

StartAttempt(w) ==
    /\ call # NONE /\ runner = NONE
    /\ runner' = w
    /\ UNCHANGED <<keys, callVars, reply, abandoned, audit>>

\* The context an attempt leaves in its detector.
Stepped(inp) ==
    RecordStep(IF inp.checkpoint = NONE THEN NewContext ELSE Restore(inp.checkpoint),
               inp.token_delta, inp.signal)

\* What the detector emits before it raises.
DetectorEvents(error) ==
    CASE error = "none"                 -> {}
      [] error = "PendingApprovalError" -> {"detector.loop.pending_approval"}
      [] OTHER                          -> {"detector.loop.detected"}

\* Mutant of StageEvents: the step is audited before the detector is asked.
StageEventsFirst(error) == {"loop.step_recorded"}

\* What the activity emits when the detector has returned or raised.
StageEvents(error) ==
    CASE error = "none"               -> {"loop.step_recorded"}
      [] error = "LoopDetectedError"  -> {"loop.halted"}
      [] error = "TokenVelocityError" -> {"loop.velocity_exceeded"}
      [] OTHER                        -> {"loop.pending_approval"}

\* The events of an attempt that runs to its end, and how far one may get that does not.
AllEvents(after) == DetectorEvents(StepError(after.steps)) \cup StageEvents(StepError(after.steps))
SomeEvents(after) == {{}, DetectorEvents(StepError(after.steps)), AllEvents(after)}

Noted(line, events) == [event \in AuditEvents |-> line[event] + IF event \in events THEN 1 ELSE 0]
Audited(after, events) == [audit EXCEPT ![Len(after.steps)] = Noted(@, events)]

\* LoopRecordResult, or the ApplicationError with the totals in its message.
LoopRecordResult(w, after) ==
    [raised |-> StepError(after.steps),
     totals |-> Totals(after),
     result |-> IF StepError(after.steps) = "none"
                  THEN Encode(keys[w], Plain([checkpoint |-> Checkpoint(after)])) ELSE NONE]

Retryable == [raised |-> "retryable", totals |-> Totals(NewContext), result |-> NONE]

\* The body on worker w: the payload cannot be decoded; or the step is recorded and
\* audited; or something else raises, before, between or after the events.
LoopRecordStep(w) ==
    /\ runner = w /\ reply = NONE
    /\ \/ /\ Decodable(keys[w], call)
          /\ LET after == Stepped(Decode(keys[w], call).data) IN
             \E events \in SomeEvents(after) :
                /\ audit' = Audited(after, events)
                /\ \/ reply' = Retryable
                   \/ events = AllEvents(after) /\ reply' = LoopRecordResult(w, after)
       \/ reply' = Retryable /\ UNCHANGED audit
    /\ UNCHANGED <<keys, callVars, runner, abandoned>>

EndCall == call' = NONE /\ attempt' = 0 /\ runner' = NONE /\ reply' = NONE

\* execute_activity returns: the workflow keeps the new checkpoint.
Completed ==
    /\ reply # NONE /\ reply.raised = "none"
    /\ last' = reply.result
    /\ report' = reply.totals
    /\ EndCall
    /\ UNCHANGED <<keys, status, abandoned, audit>>

\* execute_activity raises a breaker's error, which no policy retries: the task ends
\* with the totals of the message, and with the checkpoint it had.
Tripped ==
    /\ reply # NONE /\ reply.raised \in LoopErrors
    /\ status' = reply.raised
    /\ report' = reply.totals
    /\ EndCall
    /\ UNCHANGED <<keys, last, abandoned, audit>>

\* Mutant of Retried: one attempt too many.
RetriedOnceMore ==
    /\ reply # NONE /\ reply.raised = "retryable"
    /\ attempt' = attempt + 1
    /\ runner' = NONE /\ reply' = NONE
    /\ UNCHANGED <<keys, last, call, status, report, abandoned, audit>>

Retried ==
    /\ reply # NONE /\ reply.raised = "retryable"
    /\ attempt < MaximumAttempts
    /\ attempt' = attempt + 1
    /\ runner' = NONE /\ reply' = NONE
    /\ UNCHANGED <<keys, last, call, status, report, abandoned, audit>>

\* The last attempt has failed, or schedule_to_close_timeout fires.  An attempt that has
\* not run its body by then may still do so.
Failed ==
    /\ call # NONE
    /\ status' = "failed"
    /\ abandoned' = IF runner \in Workers /\ reply = NONE
                      THEN abandoned \cup {[worker |-> runner, call |-> call]} ELSE abandoned
    /\ EndCall
    /\ UNCHANGED <<keys, last, report, audit>>

AbandonedRuns(zombie) ==
    /\ Decodable(keys[zombie.worker], zombie.call)
    /\ LET after == Stepped(Decode(keys[zombie.worker], zombie.call).data) IN
       \E events \in SomeEvents(after) : audit' = Audited(after, events)
    /\ abandoned' = abandoned \ {zombie}
    /\ UNCHANGED <<keys, callVars, runner, reply>>

\* A worker dies with its attempts, and a result it has not reported; it comes back with
\* the key its environment then holds.
WorkerRestart(w, key) ==
    /\ keys' = [keys EXCEPT ![w] = key]
    /\ runner' = IF runner = w THEN "lost" ELSE runner
    /\ reply' = IF runner = w THEN NONE ELSE reply
    /\ abandoned' = {zombie \in abandoned : zombie.worker # w}
    /\ UNCHANGED <<callVars, audit>>

Next ==
    \/ \E w \in Workers, token_delta \in TokenDeltas, signal \in LoopSignal :
          ExecuteActivity(w, token_delta, signal)
    \/ \E w \in Workers : StartAttempt(w) \/ LoopRecordStep(w)
    \/ Completed \/ Tripped \/ Retried \/ Failed
    \/ \E zombie \in abandoned : AbandonedRuns(zombie)
    \/ \E w \in Workers, key \in Keys : WorkerRestart(w, key)

Spec == Init /\ [][Next]_vars

-----------------------------------------------------------------------------
\* The context a detector would have that takes up the checkpoint.
Current == IF last = NONE THEN NewContext ELSE Restore(Value(last).checkpoint)

\* restore, src/watchdog/loop_detector.py: "record_step can be called on the restored
\* context as if execution had never been interrupted".  However often a step is
\* attempted, on whichever worker and under whichever key, the task goes through the
\* contexts, the verdict and the totals of a single detector that is told of each step
\* once.
Loop == INSTANCE UninterruptedLoop WITH
    context <- Current,
    verdict <- status,
    totals <- report
ImplementsUninterrupted == Loop!LoopSpec

\* What the trail says of the step that raises an error, or of one that passes.
Story ==
    [none                 |-> {"loop.step_recorded"},
     LoopDetectedError    |-> {"detector.loop.detected", "loop.halted"},
     TokenVelocityError   |-> {"detector.loop.detected", "loop.velocity_exceeded"},
     PendingApprovalError |-> {"detector.loop.pending_approval", "loop.pending_approval"}]

Told(n) == {event \in AuditEvents : audit[n][event] > 0}

\* The audit trail, which detector and activity both write and every attempt writes
\* again, tells one story: attempts of a step never disagree on what became of it; none
\* of its events is there more often than it was attempted, and none of the activity's
\* more often than the detector's it answers; a step the workflow went past was audited
\* as recorded; and the error that ended a task was audited, by both, for the step it
\* reports.
AuditTellsOneStory ==
    /\ \A n \in 1..MaxSteps :
          /\ \E error \in DOMAIN Story : Told(n) \subseteq Story[error]
          /\ \A event \in AuditEvents : audit[n][event] <= MaximumAttempts
          /\ audit[n]["loop.halted"] <= audit[n]["detector.loop.detected"]
          /\ audit[n]["loop.velocity_exceeded"] <= audit[n]["detector.loop.detected"]
          /\ audit[n]["loop.pending_approval"] <= audit[n]["detector.loop.pending_approval"]
    /\ status \notin LoopErrors => \A n \in 1..report.step_count : Told(n) = Story["none"]
    /\ status \in LoopErrors =>
          /\ \A n \in 1..(report.step_count - 1) : Told(n) = Story["none"]
          /\ Told(report.step_count) = Story[status]

\* The steps in the checkpoint are those the workflow asked for: it changes only by the
\* step of the call in progress, whichever attempt of it on whichever worker is the one
\* that is received, and whatever the restored detector was shown before.
CheckpointFollowsCalls ==
    [][Current' = Current \/ Current' = RecordStep(Current, Value(call).token_delta, Value(call).signal)]_vars

\* A checkpoint the workflow holds is inside both breakers, over its whole history and
\* not only since the last restart: any max_agent_steps steps in a row have one with
\* progress, and the steps used at most max_token_velocity tokens each on average, so
\* that no crash, retry or lost result has a step forgotten or its tokens counted twice.
BreakersHold ==
    LET steps == Current.steps IN
    /\ \A i \in 1..Len(steps) : i + MaxAgentSteps <= Len(steps) + 1 =>
          \E j \in i..Len(steps) : j < i + MaxAgentSteps /\ steps[j].signal = "progress"
    /\ Current.total_tokens <= Len(steps) * MaxTokenVelocity
=============================================================================
