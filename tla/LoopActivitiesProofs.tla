------------------------ MODULE LoopActivitiesProofs ------------------------
(***************************************************************************)
(* Proofs about LoopRecordStep, for every number of workers and keys, any  *)
(* retry policy and tasks of any length: it keeps the promise of           *)
(* UninterruptedLoop, and its audit trail tells one story.                 *)
(***************************************************************************)
EXTENDS LoopActivities, FiniteSetTheorems, TLAPS

\* The provers, and their seconds, for a leaf that does not name one.
USE ZenonT(3), SMTT(60), ZenonT(60), SMTT(61)

(***************************************************************************)
(* The values of LoopDetector.                                             *)
(***************************************************************************)
\* A context survives a checkpoint and a restore unchanged.
LEMMA RestoreOfCheckpoint ==
    ASSUME NEW ctx \in Contexts
    PROVE  Checkpoint(ctx) \in Checkpoints /\ Restore(Checkpoint(ctx)) = ctx
PROOF
<1> DEFINE numbered == Checkpoint(ctx).steps
           restored == Restore(Checkpoint(ctx)).steps
<1>1. /\ Len(ctx.steps) \in Nat /\ ctx.steps \in [1..Len(ctx.steps) -> Steps]
      /\ numbered = [i \in 1..Len(ctx.steps) |-> [step_number |-> i,
                       token_delta |-> ctx.steps[i].token_delta, signal |-> ctx.steps[i].signal]]
  BY DEF Contexts, Checkpoint
<1>2. /\ numbered \in [1..Len(ctx.steps) -> NumberedSteps]
      /\ Len(numbered) = Len(ctx.steps)
  BY <1>1 DEF Steps, NumberedSteps
<1>3. Checkpoint(ctx) \in Checkpoints
  BY <1>1, <1>2 DEF Checkpoint, Checkpoints, Contexts
<1>4. restored = [i \in 1..Len(ctx.steps) |-> [token_delta |-> numbered[i].token_delta,
                                               signal |-> numbered[i].signal]]
  BY <1>2 DEF Restore
<1>5. restored = ctx.steps
  <2>1. ASSUME NEW i \in 1..Len(ctx.steps) PROVE restored[i] = ctx.steps[i]
    <3> HIDE DEF restored, numbered
    <3>1. /\ numbered[i].token_delta = ctx.steps[i].token_delta
          /\ numbered[i].signal = ctx.steps[i].signal
      BY <1>1
    <3>2. restored[i] = [token_delta |-> numbered[i].token_delta, signal |-> numbered[i].signal]
      BY <1>4
    <3>3. ctx.steps[i] \in Steps
      BY <1>1
    <3>4. ctx.steps[i] = [token_delta |-> ctx.steps[i].token_delta, signal |-> ctx.steps[i].signal]
      BY <3>3 DEF Steps
    <3> QED BY <3>1, <3>2, <3>4
  <2>2. restored = [i \in 1..Len(ctx.steps) |-> restored[i]]
    BY <1>4
  <2>3. ctx.steps = [i \in 1..Len(ctx.steps) |-> ctx.steps[i]]
    BY <1>1
  <2> HIDE DEF restored, numbered
  <2> QED BY <2>1, <2>2, <2>3, ZenonT(60)
<1> QED BY <1>3, <1>5, ZenonT(60) DEF Restore, Checkpoint, Contexts

\* restore() of a checkpoint is a context.
LEMMA RestoreType ==
    ASSUME NEW snapshot \in Checkpoints
    PROVE  Restore(snapshot) \in Contexts
PROOF
<1>1. /\ Len(snapshot.steps) \in Nat
      /\ snapshot.steps \in [1..Len(snapshot.steps) -> NumberedSteps]
  BY DEF Checkpoints
<1> DEFINE restored == Restore(snapshot).steps
<1>2. restored \in [1..Len(snapshot.steps) -> Steps]
  BY <1>1 DEF Restore, Steps, NumberedSteps
<1>3. restored \in Seq(Steps)
  <2> HIDE DEF restored
  <2> QED BY <1>1, <1>2
<1> QED BY <1>3 DEF Restore, Contexts, Checkpoints

\* record_step() maps contexts to contexts, one step longer.
LEMMA RecordStepType ==
    ASSUME NEW ctx \in Contexts, NEW token_delta \in Nat, NEW signal \in LoopSignal
    PROVE  /\ RecordStep(ctx, token_delta, signal) \in Contexts
           /\ Len(RecordStep(ctx, token_delta, signal).steps) = Len(ctx.steps) + 1
PROOF
<1> DEFINE steps == Append(ctx.steps, [token_delta |-> token_delta, signal |-> signal])
<1>1. steps \in Seq(Steps) /\ Len(steps) = Len(ctx.steps) + 1
  BY DEF Contexts, Steps
<1>2. RecordStep(ctx, token_delta, signal).steps = steps
  BY DEF RecordStep
<1> QED BY <1>1, <1>2 DEF RecordStep, Contexts

\* The outcome of a step is one of the three errors, or none.
LEMMA StepErrorType ==
    ASSUME NEW steps
    PROVE  StepError(steps) \in LoopErrors \cup {"none"}
PROOF BY DEF StepError, LoopErrors

\* The streak grows by one with a step without progress, and any other step ends it.
LEMMA StreakOfAppend ==
    ASSUME NEW steps \in Seq(Steps), NEW step \in Steps
    PROVE  /\ NoProgressStreak(steps) \in Nat
           /\ NoProgressStreak(Append(steps, step)) =
                 IF step.signal = "no_progress" THEN NoProgressStreak(steps) + 1 ELSE 0
PROOF
<1> DEFINE longer == Append(steps, step)
           Run(s) == {i \in 1..Len(s) : \A j \in i..Len(s) : s[j].signal = "no_progress"}
<1>1. /\ Len(steps) \in Nat /\ Len(longer) = Len(steps) + 1 /\ longer[Len(steps) + 1] = step
      /\ \A i \in 1..Len(steps) : longer[i] = steps[i]
  OBVIOUS
<1> HIDE DEF longer
<1>2. IsFiniteSet(Run(steps)) /\ Cardinality(Run(steps)) \in Nat
  <2>1. IsFiniteSet(1..Len(steps)) /\ Run(steps) \in SUBSET (1..Len(steps))
    BY <1>1, FS_Interval
  <2> QED BY <2>1, FS_Subset, FS_CardinalityType
<1>3. step.signal # "no_progress" => Run(longer) = {}
  BY <1>1
<1>4. step.signal = "no_progress" => Run(longer) = Run(steps) \cup {Len(steps) + 1}
  BY <1>1
<1>5. Cardinality(Run(steps) \cup {Len(steps) + 1}) = Cardinality(Run(steps)) + 1
  <2>1. Len(steps) + 1 \notin Run(steps)
    BY <1>1
  <2> HIDE DEF Run
  <2> QED BY <1>2, <2>1, FS_AddElement, ZenonT(60)
<1>6. NoProgressStreak(steps) = Cardinality(Run(steps)) /\ NoProgressStreak(longer) = Cardinality(Run(longer))
  BY DEF NoProgressStreak
<1> HIDE DEF Run
<1> QED BY <1>2, <1>3, <1>4, <1>5, <1>6, FS_EmptySet, ZenonT(60) DEF longer

\* The breaker of check 3 trips on just the histories it is documented to trip on: unless
\* one of the two checks before it has, record_step raises LoopDetectedError exactly when
\* there are max_agent_steps steps and the last max_agent_steps of them made no progress.
THEOREM BreakerTripsOnStreak ==
    ASSUME NEW steps \in Seq(Steps), Len(steps) > 0,
           StepError(steps) \notin {"TokenVelocityError", "PendingApprovalError"}
    PROVE  StepError(steps) = "LoopDetectedError" <=>
              /\ Len(steps) >= MaxAgentSteps
              /\ \A i \in (Len(steps) - MaxAgentSteps + 1)..Len(steps) : steps[i].signal = "no_progress"
PROOF
<1> DEFINE n == Len(steps)
           Run == {i \in 1..n : \A j \in i..n : steps[j].signal = "no_progress"}
           Last == (n - MaxAgentSteps + 1)..n
<1>1. n \in Nat /\ MaxAgentSteps \in Nat /\ IsFiniteSet(1..n) /\ Cardinality(1..n) = n
  BY LoopAssumption, FS_Interval
<1>2. IsFiniteSet(Run) /\ Cardinality(Run) \in Nat /\ Cardinality(Run) <= n
  <2>1. Run \in SUBSET (1..n)
    OBVIOUS
  <2> HIDE DEF Run, n
  <2> QED BY <1>1, <2>1, FS_Subset, FS_CardinalityType, ZenonT(60)
<1>3. StepError(steps) = "LoopDetectedError" <=> Cardinality(Run) >= MaxAgentSteps
  <2>1. StepError(steps) = "LoopDetectedError" <=> NoProgressStreak(steps) >= MaxAgentSteps
    BY DEF StepError
  <2> QED BY <2>1 DEF NoProgressStreak
<1>4. IsFiniteSet(Last) /\ Cardinality(Last) = MaxAgentSteps
  <2> DEFINE first == n - MaxAgentSteps + 1
  <2>1. first \in Int /\ n \in Int /\ (IF first > n THEN 0 ELSE n - first + 1) = MaxAgentSteps
    BY <1>1
  <2> HIDE DEF n, first
  <2>2. IsFiniteSet(first..n) /\ Cardinality(first..n) = IF first > n THEN 0 ELSE n - first + 1
    BY <2>1, FS_Interval, ZenonT(60)
  <2> QED BY <2>1, <2>2 DEF first
<1>5. ASSUME n >= MaxAgentSteps, \A i \in Last : steps[i].signal = "no_progress"
      PROVE  Cardinality(Run) >= MaxAgentSteps
  <2>1. Last \in SUBSET Run
    BY <1>1, <1>5
  <2> HIDE DEF Run, Last, n
  <2>2. Cardinality(Last) <= Cardinality(Run)
    BY <1>2, <2>1, FS_Subset
  <2> QED BY <1>1, <1>2, <1>4, <2>2
<1>6. ASSUME NEW p \in Last, steps[p].signal # "no_progress", n >= MaxAgentSteps
      PROVE  Cardinality(Run) < MaxAgentSteps
  <2>1. /\ p \in Int /\ p + 1 \in Int /\ n \in Int /\ n - p \in 0..(MaxAgentSteps - 1)
        /\ Run \in SUBSET ((p + 1)..n)
    BY <1>1, <1>6
  <2> HIDE DEF Run, Last, n
  <2> DEFINE next == p + 1
  <2>2. IsFiniteSet(next..n) /\ Cardinality(next..n) = n - p
    <3>1. next \in Int /\ n \in Int /\ (IF next > n THEN 0 ELSE n - next + 1) = n - p
      BY <1>1, <2>1
    <3> HIDE DEF next
    <3> QED BY <3>1, FS_Interval, ZenonT(60)
  <2>3. Cardinality(Run) <= Cardinality(next..n)
    BY <2>1, <2>2, FS_Subset, ZenonT(60)
  <2> QED BY <1>1, <1>2, <2>1, <2>2, <2>3
<1>7. n < MaxAgentSteps => Cardinality(Run) < MaxAgentSteps
  <2> HIDE DEF Run, n
  <2> QED BY <1>1, <1>2
<1> HIDE DEF Run
<1> QED BY <1>1, <1>2, <1>3, <1>5, <1>6, <1>7

(***************************************************************************)
(* The step an activity records.                                           *)
(***************************************************************************)
\* The context LoopRecordStep steps, restored or new, is a context after the step.
LEMMA SteppedType ==
    ASSUME NEW inp \in Inputs
    PROVE  /\ Stepped(inp) \in Contexts
           /\ inp.token_delta \in TokenDeltas /\ inp.signal \in LoopSignal
PROOF
<1>1. NewContext \in Contexts
  BY DEF NewContext, Contexts
<1>2. /\ inp.checkpoint \in Checkpoints \cup {NONE}
      /\ inp.token_delta \in TokenDeltas /\ inp.signal \in LoopSignal
  BY DEF Inputs
<1> QED BY <1>1, <1>2, RestoreType, RecordStepType, LoopActivitiesAssumption, ZenonT(60) DEF Stepped

(***************************************************************************)
(* The codec: what is encoded under a key can be read with it.             *)
(***************************************************************************)
LEMMA DecodedValue ==
    ASSUME NEW values, NEW payload \in Payloads(values)
    PROVE  Value(payload) \in values /\ \A key : Decode(key, payload).data = Value(payload)
PROOF BY DEF Payloads, Value, Decode

\* What a worker encodes is a payload of the value, and decodes to it.
LEMMA EncodedValue ==
    ASSUME NEW values, NEW value \in values, NEW key \in Keys
    PROVE  /\ Encode(key, Plain(value)) \in Payloads(values)
           /\ Value(Encode(key, Plain(value))) = value
PROOF BY DEF Payloads, Value, Decode, Encode, Plain, PlainEncoding, EncryptedEncoding

-----------------------------------------------------------------------------
(***************************************************************************)
(* The inductive invariant.  While a task runs, a call carries the         *)
(* checkpoint of the last result, a reply is that of the step recorded on  *)
(* it, and the trail has a whole story of every step taken and, of the     *)
(* step being taken, no more than the attempts that are done can have      *)
(* told.                                                                   *)
(***************************************************************************)
After == Stepped(Value(call))

Outcomes == LoopErrors \cup {"none"}
Lines == [AuditEvents -> Nat]

\* A line of the trail that k attempts can have left of a step with this outcome; and one
\* in which none of the story is missing.
Fits(line, error, k) ==
    /\ \A event \in AuditEvents : line[event] <= k /\ (line[event] > 0 => event \in Story[error])
    /\ line["loop.halted"] <= line["detector.loop.detected"]
    /\ line["loop.velocity_exceeded"] <= line["detector.loop.detected"]
    /\ line["loop.pending_approval"] <= line["detector.loop.pending_approval"]
Full(line, error, k) == Fits(line, error, k) /\ \A event \in Story[error] : line[event] > 0

Past(n) == \A i \in 1..n : Full(audit[i], "none", MaximumAttempts)
Rest(n) == \A i \in n..MaxSteps : Fits(audit[i], "none", 0)

\* The attempts of the call that will emit nothing more.
Done == IF reply # NONE \/ runner = "lost" THEN attempt ELSE attempt - 1

CallInv ==
    /\ call # NONE => Value(call).checkpoint = IF last = NONE THEN NONE ELSE Value(last).checkpoint
    /\ status # "running" => call = NONE
    /\ call = NONE => reply = NONE /\ runner = NONE

ReplyInv ==
    reply # NONE /\ reply.raised # "retryable" =>
        /\ reply.raised = StepError(After.steps)
        /\ reply.totals = Totals(After)
        /\ reply.raised = "none" => reply.result # NONE /\ Value(reply.result).checkpoint = Checkpoint(After)

ReportInv == status = "running" => report = Totals(Current)

RunningInv ==
    /\ abandoned = {}
    /\ report.step_count <= MaxSteps
    /\ Past(report.step_count)
    /\ call = NONE => Rest(report.step_count + 1)
    /\ call # NONE =>
          /\ report.step_count + 1 <= MaxSteps
          /\ Fits(audit[report.step_count + 1], StepError(After.steps), Done)
          /\ reply # NONE /\ reply.raised # "retryable" =>
                Full(audit[report.step_count + 1], StepError(After.steps), Done)
          /\ Rest(report.step_count + 2)

TrippedInv ==
    /\ abandoned = {}
    /\ report.step_count \in 1..MaxSteps
    /\ Past(report.step_count - 1)
    /\ Full(audit[report.step_count], status, MaximumAttempts)
    /\ Rest(report.step_count + 1)

FailedInv ==
    /\ report.step_count + 1 <= MaxSteps
    /\ Past(report.step_count)
    /\ \E error \in Outcomes :
          /\ Fits(audit[report.step_count + 1], error,
                  IF abandoned = {} THEN MaximumAttempts ELSE MaximumAttempts - 1)
          /\ \A zombie \in abandoned :
                /\ StepError(Stepped(Value(zombie.call)).steps) = error
                /\ Len(Stepped(Value(zombie.call)).steps) = report.step_count + 1
    /\ \A zombie, other \in abandoned : zombie = other
    /\ Rest(report.step_count + 2)

AuditInv ==
    /\ status = "running" => RunningInv
    /\ status \in LoopErrors => TrippedInv
    /\ status = "failed" => FailedInv

IInv == TypeOK /\ CallInv /\ ReplyInv /\ ReportInv /\ AuditInv

\* The four stories.
LEMMA StoryIs ==
    /\ Story["none"] = {"loop.step_recorded"}
    /\ Story["LoopDetectedError"] = {"detector.loop.detected", "loop.halted"}
    /\ Story["TokenVelocityError"] = {"detector.loop.detected", "loop.velocity_exceeded"}
    /\ Story["PendingApprovalError"] = {"detector.loop.pending_approval", "loop.pending_approval"}
    /\ DOMAIN Story = Outcomes
PROOF BY DEF Story, Outcomes, LoopErrors

\* What the activity emits with its detector is the story of the outcome.
LEMMA EventsAreStory ==
    ASSUME NEW error \in Outcomes
    PROVE  /\ DetectorEvents(error) \cup StageEvents(error) = Story[error]
           /\ Story[error] \subseteq AuditEvents
PROOF
<1>1. CASE error = "none"
  BY <1>1, StoryIs DEF DetectorEvents, StageEvents, AuditEvents
<1>2. CASE error = "LoopDetectedError"
  BY <1>2, StoryIs DEF DetectorEvents, StageEvents, AuditEvents
<1>3. CASE error = "TokenVelocityError"
  BY <1>3, StoryIs DEF DetectorEvents, StageEvents, AuditEvents
<1>4. CASE error = "PendingApprovalError"
  BY <1>4, StoryIs DEF DetectorEvents, StageEvents, AuditEvents
<1> QED BY <1>1, <1>2, <1>3, <1>4 DEF Outcomes, LoopErrors

\* An attempt, whole or cut short, leaves a line that one attempt more can have left; a
\* whole attempt leaves all of the story.
LEMMA NotedFits ==
    ASSUME NEW line \in Lines, NEW error \in Outcomes, NEW k \in Nat, Fits(line, error, k),
           NEW events \in {{}, DetectorEvents(error), DetectorEvents(error) \cup StageEvents(error)}
    PROVE  /\ Noted(line, events) \in Lines
           /\ Fits(Noted(line, events), error, k + 1)
           /\ events = DetectorEvents(error) \cup StageEvents(error) =>
                 Full(Noted(line, events), error, k + 1)
PROOF
<1> DEFINE new == Noted(line, events)
<1>1. \A event \in AuditEvents : /\ line[event] \in Nat
                                 /\ new[event] = line[event] + IF event \in events THEN 1 ELSE 0
  BY DEF Lines, Noted
<1>2. new \in Lines
  BY DEF Lines, Noted
<1>3. events \subseteq Story[error] /\ Story[error] \subseteq AuditEvents
  BY EventsAreStory
<1>4. \A event \in AuditEvents : new[event] <= k + 1 /\ (new[event] > 0 => event \in Story[error])
  BY <1>1, <1>3 DEF Fits, new
<1>5. /\ "loop.halted" \in events => "detector.loop.detected" \in events
      /\ "loop.velocity_exceeded" \in events => "detector.loop.detected" \in events
      /\ "loop.pending_approval" \in events => "detector.loop.pending_approval" \in events
  BY DEF DetectorEvents, StageEvents, Outcomes, LoopErrors
<1> HIDE DEF new
<1>6. /\ new["loop.halted"] <= new["detector.loop.detected"]
      /\ new["loop.velocity_exceeded"] <= new["detector.loop.detected"]
      /\ new["loop.pending_approval"] <= new["detector.loop.pending_approval"]
  BY <1>1, <1>5 DEF Fits, AuditEvents
<1>7. Fits(new, error, k + 1)
  BY <1>4, <1>6 DEF Fits
<1>8. ASSUME events = DetectorEvents(error) \cup StageEvents(error)
      PROVE  \A event \in Story[error] : new[event] > 0
  BY <1>1, <1>3, <1>8, EventsAreStory
<1> QED BY <1>2, <1>7, <1>8 DEF Full, new

\* What few attempts can have left, more can have left; and nothing at all fits any
\* outcome.
LEMMA FitsMore ==
    ASSUME NEW line \in Lines, NEW error \in Outcomes, NEW k \in Nat, NEW m \in Nat, k <= m
    PROVE  /\ Fits(line, error, k) => Fits(line, error, m)
           /\ Full(line, error, k) => Full(line, error, m)
           /\ Fits(line, "none", 0) => Fits(line, error, m)
PROOF
<1>1. \A event \in AuditEvents : line[event] \in Nat
  BY DEF Lines
<1>2. Fits(line, error, k) => Fits(line, error, m)
  BY <1>1 DEF Fits
<1>3. Fits(line, "none", 0) => Fits(line, error, m)
  BY <1>1 DEF Fits
<1> QED BY <1>2, <1>3 DEF Full

\* The context the caller would resume from is a context, whatever it last received.
LEMMA CurrentType ==
    ASSUME TypeOK
    PROVE  Current \in Contexts
PROOF
<1>1. NewContext \in Contexts
  BY DEF NewContext, Contexts
<1>2. last # NONE => Value(last) \in Results
  BY DecodedValue DEF TypeOK
<1>3. last # NONE => Value(last).checkpoint \in Checkpoints
  BY <1>2 DEF Results
<1> QED BY <1>1, <1>3, RestoreType DEF Current

\* What an attempt makes of its input is what the uninterrupted detector makes of it.
LEMMA AfterIsNext ==
    ASSUME TypeOK, CallInv, call # NONE
    PROVE  /\ Value(call) \in Inputs
           /\ After = RecordStep(Current, Value(call).token_delta, Value(call).signal)
           /\ After \in Contexts
           /\ Len(After.steps) = Len(Current.steps) + 1
PROOF
<1>1. Value(call) \in Inputs
  BY DecodedValue DEF TypeOK
<1>2. last # NONE => Value(last) \in Results
  BY DecodedValue DEF TypeOK
<1>3. last # NONE => Value(last).checkpoint \in Checkpoints /\ Value(last).checkpoint # NONE
  BY <1>2, LoopActivitiesAssumption DEF Results
<1>4. After = RecordStep(Current, Value(call).token_delta, Value(call).signal)
  BY <1>3 DEF CallInv, After, Stepped, Current
<1>5. Value(call).token_delta \in Nat /\ Value(call).signal \in LoopSignal
  BY <1>1, SteppedType, LoopActivitiesAssumption, ZenonT(60)
<1> QED BY <1>1, <1>4, <1>5, CurrentType, RecordStepType

-----------------------------------------------------------------------------
(***************************************************************************)
(* The actions, one by one.                                                *)
(***************************************************************************)
LEMMA ExecuteActivityKeeps ==
    ASSUME IInv, NEW w \in Workers, NEW token_delta \in TokenDeltas, NEW signal \in LoopSignal,
           ExecuteActivity(w, token_delta, signal)
    PROVE  IInv' /\ UNCHANGED <<Current, status, report>>
PROOF
<1> DEFINE inp == [checkpoint |-> Held(w), token_delta |-> token_delta, signal |-> signal]
<1>1. /\ status = "running" /\ call = NONE /\ call' = Encode(keys[w], Plain(inp)) /\ attempt' = 1
      /\ UNCHANGED <<keys, last, status, report, runner, reply, abandoned, audit>>
  BY DEF ExecuteActivity
<1>2. last # NONE => Value(last) \in Results /\ Held(w) = Value(last).checkpoint
  BY DecodedValue DEF IInv, TypeOK, Held
<1>3. Held(w) \in Checkpoints \cup {NONE}
  BY <1>2 DEF Held, Results
<1>4. inp \in Inputs
  BY <1>3 DEF Inputs
<1>5. keys[w] \in Keys
  BY DEF IInv, TypeOK
<1> HIDE DEF inp
<1>6. call' \in Payloads(Inputs) /\ Value(call') = inp /\ call' # NONE
  BY <1>1, <1>4, <1>5, EncodedValue, LoopActivitiesAssumption
<1>7. inp.checkpoint = IF last = NONE THEN NONE ELSE Value(last).checkpoint
  BY <1>2 DEF Held, inp
<1>8. TypeOK'
  BY <1>1, <1>6, LoopActivitiesAssumption DEF IInv, TypeOK
<1>9. CallInv'
  BY <1>1, <1>6, <1>7 DEF IInv, CallInv
<1>10. ReplyInv'
  BY <1>1 DEF IInv, CallInv, ReplyInv
<1>11. UNCHANGED Current
  BY <1>1 DEF Current
<1>12. ReportInv'
  BY <1>1, <1>11 DEF IInv, ReportInv
<1>13. AuditInv'
  <2> DEFINE n == report.step_count
             error == StepError(After.steps)'
  <2>1. /\ n \in Nat /\ MaxSteps \in Nat /\ n + 1 <= MaxSteps /\ reply = NONE /\ runner = NONE
        /\ audit \in [1..MaxSteps -> Lines]
    BY <1>1, LoopActivitiesAssumption DEF ExecuteActivity, IInv, TypeOK, CallInv, Counts, Lines
  <2>2. abandoned = {} /\ n <= MaxSteps /\ Past(n) /\ Rest(n + 1)
    BY <1>1 DEF IInv, AuditInv, RunningInv
  <2>3. error \in Outcomes
    BY StepErrorType DEF Outcomes
  <2>4. Done' = 0
    BY <1>1, <2>1, LoopActivitiesAssumption DEF Done
  <2> HIDE DEF n, error
  <2>5. audit[n + 1] \in Lines /\ Fits(audit[n + 1], "none", 0) /\ \A i \in (n + 2)..MaxSteps : i \in (n + 1)..MaxSteps
    BY <2>1, <2>2 DEF Rest
  <2>6. Fits(audit[n + 1], error, 0)
    BY <2>3, <2>5, FitsMore
  <2>7. Past(n)' /\ Rest(n + 2)'
    BY <1>1, <2>2, <2>5 DEF Past, Rest, n
  <2>8. RunningInv'
    BY <1>1, <1>6, <2>1, <2>2, <2>4, <2>6, <2>7 DEF RunningInv, n, error
  <2> QED BY <1>1, <2>8 DEF AuditInv, LoopErrors
<1> QED BY <1>1, <1>8, <1>9, <1>10, <1>11, <1>12, <1>13 DEF IInv

\* An attempt of LoopRecordStep that runs, whole or lost with its worker, moves
\* nothing the caller can see.
LEMMA LoopRecordStepKeeps ==
    ASSUME IInv, NEW w \in Workers, LoopRecordStep(w)
    PROVE  IInv' /\ UNCHANGED <<Current, status, report>>
PROOF
<1>1. /\ runner = w /\ reply = NONE
      /\ UNCHANGED <<keys, last, call, attempt, status, report, runner, abandoned>>
  BY DEF LoopRecordStep, callVars
<1>2. UNCHANGED <<Current, After>>
  BY <1>1 DEF Current, After
<1>3. ReportInv'
  BY <1>1, <1>2 DEF IInv, ReportInv
<1>4. Retryable \in Replies /\ Retryable.raised = "retryable"
  BY DEF Retryable, Replies, Totals, NewContext, Counts
<1>5. call # NONE
  BY <1>1, LoopActivitiesAssumption DEF IInv, CallInv
<1>6. CallInv'
  BY <1>1, <1>5 DEF IInv, CallInv
<1> DEFINE n == report.step_count
           error == StepError(After.steps)
<1>7. /\ status = "running" /\ After \in Contexts /\ Len(After.steps) = n + 1 /\ n \in Nat
      /\ error \in Outcomes /\ attempt \in 1..MaximumAttempts /\ audit \in [1..MaxSteps -> Lines]
      /\ MaxSteps \in Nat /\ MaximumAttempts \in Nat
  <2>1. status = "running" /\ n = Len(Current.steps) /\ n \in Nat
    BY <1>5 DEF IInv, CallInv, ReportInv, Totals, TypeOK, Counts
  <2>2. attempt \in 1..MaximumAttempts /\ audit \in [1..MaxSteps -> Lines] /\ MaxSteps \in Nat /\ MaximumAttempts \in Nat
    BY <1>5, LoopActivitiesAssumption DEF IInv, TypeOK, Lines
  <2>3. error \in Outcomes
    BY StepErrorType DEF Outcomes
  <2> QED BY <1>5, <2>1, <2>2, <2>3, AfterIsNext DEF IInv
<1>8. /\ abandoned = {} /\ n + 1 <= MaxSteps /\ n + 1 \in 1..MaxSteps /\ Past(n) /\ Rest(n + 2)
      /\ Fits(audit[n + 1], error, attempt - 1) /\ attempt - 1 \in Nat /\ audit[n + 1] \in Lines
  <2>1. Done = attempt - 1
    BY <1>1, LoopActivitiesAssumption DEF Done
  <2> QED BY <1>5, <1>7, <2>1 DEF IInv, AuditInv, RunningInv
<1>9. ASSUME NEW line \in Lines, audit' = [audit EXCEPT ![n + 1] = line], reply' \in Replies,
             Fits(line, error, attempt),
             reply'.raised # "retryable" => Full(line, error, attempt)
      PROVE  AuditInv' /\ audit' \in [1..MaxSteps -> Lines]
  <2>1. Done' = attempt
    BY <1>1, <1>9, LoopActivitiesAssumption DEF Done
  <2>2. audit'[n + 1] = line /\ \A i \in 1..MaxSteps : i # n + 1 => audit'[i] = audit[i]
    BY <1>7, <1>8, <1>9
  <2>3. audit' \in [1..MaxSteps -> Lines]
    BY <1>7, <1>8, <1>9
  <2> HIDE DEF error, n
  <2>4. \A i \in 1..n : i \in 1..MaxSteps /\ i # n + 1
    BY <1>7, <1>8
  <2>5. \A i \in (n + 2)..MaxSteps : i \in 1..MaxSteps /\ i # n + 1
    BY <1>7, <1>8
  <2>6. n' = n /\ error' = error
    BY <1>1, <1>2 DEF n, error
  <2>7. Past(n)' /\ Rest(n + 2)'
    BY <1>8, <2>2, <2>4, <2>5, <2>6 DEF Past, Rest
  <2>8. RunningInv'
    BY <1>1, <1>2, <1>5, <1>7, <1>8, <1>9, <2>1, <2>2, <2>6, <2>7 DEF RunningInv, n, error
  <2> QED BY <1>1, <1>7, <2>3, <2>8 DEF AuditInv, LoopErrors
<1>10. Fits(audit[n + 1], error, attempt)
  <2> HIDE DEF error, n
  <2>1. attempt \in Nat /\ attempt - 1 <= attempt
    BY <1>7
  <2> QED BY <1>7, <1>8, <2>1, FitsMore
<1>11. CASE reply' = Retryable /\ UNCHANGED audit
  <2>1. TypeOK'
    BY <1>1, <1>4, <1>11 DEF IInv, TypeOK
  <2>2. ReplyInv'
    BY <1>4, <1>11 DEF ReplyInv
  <2>3. audit' = [audit EXCEPT ![n + 1] = audit[n + 1]]
    BY <1>7, <1>11
  <2>4. AuditInv'
    BY <1>4, <1>8, <1>9, <1>10, <1>11, <2>3
  <2> QED BY <1>1, <1>2, <1>3, <1>6, <2>1, <2>2, <2>4 DEF IInv
<1>12. ASSUME NEW events \in SomeEvents(After), audit' = Audited(After, events),
              reply' = Retryable \/ (events = AllEvents(After) /\ reply' = LoopRecordResult(w, After))
       PROVE  IInv'
  <2>1. /\ Len(After.steps) \in Nat /\ After.total_tokens \in Nat
        /\ Checkpoint(After) \in Checkpoints
    BY <1>7, RestoreOfCheckpoint DEF Contexts
  <2>2. [checkpoint |-> Checkpoint(After)] \in Results
    BY <2>1 DEF Results
  <2> DEFINE result == Encode(keys[w], Plain([checkpoint |-> Checkpoint(After)]))
  <2>3. result \in Payloads(Results) /\ Value(result) = [checkpoint |-> Checkpoint(After)] /\ result # NONE
    BY <2>2, EncodedValue, LoopActivitiesAssumption DEF IInv, TypeOK
  <2> HIDE DEF result
  <2>4. LoopRecordResult(w, After) =
          [raised |-> StepError(After.steps), totals |-> Totals(After),
           result |-> IF StepError(After.steps) = "none" THEN result ELSE NONE]
    BY DEF LoopRecordResult, result
  <2>5. LoopRecordResult(w, After) \in Replies
    BY <2>1, <2>3, <2>4, StepErrorType DEF Replies, Totals, Counts
  <2>6. ReplyInv'
    BY <1>2, <1>4, <1>12, <2>3, <2>4 DEF ReplyInv
  <2> DEFINE line == Noted(audit[n + 1], events)
  <2>7. audit' = [audit EXCEPT ![n + 1] = line]
    BY <1>7, <1>12 DEF Audited
  <2>8. /\ line \in Lines /\ Fits(line, error, attempt - 1 + 1)
        /\ events = DetectorEvents(error) \cup StageEvents(error) => Full(line, error, attempt - 1 + 1)
    <3>1. events \in {{}, DetectorEvents(error), DetectorEvents(error) \cup StageEvents(error)}
      BY <1>12 DEF SomeEvents, AllEvents
    <3> DEFINE k == attempt - 1
    <3>2. k \in Nat /\ Fits(audit[n + 1], error, k)
      BY <1>8
    <3> HIDE DEF error, n, k
    <3>3. /\ line \in Lines /\ Fits(line, error, k + 1)
          /\ events = DetectorEvents(error) \cup StageEvents(error) => Full(line, error, k + 1)
      BY <1>7, <1>8, <3>1, <3>2, NotedFits
    <3> QED BY <3>3 DEF k
  <2>9. attempt - 1 + 1 = attempt
    BY <1>7
  <2>10. reply'.raised # "retryable" => events = DetectorEvents(error) \cup StageEvents(error)
    BY <1>4, <1>12 DEF AllEvents
  <2>11. reply' \in Replies
    BY <1>4, <1>12, <2>5
  <2> HIDE DEF line, error, n
  <2>12. AuditInv' /\ audit' \in [1..MaxSteps -> Lines]
    BY <1>9, <2>7, <2>8, <2>9, <2>10, <2>11
  <2>13. TypeOK'
    BY <1>1, <2>11, <2>12 DEF IInv, TypeOK, Lines
  <2> QED BY <1>3, <1>6, <2>6, <2>12, <2>13 DEF IInv
<1>13. Decode(keys[w], call).data = Value(call)
  BY <1>5, DecodedValue DEF IInv, TypeOK
<1>14. \/ reply' = Retryable /\ UNCHANGED audit
       \/ \E events \in SomeEvents(After) :
             /\ audit' = Audited(After, events)
             /\ reply' = Retryable \/ (events = AllEvents(After) /\ reply' = LoopRecordResult(w, After))
  BY <1>13 DEF LoopRecordStep, After
<1> QED BY <1>1, <1>2, <1>11, <1>12, <1>14

\* A result that is received is one step of the uninterrupted loop.
LEMMA CompletedKeeps ==
    ASSUME IInv, Completed
    PROVE  /\ IInv' /\ Loop!LoopNext
           /\ Current' = RecordStep(Current, Value(call).token_delta, Value(call).signal)
PROOF
<1>1. /\ reply # NONE /\ reply.raised = "none" /\ last' = reply.result /\ report' = reply.totals
      /\ call' = NONE /\ attempt' = 0 /\ runner' = NONE /\ reply' = NONE
      /\ UNCHANGED <<keys, status, abandoned, audit>>
  BY DEF Completed, EndCall
<1>2. call # NONE /\ status = "running"
  BY <1>1 DEF IInv, CallInv
<1>3. /\ StepError(After.steps) = "none" /\ report' = Totals(After)
      /\ last' # NONE /\ Value(last').checkpoint = Checkpoint(After)
  BY <1>1 DEF IInv, ReplyInv
<1>4. /\ Value(call) \in Inputs
      /\ After = RecordStep(Current, Value(call).token_delta, Value(call).signal)
      /\ After \in Contexts
      /\ Len(After.steps) = Len(Current.steps) + 1
  BY <1>2, AfterIsNext DEF IInv
<1>5. Current' = After
  BY <1>3, <1>4, RestoreOfCheckpoint DEF Current
<1>6. TypeOK'
  <2>1. reply.result \in Payloads(Results) \cup {NONE} /\ reply.totals \in Counts
    BY <1>1 DEF IInv, TypeOK, Replies
  <2> QED BY <1>1, <2>1, LoopActivitiesAssumption DEF IInv, TypeOK
<1>7. CallInv' /\ ReplyInv' /\ ReportInv'
  BY <1>1, <1>2, <1>3, <1>5 DEF CallInv, ReplyInv, ReportInv
<1>8. report.step_count \in Nat /\ report'.step_count = report.step_count + 1
  <2>1. report.step_count = Len(Current.steps) /\ report'.step_count = Len(After.steps)
    BY <1>2, <1>3 DEF IInv, ReportInv, Totals
  <2> QED BY <1>4, <2>1 DEF IInv, TypeOK, Counts
<1> DEFINE n == report.step_count
<1>9. /\ n + 1 <= MaxSteps /\ n + 1 \in 1..MaxSteps /\ abandoned = {} /\ Past(n) /\ Rest(n + 2)
      /\ Full(audit[n + 1], "none", Done)
  BY <1>1, <1>2, <1>3, <1>8, LoopActivitiesAssumption DEF IInv, AuditInv, RunningInv
<1>10. Full(audit[n + 1], "none", MaximumAttempts)
  <2>1. Done = attempt /\ attempt \in Nat /\ MaximumAttempts \in Nat /\ attempt <= MaximumAttempts
    BY <1>1, LoopActivitiesAssumption DEF Done, IInv, TypeOK
  <2>2. audit[n + 1] \in Lines /\ "none" \in Outcomes
    BY <1>9 DEF IInv, TypeOK, Lines, Outcomes
  <2> HIDE DEF n
  <2> QED BY <1>9, <2>1, <2>2, FitsMore
<1>11. RunningInv'
  <2>1. n' = n + 1 /\ n \in Nat
    BY <1>8
  <2> HIDE DEF n
  <2>2. \A i \in 1..(n + 1) : i \in 1..n \/ i = n + 1
    BY <2>1
  <2>3. n' + 1 = n + 2
    BY <2>1
  <2>4. Past(n)' /\ Rest(n + 1)'
    BY <1>1, <1>9, <1>10, <2>1, <2>2, <2>3 DEF Past, Rest
  <2> QED BY <1>1, <1>9, <2>1, <2>4 DEF RunningInv, n
<1>12. AuditInv'
  BY <1>1, <1>2, <1>11 DEF AuditInv, LoopErrors
<1>13. Loop!Pass(Value(call).token_delta, Value(call).signal)
  BY <1>1, <1>2, <1>3, <1>4, <1>5 DEF Loop!Pass, Loop!Totals, Totals
<1> QED BY <1>4, <1>5, <1>6, <1>7, <1>12, <1>13, SteppedType DEF IInv, Loop!LoopNext

\* An error of the breaker that is received is the trip of the uninterrupted loop.
LEMMA TrippedKeeps ==
    ASSUME IInv, Tripped
    PROVE  IInv' /\ Loop!LoopNext
PROOF
<1>1. /\ reply # NONE /\ reply.raised \in LoopErrors
      /\ status' = reply.raised /\ report' = reply.totals
      /\ call' = NONE /\ attempt' = 0 /\ runner' = NONE /\ reply' = NONE
      /\ UNCHANGED <<keys, last, abandoned, audit>>
  BY DEF Tripped, EndCall
<1>2. call # NONE /\ status = "running"
  BY <1>1 DEF IInv, CallInv
<1>3. /\ status' = StepError(After.steps) /\ report' = Totals(After)
      /\ status' \in LoopErrors /\ status' \notin {"none", "running", "failed"}
  BY <1>1 DEF IInv, ReplyInv, LoopErrors
<1>4. /\ Value(call) \in Inputs
      /\ After = RecordStep(Current, Value(call).token_delta, Value(call).signal)
      /\ After \in Contexts
      /\ Len(After.steps) = Len(Current.steps) + 1
  BY <1>2, AfterIsNext DEF IInv
<1>5. TypeOK'
  <2>1. reply.totals \in Counts
    BY <1>1 DEF IInv, TypeOK, Replies
  <2> QED BY <1>1, <2>1, LoopActivitiesAssumption DEF IInv, TypeOK
<1>6. CallInv' /\ ReplyInv' /\ ReportInv'
  BY <1>1, <1>3 DEF CallInv, ReplyInv, ReportInv
<1>7. report.step_count \in Nat /\ report'.step_count = report.step_count + 1
      /\ Len(After.steps) = report.step_count + 1
  <2>1. report.step_count = Len(Current.steps) /\ report'.step_count = Len(After.steps)
    BY <1>2, <1>3 DEF IInv, ReportInv, Totals
  <2> QED BY <1>4, <2>1 DEF IInv, TypeOK, Counts
<1> DEFINE n == report.step_count
<1>8. /\ n + 1 <= MaxSteps /\ n + 1 \in 1..MaxSteps /\ abandoned = {} /\ Past(n) /\ Rest(n + 2)
      /\ Full(audit[n + 1], status', Done)
  BY <1>1, <1>2, <1>3, <1>7, LoopActivitiesAssumption DEF IInv, AuditInv, RunningInv, LoopErrors
<1>9. Full(audit[n + 1], status', MaximumAttempts)
  <2>1. Done = attempt /\ attempt \in Nat /\ MaximumAttempts \in Nat /\ attempt <= MaximumAttempts
    BY <1>1, LoopActivitiesAssumption DEF Done, IInv, TypeOK
  <2>2. audit[n + 1] \in Lines /\ status' \in Outcomes
    BY <1>3, <1>8 DEF IInv, TypeOK, Lines, Outcomes
  <2> HIDE DEF n
  <2> QED BY <1>8, <2>1, <2>2, FitsMore
<1>10. AuditInv'
  <2>1. n' = n + 1 /\ n \in Nat
    BY <1>7
  <2> HIDE DEF n
  <2>2. n' - 1 = n /\ n' + 1 = n + 2
    BY <2>1
  <2>3. Past(n - 1)' /\ Rest(n + 1)'
    BY <1>1, <1>8, <2>2 DEF Past, Rest
  <2>4. TrippedInv'
    BY <1>1, <1>8, <1>9, <2>1, <2>3 DEF TrippedInv, n
  <2> QED BY <1>3, <2>4 DEF AuditInv, LoopErrors
<1>11. Loop!Trip(Value(call).token_delta, Value(call).signal)
  BY <1>1, <1>2, <1>3, <1>4 DEF Loop!Trip, Loop!Totals, Totals, Current
<1> QED BY <1>4, <1>5, <1>6, <1>10, <1>11, SteppedType DEF IInv, Loop!LoopNext

\* A call that is given up without a result fails the task where it stands.
LEMMA FailedKeeps ==
    ASSUME IInv, Failed
    PROVE  IInv' /\ Loop!LoopNext
PROOF
<1>1. /\ call # NONE /\ status' = "failed"
      /\ call' = NONE /\ attempt' = 0 /\ runner' = NONE /\ reply' = NONE
      /\ UNCHANGED <<keys, last, report, audit>>
  BY DEF Failed, EndCall
<1>2. status = "running"
  BY <1>1 DEF IInv, CallInv
<1>3. abandoned' \subseteq {[worker |-> runner, call |-> call]}
  BY <1>2 DEF Failed, IInv, AuditInv, RunningInv
<1>4. TypeOK'
  <2>1. abandoned' \subseteq [worker : Workers, call : Payloads(Inputs)]
    BY <1>1 DEF Failed, IInv, TypeOK
  <2> QED BY <1>1, <2>1, LoopActivitiesAssumption DEF IInv, TypeOK
<1>5. CallInv' /\ ReplyInv' /\ ReportInv'
  BY <1>1 DEF CallInv, ReplyInv, ReportInv
<1> DEFINE n == report.step_count
           error == StepError(After.steps)
<1>6. Len(After.steps) = n + 1 /\ n \in Nat /\ error \in Outcomes
  <2>1. After \in Contexts /\ Len(After.steps) = Len(Current.steps) + 1
    BY <1>1, AfterIsNext DEF IInv
  <2>2. report.step_count = Len(Current.steps) /\ n \in Nat
    BY <1>2 DEF IInv, ReportInv, Totals, TypeOK, Counts
  <2> QED BY <2>1, <2>2, StepErrorType DEF Outcomes
<1>7. /\ n + 1 <= MaxSteps /\ n + 1 \in 1..MaxSteps /\ abandoned = {} /\ Past(n) /\ Rest(n + 2)
      /\ Fits(audit[n + 1], error, Done)
  BY <1>1, <1>2, <1>6, LoopActivitiesAssumption DEF IInv, AuditInv, RunningInv
<1>8. Fits(audit[n + 1], error, IF abandoned' = {} THEN MaximumAttempts ELSE MaximumAttempts - 1)
  <2> DEFINE bound == IF abandoned' = {} THEN MaximumAttempts ELSE MaximumAttempts - 1
  <2>1. attempt \in 1..MaximumAttempts /\ MaximumAttempts \in Nat
    BY <1>1, LoopActivitiesAssumption DEF IInv, TypeOK
  <2>2. abandoned' # {} => runner # "lost" /\ reply = NONE
    BY <1>7, LoopActivitiesAssumption DEF Failed
  <2>3. Done \in Nat /\ bound \in Nat /\ Done <= bound
    BY <2>1, <2>2 DEF Done
  <2>4. audit[n + 1] \in Lines
    BY <1>7 DEF IInv, TypeOK, Lines
  <2> HIDE DEF n, error, bound
  <2>5. Fits(audit[n + 1], error, bound)
    BY <1>6, <1>7, <2>3, <2>4, FitsMore
  <2> QED BY <2>5 DEF bound
<1>9. AuditInv'
  <2>1. \A zombie \in abandoned' : Stepped(Value(zombie.call)) = After
    BY <1>3 DEF After
  <2>2. \A zombie, other \in abandoned' : zombie = other
    BY <1>3
  <2>3. Past(n)' /\ Rest(n + 2)'
    BY <1>1, <1>7 DEF Past, Rest
  <2>4. FailedInv'
    <3> HIDE DEF error
    <3>1. \A zombie \in abandoned' : /\ StepError(Stepped(Value(zombie.call)).steps) = error
                                     /\ Len(Stepped(Value(zombie.call)).steps) = n + 1
      BY <1>6, <2>1 DEF error
    <3> QED BY <1>1, <1>6, <1>7, <1>8, <2>2, <2>3, <3>1 DEF FailedInv
  <2> QED BY <1>1, <2>4 DEF AuditInv, LoopErrors
<1>10. Loop!Fail
  BY <1>1, <1>2 DEF Loop!Fail, Current
<1> QED BY <1>4, <1>5, <1>9, <1>10 DEF IInv, Loop!LoopNext

\* An attempt that runs after its call has ended adds at most an event that tells the
\* same step, and moves nothing the caller can see.
LEMMA AbandonedRunsKeeps ==
    ASSUME IInv, NEW zombie \in abandoned, AbandonedRuns(zombie)
    PROVE  IInv' /\ UNCHANGED <<Current, status, report>>
PROOF
<1> DEFINE after == Stepped(Value(zombie.call))
           n == report.step_count
<1>1. zombie.call \in Payloads(Inputs)
  BY DEF IInv, TypeOK
<1>2. Decode(keys[zombie.worker], zombie.call).data = Value(zombie.call)
  BY <1>1, DecodedValue
<1>3. PICK events \in SomeEvents(after) : audit' = Audited(after, events)
  BY <1>2 DEF AbandonedRuns
<1>4. /\ abandoned' = abandoned \ {zombie}
      /\ UNCHANGED <<keys, last, call, attempt, status, report, runner, reply>>
  BY DEF AbandonedRuns, callVars
<1>5. status = "failed" /\ n \in Nat /\ MaxSteps \in Nat /\ MaximumAttempts \in Nat \ {0}
      /\ audit \in [1..MaxSteps -> Lines]
  BY LoopActivitiesAssumption DEF IInv, AuditInv, RunningInv, TrippedInv, TypeOK, Counts, Lines
<1>6. FailedInv
  BY <1>5 DEF IInv, AuditInv
<1>7. PICK error \in Outcomes :
          /\ Fits(audit[n + 1], error, IF abandoned = {} THEN MaximumAttempts ELSE MaximumAttempts - 1)
          /\ \A z \in abandoned : /\ StepError(Stepped(Value(z.call)).steps) = error
                                  /\ Len(Stepped(Value(z.call)).steps) = n + 1
  BY <1>6 DEF FailedInv
<1>8. n + 1 <= MaxSteps /\ n + 1 \in 1..MaxSteps /\ Past(n) /\ Rest(n + 2) /\ abandoned' = {}
  BY <1>4, <1>5, <1>6 DEF FailedInv
<1> DEFINE line == Noted(audit[n + 1], events)
<1>9. audit' = [audit EXCEPT ![n + 1] = line] /\ StepError(after.steps) = error
  BY <1>3, <1>5, <1>7, <1>8 DEF Audited
<1>10. line \in Lines /\ Fits(line, error, MaximumAttempts)
  <2>1. events \in {{}, DetectorEvents(error), DetectorEvents(error) \cup StageEvents(error)}
    BY <1>3, <1>9 DEF SomeEvents, AllEvents
  <2> DEFINE k == MaximumAttempts - 1
  <2>2. k \in Nat /\ Fits(audit[n + 1], error, k) /\ audit[n + 1] \in Lines /\ k + 1 = MaximumAttempts
    BY <1>5, <1>7, <1>8
  <2> HIDE DEF n, k
  <2>3. line \in Lines /\ Fits(line, error, k + 1)
    BY <2>1, <2>2, NotedFits
  <2> QED BY <2>2, <2>3
<1> HIDE DEF line, after
<1>11. /\ audit'[n + 1] = line /\ \A i \in 1..MaxSteps : i # n + 1 => audit'[i] = audit[i]
       /\ audit' \in [1..MaxSteps -> Lines]
  BY <1>5, <1>8, <1>9, <1>10
<1>12. TypeOK'
  BY <1>4, <1>11 DEF IInv, TypeOK, Lines
<1>13. UNCHANGED <<Current, After>> /\ CallInv' /\ ReplyInv' /\ ReportInv'
  BY <1>4, <1>5 DEF IInv, CallInv, ReplyInv, ReportInv, Current, After
<1>14. AuditInv'
  <2>1. n' = n
    BY <1>4
  <2> HIDE DEF n
  <2>2. \A i \in 1..n : i \in 1..MaxSteps /\ i # n + 1
    BY <1>5, <1>8 DEF n
  <2>3. \A i \in (n + 2)..MaxSteps : i \in 1..MaxSteps /\ i # n + 1
    BY <1>5, <1>8 DEF n
  <2>4. Past(n)' /\ Rest(n + 2)'
    BY <1>8, <1>11, <2>1, <2>2, <2>3 DEF Past, Rest
  <2>5. FailedInv'
    BY <1>7, <1>8, <1>10, <1>11, <2>1, <2>4 DEF FailedInv, n
  <2> QED BY <1>4, <1>5, <2>5 DEF AuditInv, LoopErrors
<1> QED BY <1>4, <1>12, <1>13, <1>14 DEF IInv

\* Starting, retrying and losing attempts moves nothing the caller can see.
LEMMA AttemptKeeps ==
    ASSUME IInv, Retried \/ \E w \in Workers : StartAttempt(w) \/ \E key \in Keys : WorkerRestart(w, key)
    PROVE  IInv' /\ UNCHANGED <<Current, status, report>>
PROOF
<1>1. /\ UNCHANGED <<last, call, status, report, audit>>
      /\ reply' \in {reply, NONE} /\ abandoned' \subseteq abandoned
      /\ call = NONE => runner' = runner
  BY LoopActivitiesAssumption DEF Retried, StartAttempt, WorkerRestart, callVars, IInv, CallInv
<1>2. TypeOK'
  <2>1. CASE Retried
    BY <2>1, LoopActivitiesAssumption DEF Retried, IInv, TypeOK, CallInv
  <2>2. ASSUME NEW w \in Workers, StartAttempt(w) PROVE TypeOK'
    BY <2>2 DEF StartAttempt, callVars, IInv, TypeOK
  <2>3. ASSUME NEW w \in Workers, NEW key \in Keys, WorkerRestart(w, key) PROVE TypeOK'
    BY <2>3 DEF WorkerRestart, callVars, IInv, TypeOK
  <2> QED BY <2>1, <2>2, <2>3
<1>3. UNCHANGED <<Current, After>>
  BY <1>1 DEF Current, After
<1>4. CallInv'
  BY <1>1 DEF IInv, CallInv
<1>5. ReplyInv'
  BY <1>1, <1>3 DEF IInv, ReplyInv
<1>6. ReportInv'
  BY <1>1, <1>3 DEF IInv, ReportInv
<1>7. AuditInv'
  <2>1. \A n : (Past(n) => Past(n)') /\ (Rest(n) => Rest(n)')
    BY <1>1 DEF Past, Rest
  <2>2. CASE status = "failed"
    <3>1. PICK error \in Outcomes :
          /\ Fits(audit[report.step_count + 1], error,
                  IF abandoned = {} THEN MaximumAttempts ELSE MaximumAttempts - 1)
          /\ \A z \in abandoned : /\ StepError(Stepped(Value(z.call)).steps) = error
                                  /\ Len(Stepped(Value(z.call)).steps) = report.step_count + 1
      BY <2>2 DEF IInv, AuditInv, FailedInv
    <3>2. /\ report.step_count + 1 <= MaxSteps /\ Past(report.step_count) /\ Rest(report.step_count + 2)
          /\ \A z, other \in abandoned : z = other
      BY <2>2 DEF IInv, AuditInv, FailedInv
    <3>3. Fits(audit[report.step_count + 1], error,
               IF abandoned' = {} THEN MaximumAttempts ELSE MaximumAttempts - 1)
      <4> DEFINE n == report.step_count
                 k == IF abandoned = {} THEN MaximumAttempts ELSE MaximumAttempts - 1
                 m == IF abandoned' = {} THEN MaximumAttempts ELSE MaximumAttempts - 1
      <4>1. k \in Nat /\ m \in Nat /\ k <= m
        BY <1>1, LoopActivitiesAssumption
      <4>2. audit[n + 1] \in Lines
        BY <3>2, LoopActivitiesAssumption DEF IInv, TypeOK, Counts, Lines
      <4>3. Fits(audit[n + 1], error, k)
        BY <3>1
      <4> HIDE DEF n, k, m
      <4>4. Fits(audit[n + 1], error, m)
        BY <4>1, <4>2, <4>3, FitsMore
      <4> QED BY <4>4 DEF n, m
    <3>4. Past(report.step_count)' /\ Rest(report.step_count + 2)'
      BY <1>1, <3>2 DEF Past, Rest
    <3>5. FailedInv'
      BY <1>1, <3>1, <3>2, <3>3, <3>4 DEF FailedInv
    <3> QED BY <1>1, <2>2, <3>5 DEF AuditInv, LoopErrors
  <2>3. CASE status = "running"
    <3> DEFINE n == report.step_count
               error == StepError(After.steps)
    <3>1. RunningInv /\ n \in Nat /\ error \in Outcomes
      BY <2>3, StepErrorType DEF IInv, AuditInv, TypeOK, Counts, Outcomes
    <3>2. ASSUME call # NONE
          PROVE  /\ Done \in Nat /\ Done' \in Nat /\ Done <= Done'
                 /\ reply' # NONE => reply' = reply
      <4>1. attempt \in 1..MaximumAttempts /\ MaximumAttempts \in Nat
        BY <3>2, LoopActivitiesAssumption DEF IInv, TypeOK
      <4>2. CASE Retried
        BY <4>1, <4>2, LoopActivitiesAssumption DEF Retried, Done
      <4>3. ASSUME NEW w \in Workers, StartAttempt(w) PROVE Done' = Done /\ reply' = reply
        BY <4>3, LoopActivitiesAssumption DEF StartAttempt, callVars, Done
      <4>4. ASSUME NEW w \in Workers, NEW key \in Keys, WorkerRestart(w, key)
            PROVE  Done' \in {Done, attempt} /\ reply' \in {reply, NONE}
        BY <4>4, LoopActivitiesAssumption DEF WorkerRestart, callVars, Done
      <4>5. Done \in {attempt, attempt - 1}
        BY DEF Done
      <4> QED BY <4>1, <4>2, <4>3, <4>4, <4>5, <1>1
    <3>3. ASSUME call # NONE
          PROVE  /\ n + 1 <= MaxSteps /\ Rest(n + 2)
                 /\ Fits(audit[n + 1], error, Done')
                 /\ reply' # NONE /\ reply'.raised # "retryable" => Full(audit[n + 1], error, Done')
      <4>1. /\ n + 1 <= MaxSteps /\ Rest(n + 2) /\ Fits(audit[n + 1], error, Done)
            /\ reply # NONE /\ reply.raised # "retryable" => Full(audit[n + 1], error, Done)
        BY <3>1, <3>3 DEF RunningInv
      <4>2. audit[n + 1] \in Lines
        BY <3>1, <4>1, LoopActivitiesAssumption DEF IInv, TypeOK, Lines
      <4> DEFINE k == Done
                 m == Done'
      <4>3. k \in Nat /\ m \in Nat /\ k <= m /\ (reply' # NONE => reply' = reply)
        BY <3>2, <3>3
      <4> HIDE DEF n, error, k, m
      <4>4. /\ Fits(audit[n + 1], error, k) => Fits(audit[n + 1], error, m)
            /\ Full(audit[n + 1], error, k) => Full(audit[n + 1], error, m)
        BY <3>1, <4>2, <4>3, FitsMore
      <4> QED BY <4>1, <4>3, <4>4 DEF k, m
    <3>4. n' = n /\ error' = error /\ abandoned = {} /\ n <= MaxSteps /\ Past(n)
          /\ (call = NONE => Rest(n + 1))
      BY <1>1, <1>3, <3>1 DEF RunningInv
    <3> HIDE DEF n, error
    <3>5. /\ Past(n)' /\ (call = NONE => Rest(n + 1)') /\ (call # NONE => Rest(n + 2)')
      BY <1>1, <3>3, <3>4 DEF Past, Rest
    <3>6. abandoned' = {}
      BY <1>1, <3>4
    <3>7. RunningInv'
      BY <1>1, <3>3, <3>4, <3>5, <3>6 DEF RunningInv, n, error
    <3> QED BY <1>1, <2>3, <3>7 DEF AuditInv, LoopErrors
  <2>4. CASE status \in LoopErrors
    <3>1. TrippedInv
      BY <2>4 DEF IInv, AuditInv
    <3>2. abandoned' = {}
      BY <1>1, <3>1 DEF TrippedInv
    <3>3. Past(report.step_count - 1)' /\ Rest(report.step_count + 1)'
      BY <1>1, <3>1 DEF TrippedInv, Past, Rest
    <3>4. TrippedInv'
      BY <1>1, <3>1, <3>2, <3>3 DEF TrippedInv
    <3> QED BY <1>1, <2>4, <3>4 DEF AuditInv, LoopErrors
  <2> QED BY <2>2, <2>3, <2>4 DEF IInv, TypeOK
<1> QED BY <1>1, <1>2, <1>3, <1>4, <1>5, <1>6, <1>7 DEF IInv

\* The invariant is inductive, and every step is one of the uninterrupted loop or none.
LEMMA Step ==
    ASSUME IInv, [Next]_vars
    PROVE  IInv' /\ [Loop!LoopNext]_<<Current, status, report>>
PROOF
<1>1. CASE UNCHANGED vars
  <2>1. UNCHANGED <<keys, last, call, attempt, status, report, runner, reply, abandoned, audit>>
    BY <1>1 DEF vars, callVars
  <2>2. UNCHANGED <<Current, After>>
    BY <2>1 DEF Current, After
  <2>3. TypeOK' /\ CallInv'
    BY <2>1 DEF IInv, TypeOK, CallInv
  <2>4. ReplyInv' /\ ReportInv'
    BY <2>1, <2>2 DEF IInv, ReplyInv, ReportInv
  <2>5. AuditInv'
    <3>1. Done' = Done
      BY <2>1 DEF Done
    <3>2. (RunningInv => RunningInv') /\ (TrippedInv => TrippedInv') /\ (FailedInv => FailedInv')
      BY <2>1, <2>2, <3>1 DEF RunningInv, TrippedInv, FailedInv, Past, Rest
    <3> QED BY <2>1, <3>2 DEF IInv, AuditInv
  <2> QED BY <2>1, <2>2, <2>3, <2>4, <2>5 DEF IInv
<1>2. CASE Next
  BY <1>2, ExecuteActivityKeeps, LoopRecordStepKeeps, CompletedKeeps, TrippedKeeps, FailedKeeps,
     AbandonedRunsKeeps, AttemptKeeps DEF Next
<1> QED BY <1>1, <1>2

\* The invariant holds at the start, and the start is that of the uninterrupted loop.
LEMMA Initially ==
    ASSUME Init
    PROVE  IInv /\ Loop!LoopInit
PROOF
<1>1. Totals(NewContext) = [step_count |-> 0, total_tokens |-> 0]
  BY DEF Totals, NewContext
<1>2. TypeOK
  BY <1>1, LoopActivitiesAssumption DEF Init, TypeOK, Counts
<1>3. Current = NewContext
  BY DEF Init, Current
<1>4. CallInv /\ ReplyInv /\ ReportInv
  BY <1>3 DEF Init, CallInv, ReplyInv, ReportInv
<1>5. AuditInv
  <2>1. report.step_count = 0 /\ abandoned = {} /\ call = NONE /\ status = "running" /\ MaxSteps \in Nat
    BY <1>1, LoopActivitiesAssumption DEF Init
  <2>2. \A i \in 1..MaxSteps : Fits(audit[i], "none", 0)
    BY DEF Init, Fits, AuditEvents
  <2>3. Past(0) /\ Rest(0 + 1)
    BY <2>2 DEF Past, Rest
  <2> QED BY <2>1, <2>3 DEF AuditInv, RunningInv, LoopErrors
<1>6. Loop!LoopInit
  BY <1>3 DEF Init, Loop!LoopInit, Loop!Totals, Totals
<1> QED BY <1>2, <1>4, <1>5, <1>6 DEF IInv

-----------------------------------------------------------------------------
\* Every variable keeps its type, and no call exceeds its maximum_attempts.
THEOREM TypeCorrectness == Spec => []TypeOK
PROOF
<1>1. Init => IInv
  BY Initially
<1>2. IInv /\ [Next]_vars => IInv'
  BY Step
<1>3. IInv => TypeOK
  BY DEF IInv
<1> QED BY <1>1, <1>2, <1>3, PTL DEF Spec

\* LoopRecordStep keeps its promise: restored from checkpoints that travel encrypted, on
\* workers that crash, through attempts that are repeated or lost, the detector goes
\* through the states of one that was never interrupted.
THEOREM LoopImplementsUninterrupted == Spec => ImplementsUninterrupted
PROOF
<1>1. Init => IInv /\ Loop!LoopInit
  BY Initially
<1>2. IInv /\ [Next]_vars => IInv' /\ [Loop!LoopNext]_<<Current, status, report>>
  BY Step
<1> QED BY <1>1, <1>2, PTL DEF Spec, ImplementsUninterrupted, Loop!LoopSpec, Loop!loopVars

\* A checkpoint grows by the steps the workflow asked for, in their order, with their
\* tokens and their signals.  Nothing but a result that is received changes it.
THEOREM CheckpointsFollowCalls == Spec => CheckpointFollowsCalls
PROOF
<1> DEFINE Grows == Current' = Current \/ Current' = RecordStep(Current, Value(call).token_delta, Value(call).signal)
<1>1. Init => IInv
  BY Initially
<1>2. IInv /\ [Next]_vars => IInv'
  BY Step
<1>3. IInv /\ [Next]_vars => Grows
  <2>1. IInv /\ Completed => Grows
    BY CompletedKeeps
  <2>2. [Next]_vars => Completed \/ last' = last
    BY DEF Next, ExecuteActivity, StartAttempt, LoopRecordStep, Tripped, Retried, Failed, AbandonedRuns,
           WorkerRestart, vars, callVars
  <2>3. last' = last => Grows
    BY DEF Current
  <2> QED BY <2>1, <2>2, <2>3
<1> QED BY <1>1, <1>2, <1>3, PTL DEF Spec, CheckpointFollowsCalls

\* Attempts of a step never disagree in the audit trail, which has every step the task
\* went past and the error that ended it, from the detector and from the activity, and
\* none of them more often than the step was attempted.
THEOREM AuditIsOneStory == Spec => []AuditTellsOneStory
PROOF
<1>1. Init => IInv
  BY Initially
<1>2. IInv /\ [Next]_vars => IInv'
  BY Step
<1>3. IInv => AuditTellsOneStory
  <2> SUFFICES ASSUME IInv PROVE AuditTellsOneStory
    OBVIOUS
  <2> DEFINE n == report.step_count
  <2>1. /\ n \in Nat /\ MaxSteps \in Nat /\ MaximumAttempts \in Nat /\ 0 \in Nat /\ 0 <= MaximumAttempts
        /\ audit \in [1..MaxSteps -> Lines] /\ "none" \in Outcomes
    BY LoopActivitiesAssumption DEF IInv, TypeOK, Counts, Lines, Outcomes
  <2>2. ASSUME NEW i \in 1..MaxSteps
        PROVE  /\ Full(audit[i], "none", MaximumAttempts) => Fits(audit[i], "none", MaximumAttempts)
               /\ Fits(audit[i], "none", 0) => Fits(audit[i], "none", MaximumAttempts)
    BY <2>1, FitsMore DEF Full
  <2>3. ASSUME NEW i \in 1..MaxSteps, NEW error \in Outcomes, Full(audit[i], error, MaximumAttempts)
        PROVE  Told(i) = Story[error]
    <3>1. Story[error] \subseteq AuditEvents
      BY EventsAreStory
    <3> QED BY <2>3, <3>1 DEF Full, Fits, Told
  <2>4. ASSUME NEW i \in 1..MaxSteps, NEW error \in Outcomes, Fits(audit[i], error, MaximumAttempts)
        PROVE  /\ \E e \in DOMAIN Story : Told(i) \subseteq Story[e]
               /\ \A event \in AuditEvents : audit[i][event] <= MaximumAttempts
               /\ audit[i]["loop.halted"] <= audit[i]["detector.loop.detected"]
               /\ audit[i]["loop.velocity_exceeded"] <= audit[i]["detector.loop.detected"]
               /\ audit[i]["loop.pending_approval"] <= audit[i]["detector.loop.pending_approval"]
    <3>1. Told(i) \subseteq Story[error] /\ error \in DOMAIN Story
      BY <2>4, StoryIs DEF Fits, Told
    <3> QED BY <2>4, <3>1 DEF Fits
  <2>5. CASE status = "running"
    <3>1. RunningInv
      BY <2>5 DEF IInv, AuditInv
    <3>2. call # NONE => Fits(audit[n + 1], StepError(After.steps), MaximumAttempts)
      <4> SUFFICES ASSUME call # NONE PROVE Fits(audit[n + 1], StepError(After.steps), MaximumAttempts)
        OBVIOUS
      <4> DEFINE k == Done
                 error == StepError(After.steps)
      <4>1. k \in Nat /\ k <= MaximumAttempts
        BY LoopActivitiesAssumption DEF Done, IInv, TypeOK
      <4>2. error \in Outcomes /\ Fits(audit[n + 1], error, k) /\ audit[n + 1] \in Lines
        BY <2>1, <3>1, StepErrorType DEF RunningInv, Outcomes
      <4> HIDE DEF n, k, error
      <4>3. Fits(audit[n + 1], error, MaximumAttempts)
        BY <2>1, <4>1, <4>2, FitsMore
      <4> QED BY <4>3 DEF error
    <3>3. StepError(After.steps) \in Outcomes
      BY StepErrorType DEF Outcomes
    <3>4. ASSUME NEW i \in 1..MaxSteps PROVE \E error \in Outcomes : Fits(audit[i], error, MaximumAttempts)
      <4>1. CASE i \in 1..n
        BY <2>1, <2>2, <3>1, <4>1 DEF RunningInv, Past
      <4>2. CASE call = NONE /\ i \in (n + 1)..MaxSteps
        BY <2>1, <2>2, <3>1, <4>2 DEF RunningInv, Rest
      <4>3. CASE call # NONE /\ i \in (n + 2)..MaxSteps
        BY <2>1, <2>2, <3>1, <4>3 DEF RunningInv, Rest
      <4>4. CASE call # NONE /\ i = n + 1
        BY <3>2, <3>3, <4>4
      <4> QED BY <2>1, <4>1, <4>2, <4>3, <4>4
    <3>5. \A i \in 1..n : i \in 1..MaxSteps /\ Full(audit[i], "none", MaximumAttempts)
      BY <2>1, <3>1 DEF RunningInv, Past
    <3> QED BY <2>1, <2>3, <2>4, <2>5, <3>4, <3>5 DEF AuditTellsOneStory, LoopErrors
  <2>6. CASE status = "failed"
    <3>1. FailedInv
      BY <2>6 DEF IInv, AuditInv
    <3>2. PICK error \in Outcomes : Fits(audit[n + 1], error, IF abandoned = {} THEN MaximumAttempts ELSE MaximumAttempts - 1)
      BY <3>1 DEF FailedInv
    <3>3. Fits(audit[n + 1], error, MaximumAttempts)
      <4> DEFINE k == IF abandoned = {} THEN MaximumAttempts ELSE MaximumAttempts - 1
      <4>1. k \in Nat /\ k <= MaximumAttempts
        BY LoopActivitiesAssumption
      <4>2. Fits(audit[n + 1], error, k) /\ audit[n + 1] \in Lines
        BY <2>1, <3>1, <3>2 DEF FailedInv
      <4> HIDE DEF n, k
      <4> QED BY <2>1, <4>1, <4>2, FitsMore
    <3>4. ASSUME NEW i \in 1..MaxSteps PROVE \E e \in Outcomes : Fits(audit[i], e, MaximumAttempts)
      <4>1. CASE i \in 1..n
        BY <2>1, <2>2, <3>1, <4>1 DEF FailedInv, Past
      <4>2. CASE i \in (n + 2)..MaxSteps
        BY <2>1, <2>2, <3>1, <4>2 DEF FailedInv, Rest
      <4>3. CASE i = n + 1
        BY <3>3, <4>3
      <4> QED BY <2>1, <4>1, <4>2, <4>3
    <3>5. \A i \in 1..n : i \in 1..MaxSteps /\ Full(audit[i], "none", MaximumAttempts)
      BY <2>1, <3>1 DEF FailedInv, Past
    <3> QED BY <2>1, <2>3, <2>4, <2>6, <3>4, <3>5 DEF AuditTellsOneStory, LoopErrors
  <2>7. CASE status \in LoopErrors
    <3>1. TrippedInv /\ status \in Outcomes
      BY <2>7 DEF IInv, AuditInv, Outcomes
    <3>2. n \in 1..MaxSteps /\ Full(audit[n], status, MaximumAttempts) /\ Fits(audit[n], status, MaximumAttempts)
      BY <3>1 DEF TrippedInv, Full
    <3>3. ASSUME NEW i \in 1..MaxSteps PROVE \E e \in Outcomes : Fits(audit[i], e, MaximumAttempts)
      <4>1. CASE i \in 1..(n - 1)
        BY <2>1, <2>2, <3>1, <4>1 DEF TrippedInv, Past
      <4>2. CASE i \in (n + 1)..MaxSteps
        BY <2>1, <2>2, <3>1, <4>2 DEF TrippedInv, Rest
      <4>3. CASE i = n
        BY <3>1, <3>2, <4>3
      <4> QED BY <2>1, <4>1, <4>2, <4>3
    <3>4. \A i \in 1..(n - 1) : i \in 1..MaxSteps /\ Full(audit[i], "none", MaximumAttempts)
      BY <2>1, <3>1 DEF TrippedInv, Past
    <3> QED BY <2>1, <2>3, <2>4, <2>7, <3>1, <3>2, <3>3, <3>4 DEF AuditTellsOneStory
  <2> QED BY <2>5, <2>6, <2>7 DEF IInv, TypeOK
<1> QED BY <1>1, <1>2, <1>3, PTL DEF Spec

-----------------------------------------------------------------------------
(***************************************************************************)
(* The breakers over a whole history.  A step passes only where it keeps   *)
(* the history inside both of them, and only a step that passes changes    *)
(* the checkpoint.  That no step asked for a human has to be carried along *)
(* for a step that is not "no_progress" to be one with progress.           *)
(***************************************************************************)
Inside(ctx) ==
    LET steps == ctx.steps IN
    /\ \A i \in 1..Len(steps) : steps[i].signal # "human_intervention_required"
    /\ \A i \in 1..Len(steps) : i + MaxAgentSteps <= Len(steps) + 1 =>
          \E j \in i..Len(steps) : j < i + MaxAgentSteps /\ steps[j].signal = "progress"
    /\ ctx.total_tokens <= Len(steps) * MaxTokenVelocity

\* A product grows by its factor with every step.
LEMMA OneMoreStep ==
    ASSUME NEW n \in Nat, NEW velocity \in Nat
    PROVE  n * velocity \in Nat /\ (n + 1) * velocity = n * velocity + velocity
PROOF BY SMT

\* A step that record_step lets pass leaves the context inside the breakers.
LEMMA PassedInside ==
    ASSUME NEW ctx \in Contexts, Inside(ctx), NEW token_delta \in Nat, NEW signal \in LoopSignal,
           StepError(RecordStep(ctx, token_delta, signal).steps) = "none"
    PROVE  Inside(RecordStep(ctx, token_delta, signal))
PROOF
<1> DEFINE after == RecordStep(ctx, token_delta, signal)
           step == [token_delta |-> token_delta, signal |-> signal]
           n == Len(ctx.steps)
<1>1. /\ n \in Nat /\ MaxAgentSteps \in Nat /\ MaxTokenVelocity \in Nat
      /\ ctx.steps \in Seq(Steps) /\ step \in Steps /\ ctx.total_tokens \in Nat
  BY LoopAssumption DEF Contexts, Steps
<1>2. after.steps = Append(ctx.steps, step) /\ after.total_tokens = ctx.total_tokens + token_delta
  BY DEF RecordStep
<1>3. /\ after.steps \in Seq(Steps) /\ Len(after.steps) = n + 1 /\ after.steps[n + 1] = step
      /\ \A i \in 1..n : after.steps[i] = ctx.steps[i]
  BY <1>1, <1>2
<1> HIDE DEF after, step
<1>4. token_delta <= MaxTokenVelocity /\ signal # "human_intervention_required"
  BY <1>1, <1>3 DEF StepError, after, step
<1>5. ASSUME n + 1 >= MaxAgentSteps
      PROVE  \E i \in (n + 1 - MaxAgentSteps + 1)..(n + 1) : after.steps[i].signal # "no_progress"
  <2>1. Len(after.steps) > 0 /\ StepError(after.steps) = "none"
    BY <1>1, <1>3 DEF after
  <2>2. StepError(after.steps) \notin {"TokenVelocityError", "PendingApprovalError", "LoopDetectedError"}
    BY <2>1
  <2> DEFINE steps == after.steps
  <2>3. PICK i \in (Len(steps) - MaxAgentSteps + 1)..Len(steps) : steps[i].signal # "no_progress"
    <3> HIDE DEF steps
    <3>1. steps \in Seq(Steps) /\ Len(steps) > 0 /\ Len(steps) >= MaxAgentSteps
      BY <1>3, <1>5, <2>1 DEF steps
    <3>2. StepError(steps) \notin {"TokenVelocityError", "PendingApprovalError"} /\ StepError(steps) # "LoopDetectedError"
      BY <2>2 DEF steps
    <3> QED BY <3>1, <3>2, BreakerTripsOnStreak, ZenonT(60)
  <2> DEFINE length == Len(steps)
  <2>4. length = n + 1 /\ i \in (length - MaxAgentSteps + 1)..length
    BY <1>3
  <2> HIDE DEF steps, length, n
  <2>5. i \in (n + 1 - MaxAgentSteps + 1)..(n + 1)
    BY <1>1, <2>4
  <2> QED BY <2>3, <2>5, ZenonT(60) DEF steps
<1>6. \A i \in 1..(n + 1) : /\ after.steps[i].signal # "human_intervention_required"
                            /\ after.steps[i].signal \in LoopSignal
  <2> TAKE i \in 1..(n + 1)
  <2>1. after.steps[i] \in Steps
    BY <1>1, <1>3
  <2>2. CASE i \in 1..n
    BY <1>3, <2>1, <2>2 DEF Inside, Steps
  <2>3. CASE i = n + 1
    BY <1>3, <1>4, <2>3 DEF step
  <2> QED BY <1>1, <2>2, <2>3
<1>7. ASSUME NEW i \in 1..(n + 1), i + MaxAgentSteps <= n + 2
      PROVE  \E j \in i..(n + 1) : j < i + MaxAgentSteps /\ after.steps[j].signal = "progress"
  <2>1. CASE i + MaxAgentSteps <= n + 1
    <3>1. i \in 1..n \/ MaxAgentSteps = 0
      BY <1>1, <2>1
    <3>2. MaxAgentSteps # 0
      BY <1>1, <1>5
    <3>3. PICK j \in i..n : j < i + MaxAgentSteps /\ ctx.steps[j].signal = "progress"
      BY <1>1, <2>1, <3>1, <3>2 DEF Inside
    <3>4. j \in 1..n /\ j \in i..(n + 1)
      BY <1>1
    <3> QED BY <1>3, <3>3, <3>4
  <2>2. CASE i + MaxAgentSteps = n + 2
    <3>1. n + 1 - MaxAgentSteps + 1 = i /\ n + 1 >= MaxAgentSteps
      BY <1>1, <2>2
    <3>2. PICK j \in i..(n + 1) : after.steps[j].signal # "no_progress"
      BY <1>5, <3>1
    <3>3. j \in 1..(n + 1) /\ j < i + MaxAgentSteps
      BY <1>1, <2>2
    <3>4. after.steps[j].signal = "progress"
      BY <1>6, <3>2, <3>3 DEF LoopSignal
    <3> QED BY <3>3, <3>4
  <2> QED BY <1>1, <1>7, <2>1, <2>2
<1>8. after.total_tokens <= (n + 1) * MaxTokenVelocity
  <2> DEFINE allowed == n * MaxTokenVelocity
  <2>1. allowed \in Nat /\ (n + 1) * MaxTokenVelocity = allowed + MaxTokenVelocity
    BY <1>1, OneMoreStep
  <2>2. ctx.total_tokens <= allowed
    BY DEF Inside
  <2> HIDE DEF allowed, n
  <2> QED BY <1>1, <1>2, <1>4, <2>1, <2>2
<1>9. Inside(after)
  BY <1>1, <1>3, <1>6, <1>7, <1>8 DEF Inside
<1> QED BY <1>9 DEF after

\* Both breakers hold over the whole history of a checkpoint, whatever crashed and
\* whatever was repeated on the way to it.
THEOREM BreakersAlwaysHold == Spec => []BreakersHold
PROOF
<1>1. Init => IInv /\ Inside(Current)
  <2> SUFFICES ASSUME Init PROVE IInv /\ Inside(Current)
    OBVIOUS
  <2>1. IInv
    BY Initially
  <2>2. Current = NewContext /\ Len(NewContext.steps) = 0 /\ NewContext.total_tokens = 0
    BY DEF Init, Current, NewContext
  <2>3. 0 <= 0 * MaxTokenVelocity
    BY LoopAssumption
  <2> QED BY <2>1, <2>2, <2>3 DEF Inside
<1>2. IInv /\ Inside(Current) /\ [Next]_vars => IInv' /\ Inside(Current)'
  <2> SUFFICES ASSUME IInv, Inside(Current), [Next]_vars PROVE IInv' /\ Inside(Current)'
    OBVIOUS
  <2>1. IInv' /\ [Loop!LoopNext]_<<Current, status, report>>
    BY Step
  <2>2. CASE UNCHANGED Current
    BY <2>1, <2>2 DEF Inside
  <2>3. ASSUME NEW token_delta \in TokenDeltas, NEW signal \in LoopSignal, Loop!Pass(token_delta, signal)
        PROVE  Inside(Current)'
    <3>1. /\ Current' = RecordStep(Current, token_delta, signal)
          /\ StepError(RecordStep(Current, token_delta, signal).steps) = "none"
      BY <2>3 DEF Loop!Pass
    <3>2. Current \in Contexts /\ token_delta \in Nat
      BY CurrentType, LoopActivitiesAssumption DEF IInv
    <3>3. Inside(RecordStep(Current, token_delta, signal))
      BY <3>1, <3>2, PassedInside
    <3> QED BY <3>1, <3>3 DEF Inside
  <2>4. Loop!LoopNext => \/ UNCHANGED Current
                         \/ \E token_delta \in TokenDeltas, signal \in LoopSignal : Loop!Pass(token_delta, signal)
    BY DEF Loop!LoopNext, Loop!Trip, Loop!Fail
  <2> QED BY <2>1, <2>2, <2>3, <2>4
<1>3. Inside(Current) => BreakersHold
  BY DEF Inside, BreakersHold
<1> QED BY <1>1, <1>2, <1>3, PTL DEF Spec
=============================================================================
