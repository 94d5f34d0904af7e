# Aegis-OS in TLA+

Aegis-OS governs calls that agents make to language models: a prompt is scrubbed,
a policy is evaluated, a short-lived token is issued, a human approves large
spends, a budget is checked, the model is called, the spend is recorded, the answer
is sanitised, and every step is audited. This directory models the parts of that
system that keep state or run concurrently, checks them with TLC on small
instances, and proves the central properties with TLAPS for all instances. Source
paths below are relative to the repository.

## The system

| Part | State | Operations | What is hard about it |
|---|---|---|---|
| `AgentTaskWorkflow` (scheduler.py) | point reached in `run`, status, gate, recorded signal | one await after the other; `approve`, `deny`; timer | activities are retried, lost, slow; signals come at any time; only some failures are audited |
| activities (scheduler.py) | none of their own | seven pipeline activities, `WorkflowAudit`, `LoopRecordStep` | at-least-once execution, errors after the effect |
| HITL endpoints (router.py, approval_service.py) | the request in flight | authorise, query, signal | the state queried is stale when the signal arrives |
| `Orchestrator.run` (orchestrator.py) | shared budget session and loop context | nine stages, two awaits | check before the await, debit after it; which exceptions are audited by whom |
| `BudgetEnforcer` | sessions with applied operation ids | create, check, record, replay | limits, duplicates, replaced sessions |
| `LoopDetector` | steps of a context | record a step, checkpoint, restore | three breakers in a fixed order; a context that moves from attempt to attempt |
| `AuditLogger` | counter and last timestamp per task | `stage_event`, `lifecycle_event` | threads, a clock set back, restarts |
| `SessionManager`, replay store | revocation list, rotation index, used proofs | issue, validate, revoke, prove | purges, whole and fractional seconds, failures half-way |
| `/metrics` (main.py, approval_service.py) | gauges, and the set of them to remove | list, query, refresh | scrapes overlap, and workflows move between two awaits of one |
| payload codec (data_converter.py) | the key of a process | encode, decode | workers with different keys during a rotation |
| guardrails, OPA client, adapters, compliance reports, start-up | none | pure functions or I/O | choices of their callers, if modelled at all |

What should hold of each part, and where it is stated:

* workflow: no call of the model that was not governed (`GovernedCalls`), a verdict that
  is the last signal (`VerdictIsLastSignal`), an audit trail that agrees with it
  (`AuditAgreesWithVerdict`), an honest outcome (`OutcomeConsistent`), bounded and
  announced retries (`RetriesAudited`), an end (`Terminates`);
* endpoints: a decision is that of a request that passed every check (`DecisionHasAuthor`),
  a reviewed call of the model has an approval behind it (`CallHasApprover`), and a
  decision the open gate took in is not lost (`RecordedDecisionStands`);
* orchestrator: ledgers and audit trail tell the same story (`LedgersMatchAudit`), answers
  returned are within the limit (`ReturnedWithinLimit`), a request that raises says
  why (`NoSilentStage`), an exhausted session stays closed (`FurtherCallsRejected`);
* budget activities: spend is recorded once, whatever is retried (`SpendRecordedOnce`), and
  the token counter misses none of it (`TokensCounted`);
* loop activity: however a step is attempted, the task has one detector that is never
  interrupted (`ImplementsUninterrupted`), a checkpoint with just the steps it asked for
  (`CheckpointFollowsCalls`), a history inside both breakers (`BreakersHold`), and an
  audit trail that does not contradict itself (`AuditTellsOneStory`);
* metrics: what a scrape answers was true while it was made (`ScrapeIsFresh`), no gauge is
  left behind (`GaugesTracked`), and each pending workflow is shown and later cleared
  (`PendingIsShown`, `GaugeIsCleared`);
* audit logger: `NumbersUnique`, `Gapless`, `TimestampsFollowNumbers`;
* session manager: `RevocationHolds`, `OneLiveTokenPerKey`, `AcceptancesBounded`.

The endpoints signal the workflow; the workflow and the orchestrator call the budget
enforcer, the loop detector, the session manager and the audit logger; Prometheus
scrapes the API, which queries the workflows. PROJECT.json
lists every component with its status, the lines each definition translates, and the
hazards with the properties that cover them.

## Modules

| Module | Models |
|---|---|
| `ApprovalGate` | what the approval gate promises: entered and left once, no call before an approval |
| `AgentTaskWorkflow` | one workflow execution with its activities, signals and timers |
| `HitlEndpoints` | the two HITL endpoints, extending `AgentTaskWorkflow` |
| `AuditLogger` | numbering and time-stamping of audit events by concurrent threads |
| `BudgetEnforcer`, `LoopDetector` | their operations as operators on session and context values |
| `Orchestrator` | concurrent requests on top of these two |
| `BudgetActivities` | the budget activities of several workflows that share a session |
| `UninterruptedLoop` | what `LoopRecordStep` promises: one detector, told of each step once |
| `LoopActivities` | `LoopRecordStep` under a workflow that carries the checkpoint |
| `PayloadCodec` | encryption of what is exchanged with Temporal, as operators |
| `PendingApprovalMetrics` | the pending-approval gauges under overlapping scrapes |
| `StuckAlert` | the same with a clock, the approval timer and the alert rule |
| `SessionManager` | tokens, rotation, revocation, DPoP proofs |
| `...Proofs` | theorems about the module of that name, and about `HitlEndpoints` in `AgentTaskWorkflowProofs` |
| `SumLemmas` | induction over finite sets, and the laws of sums the proofs use |
| `MC...` | instances for TLC |

Operators whose comment begins "Mutant of" are not part of any specification: each
is a plausible mistake in the definition it names, and replacing that definition by it
makes TLC report the property PROJECT.json pairs it with.

### AgentTaskWorkflow

`pc` is the await `run` is suspended in. `Start`, `Continue`, `ActivityError`,
`ApprovalDecided` and `ApprovalTimeout` are the code between two awaits; `Continue`
has one case per activity call. `Signal` is both signal handlers.
The remaining actions are Temporal, modelled from how the code uses it: an attempt is
scheduled, started, runs its body (`RunBody`, which appends what the body emits to
`log`), and is reported, retried or given up. A started attempt that outlives its
schedule-to-close timeout stays in `zombies` and may still run its body. A worker
crash loses attempts and never workflow state. `HITLEscalationError` is not a Temporal
failure, so the workflow it is raised in is "suspended", not closed. `inp` keeps the
two facts the control depends on: whether the projected spend exceeds the threshold,
and whether the task has a budget.

`log` holds audit events and, as `adapter.complete`, calls of the model. Events are told
apart as far as the properties need it: that the audit of a timeout has the type
`task.denied` (scheduler.py:1651), and the events of `PolicyEval` other than
`policy.allowed` and `policy.denied`, are left out.

### HitlEndpoints

Any number of requests, with a step per await. `approver_id` is what the body of a request
says; the handler checks the token of the caller, drops its claims and compares the two
nowhere, so the properties speak of requests and not of persons. A query that fails for
any reason is a 404. A signal RPC may fail with or without having been delivered, which
is a 500. `found` remembers the gate as the signal met it.

### AuditLogger

The steps of a call are: read the clock, reserve under the lock, emit the warning if
there is one, emit the event. `trail` is the order of emission, which is not the order
of the numbers. The clock jumps freely. `epoch` counts restarts.

### Orchestrator

`run` yields at `policy_engine.evaluate` and at `adapter.complete` only, so a request
takes three steps. Each stage is the set of its possible results (events and whether
the pipeline goes on), and `AndThen` chains stages. `SpanStage` is `_span_stage`, which
audits the exceptions that are not in `_CONTROLLED_EXC`. The budget and loop stages depend
on the shared session and context, the loop stage also on the `loop_token_delta` of the
request. A protected request has the adapter's own events, as those of a stage `adapter`.

### BudgetActivities

The body of an activity is one step because it has no await; the report of its result
is another, and may be lost or turned into a retry. `BudgetRecordSpendRaises` is a body
that fails before the debit. Every workflow restores the session from its own history
before it uses it. An attempt whose workflow has given up on it stays in `abandoned` and
may still write the enforcer and the counter.

### LoopActivities

No workflow of the implementation calls `LoopRecordStep`; the caller is
`LoopRecoveryWorkflow` of `tests/test_loop_recovery.py`, which calls it once per step and
passes on the checkpoint of the last result. That caller has `maximum_attempts=1` and
plain payloads; the model takes any number of attempts and any keys, with the worker's
own data converter. The body is one step; the detector audits before it raises and the
activity afterwards, and an attempt may fail between the two. What the workflow history holds (`last`,
`call`) is a payload under the key of the worker that wrote it. A worker with another
key cannot run workflow code on it, and its attempt fails and is retried. `WorkerRestart`
loses attempts and results and changes the key. An attempt that outlives its call stays in
`abandoned` and may still audit its step. The mapping to `UninterruptedLoop` restores the
last checkpoint into a context, so the refinement says that checkpoints, retries, crashes
and keys cannot be told from their absence. A step that trips a breaker is counted in the
reported totals and is in no checkpoint, in the code as in both modules.

### PendingApprovalMetrics and StuckAlert

A scrape is in `list_workflows` or among its queries; its last step sets and removes gauges
and answers, because `refresh_pending_approval_metrics` awaits nothing after the
snapshots. The order of the queries is left open. Workflows are reduced to what the query
shows: the gate, and whether the execution is closed. `ListLimit` is the limit of 200,
which counts closed executions too. A failed query passes over one workflow, a failed
listing over all. `seen` and `due` are history variables. `StuckAlert` adds minutes: the
time each workflow entered the gate, the age a gauge was set to, and for how long the
expression of the rule has held.

### SessionManager

Every method is one step. Time is counted in ticks so that expiry by whole seconds
(the JWT library) and purges at fractions of a second (the revocation list) can differ.
`own`, `revoked`, `rotated` and `used` are history variables. The clock does not go back. A
token has the configured lifetime or one of `Lifetimes`, which a caller passes as
`expires_in_seconds`; the list entry of a token that a rotation replaces has the
configured one in either case. A proof is dated by the client, at most the allowed skew
ahead or behind. A restart loses list and index, and the replay store if it is in memory.

## Runs

| Run | States | Shows |
|---|---|---|
| `workflow` | 133,854 | governed calls, truthful audit, last signal wins, consistent outcomes, audited retries, refinement of `ApprovalGate`; every task ends or escalates |
| `hitl` | 287,818 | each decision is that of a request that passed its checks, each reviewed call has an approval; a decision that met the open gate stands |
| `audit` | 164,538 | unique, gapless numbers; timestamps that follow them |
| `orchestrator` | 2,574,240 | ledgers match the audit trail; returned answers within the limit; failures that say why; an exhausted session admits no call |
| `budget_activities` | 648,440 | spend recorded exactly once, counted at least once and at most once per attempt |
| `session_manager` | 550,016 | how long a revocation holds, one live token per key for as long, how often a proof is accepted |
| `loop_activities` | 174,476 | refinement of `UninterruptedLoop`; checkpoints with the steps asked for, inside both breakers; one story in the audit trail |
| `pending_metrics` | 161,956 | fresh answers, no orphaned gauge, pending workflows shown and cleared |

### Disagreements

Four runs show that the code does not do what a document or a comment says; each is a
finding in PROJECT.json with the quotation.

| Run | Disagreement |
|---|---|
| `hitl_late` | a decision overtaken by the timeout is answered 200, not 409 |
| `session_replay` | a proof dated ahead within the skew outlives its replay entry and is accepted twice |
| `budget_session_limit` | workflows of one session each spend up to the whole limit |
| `stuck_alert` | with the default timeout a gate times out before the alert of it can fire |

`StuckAlertDefaults.cfg` keeps the proportions of the code, the timeout equal to the
threshold and a minute each for the rule's `for` and the audit before the timer. With a timeout of
6 minutes for the threshold of 3 (and 11 minutes in all) the same property holds.

More can be read off the models and the properties, and no run is spent on them:

* A task that is denied or times out at the gate completes, with the status `denied` or
  `timed-out` (`OutcomeConsistent`, as tests/test_hitl_pending_approval.py:263 has it);
  docs/architecture_decisions.md:247 says "Denied / Timeout → Failed: Task is marked failed".
* A task that fails before `LLMInvoke`, as one the policy denies, fails without a
  `workflow.failed` event (`ActivityError`; docs/roadmap.md:1466 asks for an event for
  every transition).
* After a restart the events of a task are numbered from zero again (`Restart` of
  `AuditLogger`; docs/roadmap.md:674).
* A retried `BudgetRecordSpend` counts its tokens again (metrics.py:53 calls the counter
  the total of tokens consumed; `TokensCounted` bounds by how much), and a refused one
  counts them too, because `record_tokens` increments the counter before `record_spend`
  raises, as its own docstring says; metrics.py:25-27 says "on every successful
  `record_tokens` call". `TokensCounted` asks for recorded spends only.
* `Orchestrator.run` raises without an audit event when there is no `task_id`, and when the
  token it has just issued has expired by the time it validates it, which is outside the
  handlers of the stage (`Unaudited` in `NoSilentStage`); orchestrator.py:194-196 says of the controlled exceptions that the
  stage emits its event before it re-raises them.
* A revoked session token, for which the stage raises a plain `PermissionError`, and a
  rejected proof are audited as a denial and again as an error (`RefusalIsLast`); orchestrator.py:196 says that `_span_stage` "must not emit a
  duplicate" event.
* A token that lives longer than configured and is rotated out leaves the revocation list
  before it expires; and any revoked token leaves it at its `exp` while the JWT library
  accepts it for the rest of that second (`Lapsed`); session_mgr.py:587 says "Drop revocation entries whose original token
  lifetime has elapsed."
* The `actor_id` of a decision is the `approver_id` of the request's body, which nothing
  compares with the subject of the token (router.py:411-414).

### Bounds and fairness

Bounds. The workflow runs use the attempts of the code (5 for `LLMInvoke`, 3 or 1
elsewhere). Two approvers, and in `hitl` two requests, are enough for one decision to
overwrite another; there only the model call is retried. Two threads and two tasks make
reservations interleave; two calls each and one restart are enough for a clamped, a
refused and a lost event. Two requests with a limit of 2 and up to 2 tokens reach the
limit exactly, exceed it, and overdraw it concurrently; a `loop_token_delta` of 1 differs
from what was used; two calls of `create_session` replace a session in use. Three
workflows of up to 2 tokens against a limit of 1 cover completion, refusal and joint
overspending, with the three attempts of the code. Two tokens allow a rotation; lifetimes
of one and two seconds, the shorter configured, at two ticks a second separate the two
notions of expiry and the two lifetimes, and the clock runs until
both tokens have expired and past the whole window of a proof, TTL and skew of a second
each, in which `AcceptancesBounded` allows three acceptances.
For the loop, two workers and two keys give a reader that can
and one that cannot read; three steps without progress trip the breaker, so a streak
is carried over two checkpoints; tokens of 2 and 3 against a velocity of 2 just pass and trip the other;
five steps leave room for a streak that is broken and begun again; two attempts let a
step be audited, in part or whole, and retried. For the metrics, two workflows and one that had closed
before, against a listing of two, make the listing both complete and cut; two scrapers
overlap; one fault is a failing listing, a failing query or a restart at any point.
Approvers, threads, tasks, requests, workflows, workers,
keys and tokens are interchangeable, so runs without liveness use symmetry. `loop_activities` and
`pending_metrics` are checked for deadlock; the other runs end when their tasks, calls
or clock do, and are not.

Fairness. `workflow` assumes weak fairness of `Start`, `ApprovalDecided`,
`ApprovalTimeout` and `ScheduleToClose`: the Temporal server fires durable timers and
some worker executes workflow tasks. Nothing is assumed of attempts, signals or
crashes. Termination therefore rests on every await of `run` having a timeout, which
is what the mutant of `ScheduleToClose` takes away. `pending_metrics` assumes weak
fairness of the scrapes of one scraper, Prometheus, which scrapes for ever, and that
faults are finite in number (`MaxFaults`); workflows may stop anywhere and so may the other
scraper. `PendingIsShown` promises nothing while there are more executions than the listing
takes, because then the code does not either.

## Proofs

The theorems hold for every value of the constants under the named assumptions of the
modules: attempts are positive, bounds and times are numbers, there are finitely many
requests and workflows, and `NONE` is not a datum (no session, context, reply,
signal or state of the gate).
TLC evaluates these assumptions in the runs. Every safety property of every passing run
is proved, from an inductive invariant that implies it.

* `AgentTaskWorkflowProofs`: type correctness, `GovernedCalls`, `VerdictIsLastSignal`,
  `AuditAgreesWithVerdict` and `ImplementsGate`. The invariant adds to the properties
  what makes them inductive: `PointInv` (what `log` holds at each point of `run`, so that
  the call of the model finds its predecessors), `ReportInv` (an attempt that reports
  success, and one in `zombies`, is of a stage that was reached) and `GateInv` (where
  `run` may be for each state of the gate). One lemma per action. `OutcomeConsistent`
  follows from `OutcomeInv`, which relates what is logged to the last stages and to the
  gate's refusal. `RetriesAudited` follows from `RetryInv`: `LLMInvoke` is awaited once,
  the attempts begun bound the calls made, and one that was given up on while it ran still
  has its own call to make.
* The same module, on `HitlEndpoints`: each handler step is a `Signal` or leaves the
  workflow alone (`EndpointsDriveWorkflow`), so every theorem about the workflow carries
  over (`EndpointCallsAreGoverned`, `EndpointRunsAreSound`, `EndpointsImplementGate`); type
  correctness and `DecisionHasAuthor`, from `AuthorInv`: a decision has a request that has
  been answered, so that nothing changes it any more, and a request that met the open gate
  left a decision. `CallHasApprover` joins the two: a reviewed call has
  an approval before it in the trail (`GovernedCalls`), the trail agrees with the verdict
  (`AuditAgreesWithVerdict`), the verdict is the signal recorded (`VerdictIsLastSignal`),
  and the signal has an author. `RecordedDecisionStands` is the converse: where a request
  met the gate there is a signal, and a gate that timed out has none. `VerdictsAreFinal` reads
  off the refinement of the gate that no step revises a verdict, and that behind a refusal
  or a timeout none calls the model.
* `AuditLoggerProofs`: `NumbersUnique`, `Gapless`, `TimestampsFollowNumbers`. The
  invariant speaks of numbers held by calls in flight as well as of emitted ones:
  `BelowCounter`, `HeldApart`, `HeldNotEmitted`, `EmittedApart`, `Accounted`. Each is
  needed because an emission turns a held number into an emitted one.
* `SessionManagerProofs`: `RevocationHolds`, `OneLiveTokenPerKey`, `AcceptancesBounded`.
  What a revoked token is listed until is its `exp`, or the configured lifetime after its
  last rotation, and `Lapsed` names just these two, for tokens of any lifetime. `Rotated`
  says that all but the indexed token of a key are revoked, which survives a failed
  signing. The replay store dates its entry by the acceptance and the window hangs on the
  client's `iat`, so by `WindowInv` the k-th acceptance is at least k - 1 TTLs after the
  first, and all lie between `iat` less the skew and `iat` plus the TTL.
* `LoopActivitiesProofs`: restoring the checkpoint of a context gives that context back
  (`RestoreOfCheckpoint`), which is the heart of `ImplementsUninterrupted`; and
  `AuditTellsOneStory`. The invariant says what a call in progress carries (`CallInv`:
  the last checkpoint), what its reply would tell (`ReplyInv`), that the totals a
  running task knows are those of its checkpoint (`ReportInv`), and which events of the
  detector and of the activity there are, and how often, before, during and after the
  step in progress (`AuditInv`). Of the detector
  itself, `BreakerTripsOnStreak` shows that the streak breaker trips exactly on
  `max_agent_steps` last steps without progress, for histories of any length. With it
  `BreakersHold` follows from the refinement: only a step that passes changes the
  checkpoint, and it keeps the history `Inside` both breakers, which says besides that no
  step in it asked for a human. The abstract loop chooses the step it takes;
  `CheckpointFollowsCalls` adds that it is the step of the call.
* `PendingApprovalMetricsProofs`: `GaugesTracked`, and `ScrapeIsFresh` from `ScrapeInv`,
  which bounds what a scrape has found by `seen` and from below by `due`.
* `OrchestratorProofs`: type correctness, `NoSilentStage` and `FurtherCallsRejected`. Each
  stage has a lemma on what its results tell the audit trail; a lemma on `AndThen` chains
  them, and `TrailInv` carries them over the two awaits. `LedgersMatchAudit` and
  `ReturnedWithinLimit` rest on `LInv`: a request not yet answered has been charged
  nothing (`LedgerInv`), the session costs what the requests charged to it used, the
  context holds the steps and tokens it was shown (`AccountInv`). `AnsweredEvents` ties
  the debit, the step and the return to the events of the same stages. A request returns
  only from a session that was within its limit after the debit, and what was returned is
  part of what was charged; a replaced session starts with nobody charged to it.
* `BudgetActivitiesProofs`: type correctness, `SpendRecordedOnce` and `TokensCounted`.
  `RestoreAppend` unfolds the recovery of a session, entry by entry. `HistoryInv` says
  which histories there are (none, or the one completion), what a reply under way
  tells of them, and that an attempt which runs on alone is of a failed workflow;
  `CounterInv` says that there are numbers of debits, one for each workflow
  and bounded by its attempts, that account for the counter. `SessionSpendBounded` says how
  far the disagreement `budget_session_limit` goes: n workflows of a session spend at most
  n times its limit.
* `SumLemmas`: what the last two need of sums over finite sets: adding and removing an
  element, larger summands, subsets, multiples, bounds. They are inductions over subsets and over
  naturals, stated for a set of values instead of a predicate (`SubsetInductionOnSet`,
  `NatInductionOnSet`) so that the provers can apply them.

Only model-checked: `Terminates`, `PendingIsShown` and `GaugeIsCleared`. They are
liveness properties under fairness, which needs `ENABLED`, and the provers do not
reason about it.

## Not modelled

* Guardrails and masking are regular expressions over text, OPA and its policies and the
  adapters are HTTP requests: their outcomes are choices of the stages that call them.
* Compliance reports aggregate finished records; tracing, configuration, the worker's
  wiring and the demonstration script hold no state of the system.
* `route_task`, `execute_task` and `get_task_status` translate a request to
  `Orchestrator.run` and its exceptions to HTTP answers, and keep nothing.
* `AgentScheduler` is a dictionary that stands in for Temporal; nothing under `src/` uses it.
  The same holds of `BudgetEnforcer.restore_session`.
* The age of a token across the approval wait: the workflow model has no clock. Only the
  first attempt of an unprotected `LLMInvoke` carries the token issued before the wait, and
  the code does not validate it again. Every other attempt issues a token and validates it
  at once, which is within `SessionManager`.
* Fernet and signatures: a ciphertext is opened by its key and by no other.
