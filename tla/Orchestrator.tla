---------------------------- MODULE Orchestrator ----------------------------
(***************************************************************************)
(* Concurrent requests to Orchestrator.run (src/control_plane/             *)
(* orchestrator.py) that share one budget session and one loop-detection   *)
(* context.  run() is a coroutine: it gives way to other requests only     *)
(* where it awaits the policy engine and the adapter, so a step of a       *)
(* request is everything run() does from one await to the next.            *)
(***************************************************************************)
EXTENDS BudgetEnforcer, LoopDetector, Functions, FiniteSets

CONSTANTS
    Requests,
    BudgetLimit,        \* budget_limit_usd of the session
    MaxTokens,          \* bound: tokens one completion uses (at a price of 1)
    TokenDeltas,        \* values requests give for loop_token_delta
    MaxSessions,        \* bound: calls of create_session
    NONE                \* Python's None

ASSUME BudgetAssumption ==
    /\ BudgetLimit \in Nat /\ MaxTokens \in Nat /\ MaxSessions \in Nat
    /\ IsFiniteSet(Requests) /\ NONE \notin BudgetSession({}) \cup Contexts
ASSUME DeltaAssumption == TokenDeltas \subseteq Nat /\ NONE \notin TokenDeltas

VARIABLES
    options,    \* the OrchestratorRequest of each request
    at,         \* the await each request is suspended in, or how it ended
    trail,      \* the audit events of each request
    tokens,     \* tokens_used in the adapter's answer
    session,    \* the BudgetSession, or NONE before create_session
    sessions,   \* how often create_session has been called for it
    charged,    \* the session, by number, each request has been charged to, or 0
    context,    \* the ExecutionContext
    called      \* history: the requests for which the adapter was called

vars == <<options, at, trail, tokens, session, sessions, charged, context, called>>

Stages ==
    {"pre-pii-scrub", "policy-eval", "policy-mask", "jit-token-issue", "watchdog.pre-llm",
     "adapter", "llm-invoke", "watchdog.record-spend", "watchdog.loop-detect", "post-sanitize"}

\* The adapter's own events, which name the stage llm-invoke as well, are told apart as
\* those of the stage "adapter".  "allow" stands for the outcomes allow and redact.
Event == [stage : Stages, outcome : {"allow", "deny", "error"}]

\* Is there a task_id, a budget session, a loop session; is the call to be protected.
Options ==
    [task_id : BOOLEAN, budgeted : BOOLEAN, protected : BOOLEAN,
     loop_signal : LoopSignal \cup {NONE}, loop_token_delta : TokenDeltas \cup {NONE}]

TypeOK ==
    /\ options \in [Requests -> Options]
    /\ at \in [Requests -> {"created", "policy_engine.evaluate", "adapter.complete", "returned", "raised"}]
    /\ trail \in [Requests -> Seq(Event)]
    /\ tokens \in [Requests -> 0..MaxTokens]
    /\ charged \in [Requests -> 0..sessions]
    /\ sessions \in 0..MaxSessions
    /\ session \in BudgetSession({}) \cup {NONE}
    /\ session = NONE <=> sessions = 0
    /\ context \in Contexts \cup {NONE}
    /\ called \subseteq Requests

\* A request without a loop session has no use for a delta.
Init ==
    /\ options \in [Requests -> {o \in Options : o.loop_signal = NONE => o.loop_token_delta = NONE}]
    /\ at = [r \in Requests |-> "created"]
    /\ trail = [r \in Requests |-> <<>>]
    /\ tokens = [r \in Requests |-> 0]
    /\ session = NONE
    /\ sessions = 0
    /\ charged = [r \in Requests |-> 0]
    /\ context \in {NONE, NewContext}
    /\ called = {}

-----------------------------------------------------------------------------
(***************************************************************************)
(* The stages.  Each is the set of its possible results: the events it     *)
(* emits, and whether run() goes on to the next stage.                     *)
(***************************************************************************)
Passed(events) == [events |-> events, ok |-> TRUE]
Raised(events) == [events |-> events, ok |-> FALSE]
Emit(stage, outcome) == <<[stage |-> stage, outcome |-> outcome]>>

Join(a, b) == [events |-> a.events \o b.events, ok |-> b.ok]

AndThen(first, second) ==
    {a \in first : ~ a.ok} \cup {Join(a, b) : a \in {x \in first : x.ok}, b \in second}

\* Mutant of SpanStage: an unexpected exception is raised without an event.
SpanStageQuiet(stage, events, controlled) == Raised(events)

\* _span_stage around a body that raises: an exception outside _CONTROLLED_EXC is
\* audited as stage.error, on top of what the body has emitted.
SpanStage(stage, events, controlled) ==
    Raised(IF controlled THEN events ELSE events \o Emit(stage, "error"))

\* Stage 1: PromptInjectionError, or the masked prompt.
PrePiiScrub ==
    {Passed(Emit("pre-pii-scrub", "allow")), SpanStage("pre-pii-scrub", <<>>, FALSE)}

\* Stage 2: allowed, denied, OpaUnavailableError (audited by the body, then raised as
\* PolicyDeniedError), or any other exception.
PolicyEval ==
    {Passed(Emit("policy-eval", "allow")),
     SpanStage("policy-eval", Emit("policy-eval", "deny"), TRUE),
     SpanStage("policy-eval", Emit("policy-eval", "error"), TRUE),
     SpanStage("policy-eval", <<>>, FALSE)}

\* Stage 2b: no mask instruction, or the fields masked.
PolicyMask ==
    {Passed(<<>>), Passed(Emit("policy-eval", "allow")), SpanStage("policy-mask", <<>>, FALSE)}

\* Stage 3: a token validated or issued; one that is expired or out of scope; one that
\* is revoked, which raises PermissionError; one that is malformed.  The token the stage
\* has just issued is validated outside the handlers: when it has expired by then, the
\* controlled exception leaves without an event.
SessionToken ==
    {Passed(Emit("jit-token-issue", "allow")),
     SpanStage("jit-token-issue", Emit("jit-token-issue", "deny"), TRUE),
     SpanStage("jit-token-issue", Emit("jit-token-issue", "deny"), FALSE),
     SpanStage("jit-token-issue", <<>>, FALSE),
     SpanStage("jit-token-issue", <<>>, TRUE)}

\* The sender-constrained token of a protected request, validated the same way.
AdapterToken(r) ==
    IF options[r].protected
      THEN {Passed(Emit("jit-token-issue", "allow")), SpanStage("jit-token-issue", <<>>, FALSE),
            SpanStage("jit-token-issue", <<>>, TRUE)}
      ELSE {Passed(<<>>)}

JitTokenIssue(r) == AndThen(SessionToken, AdapterToken(r))

\* Mutant of WatchdogPreLlm: a session that is just used up passes.
WatchdogPreLlmLoose(r) ==
    IF ~ options[r].budgeted THEN {Passed(<<>>)}
    ELSE IF session = NONE THEN {SpanStage("watchdog.pre-llm", <<>>, FALSE)}
    ELSE IF Exceeded(session) THEN {SpanStage("watchdog.pre-llm", Emit("watchdog.pre-llm", "deny"), TRUE)}
    ELSE {Passed(Emit("watchdog.pre-llm", "allow"))}

\* Stage 3.5: check_budget; a session nobody created is a KeyError.
WatchdogPreLlm(r) ==
    IF ~ options[r].budgeted THEN {Passed(<<>>)}
    ELSE IF session = NONE THEN {SpanStage("watchdog.pre-llm", <<>>, FALSE)}
    ELSE IF Exhausted(session) THEN {SpanStage("watchdog.pre-llm", Emit("watchdog.pre-llm", "deny"), TRUE)}
    ELSE {Passed(Emit("watchdog.pre-llm", "allow"))}

\* Stage 4, when the adapter raises: for a protected request before or after it has
\* audited its check of the proof, or with the proof rejected.
LlmInvokeFails(r) ==
    {SpanStage("llm-invoke", <<>>, FALSE)} \cup
    IF options[r].protected
      THEN {SpanStage("llm-invoke", Emit("adapter", "allow"), FALSE),
            SpanStage("llm-invoke", Emit("adapter", "deny"), FALSE)}
      ELSE {}

\* Stage 4, when it answers.
LlmInvoke(r) ==
    {Passed((IF options[r].protected THEN Emit("adapter", "allow") ELSE <<>>) \o Emit("llm-invoke", "allow"))}

\* Mutant of WatchdogRecordSpend: the session is looked at before it is debited.
WatchdogRecordSpendStale(r, debited) ==
    IF ~ options[r].budgeted THEN {Passed(<<>>)}
    ELSE IF Exceeded(session)
           THEN {SpanStage("watchdog.record-spend", Emit("watchdog.record-spend", "deny"), TRUE)}
    ELSE {Passed(Emit("watchdog.record-spend", "allow"))}

\* Stage 4.5: the session is debited, and then found exceeded or not.
WatchdogRecordSpend(r, debited) ==
    IF ~ options[r].budgeted THEN {Passed(<<>>)}
    ELSE IF Exceeded(debited)
           THEN {SpanStage("watchdog.record-spend", Emit("watchdog.record-spend", "deny"), TRUE)}
    ELSE {Passed(Emit("watchdog.record-spend", "allow"))}

\* The token_delta that record_step is given.
TokenDelta(r, used) == IF options[r].loop_token_delta = NONE THEN used ELSE options[r].loop_token_delta

\* Stage 4.6: the three errors of the breaker are all denials.
WatchdogLoopDetect(r, stepped) ==
    IF options[r].loop_signal = NONE THEN {Passed(<<>>)}
    ELSE IF context = NONE THEN {SpanStage("watchdog.loop-detect", <<>>, FALSE)}
    ELSE IF StepError(stepped.steps) # "none"
           THEN {SpanStage("watchdog.loop-detect", Emit("watchdog.loop-detect", "deny"), TRUE)}
    ELSE {Passed(Emit("watchdog.loop-detect", "allow"))}

\* Stage 5.
PostSanitize ==
    {Passed(Emit("post-sanitize", "allow")), SpanStage("post-sanitize", <<>>, FALSE)}

-----------------------------------------------------------------------------
\* The request goes on to the next await, returns or raises.
Suspend(r, result, point) ==
    /\ trail' = [trail EXCEPT ![r] = @ \o result.events]
    /\ at' = [at EXCEPT ![r] = IF result.ok THEN point ELSE "raised"]

\* run() raises MissingTaskIdError before its first stage, or goes on to the policy
\* engine.
Start(r) ==
    /\ at[r] = "created"
    /\ IF options[r].task_id
         THEN \E result \in PrePiiScrub : Suspend(r, result, "policy_engine.evaluate")
         ELSE Suspend(r, Raised(<<>>), "raised")
    /\ UNCHANGED <<options, tokens, session, sessions, charged, context, called>>

PolicyAnswered(r) ==
    /\ at[r] = "policy_engine.evaluate"
    /\ \E result \in AndThen(AndThen(PolicyEval, PolicyMask), AndThen(JitTokenIssue(r), WatchdogPreLlm(r))) :
        /\ Suspend(r, result, "adapter.complete")
        /\ called' = IF result.ok THEN called \cup {r} ELSE called
    /\ UNCHANGED <<options, tokens, session, sessions, charged, context>>

AdapterFailed(r) ==
    /\ at[r] = "adapter.complete"
    /\ \E result \in LlmInvokeFails(r) : Suspend(r, result, "raised")
    /\ UNCHANGED <<options, tokens, session, sessions, charged, context, called>>

AdapterAnswered(r) ==
    /\ at[r] = "adapter.complete"
    /\ \E used \in 0..MaxTokens :
        LET debited == IF options[r].budgeted THEN RecordSpend(session, used, {}) ELSE session
            looped  == options[r].loop_signal # NONE /\ context # NONE
            stepped == IF looped THEN RecordStep(context, TokenDelta(r, used), options[r].loop_signal)
                       ELSE context
            spend   == WatchdogRecordSpend(r, debited)
        IN
        /\ tokens' = [tokens EXCEPT ![r] = used]
        /\ session' = debited
        /\ charged' = [charged EXCEPT ![r] = IF options[r].budgeted THEN sessions ELSE 0]
        /\ context' = IF \E s \in spend : s.ok THEN stepped ELSE context
        /\ \E result \in AndThen(AndThen(LlmInvoke(r), spend),
                                 AndThen(WatchdogLoopDetect(r, stepped), PostSanitize)) :
              Suspend(r, result, "returned")
    /\ UNCHANGED <<options, sessions, called>>

\* Mutant of CreateSession: the new session is not registered.
CreateSessionUnregistered ==
    /\ sessions < MaxSessions
    /\ sessions' = sessions + 1
    /\ UNCHANGED <<options, at, trail, tokens, session, charged, context, called>>

\* create_session: a session of that id, whatever it held, is replaced.
CreateSession ==
    /\ sessions < MaxSessions
    /\ sessions' = sessions + 1
    /\ session' = NewSession(BudgetLimit)
    /\ UNCHANGED <<options, at, trail, tokens, charged, context, called>>

RequestStep(r) == Start(r) \/ PolicyAnswered(r) \/ AdapterFailed(r) \/ AdapterAnswered(r)

Next == CreateSession \/ \E r \in Requests : RequestStep(r)

Spec == Init /\ [][Next]_vars

-----------------------------------------------------------------------------
Refusals(r) == {i \in DOMAIN trail[r] : trail[r][i].outcome # "allow"}
Audited(r, stage) == \E i \in DOMAIN trail[r] : trail[r][i].stage = stage
Completed(r) == \E i \in DOMAIN trail[r] : trail[r][i] = [stage |-> "llm-invoke", outcome |-> "allow"]
Spent(requests) == SumFunctionOnSet(tokens, requests)
Shown(requests) == SumFunctionOnSet([r \in Requests |-> TokenDelta(r, tokens[r])], requests)

\* The ledgers agree with the audit trail, whatever the interleaving: a session has been
\* debited once for every completion of a budgeted request, also of one that raised
\* afterwards, and the loop detector holds the steps it was shown, each with the tokens
\* of its completion or with the loop_token_delta its request gave instead.
LedgersMatchAudit ==
    /\ \A r \in Requests : charged[r] # 0 <=> options[r].budgeted /\ Completed(r)
    /\ \A r \in Requests : charged[r] # 0 <=> Audited(r, "watchdog.record-spend")
    /\ session # NONE => session.cost_usd = Spent({r \in Requests : charged[r] = sessions})
    /\ context # NONE =>
          /\ Len(context.steps) = Cardinality({r \in Requests : Audited(r, "watchdog.loop-detect")})
          /\ context.total_tokens = Shown({r \in Requests : Audited(r, "watchdog.loop-detect")})

\* The check before the call and the debit after it are two steps, so a session may be
\* overdrawn; but what callers were given for it never costs more than its limit.
ReturnedWithinLimit ==
    \A n \in 1..sessions : Spent({r \in Requests : at[r] = "returned" /\ charged[r] = n}) <= BudgetLimit

\* The last event is a refusal.  There is no other, unless it is the denial just before,
\* of the stage's body or of the adapter, to which _span_stage has added an error.
RefusalIsLast(r) ==
    LET n == Len(trail[r]) IN
    /\ n \in Refusals(r)
    /\ Refusals(r) \subseteq {n - 1, n}
    /\ n - 1 \in Refusals(r) => trail[r][n - 1].outcome = "deny" /\ trail[r][n].outcome = "error"

\* Raised without an event: there was no task_id, or the stage that issues tokens found
\* its own token expired.
Unaudited(r) ==
    /\ Refusals(r) = {} /\ r \notin called
    /\ IF options[r].task_id THEN Audited(r, "policy-eval") ELSE trail[r] = <<>>

\* A request that raises says why, and last, in one event or in a denial and an error;
\* the two ways to raise without an event end a request before the model is called.  A
\* request that returns was refused nowhere and passed the stages every request passes.
NoSilentStage ==
    \A r \in Requests :
        /\ at[r] = "raised" => RefusalIsLast(r) \/ Unaudited(r)
        /\ at[r] = "returned" =>
              /\ Refusals(r) = {}
              /\ \A stage \in {"pre-pii-scrub", "policy-eval", "jit-token-issue", "llm-invoke", "post-sanitize"} :
                    Audited(r, stage)

\* docs/agent-sdk-guide.md: after BudgetExceededError "all further LLM calls in the same
\* session will be rejected".
FurtherCallsRejected ==
    [][\A r \in Requests :
          session # NONE /\ Exhausted(session) /\ options[r].budgeted /\ at[r] # "adapter.complete"
              => at'[r] # "adapter.complete"]_vars
=============================================================================
