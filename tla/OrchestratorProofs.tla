------------------------- MODULE OrchestratorProofs -------------------------
(***************************************************************************)
(* Proofs about Orchestrator, for any number of concurrent requests and    *)
(* any budget: no stage fails silently, a session that is used up lets no  *)
(* further request through to the model, the accounts agree with the audit *)
(* trail, and what is returned for a session stays within its limit.       *)
(***************************************************************************)
EXTENDS Orchestrator, SumLemmas

\* The provers, and their seconds, for a leaf that does not name one.
USE ZenonT(3), SMTT(60), ZenonT(60), SMTT(61)

(***************************************************************************)
(* The results of stages.                                                  *)
(***************************************************************************)
Results == [events : Seq(Event), ok : BOOLEAN]

Allowed(events) == \A i \in 1..Len(events) : events[i].outcome = "allow"
Marks(events, stage) == \E i \in 1..Len(events) : events[i].stage = stage

\* The last event is a refusal; of the others only the one before it may be one, a
\* denial that an error follows.
Ended(events) ==
    /\ Len(events) > 0 /\ events[Len(events)].outcome # "allow"
    /\ \A i \in 1..Len(events) :
          \/ i = Len(events) \/ events[i].outcome = "allow"
          \/ i = Len(events) - 1 /\ events[i].outcome = "deny" /\ events[Len(events)].outcome = "error"

\* A stage that passes emits nothing but allow; one that raises emits a refusal last, or
\* raises silently.
Telling(result) ==
    /\ result \in Results
    /\ result.ok => Allowed(result.events)
    /\ ~ result.ok => Ended(result.events) \/ Allowed(result.events)

\* Results that tell, and that mark the stages when they pass.
Tells(results, stages) ==
    \A result \in results :
        Telling(result) /\ (result.ok => \A stage \in stages : Marks(result.events, stage))

\* The stages a request has behind it where it is.
Reached(point) ==
    IF point = "policy_engine.evaluate" THEN {"pre-pii-scrub"}
    ELSE IF point = "adapter.complete" THEN {"pre-pii-scrub", "policy-eval", "jit-token-issue"}
    ELSE IF point = "returned"
           THEN {"pre-pii-scrub", "policy-eval", "jit-token-issue", "llm-invoke", "post-sanitize"}
    ELSE {}

\* None of the results raises silently.
Loud(results) == \A result \in results : ~ result.ok => Ended(result.events)

\* Two runs of events one after the other: allowed if both are, marking what either
\* marks, and ending as the second ends.
LEMMA ConcatTells ==
    ASSUME NEW s \in Seq(Event), NEW t \in Seq(Event)
    PROVE  /\ s \o t \in Seq(Event) /\ Len(s \o t) = Len(s) + Len(t)
           /\ Allowed(s) /\ Allowed(t) => Allowed(s \o t)
           /\ \A stage : Marks(s, stage) \/ Marks(t, stage) => Marks(s \o t, stage)
           /\ Allowed(s) /\ Ended(t) => Ended(s \o t)
PROOF
<1>1. /\ s \o t \in Seq(Event) /\ Len(s \o t) = Len(s) + Len(t)
      /\ Len(s) \in Nat /\ Len(t) \in Nat
  OBVIOUS
<1>2. \A i \in 1..Len(s) + Len(t) :
         (s \o t)[i] = IF i <= Len(s) THEN s[i] ELSE t[i - Len(s)]
  OBVIOUS
<1>3. Allowed(s) /\ Allowed(t) => Allowed(s \o t)
  BY <1>1, <1>2 DEF Allowed
<1>4. ASSUME NEW stage, NEW i \in 1..Len(s), s[i].stage = stage
      PROVE  Marks(s \o t, stage)
  <2>1. i \in 1..Len(s \o t) /\ (s \o t)[i].stage = stage
    BY <1>1, <1>2, <1>4
  <2> QED BY <2>1 DEF Marks
<1>5. ASSUME NEW stage, NEW i \in 1..Len(t), t[i].stage = stage
      PROVE  Marks(s \o t, stage)
  <2>1. Len(s) + i \in 1..Len(s \o t) /\ (s \o t)[Len(s) + i].stage = stage
    BY <1>1, <1>2, <1>5
  <2> QED BY <2>1 DEF Marks
<1>6. \A stage : Marks(s, stage) \/ Marks(t, stage) => Marks(s \o t, stage)
  BY <1>4, <1>5, ZenonT(60) DEF Marks
<1>7. ASSUME Allowed(s), Ended(t) PROVE Ended(s \o t)
  <2>1. Len(t) > 0 /\ (s \o t)[Len(s \o t)] = t[Len(t)] /\ t[Len(t)].outcome # "allow"
    BY <1>1, <1>2, <1>7 DEF Ended
  <2>2. ASSUME NEW i \in 1..Len(s \o t)
        PROVE  \/ i = Len(s \o t) \/ (s \o t)[i].outcome = "allow"
               \/ i = Len(s \o t) - 1 /\ (s \o t)[i].outcome = "deny" /\ t[Len(t)].outcome = "error"
    <3>1. CASE i <= Len(s)
      BY <1>1, <1>2, <1>7, <3>1 DEF Allowed
    <3>2. CASE i > Len(s)
      <4>1. i - Len(s) \in 1..Len(t) /\ (s \o t)[i] = t[i - Len(s)]
        BY <1>1, <1>2, <3>2
      <4>2. \/ i - Len(s) = Len(t) \/ t[i - Len(s)].outcome = "allow"
            \/ /\ i - Len(s) = Len(t) - 1 /\ t[i - Len(s)].outcome = "deny"
               /\ t[Len(t)].outcome = "error"
        BY <1>7, <4>1 DEF Ended
      <4>3. Len(s) \in Nat /\ Len(t) \in Nat /\ i \in Int /\ Len(s \o t) = Len(s) + Len(t)
        BY <1>1
      <4> QED BY <4>1, <4>2, <4>3
    <3> QED BY <1>1, <3>1, <3>2
  <2>3. Len(s \o t) > 0
    BY <1>1, <2>1
  <2> QED BY <2>1, <2>2, <2>3 DEF Ended
<1> QED BY <1>1, <1>3, <1>6, <1>7

\* Stages that tell, one after the other, tell, and mark the stages of both when both pass.
LEMMA AndThenTells ==
    ASSUME NEW first, NEW second, NEW S, NEW T, Tells(first, S), Tells(second, T)
    PROVE  /\ Tells(AndThen(first, second), S \cup T)
           /\ Loud(first) /\ Loud(second) => Loud(AndThen(first, second))
           /\ \A result \in AndThen(first, second) :
                 /\ result.ok => \E b \in second : b.ok
                 /\ Loud(first) /\ ~ result.ok =>
                       Ended(result.events) \/ (Allowed(result.events) /\ \A stage \in S : Marks(result.events, stage))
PROOF
<1> SUFFICES ASSUME NEW result \in AndThen(first, second)
             PROVE  /\ Telling(result)
                    /\ result.ok => \A stage \in S \cup T : Marks(result.events, stage)
                    /\ result.ok => \E b \in second : b.ok
                    /\ Loud(first) /\ Loud(second) /\ ~ result.ok => Ended(result.events)
                    /\ Loud(first) /\ ~ result.ok =>
                          Ended(result.events) \/ (Allowed(result.events) /\ \A stage \in S : Marks(result.events, stage))
  BY ZenonT(60) DEF Tells, Loud
<1>1. CASE result \in first /\ ~ result.ok
  BY <1>1 DEF Tells, Loud
<1>2. ASSUME NEW a \in first, a.ok, NEW b \in second, result = Join(a, b)
      PROVE  /\ Telling(result)
             /\ result.ok => \A stage \in S \cup T : Marks(result.events, stage)
             /\ result.ok => \E c \in second : c.ok
             /\ Loud(second) /\ ~ result.ok => Ended(result.events)
             /\ ~ result.ok =>
                   Ended(result.events) \/ (Allowed(result.events) /\ \A stage \in S : Marks(result.events, stage))
  <2>1. /\ Telling(a) /\ Telling(b)
        /\ \A stage \in S : Marks(a.events, stage)
        /\ b.ok => \A stage \in T : Marks(b.events, stage)
    BY <1>2 DEF Tells
  <2>2. /\ result.events = a.events \o b.events /\ result.ok = b.ok
        /\ a.events \in Seq(Event) /\ b.events \in Seq(Event) /\ b.ok \in BOOLEAN
    BY <1>2, <2>1 DEF Join, Telling, Results
  <2> DEFINE s == a.events
             t == b.events
  <2>3. /\ s \o t \in Seq(Event)
        /\ Allowed(s) /\ Allowed(t) => Allowed(s \o t)
        /\ \A stage : Marks(s, stage) \/ Marks(t, stage) => Marks(s \o t, stage)
        /\ Allowed(s) /\ Ended(t) => Ended(s \o t)
    BY <2>2, ConcatTells, ZenonT(60)
  <2>4. /\ Allowed(s) /\ (b.ok => Allowed(t)) /\ (~ b.ok => Ended(t) \/ Allowed(t))
        /\ Loud(second) /\ ~ b.ok => Ended(t)
    BY <1>2, <2>1, ZenonT(60) DEF Telling, Loud
  <2>5. result \in Results
    BY <1>2, <2>2, <2>3 DEF Join, Results
  <2>6. \A stage \in S : Marks(s \o t, stage)
    BY <2>1, <2>3
  <2>7. b.ok => \A stage \in T : Marks(s \o t, stage)
    BY <2>1, <2>3
  <2>8. result.events = s \o t /\ result.ok = b.ok
    BY <2>2
  <2> HIDE DEF s, t
  <2> QED BY <2>3, <2>4, <2>5, <2>6, <2>7, <2>8, ZenonT(60) DEF Telling
<1>3. \/ result \in first /\ ~ result.ok
      \/ \E a \in first, b \in second : a.ok /\ result = Join(a, b)
  BY DEF AndThen
<1> QED BY <1>1, <1>2, <1>3

\* One audit event, as a sequence.
LEMMA EmitFacts ==
    ASSUME NEW stage \in Stages, NEW outcome \in {"allow", "deny", "error"}
    PROVE  /\ Emit(stage, outcome) \in Seq(Event)
           /\ Len(Emit(stage, outcome)) = 1
           /\ Emit(stage, outcome)[1] = [stage |-> stage, outcome |-> outcome]
           /\ Marks(Emit(stage, outcome), stage)
           /\ outcome = "allow" => Allowed(Emit(stage, outcome))
           /\ outcome # "allow" => Ended(Emit(stage, outcome))
PROOF BY DEF Emit, Event, Marks, Allowed, Ended

\* The events of two runs, one after the other.
LEMMA ConcatIs ==
    ASSUME NEW s \in Seq(Event), NEW t \in Seq(Event)
    PROVE  /\ Len(s \o t) = Len(s) + Len(t)
           /\ \A i \in 1..Len(s) + Len(t) : (s \o t)[i] = IF i <= Len(s) THEN s[i] ELSE t[i - Len(s)]
PROOF
<1>1. Len(s \o t) = Len(s) + Len(t)
  OBVIOUS
<1>2. \A i \in 1..Len(s) + Len(t) : (s \o t)[i] = IF i <= Len(s) THEN s[i] ELSE t[i - Len(s)]
  OBVIOUS
<1> QED BY <1>1, <1>2

\* A denial that an error follows.
LEMMA DenialEnds ==
    ASSUME NEW s \in Seq(Event), NEW t \in Seq(Event), Len(s) = 1, Len(t) = 1,
           s[1].outcome = "deny", t[1].outcome = "error"
    PROVE  Ended(s \o t)
PROOF
<1> DEFINE u == s \o t
<1>1. /\ Len(u) = Len(s) + Len(t)
      /\ \A i \in 1..Len(s) + Len(t) : u[i] = IF i <= Len(s) THEN s[i] ELSE t[i - Len(s)]
  BY ConcatIs, ZenonT(60)
<1> HIDE DEF u
<1>3. Len(u) = 2 /\ u[1] = s[1] /\ u[2] = t[1]
  BY <1>1
<1>4. Ended(u)
  BY <1>3 DEF Ended
<1> QED BY <1>4 DEF u

\* A stage that passes with one allow event tells, and marks its stage.
LEMMA PassedTells ==
    ASSUME NEW stage \in Stages
    PROVE  /\ Tells({Passed(Emit(stage, "allow"))}, {stage})
           /\ Tells({Passed(<<>>)}, {})
           /\ Tells({Passed(Emit(stage, "allow"))}, {})
PROOF
<1> DEFINE e == Emit(stage, "allow")
           none == <<>>
<1>1. none \in Seq(Event) /\ Allowed(none)
  BY DEF Allowed
<1>2. e \in Seq(Event) /\ Allowed(e) /\ Marks(e, stage)
  BY EmitFacts, ZenonT(60)
<1> HIDE DEF e, none
<1>3. Telling(Passed(none)) /\ Telling(Passed(e)) /\ Passed(e).events = e
  BY <1>1, <1>2 DEF Telling, Passed, Results
<1>4. Tells({Passed(none)}, {}) /\ Tells({Passed(e)}, {}) /\ Tells({Passed(e)}, {stage})
  BY <1>2, <1>3 DEF Tells
<1> QED BY <1>4 DEF e, none

\* A stage that raises behind a refusal tells and is not silent; one that raises with
\* nothing but allow behind it tells.
LEMMA RaisedTells ==
    ASSUME NEW events \in Seq(Event), Ended(events) \/ Allowed(events), NEW S
    PROVE  /\ Tells({Raised(events)}, S)
           /\ Ended(events) => Loud({Raised(events)})
PROOF
<1>1. Raised(events).events = events /\ Raised(events).ok = FALSE /\ Raised(events) \in Results
  BY DEF Raised, Results
<1> QED BY <1>1 DEF Telling, Tells, Loud

\* _span_stage around a body that raises tells.  It is silent at most when the exception
\* is in _CONTROLLED_EXC and the body has not audited its refusal.
LEMMA SpanStageTells ==
    ASSUME NEW stage \in Stages, NEW own \in Stages, NEW outcome \in {"allow", "deny", "error"},
           NEW controlled \in BOOLEAN, NEW S
    PROVE  /\ Tells({SpanStage(stage, <<>>, FALSE)}, S) /\ Loud({SpanStage(stage, <<>>, FALSE)})
           /\ Tells({SpanStage(stage, <<>>, TRUE)}, S)
           /\ outcome = "deny" \/ (outcome = "error" /\ controlled) \/ (outcome = "allow" /\ ~ controlled) =>
                 /\ Tells({SpanStage(stage, Emit(own, outcome), controlled)}, S)
                 /\ Loud({SpanStage(stage, Emit(own, outcome), controlled)})
PROOF
<1> DEFINE e == Emit(own, outcome)
           f == Emit(stage, "error")
           none == <<>>
<1>1. /\ e \in Seq(Event) /\ Len(e) = 1 /\ e[1] = [stage |-> own, outcome |-> outcome]
      /\ outcome = "allow" => Allowed(e)
      /\ outcome # "allow" => Ended(e)
  BY EmitFacts, ZenonT(60)
<1>2. f \in Seq(Event) /\ Len(f) = 1 /\ f[1] = [stage |-> stage, outcome |-> "error"] /\ Ended(f)
  BY EmitFacts, ZenonT(60)
<1>3. none \in Seq(Event) /\ Allowed(none)
  BY DEF Allowed
<1> HIDE DEF e, f, none
<1> DEFINE g == none \o f
           h == e \o f
<1>4. g \in Seq(Event) /\ Ended(g)
  BY <1>2, <1>3, ConcatTells, ZenonT(60)
<1>5. h \in Seq(Event) /\ (outcome = "allow" => Ended(h))
  BY <1>1, <1>2, ConcatTells, ZenonT(60)
<1>6. outcome = "deny" => Ended(h)
  BY <1>1, <1>2, DenialEnds
<1>7. /\ SpanStage(stage, none, FALSE) = Raised(g)
      /\ SpanStage(stage, none, TRUE) = Raised(none)
      /\ SpanStage(stage, e, TRUE) = Raised(e)
      /\ SpanStage(stage, e, FALSE) = Raised(h)
  BY DEF SpanStage, f
<1> HIDE DEF g, h
<1>8. Tells({SpanStage(stage, none, FALSE)}, S) /\ Loud({SpanStage(stage, none, FALSE)})
  <2>1. Tells({Raised(g)}, S) /\ Loud({Raised(g)})
    BY <1>4, RaisedTells, ZenonT(60)
  <2> QED BY <1>7, <2>1, ZenonT(60)
<1>9. Tells({SpanStage(stage, none, TRUE)}, S)
  <2>1. Tells({Raised(none)}, S)
    BY <1>3, RaisedTells, ZenonT(60)
  <2> QED BY <1>7, <2>1, ZenonT(60)
<1>10. ASSUME outcome # "allow", controlled
       PROVE  Tells({SpanStage(stage, e, controlled)}, S) /\ Loud({SpanStage(stage, e, controlled)})
  <2>1. Tells({Raised(e)}, S) /\ Loud({Raised(e)})
    BY <1>1, <1>10, RaisedTells, ZenonT(60)
  <2> QED BY <1>7, <1>10, <2>1, ZenonT(60)
<1>11. ASSUME outcome # "error", ~ controlled
       PROVE  Tells({SpanStage(stage, e, controlled)}, S) /\ Loud({SpanStage(stage, e, controlled)})
  <2>1. Tells({Raised(h)}, S) /\ Loud({Raised(h)})
    BY <1>5, <1>6, <1>11, RaisedTells, ZenonT(60)
  <2> QED BY <1>7, <1>11, <2>1, ZenonT(60)
<1>12. /\ Tells({SpanStage(stage, none, FALSE)}, S) /\ Loud({SpanStage(stage, none, FALSE)})
       /\ Tells({SpanStage(stage, none, TRUE)}, S)
       /\ outcome = "deny" \/ (outcome = "error" /\ controlled) \/ (outcome = "allow" /\ ~ controlled) =>
             Tells({SpanStage(stage, e, controlled)}, S) /\ Loud({SpanStage(stage, e, controlled)})
  BY <1>8, <1>9, <1>10, <1>11
<1> QED BY <1>12 DEF e, none

\* The stages that every request passes mark themselves; all of them tell.
LEMMA StagesTell ==
    ASSUME NEW r \in Requests
    PROVE  /\ Tells(PrePiiScrub, {"pre-pii-scrub"}) /\ Loud(PrePiiScrub)
           /\ Tells(PolicyEval, {"policy-eval"}) /\ Loud(PolicyEval)
           /\ Tells(PolicyMask, {}) /\ Loud(PolicyMask)
           /\ Tells(JitTokenIssue(r), {"jit-token-issue"})
           /\ Tells(WatchdogPreLlm(r), {})
           /\ Tells(LlmInvokeFails(r), Reached("returned")) /\ Loud(LlmInvokeFails(r))
           /\ Tells(LlmInvoke(r), {"llm-invoke"}) /\ Loud(LlmInvoke(r))
           /\ \A debited : Tells(WatchdogRecordSpend(r, debited), {}) /\ Loud(WatchdogRecordSpend(r, debited))
           /\ \A stepped : Tells(WatchdogLoopDetect(r, stepped), {}) /\ Loud(WatchdogLoopDetect(r, stepped))
           /\ Tells(PostSanitize, {"post-sanitize"}) /\ Loud(PostSanitize)
PROOF
<1>1. Stages = {"pre-pii-scrub", "policy-eval", "policy-mask", "jit-token-issue", "watchdog.pre-llm",
                "adapter", "llm-invoke", "watchdog.record-spend", "watchdog.loop-detect", "post-sanitize"}
  BY DEF Stages
<1>2. \A events : Loud({Passed(events)})
  BY DEF Loud, Passed
<1>4. Tells(PrePiiScrub, {"pre-pii-scrub"}) /\ Loud(PrePiiScrub)
  <2> DEFINE a == Passed(Emit("pre-pii-scrub", "allow"))
             b == SpanStage("pre-pii-scrub", <<>>, FALSE)
  <2>1. Tells({a}, {"pre-pii-scrub"}) /\ Loud({a})
    BY <1>1, <1>2, PassedTells, ZenonT(60)
  <2>2. Tells({b}, {"pre-pii-scrub"}) /\ Loud({b})
    BY <1>1, SpanStageTells, ZenonT(60)
  <2>3. PrePiiScrub = {a, b}
    BY ZenonT(60) DEF PrePiiScrub
  <2> HIDE DEF a, b
  <2> QED BY <2>1, <2>2, <2>3 DEF Tells, Loud
<1>5. Tells(PostSanitize, {"post-sanitize"}) /\ Loud(PostSanitize)
  <2> DEFINE a == Passed(Emit("post-sanitize", "allow"))
             b == SpanStage("post-sanitize", <<>>, FALSE)
  <2>1. Tells({a}, {"post-sanitize"}) /\ Loud({a})
    BY <1>1, <1>2, PassedTells, ZenonT(60)
  <2>2. Tells({b}, {"post-sanitize"}) /\ Loud({b})
    BY <1>1, SpanStageTells, ZenonT(60)
  <2>3. PostSanitize = {a, b}
    BY ZenonT(60) DEF PostSanitize
  <2> HIDE DEF a, b
  <2> QED BY <2>1, <2>2, <2>3 DEF Tells, Loud
<1>6. Tells(PolicyEval, {"policy-eval"}) /\ Loud(PolicyEval)
  <2> DEFINE a == Passed(Emit("policy-eval", "allow"))
             b == SpanStage("policy-eval", Emit("policy-eval", "deny"), TRUE)
             c == SpanStage("policy-eval", Emit("policy-eval", "error"), TRUE)
             d == SpanStage("policy-eval", <<>>, FALSE)
  <2>1. Tells({a}, {"policy-eval"}) /\ Loud({a})
    BY <1>1, <1>2, PassedTells, ZenonT(60)
  <2>2. Tells({b}, {"policy-eval"}) /\ Loud({b}) /\ Tells({c}, {"policy-eval"}) /\ Loud({c})
    BY <1>1, SpanStageTells, ZenonT(60)
  <2>3. Tells({d}, {"policy-eval"}) /\ Loud({d})
    BY <1>1, SpanStageTells, ZenonT(60)
  <2>4. PolicyEval = {a, b, c, d}
    BY ZenonT(60) DEF PolicyEval
  <2> HIDE DEF a, b, c, d
  <2> QED BY <2>1, <2>2, <2>3, <2>4 DEF Tells, Loud
<1>7. Tells(PolicyMask, {}) /\ Loud(PolicyMask)
  <2> DEFINE a == Passed(<<>>)
             b == Passed(Emit("policy-eval", "allow"))
             c == SpanStage("policy-mask", <<>>, FALSE)
  <2>1. Tells({a}, {}) /\ Loud({a}) /\ Tells({b}, {}) /\ Loud({b})
    BY <1>1, <1>2, PassedTells, ZenonT(60)
  <2>2. Tells({c}, {}) /\ Loud({c})
    BY <1>1, SpanStageTells, ZenonT(60)
  <2>3. PolicyMask = {a, b, c}
    BY ZenonT(60) DEF PolicyMask
  <2> HIDE DEF a, b, c
  <2> QED BY <2>1, <2>2, <2>3 DEF Tells, Loud
<1>8. Tells(JitTokenIssue(r), {"jit-token-issue"})
  <2> DEFINE a == Passed(Emit("jit-token-issue", "allow"))
             b == SpanStage("jit-token-issue", Emit("jit-token-issue", "deny"), TRUE)
             c == SpanStage("jit-token-issue", Emit("jit-token-issue", "deny"), FALSE)
             d == SpanStage("jit-token-issue", <<>>, FALSE)
             e == SpanStage("jit-token-issue", <<>>, TRUE)
             none == Passed(<<>>)
  <2>1. Tells({a}, {"jit-token-issue"}) /\ Tells({a}, {}) /\ Tells({none}, {})
    BY <1>1, PassedTells, ZenonT(60)
  <2>2. Tells({b}, {"jit-token-issue"}) /\ Tells({c}, {"jit-token-issue"})
    BY <1>1, SpanStageTells, ZenonT(60)
  <2>3. Tells({d}, {"jit-token-issue"}) /\ Tells({e}, {"jit-token-issue"}) /\ Tells({d}, {}) /\ Tells({e}, {})
    BY <1>1, SpanStageTells, ZenonT(60)
  <2>4. SessionToken = {a, b, c, d, e} /\ AdapterToken(r) = IF options[r].protected THEN {a, d, e} ELSE {none}
    BY ZenonT(60) DEF SessionToken, AdapterToken
  <2> HIDE DEF a, b, c, d, e, none
  <2>5. Tells(SessionToken, {"jit-token-issue"}) /\ Tells(AdapterToken(r), {})
    BY <2>1, <2>2, <2>3, <2>4 DEF Tells
  <2>6. Tells(AndThen(SessionToken, AdapterToken(r)), {"jit-token-issue"} \cup {})
    BY <2>5, AndThenTells, ZenonT(60)
  <2>7. {"jit-token-issue"} \cup {} = {"jit-token-issue"}
    OBVIOUS
  <2> QED BY <2>6, <2>7 DEF JitTokenIssue
<1>9. Tells(WatchdogPreLlm(r), {})
  BY <1>1, PassedTells, SpanStageTells, ZenonT(60) DEF WatchdogPreLlm
<1>10. Tells(LlmInvokeFails(r), Reached("returned")) /\ Loud(LlmInvokeFails(r))
  <2> DEFINE a == SpanStage("llm-invoke", <<>>, FALSE)
             b == SpanStage("llm-invoke", Emit("adapter", "allow"), FALSE)
             c == SpanStage("llm-invoke", Emit("adapter", "deny"), FALSE)
             S == Reached("returned")
  <2> HIDE DEF S
  <2>1. /\ Tells({a}, S) /\ Loud({a}) /\ Tells({b}, S) /\ Loud({b}) /\ Tells({c}, S) /\ Loud({c})
    BY <1>1, SpanStageTells, ZenonT(60)
  <2>2. LlmInvokeFails(r) = {a} \cup IF options[r].protected THEN {b, c} ELSE {}
    BY ZenonT(60) DEF LlmInvokeFails
  <2> HIDE DEF a, b, c
  <2>3. Tells(LlmInvokeFails(r), S) /\ Loud(LlmInvokeFails(r))
    BY <2>1, <2>2 DEF Tells, Loud
  <2> QED BY <2>3 DEF S
<1>11. Tells(LlmInvoke(r), {"llm-invoke"}) /\ Loud(LlmInvoke(r))
  <2> DEFINE s == IF options[r].protected THEN Emit("adapter", "allow") ELSE <<>>
             t == Emit("llm-invoke", "allow")
  <2>1. s \in Seq(Event) /\ Allowed(s)
    <3>1. <<>> \in Seq(Event) /\ Allowed(<<>>)
      BY DEF Allowed
    <3> QED BY <1>1, <3>1, EmitFacts, ZenonT(60)
  <2>2. t \in Seq(Event) /\ Allowed(t) /\ Marks(t, "llm-invoke")
    BY <1>1, EmitFacts, ZenonT(60)
  <2>3. LlmInvoke(r) = {Passed(s \o t)}
    BY DEF LlmInvoke
  <2> HIDE DEF s, t
  <2>4. s \o t \in Seq(Event) /\ Allowed(s \o t) /\ Marks(s \o t, "llm-invoke")
    BY <2>1, <2>2, ConcatTells, ZenonT(60)
  <2> DEFINE u == s \o t
  <2> HIDE DEF u
  <2>5. u \in Seq(Event) /\ Allowed(u) /\ Marks(u, "llm-invoke") /\ LlmInvoke(r) = {Passed(u)}
    BY <2>3, <2>4 DEF u
  <2>6. Telling(Passed(u)) /\ Passed(u).events = u
    BY <2>5 DEF Telling, Passed, Results
  <2> QED BY <1>2, <2>5, <2>6, ZenonT(60) DEF Tells
<1>12. ASSUME NEW debited
       PROVE  Tells(WatchdogRecordSpend(r, debited), {}) /\ Loud(WatchdogRecordSpend(r, debited))
  BY <1>1, <1>2, PassedTells, SpanStageTells, ZenonT(60) DEF WatchdogRecordSpend
<1>13. ASSUME NEW stepped
       PROVE  Tells(WatchdogLoopDetect(r, stepped), {}) /\ Loud(WatchdogLoopDetect(r, stepped))
  BY <1>1, <1>2, PassedTells, SpanStageTells, ZenonT(60) DEF WatchdogLoopDetect
<1> QED BY <1>4, <1>5, <1>6, <1>7, <1>8, <1>9, <1>10, <1>11, <1>12, <1>13

-----------------------------------------------------------------------------
(***************************************************************************)
(* The inductive invariant: the trail of a request that has not raised is  *)
(* all allowed and has the stages behind it, that of one that has raised   *)
(* ends in a refusal or is that of a request that raised silently before   *)
(* its adapter was called; and a budgeted request in the adapter has a     *)
(* session.                                                                *)
(***************************************************************************)
\* Raised without an event.
Silent(r) ==
    /\ Allowed(trail[r]) /\ r \notin called
    /\ IF options[r].task_id THEN Marks(trail[r], "policy-eval") ELSE trail[r] = <<>>

TrailInv(r) ==
    /\ at[r] # "raised" => Allowed(trail[r])
    /\ at[r] = "raised" => Ended(trail[r]) \/ Silent(r)
    /\ \A stage \in Reached(at[r]) : Marks(trail[r], stage)
    /\ at[r] = "created" => trail[r] = <<>> /\ r \notin called
    /\ at[r] = "policy_engine.evaluate" => options[r].task_id /\ r \notin called

SessionInv(r) == at[r] = "adapter.complete" /\ options[r].budgeted => session # NONE

IInv == TypeOK /\ \A r \in Requests : TrailInv(r) /\ SessionInv(r)

\* A request that goes on with results that tell keeps its trail truthful, and no
\* other request's trail moves.
LEMMA SuspendKeeps ==
    ASSUME TypeOK, \A q \in Requests : TrailInv(q), NEW r \in Requests, at[r] # "raised",
           NEW result, NEW S, NEW results, result \in results, Tells(results, S),
           NEW point \in {"policy_engine.evaluate", "adapter.complete", "returned"},
           Reached(point) \subseteq Reached(at[r]) \cup S,
           point = "policy_engine.evaluate" /\ result.ok => options[r].task_id /\ r \notin called',
           \A q \in Requests : q # r => (q \in called' <=> q \in called),
           options' = options,
           \/ ~ result.ok => Ended(result.events)
           \/ /\ Allowed(result.events) /\ Marks(result.events, "policy-eval")
              /\ options[r].task_id /\ (~ result.ok => r \notin called'),
           Suspend(r, result, point)
    PROVE  /\ at' \in [Requests -> {"created", "policy_engine.evaluate", "adapter.complete", "returned", "raised"}]
           /\ trail' \in [Requests -> Seq(Event)]
           /\ at' = [at EXCEPT ![r] = IF result.ok THEN point ELSE "raised"]
           /\ \A q \in Requests : TrailInv(q)'
PROOF
<1> DEFINE s == trail[r]
           t == result.events
<1>1. /\ Telling(result) /\ (result.ok => \A stage \in S : Marks(t, stage))
      /\ t \in Seq(Event) /\ s \in Seq(Event)
  BY DEF Tells, Telling, Results, TypeOK
<1>2. /\ trail' = [trail EXCEPT ![r] = s \o t]
      /\ at' = [at EXCEPT ![r] = IF result.ok THEN point ELSE "raised"]
  BY DEF Suspend
<1>3. /\ s \o t \in Seq(Event)
      /\ Allowed(s) /\ Allowed(t) => Allowed(s \o t)
      /\ \A stage : Marks(s, stage) \/ Marks(t, stage) => Marks(s \o t, stage)
      /\ Allowed(s) /\ Ended(t) => Ended(s \o t)
  BY <1>1, ConcatTells, ZenonT(60)
<1>4. /\ result.ok => Allowed(t)
      /\ \/ ~ result.ok => Ended(t)
         \/ /\ Allowed(t) /\ Marks(t, "policy-eval")
            /\ options[r].task_id /\ (~ result.ok => r \notin called')
  BY <1>1 DEF Telling
<1>5. Allowed(s) /\ \A stage \in Reached(at[r]) : Marks(s, stage)
  BY DEF TrailInv
<1> HIDE DEF s, t
<1>6. /\ at' \in [Requests -> {"created", "policy_engine.evaluate", "adapter.complete", "returned", "raised"}]
      /\ trail' \in [Requests -> Seq(Event)]
  BY <1>2, <1>3 DEF TypeOK
<1>7. trail'[r] = s \o t /\ at'[r] = IF result.ok THEN point ELSE "raised"
  BY <1>2 DEF TypeOK
<1>8. TrailInv(r)'
  <2>1. CASE result.ok
    <3>1. at'[r] = point /\ Allowed(s \o t) /\ \A stage \in Reached(point) : Marks(s \o t, stage)
      BY <1>1, <1>3, <1>4, <1>5, <1>7, <2>1
    <3> QED BY <1>7, <2>1, <3>1 DEF TrailInv
  <2>2. CASE ~ result.ok
    <3>1. at'[r] = "raised" /\ (Ended(s \o t) \/ Silent(r)')
      BY <1>3, <1>4, <1>5, <1>7, <2>2 DEF Silent
    <3> QED BY <1>7, <3>1 DEF TrailInv, Reached
  <2> QED BY <2>1, <2>2
<1>9. ASSUME NEW q \in Requests, q # r PROVE TrailInv(q)'
  <2>1. trail'[q] = trail[q] /\ at'[q] = at[q]
    BY <1>2, <1>9 DEF TypeOK
  <2>2. (q \in called' <=> q \in called) /\ TrailInv(q)
    BY <1>9
  <2> QED BY <2>1, <2>2 DEF TrailInv, Silent
<1> QED BY <1>2, <1>6, <1>8, <1>9

\* record_step() maps contexts to contexts, one step longer.
LEMMA RecordStepType ==
    ASSUME NEW ctx \in Contexts, NEW token_delta \in Nat, NEW signal \in LoopSignal
    PROVE  /\ RecordStep(ctx, token_delta, signal) \in Contexts
           /\ Len(RecordStep(ctx, token_delta, signal).steps) = Len(ctx.steps) + 1
PROOF
<1> DEFINE steps == Append(ctx.steps, [token_delta |-> token_delta, signal |-> signal])
<1>1. steps \in Seq(Steps) /\ Len(steps) = Len(ctx.steps) + 1
  BY DEF Contexts, Steps
<1>2. RecordStep(ctx, token_delta, signal).steps = steps
  BY DEF RecordStep
<1> QED BY <1>1, <1>2 DEF RecordStep, Contexts

\* What record_step is given is a number of tokens.
LEMMA TokenDeltaType ==
    ASSUME TypeOK, NEW r \in Requests, NEW used \in Nat
    PROVE  TokenDelta(r, used) \in Nat
PROOF BY DeltaAssumption DEF TypeOK, Options, TokenDelta

\* record_spend() maps sessions to sessions.
LEMMA RecordSpendType ==
    ASSUME NEW old \in BudgetSession({}), NEW amount \in Nat
    PROVE  RecordSpend(old, amount, {}) \in BudgetSession({})
PROOF BY DEF RecordSpend, BudgetSession

\* run() up to the first await keeps the invariant.
LEMMA StartKeeps ==
    ASSUME IInv, NEW r \in Requests, Start(r)
    PROVE  IInv'
PROOF
<1>1. at[r] = "created" /\ UNCHANGED <<options, tokens, session, sessions, charged, context, called>>
  BY DEF Start
<1>2. ASSUME options[r].task_id
      PROVE  /\ at' \in [Requests -> {"created", "policy_engine.evaluate", "adapter.complete", "returned", "raised"}]
             /\ trail' \in [Requests -> Seq(Event)]
             /\ \E point \in {"policy_engine.evaluate", "raised"} : at' = [at EXCEPT ![r] = point]
             /\ \A q \in Requests : TrailInv(q)'
  <2>1. PICK result \in PrePiiScrub : Suspend(r, result, "policy_engine.evaluate")
    BY <1>2 DEF Start
  <2>2. Tells(PrePiiScrub, {"pre-pii-scrub"}) /\ (~ result.ok => Ended(result.events))
    BY StagesTell, ZenonT(60) DEF Loud
  <2>3. Reached("policy_engine.evaluate") \subseteq Reached(at[r]) \cup {"pre-pii-scrub"}
    BY DEF Reached
  <2>4. r \notin called
    BY <1>1 DEF IInv, TrailInv
  <2>5. /\ at' \in [Requests -> {"created", "policy_engine.evaluate", "adapter.complete", "returned", "raised"}]
        /\ trail' \in [Requests -> Seq(Event)]
        /\ at' = [at EXCEPT ![r] = IF result.ok THEN "policy_engine.evaluate" ELSE "raised"]
        /\ \A q \in Requests : TrailInv(q)'
    BY <1>1, <1>2, <2>1, <2>2, <2>3, <2>4, SuspendKeeps DEF IInv
  <2> QED BY <2>5
<1>3. ASSUME ~ options[r].task_id
      PROVE  /\ at' \in [Requests -> {"created", "policy_engine.evaluate", "adapter.complete", "returned", "raised"}]
             /\ trail' \in [Requests -> Seq(Event)]
             /\ \E point \in {"policy_engine.evaluate", "raised"} : at' = [at EXCEPT ![r] = point]
             /\ \A q \in Requests : TrailInv(q)'
  <2>1. /\ trail' = [trail EXCEPT ![r] = @ \o <<>>]
        /\ at' = [at EXCEPT ![r] = "raised"]
    BY <1>3, ZenonT(60) DEF Start, Suspend, Raised
  <2>2. trail[r] = <<>> /\ r \notin called
    BY <1>1 DEF IInv, TrailInv
  <2>3. trail' = trail
    BY <2>1, <2>2 DEF IInv, TypeOK
  <2>4. at'[r] = "raised" /\ \A q \in Requests : q # r => at'[q] = at[q]
    BY <2>1 DEF IInv, TypeOK
  <2>5. TrailInv(r)'
    BY <1>1, <1>3, <2>2, <2>3, <2>4 DEF TrailInv, Silent, Allowed, Reached
  <2>6. ASSUME NEW q \in Requests, q # r PROVE TrailInv(q)'
    BY <1>1, <2>3, <2>4, <2>6 DEF IInv, TrailInv, Silent
  <2> QED BY <2>1, <2>3, <2>5, <2>6 DEF IInv, TypeOK
<1>4. TypeOK'
  BY <1>1, <1>2, <1>3 DEF IInv, TypeOK
<1>5. ASSUME NEW q \in Requests PROVE SessionInv(q)'
  BY <1>1, <1>2, <1>3 DEF IInv, TypeOK, SessionInv
<1> QED BY <1>2, <1>3, <1>4, <1>5 DEF IInv

\* A request gets through to the adapter only past check_budget.
LEMMA PolicyAnsweredPasses ==
    ASSUME IInv, NEW r \in Requests, PolicyAnswered(r)
    PROVE  /\ IInv'
           /\ at'[r] = "adapter.complete" /\ options[r].budgeted => session # NONE /\ ~ Exhausted(session)
           /\ \A q \in Requests : q # r => at'[q] = at[q]
PROOF
<1> DEFINE policy == AndThen(PolicyEval, PolicyMask)
           token == AndThen(JitTokenIssue(r), WatchdogPreLlm(r))
           results == AndThen(policy, token)
<1>1. PICK result \in results : /\ Suspend(r, result, "adapter.complete")
                                /\ called' = IF result.ok THEN called \cup {r} ELSE called
  BY DEF PolicyAnswered
<1>2. /\ Tells(results, {"policy-eval", "jit-token-issue"})
      /\ result.ok => \E b \in WatchdogPreLlm(r) : b.ok
      /\ ~ result.ok => Ended(result.events) \/ (Allowed(result.events) /\ Marks(result.events, "policy-eval"))
  <2>1. Tells(policy, {"policy-eval"} \cup {}) /\ Loud(policy)
    BY StagesTell, AndThenTells, ZenonT(60)
  <2>2. /\ Tells(token, {"jit-token-issue"} \cup {})
        /\ \A c \in token : c.ok => \E b \in WatchdogPreLlm(r) : b.ok
    BY StagesTell, AndThenTells, ZenonT(60)
  <2> HIDE DEF policy, token
  <2>3. /\ Tells(results, ({"policy-eval"} \cup {}) \cup ({"jit-token-issue"} \cup {}))
        /\ result.ok => \E c \in token : c.ok
        /\ ~ result.ok => Ended(result.events)
              \/ (Allowed(result.events) /\ \A stage \in {"policy-eval"} \cup {} : Marks(result.events, stage))
    BY <2>1, <2>2, AndThenTells, ZenonT(60)
  <2>4. ({"policy-eval"} \cup {}) \cup ({"jit-token-issue"} \cup {}) = {"policy-eval", "jit-token-issue"}
    OBVIOUS
  <2> HIDE DEF results
  <2> QED BY <2>2, <2>3, <2>4
<1> HIDE DEF results
<1>3. at[r] = "policy_engine.evaluate" /\ UNCHANGED <<options, tokens, session, sessions, charged, context>>
  BY DEF PolicyAnswered
<1>4. /\ at' \in [Requests -> {"created", "policy_engine.evaluate", "adapter.complete", "returned", "raised"}]
      /\ trail' \in [Requests -> Seq(Event)]
      /\ at' = [at EXCEPT ![r] = IF result.ok THEN "adapter.complete" ELSE "raised"]
      /\ \A q \in Requests : TrailInv(q)'
  <2>1. Reached("adapter.complete") \subseteq Reached(at[r]) \cup {"policy-eval", "jit-token-issue"}
    BY <1>3 DEF Reached
  <2>2. options[r].task_id /\ r \notin called /\ at[r] # "raised"
    BY <1>3 DEF IInv, TrailInv
  <2>3. /\ \A q \in Requests : q # r => (q \in called' <=> q \in called)
        /\ ~ result.ok => r \notin called'
    BY <1>1, <2>2
  <2>4. \/ ~ result.ok => Ended(result.events)
        \/ /\ Allowed(result.events) /\ Marks(result.events, "policy-eval")
           /\ options[r].task_id /\ (~ result.ok => r \notin called')
    BY <1>2, <2>2, <2>3
  <2>5. options' = options
    BY <1>3
  <2> QED BY <1>1, <1>2, <2>1, <2>2, <2>3, <2>4, <2>5, SuspendKeeps DEF IInv
<1>5. result.ok /\ options[r].budgeted => session # NONE /\ ~ Exhausted(session)
  <2>1. \A stage, events, controlled : ~ SpanStage(stage, events, controlled).ok
    BY DEF SpanStage, Raised
  <2> QED BY <1>2, <2>1, ZenonT(60) DEF WatchdogPreLlm
<1>6. TypeOK'
  BY <1>1, <1>3, <1>4 DEF IInv, TypeOK
<1>7. \A q \in Requests : at'[q] = IF q = r THEN IF result.ok THEN "adapter.complete" ELSE "raised" ELSE at[q]
  BY <1>4 DEF IInv, TypeOK
<1>8. ASSUME NEW q \in Requests PROVE SessionInv(q)'
  BY <1>3, <1>5, <1>7 DEF IInv, SessionInv
<1> QED BY <1>4, <1>5, <1>6, <1>7, <1>8 DEF IInv

\* An adapter that raises is audited by _span_stage.
LEMMA AdapterFailedKeeps ==
    ASSUME IInv, NEW r \in Requests, AdapterFailed(r)
    PROVE  IInv'
PROOF
<1>1. /\ at[r] = "adapter.complete"
      /\ UNCHANGED <<options, tokens, session, sessions, charged, context, called>>
  BY DEF AdapterFailed
<1>0. PICK result \in LlmInvokeFails(r) : Suspend(r, result, "raised")
  BY DEF AdapterFailed
<1>2. Tells(LlmInvokeFails(r), Reached("returned")) /\ (~ result.ok => Ended(result.events))
  BY StagesTell, ZenonT(60) DEF Loud
<1>7. ~ result.ok
  <2>1. \A stage, events, controlled : ~ SpanStage(stage, events, controlled).ok
    BY DEF SpanStage, Raised
  <2> QED BY <2>1 DEF LlmInvokeFails
<1>3. Suspend(r, result, "returned")
  BY <1>0, <1>7 DEF Suspend
<1>4. /\ at' \in [Requests -> {"created", "policy_engine.evaluate", "adapter.complete", "returned", "raised"}]
      /\ trail' \in [Requests -> Seq(Event)]
      /\ at' = [at EXCEPT ![r] = IF result.ok THEN "returned" ELSE "raised"]
      /\ \A q \in Requests : TrailInv(q)'
  BY <1>1, <1>2, <1>3, SuspendKeeps DEF IInv
<1>5. TypeOK'
  BY <1>1, <1>4 DEF IInv, TypeOK
<1>6. ASSUME NEW q \in Requests PROVE SessionInv(q)'
  BY <1>1, <1>4, <1>7 DEF IInv, TypeOK, SessionInv
<1> QED BY <1>4, <1>5, <1>6 DEF IInv

\* run() from the answer of the adapter to its end keeps the invariant: the session the
\* request was checked against may have been replaced, but never removed.
LEMMA AdapterAnsweredKeeps ==
    ASSUME IInv, NEW r \in Requests, AdapterAnswered(r)
    PROVE  IInv'
PROOF
<1>1. PICK used \in 0..MaxTokens :
        LET debited == IF options[r].budgeted THEN RecordSpend(session, used, {}) ELSE session
            looped  == options[r].loop_signal # NONE /\ context # NONE
            stepped == IF looped THEN RecordStep(context, TokenDelta(r, used), options[r].loop_signal) ELSE context
            spend   == WatchdogRecordSpend(r, debited)
        IN
        /\ tokens' = [tokens EXCEPT ![r] = used]
        /\ session' = debited
        /\ charged' = [charged EXCEPT ![r] = IF options[r].budgeted THEN sessions ELSE 0]
        /\ context' = IF \E s \in spend : s.ok THEN stepped ELSE context
        /\ \E result \in AndThen(AndThen(LlmInvoke(r), spend),
                                 AndThen(WatchdogLoopDetect(r, stepped), PostSanitize)) :
              Suspend(r, result, "returned")
  BY ZenonT(60) DEF AdapterAnswered
<1> DEFINE debited == IF options[r].budgeted THEN RecordSpend(session, used, {}) ELSE session
           looped == options[r].loop_signal # NONE /\ context # NONE
           stepped == IF looped THEN RecordStep(context, TokenDelta(r, used), options[r].loop_signal) ELSE context
           results == AndThen(AndThen(LlmInvoke(r), WatchdogRecordSpend(r, debited)),
                              AndThen(WatchdogLoopDetect(r, stepped), PostSanitize))
<1>2. PICK result \in results : Suspend(r, result, "returned")
  BY <1>1
<1>3. /\ tokens' = [tokens EXCEPT ![r] = used]
      /\ session' = debited
      /\ charged' = [charged EXCEPT ![r] = IF options[r].budgeted THEN sessions ELSE 0]
      /\ context' \in {stepped, context}
      /\ at[r] = "adapter.complete" /\ UNCHANGED <<options, sessions, called>>
  BY <1>1, ZenonT(60) DEF AdapterAnswered
<1>4. Tells(results, {"llm-invoke", "post-sanitize"}) /\ (~ result.ok => Ended(result.events))
  <2> DEFINE first == AndThen(LlmInvoke(r), WatchdogRecordSpend(r, debited))
             second == AndThen(WatchdogLoopDetect(r, stepped), PostSanitize)
  <2> HIDE DEF debited, stepped
  <2>1. Tells(first, {"llm-invoke"} \cup {}) /\ Loud(first)
    BY StagesTell, AndThenTells, ZenonT(60)
  <2>2. Tells(second, {} \cup {"post-sanitize"}) /\ Loud(second)
    BY StagesTell, AndThenTells, ZenonT(60)
  <2> HIDE DEF first, second
  <2>3. /\ Tells(AndThen(first, second), ({"llm-invoke"} \cup {}) \cup ({} \cup {"post-sanitize"}))
        /\ Loud(AndThen(first, second))
    BY <2>1, <2>2, AndThenTells, ZenonT(60)
  <2>4. ({"llm-invoke"} \cup {}) \cup ({} \cup {"post-sanitize"}) = {"llm-invoke", "post-sanitize"}
    OBVIOUS
  <2>5. results = AndThen(first, second)
    BY DEF first, second
  <2> HIDE DEF results
  <2> QED BY <2>3, <2>4, <2>5 DEF Loud
<1>5. /\ used \in Nat
      /\ options[r].budgeted => session \in BudgetSession({})
      /\ session # NONE <=> debited # NONE
      /\ debited \in BudgetSession({}) \cup {NONE}
  <2>1. used \in Nat /\ (options[r].budgeted => session \in BudgetSession({}))
    BY <1>3, BudgetAssumption DEF IInv, TypeOK, SessionInv
  <2>2. options[r].budgeted => debited \in BudgetSession({})
    BY <2>1, RecordSpendType
  <2> QED BY <2>1, <2>2, BudgetAssumption DEF IInv, TypeOK
<1>6. stepped \in Contexts \cup {NONE}
  BY <1>5, TokenDeltaType, RecordStepType DEF IInv, TypeOK, Options
<1> HIDE DEF results, debited, stepped
<1>7. /\ at' \in [Requests -> {"created", "policy_engine.evaluate", "adapter.complete", "returned", "raised"}]
      /\ trail' \in [Requests -> Seq(Event)]
      /\ at' = [at EXCEPT ![r] = IF result.ok THEN "returned" ELSE "raised"]
      /\ \A q \in Requests : TrailInv(q)'
  <2>1. Reached("returned") \subseteq Reached(at[r]) \cup {"llm-invoke", "post-sanitize"}
    BY <1>3 DEF Reached
  <2>2. /\ \A q \in Requests : q # r => (q \in called' <=> q \in called)
        /\ options' = options
    BY <1>3
  <2> QED BY <1>2, <1>3, <1>4, <2>1, <2>2, SuspendKeeps DEF IInv
<1>8. TypeOK'
  <2>1. charged' \in [Requests -> 0..sessions]
    BY <1>3 DEF IInv, TypeOK
  <2>2. tokens' \in [Requests -> 0..MaxTokens]
    BY <1>3 DEF IInv, TypeOK
  <2> QED BY <1>3, <1>5, <1>6, <1>7, <2>1, <2>2 DEF IInv, TypeOK
<1>9. ASSUME NEW q \in Requests PROVE SessionInv(q)'
  BY <1>3, <1>5, <1>7 DEF IInv, TypeOK, SessionInv
<1> QED BY <1>7, <1>8, <1>9 DEF IInv

\* A session that is created, or replaced, keeps the invariant.
LEMMA CreateSessionKeeps ==
    ASSUME IInv, CreateSession
    PROVE  IInv'
PROOF
<1>1. NewSession(BudgetLimit) \in BudgetSession({}) /\ NewSession(BudgetLimit) # NONE
  BY BudgetAssumption DEF NewSession, BudgetSession
<1>2. TypeOK'
  BY <1>1, BudgetAssumption DEF CreateSession, IInv, TypeOK
<1>3. ASSUME NEW r \in Requests PROVE TrailInv(r)' /\ SessionInv(r)'
  BY <1>1 DEF CreateSession, IInv, TrailInv, Silent, SessionInv
<1> QED BY <1>2, <1>3 DEF IInv

-----------------------------------------------------------------------------
(***************************************************************************)
(* The theorems.                                                           *)
(***************************************************************************)
\* The invariant holds at the start.
LEMMA Initially ==
    Init => IInv
PROOF
<1>1. Init => TypeOK
  <2>1. NewContext \in Contexts
    BY DEF NewContext, Contexts
  <2>2. Init => trail \in [Requests -> Seq(Event)]
    BY DEF Init
  <2> QED BY <2>1, <2>2, BudgetAssumption DEF Init, TypeOK
<1>2. ASSUME Init, NEW r \in Requests PROVE TrailInv(r) /\ SessionInv(r)
  BY <1>2 DEF Init, TrailInv, SessionInv, Reached, Allowed
<1> QED BY <1>1, <1>2 DEF IInv

\* The invariant is inductive.
LEMMA Step ==
    IInv /\ [Next]_vars => IInv'
PROOF
<1> SUFFICES ASSUME IInv, [Next]_vars PROVE IInv'
  OBVIOUS
<1>1. CASE CreateSession
  BY <1>1, CreateSessionKeeps
<1>2. ASSUME NEW r \in Requests, RequestStep(r) PROVE IInv'
  BY <1>2, StartKeeps, PolicyAnsweredPasses, AdapterFailedKeeps, AdapterAnsweredKeeps DEF RequestStep
<1>3. CASE UNCHANGED vars
  BY <1>3 DEF vars, IInv, TypeOK, TrailInv, Silent, SessionInv
<1> QED BY <1>1, <1>2, <1>3 DEF Next

\* The inductive invariant holds throughout.
LEMMA Invariance ==
    Spec => []IInv
PROOF
<1> QED BY Initially, Step, PTL DEF Spec

\* Every variable of the orchestrator keeps its type, for any number of requests: no
\* step of run() loses the session or the loop-detection context it found.
THEOREM TypeCorrectness == Spec => []TypeOK
PROOF
<1>1. IInv => TypeOK
  BY DEF IInv
<1> QED BY <1>1, Invariance, PTL

\* A request that raised has a refusal as its last audit event, and no other unless it
\* is the denial just before; or it had no task_id, or got no further than the stage that
\* issues tokens, and the model was not called.  One that returned was refused nowhere
\* and has all stages every request passes.
THEOREM NoStageIsSilent == Spec => []NoSilentStage
PROOF
<1>1. ASSUME IInv, NEW r \in Requests
      PROVE  /\ at[r] = "raised" => RefusalIsLast(r) \/ Unaudited(r)
             /\ at[r] = "returned" =>
                  /\ Refusals(r) = {}
                  /\ \A stage \in {"pre-pii-scrub", "policy-eval", "jit-token-issue", "llm-invoke", "post-sanitize"} :
                        Audited(r, stage)
  <2>1. trail[r] \in Seq(Event) /\ DOMAIN trail[r] = 1..Len(trail[r]) /\ Len(trail[r]) \in Nat
    BY <1>1 DEF IInv, TypeOK
  <2>2. TrailInv(r)
    BY <1>1 DEF IInv
  <2>3. Ended(trail[r]) => RefusalIsLast(r)
    BY <2>1 DEF Ended, RefusalIsLast, Refusals
  <2>4. Allowed(trail[r]) => Refusals(r) = {}
    BY <2>1 DEF Allowed, Refusals
  <2>5. ASSUME NEW stage PROVE Marks(trail[r], stage) => Audited(r, stage)
    BY <2>1 DEF Marks, Audited
  <2>6. at[r] = "returned" => \A stage \in Reached("returned") : Marks(trail[r], stage)
    BY <2>2 DEF TrailInv
  <2>7. Silent(r) => Unaudited(r)
    BY <2>4, <2>5 DEF Silent, Unaudited
  <2>8. /\ at[r] = "raised" => Ended(trail[r]) \/ Silent(r)
        /\ at[r] = "returned" => Allowed(trail[r])
    BY <2>2 DEF TrailInv
  <2> QED BY <2>3, <2>4, <2>5, <2>6, <2>7, <2>8 DEF Reached
<1>2. IInv => NoSilentStage
  BY <1>1 DEF NoSilentStage
<1> QED BY <1>2, Invariance, PTL

\* docs/agent-sdk-guide.md: "all further LLM calls in the same session will be
\* rejected".  However requests interleave, check_budget lets none that is bound to a
\* used-up session start awaiting the adapter.
THEOREM FurtherCallsAreRejected == Spec => FurtherCallsRejected
PROOF
<1> DEFINE Rejected ==
      \A r \in Requests :
          session # NONE /\ Exhausted(session) /\ options[r].budgeted /\ at[r] # "adapter.complete"
              => at'[r] # "adapter.complete"
<1>1. IInv /\ [Next]_vars => [Rejected]_vars
  <2> SUFFICES ASSUME IInv, Next, NEW r \in Requests,
                      session # NONE, Exhausted(session), options[r].budgeted, at[r] # "adapter.complete"
               PROVE  at'[r] # "adapter.complete"
    OBVIOUS
  <2>1. CASE CreateSession
    BY <2>1 DEF CreateSession
  <2>2. ASSUME NEW q \in Requests, PolicyAnswered(q) PROVE at'[r] # "adapter.complete"
    BY <2>2, PolicyAnsweredPasses
  <2>3. ASSUME NEW q \in Requests, Start(q) \/ AdapterFailed(q) \/ AdapterAnswered(q)
        PROVE  at'[r] # "adapter.complete"
    <3>1. \E point \in {"policy_engine.evaluate", "returned", "raised"} : \E result : Suspend(q, result, point)
      <4>1. Start(q) => \E point \in {"policy_engine.evaluate", "raised"} : \E result : Suspend(q, result, point)
        BY ZenonT(60) DEF Start
      <4>2. AdapterFailed(q) => \E result : Suspend(q, result, "raised")
        BY ZenonT(60) DEF AdapterFailed
      <4>3. AdapterAnswered(q) => \E result : Suspend(q, result, "returned")
        BY ZenonT(60) DEF AdapterAnswered
      <4> QED BY <2>3, <4>1, <4>2, <4>3, ZenonT(60)
    <3>2. \E point \in {"policy_engine.evaluate", "returned", "raised"} : \E result :
             at' = [at EXCEPT ![q] = IF result THEN point ELSE "raised"]
      BY <3>1, ZenonT(60) DEF Suspend
    <3> QED BY <3>2 DEF IInv, TypeOK
  <2> QED BY <2>1, <2>2, <2>3 DEF Next, RequestStep
<1> QED BY <1>1, Invariance, PTL DEF Spec, FurtherCallsRejected

-----------------------------------------------------------------------------
(***************************************************************************)
(* The ledgers.                                                            *)
(***************************************************************************)
\* The stages from the adapter's answer on whose events tell of an account.
Watchdog == {"llm-invoke", "watchdog.record-spend", "watchdog.loop-detect"}

\* The events say that the adapter has answered.
Answered(events) == \E i \in 1..Len(events) : events[i] = [stage |-> "llm-invoke", outcome |-> "allow"]

\* Results without an event of those stages.
Quiet(results) ==
    \A result \in results : result.events \in Seq(Event) /\ \A stage \in Watchdog : ~ Marks(result.events, stage)

\* Two runs of events one after the other mark what either marks, and nothing else.
LEMMA ConcatMarks ==
    ASSUME NEW s \in Seq(Event), NEW t \in Seq(Event)
    PROVE  /\ s \o t \in Seq(Event)
           /\ \A stage : Marks(s \o t, stage) <=> Marks(s, stage) \/ Marks(t, stage)
           /\ Answered(s \o t) <=> Answered(s) \/ Answered(t)
PROOF
<1>1. /\ s \o t \in Seq(Event) /\ Len(s \o t) = Len(s) + Len(t)
      /\ Len(s) \in Nat /\ Len(t) \in Nat
  OBVIOUS
<1>2. \A i \in 1..Len(s) + Len(t) :
         (s \o t)[i] = IF i <= Len(s) THEN s[i] ELSE t[i - Len(s)]
  OBVIOUS
<1>3. ASSUME NEW i \in 1..Len(s \o t)
      PROVE  \/ i \in 1..Len(s) /\ (s \o t)[i] = s[i]
             \/ i - Len(s) \in 1..Len(t) /\ (s \o t)[i] = t[i - Len(s)]
  BY <1>1, <1>2
<1>4. \A i \in 1..Len(s) : i \in 1..Len(s \o t) /\ (s \o t)[i] = s[i]
  BY <1>1, <1>2
<1>5. \A i \in 1..Len(t) : Len(s) + i \in 1..Len(s \o t) /\ (s \o t)[Len(s) + i] = t[i]
  BY <1>1, <1>2
<1>6. \A stage : Marks(s \o t, stage) <=> Marks(s, stage) \/ Marks(t, stage)
  <2> SUFFICES ASSUME NEW stage PROVE Marks(s \o t, stage) <=> Marks(s, stage) \/ Marks(t, stage)
    OBVIOUS
  <2>1. Marks(s, stage) => Marks(s \o t, stage)
    BY <1>4 DEF Marks
  <2>2. Marks(t, stage) => Marks(s \o t, stage)
    BY <1>5, ZenonT(60) DEF Marks
  <2>3. Marks(s \o t, stage) => Marks(s, stage) \/ Marks(t, stage)
    BY <1>3 DEF Marks
  <2> QED BY <2>1, <2>2, <2>3
<1>7. Answered(s \o t) <=> Answered(s) \/ Answered(t)
  <2>1. Answered(s) => Answered(s \o t)
    BY <1>4 DEF Answered
  <2>2. Answered(t) => Answered(s \o t)
    BY <1>5 DEF Answered
  <2>3. Answered(s \o t) => Answered(s) \/ Answered(t)
    BY <1>3 DEF Answered
  <2> QED BY <2>1, <2>2, <2>3
<1> QED BY <1>1, <1>6, <1>7

\* Quiet stages one after the other are quiet.
LEMMA AndThenQuiet ==
    ASSUME NEW first, NEW second, Quiet(first), Quiet(second)
    PROVE  Quiet(AndThen(first, second))
PROOF
<1> SUFFICES ASSUME NEW result \in AndThen(first, second)
             PROVE  result.events \in Seq(Event) /\ \A stage \in Watchdog : ~ Marks(result.events, stage)
  BY DEF Quiet
<1>1. CASE result \in first
  BY <1>1 DEF Quiet
<1>2. ASSUME NEW a \in first, NEW b \in second, result = Join(a, b)
      PROVE  result.events \in Seq(Event) /\ \A stage \in Watchdog : ~ Marks(result.events, stage)
  <2>1. result.events = a.events \o b.events
    BY <1>2, ZenonT(60) DEF Join
  <2>2. /\ a.events \in Seq(Event) /\ \A stage \in Watchdog : ~ Marks(a.events, stage)
        /\ b.events \in Seq(Event) /\ \A stage \in Watchdog : ~ Marks(b.events, stage)
    BY DEF Quiet
  <2> QED BY <2>1, <2>2, ConcatMarks
<1>3. \/ result \in first
      \/ \E a \in first, b \in second : result = Join(a, b)
  BY DEF AndThen
<1> QED BY <1>1, <1>2, <1>3

\* What one event marks.
LEMMA EmitMarks ==
    ASSUME NEW stage \in Stages, NEW outcome \in {"allow", "deny", "error"}
    PROVE  /\ Emit(stage, outcome) \in Seq(Event)
           /\ \A other : Marks(Emit(stage, outcome), other) <=> other = stage
           /\ Answered(Emit(stage, outcome)) <=> stage = "llm-invoke" /\ outcome = "allow"
           /\ \A other : ~ Marks(<<>>, other)
           /\ ~ Answered(<<>>) /\ <<>> \in Seq(Event)
PROOF
<1> DEFINE e == Emit(stage, outcome)
<1>1. e \in Seq(Event) /\ Len(e) = 1 /\ e[1] = [stage |-> stage, outcome |-> outcome]
  BY EmitFacts, ZenonT(60)
<1> HIDE DEF e
<1>2. \A i : i \in 1..Len(e) <=> i = 1
  BY <1>1
<1>3. e[1].stage = stage /\ (e[1] = [stage |-> "llm-invoke", outcome |-> "allow"]
                               <=> stage = "llm-invoke" /\ outcome = "allow")
  BY <1>1
<1>4. \A other : Marks(e, other) <=> other = stage
  BY <1>2, <1>3 DEF Marks
<1>5. Answered(e) <=> stage = "llm-invoke" /\ outcome = "allow"
  BY <1>2, <1>3 DEF Answered
<1>6. (\A other : ~ Marks(<<>>, other)) /\ ~ Answered(<<>>) /\ <<>> \in Seq(Event)
  BY DEF Marks, Answered
<1> QED BY <1>1, <1>4, <1>5, <1>6 DEF e

\* What a result of _span_stage marks when the body has emitted nothing: at most its own
\* stage, and that stage when it adds an event.
LEMMA SpanStageAlone ==
    ASSUME NEW stage \in Stages, NEW controlled \in BOOLEAN
    PROVE  /\ SpanStage(stage, <<>>, controlled).events \in Seq(Event)
           /\ \A other : Marks(SpanStage(stage, <<>>, controlled).events, other) => other = stage
           /\ ~ controlled => Marks(SpanStage(stage, <<>>, controlled).events, stage)
           /\ ~ Answered(SpanStage(stage, <<>>, controlled).events)
           /\ \A events, c : ~ SpanStage(stage, events, c).ok
PROOF
<1> DEFINE f == Emit(stage, "error")
           none == <<>>
<1>1. f \in Seq(Event) /\ (\A other : Marks(f, other) <=> other = stage) /\ ~ Answered(f)
  BY EmitMarks
<1>2. none \in Seq(Event) /\ (\A other : ~ Marks(none, other)) /\ ~ Answered(none)
  BY EmitMarks
<1> HIDE DEF f, none
<1>3. /\ none \o f \in Seq(Event) /\ (\A other : Marks(none \o f, other) <=> other = stage)
      /\ ~ Answered(none \o f)
  BY <1>1, <1>2, ConcatMarks
<1>4. /\ SpanStage(stage, none, FALSE).events = none \o f
      /\ SpanStage(stage, none, TRUE).events = none
      /\ \A events, c : ~ SpanStage(stage, events, c).ok
  BY DEF SpanStage, Raised, f
<1>5. /\ SpanStage(stage, none, controlled).events \in Seq(Event)
      /\ \A other : Marks(SpanStage(stage, none, controlled).events, other) => other = stage
      /\ ~ controlled => Marks(SpanStage(stage, none, controlled).events, stage)
      /\ ~ Answered(SpanStage(stage, none, controlled).events)
  <2>1. CASE controlled = TRUE
    BY <1>2, <1>4, <2>1, ZenonT(60)
  <2>2. CASE controlled = FALSE
    BY <1>3, <1>4, <2>2, ZenonT(60)
  <2> QED BY <2>1, <2>2, ZenonT(60)
<1> QED BY <1>4, <1>5, ZenonT(60) DEF none

\* And when the body has emitted an event: the stage that event names, and its own when
\* it adds another.
LEMMA SpanStageMarks ==
    ASSUME NEW stage \in Stages, NEW own \in Stages, NEW outcome \in {"allow", "deny", "error"},
           NEW controlled \in BOOLEAN, own # "llm-invoke" \/ outcome # "allow"
    PROVE  /\ SpanStage(stage, Emit(own, outcome), controlled).events \in Seq(Event)
           /\ \A other : Marks(SpanStage(stage, Emit(own, outcome), controlled).events, other) =>
                            other = stage \/ other = own
           /\ Marks(SpanStage(stage, Emit(own, outcome), controlled).events, own)
           /\ ~ Answered(SpanStage(stage, Emit(own, outcome), controlled).events)
PROOF
<1> DEFINE e == Emit(own, outcome)
           f == Emit(stage, "error")
<1>1. e \in Seq(Event) /\ (\A other : Marks(e, other) <=> other = own) /\ ~ Answered(e)
  BY EmitMarks
<1>2. f \in Seq(Event) /\ (\A other : Marks(f, other) <=> other = stage) /\ ~ Answered(f)
  BY EmitMarks
<1> HIDE DEF e, f
<1>3. /\ e \o f \in Seq(Event) /\ ~ Answered(e \o f)
      /\ \A other : Marks(e \o f, other) <=> other = stage \/ other = own
  BY <1>1, <1>2, ConcatMarks
<1>4. SpanStage(stage, e, TRUE).events = e /\ SpanStage(stage, e, FALSE).events = e \o f
  BY DEF SpanStage, Raised, f
<1>5. /\ SpanStage(stage, e, controlled).events \in Seq(Event)
      /\ \A other : Marks(SpanStage(stage, e, controlled).events, other) => other = stage \/ other = own
      /\ Marks(SpanStage(stage, e, controlled).events, own)
      /\ ~ Answered(SpanStage(stage, e, controlled).events)
  <2>1. CASE controlled = TRUE
    BY <1>1, <1>4, <2>1, ZenonT(60)
  <2>2. CASE controlled = FALSE
    BY <1>3, <1>4, <2>2, ZenonT(60)
  <2> QED BY <2>1, <2>2, ZenonT(60)
<1> QED BY <1>5 DEF e

\* A stage that has a result of its own marks itself, and no other.
LEMMA OwnMarks ==
    ASSUME NEW stage \in Stages
    PROVE  /\ Passed(Emit(stage, "allow")).ok
           /\ Passed(Emit(stage, "allow")).events \in Seq(Event)
           /\ \A other : Marks(Passed(Emit(stage, "allow")).events, other) <=> other = stage
           /\ \A outcome \in {"deny", "error"}, controlled \in BOOLEAN :
                 /\ ~ SpanStage(stage, Emit(stage, outcome), controlled).ok
                 /\ SpanStage(stage, Emit(stage, outcome), controlled).events \in Seq(Event)
                 /\ \A other : Marks(SpanStage(stage, Emit(stage, outcome), controlled).events, other) <=> other = stage
           /\ ~ SpanStage(stage, <<>>, FALSE).ok
           /\ SpanStage(stage, <<>>, FALSE).events \in Seq(Event)
           /\ \A other : Marks(SpanStage(stage, <<>>, FALSE).events, other) <=> other = stage
           /\ SpanStage(stage, <<>>, TRUE).events \in Seq(Event)
           /\ \A other : Marks(SpanStage(stage, <<>>, TRUE).events, other) => other = stage
PROOF
<1>1. Passed(Emit(stage, "allow")).ok /\ Passed(Emit(stage, "allow")).events = Emit(stage, "allow")
  BY DEF Passed
<1>2. Emit(stage, "allow") \in Seq(Event) /\ \A other : Marks(Emit(stage, "allow"), other) <=> other = stage
  BY EmitMarks
<1>3. ASSUME NEW outcome \in {"deny", "error"}, NEW controlled \in BOOLEAN
      PROVE  /\ ~ SpanStage(stage, Emit(stage, outcome), controlled).ok
             /\ SpanStage(stage, Emit(stage, outcome), controlled).events \in Seq(Event)
             /\ \A other : Marks(SpanStage(stage, Emit(stage, outcome), controlled).events, other) <=> other = stage
             /\ SpanStage(stage, <<>>, controlled).events \in Seq(Event)
             /\ \A other : Marks(SpanStage(stage, <<>>, controlled).events, other) => other = stage
             /\ ~ controlled => Marks(SpanStage(stage, <<>>, controlled).events, stage)
             /\ \A events, c : ~ SpanStage(stage, events, c).ok
  <2>1. outcome \in {"allow", "deny", "error"} /\ outcome # "allow"
    OBVIOUS
  <2> DEFINE a == SpanStage(stage, Emit(stage, outcome), controlled)
             b == SpanStage(stage, <<>>, controlled)
  <2>2. /\ a.events \in Seq(Event) /\ Marks(a.events, stage)
        /\ \A other : Marks(a.events, other) => other = stage \/ other = stage
    BY <2>1, SpanStageMarks
  <2>3. /\ b.events \in Seq(Event)
        /\ \A other : Marks(b.events, other) => other = stage
        /\ ~ controlled => Marks(b.events, stage)
        /\ \A events, c : ~ SpanStage(stage, events, c).ok
    BY SpanStageAlone
  <2> QED BY <2>2, <2>3, ZenonT(60)
<1>4. /\ ~ SpanStage(stage, <<>>, FALSE).ok
      /\ SpanStage(stage, <<>>, FALSE).events \in Seq(Event)
      /\ \A other : Marks(SpanStage(stage, <<>>, FALSE).events, other) <=> other = stage
      /\ SpanStage(stage, <<>>, TRUE).events \in Seq(Event)
      /\ \A other : Marks(SpanStage(stage, <<>>, TRUE).events, other) => other = stage
  <2>1. "deny" \in {"deny", "error"} /\ TRUE \in BOOLEAN /\ FALSE \in BOOLEAN
    OBVIOUS
  <2> QED BY <1>3, <2>1, ZenonT(60)
<1>5. /\ Passed(Emit(stage, "allow")).events \in Seq(Event)
      /\ \A other : Marks(Passed(Emit(stage, "allow")).events, other) <=> other = stage
  BY <1>1, <1>2
<1>6. \A outcome \in {"deny", "error"}, controlled \in BOOLEAN :
          /\ ~ SpanStage(stage, Emit(stage, outcome), controlled).ok
          /\ SpanStage(stage, Emit(stage, outcome), controlled).events \in Seq(Event)
          /\ \A other : Marks(SpanStage(stage, Emit(stage, outcome), controlled).events, other) <=> other = stage
  BY <1>3, ZenonT(60)
<1> QED BY <1>1, <1>4, <1>5, <1>6, ZenonT(60)

\* A stage that is skipped marks nothing.
LEMMA SkippedMarks ==
    /\ Passed(<<>>).ok /\ Passed(<<>>).events \in Seq(Event)
    /\ \A other : ~ Marks(Passed(<<>>).events, other)
PROOF
<1>1. Passed(<<>>).ok /\ Passed(<<>>).events = <<>>
  BY DEF Passed
<1>2. "llm-invoke" \in Stages
  BY DEF Stages
<1>3. <<>> \in Seq(Event) /\ \A other : ~ Marks(<<>>, other)
  BY <1>2, EmitMarks
<1> QED BY <1>1, <1>3, ZenonT(60)

\* Nothing before the adapter's answer emits an event of an account.
LEMMA StagesQuiet ==
    /\ Quiet(PrePiiScrub)
    /\ \A r \in Requests :
          Quiet(AndThen(AndThen(PolicyEval, PolicyMask), AndThen(JitTokenIssue(r), WatchdogPreLlm(r))))
PROOF
<1> DEFINE Other == {"pre-pii-scrub", "policy-eval", "policy-mask", "jit-token-issue", "watchdog.pre-llm"}
<1>1. Other \subseteq Stages /\ \A stage \in Other : stage \notin Watchdog
  BY DEF Stages, Watchdog
<1> HIDE DEF Other
<1>2. ASSUME NEW stage \in Other
      PROVE  /\ Quiet({Passed(Emit(stage, "allow"))})
             /\ Quiet({SpanStage(stage, <<>>, FALSE)}) /\ Quiet({SpanStage(stage, <<>>, TRUE)})
             /\ \A outcome \in {"deny", "error"}, controlled \in BOOLEAN :
                   Quiet({SpanStage(stage, Emit(stage, outcome), controlled)})
  <2>1. stage \in Stages /\ stage \notin Watchdog
    BY <1>1
  <2>2. /\ Quiet({Passed(Emit(stage, "allow"))})
        /\ Quiet({SpanStage(stage, <<>>, FALSE)}) /\ Quiet({SpanStage(stage, <<>>, TRUE)})
    BY <2>1, OwnMarks, ZenonT(60) DEF Quiet
  <2>3. ASSUME NEW outcome \in {"deny", "error"}, NEW controlled \in BOOLEAN
        PROVE  Quiet({SpanStage(stage, Emit(stage, outcome), controlled)})
    BY <2>1, OwnMarks, ZenonT(60) DEF Quiet
  <2> QED BY <2>2, <2>3
<1>3. Quiet({Passed(<<>>)})
  BY SkippedMarks DEF Quiet
<1>4. \A results : (\A result \in results : Quiet({result})) => Quiet(results)
  BY DEF Quiet
<1>5. Quiet(PrePiiScrub)
  BY <1>2, <1>4, ZenonT(60) DEF PrePiiScrub, Other
<1>6. Quiet(PolicyEval)
  BY <1>2, <1>4, ZenonT(60) DEF PolicyEval, Other
<1>7. Quiet(PolicyMask)
  BY <1>2, <1>3, <1>4, ZenonT(60) DEF PolicyMask, Other
<1>8. Quiet(SessionToken)
  BY <1>2, <1>4, ZenonT(60) DEF SessionToken, Other
<1>9. ASSUME NEW r \in Requests PROVE Quiet(WatchdogPreLlm(r)) /\ Quiet(AdapterToken(r))
  <2>1. Quiet(WatchdogPreLlm(r))
    BY <1>2, <1>3, ZenonT(60) DEF WatchdogPreLlm, Other
  <2>2. Quiet(AdapterToken(r))
    BY <1>2, <1>3, <1>4, ZenonT(60) DEF AdapterToken, Other
  <2> QED BY <2>1, <2>2
<1>10. ASSUME NEW r \in Requests PROVE Quiet(JitTokenIssue(r))
  BY <1>8, <1>9, AndThenQuiet DEF JitTokenIssue
<1> QED BY <1>5, <1>6, <1>7, <1>9, <1>10, AndThenQuiet

\* The events of a request whose adapter has answered: the completion, the spend of a
\* budgeted request, and a loop step unless the spend was refused.
LEMMA AnsweredEvents ==
    ASSUME NEW r \in Requests, NEW debited, NEW stepped,
           NEW result \in AndThen(AndThen(LlmInvoke(r), WatchdogRecordSpend(r, debited)),
                                  AndThen(WatchdogLoopDetect(r, stepped), PostSanitize)),
           NEW allowed, allowed = (~ options[r].budgeted \/ ~ Exceeded(debited))
    PROVE  /\ result.events \in Seq(Event)
           /\ Answered(result.events)
           /\ Marks(result.events, "watchdog.record-spend") <=> options[r].budgeted
           /\ Marks(result.events, "watchdog.loop-detect") <=> options[r].loop_signal # NONE /\ allowed
           /\ result.ok => allowed
           /\ (\E s \in WatchdogRecordSpend(r, debited) : s.ok) <=> allowed
PROOF
<1> DEFINE before == IF options[r].protected THEN Emit("adapter", "allow") ELSE <<>>
           llm == Passed(before \o Emit("llm-invoke", "allow"))
           spend == WatchdogRecordSpend(r, debited)
           loop == WatchdogLoopDetect(r, stepped)
           S == "watchdog.record-spend"
           L == "watchdog.loop-detect"
<1>0. /\ S \in Stages /\ L \in Stages /\ "llm-invoke" \in Stages /\ "post-sanitize" \in Stages
      /\ S # L /\ S # "llm-invoke" /\ L # "llm-invoke" /\ S # "post-sanitize" /\ L # "post-sanitize"
      /\ "adapter" \in Stages /\ S # "adapter" /\ L # "adapter"
  BY DEF Stages
<1>1. /\ llm.ok /\ llm.events \in Seq(Event) /\ Answered(llm.events)
      /\ ~ Marks(llm.events, S) /\ ~ Marks(llm.events, L)
  <2>1. llm.ok /\ llm.events = before \o Emit("llm-invoke", "allow")
    BY DEF Passed
  <2> HIDE DEF llm, S, L
  <2>2. before \in Seq(Event) /\ ~ Marks(before, S) /\ ~ Marks(before, L)
    BY <1>0, EmitMarks
  <2> DEFINE e == Emit("llm-invoke", "allow")
  <2>3. e \in Seq(Event) /\ Answered(e) /\ ~ Marks(e, S) /\ ~ Marks(e, L)
    BY <1>0, EmitMarks
  <2> HIDE DEF before, e
  <2>4. /\ before \o e \in Seq(Event) /\ Answered(before \o e)
        /\ ~ Marks(before \o e, S) /\ ~ Marks(before \o e, L)
    BY <2>2, <2>3, ConcatMarks
  <2> QED BY <2>1, <2>4 DEF e
<1>2. \A s \in spend : /\ s.events \in Seq(Event) /\ (Marks(s.events, S) <=> options[r].budgeted)
                       /\ ~ Marks(s.events, L) /\ (s.ok <=> allowed)
  <2>1. S \in Stages
    BY <1>0
  <2>2. spend \subseteq IF ~ options[r].budgeted THEN {Passed(<<>>)}
                        ELSE IF allowed THEN {Passed(Emit(S, "allow"))} ELSE {SpanStage(S, Emit(S, "deny"), TRUE)}
    BY ZenonT(60) DEF WatchdogRecordSpend
  <2> HIDE DEF spend, S, L
  <2>3. CASE ~ options[r].budgeted
    BY <1>0, <2>2, <2>3, SkippedMarks, ZenonT(60)
  <2>4. CASE options[r].budgeted /\ allowed
    BY <1>0, <2>1, <2>2, <2>4, OwnMarks, ZenonT(60)
  <2>5. CASE options[r].budgeted /\ ~ allowed
    <3>1. spend \subseteq {SpanStage(S, Emit(S, "deny"), TRUE)} /\ "deny" \in {"deny", "error"} /\ TRUE \in BOOLEAN
      BY <2>2, <2>5, ZenonT(60)
    <3>2. /\ ~ SpanStage(S, Emit(S, "deny"), TRUE).ok
          /\ SpanStage(S, Emit(S, "deny"), TRUE).events \in Seq(Event)
          /\ \A other : Marks(SpanStage(S, Emit(S, "deny"), TRUE).events, other) <=> other = S
      BY <2>1, <3>1, OwnMarks, ZenonT(60)
    <3> QED BY <1>0, <2>5, <3>1, <3>2, ZenonT(60)
  <2> QED BY <2>3, <2>4, <2>5
<1>3. \A l \in loop : /\ l.events \in Seq(Event) /\ (Marks(l.events, L) <=> options[r].loop_signal # NONE)
                      /\ ~ Marks(l.events, S)
  <2>2. loop \subseteq IF options[r].loop_signal = NONE THEN {Passed(<<>>)}
                       ELSE {SpanStage(L, <<>>, FALSE), SpanStage(L, Emit(L, "deny"), TRUE), Passed(Emit(L, "allow"))}
    BY ZenonT(60) DEF WatchdogLoopDetect
  <2> HIDE DEF loop, S, L
  <2> QED BY <1>0, <2>2, OwnMarks, SkippedMarks, ZenonT(60)
<1>4. \A p \in PostSanitize : p.events \in Seq(Event) /\ ~ Marks(p.events, L) /\ ~ Marks(p.events, S)
  <2> HIDE DEF S, L
  <2> QED BY <1>0, OwnMarks, ZenonT(60) DEF PostSanitize
<1>5. spend # {}
  BY ZenonT(60) DEF WatchdogRecordSpend
<1> HIDE DEF llm, spend, loop, S, L
<1>6. ASSUME NEW c \in AndThen({llm}, spend)
      PROVE  /\ c.events \in Seq(Event) /\ Answered(c.events) /\ ~ Marks(c.events, L)
             /\ Marks(c.events, S) <=> options[r].budgeted
             /\ c.ok <=> allowed
  <2>1. PICK s \in spend : c = Join(llm, s)
    BY <1>1 DEF AndThen
  <2>2. c.events = llm.events \o s.events /\ c.ok = s.ok
    BY <2>1, ZenonT(60) DEF Join
  <2> QED BY <1>1, <1>2, <2>2, ConcatMarks
<1>7. ASSUME NEW d \in AndThen(loop, PostSanitize)
      PROVE  /\ d.events \in Seq(Event) /\ ~ Marks(d.events, S)
             /\ Marks(d.events, L) <=> options[r].loop_signal # NONE
  <2>1. CASE d \in loop
    BY <1>3, <2>1
  <2>2. ASSUME NEW l \in loop, NEW p \in PostSanitize, d = Join(l, p)
        PROVE  /\ d.events \in Seq(Event) /\ ~ Marks(d.events, S)
               /\ Marks(d.events, L) <=> options[r].loop_signal # NONE
    <3>1. d.events = l.events \o p.events
      BY <2>2, ZenonT(60) DEF Join
    <3> QED BY <1>3, <1>4, <3>1, ConcatMarks
  <2> QED BY <2>1, <2>2 DEF AndThen
<1>8. result \in AndThen(AndThen({llm}, spend), AndThen(loop, PostSanitize))
  BY DEF llm, spend, loop, LlmInvoke
<1>9. /\ result.events \in Seq(Event)
      /\ Answered(result.events)
      /\ Marks(result.events, S) <=> options[r].budgeted
      /\ Marks(result.events, L) <=> options[r].loop_signal # NONE /\ allowed
      /\ result.ok => allowed
  <2>1. CASE result \in AndThen({llm}, spend) /\ ~ result.ok
    BY <1>6, <2>1
  <2>2. ASSUME NEW c \in AndThen({llm}, spend), c.ok, NEW d \in AndThen(loop, PostSanitize), result = Join(c, d)
        PROVE  /\ result.events \in Seq(Event)
               /\ Answered(result.events)
               /\ Marks(result.events, S) <=> options[r].budgeted
               /\ Marks(result.events, L) <=> options[r].loop_signal # NONE /\ allowed
               /\ allowed
    <3>1. result.events = c.events \o d.events
      BY <2>2, ZenonT(60) DEF Join
    <3>2. /\ c.events \in Seq(Event) /\ Answered(c.events) /\ ~ Marks(c.events, L)
          /\ (Marks(c.events, S) <=> options[r].budgeted) /\ allowed
      BY <1>6, <2>2, ZenonT(60)
    <3>3. /\ d.events \in Seq(Event) /\ ~ Marks(d.events, S)
          /\ Marks(d.events, L) <=> options[r].loop_signal # NONE
      BY <1>7
    <3> HIDE DEF S, L
    <3> QED BY <3>1, <3>2, <3>3, ConcatMarks
  <2>3. \/ result \in AndThen({llm}, spend) /\ ~ result.ok
        \/ \E c \in AndThen({llm}, spend), d \in AndThen(loop, PostSanitize) : c.ok /\ result = Join(c, d)
    BY <1>8 DEF AndThen
  <2> QED BY <2>1, <2>2, <2>3, ZenonT(60)
<1> QED BY <1>2, <1>5, <1>9 DEF S, L, spend

-----------------------------------------------------------------------------
\* A request that has not been answered has been charged nothing and has told the
\* watchdog nothing; afterwards it has been charged just when its trail says so.
LedgerInv(r) ==
    /\ at[r] \in {"created", "policy_engine.evaluate", "adapter.complete"} =>
          charged[r] = 0 /\ \A stage \in Watchdog : ~ Marks(trail[r], stage)
    /\ charged[r] # 0 <=> options[r].budgeted /\ Answered(trail[r])
    /\ charged[r] # 0 <=> Marks(trail[r], "watchdog.record-spend")

Charged == {r \in Requests : charged[r] = sessions}
Deltas == [r \in Requests |-> TokenDelta(r, tokens[r])]
Looped == {r \in Requests : Marks(trail[r], "watchdog.loop-detect")}
Returned(n) == {r \in Requests : at[r] = "returned" /\ charged[r] = n}

\* The session holds what its requests used, the context what it was shown.
AccountInv ==
    /\ session # NONE => session.cost_usd = Spent(Charged) /\ session.budget_limit_usd = BudgetLimit
    /\ context # NONE => Len(context.steps) = Cardinality(Looped) /\ context.total_tokens = Shown(Looped)

ReturnedInv == \A n \in 1..sessions : Spent(Returned(n)) <= BudgetLimit

LInv == (\A r \in Requests : LedgerInv(r)) /\ AccountInv /\ ReturnedInv

\* A step of a request before the adapter's answer, or after its failure, touches no
\* account.
LEMMA BystanderKeeps ==
    ASSUME IInv, LInv, NEW r \in Requests, at[r] \in {"created", "policy_engine.evaluate", "adapter.complete"},
           NEW result, NEW point \in {"policy_engine.evaluate", "adapter.complete", "raised"},
           result.events \in Seq(Event), ~ Answered(result.events),
           ~ Marks(result.events, "watchdog.record-spend"), ~ Marks(result.events, "watchdog.loop-detect"),
           result.ok => ~ Marks(result.events, "llm-invoke"),
           Suspend(r, result, point),
           UNCHANGED <<options, tokens, session, sessions, charged, context>>
    PROVE  LInv'
PROOF
<1> DEFINE s == trail[r]
           t == result.events
<1>1. s \in Seq(Event) /\ t \in Seq(Event)
  BY DEF IInv, TypeOK
<1>2. /\ \A stage : Marks(s \o t, stage) <=> Marks(s, stage) \/ Marks(t, stage)
      /\ Answered(s \o t) <=> Answered(s) \/ Answered(t)
  BY <1>1, ConcatMarks
<1>3. /\ \A q \in Requests : trail'[q] = IF q = r THEN s \o t ELSE trail[q]
      /\ \A q \in Requests : at'[q] = IF q = r THEN IF result.ok THEN point ELSE "raised" ELSE at[q]
  BY DEF Suspend, IInv, TypeOK
<1> HIDE DEF s, t
<1>4. LedgerInv(r) /\ charged[r] = 0 /\ \A stage \in Watchdog : ~ Marks(s, stage)
  BY DEF LInv, LedgerInv, s
<1>5. LedgerInv(r)'
  <2>1. trail'[r] = s \o t /\ at'[r] = IF result.ok THEN point ELSE "raised"
    BY <1>3, ZenonT(60)
  <2>2. ~ Answered(s) /\ ~ Marks(s, "watchdog.record-spend")
    BY <1>4 DEF Watchdog, Answered, Marks
  <2>3. ~ Answered(s \o t) /\ ~ Marks(s \o t, "watchdog.record-spend")
    BY <1>2, <2>2 DEF t
  <2>4. result.ok => \A stage \in Watchdog : ~ Marks(s \o t, stage)
    BY <1>2, <1>4 DEF Watchdog, t
  <2> QED BY <1>4, <2>1, <2>3, <2>4 DEF LedgerInv
<1>6. ASSUME NEW q \in Requests, q # r PROVE LedgerInv(q)'
  BY <1>3, <1>6 DEF LInv, LedgerInv
<1>7. Looped' = Looped
  <2>1. Marks(s \o t, "watchdog.loop-detect") <=> Marks(s, "watchdog.loop-detect")
    BY <1>2 DEF t
  <2>2. \A q \in Requests : Marks(trail'[q], "watchdog.loop-detect") <=> Marks(trail[q], "watchdog.loop-detect")
    BY <1>3, <2>1 DEF s
  <2> QED BY <2>2 DEF Looped
<1>8. AccountInv'
  BY <1>7 DEF LInv, AccountInv, Spent, Shown, TokenDelta, Charged
<1>9. \A n : Returned(n)' = Returned(n)
  BY <1>3 DEF Returned
<1>10. ReturnedInv'
  BY <1>9 DEF LInv, ReturnedInv, Spent
<1> QED BY <1>5, <1>6, <1>8, <1>10 DEF LInv

\* run() up to the adapter call, and a failing adapter, keep the ledgers.
LEMMA UnansweredKeeps ==
    ASSUME IInv, LInv, NEW r \in Requests, Start(r) \/ PolicyAnswered(r) \/ AdapterFailed(r)
    PROVE  LInv'
PROOF
<1>1. ASSUME NEW results, Quiet(results), NEW result \in results
      PROVE  /\ result.events \in Seq(Event) /\ ~ Answered(result.events)
             /\ ~ Marks(result.events, "watchdog.record-spend") /\ ~ Marks(result.events, "watchdog.loop-detect")
             /\ ~ Marks(result.events, "llm-invoke")
  BY <1>1 DEF Quiet, Watchdog, Answered, Marks
<1>2. CASE Start(r)
  <2>1. /\ at[r] = "created"
        /\ UNCHANGED <<options, tokens, session, sessions, charged, context>>
    BY <1>2 DEF Start
  <2>2. ASSUME NEW result \in PrePiiScrub, Suspend(r, result, "policy_engine.evaluate") PROVE LInv'
    BY <1>1, <2>1, <2>2, StagesQuiet, BystanderKeeps
  <2>3. ASSUME Suspend(r, Raised(<<>>), "raised") PROVE LInv'
    <3> DEFINE result == Raised(<<>>)
    <3>1. result.events = <<>> /\ ~ result.ok
      BY DEF Raised
    <3>2. /\ result.events \in Seq(Event) /\ ~ Answered(result.events)
          /\ \A other : ~ Marks(result.events, other)
      BY <3>1, EmitMarks DEF Stages
    <3>3. Suspend(r, result, "raised")
      BY <2>3
    <3> HIDE DEF result
    <3> QED BY <2>1, <3>1, <3>2, <3>3, BystanderKeeps
  <2> QED BY <1>2, <2>2, <2>3, ZenonT(60) DEF Start
<1>3. CASE PolicyAnswered(r)
  <2> DEFINE results == AndThen(AndThen(PolicyEval, PolicyMask), AndThen(JitTokenIssue(r), WatchdogPreLlm(r)))
  <2>1. PICK result \in results : Suspend(r, result, "adapter.complete")
    BY <1>3 DEF PolicyAnswered
  <2>2. Quiet(results)
    BY StagesQuiet
  <2> HIDE DEF results
  <2> QED BY <1>1, <1>3, <2>1, <2>2, BystanderKeeps DEF PolicyAnswered
<1>4. CASE AdapterFailed(r)
  <2>1. /\ "llm-invoke" \in Stages /\ "adapter" \in Stages /\ FALSE \in BOOLEAN /\ "adapter" # "llm-invoke"
        /\ "allow" \in {"allow", "deny", "error"} /\ "deny" \in {"allow", "deny", "error"}
    BY DEF Stages
  <2>2. PICK result \in LlmInvokeFails(r) : Suspend(r, result, "raised")
    BY <1>4 DEF AdapterFailed
  <2>3. \/ result = SpanStage("llm-invoke", <<>>, FALSE)
        \/ result = SpanStage("llm-invoke", Emit("adapter", "allow"), FALSE)
        \/ result = SpanStage("llm-invoke", Emit("adapter", "deny"), FALSE)
    BY DEF LlmInvokeFails
  <2>4. /\ result.events \in Seq(Event) /\ ~ Answered(result.events) /\ ~ result.ok
        /\ \A other : Marks(result.events, other) => other = "llm-invoke" \/ other = "adapter"
    <3> DEFINE a == SpanStage("llm-invoke", <<>>, FALSE)
    <3>1. /\ a.events \in Seq(Event) /\ ~ Answered(a.events) /\ ~ a.ok
          /\ \A other : Marks(a.events, other) => other = "llm-invoke"
      BY <2>1, SpanStageAlone
    <3>2. ASSUME NEW outcome \in {"allow", "deny", "error"}, NEW b,
                 b = SpanStage("llm-invoke", Emit("adapter", outcome), FALSE)
          PROVE  /\ b.events \in Seq(Event) /\ ~ Answered(b.events) /\ ~ b.ok
                 /\ \A other : Marks(b.events, other) => other = "llm-invoke" \/ other = "adapter"
      BY <2>1, <3>2, SpanStageMarks, SpanStageAlone
    <3> HIDE DEF a
    <3> QED BY <2>1, <2>3, <3>1, <3>2, ZenonT(60) DEF a
  <2> QED BY <1>4, <2>2, <2>4, BystanderKeeps DEF AdapterFailed
<1> QED BY <1>2, <1>3, <1>4

\* A request that joins a set of others adds its number; one outside it adds nothing.
LEMMA SumWith ==
    ASSUME NEW f \in [Requests -> Nat], NEW r \in Requests, NEW n \in Nat, NEW R \in SUBSET Requests, r \notin R
    PROVE  /\ SumFunctionOnSet([f EXCEPT ![r] = n], R) = SumFunctionOnSet(f, R)
           /\ SumFunctionOnSet([f EXCEPT ![r] = n], R \cup {r}) = SumFunctionOnSet(f, R) + n
           /\ Cardinality(R \cup {r}) = Cardinality(R) + 1
           /\ SumFunctionOnSet(f, R) \in Nat
PROOF
<1> DEFINE g == [f EXCEPT ![r] = n]
<1>1. IsFiniteSet(R)
  BY BudgetAssumption, FS_Subset
<1>2. /\ g[r] = n /\ \A q \in R : g[q] = f[q]
      /\ \A q \in R : f[q] \in Nat
  OBVIOUS
<1> HIDE DEF g
<1>3. SumFunctionOnSet(g, R) = SumFunctionOnSet(f, R)
  BY <1>1, <1>2, SumCongruent, ZenonT(60)
<1>4. SumFunctionOnSet(f, R) \in Nat
  BY <1>1, <1>2, SumType
<1>5. \A q \in R \cup {r} : g[q] \in Nat
  BY <1>2
<1>6. SumFunctionOnSet(g, R \cup {r}) = g[r] + SumFunctionOnSet(g, R)
  BY <1>1, <1>5, SumAdd, ZenonT(60)
<1>7. Cardinality(R \cup {r}) = Cardinality(R) + 1
  BY <1>1, FS_AddElement
<1> QED BY <1>2, <1>3, <1>4, <1>6, <1>7 DEF g

\* So with the tokens of the requests, and with what the loop detector is shown of them.
LEMMA SpentWith ==
    ASSUME TypeOK, NEW r \in Requests, NEW used \in Nat, NEW R \in SUBSET Requests, r \notin R,
           tokens' = [tokens EXCEPT ![r] = used], options' = options
    PROVE  /\ SumFunctionOnSet(tokens', R) = Spent(R)
           /\ SumFunctionOnSet(tokens', R \cup {r}) = Spent(R) + used
           /\ SumFunctionOnSet(Deltas', R) = Shown(R)
           /\ SumFunctionOnSet(Deltas', R \cup {r}) = Shown(R) + TokenDelta(r, used)
           /\ Cardinality(R \cup {r}) = Cardinality(R) + 1
           /\ Spent(R) \in Nat
PROOF
<1>1. tokens \in [Requests -> Nat]
  BY BudgetAssumption DEF TypeOK
<1>2. Deltas \in [Requests -> Nat] /\ TokenDelta(r, used) \in Nat
  BY <1>1, TokenDeltaType DEF Deltas
<1>3. Deltas' = [Deltas EXCEPT ![r] = TokenDelta(r, used)]
  BY <1>1 DEF Deltas, TokenDelta
<1>4. Spent(R) = SumFunctionOnSet(tokens, R) /\ Shown(R) = SumFunctionOnSet(Deltas, R)
  BY ZenonT(60) DEF Spent, Shown, Deltas
<1>5. /\ SumFunctionOnSet(Deltas', R) = SumFunctionOnSet(Deltas, R)
      /\ SumFunctionOnSet(Deltas', R \cup {r}) = SumFunctionOnSet(Deltas, R) + TokenDelta(r, used)
  <2>1. ASSUME NEW f \in [Requests -> Nat], NEW n \in Nat, NEW g, g = [f EXCEPT ![r] = n]
        PROVE  /\ SumFunctionOnSet(g, R) = SumFunctionOnSet(f, R)
               /\ SumFunctionOnSet(g, R \cup {r}) = SumFunctionOnSet(f, R) + n
    BY <2>1, SumWith, ZenonT(60)
  <2> QED BY <1>2, <1>3, <2>1, ZenonT(60)
<1>6. /\ SumFunctionOnSet(tokens', R) = SumFunctionOnSet(tokens, R)
      /\ SumFunctionOnSet(tokens', R \cup {r}) = SumFunctionOnSet(tokens, R) + used
      /\ Cardinality(R \cup {r}) = Cardinality(R) + 1
      /\ SumFunctionOnSet(tokens, R) \in Nat
  BY <1>1, SumWith, ZenonT(60)
<1> QED BY <1>4, <1>5, <1>6, ZenonT(60)

\* What the adapter's answer does to the accounts, and what it tells of that: the session
\* of a budgeted request is debited, the context is stepped unless the debit was refused,
\* and the request returns only if it was allowed.
Answers(r, used, events, ok, allowed) ==
    /\ at[r] = "adapter.complete" /\ UNCHANGED <<options, sessions>>
    /\ tokens' = [tokens EXCEPT ![r] = used]
    /\ charged' = [charged EXCEPT ![r] = IF options[r].budgeted THEN sessions ELSE 0]
    /\ ~ options[r].budgeted => session' = session
    /\ options[r].budgeted =>
          /\ session # NONE /\ session' # NONE
          /\ session'.cost_usd = session.cost_usd + used
          /\ session'.budget_limit_usd = session.budget_limit_usd
          /\ allowed => session'.cost_usd <= session'.budget_limit_usd
    /\ ~ (options[r].loop_signal # NONE /\ context # NONE /\ allowed) => context' = context
    /\ options[r].loop_signal # NONE /\ context # NONE /\ allowed =>
          /\ Len(context'.steps) = Len(context.steps) + 1
          /\ context'.total_tokens = context.total_tokens + TokenDelta(r, used)
    /\ trail' = [trail EXCEPT ![r] = @ \o events]
    /\ at' = [at EXCEPT ![r] = IF ok THEN "returned" ELSE "raised"]
    /\ Answered(events)
    /\ Marks(events, "watchdog.record-spend") <=> options[r].budgeted
    /\ Marks(events, "watchdog.loop-detect") <=> options[r].loop_signal # NONE /\ allowed
    /\ ok => allowed

\* AdapterAnswered is such a step.
LEMMA AnsweredEffects ==
    ASSUME IInv, IInv', NEW r \in Requests, AdapterAnswered(r)
    PROVE  \E used \in 0..MaxTokens, events \in Seq(Event) : \E ok, allowed : Answers(r, used, events, ok, allowed)
PROOF
<1>1. PICK used \in 0..MaxTokens :
        LET debited == IF options[r].budgeted THEN RecordSpend(session, used, {}) ELSE session
            looped  == options[r].loop_signal # NONE /\ context # NONE
            stepped == IF looped THEN RecordStep(context, TokenDelta(r, used), options[r].loop_signal) ELSE context
            spend   == WatchdogRecordSpend(r, debited)
        IN
        /\ tokens' = [tokens EXCEPT ![r] = used]
        /\ session' = debited
        /\ charged' = [charged EXCEPT ![r] = IF options[r].budgeted THEN sessions ELSE 0]
        /\ context' = IF \E s \in spend : s.ok THEN stepped ELSE context
        /\ \E result \in AndThen(AndThen(LlmInvoke(r), spend),
                                 AndThen(WatchdogLoopDetect(r, stepped), PostSanitize)) :
              Suspend(r, result, "returned")
  BY ZenonT(60) DEF AdapterAnswered
<1> DEFINE debited == IF options[r].budgeted THEN RecordSpend(session, used, {}) ELSE session
           looped == options[r].loop_signal # NONE /\ context # NONE
           stepped == IF looped THEN RecordStep(context, TokenDelta(r, used), options[r].loop_signal) ELSE context
           allowed == ~ options[r].budgeted \/ ~ Exceeded(debited)
<1>2. PICK result \in AndThen(AndThen(LlmInvoke(r), WatchdogRecordSpend(r, debited)),
                              AndThen(WatchdogLoopDetect(r, stepped), PostSanitize)) :
         Suspend(r, result, "returned")
  BY <1>1
<1> DEFINE t == result.events
<1>3. /\ t \in Seq(Event) /\ Answered(t)
      /\ Marks(t, "watchdog.record-spend") <=> options[r].budgeted
      /\ Marks(t, "watchdog.loop-detect") <=> options[r].loop_signal # NONE /\ allowed
      /\ result.ok => allowed
      /\ (\E x \in WatchdogRecordSpend(r, debited) : x.ok) <=> allowed
  <2> HIDE DEF debited, stepped
  <2> QED BY AnsweredEvents, ZenonT(60)
<1>4. /\ tokens' = [tokens EXCEPT ![r] = used]
      /\ session' = debited
      /\ charged' = [charged EXCEPT ![r] = IF options[r].budgeted THEN sessions ELSE 0]
      /\ context' = IF allowed THEN stepped ELSE context
      /\ at[r] = "adapter.complete" /\ UNCHANGED <<options, sessions>>
  BY <1>1, <1>3, ZenonT(60) DEF AdapterAnswered
<1>5. /\ used \in Nat
      /\ options[r].budgeted => session \in BudgetSession({}) /\ session # NONE /\ session' # NONE
  BY <1>4, BudgetAssumption DEF IInv, TypeOK, SessionInv
<1>6. /\ ~ options[r].budgeted => session' = session
      /\ options[r].budgeted =>
            /\ session'.cost_usd = session.cost_usd + used
            /\ session'.budget_limit_usd = session.budget_limit_usd
            /\ allowed => session'.cost_usd <= session'.budget_limit_usd
  BY <1>4, <1>5 DEF RecordSpend, BudgetSession, Exceeded
<1>7. looped => /\ Len(stepped.steps) = Len(context.steps) + 1
                /\ stepped.total_tokens = context.total_tokens + TokenDelta(r, used)
  <2>1. looped => context \in Contexts /\ options[r].loop_signal \in LoopSignal
    BY DEF IInv, TypeOK, Options
  <2> DEFINE n == TokenDelta(r, used)
  <2>4. n \in Nat
    BY <1>5, TokenDeltaType DEF IInv
  <2> HIDE DEF n
  <2>2. looped => Len(RecordStep(context, n, options[r].loop_signal).steps) = Len(context.steps) + 1
    BY <2>1, <2>4, RecordStepType
  <2>3. looped => RecordStep(context, n, options[r].loop_signal).total_tokens = context.total_tokens + n
    BY ZenonT(60) DEF RecordStep
  <2> QED BY <2>2, <2>3 DEF n
<1>8. ~ looped => stepped = context
  OBVIOUS
<1>9. trail' = [trail EXCEPT ![r] = @ \o t] /\ at' = [at EXCEPT ![r] = IF result.ok THEN "returned" ELSE "raised"]
  BY <1>2 DEF Suspend
<1> HIDE DEF debited, stepped, allowed, t
<1>10. Answers(r, used, t, result.ok, allowed)
  BY <1>3, <1>4, <1>5, <1>6, <1>7, <1>8, <1>9, ZenonT(60) DEF Answers
<1> QED BY <1>3, <1>10

\* Such a step keeps the accounts in agreement with the trail, and what is returned
\* within the limit.
LEMMA AnswersKeep ==
    ASSUME IInv, LInv, IInv', NEW r \in Requests, NEW used \in 0..MaxTokens, NEW t \in Seq(Event),
           NEW ok, NEW allowed, Answers(r, used, t, ok, allowed)
    PROVE  LInv'
PROOF
<1> DEFINE s == trail[r]
<1>1. /\ Answered(t)
      /\ Marks(t, "watchdog.record-spend") <=> options[r].budgeted
      /\ Marks(t, "watchdog.loop-detect") <=> options[r].loop_signal # NONE /\ allowed
      /\ ok => allowed
  BY ZenonT(60) DEF Answers
<1>2. /\ tokens' = [tokens EXCEPT ![r] = used]
      /\ charged' = [charged EXCEPT ![r] = IF options[r].budgeted THEN sessions ELSE 0]
      /\ at[r] = "adapter.complete" /\ UNCHANGED <<options, sessions>>
  BY DEF Answers
<1>3. /\ used \in Nat /\ s \in Seq(Event) /\ TypeOK
      /\ options[r].budgeted => session # NONE
      /\ session # NONE <=> sessions # 0
  BY <1>2, BudgetAssumption DEF IInv, TypeOK, SessionInv
<1>4. /\ ~ options[r].budgeted => session' = session
      /\ options[r].budgeted =>
            /\ session'.cost_usd = session.cost_usd + used
            /\ session'.budget_limit_usd = session.budget_limit_usd
            /\ allowed => session'.cost_usd <= session'.budget_limit_usd
  BY DEF Answers
<1>5. /\ ~ (options[r].loop_signal # NONE /\ context # NONE /\ allowed) => context' = context
      /\ options[r].loop_signal # NONE /\ context # NONE /\ allowed =>
            /\ Len(context'.steps) = Len(context.steps) + 1
            /\ context'.total_tokens = context.total_tokens + TokenDelta(r, used)
  BY DEF Answers
<1> HIDE DEF s
<1>6. /\ \A stage : Marks(s \o t, stage) <=> Marks(s, stage) \/ Marks(t, stage)
      /\ Answered(s \o t) <=> Answered(s) \/ Answered(t)
  BY <1>3, ConcatMarks
<1>7. /\ \A q \in Requests : trail'[q] = IF q = r THEN s \o t ELSE trail[q]
      /\ \A q \in Requests : at'[q] = IF q = r THEN IF ok THEN "returned" ELSE "raised" ELSE at[q]
      /\ \A q \in Requests : charged'[q] = IF q = r THEN IF options[r].budgeted THEN sessions ELSE 0 ELSE charged[q]
  BY <1>3, ZenonT(60) DEF Answers, TypeOK, s
<1>8. charged[r] = 0 /\ ~ Marks(s, "watchdog.record-spend") /\ ~ Marks(s, "watchdog.loop-detect")
  BY <1>2 DEF LInv, LedgerInv, Watchdog, s
<1>9. \A q \in Requests : LedgerInv(q)'
  <2>1. LedgerInv(r)'
    <3>1. /\ trail'[r] = s \o t /\ at'[r] \in {"returned", "raised"} /\ options'[r] = options[r]
          /\ charged'[r] = IF options[r].budgeted THEN sessions ELSE 0
      BY <1>2, <1>7, ZenonT(60)
    <3>2. Answered(s \o t) /\ (Marks(s \o t, "watchdog.record-spend") <=> options[r].budgeted)
      BY <1>1, <1>6, <1>8
    <3>3. charged'[r] # 0 <=> options[r].budgeted
      BY <1>3, <3>1
    <3> QED BY <3>1, <3>2, <3>3, ZenonT(60) DEF LedgerInv
  <2>2. ASSUME NEW q \in Requests, q # r PROVE LedgerInv(q)'
    BY <1>2, <1>7, <2>2 DEF LInv, LedgerInv
  <2> QED BY <2>1, <2>2
<1>10. session # NONE =>
          /\ r \notin Charged /\ Charged \in SUBSET Requests
          /\ Charged' = IF options[r].budgeted THEN Charged \cup {r} ELSE Charged
  <2> SUFFICES ASSUME session # NONE
               PROVE  /\ r \notin Charged /\ Charged \in SUBSET Requests
                      /\ Charged' = IF options[r].budgeted THEN Charged \cup {r} ELSE Charged
    OBVIOUS
  <2>1. sessions # 0 /\ sessions' = sessions
    BY <1>2, <1>3
  <2>2. r \notin Charged /\ Charged \in SUBSET Requests
    BY <1>8, <2>1 DEF Charged
  <2>3. \A q \in Requests : q \in Charged' <=> (IF q = r THEN options[r].budgeted ELSE q \in Charged)
    BY <1>7, <2>1 DEF Charged
  <2>4. Charged' \in SUBSET Requests
    BY DEF Charged
  <2> QED BY <2>2, <2>3, <2>4, ZenonT(60)
<1>11. session' # NONE => session'.cost_usd = Spent(Charged)' /\ session'.budget_limit_usd = BudgetLimit
  <2> SUFFICES ASSUME session' # NONE
               PROVE  session'.cost_usd = SumFunctionOnSet(tokens', Charged') /\ session'.budget_limit_usd = BudgetLimit
    BY DEF Spent
  <2>1. session # NONE
    BY <1>3, <1>4
  <2>2. session.cost_usd = Spent(Charged) /\ session.budget_limit_usd = BudgetLimit
    BY <2>1 DEF LInv, AccountInv
  <2>3. /\ SumFunctionOnSet(tokens', Charged) = Spent(Charged)
        /\ SumFunctionOnSet(tokens', Charged \cup {r}) = Spent(Charged) + used
    BY <1>2, <1>3, <1>10, <2>1, SpentWith, ZenonT(60)
  <2> QED BY <1>4, <1>10, <2>1, <2>2, <2>3, ZenonT(60)
<1>12. /\ r \notin Looped /\ Looped \in SUBSET Requests
       /\ Looped' = IF options[r].loop_signal # NONE /\ allowed THEN Looped \cup {r} ELSE Looped
  <2>1. r \notin Looped /\ Looped \in SUBSET Requests
    BY <1>8 DEF Looped, s
  <2>2. Marks(trail'[r], "watchdog.loop-detect") <=> options[r].loop_signal # NONE /\ allowed
    BY <1>1, <1>6, <1>7, <1>8
  <2>3. \A q \in Requests : q # r => (Marks(trail'[q], "watchdog.loop-detect") <=> Marks(trail[q], "watchdog.loop-detect"))
    BY <1>7
  <2>4. \A q \in Requests : q \in Looped' <=> (IF q = r THEN options[r].loop_signal # NONE /\ allowed ELSE q \in Looped)
    BY <2>2, <2>3 DEF Looped
  <2>5. Looped' \in SUBSET Requests
    BY DEF Looped
  <2> QED BY <2>1, <2>4, <2>5, ZenonT(60)
<1>13. context' # NONE => Len(context'.steps) = Cardinality(Looped)' /\ context'.total_tokens = Shown(Looped)'
  <2> SUFFICES ASSUME context' # NONE
               PROVE  /\ Len(context'.steps) = Cardinality(Looped')
                      /\ context'.total_tokens = SumFunctionOnSet(Deltas', Looped')
    BY ZenonT(60) DEF Shown, Deltas
  <2>1. context # NONE
    BY <1>5
  <2>2. Len(context.steps) = Cardinality(Looped) /\ context.total_tokens = Shown(Looped)
    BY <2>1 DEF LInv, AccountInv
  <2>3. /\ SumFunctionOnSet(Deltas', Looped) = Shown(Looped)
        /\ SumFunctionOnSet(Deltas', Looped \cup {r}) = Shown(Looped) + TokenDelta(r, used)
        /\ Cardinality(Looped \cup {r}) = Cardinality(Looped) + 1
    BY <1>2, <1>3, <1>12, SpentWith, ZenonT(60)
  <2>4. CASE options[r].loop_signal # NONE /\ allowed
    BY <1>5, <1>12, <2>1, <2>2, <2>3, <2>4
  <2>5. CASE ~ (options[r].loop_signal # NONE /\ allowed)
    BY <1>5, <1>12, <2>2, <2>3, <2>5
  <2> QED BY <2>4, <2>5
<1>14. ASSUME NEW n \in 1..sessions PROVE SumFunctionOnSet(tokens', Returned(n)') <= BudgetLimit
  <2>1. r \notin Returned(n) /\ Returned(n) \in SUBSET Requests
    BY <1>2 DEF Returned
  <2>2. \A q \in Requests : q # r => (q \in Returned(n)' <=> q \in Returned(n))
    BY <1>7 DEF Returned
  <2>3. Returned(n)' \in SUBSET Requests
    BY DEF Returned
  <2>4. CASE r \notin Returned(n)'
    <3>1. Returned(n)' = Returned(n)
      <4>1. \A q \in Requests : q \in Returned(n)' <=> q \in Returned(n)
        BY <2>1, <2>2, <2>4
      <4> QED BY <2>1, <2>3, <4>1, ZenonT(60)
    <3>2. SumFunctionOnSet(tokens', Returned(n)) = Spent(Returned(n))
      BY <1>2, <1>3, <2>1, SpentWith, ZenonT(60)
    <3>3. Spent(Returned(n)) <= BudgetLimit
      BY DEF LInv, ReturnedInv
    <3> QED BY <3>1, <3>2, <3>3
  <2>5. CASE r \in Returned(n)'
    <3>1. ok /\ charged'[r] = n
      BY <1>7, <2>5 DEF Returned
    <3>2. options[r].budgeted /\ n = sessions /\ allowed
      BY <1>1, <1>7, <3>1
    <3>3. session' # NONE /\ session'.cost_usd <= BudgetLimit
      <4>1. session' # NONE
        BY <1>2, <1>3 DEF IInv, TypeOK
      <4> QED BY <1>4, <1>11, <3>2, <4>1
    <3>4. Returned(n)' \in SUBSET Charged'
      BY <1>2, <3>2 DEF Returned, Charged
    <3>5. IsFiniteSet(Charged') /\ \A q \in Charged' : tokens'[q] \in Nat
      <4>1. Charged' \subseteq Requests
        BY DEF Charged
      <4> QED BY <4>1, BudgetAssumption, FS_Subset DEF IInv, TypeOK
    <3>6. SumFunctionOnSet(tokens', Returned(n)') <= SumFunctionOnSet(tokens', Charged')
      BY <3>4, <3>5, SumOverSubset
    <3>7. SumFunctionOnSet(tokens', Returned(n)') \in Nat
      <4>1. IsFiniteSet(Returned(n)') /\ \A q \in Returned(n)' : tokens'[q] \in Nat
        BY <3>4, <3>5, FS_Subset
      <4> QED BY <4>1, SumType
    <3>8. session'.cost_usd = SumFunctionOnSet(tokens', Charged') /\ session'.cost_usd \in Nat
      BY <1>11, <3>3 DEF Spent, IInv, TypeOK, BudgetSession
    <3> QED BY <3>3, <3>6, <3>7, <3>8, BudgetAssumption
  <2> QED BY <2>4, <2>5
<1>15. ReturnedInv'
  BY <1>2, <1>14, ZenonT(60) DEF ReturnedInv, Spent
<1> QED BY <1>9, <1>11, <1>13, <1>15, ZenonT(60) DEF LInv, AccountInv

\* run() from the answer of the adapter to its end keeps the ledgers.
LEMMA AnsweredKeeps ==
    ASSUME IInv, LInv, NEW r \in Requests, AdapterAnswered(r), IInv'
    PROVE  LInv'
PROOF BY AnsweredEffects, AnswersKeep

\* A new session starts with nobody charged to it.
LEMMA NewSessionKeeps ==
    ASSUME IInv, LInv, CreateSession
    PROVE  LInv'
PROOF
<1>1. /\ sessions' = sessions + 1 /\ session' = NewSession(BudgetLimit) /\ sessions \in Nat
      /\ UNCHANGED <<options, at, trail, tokens, charged, context>>
      /\ \A r \in Requests : charged[r] \in 0..sessions
  BY BudgetAssumption DEF CreateSession, IInv, TypeOK
<1>2. \A r \in Requests : LedgerInv(r)'
  BY <1>1 DEF LInv, LedgerInv
<1>3. Charged' = {} /\ Looped' = Looped
  BY <1>1 DEF Charged, Looped
<1>4. AccountInv'
  <2>1. session'.cost_usd = 0 /\ session'.budget_limit_usd = BudgetLimit
    BY <1>1 DEF NewSession
  <2>2. SumFunctionOnSet(tokens', Charged') = 0
    BY <1>3, SumOfEmpty
  <2> QED BY <1>1, <1>3, <2>1, <2>2 DEF LInv, AccountInv, Spent, Shown, TokenDelta
<1>5. ASSUME NEW n \in 1..sessions' PROVE SumFunctionOnSet(tokens', Returned(n)') <= BudgetLimit
  <2>1. CASE n \in 1..sessions
    BY <1>1, <2>1 DEF LInv, ReturnedInv, Returned, Spent
  <2>2. CASE n = sessions + 1
    <3>1. Returned(n)' = {}
      BY <1>1, <2>2 DEF Returned
    <3> QED BY <3>1, SumOfEmpty, BudgetAssumption
  <2> QED BY <1>1, <2>1, <2>2
<1>6. ReturnedInv'
  BY <1>5 DEF ReturnedInv, Spent
<1> QED BY <1>2, <1>4, <1>6 DEF LInv

\* The ledgers agree at the start, with every request still to be run.
LEMMA LedgersInitially ==
    Init => LInv
PROOF
<1> SUFFICES ASSUME Init PROVE LInv
  OBVIOUS
<1>1. ASSUME NEW stage PROVE ~ Marks(<<>>, stage)
  BY DEF Marks
<1>2. ~ Answered(<<>>)
  BY DEF Answered
<1>3. ASSUME NEW r \in Requests PROVE LedgerInv(r) /\ ~ Marks(trail[r], "watchdog.loop-detect")
  <2>1. trail[r] = <<>> /\ charged[r] = 0
    BY DEF Init
  <2> QED BY <1>1, <1>2, <2>1 DEF LedgerInv
<1>4. Looped = {}
  BY <1>3 DEF Looped
<1>5. AccountInv
  <2>1. context # NONE => Len(context.steps) = 0 /\ context.total_tokens = 0
    BY DEF Init, NewContext
  <2>2. Cardinality(Looped) = 0 /\ Shown(Looped) = 0
    BY <1>4, SumOfEmpty, FS_EmptySet DEF Shown
  <2> QED BY <2>1, <2>2 DEF Init, AccountInv
<1>6. ReturnedInv
  BY DEF Init, ReturnedInv
<1> QED BY <1>3, <1>5, <1>6 DEF LInv

\* The ledgers go on agreeing whatever step is taken.
LEMMA LedgersStep ==
    IInv /\ LInv /\ [Next]_vars => LInv'
PROOF
<1> SUFFICES ASSUME IInv, LInv, [Next]_vars PROVE LInv'
  OBVIOUS
<1>1. CASE CreateSession
  BY <1>1, NewSessionKeeps
<1>2. ASSUME NEW r \in Requests, RequestStep(r) PROVE LInv'
  BY <1>2, UnansweredKeeps, AnsweredKeeps, AdapterAnsweredKeeps DEF RequestStep
<1>3. CASE UNCHANGED vars
  BY <1>3, ZenonT(60) DEF vars, LInv, LedgerInv, AccountInv, ReturnedInv, Spent, Shown, TokenDelta, Charged, Looped, Returned
<1> QED BY <1>1, <1>2, <1>3 DEF Next

\* Both invariants hold throughout.
LEMMA LedgersInvariance ==
    Spec => [](IInv /\ LInv)
PROOF
<1> QED BY Initially, Step, LedgersInitially, LedgersStep, PTL DEF Spec

\* However many requests interleave, and however often the session is replaced, the
\* session has been debited once for every completion of a budgeted request bound to
\* it, also of one that raised afterwards, and the loop detector has counted just the
\* completions it was shown, with their tokens.
THEOREM LedgersMatchAuditHolds == Spec => []LedgersMatchAudit
PROOF
<1>1. ASSUME IInv, LInv PROVE LedgersMatchAudit
  <2>1. ASSUME NEW r \in Requests
        PROVE  /\ Completed(r) <=> Answered(trail[r])
               /\ \A stage : Audited(r, stage) <=> Marks(trail[r], stage)
    <3>1. DOMAIN trail[r] = 1..Len(trail[r])
      BY <1>1 DEF IInv, TypeOK
    <3> QED BY <3>1 DEF Completed, Answered, Audited, Marks
  <2>2. {r \in Requests : Audited(r, "watchdog.loop-detect")} = Looped
    BY <2>1 DEF Looped
  <2>3. \A r \in Requests : /\ charged[r] # 0 <=> options[r].budgeted /\ Completed(r)
                            /\ charged[r] # 0 <=> Audited(r, "watchdog.record-spend")
    BY <1>1, <2>1 DEF LInv, LedgerInv
  <2> QED BY <1>1, <2>2, <2>3, ZenonT(60) DEF LInv, AccountInv, Charged, LedgersMatchAudit
<1> QED BY <1>1, LedgersInvariance, PTL

\* A session may be overdrawn, since check_budget and record_spend are two steps with
\* an await between them; but what callers were given for any one session never costs
\* more than its limit, for any number of concurrent requests.
THEOREM ReturnedWithinLimitHolds == Spec => []ReturnedWithinLimit
PROOF
<1>1. LInv => ReturnedWithinLimit
  BY DEF LInv, ReturnedInv, Returned, ReturnedWithinLimit
<1> QED BY <1>1, LedgersInvariance, PTL
=============================================================================
