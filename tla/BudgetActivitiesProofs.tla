----------------------- MODULE BudgetActivitiesProofs -----------------------
(***************************************************************************)
(* Proofs about BudgetActivities, for any number of workflows, any limit   *)
(* and any number of attempts: a spend is recorded once, and the counter   *)
(* of tokens misses none and counts none more often than it was attempted. *)
(***************************************************************************)
EXTENDS BudgetActivities, SumLemmas

\* The provers, and their seconds, for a leaf that does not name one.
USE ZenonT(3), SMTT(60), ZenonT(60), SMTT(61)

(***************************************************************************)
(* restore_from_history, for any history.                                  *)
(***************************************************************************)
ReplayOf(g, limit, history, n) ==
    IF n = 0 THEN NewSession(limit) ELSE Replay(g[n - 1], history[n])

\* g[n] is the session after n entries of the history.
IsReplay(g, limit, history) == g = [n \in 0..Len(history) |-> ReplayOf(g, limit, history, n)]

\* The loop over the entries is well defined: the sessions after the first m entries
\* give the one after m + 1.
LEMMA ReplayExists ==
    ASSUME NEW limit, NEW history, Len(history) \in Nat
    PROVE  \E g : IsReplay(g, limit, history)
<1> DEFINE Upto(m, g) == \A n \in 0..Len(history) : n <= m => g[n] = ReplayOf(g, limit, history, n)
           T == {m \in Nat : \E g : Upto(m, g)}
<1>1. 0 \in T
  <2>1. Upto(0, [n \in 0..Len(history) |-> NewSession(limit)])
    BY DEF ReplayOf
  <2>2. \E g : Upto(0, g)
    <3> HIDE DEF Upto
    <3> QED BY <2>1
  <2> QED BY <2>2
<1>2. ASSUME NEW m \in Nat, m \in T
      PROVE  m + 1 \in T
  <2>1. PICK g : Upto(m, g)
    BY <1>2
  <2> DEFINE h == [n \in 0..Len(history) |-> ReplayOf(g, limit, history, n)]
  <2>2. ASSUME NEW n \in 0..Len(history), n <= m + 1
        PROVE  h[n] = ReplayOf(h, limit, history, n)
    <3>1. CASE n = 0
        BY <3>1 DEF ReplayOf
    <3>2. CASE n # 0
      <4>1. n - 1 \in 0..Len(history) /\ n - 1 <= m
        BY <2>2, <3>2
      <4>2. g[n - 1] = h[n - 1]
        BY <2>1, <4>1
      <4> QED BY <3>2, <4>2 DEF ReplayOf
    <3> QED BY <3>1, <3>2
  <2>3. Upto(m + 1, h)
    BY <2>2
  <2>4. \E k : Upto(m + 1, k)
    <3> HIDE DEF Upto, h
    <3> QED BY <2>3
  <2> QED BY <2>4
<1>3. Len(history) \in T
  <2> HIDE DEF T
  <2> QED BY <1>1, <1>2, NatInductionOnSet
<1>4. PICK g : Upto(Len(history), g)
    BY <1>3
<1> DEFINE h == [n \in 0..Len(history) |-> ReplayOf(g, limit, history, n)]
<1>5. \A n \in 0..Len(history) : h[n] = g[n]
    BY <1>4
<1>6. ASSUME NEW n \in 0..Len(history)
      PROVE  ReplayOf(g, limit, history, n) = ReplayOf(h, limit, history, n)
  <2>1. CASE n = 0
    BY <2>1 DEF ReplayOf
  <2>2. CASE n # 0
    <3>1. h[n - 1] = g[n - 1]
        BY <1>5, <2>2
    <3> HIDE DEF h
    <3> QED BY <2>2, <3>1 DEF ReplayOf
  <2> QED BY <2>1, <2>2
<1> QED BY <1>6, ZenonT(60) DEF IsReplay

\* What restore_from_history returns is the last of these sessions.
LEMMA RestoreUnfold ==
    ASSUME NEW limit, NEW history, Len(history) \in Nat
    PROVE  \E g : IsReplay(g, limit, history) /\ RestoreFromHistory(limit, history) = g[Len(history)]
<1> DEFINE restored == CHOOSE g : IsReplay(g, limit, history)
<1>1. IsReplay(restored, limit, history)
    BY ReplayExists
<1>2. RestoreFromHistory(limit, history) = restored[Len(history)]
    BY DEF RestoreFromHistory, IsReplay, ReplayOf
<1> QED BY <1>1, <1>2, ZenonT(60)

\* An empty history restores a new session.
LEMMA RestoreNothing ==
    ASSUME NEW limit
    PROVE  RestoreFromHistory(limit, <<>>) = NewSession(limit)
<1>1. Len(<<>>) = 0
    OBVIOUS
<1>2. PICK g : IsReplay(g, limit, <<>>) /\ RestoreFromHistory(limit, <<>>) = g[0]
    BY <1>1, RestoreUnfold
<1> QED BY <1>1, <1>2 DEF IsReplay, ReplayOf

\* Recovery goes entry by entry: one more entry in the history is one more entry
\* replayed in the session that the history restored without it.
THEOREM RestoreAppend ==
    ASSUME NEW S, NEW limit, NEW history \in Seq(S), NEW entry \in S
    PROVE  RestoreFromHistory(limit, Append(history, entry))
              = Replay(RestoreFromHistory(limit, history), entry)
<1> DEFINE longer == Append(history, entry)
           m == Len(history)
<1>1. /\ m \in Nat /\ Len(longer) = m + 1 /\ longer[m + 1] = entry
      /\ \A n \in 1..m : longer[n] = history[n]
    OBVIOUS
<1> HIDE DEF longer
<1>2. PICK g : IsReplay(g, limit, history) /\ RestoreFromHistory(limit, history) = g[m]
    BY <1>1, RestoreUnfold
<1>3. PICK h : IsReplay(h, limit, longer) /\ RestoreFromHistory(limit, longer) = h[m + 1]
    BY <1>1, RestoreUnfold
<1> HIDE DEF m
<1>4. \A n \in 0..m : g[n] = ReplayOf(g, limit, history, n)
    BY <1>1, <1>2 DEF IsReplay, m
<1>5. \A n \in 0..(m + 1) : h[n] = ReplayOf(h, limit, longer, n)
    BY <1>1, <1>3, ZenonT(60) DEF IsReplay
<1> DEFINE T == {n \in Nat : n <= m => g[n] = h[n]}
<1>6. 0 \in T
    BY <1>1, <1>4, <1>5 DEF ReplayOf
<1>7. ASSUME NEW n \in Nat, n \in T
      PROVE  n + 1 \in T
  <2> SUFFICES ASSUME n + 1 <= m PROVE g[n + 1] = h[n + 1]
    OBVIOUS
  <2>1. n + 1 \in 0..m /\ n + 1 \in 1..m /\ n + 1 \in 0..(m + 1) /\ (n + 1) - 1 = n /\ g[n] = h[n]
    BY <1>1, <1>7
  <2>2. g[n + 1] = Replay(g[n], history[n + 1])
    BY <1>4, <2>1 DEF ReplayOf
  <2>3. h[n + 1] = Replay(h[n], longer[n + 1])
    BY <1>5, <2>1 DEF ReplayOf
  <2> QED BY <1>1, <2>1, <2>2, <2>3
<1>8. m \in T
  <2> HIDE DEF T
  <2> QED BY <1>1, <1>6, <1>7, NatInductionOnSet
<1>9. h[m + 1] = Replay(h[m], entry)
  <2>1. m + 1 \in 0..(m + 1) /\ (m + 1) - 1 = m /\ m + 1 # 0
    BY <1>1
  <2> QED BY <1>1, <1>5, <2>1 DEF ReplayOf
<1> QED BY <1>1, <1>2, <1>3, <1>8, <1>9 DEF longer

(***************************************************************************)
(* The inductive invariant.                                                *)
(***************************************************************************)
\* The history entry of the completion of w.
Entry(w) == [operation_id |-> w, amount_usd |-> tokens_used[w], tokens_used |-> tokens_used[w]]

\* A history holds nothing before BudgetRecordSpend has completed and the one entry
\* after it; a reply under way that will complete an activity tells of the completion it
\* was made for, and an attempt that goes on alone belongs to a workflow that has failed.
HistoryInv(w) ==
    /\ at[w] \in {"BudgetPreCheck", "LLMInvoke"} => tokens_used[w] = 0 /\ attempt[w] = 1
    /\ at[w] = "completed" =>
          budget_history[w] = <<Entry(w)>> /\ budget_spent_usd[w] = tokens_used[w] /\ tokens_used[w] <= BudgetLimit
    /\ at[w] # "completed" => budget_history[w] = <<>> /\ budget_spent_usd[w] \in {NONE, 0}
    /\ results[w] # NONE =>
          \/ /\ at[w] = "BudgetPreCheck"
             /\ results[w].history = <<>> /\ results[w].cost_usd = 0 /\ results[w].raised # "retryable"
          \/ /\ at[w] = "BudgetRecordSpend"
             /\ results[w].raised = "none" =>
                   /\ results[w].history = <<Entry(w)>> /\ results[w].cost_usd = tokens_used[w]
                   /\ tokens_used[w] <= BudgetLimit
    /\ \A late \in abandoned : late.workflow = w => at[w] = "failed"

\* How often the body of BudgetRecordSpend has debited the session for w, as far as the
\* attempt and what has become of it tell.
RunsOf(w, runs) ==
    /\ runs <= attempt[w]
    /\ at[w] \in {"BudgetPreCheck", "LLMInvoke"} => runs = 0
    /\ at[w] = "BudgetRecordSpend" /\ results[w] = NONE => runs < attempt[w]
    /\ at[w] = "BudgetRecordSpend" /\ results[w] # NONE /\ results[w].raised = "none" => runs > 0
    /\ at[w] = "completed" => runs > 0
    /\ [workflow |-> w, activity |-> "BudgetRecordSpend"] \in abandoned => runs < attempt[w]

\* The tokens that the runs of the bodies have counted, workflow by workflow.
Counted(runs) == [w \in Workflows |-> runs[w] * tokens_used[w]]

Counts(runs) ==
    /\ tokens_consumed = Sum(Counted(runs))
    /\ \A w \in Workflows : RunsOf(w, runs[w])

\* Every run of a body has added the tokens of its completion to the counter.
CounterInv == \E runs \in [Workflows -> 0..MaximumAttempts] : Counts(runs)

\* The inductive invariant.
IInv == TypeOK /\ (\A w \in Workflows : HistoryInv(w)) /\ CounterInv

\* The two histories that occur restore a new session and one with the completion in it.
LEMMA RestoredSessions ==
    ASSUME TypeOK, NEW w \in Workflows
    PROVE  /\ budget_history[w] = <<>> => Restored(w) = NewSession(BudgetLimit)
           /\ budget_history[w] = <<Entry(w)>> => Restored(w).cost_usd = tokens_used[w]
<1>1. budget_history[w] = <<>> => Restored(w) = NewSession(BudgetLimit)
    BY RestoreNothing DEF Restored
<1>2. ASSUME budget_history[w] = <<Entry(w)>>
      PROVE  Restored(w).cost_usd = tokens_used[w]
  <2>1. Entry(w) \in HistoryEntry
    BY DEF Entry, HistoryEntry, TypeOK
  <2>2. <<Entry(w)>> = Append(<<>>, Entry(w)) /\ <<>> \in Seq(HistoryEntry)
    OBVIOUS
  <2>3. Restored(w) = Replay(NewSession(BudgetLimit), Entry(w))
    <3>1. \A history \in Seq(HistoryEntry), entry \in HistoryEntry :
              RestoreFromHistory(BudgetLimit, Append(history, entry))
                 = Replay(RestoreFromHistory(BudgetLimit, history), entry)
        BY RestoreAppend
    <3> QED BY <1>2, <2>1, <2>2, <3>1, RestoreNothing, ZenonT(60) DEF Restored
  <2>4. tokens_used[w] \in Nat /\ BudgetLimit \in Nat
    BY BoundsAssumption DEF TypeOK
  <2>5. tokens_used[w] * ResolveCostPerToken(Entry(w)) = tokens_used[w]
    <3>1. CASE tokens_used[w] = 0
        BY <3>1 DEF ResolveCostPerToken, Entry
    <3>2. CASE tokens_used[w] # 0
      <4>1. \A t \in Nat : t # 0 => t \div t = 1
        OBVIOUS
      <4>2. ResolveCostPerToken(Entry(w)) = 1
        BY <2>4, <3>2, <4>1 DEF ResolveCostPerToken, Entry
      <4> QED BY <2>4, <4>2
    <3> QED BY <3>1, <3>2
  <2>6. ~ Exceeded(NewSession(BudgetLimit))
    BY <2>4 DEF Exceeded, NewSession
  <2>7. Restored(w).cost_usd = 0 + tokens_used[w] * ResolveCostPerToken(Entry(w))
    BY <2>3, <2>6 DEF Replay, RecordTokens, RecordSpend, NewSession, Entry
  <2> QED BY <2>4, <2>5, <2>7
<1> QED BY <1>1, <1>2

\* What BudgetRecordSpend makes of an empty history.
LEMMA RecordedSession ==
    ASSUME TypeOK, NEW w \in Workflows, budget_history[w] = <<>>,
           NEW session, session = Debited(w)
    PROVE  /\ session \in BudgetSession(Workflows)
           /\ session.cost_usd = tokens_used[w] /\ session.tokens_used = tokens_used[w]
           /\ Exceeded(session) <=> tokens_used[w] > BudgetLimit
           /\ w \notin Restored(w).applied_operation_ids
           /\ Append(budget_history[w], Entry(w)) = <<Entry(w)>>
<1>1. tokens_used[w] \in Nat /\ BudgetLimit \in Nat
    BY BoundsAssumption DEF TypeOK
<1>2. Restored(w) = NewSession(BudgetLimit)
    BY RestoredSessions
<1>3. session = [budget_limit_usd |-> BudgetLimit, cost_usd |-> 0 + tokens_used[w] * 1,
                 tokens_used |-> 0 + tokens_used[w],
                 alerts |-> 0 + (IF 0 + tokens_used[w] * 1 > BudgetLimit THEN 1 ELSE 0),
                 applied_operation_ids |-> {} \cup {w}]
    BY <1>2 DEF Debited, RecordTokens, RecordSpend, NewSession
<1>4. 0 + tokens_used[w] * 1 = tokens_used[w] /\ 0 + tokens_used[w] = tokens_used[w]
    BY <1>1
<1>5. session \in BudgetSession(Workflows)
  <2>1. 0 + (IF tokens_used[w] > BudgetLimit THEN 1 ELSE 0) \in Nat /\ {} \cup {w} \in SUBSET Workflows
    OBVIOUS
  <2>2. \A cost, used, alerts \in Nat, ids \in SUBSET Workflows :
            [budget_limit_usd |-> BudgetLimit, cost_usd |-> cost, tokens_used |-> used,
             alerts |-> alerts, applied_operation_ids |-> ids] \in BudgetSession(Workflows)
    BY <1>1 DEF BudgetSession
  <2> QED BY <1>1, <1>3, <1>4, <2>1, <2>2, ZenonT(60)
<1>6. Exceeded(session) <=> tokens_used[w] > BudgetLimit
    BY <1>3, <1>4 DEF Exceeded
<1>7. w \notin Restored(w).applied_operation_ids
    BY <1>2 DEF NewSession
<1> QED BY <1>3, <1>4, <1>5, <1>6, <1>7

\* The reply of the body of BudgetRecordSpend, and what it adds to the counter.
LEMMA RecordSpendReplies ==
    ASSUME TypeOK, NEW w \in Workflows, HistoryInv(w), BudgetRecordSpend(w)
    PROVE  \E reply \in Replies :
              /\ results' = [results EXCEPT ![w] = reply]
              /\ reply.history = <<Entry(w)>> /\ reply.cost_usd = tokens_used[w]
              /\ reply.raised = "none" => tokens_used[w] <= BudgetLimit
              /\ registered' \in BudgetSession(Workflows)
              /\ tokens_consumed' = tokens_consumed + tokens_used[w]
<1> DEFINE session == Debited(w)
<1>1. budget_history[w] = <<>>
    BY DEF BudgetRecordSpend, HistoryInv
<1>2. /\ session \in BudgetSession(Workflows)
      /\ session.cost_usd = tokens_used[w] /\ session.tokens_used = tokens_used[w]
      /\ Exceeded(session) <=> tokens_used[w] > BudgetLimit
      /\ w \notin Restored(w).applied_operation_ids
      /\ Append(budget_history[w], Entry(w)) = <<Entry(w)>>
    BY <1>1, RecordedSession, ZenonT(60)
<1>3. registered' = session /\ tokens_consumed' = tokens_consumed + session.tokens_used
    BY DEF BudgetRecordSpend
<1> HIDE DEF session
<1>4. PICK raised \in IF Exceeded(session) THEN {"BudgetExceededError"} ELSE {"none", "retryable"} :
         results' = [results EXCEPT ![w] = Reply(raised, session, <<Entry(w)>>)]
    BY <1>2, ZenonT(60) DEF BudgetRecordSpend, Entry, session
<1> DEFINE reply == Reply(raised, session, <<Entry(w)>>)
<1>5. tokens_used[w] \in Nat /\ BudgetLimit \in Nat /\ <<Entry(w)>> \in Seq(HistoryEntry)
    BY BoundsAssumption DEF TypeOK, Entry, HistoryEntry
<1>6. /\ reply \in Replies /\ reply.history = <<Entry(w)>> /\ reply.cost_usd = tokens_used[w]
      /\ reply.raised = raised
    BY <1>2, <1>5 DEF Reply, Replies
<1>7. raised = "none" => tokens_used[w] <= BudgetLimit
    BY <1>2, <1>4, <1>5
<1> HIDE DEF reply
<1> QED BY <1>2, <1>3, <1>4, <1>6, <1>7, ZenonT(60) DEF reply

\* An attempt that raises before the debit has counted nothing, and says nothing.
LEMMA RecordSpendRaises ==
    ASSUME TypeOK, NEW w \in Workflows, HistoryInv(w), BudgetRecordSpendRaises(w)
    PROVE  \E reply \in Replies :
              /\ results' = [results EXCEPT ![w] = reply] /\ reply.raised = "retryable"
              /\ registered' \in BudgetSession(Workflows) \cup {NONE}
              /\ tokens_consumed' = tokens_consumed
<1>1. budget_history[w] = <<>> /\ BudgetLimit \in Nat
    BY BoundsAssumption DEF BudgetRecordSpendRaises, HistoryInv
<1>2. Restored(w) = NewSession(BudgetLimit)
    BY <1>1, RestoredSessions
<1>3. /\ NewSession(BudgetLimit) \in BudgetSession(Workflows)
      /\ NewSession(BudgetLimit).tokens_used = 0 /\ NewSession(BudgetLimit).cost_usd = 0
    BY <1>1 DEF NewSession, BudgetSession
<1> DEFINE reply == Reply("retryable", Restored(w), budget_history[w])
<1>4. reply \in Replies /\ reply.raised = "retryable"
    BY <1>1, <1>2, <1>3 DEF Reply, Replies
<1>5. results' = [results EXCEPT ![w] = reply]
    BY DEF BudgetRecordSpendRaises
<1>6. registered' \in BudgetSession(Workflows) \cup {NONE} /\ tokens_consumed' = tokens_consumed
    BY <1>2, <1>3 DEF BudgetRecordSpendRaises, TypeOK
<1> HIDE DEF reply
<1> QED BY <1>4, <1>5, <1>6

\* An attempt that goes on alone counts nothing, or the tokens of its completion.
LEMMA AbandonedCounts ==
    ASSUME TypeOK, NEW late \in abandoned, HistoryInv(late.workflow), AbandonedRuns(late)
    PROVE  /\ late.workflow \in Workflows /\ at[late.workflow] = "failed"
           /\ registered' \in BudgetSession(Workflows)
           /\ \/ tokens_consumed' = tokens_consumed
              \/ /\ late = [workflow |-> late.workflow, activity |-> "BudgetRecordSpend"]
                 /\ tokens_consumed' = tokens_consumed + tokens_used[late.workflow]
<1> DEFINE w == late.workflow
<1>1. w \in Workflows /\ late = [workflow |-> w, activity |-> late.activity]
    BY DEF TypeOK
<1>2. at[w] = "failed" /\ budget_history[w] = <<>> /\ BudgetLimit \in Nat
    BY BoundsAssumption DEF HistoryInv
<1> HIDE DEF w
<1>3. Restored(w) = NewSession(BudgetLimit)
    BY <1>1, <1>2, RestoredSessions
<1>4. NewSession(BudgetLimit) \in BudgetSession(Workflows) /\ NewSession(BudgetLimit).tokens_used = 0
    BY <1>2 DEF NewSession, BudgetSession
<1>5. Debited(w) \in BudgetSession(Workflows) /\ Debited(w).tokens_used = tokens_used[w]
    BY <1>1, <1>2, RecordedSession, ZenonT(60)
<1>6. \/ registered' = Restored(w) /\ tokens_consumed' = tokens_consumed + Restored(w).tokens_used
      \/ /\ late.activity = "BudgetRecordSpend" /\ registered' = Debited(w)
         /\ tokens_consumed' = tokens_consumed + Debited(w).tokens_used
    BY DEF AbandonedRuns, w
<1>7. CASE registered' = Restored(w) /\ tokens_consumed' = tokens_consumed + Restored(w).tokens_used
  <2>1. tokens_consumed' = tokens_consumed
    BY <1>3, <1>4, <1>7 DEF TypeOK
  <2> QED BY <1>1, <1>2, <1>3, <1>4, <1>7, <2>1 DEF w
<1>8. CASE /\ late.activity = "BudgetRecordSpend" /\ registered' = Debited(w)
           /\ tokens_consumed' = tokens_consumed + Debited(w).tokens_used
    BY <1>1, <1>2, <1>5, <1>8 DEF w
<1> QED BY <1>6, <1>7, <1>8

\* Before the first activity every variable has its type.
LEMMA TypeInit == Init => TypeOK
BY BoundsAssumption DEF Init, TypeOK, Replies

\* Every activity, timeout and crash keeps the types.
LEMMA TypeStep ==
    ASSUME TypeOK, \A w \in Workflows : HistoryInv(w), [Next]_vars
    PROVE  TypeOK'
<1> USE DEF TypeOK
<1>0. BudgetLimit \in Nat /\ MaxTokens \in Nat /\ MaximumAttempts \in Nat \ {0}
    BY BoundsAssumption
<1>1. CASE UNCHANGED vars
    BY <1>1 DEF vars, workflowVars
<1>2. CASE WorkerCrash
  <2>1. results' \in [Workflows -> Replies \cup {NONE}]
    BY <1>2, ZenonT(60) DEF WorkerCrash, Replies
  <2> QED BY <1>2, <2>1 DEF WorkerCrash, workflowVars
<1>3. ASSUME NEW w \in Workflows, WorkflowStep(w)
      PROVE  TypeOK'
  <2>1. CASE BudgetPreCheck(w)
    <3>1. Restored(w) = NewSession(BudgetLimit)
        BY <2>1, RestoredSessions DEF BudgetPreCheck, HistoryInv
    <3>2. NewSession(BudgetLimit) \in BudgetSession(Workflows) /\ NewSession(BudgetLimit).tokens_used = 0
          /\ NewSession(BudgetLimit).cost_usd = 0
        BY <1>0 DEF NewSession, BudgetSession
    <3>3. budget_history[w] \in Seq(HistoryEntry)
        OBVIOUS
    <3>4. results' \in [Workflows -> Replies \cup {NONE}]
        BY <2>1, <3>1, <3>2, <3>3 DEF BudgetPreCheck, Reply, Replies
    <3> QED BY <2>1, <3>1, <3>2, <3>4 DEF BudgetPreCheck, workflowVars
  <2>2. CASE LLMInvoke(w)
    BY <2>2, ZenonT(60) DEF LLMInvoke
  <2>3. CASE BudgetRecordSpend(w)
    <3>1. PICK reply \in Replies :
             /\ results' = [results EXCEPT ![w] = reply]
             /\ registered' \in BudgetSession(Workflows)
             /\ tokens_consumed' = tokens_consumed + tokens_used[w]
        BY <2>3, RecordSpendReplies
    <3>2. tokens_used[w] \in Nat
        BY <1>0
    <3> QED BY <2>3, <3>1, <3>2 DEF BudgetRecordSpend, workflowVars
  <2>4. CASE Completed(w)
    <3>1. results[w] \in Replies
        BY <2>4 DEF Completed
    <3> QED BY <2>4, <3>1 DEF Completed, Replies
  <2>5. CASE Retried(w)
    BY <1>0, <2>5 DEF Retried
  <2>6. CASE Failed(w)
    <3>1. abandoned' \subseteq [workflow : Workflows, activity : {"BudgetPreCheck", "BudgetRecordSpend"}]
      <4>1. CASE results[w] # NONE \/ at[w] = "LLMInvoke"
        BY <2>6, <4>1 DEF Failed
      <4>2. CASE ~ (results[w] # NONE \/ at[w] = "LLMInvoke")
        <5>1. abandoned' = abandoned \cup {[workflow |-> w, activity |-> at[w]]}
            BY <2>6, <4>2, ZenonT(60) DEF Failed
        <5>2. at[w] \in {"BudgetPreCheck", "BudgetRecordSpend"}
            BY <2>6, <4>2 DEF Failed
        <5> QED BY <5>1, <5>2
      <4> QED BY <4>1, <4>2
    <3> QED BY <2>6, <3>1 DEF Failed
  <2>7. CASE BudgetRecordSpendRaises(w)
    <3>1. PICK reply \in Replies :
             /\ results' = [results EXCEPT ![w] = reply]
             /\ registered' \in BudgetSession(Workflows) \cup {NONE}
             /\ tokens_consumed' = tokens_consumed
        BY <2>7, RecordSpendRaises
    <3> QED BY <2>7, <3>1 DEF BudgetRecordSpendRaises, workflowVars
  <2> QED BY <1>3, <2>1, <2>2, <2>3, <2>4, <2>5, <2>6, <2>7 DEF WorkflowStep
<1>4. ASSUME NEW late \in abandoned, AbandonedRuns(late)
      PROVE  TypeOK'
  <2>1. late.workflow \in Workflows
    OBVIOUS
  <2>2. /\ registered' \in BudgetSession(Workflows)
        /\ \/ tokens_consumed' = tokens_consumed
           \/ tokens_consumed' = tokens_consumed + tokens_used[late.workflow]
    BY <1>4, <2>1, AbandonedCounts
  <2>3. tokens_consumed' \in Nat
    BY <1>0, <2>1, <2>2
  <2> QED BY <1>4, <2>2, <2>3 DEF AbandonedRuns, workflowVars
<1> QED BY <1>1, <1>2, <1>3, <1>4 DEF Next

\* The histories are empty at the start.
LEMMA HistoryInit == Init => \A w \in Workflows : HistoryInv(w)
BY DEF Init, HistoryInv

\* What a workflow does leaves the others' histories and replies as they were.
LEMMA HistoryFrame ==
    ASSUME NEW v, HistoryInv(v),
           at'[v] = at[v], tokens_used'[v] = tokens_used[v], attempt'[v] = attempt[v],
           budget_history'[v] = budget_history[v], budget_spent_usd'[v] = budget_spent_usd[v],
           results'[v] = results[v],
           \A late \in abandoned' : late.workflow = v => late \in abandoned
    PROVE  HistoryInv(v)'
BY DEF HistoryInv, Entry

\* The steps of one workflow are its own.
LEMMA OthersKept ==
    ASSUME TypeOK, NEW w \in Workflows, WorkflowStep(w), NEW v \in Workflows, v # w
    PROVE  /\ at'[v] = at[v] /\ tokens_used'[v] = tokens_used[v] /\ attempt'[v] = attempt[v]
           /\ budget_history'[v] = budget_history[v] /\ budget_spent_usd'[v] = budget_spent_usd[v]
           /\ results'[v] = results[v]
           /\ \A late \in abandoned' : late.workflow = v => late \in abandoned
<1>1. CASE BudgetPreCheck(w)
    BY <1>1 DEF BudgetPreCheck, workflowVars, TypeOK
<1>2. CASE LLMInvoke(w)
    BY <1>2 DEF LLMInvoke, TypeOK
<1>3. CASE BudgetRecordSpend(w)
    BY <1>3 DEF BudgetRecordSpend, workflowVars, TypeOK
<1>4. CASE BudgetRecordSpendRaises(w)
    BY <1>4 DEF BudgetRecordSpendRaises, workflowVars, TypeOK
<1>5. CASE Completed(w)
    BY <1>5 DEF Completed, TypeOK
<1>6. CASE Retried(w)
    BY <1>6 DEF Retried, TypeOK
<1>7. CASE Failed(w)
    BY <1>7 DEF Failed, TypeOK
<1> QED BY <1>1, <1>2, <1>3, <1>4, <1>5, <1>6, <1>7 DEF WorkflowStep

\* No step of an activity or of the workflow that takes its reply disturbs a history.
LEMMA HistoryStep ==
    ASSUME TypeOK, \A w \in Workflows : HistoryInv(w), [Next]_vars
    PROVE  \A w \in Workflows : HistoryInv(w)'
<1>0. BudgetLimit \in Nat
    BY BoundsAssumption
<1>1. CASE UNCHANGED vars
    BY <1>1, HistoryFrame DEF vars, workflowVars
<1>2. CASE WorkerCrash
  <2> SUFFICES ASSUME NEW v \in Workflows PROVE HistoryInv(v)'
    OBVIOUS
  <2>1. CASE results[v] = NONE
    BY <1>2, <2>1, HistoryFrame, ZenonT(60) DEF WorkerCrash, workflowVars
  <2>2. CASE results[v] # NONE
    <3>1. results[v] \in Replies
        BY <2>2 DEF TypeOK
    <3>2. results'[v].raised = "lost" /\ results'[v].cost_usd = results[v].cost_usd
          /\ results'[v].history = results[v].history
        BY <1>2, <2>2, <3>1 DEF WorkerCrash, Replies
    <3>3. HistoryInv(v)
        OBVIOUS
    <3> QED BY <1>2, <2>2, <3>2, <3>3 DEF WorkerCrash, workflowVars, HistoryInv, Entry
  <2> QED BY <2>1, <2>2
<1>3. ASSUME NEW w \in Workflows, WorkflowStep(w), NEW v \in Workflows, v # w
      PROVE  HistoryInv(v)'
  BY <1>3, OthersKept, HistoryFrame
<1>4. ASSUME NEW w \in Workflows, WorkflowStep(w)
      PROVE  HistoryInv(w)'
  <2> USE DEF TypeOK
  <2>0. HistoryInv(w)
    OBVIOUS
  <2>1. CASE BudgetPreCheck(w)
    <3>1. budget_history[w] = <<>>
        BY <2>0, <2>1 DEF BudgetPreCheck, HistoryInv
    <3>2. Restored(w).cost_usd = 0
        BY <3>1, RestoredSessions DEF NewSession
    <3>3. results'[w].history = <<>> /\ results'[w].cost_usd = 0 /\ results'[w].raised # "retryable"
        BY <2>1, <3>1, <3>2 DEF BudgetPreCheck, Reply
    <3> QED BY <2>0, <2>1, <3>3 DEF BudgetPreCheck, workflowVars, HistoryInv, Entry
  <2>2. CASE LLMInvoke(w)
    BY <2>0, <2>2 DEF LLMInvoke, HistoryInv, Entry
  <2>3. CASE BudgetRecordSpend(w)
    <3>1. PICK reply \in Replies :
             /\ results' = [results EXCEPT ![w] = reply]
             /\ reply.history = <<Entry(w)>> /\ reply.cost_usd = tokens_used[w]
             /\ reply.raised = "none" => tokens_used[w] <= BudgetLimit
        BY <2>0, <2>3, RecordSpendReplies
    <3> QED BY <2>0, <2>3, <3>1 DEF BudgetRecordSpend, workflowVars, HistoryInv, Entry
  <2>4. CASE Completed(w)
    BY <2>0, <2>4 DEF Completed, HistoryInv, Entry
  <2>5. CASE Retried(w)
    BY <2>0, <2>5 DEF Retried, HistoryInv, Entry
  <2>6. CASE Failed(w)
    <3>1. at'[w] \in {"failed", "BudgetExceededError"} /\ results'[w] = NONE
          /\ UNCHANGED <<attempt, budget_history, budget_spent_usd, tokens_used>>
        BY <2>6 DEF Failed
    <3>2. \A late \in abandoned' : late.workflow = w => at'[w] = "failed"
      <4>1. CASE results[w] # NONE \/ at[w] = "LLMInvoke"
        <5>1. abandoned' = abandoned
            BY <2>6, <4>1 DEF Failed
        <5> QED BY <2>0, <2>6, <5>1 DEF Failed, HistoryInv
      <4>2. CASE results[w] = NONE
        BY <2>6, <4>2 DEF Failed
      <4> QED BY <4>1, <4>2
    <3>3. at[w] # "completed"
        BY <2>6 DEF Failed
    <3> QED BY <2>0, <3>1, <3>2, <3>3 DEF HistoryInv, Entry
  <2>7. CASE BudgetRecordSpendRaises(w)
    <3>1. PICK reply \in Replies : results' = [results EXCEPT ![w] = reply] /\ reply.raised = "retryable"
        BY <2>0, <2>7, RecordSpendRaises
    <3>2. results'[w].raised = "retryable" /\ abandoned' = abandoned
        BY <2>7, <3>1 DEF BudgetRecordSpendRaises
    <3> QED BY <2>0, <2>7, <3>2 DEF BudgetRecordSpendRaises, workflowVars, HistoryInv, Entry
  <2> QED BY <1>4, <2>1, <2>2, <2>3, <2>4, <2>5, <2>6, <2>7 DEF WorkflowStep
<1>5. ASSUME NEW late \in abandoned, AbandonedRuns(late)
      PROVE  \A v \in Workflows : HistoryInv(v)'
  BY <1>5, HistoryFrame DEF AbandonedRuns, workflowVars
<1> QED BY <1>1, <1>2, <1>3, <1>4, <1>5 DEF Next

\* The counter starts at zero, with no body run.
LEMMA CounterInit == Init => CounterInv
<1> SUFFICES ASSUME Init PROVE CounterInv
    OBVIOUS
<1> DEFINE none == [w \in Workflows |-> 0]
<1>1. IsFiniteSet(Workflows) /\ MaximumAttempts \in Nat
    BY BoundsAssumption
<1>2. \A w \in Workflows : Counted(none)[w] = 0 * 0
    BY DEF Counted, Init
<1>3. Sum(Counted(none)) = 0
  <2>1. Sum(Counted(none)) = Sum([w \in Workflows |-> 0 * none[w]])
    BY <1>1, <1>2, SumCongruent DEF Sum
  <2>2. Sum([w \in Workflows |-> 0 * none[w]]) = 0 * Sum(none) /\ Sum(none) \in Nat
    BY <1>1, SumScaled, SumType DEF Sum
  <2> QED BY <2>1, <2>2
<1>4. Counts(none)
    BY <1>1, <1>3 DEF Counts, Init, RunsOf
<1>5. none \in [Workflows -> 0..MaximumAttempts]
    BY <1>1
<1> HIDE DEF none
<1> QED BY <1>4, <1>5 DEF CounterInv

\* The steps of w change nothing else that RunsOf is about.
LEMMA RunsFrame ==
    ASSUME NEW v, NEW runs, RunsOf(v, runs),
           at'[v] = at[v], tokens_used'[v] = tokens_used[v], attempt'[v] = attempt[v],
           \/ results'[v] = results[v]
           \/ results[v] # NONE /\ results'[v] # NONE /\ results'[v].raised # "none",
           \A late \in abandoned' : late.workflow = v => late \in abandoned
    PROVE  RunsOf(v, runs)'
BY DEF RunsOf

\* Every step keeps the counter at what the runs so far have counted.
LEMMA CounterStep ==
    ASSUME TypeOK, \A w \in Workflows : HistoryInv(w), CounterInv, [Next]_vars, TypeOK'
    PROVE  CounterInv'
<1>1. IsFiniteSet(Workflows) /\ MaximumAttempts \in Nat \ {0} /\ MaxTokens \in Nat
    BY BoundsAssumption
<1>2. PICK runs \in [Workflows -> 0..MaximumAttempts] : Counts(runs)
    BY DEF CounterInv
<1>3. \A w \in Workflows : runs[w] \in Nat /\ tokens_used[w] \in Nat /\ attempt[w] \in 1..MaximumAttempts
    BY <1>1, <1>2 DEF Counts, TypeOK
<1>4. ASSUME tokens_used' = tokens_used, tokens_consumed' = tokens_consumed,
             \A w \in Workflows : RunsOf(w, runs[w])'
      PROVE  CounterInv'
  <2>1. Counts(runs)'
    BY <1>2, <1>4 DEF Counts, Counted, Sum
  <2> QED BY <1>2, <2>1 DEF CounterInv
<1>5. CASE UNCHANGED vars
    BY <1>2, <1>4, <1>5, RunsFrame DEF vars, workflowVars, Counts
<1>adds. ASSUME NEW w \in Workflows, runs[w] < attempt[w],
             tokens_used' = tokens_used, tokens_consumed' = tokens_consumed + tokens_used[w],
             \A v \in Workflows : RunsOf(v, IF v = w THEN runs[v] + 1 ELSE runs[v])'
      PROVE  CounterInv'
  <2> DEFINE more == [runs EXCEPT ![w] = @ + 1]
  <2>1. more \in [Workflows -> 0..MaximumAttempts]
    BY <1>1, <1>2, <1>3, <1>adds DEF Counts
  <2>2. \A v \in Workflows : more[v] = IF v = w THEN runs[v] + 1 ELSE runs[v]
    BY <1>2 DEF Counts
  <2> HIDE DEF more
  <2>3. Sum(Counted(more)) = Sum(Counted(runs)) + tokens_used[w]
    <3>1. Counted(more)[w] = Counted(runs)[w] + tokens_used[w]
      <4>1. \A n, t \in Nat : (n + 1) * t = n * t + t
        OBVIOUS
      <4> QED BY <1>3, <2>2, <4>1 DEF Counted
    <3>2. \A v \in Workflows \ {w} : Counted(more)[v] = Counted(runs)[v]
        BY <2>2 DEF Counted
    <3>3. \A v \in Workflows : Counted(runs)[v] \in Nat
        BY <1>3 DEF Counted
    <3> QED BY <1>1, <1>3, <3>1, <3>2, <3>3, SumIncreased DEF Sum
  <2>4. \A v \in Workflows : RunsOf(v, more[v])'
    BY <1>adds, <2>2, ZenonT(60)
  <2>5. Counts(more)'
    BY <1>2, <1>adds, <2>3, <2>4 DEF Counts, Counted, Sum
  <2> QED BY <2>1, <2>5 DEF CounterInv
<1>6. CASE WorkerCrash
  <2>1. ASSUME NEW w \in Workflows
        PROVE  \/ results'[w] = results[w]
               \/ results[w] # NONE /\ results'[w] # NONE /\ results'[w].raised # "none"
    <3>1. CASE results[w] = NONE
        BY <1>6, <3>1 DEF WorkerCrash
    <3>2. CASE results[w] # NONE
      <4>1. results[w] \in Replies /\ results'[w] = [results[w] EXCEPT !.raised = "lost"]
        BY <1>6, <3>2 DEF WorkerCrash, TypeOK
      <4>2. results'[w] \in Replies /\ results'[w].raised = "lost"
        BY <4>1 DEF Replies
      <4> QED BY <3>2, <4>2, BoundsAssumption
    <3> QED BY <3>1, <3>2
  <2>2. \A w \in Workflows : RunsOf(w, runs[w])'
    BY <1>2, <1>6, <2>1, RunsFrame, ZenonT(60) DEF WorkerCrash, workflowVars, Counts
  <2> QED BY <1>4, <1>6, <2>2 DEF WorkerCrash
<1>7. ASSUME NEW w \in Workflows, WorkflowStep(w)
      PROVE  CounterInv'
  <2>1. RunsOf(w, runs[w]) /\ HistoryInv(w) /\ runs[w] \in Nat /\ attempt[w] \in Nat
    BY <1>2, <1>3 DEF Counts
  <2>others. \A v \in Workflows : v # w => RunsOf(v, runs[v])'
    BY <1>2, <1>7, OthersKept, RunsFrame DEF Counts
  <2>2. CASE BudgetPreCheck(w)
    <3>1. Restored(w).tokens_used = 0
        BY <2>1, <2>2, RestoredSessions DEF BudgetPreCheck, HistoryInv, NewSession
    <3>2. tokens_consumed' = tokens_consumed
        BY <2>2, <3>1 DEF BudgetPreCheck, TypeOK
    <3>3. RunsOf(w, runs[w])'
        BY <2>1, <2>2 DEF BudgetPreCheck, workflowVars, RunsOf, TypeOK
    <3> QED BY <1>4, <2>2, <2>others, <3>2, <3>3 DEF BudgetPreCheck
  <2>3. CASE LLMInvoke(w)
    <3>1. runs[w] = 0
        BY <2>1, <2>3 DEF LLMInvoke, RunsOf
    <3>2. \A v \in Workflows : tokens_used'[v] \in Nat /\ (v # w => tokens_used'[v] = tokens_used[v])
        BY <1>1, <2>3 DEF LLMInvoke, TypeOK
    <3>3. \A v \in Workflows : Counted(runs)[v] = Counted(runs)'[v]
        BY <1>3, <3>1, <3>2 DEF Counted
    <3>4. Sum(Counted(runs)) = Sum(Counted(runs)')
        BY <1>1, <3>3, SumCongruent DEF Sum
    <3>5. \A v \in Workflows : RunsOf(v, runs[v])'
      <4>1. RunsOf(w, runs[w])'
        BY <1>3, <2>1, <2>3, <3>1 DEF LLMInvoke, RunsOf, TypeOK, HistoryInv
      <4> QED BY <2>others, <4>1
    <3>6. Counts(runs)'
        BY <1>2, <2>3, <3>4, <3>5 DEF LLMInvoke, Counts, Sum
    <3> QED BY <1>2, <3>6 DEF CounterInv
  <2>4. CASE BudgetRecordSpend(w)
    <3>1. PICK reply \in Replies :
             results' = [results EXCEPT ![w] = reply] /\ tokens_consumed' = tokens_consumed + tokens_used[w]
             /\ (reply.raised = "none" => tokens_used[w] <= BudgetLimit)
        BY <2>1, <2>4, RecordSpendReplies
    <3>2. results'[w] # NONE /\ tokens_used' = tokens_used
        BY <2>4, <3>1, BoundsAssumption DEF BudgetRecordSpend, TypeOK
    <3>3. runs[w] < attempt[w]
        BY <2>1, <2>4 DEF BudgetRecordSpend, RunsOf
    <3>4. \A late \in abandoned' : late.workflow # w
        BY <2>1, <2>4 DEF BudgetRecordSpend, HistoryInv
    <3>5. RunsOf(w, runs[w] + 1)'
        BY <1>3, <2>4, <3>2, <3>3, <3>4 DEF BudgetRecordSpend, workflowVars, RunsOf
    <3>6. \A v \in Workflows : RunsOf(v, IF v = w THEN runs[v] + 1 ELSE runs[v])'
        BY <2>others, <3>5, ZenonT(60)
    <3> QED BY <1>adds, <3>1, <3>2, <3>3, <3>6
  <2>5. CASE Completed(w)
    <3>1. RunsOf(w, runs[w])'
        BY <2>1, <2>5 DEF Completed, RunsOf, TypeOK, HistoryInv
    <3> QED BY <1>4, <2>5, <2>others, <3>1 DEF Completed
  <2>6. CASE Retried(w)
    <3>1. RunsOf(w, runs[w])'
        BY <1>3, <2>1, <2>6 DEF Retried, RunsOf, TypeOK, HistoryInv
    <3> QED BY <1>4, <2>6, <2>others, <3>1 DEF Retried
  <2>7. CASE Failed(w)
    <3>1. at'[w] \in {"failed", "BudgetExceededError"} /\ attempt' = attempt
        BY <2>7 DEF Failed, TypeOK
    <3>2. [workflow |-> w, activity |-> "BudgetRecordSpend"] \in abandoned' => runs[w] < attempt[w]
      <4> DEFINE late == [workflow |-> w, activity |-> "BudgetRecordSpend"]
      <4>1. late \notin abandoned
        BY <2>1, <2>7 DEF Failed, HistoryInv
      <4>2. late \in abandoned' => at[w] = "BudgetRecordSpend" /\ results[w] = NONE
        BY <2>7, <4>1 DEF Failed
      <4> QED BY <2>1, <4>2 DEF RunsOf
    <3>3. RunsOf(w, runs[w])'
        BY <2>1, <3>1, <3>2 DEF RunsOf
    <3> QED BY <1>4, <2>7, <2>others, <3>3 DEF Failed
  <2>8. CASE BudgetRecordSpendRaises(w)
    <3>1. PICK reply \in Replies : /\ results' = [results EXCEPT ![w] = reply] /\ reply.raised = "retryable"
                                   /\ tokens_consumed' = tokens_consumed
        BY <2>1, <2>8, RecordSpendRaises
    <3>2. results'[w].raised = "retryable" /\ results'[w] # NONE
        BY <3>1, BoundsAssumption DEF TypeOK
    <3>3. RunsOf(w, runs[w])'
        BY <2>1, <2>8, <3>2 DEF BudgetRecordSpendRaises, workflowVars, RunsOf
    <3> QED BY <1>4, <2>8, <2>others, <3>1, <3>3 DEF BudgetRecordSpendRaises
  <2> QED BY <1>7, <2>2, <2>3, <2>4, <2>5, <2>6, <2>7, <2>8 DEF WorkflowStep
<1>9. ASSUME NEW late \in abandoned, AbandonedRuns(late)
      PROVE  CounterInv'
  <2> DEFINE w == late.workflow
  <2>1. w \in Workflows
    BY DEF TypeOK
  <2>2. /\ at[w] = "failed"
        /\ \/ tokens_consumed' = tokens_consumed
           \/ /\ late = [workflow |-> w, activity |-> "BudgetRecordSpend"]
              /\ tokens_consumed' = tokens_consumed + tokens_used[w]
    BY <1>9, <2>1, AbandonedCounts
  <2> HIDE DEF w
  <2>3. \A v \in Workflows : RunsOf(v, runs[v])'
    BY <1>2, <1>9, RunsFrame DEF AbandonedRuns, workflowVars, Counts
  <2>4. tokens_used' = tokens_used /\ UNCHANGED <<at, attempt, results>>
    BY <1>9 DEF AbandonedRuns, workflowVars
  <2>5. CASE tokens_consumed' = tokens_consumed
    BY <1>4, <2>3, <2>4, <2>5
  <2>6. CASE /\ late = [workflow |-> w, activity |-> "BudgetRecordSpend"]
             /\ tokens_consumed' = tokens_consumed + tokens_used[w]
    <3>1. runs[w] < attempt[w]
        BY <1>2, <2>1, <2>6 DEF Counts, RunsOf
    <3>2. late \notin abandoned'
        BY <1>9 DEF AbandonedRuns
    <3>3. RunsOf(w, runs[w] + 1)'
        BY <1>3, <2>1, <2>2, <2>4, <2>6, <3>1, <3>2 DEF RunsOf
    <3>4. \A v \in Workflows : RunsOf(v, IF v = w THEN runs[v] + 1 ELSE runs[v])'
        BY <2>3, <3>3, ZenonT(60)
    <3> QED BY <1>adds, <2>1, <2>4, <2>6, <3>1, <3>4
  <2> QED BY <2>2, <2>5, <2>6
<1> QED BY <1>5, <1>6, <1>7, <1>9 DEF Next

(***************************************************************************)
(* The theorems.                                                           *)
(***************************************************************************)
LEMMA InvHolds == Spec => []IInv
<1>1. Init => IInv
    BY TypeInit, HistoryInit, CounterInit DEF IInv
<1>2. IInv /\ [Next]_vars => IInv'
    BY TypeStep, HistoryStep, CounterStep DEF IInv
<1> QED BY <1>1, <1>2, PTL DEF Spec

\* The state of the budget stages keeps its shape: no attempt beyond the policy's, no
\* reply but those of a body, no session but one of the enforcer's.
THEOREM TypeCorrect == Spec => []TypeOK
<1>1. IInv => TypeOK
    BY DEF IInv
<1> QED BY <1>1, InvHolds, PTL

\* However many workflows take turns with the one registered session of the enforcer, and
\* whatever is retried, lost or timed out, the spend run() reports is what a recovery from
\* its history restores, and that of a completed workflow is its one completion, within
\* the limit.
THEOREM SpendRecordedOnceHolds == Spec => []SpendRecordedOnce
<1>1. IInv => SpendRecordedOnce
  <2> SUFFICES ASSUME IInv, NEW w \in Workflows
               PROVE  /\ budget_spent_usd[w] # NONE => budget_spent_usd[w] = Restored(w).cost_usd
                      /\ at[w] = "completed" =>
                            budget_spent_usd[w] = tokens_used[w] /\ budget_spent_usd[w] <= BudgetLimit
    BY DEF SpendRecordedOnce
  <2>1. TypeOK /\ HistoryInv(w)
    BY DEF IInv
  <2>2. budget_history[w] = <<>> => Restored(w).cost_usd = 0
    BY <2>1, RestoredSessions DEF NewSession
  <2>3. budget_history[w] = <<Entry(w)>> => Restored(w).cost_usd = tokens_used[w]
    BY <2>1, RestoredSessions
  <2> QED BY <2>1, <2>2, <2>3 DEF HistoryInv
<1> QED BY <1>1, InvHolds, PTL

\* aegis_tokens_consumed_total misses no completion whose spend was recorded, and counts
\* none more often than its recording may be attempted, for any number of workflows: each
\* run of a body, one that runs after its workflow has failed included, adds the tokens
\* of its own completion, once.
THEOREM TokensCountedHolds == Spec => []TokensCounted
<1>1. IInv => TokensCounted
  <2> SUFFICES ASSUME IInv PROVE TokensCounted
    OBVIOUS
  <2>1. IsFiniteSet(Workflows) /\ MaximumAttempts \in Nat /\ MaxTokens \in Nat
    BY BoundsAssumption
  <2>2. PICK runs \in [Workflows -> 0..MaximumAttempts] : Counts(runs)
    BY DEF IInv, CounterInv
  <2>3. \A w \in Workflows : runs[w] \in Nat /\ runs[w] <= MaximumAttempts /\ tokens_used[w] \in Nat
    BY <2>1 DEF IInv, TypeOK
  <2>4. \A w \in Workflows : Counted(runs)[w] \in Nat
    BY <2>3 DEF Counted
  <2>5. tokens_consumed = Sum(Counted(runs))
    BY <2>2 DEF Counts
  <2> DEFINE ended == [w \in Workflows |->
                         IF at[w] = "completed" THEN tokens_used[w] ELSE 0]
             most == [w \in Workflows |-> MaximumAttempts * tokens_used[w]]
  <2>6. Sum(ended) <= tokens_consumed
    <3>1. \A w \in Workflows : ended[w] \in Nat
        BY <2>3
    <3>2. \A r, t \in Nat : r > 0 => t <= r * t
        OBVIOUS
    <3>3. ASSUME NEW w \in Workflows PROVE ended[w] <= Counted(runs)[w]
      <4>1. RunsOf(w, runs[w])
        BY <2>2 DEF Counts
      <4>2. CASE runs[w] > 0
        BY <2>3, <2>4, <3>2, <4>2 DEF Counted
      <4>3. CASE ~ runs[w] > 0
        <5>1. ended[w] = 0
            BY <4>1, <4>3 DEF RunsOf
        <5> HIDE DEF ended
        <5> QED BY <2>4, <5>1
      <4> QED BY <4>2, <4>3
    <3> HIDE DEF ended
    <3> QED BY <2>1, <2>4, <2>5, <3>1, <3>3, SumMonotonic DEF Sum
  <2>7. tokens_consumed <= MaximumAttempts * Sum(tokens_used)
    <3>1. \A r, m, t \in Nat : r <= m => r * t <= m * t
        OBVIOUS
    <3>2. \A w \in Workflows : most[w] \in Nat /\ Counted(runs)[w] <= most[w]
        BY <2>1, <2>3, <3>1 DEF Counted
    <3>3. Sum(most) = MaximumAttempts * Sum(tokens_used)
        BY <2>1, <2>3, SumScaled DEF Sum
    <3> HIDE DEF most
    <3>4. Sum(Counted(runs)) <= Sum(most)
        BY <2>1, <2>4, <3>2, SumMonotonic DEF Sum
    <3> QED BY <2>5, <3>3, <3>4
  <2> QED BY <2>6, <2>7 DEF TokensCounted
<1> QED BY <1>1, InvHolds, PTL

\* How far the limit of a session can be overdrawn: every workflow that names it is held
\* to the limit by its own history, so that together they spend at most the limit once
\* for each of them.
THEOREM SessionSpendBounded == Spec => [](SessionSpend <= Cardinality(Workflows) * BudgetLimit)
<1>1. IInv => SessionSpend <= Cardinality(Workflows) * BudgetLimit
  <2> SUFFICES ASSUME IInv PROVE SessionSpend <= Cardinality(Workflows) * BudgetLimit
    OBVIOUS
  <2> DEFINE spent == [w \in Workflows |-> IF at[w] = "completed" THEN budget_spent_usd[w] ELSE 0]
  <2>1. IsFiniteSet(Workflows) /\ BudgetLimit \in Nat
    BY BoundsAssumption
  <2>2. ASSUME NEW w \in Workflows PROVE spent[w] \in Nat /\ spent[w] <= BudgetLimit
    <3>1. HistoryInv(w) /\ tokens_used[w] \in Nat
        BY BoundsAssumption DEF IInv, TypeOK
    <3>2. at[w] = "completed" => budget_spent_usd[w] \in Nat /\ budget_spent_usd[w] <= BudgetLimit
        BY <3>1 DEF HistoryInv
    <3> QED BY <2>1, <3>2
  <2> HIDE DEF spent
  <2>3. SumFunctionOnSet(spent, Workflows) <= Cardinality(Workflows) * BudgetLimit
    BY <2>1, <2>2, SumBounded
  <2> QED BY <2>3 DEF SessionSpend, Sum, spent
<1> QED BY <1>1, InvHolds, PTL
=============================================================================
