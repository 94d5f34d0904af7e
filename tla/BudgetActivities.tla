-------------------------- MODULE BudgetActivities --------------------------
(***************************************************************************)
(* The budget stages of several AgentTaskWorkflows that name the same      *)
(* budget_session_id (src/control_plane/scheduler.py).  The spend of a     *)
(* workflow is kept in its own history; BudgetPreCheck and                 *)
(* BudgetRecordSpend rebuild the session from it in the BudgetEnforcer of  *)
(* the worker, which all workflows share.  The body of an activity has no  *)
(* await, so it is one step; its result reaches the workflow in another.   *)
(***************************************************************************)
EXTENDS BudgetEnforcer, Functions, FiniteSets

CONSTANTS
    Workflows,
    BudgetLimit,        \* budget_limit_usd of every workflow
    MaxTokens,          \* bound: tokens one completion uses (at a price of 1)
    MaximumAttempts,    \* RetryPolicy.maximum_attempts of BudgetRecordSpend
    NONE                \* Python's None

HistoryEntry == [operation_id : Workflows, amount_usd : Nat, tokens_used : 0..MaxTokens]

\* What the body of an activity has made of the call, by the error it raised.
Replies ==
    [raised : {"none", "BudgetExceededError", "retryable", "lost"}, cost_usd : Nat, history : Seq(HistoryEntry)]

ASSUME BoundsAssumption ==
    /\ IsFiniteSet(Workflows) /\ NONE \notin Replies
    /\ BudgetLimit \in Nat /\ MaxTokens \in Nat /\ MaximumAttempts \in Nat \ {0}

VARIABLES
    at,                 \* the activity each workflow awaits, or how it ended
    tokens_used,        \* of the completion
    attempt,            \* of BudgetRecordSpend
    budget_history,
    budget_spent_usd,
    results,            \* of a body that has run and is not yet reported
    abandoned,          \* attempts that the server has timed out and a worker still runs
    registered,         \* the session in BudgetEnforcer._sessions
    tokens_consumed     \* the counter aegis_tokens_consumed_total, over all workers

workflowVars == <<at, attempt, budget_history, budget_spent_usd>>
vars == <<workflowVars, tokens_used, results, abandoned, registered, tokens_consumed>>

TypeOK ==
    /\ at \in [Workflows -> {"BudgetPreCheck", "LLMInvoke", "BudgetRecordSpend", "completed",
                             "BudgetExceededError", "failed"}]
    /\ tokens_used \in [Workflows -> 0..MaxTokens]
    /\ attempt \in [Workflows -> 1..MaximumAttempts]
    /\ budget_history \in [Workflows -> Seq(HistoryEntry)]
    /\ budget_spent_usd \in [Workflows -> Nat \cup {NONE}]
    /\ results \in [Workflows -> Replies \cup {NONE}]
    /\ abandoned \subseteq [workflow : Workflows, activity : {"BudgetPreCheck", "BudgetRecordSpend"}]
    /\ registered \in BudgetSession(Workflows) \cup {NONE}
    /\ tokens_consumed \in Nat

Init ==
    /\ at = [w \in Workflows |-> "BudgetPreCheck"]
    /\ tokens_used = [w \in Workflows |-> 0]
    /\ attempt = [w \in Workflows |-> 1]
    /\ budget_history = [w \in Workflows |-> <<>>]
    /\ budget_spent_usd = [w \in Workflows |-> NONE]
    /\ results = [w \in Workflows |-> NONE]
    /\ abandoned = {}
    /\ registered = NONE
    /\ tokens_consumed = 0

-----------------------------------------------------------------------------
\* The operation id is that of the activity call, the same in all its attempts.
Restored(w) == RestoreFromHistory(BudgetLimit, budget_history[w])

Reply(raised, session, history) ==
    [raised |-> raised, cost_usd |-> session.cost_usd, history |-> history]

\* The body of BudgetPreCheck.
BudgetPreCheck(w) ==
    /\ at[w] = "BudgetPreCheck"
    /\ results[w] = NONE
    /\ registered' = Restored(w)
    /\ tokens_consumed' = tokens_consumed + Restored(w).tokens_used
    /\ results' = [results EXCEPT ![w] =
          Reply(IF Exceeded(Restored(w)) \/ Exhausted(Restored(w)) THEN "BudgetExceededError" ELSE "none",
                Restored(w), budget_history[w])]
    /\ UNCHANGED <<workflowVars, tokens_used, abandoned>>

\* LLMInvoke completes.
LLMInvoke(w) ==
    /\ at[w] = "LLMInvoke"
    /\ tokens_used' \in {[tokens_used EXCEPT ![w] = used] : used \in 0..MaxTokens}
    /\ at' = [at EXCEPT ![w] = "BudgetRecordSpend"]
    /\ UNCHANGED <<attempt, budget_history, budget_spent_usd, results, abandoned, registered, tokens_consumed>>

\* Mutant of BudgetRecordSpend: the session is taken from the enforcer as it stands.
BudgetRecordSpendShared(w) ==
    LET session == RecordTokens(IF registered = NONE THEN Restored(w) ELSE registered, tokens_used[w], 1, {w})
        entry   == [operation_id |-> w, amount_usd |-> tokens_used[w], tokens_used |-> tokens_used[w]]
    IN
    /\ at[w] = "BudgetRecordSpend"
    /\ results[w] = NONE
    /\ registered' = session
    /\ tokens_consumed' = tokens_consumed + tokens_used[w]
    /\ results' \in {[results EXCEPT ![w] = Reply(raised, session, Append(budget_history[w], entry))] :
                        raised \in IF Exceeded(session) THEN {"BudgetExceededError"} ELSE {"none", "retryable"}}
    /\ UNCHANGED <<workflowVars, tokens_used, abandoned>>

\* Mutant of BudgetRecordSpend: what is counted is the increase over the session the
\* enforcer had, whoever registered it.
BudgetRecordSpendIncrease(w) ==
    LET session == RecordTokens(Restored(w), tokens_used[w], 1, {w})
        entry   == [operation_id |-> w, amount_usd |-> tokens_used[w], tokens_used |-> tokens_used[w]]
        before  == IF registered = NONE THEN 0 ELSE registered.tokens_used
    IN
    /\ at[w] = "BudgetRecordSpend"
    /\ results[w] = NONE
    /\ registered' = session
    /\ tokens_consumed' = IF session.tokens_used > before THEN tokens_consumed + (session.tokens_used - before)
                                                          ELSE tokens_consumed
    /\ results' \in {[results EXCEPT ![w] = Reply(raised, session, Append(budget_history[w], entry))] :
                        raised \in IF Exceeded(session) THEN {"BudgetExceededError"} ELSE {"none", "retryable"}}
    /\ UNCHANGED <<workflowVars, tokens_used, abandoned>>

\* The session the body of BudgetRecordSpend debits.
Debited(w) == RecordTokens(Restored(w), tokens_used[w], 1, {w})

\* The body of BudgetRecordSpend, once the spend is recorded or refused.  What follows
\* the debit may still raise, an error that is retried.
BudgetRecordSpend(w) ==
    LET entry   == [operation_id |-> w, amount_usd |-> tokens_used[w], tokens_used |-> tokens_used[w]]
        history == IF w \in Restored(w).applied_operation_ids THEN budget_history[w]
                   ELSE Append(budget_history[w], entry)
    IN
    /\ at[w] = "BudgetRecordSpend"
    /\ results[w] = NONE
    /\ registered' = Debited(w)
    /\ tokens_consumed' = tokens_consumed + Debited(w).tokens_used
    /\ results' \in {[results EXCEPT ![w] = Reply(raised, Debited(w), history)] :
                        raised \in IF Exceeded(Debited(w)) THEN {"BudgetExceededError"} ELSE {"none", "retryable"}}
    /\ UNCHANGED <<workflowVars, tokens_used, abandoned>>

\* It raises before the debit, with the session restored or not: this is retried, too.
BudgetRecordSpendRaises(w) ==
    /\ at[w] = "BudgetRecordSpend"
    /\ results[w] = NONE
    /\ \/ /\ registered' = Restored(w)
          /\ tokens_consumed' = tokens_consumed + Restored(w).tokens_used
       \/ UNCHANGED <<registered, tokens_consumed>>
    /\ results' = [results EXCEPT ![w] = Reply("retryable", Restored(w), budget_history[w])]
    /\ UNCHANGED <<workflowVars, tokens_used, abandoned>>

\* The activity completes: run() goes on with the snapshot and the history it returned.
Completed(w) ==
    /\ results[w] # NONE /\ results[w].raised = "none"
    /\ at' = [at EXCEPT ![w] = IF @ = "BudgetPreCheck" THEN "LLMInvoke" ELSE "completed"]
    /\ budget_history' = [budget_history EXCEPT ![w] = results[w].history]
    /\ budget_spent_usd' = [budget_spent_usd EXCEPT ![w] = results[w].cost_usd]
    /\ results' = [results EXCEPT ![w] = NONE]
    /\ UNCHANGED <<attempt, tokens_used, abandoned, registered, tokens_consumed>>

\* Mutant of Retried: one attempt too many.
RetriedOnceMore(w) ==
    /\ results[w] # NONE /\ results[w].raised = "retryable"
    /\ attempt' = [attempt EXCEPT ![w] = @ + 1]
    /\ results' = [results EXCEPT ![w] = NONE]
    /\ UNCHANGED <<at, budget_history, budget_spent_usd, tokens_used, abandoned, registered, tokens_consumed>>

Retried(w) ==
    /\ results[w] # NONE /\ results[w].raised = "retryable"
    /\ attempt[w] < MaximumAttempts
    /\ attempt' = [attempt EXCEPT ![w] = @ + 1]
    /\ results' = [results EXCEPT ![w] = NONE]
    /\ UNCHANGED <<at, budget_history, budget_spent_usd, tokens_used, abandoned, registered, tokens_consumed>>

\* An ActivityError, which fails the workflow: the last attempt, or schedule_to_close.
\* An attempt that has not run its body by then may still do so.
Failed(w) ==
    /\ at[w] \in {"BudgetPreCheck", "LLMInvoke", "BudgetRecordSpend"}
    /\ at' = [at EXCEPT ![w] =
          IF results[w] # NONE /\ results[w].raised = "BudgetExceededError" THEN "BudgetExceededError" ELSE "failed"]
    /\ abandoned' = IF results[w] # NONE \/ at[w] = "LLMInvoke" THEN abandoned
                    ELSE abandoned \cup {[workflow |-> w, activity |-> at[w]]}
    /\ results' = [results EXCEPT ![w] = NONE]
    /\ UNCHANGED <<attempt, budget_history, budget_spent_usd, tokens_used, registered, tokens_consumed>>

\* It writes the enforcer and the counter, and nobody hears of its result.
AbandonedRuns(late) ==
    /\ \E session \in {Restored(late.workflow)}
                         \cup (IF late.activity = "BudgetRecordSpend" THEN {Debited(late.workflow)} ELSE {}) :
          /\ registered' = session
          /\ tokens_consumed' = tokens_consumed + session.tokens_used
    /\ abandoned' = abandoned \ {late}
    /\ UNCHANGED <<workflowVars, tokens_used, results>>

\* The worker dies: the enforcer is gone, and so is a result it has not reported, which
\* the server notices only by the timeout.
WorkerCrash ==
    /\ registered' = NONE
    /\ abandoned' = {}
    /\ results' = [w \in Workflows |->
          IF results[w] = NONE THEN NONE ELSE [results[w] EXCEPT !.raised = "lost"]]
    /\ UNCHANGED <<workflowVars, tokens_used, tokens_consumed>>

WorkflowStep(w) ==
    \/ BudgetPreCheck(w) \/ LLMInvoke(w) \/ BudgetRecordSpend(w) \/ BudgetRecordSpendRaises(w)
    \/ Completed(w) \/ Retried(w) \/ Failed(w)

Next ==
    \/ WorkerCrash
    \/ \E w \in Workflows : WorkflowStep(w)
    \/ \E late \in abandoned : AbandonedRuns(late)

Spec == Init /\ [][Next]_vars

-----------------------------------------------------------------------------
Sum(f) == SumFunctionOnSet(f, Workflows)

\* What the completed workflows of the session have spent.
SessionSpend == Sum([w \in Workflows |-> IF at[w] = "completed" THEN budget_spent_usd[w] ELSE 0])

\* The spend run() reports is what a recovery from its history restores, and that of a
\* completed workflow is its one completion within the limit, though attempts are
\* retried after the debit and the workflows take turns with the one registered session.
SpendRecordedOnce ==
    \A w \in Workflows :
        /\ budget_spent_usd[w] # NONE => budget_spent_usd[w] = Restored(w).cost_usd
        /\ at[w] = "completed" =>
              budget_spent_usd[w] = tokens_used[w] /\ budget_spent_usd[w] <= BudgetLimit

\* docs/agent-sdk-guide.md, Budget Awareness: "Each session has a USD budget limit"; if
\* the session exceeds it, "the task is halted immediately".
SessionLimitHolds == SessionSpend <= BudgetLimit

\* aegis_tokens_consumed_total misses no completion whose spend was recorded, though
\* workflows take turns with the session it is kept in and the worker dies; an attempt
\* rebuilds the session and counts again, and one may run after its workflow has failed,
\* but none is counted more often than it may be attempted.
TokensCounted ==
    /\ Sum([w \in Workflows |-> IF at[w] = "completed" THEN tokens_used[w] ELSE 0]) <= tokens_consumed
    /\ tokens_consumed <= MaximumAttempts * Sum(tokens_used)
=============================================================================
