--------------------------- MODULE BudgetEnforcer ---------------------------
(***************************************************************************)
(* The budget sessions of src/watchdog/budget_enforcer.py as values: what  *)
(* each operation makes of a session, and when it raises                   *)
(* BudgetExceededError.  Amounts are whole numbers of the smallest price.  *)
(***************************************************************************)
EXTENDS Naturals, Sequences

\* BudgetSession, with the operation ids it may have applied.
BudgetSession(operations) ==
    [budget_limit_usd : Nat, cost_usd : Nat, tokens_used : Nat,
     alerts : Nat, applied_operation_ids : SUBSET operations]

\* create_session, and the empty session restore_from_history starts from.
NewSession(limit) ==
    [budget_limit_usd |-> limit, cost_usd |-> 0, tokens_used |-> 0,
     alerts |-> 0, applied_operation_ids |-> {}]

\* check_budget raises.
Exhausted(session) == session.cost_usd >= session.budget_limit_usd

\* record_spend raises, unless the operation is a duplicate.
Exceeded(session) == session.cost_usd > session.budget_limit_usd

\* Mutant of RecordSpend: a spend that exceeds the limit is refused and not recorded.
RecordSpendRefused(session, amount, operation) ==
    LET cost == session.cost_usd + amount IN
    IF cost > session.budget_limit_usd THEN session
    ELSE [session EXCEPT !.cost_usd = cost, !.applied_operation_ids = @ \cup operation]

\* What record_spend leaves behind, whether or not it raises.  "operation" is the
\* singleton of the operation id, or empty where the caller passes none.
RecordSpend(session, amount, operation) ==
    LET cost == session.cost_usd + amount IN
    IF operation # {} /\ operation \subseteq session.applied_operation_ids THEN session
    ELSE [budget_limit_usd |-> session.budget_limit_usd,
          cost_usd |-> cost,
          tokens_used |-> session.tokens_used,
          alerts |-> session.alerts + (IF cost > session.budget_limit_usd THEN 1 ELSE 0),
          applied_operation_ids |-> session.applied_operation_ids \cup operation]

\* record_tokens: the token tally, then record_spend.
RecordTokens(session, tokens, cost_per_token, operation) ==
    IF operation # {} /\ operation \subseteq session.applied_operation_ids THEN session
    ELSE RecordSpend([session EXCEPT !.tokens_used = @ + tokens],
                     tokens * cost_per_token, operation)

\* _resolve_cost_per_token: the price is not kept in a history entry.
ResolveCostPerToken(entry) ==
    IF entry.tokens_used = 0 THEN 0 ELSE entry.amount_usd \div entry.tokens_used

\* restore_from_history: an entry that exceeds the limit raises, and ends the replay.
Replay(session, entry) ==
    IF Exceeded(session) THEN session
    ELSE RecordTokens(session, entry.tokens_used, ResolveCostPerToken(entry), {entry.operation_id})

RestoreFromHistory(limit, history) ==
    LET restored[n \in 0..Len(history)] ==
            IF n = 0 THEN NewSession(limit) ELSE Replay(restored[n - 1], history[n])
    IN  restored[Len(history)]
=============================================================================
