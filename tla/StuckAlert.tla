----------------------------- MODULE StuckAlert -----------------------------
(***************************************************************************)
(* PendingApprovalMetrics with a clock that counts minutes, the ages the   *)
(* gauges hold, the approval timer, and the rule aegis_hitl_stuck of       *)
(* docs/alerts.yml as Prometheus evaluates it after each of its scrapes.   *)
(* Everybody is on time here: Prometheus scrapes once a minute or more     *)
(* often, and a timer fires in the minute it is due.                       *)
(***************************************************************************)
EXTENDS PendingApprovalMetrics

CONSTANTS
    ApprovalTimeout,    \* approval_timeout_seconds
    AuditTimeout,       \* schedule_to_close_timeout of the audit that precedes the timer
    AlertThreshold,     \* the bound in the rule's expr
    AlertFor,           \* the rule's for
    MaxTime             \* bound on the clock

VARIABLES
    now,
    pending_since,  \* when each workflow entered the gate, kept when it has left
    age,            \* the values of the gauges
    scraped,        \* has Prometheus scraped in this minute?
    breach,         \* for how many minutes the expr has held of each workflow
    fired           \* the workflows the alert has fired for

alertVars == <<now, pending_since, age, scraped, breach, fired>>

AlertInit ==
    /\ Init
    /\ now = 0 /\ scraped = FALSE /\ fired = {}
    /\ pending_since = [w \in Workflows |-> 0]
    /\ age = [w \in Workflows |-> 0]
    /\ breach = [w \in Workflows |-> 0]

TimedEnterGate(w) ==
    /\ EnterGate(w)
    /\ pending_since' = [pending_since EXCEPT ![w] = now]
    /\ UNCHANGED <<now, age, scraped, breach, fired>>

\* The timer starts when the audit is done, at once or after AuditTimeout at the most.
TimedLeaveGate(w, verdict) ==
    /\ LeaveGate(w, verdict)
    /\ verdict = "timed-out" => now >= pending_since[w] + ApprovalTimeout
    /\ UNCHANGED alertVars

\* The gauges of the snapshots are set to their ages at the end of the scrape.
TimedRefresh(s) ==
    /\ Refresh(s)
    /\ age' = [w \in Workflows |-> IF w \in found[s] THEN now - pending_since[w] ELSE age[w]]
    /\ scraped' = (scraped \/ s = Prometheus)
    /\ UNCHANGED <<now, pending_since, breach, fired>>

\* A minute passes, at the end of which the rule is evaluated.
Tick ==
    /\ now < MaxTime
    /\ scraped
    /\ \A w \in Pending : now < pending_since[w] + AuditTimeout + ApprovalTimeout
    /\ now' = now + 1
    /\ scraped' = FALSE
    /\ LET held == {w \in gauge : age[w] > AlertThreshold} IN
          /\ breach' = [w \in Workflows |-> IF w \in held THEN breach[w] + 1 ELSE 0]
          /\ fired' = fired \cup {w \in held : breach[w] >= AlertFor}
    /\ UNCHANGED <<vars, pending_since, age>>

AlertNext ==
    \/ Tick
    \/ \E w \in Workflows :
          \/ TimedEnterGate(w)
          \/ (StartWorkflow(w) \/ Close(w)) /\ UNCHANGED alertVars
          \/ \E verdict \in Verdicts : TimedLeaveGate(w, verdict)
    \/ \E s \in Scrapers :
          \/ TimedRefresh(s)
          \/ (Scrape(s) \/ ListWorkflows(s) \/ \E w \in Workflows : Query(s, w)) /\ UNCHANGED alertVars

AlertSpec == AlertInit /\ [][AlertNext]_<<vars, alertVars>>

-----------------------------------------------------------------------------
\* ADR-009, docs/architecture_decisions.md, of the state timed-out: "24 h elapsed without
\* an approve or deny action. Prometheus `aegis_hitl_stuck` alert fires at this
\* threshold."  A workflow whose gate times out has been alerted of.
TimeoutAlerted == \A w \in Workflows : gate[w] = "timed-out" => w \in fired
=============================================================================
