----------------------- MODULE PendingApprovalMetrics -----------------------
(***************************************************************************)
(* The gauge aegis_workflow_pending_approval_seconds: what GET /metrics    *)
(* (src/main.py) makes of the approval gates of the running workflows.  A  *)
(* scrape lists the executions and queries them one by one                 *)
(* (TaskApprovalService.list_pending_snapshots), and only then, without    *)
(* another await, sets the gauges, removes those it set last time and      *)
(* answers.  Scrapes overlap, and workflows move between two queries.  The *)
(* values of the gauges, which are ages, are added in StuckAlert.          *)
(***************************************************************************)
EXTENDS Naturals, FiniteSets

CONSTANTS
    Workflows,
    Earlier,        \* those of them that, if at all, ran before and are closed
    Verdicts,       \* how a gate is left: all one to a scrape
    Scrapers,       \* who scrapes: Prometheus, an operator's curl
    Prometheus,     \* the one that never stops
    ListLimit,      \* limit of list_pending_snapshots
    MaxFaults       \* bound: failing RPCs and restarts of the API

ASSUME MetricsAssumption ==
    /\ ListLimit \in Nat /\ MaxFaults \in Nat
    /\ Earlier \subseteq Workflows /\ Prometheus \in Scrapers
    /\ Verdicts \cap {"absent", "not-required", "awaiting-approval"} = {}

VARIABLES
    gate,       \* approval_state of each workflow, "absent" before it starts
    closed,     \* the workflows that are closed
    at,         \* the await each scrape is in
    todo,       \* executions listed and not yet queried
    found,      \* the workflows of the snapshots so far
    gauge,      \* the labels of the gauge
    tracked,    \* _tracked_pending_approval_workflow_ids
    faults,
    seen, due   \* history of the scrapes in progress, see ScrapeIsFresh

workflowVars == <<gate, closed>>
scrapeVars == <<at, todo, found, seen, due>>
gaugeVars == <<gauge, tracked>>
vars == <<workflowVars, scrapeVars, gaugeVars, faults>>

GateStates == {"absent", "not-required", "awaiting-approval"} \cup Verdicts

TypeOK ==
    /\ gate \in [Workflows -> GateStates]
    /\ closed \subseteq Workflows
    /\ at \in [Scrapers -> {"idle", "list_workflows", "query"}]
    /\ {todo, found, seen, due} \subseteq [Scrapers -> SUBSET Workflows]
    /\ {gauge, tracked} \subseteq SUBSET Workflows
    /\ faults \in 0..MaxFaults

Nothing == [s \in Scrapers |-> {}]

Init ==
    /\ closed \in SUBSET Earlier
    /\ gate = [w \in Workflows |-> IF w \in closed THEN "not-required" ELSE "absent"]
    /\ at = [s \in Scrapers |-> "idle"]
    /\ todo = Nothing /\ found = Nothing
    /\ seen = Nothing /\ due = Nothing
    /\ gauge = {} /\ tracked = {}
    /\ faults = 0

-----------------------------------------------------------------------------
(***************************************************************************)
(* The workflows, as far as the query approval_status shows them.          *)
(***************************************************************************)
Started == {w \in Workflows : gate[w] # "absent"}
Awaiting == {w \in Workflows : gate[w] = "awaiting-approval"}
Pending == Awaiting \ closed

\* History of the scrapes in progress: what was awaiting at some instant since they
\* began, and what was pending at every one and no failure or cut listing kept from them.
Witness ==
    /\ seen' = [s \in Scrapers |-> IF at[s] = "idle" THEN {} ELSE seen[s] \cup Awaiting']
    /\ due' = [s \in Scrapers |-> due[s] \cap Pending']

WorkflowStep == Witness /\ UNCHANGED <<at, todo, found, gaugeVars, faults>>

StartWorkflow(w) ==
    /\ gate[w] = "absent" /\ w \notin Earlier
    /\ gate' = [gate EXCEPT ![w] = "not-required"]
    /\ UNCHANGED closed
    /\ WorkflowStep

EnterGate(w) ==
    /\ gate[w] = "not-required" /\ w \notin closed
    /\ gate' = [gate EXCEPT ![w] = "awaiting-approval"]
    /\ UNCHANGED closed
    /\ WorkflowStep

\* Mutant of LeaveGate: the decision is stored where the state belongs.
LeaveGateUnresolved(w, verdict) ==
    /\ w \in Pending
    /\ gate' = [gate EXCEPT ![w] = <<w, verdict>>]
    /\ UNCHANGED closed
    /\ WorkflowStep

\* A decision was signalled or the timer fired.
LeaveGate(w, verdict) ==
    /\ w \in Pending
    /\ gate' = [gate EXCEPT ![w] = verdict]
    /\ UNCHANGED closed
    /\ WorkflowStep

\* The workflow ends.  Where the audit of the pending approval fails for good, or an
\* operator terminates the execution, it ends with its gate still awaiting approval.
Close(w) ==
    /\ w \in Started \ closed
    /\ closed' = closed \cup {w}
    /\ UNCHANGED gate
    /\ WorkflowStep

Workflow(w) ==
    \/ StartWorkflow(w) \/ EnterGate(w) \/ Close(w)
    \/ \E verdict \in Verdicts : LeaveGate(w, verdict)

-----------------------------------------------------------------------------
(***************************************************************************)
(* A scrape.                                                               *)
(***************************************************************************)
Fault == faults < MaxFaults /\ faults' = faults + 1

\* GET /metrics arrives: list_workflows is called.
Scrape(s) ==
    /\ at[s] = "idle"
    /\ at' = [at EXCEPT ![s] = "list_workflows"]
    /\ seen' = [seen EXCEPT ![s] = Awaiting]
    /\ due' = [due EXCEPT ![s] = Pending]
    /\ UNCHANGED <<workflowVars, todo, found, gaugeVars, faults>>

\* The server answers with its executions, in an order of its own and at most as many as
\* it was asked for; closed ones are passed over.
ListWorkflows(s) ==
    /\ at[s] = "list_workflows"
    /\ \E listed \in SUBSET Started :
          /\ IF Cardinality(Started) <= ListLimit THEN listed = Started ELSE Cardinality(listed) = ListLimit
          /\ todo' = [todo EXCEPT ![s] = listed \ closed]
          /\ due' = [due EXCEPT ![s] = @ \cap listed]
    /\ at' = [at EXCEPT ![s] = "query"]
    /\ UNCHANGED <<workflowVars, found, seen, gaugeVars, faults>>

\* Mutants of Query: whatever its gate, a workflow that answers is taken to be pending;
\* the query of a workflow that has closed since is repeated for ever.
QueryUnfiltered(s, w) ==
    /\ at[s] = "query" /\ w \in todo[s]
    /\ todo' = [todo EXCEPT ![s] = @ \ {w}]
    /\ found' = [found EXCEPT ![s] = @ \cup {w}]
    /\ UNCHANGED <<workflowVars, at, seen, due, gaugeVars, faults>>
QueryRepeats(s, w) ==
    /\ at[s] = "query" /\ w \in todo[s]
    /\ \/ w \in closed /\ UNCHANGED <<todo, found>>
       \/ /\ w \notin closed
          /\ todo' = [todo EXCEPT ![s] = @ \ {w}]
          /\ found' = [found EXCEPT ![s] = @ \cup ({w} \cap Awaiting)]
    /\ UNCHANGED <<workflowVars, at, seen, due, gaugeVars, faults>>

\* handle.query answers with the gate as it is now, also of a workflow closed meanwhile.
Query(s, w) ==
    /\ at[s] = "query" /\ w \in todo[s]
    /\ todo' = [todo EXCEPT ![s] = @ \ {w}]
    /\ found' = [found EXCEPT ![s] = @ \cup ({w} \cap Awaiting)]
    /\ UNCHANGED <<workflowVars, at, seen, due, gaugeVars, faults>>

\* handle.query raises, and the execution is passed over.
QueryFails(s, w) ==
    /\ at[s] = "query" /\ w \in todo[s]
    /\ Fault
    /\ todo' = [todo EXCEPT ![s] = @ \ {w}]
    /\ due' = [due EXCEPT ![s] = @ \ {w}]
    /\ UNCHANGED <<workflowVars, at, found, seen, gaugeVars>>

\* list_workflows raises, at the first page or at a later one: no snapshots at all.
ListFails(s) ==
    /\ at[s] # "idle"
    /\ Fault
    /\ at' = [at EXCEPT ![s] = "query"]
    /\ todo' = [todo EXCEPT ![s] = {}]
    /\ found' = [found EXCEPT ![s] = {}]
    /\ due' = [due EXCEPT ![s] = {}]
    /\ UNCHANGED <<workflowVars, seen, gaugeVars>>

\* What a finished or interrupted scrape leaves behind.
Forget(s) ==
    /\ at' = [at EXCEPT ![s] = "idle"]
    /\ found' = [found EXCEPT ![s] = {}]
    /\ seen' = [seen EXCEPT ![s] = {}]
    /\ due' = [due EXCEPT ![s] = {}]
    /\ UNCHANGED todo

\* Mutants of Refresh: only what is new is tracked; a scrape spins until the others in
\* progress have finished.
RefreshTracksNew(s) ==
    /\ at[s] = "query" /\ todo[s] = {}
    /\ gauge' = (gauge \cup found[s]) \ (tracked \ found[s])
    /\ tracked' = found[s] \ tracked
    /\ Forget(s)
    /\ UNCHANGED <<workflowVars, faults>>
RefreshInTurn(s) ==
    /\ at[s] = "query" /\ todo[s] = {}
    /\ \/ /\ \E t \in Scrapers \ {s} : at[t] # "idle"
          /\ UNCHANGED <<scrapeVars, gaugeVars>>
       \/ /\ \A t \in Scrapers \ {s} : at[t] = "idle"
          /\ gauge' = (gauge \cup found[s]) \ (tracked \ found[s])
          /\ tracked' = found[s]
          /\ Forget(s)
    /\ UNCHANGED <<workflowVars, faults>>

\* The rest of refresh_pending_approval_metrics, and the answer: gauges are set for the
\* snapshots, the tracked ones not among them are removed.
Refresh(s) ==
    /\ at[s] = "query" /\ todo[s] = {}
    /\ gauge' = (gauge \cup found[s]) \ (tracked \ found[s])
    /\ tracked' = found[s]
    /\ Forget(s)
    /\ UNCHANGED <<workflowVars, faults>>

\* The API process restarts: its registry, its set and its requests are gone.
ApiRestart ==
    /\ Fault
    /\ gauge' = {} /\ tracked' = {}
    /\ at' = [s \in Scrapers |-> "idle"]
    /\ todo' = Nothing /\ found' = Nothing
    /\ seen' = Nothing /\ due' = Nothing
    /\ UNCHANGED workflowVars

ScrapeStep(s) ==
    \/ Scrape(s) \/ ListWorkflows(s) \/ ListFails(s) \/ Refresh(s)
    \/ \E w \in Workflows : Query(s, w) \/ QueryFails(s, w)

Next ==
    \/ ApiRestart
    \/ \E w \in Workflows : Workflow(w)
    \/ \E s \in Scrapers : ScrapeStep(s)

Spec == Init /\ [][Next]_vars

\* Prometheus scrapes for ever and its requests make progress; faults are finite in
\* number.  Nothing is assumed of workflows or other scrapers.
Progress(s) ==
    Scrape(s) \/ ListWorkflows(s) \/ Refresh(s) \/ \E w \in Workflows : Query(s, w)

Fairness == WF_vars(Progress(Prometheus))

LiveSpec == Spec /\ Fairness

-----------------------------------------------------------------------------
\* What a scrape answers was true while it was being made, however scrapes overlap: the
\* gauges it answers with are of workflows that were awaiting approval at some instant
\* of it, and a workflow that was pending all the time is among them, unless its query
\* failed or the listing did not come to it.
ScrapeIsFresh ==
    [][\A s \in Scrapers : at[s] = "query" /\ at'[s] = "idle" /\ faults' = faults =>
          /\ gauge' \subseteq seen[s]
          /\ due[s] \subseteq gauge']_vars

\* The set the next scrape removes from is the set of gauges there are: no gauge is left
\* behind for good, and remove() is never called for one that is gone.
GaugesTracked == gauge = tracked

\* docs/alerts.yml: "The aegis_workflow_pending_approval_seconds gauge is set [...]
\* whenever a workflow enters PendingApproval".  A workflow that stays pending gets its
\* gauge once faults have ceased, as long as the listing has room for every execution.
PendingIsShown ==
    \A w \in Workflows \ Earlier :
        w \in Pending ~> w \in gauge \/ w \notin Pending \/ Cardinality(Started) > ListLimit

\* A workflow that has left the gate loses its gauge, and a slow scrape that still saw it
\* there brings it back for one scrape at most.
GaugeIsCleared ==
    \A w \in Workflows \ Earlier :
        (w \in Started \ Pending /\ gate[w] # "not-required") ~> [](w \notin gauge)
=============================================================================
