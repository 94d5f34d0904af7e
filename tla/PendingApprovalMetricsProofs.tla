-------------------- MODULE PendingApprovalMetricsProofs --------------------
(***************************************************************************)
(* Proofs about the pending-approval gauges, for every number of workflows *)
(* and of overlapping scrapes.                                             *)
(***************************************************************************)
EXTENDS PendingApprovalMetrics, TLAPS

\* The provers, and their seconds, for a leaf that does not name one.
USE ZenonT(3), SMTT(60), ZenonT(60), SMTT(61)

\* What a scrape s knows: everything awaiting since it began has been seen, what it found
\* was awaiting when it was queried, and what it has yet to show is pending and is either
\* found or still to be queried.
ScrapeInv(s) ==
    /\ at[s] # "query" => found[s] = {}
    /\ at[s] # "idle" => Awaiting \subseteq seen[s]
    /\ found[s] \subseteq seen[s]
    /\ due[s] \subseteq Pending
    /\ at[s] = "query" => due[s] \subseteq todo[s] \cup found[s]

\* The inductive invariant.
IInv == TypeOK /\ GaugesTracked /\ \A s \in Scrapers : ScrapeInv(s)

USE DEF Started, Awaiting, Pending

\* A step of a workflow changes the history of every scrape, and nothing else of it.
LEMMA WorkflowStepKeeps ==
    ASSUME IInv, NEW w \in Workflows, Workflow(w)
    PROVE  IInv'
PROOF
<1>1. /\ gate' \in [Workflows -> GateStates] /\ closed' \subseteq Workflows
      /\ closed \subseteq closed'
      /\ WorkflowStep
  BY DEF Workflow, StartWorkflow, EnterGate, Close, LeaveGate, IInv, TypeOK, GateStates
<1>2. /\ UNCHANGED <<at, todo, found, gauge, tracked, faults>>
      /\ seen' = [s \in Scrapers |-> IF at[s] = "idle" THEN {} ELSE seen[s] \cup Awaiting']
      /\ due' = [s \in Scrapers |-> due[s] \cap Pending']
  BY <1>1 DEF WorkflowStep, Witness, gaugeVars
<1>3. TypeOK'
  BY <1>1, <1>2 DEF IInv, TypeOK
<1>4. GaugesTracked'
  BY <1>2 DEF IInv, GaugesTracked
<1>5. ASSUME NEW s \in Scrapers PROVE ScrapeInv(s)'
  BY <1>2 DEF IInv, ScrapeInv
<1> QED BY <1>3, <1>4, <1>5 DEF IInv

\* A step of a scrape keeps the invariant, whatever the other scrapes hold.
LEMMA ScrapeStepKeeps ==
    ASSUME IInv, NEW s \in Scrapers, ScrapeStep(s)
    PROVE  IInv'
PROOF
<1> USE DEF workflowVars, gaugeVars
<1>1. CASE Scrape(s)
  BY <1>1 DEF Scrape, IInv, TypeOK, GaugesTracked, ScrapeInv
<1>2. CASE ListWorkflows(s)
  BY <1>2 DEF ListWorkflows, IInv, TypeOK, GaugesTracked, ScrapeInv
<1>3. CASE ListFails(s)
  BY <1>3, MetricsAssumption DEF ListFails, Fault, IInv, TypeOK, GaugesTracked, ScrapeInv
<1>4. CASE Refresh(s)
  BY <1>4 DEF Refresh, Forget, IInv, TypeOK, GaugesTracked, ScrapeInv
<1>5. ASSUME NEW w \in Workflows, Query(s, w) PROVE IInv'
  BY <1>5 DEF Query, IInv, TypeOK, GaugesTracked, ScrapeInv
<1>6. ASSUME NEW w \in Workflows, QueryFails(s, w) PROVE IInv'
  BY <1>6, MetricsAssumption DEF QueryFails, Fault, IInv, TypeOK, GaugesTracked, ScrapeInv
<1> QED BY <1>1, <1>2, <1>3, <1>4, <1>5, <1>6 DEF ScrapeStep

\* The inductive invariant holds throughout.
LEMMA Invariance == Spec => []IInv
PROOF
<1>1. Init => IInv
  BY MetricsAssumption DEF Init, IInv, TypeOK, GateStates, GaugesTracked, ScrapeInv, Nothing
<1>2. IInv /\ [Next]_vars => IInv'
  <2> SUFFICES ASSUME IInv, [Next]_vars PROVE IInv'
    OBVIOUS
  <2>1. CASE ApiRestart
    BY <2>1, MetricsAssumption
    DEF ApiRestart, Fault, Nothing, workflowVars, IInv, TypeOK, GaugesTracked, ScrapeInv
  <2>2. CASE UNCHANGED vars
    BY <2>2 DEF vars, workflowVars, scrapeVars, gaugeVars, IInv, TypeOK, GaugesTracked, ScrapeInv
  <2> QED BY <2>1, <2>2, WorkflowStepKeeps, ScrapeStepKeeps DEF Next
<1> QED BY <1>1, <1>2, PTL DEF Spec

\* Every variable of the metrics keeps its type.
THEOREM TypeCorrectness == Spec => []TypeOK
PROOF
<1>1. IInv => TypeOK
  BY DEF IInv
<1> QED BY <1>1, Invariance, PTL

\* However scrapes overlap around the await of refresh_pending_approval_metrics, the
\* tracked set is the set of gauges.
THEOREM GaugesAreTracked == Spec => []GaugesTracked
PROOF
<1>1. IInv => GaugesTracked
  BY DEF IInv
<1> QED BY <1>1, Invariance, PTL

\* The gauges GET /metrics answers with were true while it was being answered.
THEOREM ScrapesAreFresh == Spec => ScrapeIsFresh
PROOF
<1> DEFINE Fresh == \A s \in Scrapers : at[s] = "query" /\ at'[s] = "idle" /\ faults' = faults =>
                       /\ gauge' \subseteq seen[s]
                       /\ due[s] \subseteq gauge'
<1>1. IInv /\ [Next]_vars => [Fresh]_vars
  <2> SUFFICES ASSUME IInv, Next, NEW s \in Scrapers,
                      at[s] = "query", at'[s] = "idle", faults' = faults
               PROVE  gauge' \subseteq seen[s] /\ due[s] \subseteq gauge'
    OBVIOUS
  <2> USE DEF workflowVars, gaugeVars
  <2>1. ~ApiRestart
    BY DEF ApiRestart, Fault, IInv, TypeOK
  <2>2. ASSUME NEW w \in Workflows PROVE ~Workflow(w)
    BY DEF Workflow, StartWorkflow, EnterGate, Close, LeaveGate, WorkflowStep
  <2>3. ASSUME NEW t \in Scrapers, ScrapeStep(t), ~Refresh(t) PROVE FALSE
    BY <2>3 DEF ScrapeStep, Scrape, ListWorkflows, ListFails, Query, QueryFails, IInv, TypeOK
  <2>4. PICK t \in Scrapers : Refresh(t)
    BY <2>1, <2>2, <2>3 DEF Next
  <2>5. t = s
    BY <2>4 DEF Refresh, Forget, IInv, TypeOK
  <2>6. gauge' = found[s] /\ todo[s] = {}
    BY <2>4, <2>5 DEF Refresh, IInv, GaugesTracked
  <2> QED BY <2>6 DEF IInv, ScrapeInv
<1> QED BY <1>1, Invariance, PTL DEF Spec, ScrapeIsFresh
=============================================================================
