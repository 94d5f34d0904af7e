--------------------------- MODULE HitlEndpoints ---------------------------
(***************************************************************************)
(* The REST endpoints /tasks/{id}/approve and /tasks/{id}/deny             *)
(* (src/control_plane/router.py) and TaskApprovalService                   *)
(* (src/control_plane/approval_service.py), composed with the workflow     *)
(* they signal.  A handler authorises the caller, queries the workflow     *)
(* twice and then signals it; every await is a point where the workflow,   *)
(* its timer or another handler may run.                                   *)
(***************************************************************************)
EXTENDS AgentTaskWorkflow

CONSTANT Requests       \* the requests made for this task

VARIABLE requests       \* what each of them asks for and how far it has got

hitlVars == <<vars, requests>>

Answers == {"200", "400", "401", "403", "404", "409", "500"}

\* "approver_id" is what the body of the request says: the handler checks the token of
\* the caller and drops its claims, and compares the two nowhere.  "found" is a history
\* variable: the gate as the signal of the request met it.
Request ==
    [action : {"approve", "deny"},
     approver_id : Approvers,
     at : {"received", "snapshot", "authorized", "pending", "answered"},
     answer : Answers \cup {NONE},
     found : PendingApprovalState \cup {NONE}]

ASSUME FoundAssumption == NONE \notin PendingApprovalState

HitlTypeOK == TypeOK /\ requests \in [Requests -> Request]

HitlInit ==
    /\ Init
    /\ requests \in [Requests -> [action : {"approve", "deny"}, approver_id : Approvers,
                                  at : {"received"}, answer : {NONE}, found : {NONE}]]

Answer(q, code) == requests' = [requests EXCEPT ![q].at = "answered", ![q].answer = code]
Advance(q, point) == requests' = [requests EXCEPT ![q].at = point]

\* Mutant of Authorize: an error of the parser is answered with an undocumented code.
AuthorizeUnmapped(q) ==
    /\ requests[q].at = "received"
    /\ \/ \E code \in {"422", "401", "403", "404"} : Answer(q, code)
       \/ pc # "created" /\ Advance(q, "snapshot")
    /\ UNCHANGED vars

\* _parse_approval_request, the token checks of _authorize_hitl_action, and its first
\* query.  A query fails, whatever the reason, as "not found".
Authorize(q) ==
    /\ requests[q].at = "received"
    /\ \/ \E code \in {"400", "401", "403", "404"} : Answer(q, code)
       \/ pc # "created" /\ Advance(q, "snapshot")
    /\ UNCHANGED vars

\* await policy_engine.evaluate: allowed, denied, or OpaUnavailableError.
EvaluatePolicy(q) ==
    /\ requests[q].at = "snapshot"
    /\ \/ Advance(q, "authorized")
       \/ \E code \in {"403", "500"} : Answer(q, code)
    /\ UNCHANGED vars

\* get_pending_snapshot: the second query, and the conflict it raises.  A closed
\* workflow is still queried; it answers with the state it was closed in.
GetPendingSnapshot(q) ==
    /\ requests[q].at = "authorized"
    /\ \/ Answer(q, "404")
       \/ approval_state = "awaiting-approval" /\ Advance(q, "pending")
       \/ approval_state # "awaiting-approval" /\ Answer(q, "409")
    /\ UNCHANGED vars

\* Mutant of SignalWorkflow: "deny" sends the payload of "approve".
SignalWorkflowSwapped(q) ==
    /\ requests[q].at = "pending"
    /\ \/ /\ Signal([approver_id |-> requests[q].approver_id, approved |-> TRUE])
          /\ \E code \in {"200", "500"} :
                requests' = [requests EXCEPT ![q].at = "answered", ![q].answer = code,
                                             ![q].found = approval_state]
       \/ /\ Answer(q, "500")
          /\ UNCHANGED vars

\* handle.signal: the server takes it unless the workflow is closed, and the handler
\* answers 200; an RPC error, which nobody maps, is answered 500, and leaves open
\* whether the signal got through.
SignalWorkflow(q) ==
    /\ requests[q].at = "pending"
    /\ \/ /\ Signal([approver_id |-> requests[q].approver_id,
                    approved |-> requests[q].action = "approve"])
          /\ \E code \in {"200", "500"} :
                requests' = [requests EXCEPT ![q].at = "answered", ![q].answer = code,
                                             ![q].found = approval_state]
       \/ /\ Answer(q, "500")
          /\ UNCHANGED vars

Handler(q) == Authorize(q) \/ EvaluatePolicy(q) \/ GetPendingSnapshot(q) \/ SignalWorkflow(q)

HitlNext ==
    \/ WorkflowNext /\ UNCHANGED requests
    \/ \E q \in Requests : Handler(q)

HitlSpec == HitlInit /\ [][HitlNext]_hitlVars

-----------------------------------------------------------------------------
\* The requests whose signal met the open gate.
Recorded == {q \in Requests : requests[q].found = "awaiting-approval"}

\* No decision without a request: the decision a workflow holds, with the approver it
\* names, is that of a request that passed every check of its handler and whose signal
\* found the gate open; a request answered 4xx decides nothing.
DecisionHasAuthor ==
    approval_signal # NONE =>
        \E q \in Recorded :
            /\ requests[q].answer \in {"200", "500"}
            /\ requests[q].approver_id = approval_signal.approver_id
            /\ requests[q].action = "approve" <=> approval_signal.approved

\* From the call back to the caller: once the model has been called for a task that
\* asked for a review, some request to /approve passed every check of its handler and
\* its signal met the open gate.  Denials, refused requests and the timer never do it.
CallHasApprover ==
    inp.needs_approval /\ Logged("adapter.complete") =>
        \E q \in Recorded : requests[q].action = "approve" /\ requests[q].answer \in {"200", "500"}

\* A decision the open gate took in stands, though the caller may have been answered 500
\* and the timer may fire before run() looks: the task neither times out nor is audited
\* as timed out, and only another decision the gate took in can overrule it.
RecordedDecisionStands ==
    \A q \in Recorded :
        /\ approval_state \notin {"not-required", "timed-out"}
        /\ ~ Logged("workflow.timed_out")
        /\ approval_state = "approved" => \E other \in Recorded : requests[other].action = "approve"
        /\ approval_state = "denied" => \E other \in Recorded : requests[other].action = "deny"

\* docs/api-reference.md, HITL Approval Endpoints, Timeout behavior: once the approval
\* window has expired "a late approve or deny request therefore returns 409".
LateDecisionRefused ==
    \A q \in Requests : requests[q].found = "timed-out" => requests[q].answer # "200"
=============================================================================
