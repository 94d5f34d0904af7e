---------------------- MODULE MCPendingApprovalMetrics ----------------------
(* PendingApprovalMetrics on a small instance.                             *)
EXTENDS PendingApprovalMetrics
=============================================================================
