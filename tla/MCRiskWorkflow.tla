--------------------------- MODULE MCRiskWorkflow ---------------------------
(* RiskWorkflow for TLC: the requests, and the escalation rows, are alike. *)
EXTENDS RiskWorkflowProperties, TLC

Alike == Permutations(Requests) \cup Permutations(EscalationIds)

=============================================================================
