---------------------------- MODULE RiskStatuses ----------------------------
(***************************************************************************)
(* The vocabulary of a risk's workflow and the decisions made from it that *)
(* have no state of their own: the statuses and rejection stages, the      *)
(* transition map the compliance entity validates every status write       *)
(* against, and the routing rules of the GRC backend.                      *)
(***************************************************************************)

\* risk/model/status.go: the statuses the backend works with.  The entity's
\* DRAFT is left out: nothing in the backend reads or writes it.
RiskStatuses ==
    { "PENDING_RISK_OWNER_APPROVAL", "PENDING_MANAGEMENT_APPROVAL",
      "PENDING_COMPLIANCE_REVIEW", "IN_REMEDIATION",
      "PENDING_OWNER_COMPLETION_APPROVAL", "PENDING_MANAGEMENT_CLOSURE_APPROVAL",
      "PENDING_COMPLIANCE_CLOSURE", "PENDING_AMENDMENT", "PENDING_REVISION",
      "ESCALATED", "CLOSED", "CANCELLED" }

\* The five approval stages; a rejection is stamped with one of them.
Stages == { "OWNER", "MANAGEMENT", "COMPLIANCE",
            "COMPLETION_OWNER", "COMPLETION_MANAGEMENT" }

CompletionStages == { "COMPLETION_OWNER", "COMPLETION_MANAGEMENT" }

\* The sides of needsManagementSignOff: every treatment but ACCEPT, and every
\* level but HIGH, behaves alike.
Treatments == { "ACCEPT", "REMEDIATE" }
Levels     == { "HIGH", "LOW" }

-----------------------------------------------------------------------------
\* Mutant: the map before an amendment was added to it.
RemediationEdgesWithoutAmendment == { "PENDING_OWNER_COMPLETION_APPROVAL", "ESCALATED" }

RemediationEdges == { "PENDING_OWNER_COMPLETION_APPROVAL", "PENDING_AMENDMENT", "ESCALATED" }

\* entity risk_service.go: the edges UpdateRisk accepts.
AllowedRiskTransitions ==
    [ s \in RiskStatuses |->
        CASE s = "PENDING_RISK_OWNER_APPROVAL" ->
               { "PENDING_COMPLIANCE_REVIEW", "PENDING_MANAGEMENT_APPROVAL",
                 "PENDING_AMENDMENT", "PENDING_REVISION", "ESCALATED", "CANCELLED" }
          [] s = "PENDING_AMENDMENT" ->
               { "PENDING_COMPLIANCE_REVIEW", "PENDING_MANAGEMENT_APPROVAL",
                 "PENDING_RISK_OWNER_APPROVAL", "PENDING_REVISION", "CANCELLED" }
          [] s = "PENDING_MANAGEMENT_APPROVAL" ->
               { "PENDING_COMPLIANCE_REVIEW", "PENDING_AMENDMENT",
                 "PENDING_REVISION", "ESCALATED", "CANCELLED" }
          [] s = "PENDING_COMPLIANCE_REVIEW" ->
               { "IN_REMEDIATION", "PENDING_REVISION", "ESCALATED", "CANCELLED" }
          [] s = "IN_REMEDIATION" -> RemediationEdges
          [] s = "PENDING_OWNER_COMPLETION_APPROVAL" ->
               { "PENDING_COMPLIANCE_CLOSURE", "PENDING_MANAGEMENT_CLOSURE_APPROVAL",
                 "PENDING_REVISION", "IN_REMEDIATION" }
          [] s = "PENDING_MANAGEMENT_CLOSURE_APPROVAL" ->
               { "PENDING_COMPLIANCE_CLOSURE", "PENDING_REVISION", "IN_REMEDIATION" }
          [] s = "PENDING_COMPLIANCE_CLOSURE" -> { "CLOSED", "IN_REMEDIATION" }
          [] s = "PENDING_REVISION" ->
               { "PENDING_RISK_OWNER_APPROVAL", "PENDING_OWNER_COMPLETION_APPROVAL",
                 "PENDING_MANAGEMENT_CLOSURE_APPROVAL", "PENDING_COMPLIANCE_REVIEW",
                 "CANCELLED" }
          [] s = "ESCALATED" ->
               { "PENDING_MANAGEMENT_APPROVAL", "IN_REMEDIATION", "CANCELLED" }
          [] OTHER -> {} ]

IsValidRiskTransition(from, to) == from = to \/ to \in AllowedRiskTransitions[from]

-----------------------------------------------------------------------------
OwnerStatuses ==
    { "PENDING_RISK_OWNER_APPROVAL", "PENDING_AMENDMENT",
      "PENDING_OWNER_COMPLETION_APPROVAL" }

ManagementStatuses ==
    { "PENDING_MANAGEMENT_APPROVAL", "PENDING_MANAGEMENT_CLOSURE_APPROVAL" }

\* riskService.Reject: the statuses a risk can be rejected from ...
RejectableStatuses ==
    OwnerStatuses \cup ManagementStatuses \cup { "PENDING_COMPLIANCE_REVIEW" }

\* ... and the stage the rejection is stamped with.
RejectionStage(status) ==
    CASE status = "PENDING_MANAGEMENT_APPROVAL"         -> "MANAGEMENT"
      [] status = "PENDING_COMPLIANCE_REVIEW"           -> "COMPLIANCE"
      [] status = "PENDING_OWNER_COMPLETION_APPROVAL"   -> "COMPLETION_OWNER"
      [] status = "PENDING_MANAGEMENT_CLOSURE_APPROVAL" -> "COMPLETION_MANAGEMENT"
      [] OTHER                                          -> "OWNER"

\* riskService.Resubmit, and resubmitTargetFor beside the handler.
ResubmitTarget(stage) ==
    CASE stage = "COMPLETION_OWNER"      -> "PENDING_OWNER_COMPLETION_APPROVAL"
      [] stage = "COMPLETION_MANAGEMENT" -> "PENDING_MANAGEMENT_CLOSURE_APPROVAL"
      [] OTHER                           -> "PENDING_RISK_OWNER_APPROVAL"

NeedsManagementSignOff(risk) == risk.treatment = "ACCEPT" /\ risk.gross = "HIGH"

\* riskService.OwnerApprove: where an owner's approval of this risk leads.
OwnerApproveTarget(risk) ==
    IF risk.status = "PENDING_OWNER_COMPLETION_APPROVAL"
    THEN IF NeedsManagementSignOff(risk) THEN "PENDING_MANAGEMENT_CLOSURE_APPROVAL"
                                         ELSE "PENDING_COMPLIANCE_CLOSURE"
    ELSE IF NeedsManagementSignOff(risk) THEN "PENDING_MANAGEMENT_APPROVAL"
                                         ELSE "PENDING_COMPLIANCE_REVIEW"

\* riskService.ManagementApprove.
ManagementApproveTarget(status) ==
    IF status = "PENDING_MANAGEMENT_APPROVAL" THEN "PENDING_COMPLIANCE_REVIEW"
                                              ELSE "PENDING_COMPLIANCE_CLOSURE"

Cancellable(risk) ==
    \/ risk.status = "PENDING_RISK_OWNER_APPROVAL"
    \/ risk.status = "PENDING_REVISION" /\ ~risk.ownerFirstApprovedAt

=============================================================================
