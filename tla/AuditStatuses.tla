--------------------------- MODULE AuditStatuses ---------------------------
(***************************************************************************)
(* The status tables of an audit control and of its population and         *)
(* evidence rounds: what the ordinary workflow allows, what a backward     *)
(* override allows, and what an override does to the dependent round.      *)
(***************************************************************************)
EXTENDS Naturals

ControlStatuses ==
    { "POPULATION_PENDING", "POPULATION_INTERNAL_REVIEW", "POPULATION_UNDER_VALIDATION",
      "POPULATION_NEED_CLARIFICATION", "POPULATION_COMPLETE",
      "AWAITING_SAMPLE", "SUBMITTED_SAMPLE",
      "EVIDENCE_PENDING", "EVIDENCE_INTERNAL_REVIEW", "EVIDENCE_UNDER_VALIDATION",
      "EVIDENCE_NEED_CLARIFICATION", "COMPLETE" }

\* "ABSENT" before the insert of the row and "DELETED" after its delete.
RowStatuses == ControlStatuses \cup { "ABSENT", "DELETED" }

AuditStatusSet == { "ACTIVE", "COMPLETED", "ARCHIVED", "REMOVED" }

RequirementTypes == { "DESIGN", "OE" }

AllowedControlTransitions ==
    { <<"POPULATION_PENDING", "POPULATION_INTERNAL_REVIEW">>,
      <<"POPULATION_INTERNAL_REVIEW", "POPULATION_UNDER_VALIDATION">>,
      <<"POPULATION_INTERNAL_REVIEW", "POPULATION_PENDING">>,
      <<"POPULATION_UNDER_VALIDATION", "POPULATION_COMPLETE">>,
      <<"POPULATION_UNDER_VALIDATION", "POPULATION_NEED_CLARIFICATION">>,
      <<"POPULATION_NEED_CLARIFICATION", "POPULATION_INTERNAL_REVIEW">>,
      <<"POPULATION_COMPLETE", "AWAITING_SAMPLE">>,
      <<"POPULATION_COMPLETE", "SUBMITTED_SAMPLE">>,
      <<"POPULATION_COMPLETE", "EVIDENCE_PENDING">>,
      <<"AWAITING_SAMPLE", "SUBMITTED_SAMPLE">>,
      <<"AWAITING_SAMPLE", "EVIDENCE_PENDING">>,
      <<"SUBMITTED_SAMPLE", "EVIDENCE_PENDING">>,
      <<"SUBMITTED_SAMPLE", "EVIDENCE_INTERNAL_REVIEW">>,
      <<"EVIDENCE_PENDING", "EVIDENCE_INTERNAL_REVIEW">>,
      <<"EVIDENCE_INTERNAL_REVIEW", "EVIDENCE_UNDER_VALIDATION">>,
      <<"EVIDENCE_INTERNAL_REVIEW", "EVIDENCE_PENDING">>,
      <<"EVIDENCE_UNDER_VALIDATION", "COMPLETE">>,
      <<"EVIDENCE_UNDER_VALIDATION", "EVIDENCE_NEED_CLARIFICATION">>,
      <<"EVIDENCE_NEED_CLARIFICATION", "EVIDENCE_INTERNAL_REVIEW">> }

\* The empty current status, which no row has, is left out.
ValidControlTransition(from, to) ==
    from = to \/ <<from, to>> \in AllowedControlTransitions

ControlStatusRank ==
    [ s \in ControlStatuses |->
        CASE s = "POPULATION_PENDING" -> 0
          [] s \in { "POPULATION_INTERNAL_REVIEW", "POPULATION_NEED_CLARIFICATION" } -> 1
          [] s = "POPULATION_UNDER_VALIDATION" -> 2
          [] s = "POPULATION_COMPLETE" -> 3
          [] s = "AWAITING_SAMPLE" -> 4
          [] s = "SUBMITTED_SAMPLE" -> 5
          [] s \in { "EVIDENCE_PENDING", "EVIDENCE_NEED_CLARIFICATION" } -> 6
          [] s = "EVIDENCE_INTERNAL_REVIEW" -> 7
          [] s = "EVIDENCE_UNDER_VALIDATION" -> 8
          [] s = "COMPLETE" -> 9 ]

DesignControlFloorRank == 6

Backward(from, to) == ControlStatusRank[to] < ControlStatusRank[from]

ValidOverrideTransition(type, from, to) ==
    /\ type = "DESIGN" => ControlStatusRank[to] >= DesignControlFloorRank
    /\ Backward(from, to)

-----------------------------------------------------------------------------
(* Rounds. *)

Kinds == { "population", "evidence" }

RoundStatuses == { "PENDING", "SUBMITTED", "COMPLIANCE_APPROVED", "COMPLIANCE_REJECTED",
                   "APPROVED", "AUDITOR_REJECTED" }

\* Both rejected statuses are open again; PENDING is a population status.
Rejected == { "COMPLIANCE_REJECTED", "AUDITOR_REJECTED" }

AllowedPopulationTransitions ==
    { <<"PENDING", "SUBMITTED">>,
      <<"SUBMITTED", "COMPLIANCE_APPROVED">>, <<"SUBMITTED", "COMPLIANCE_REJECTED">>,
      <<"COMPLIANCE_REJECTED", "SUBMITTED">>,
      <<"COMPLIANCE_APPROVED", "APPROVED">>, <<"COMPLIANCE_APPROVED", "AUDITOR_REJECTED">>,
      <<"AUDITOR_REJECTED", "SUBMITTED">> }

AllowedEvidenceTransitions ==
    { <<"SUBMITTED", "COMPLIANCE_APPROVED">>, <<"SUBMITTED", "COMPLIANCE_REJECTED">>,
      <<"COMPLIANCE_REJECTED", "SUBMITTED">>,
      <<"COMPLIANCE_APPROVED", "APPROVED">>, <<"COMPLIANCE_APPROVED", "AUDITOR_REJECTED">>,
      <<"AUDITOR_REJECTED", "SUBMITTED">> }

ValidPopulationTransition(from, to) ==
    from = to \/ <<from, to>> \in AllowedPopulationTransitions

ValidEvidenceTransition(from, to) ==
    from = to \/ <<from, to>> \in AllowedEvidenceTransitions

ValidRoundTransition(kind, from, to) ==
    \/ kind = "population" /\ ValidPopulationTransition(from, to)
    \/ kind = "evidence" /\ ValidEvidenceTransition(from, to)

\* audit_population.status and, but for PENDING, audit_evidence.status.
RoundStatusRank ==
    [ s \in RoundStatuses |->
        CASE s \in Rejected \cup { "PENDING" } -> 0
          [] s = "SUBMITTED" -> 1
          [] s = "COMPLIANCE_APPROVED" -> 2
          [] s = "APPROVED" -> 3 ]

\* From EVIDENCE_PENDING on an override leaves the population alone: "none".
OverridePopulationTarget(to) ==
    CASE to = "POPULATION_PENDING" -> "PENDING"
      [] to = "POPULATION_INTERNAL_REVIEW" -> "SUBMITTED"
      [] to = "POPULATION_UNDER_VALIDATION" -> "COMPLIANCE_APPROVED"
      [] to = "POPULATION_NEED_CLARIFICATION" -> "AUDITOR_REJECTED"
      [] to \in { "POPULATION_COMPLETE", "AWAITING_SAMPLE", "SUBMITTED_SAMPLE" } -> "APPROVED"
      [] OTHER -> "none"

\* Mutant: an override to EVIDENCE_PENDING leaves the round under review.
RoundKept(to) ==
    CASE to \in { "EVIDENCE_PENDING", "EVIDENCE_INTERNAL_REVIEW" } -> "SUBMITTED"
      [] to = "EVIDENCE_UNDER_VALIDATION" -> "COMPLIANCE_APPROVED"
      [] to = "EVIDENCE_NEED_CLARIFICATION" -> "AUDITOR_REJECTED"
      [] OTHER -> "COMPLIANCE_REJECTED"

OverrideEvidenceTarget(to) ==
    CASE to = "EVIDENCE_INTERNAL_REVIEW" -> "SUBMITTED"
      [] to = "EVIDENCE_UNDER_VALIDATION" -> "COMPLIANCE_APPROVED"
      [] to = "EVIDENCE_NEED_CLARIFICATION" -> "AUDITOR_REJECTED"
      [] OTHER -> "COMPLIANCE_REJECTED"

OverrideTarget(kind, to) ==
    IF kind = "population" THEN OverridePopulationTarget(to) ELSE OverrideEvidenceTarget(to)

=============================================================================
