---------------------------- MODULE RiskLifecycle ---------------------------
(***************************************************************************)
(* What the Risk Hub promises about one risk, with every operation a single *)
(* atomic step: which operation takes which status where, that a rejection *)
(* is stamped with the stage it came from and cleared by the resubmission, *)
(* that an escalation opens exactly one row and that rows are resolved only *)
(* once remediation has been submitted.  RiskWorkflow, where a request      *)
(* reads, decides and writes in separate steps, implements this.            *)
(***************************************************************************)
EXTENDS RiskStatuses

CONSTANT EscalationIds

VARIABLES
    status,     \* the risk's workflow status
    stage,      \* the stage that rejected it, "NONE" when there is none
    open,       \* its OPEN escalation rows
    submitted   \* has remediation ever been submitted for completion approval

lifecycle == <<status, stage, open, submitted>>

LifecycleInit ==
    /\ status = "PENDING_RISK_OWNER_APPROVAL"
    /\ stage = "NONE"
    /\ open = {}
    /\ submitted = FALSE

Move(from, to) == status \in from /\ status' \in to

ApproveByOwner ==
    /\ \/ Move({ "PENDING_RISK_OWNER_APPROVAL", "PENDING_AMENDMENT" },
               { "PENDING_MANAGEMENT_APPROVAL", "PENDING_COMPLIANCE_REVIEW" })
       \/ Move({ "PENDING_OWNER_COMPLETION_APPROVAL" },
               { "PENDING_MANAGEMENT_CLOSURE_APPROVAL", "PENDING_COMPLIANCE_CLOSURE" })
    /\ UNCHANGED <<stage, open, submitted>>

ApproveByManagement ==
    /\ \/ Move({ "PENDING_MANAGEMENT_APPROVAL" }, { "PENDING_COMPLIANCE_REVIEW" })
       \/ Move({ "PENDING_MANAGEMENT_CLOSURE_APPROVAL" }, { "PENDING_COMPLIANCE_CLOSURE" })
    /\ UNCHANGED <<stage, open, submitted>>

ApproveByCompliance ==
    /\ \/ Move({ "PENDING_COMPLIANCE_REVIEW" }, { "IN_REMEDIATION" })
       \/ Move({ "PENDING_COMPLIANCE_CLOSURE" }, { "CLOSED" })
    /\ UNCHANGED <<stage, open, submitted>>

SendBack ==
    /\ Move(RejectableStatuses, { "PENDING_REVISION" })
    /\ stage' = RejectionStage(status)
    /\ UNCHANGED <<open, submitted>>

SubmitAgain ==
    /\ Move({ "PENDING_REVISION" },
            { ResubmitTarget(s) : s \in (IF submitted THEN Stages ELSE { "OWNER" }) })
    /\ stage' = "NONE"
    /\ UNCHANGED <<open, submitted>>

Amend ==
    /\ Move({ "IN_REMEDIATION" }, { "PENDING_AMENDMENT" })
    /\ UNCHANGED <<stage, open, submitted>>

Submit ==
    /\ Move({ "IN_REMEDIATION" }, { "PENDING_OWNER_COMPLETION_APPROVAL" })
    /\ submitted' = TRUE
    /\ UNCHANGED <<stage, open>>

Withdraw ==
    /\ Move({ "PENDING_RISK_OWNER_APPROVAL", "PENDING_REVISION" }, { "CANCELLED" })
    /\ UNCHANGED <<stage, open, submitted>>

RaiseEscalation ==
    /\ Move({ "IN_REMEDIATION" }, { "ESCALATED" })
    /\ \E e \in EscalationIds \ open : open' = open \cup { e }
    /\ UNCHANGED <<stage, submitted>>

AnswerEscalation ==
    /\ Move({ "ESCALATED" }, { "IN_REMEDIATION" })
    /\ UNCHANGED <<stage, open, submitted>>

CloseEscalation ==
    /\ submitted
    /\ \E e \in open : open' = open \ { e }
    /\ UNCHANGED <<status, stage, submitted>>

LifecycleNext ==
    \/ ApproveByOwner \/ ApproveByManagement \/ ApproveByCompliance
    \/ SendBack \/ SubmitAgain \/ Amend \/ Submit \/ Withdraw
    \/ RaiseEscalation \/ AnswerEscalation \/ CloseEscalation

LifecycleSpec == LifecycleInit /\ [][LifecycleNext]_lifecycle

=============================================================================
