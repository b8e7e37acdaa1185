----------------------- MODULE RiskWorkflowProperties -----------------------
(***************************************************************************)
(* What RiskWorkflow is checked for.  The first part holds; the second is   *)
(* a claim of a comment of the code that its interleavings break.          *)
(***************************************************************************)
EXTENDS RiskWorkflow

CompletionStatuses ==
    { "PENDING_OWNER_COMPLETION_APPROVAL", "PENDING_MANAGEMENT_CLOSURE_APPROVAL",
      "PENDING_COMPLIANCE_CLOSURE", "CLOSED" }

\* Statuses a risk reaches only through its owner's first approval.
OwnerApprovedStatuses ==
    CompletionStatuses \cup
    { "PENDING_MANAGEMENT_APPROVAL", "PENDING_COMPLIANCE_REVIEW", "PENDING_AMENDMENT",
      "IN_REMEDIATION", "ESCALATED" }

\* Of those, the ones it reaches only through the compliance approval too.
ComplianceApprovedStatuses ==
    CompletionStatuses \cup { "IN_REMEDIATION", "ESCALATED", "PENDING_AMENDMENT" }

-----------------------------------------------------------------------------
\* A risk is in revision exactly while it carries the stage that rejected it; only
\* a cancellation leaves the stage behind.  Resubmit routes on that stage, so a
\* revision without one, or a stale one, restarts or skips approvals.
RevisionCarriesItsStage ==
    /\ risk.status = "PENDING_REVISION" => risk.rejectionStage # "NONE"
    /\ risk.rejectionStage # "NONE" => risk.status \in { "PENDING_REVISION", "CANCELLED" }

\* A risk past its owner carries owner_first_approved_at, although stamp and
\* transition are two calls and either may be the last one a request makes.
\* Cancel and the full-edit-only fields are decided from the stamp.
OwnerStampPrecedesProgress ==
    risk.status \in OwnerApprovedStatuses => risk.ownerFirstApprovedAt

\* Every status reached, whatever the interleaving, was preceded by the approvals
\* that lead to it: no stale compare-and-set puts a risk under remediation that
\* compliance never approved, or closes one whose remediation was never submitted,
\* whose plan was never completed or whose owner never signed its completion.
SignOffsInOrder ==
    /\ risk.status \in OwnerApprovedStatuses => "OWNER" \in milestones
    /\ risk.status \in ComplianceApprovedStatuses => "COMPLIANCE" \in milestones
    /\ risk.status \in CompletionStatuses => planCompleted /\ "SUBMITTED" \in milestones
    /\ risk.status \in { "PENDING_MANAGEMENT_CLOSURE_APPROVAL", "PENDING_COMPLIANCE_CLOSURE", "CLOSED" }
          => "COMPLETION_OWNER" \in milestones

\* The entity's transition map never turns a move the backend decided on into a
\* 400: it is a superset of what the handlers do, edits included.
NoMoveIsRefused ==
    \A r \in Requests :
        reqs[r].pc = "patch" => IsValidRiskTransition(reqs[r].patch.expected, reqs[r].patch.to)

\* An ESCALATED risk has an OPEN escalation to comment on, the only way back to
\* remediation, unless some resubmission crossed another one (see crossed): late
\* resolutions of a submitted risk never reach an escalation raised after them.
EscalatedHasOpenRow == (risk.status = "ESCALATED" /\ ~crossed) => OpenRows # {}

\* CLOSED and CANCELLED are final for every request still in flight when the
\* risk got there.
TerminalIsFinal ==
    [][risk.status \in { "CLOSED", "CANCELLED" } => risk'.status = risk.status]_vars

\* The gross score changes only while the risk is with its owner for the first
\* time, in revision, or cancelled: never under a later approver, although an edit
\* decides whether it may from a read that the owner's stamp can overtake.
GrossChangesOnlyBeforeReview ==
    [][risk'.gross # risk.gross =>
         risk.status \in { "PENDING_RISK_OWNER_APPROVAL", "PENDING_REVISION", "CANCELLED" }]_vars

\* Requests that read, decide and write in separate steps implement the operations
\* of RiskLifecycle, each an atomic one.
Lifecycle ==
    INSTANCE RiskLifecycle WITH status    <- risk.status,
                                stage     <- risk.rejectionStage,
                                open      <- OpenRows,
                                submitted <- "SUBMITTED" \in milestones

ImplementsLifecycle == Lifecycle!LifecycleSpec

-----------------------------------------------------------------------------
(* A claim of the code's own comments that an interleaving breaks. *)

\* risk_escalation_repo.go: "the risk is never left ESCALATED with no escalation"
\* to answer, "a stuck state".  Broken once a crossed resubmission has brought a
\* submitted risk back and its late ResolveOpen meets the next escalation.
NeverStuckEscalated == risk.status = "ESCALATED" => OpenRows # {}

=============================================================================
