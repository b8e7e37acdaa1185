---------------------------- MODULE RiskWorkflow ----------------------------
(***************************************************************************)
(* One risk, its escalation rows and the HTTP requests acting on it.       *)
(*                                                                         *)
(* A request is served by a backend goroutine that owns no lock and no     *)
(* transaction: it reads the risk from the compliance entity, decides, and *)
(* sends the entity a PATCH guarded by the status it read (expectedStatus).*)
(* Each of those HTTP calls is a step here, so any number of other requests *)
(* may land between two of them.  A request may end after any step         *)
(* (GiveUp): a guard that fails, a lost compare-and-set, a timeout, or a   *)
(* crash of the backend between two calls.                                 *)
(***************************************************************************)
EXTENDS RiskStatuses

CONSTANTS
    Requests,       \* the requests in flight at once
    EscalationIds,  \* the risk_escalation rows that can be inserted
    Operations      \* the operations callers invoke

AllOperations ==
    { "OwnerApprove", "ManagementApprove", "Approve", "Reject", "Complete",
      "Resubmit", "Cancel", "Close", "Update", "CompletePlan", "Escalate", "Comment" }

ASSUME OperationsAssumption == Operations \subseteq AllOperations

VARIABLES
    risk,           \* the risk row
    planCompleted,  \* has some action plan of the risk status COMPLETED
    escalations,    \* risk_escalation.status of every row, "NONE" before its insert
    reqs,           \* the requests
    milestones,     \* history: the approvals given so far, and "SUBMITTED"
    crossed         \* history: a resubmission landed on another rejection than it read

vars == <<risk, planCompleted, escalations, reqs, milestones, crossed>>

RiskRows ==
    [ status : RiskStatuses, treatment : Treatments, gross : Levels,
      ownerFirstApprovedAt : BOOLEAN, rejectionStage : Stages \cup { "NONE" } ]

\* The body of a PATCH /risks/{id}: "KEEP" is a field the body does not carry,
\* a stage of "NONE" is clearRejection, and to = expected is a body without
\* workflowStatus.
Patches ==
    [ expected : RiskStatuses, to : RiskStatuses, stage : Stages \cup { "NONE", "KEEP" },
      treatment : Treatments \cup { "KEEP" }, gross : Levels \cup { "KEEP" } ]

Transition(from, to) ==
    [ expected |-> from, to |-> to, stage |-> "KEEP", treatment |-> "KEEP", gross |-> "KEEP" ]

NoPatch == Transition("CLOSED", "CLOSED")

Pcs == { "idle", "stamp", "plans", "patch", "list", "resolve",
         "count", "escalate", "lookup", "comment", "completePlan" }

\* A request: its operation, where it is, the PATCH it has decided on, and the
\* escalation rows it holds.
RequestStates ==
    [ op : AllOperations, pc : Pcs, patch : Patches, rows : SUBSET EscalationIds ]

Idle == [ op |-> "Close", pc |-> "idle", patch |-> NoPatch, rows |-> {} ]

OpenRows == { e \in EscalationIds : escalations[e] = "OPEN" }

TypeOK ==
    /\ risk \in RiskRows
    /\ planCompleted \in BOOLEAN
    /\ escalations \in [ EscalationIds -> { "NONE", "OPEN", "RESOLVED" } ]
    /\ reqs \in [ Requests -> RequestStates ]
    /\ milestones \subseteq Stages \cup { "SUBMITTED" }
    /\ crossed \in BOOLEAN

\* riskRepo.CreateRisk: a risk starts at the owner's approval with its plan PENDING.
Init ==
    /\ \E t \in Treatments, g \in Levels :
          risk = [ status |-> "PENDING_RISK_OWNER_APPROVAL", treatment |-> t, gross |-> g,
                   ownerFirstApprovedAt |-> FALSE, rejectionStage |-> "NONE" ]
    /\ planCompleted = FALSE
    /\ escalations = [ e \in EscalationIds |-> "NONE" ]
    /\ reqs = [ r \in Requests |-> Idle ]
    /\ milestones = {}
    /\ crossed = FALSE

-----------------------------------------------------------------------------
Asked(r, op) == reqs[r].pc = "idle" /\ op \in Operations

\* The request has read what it needs and holds the PATCH to send, from pc on.
Decide(r, op, pc, patch) ==
    reqs' = [ reqs EXCEPT ![r] = [ op |-> op, pc |-> pc, patch |-> patch, rows |-> {} ] ]

Start(r, op, pc) == Decide(r, op, pc, NoPatch)

At(r, op, pc) == reqs[r].op = op /\ reqs[r].pc = pc

Goto(r, pc) == reqs' = [ reqs EXCEPT ![r].pc = pc ]

Finish(r) == reqs' = [ reqs EXCEPT ![r] = Idle ]

OnlyRequests == UNCHANGED <<risk, planCompleted, escalations, milestones, crossed>>

-----------------------------------------------------------------------------
\* Mutant: the transition is sent without the stamp.
TransitionFirst(detail) == "patch"

\* A first approval is stamped before the risk is moved on.
FirstOwnerWrite(detail) ==
    IF \/ detail.status = "PENDING_OWNER_COMPLETION_APPROVAL"
       \/ detail.ownerFirstApprovedAt
    THEN "patch" ELSE "stamp"

\* riskService.OwnerApprove up to its first write.
OwnerApprove(r) ==
    /\ Asked(r, "OwnerApprove")
    /\ risk.status \in OwnerStatuses
    /\ Decide(r, "OwnerApprove", FirstOwnerWrite(risk),
              Transition(risk.status, OwnerApproveTarget(risk)))
    /\ OnlyRequests

\* SetOwnerFirstApprovedAt: a PATCH of its own, guarded by nothing.
StampOwnerApproval(r) ==
    /\ At(r, "OwnerApprove", "stamp")
    /\ risk' = [ risk EXCEPT !.ownerFirstApprovedAt = TRUE ]
    /\ Goto(r, "patch")
    /\ UNCHANGED <<planCompleted, escalations, milestones, crossed>>

ManagementApprove(r) ==
    /\ Asked(r, "ManagementApprove")
    /\ risk.status \in ManagementStatuses
    /\ Decide(r, "ManagementApprove", "patch",
              Transition(risk.status, ManagementApproveTarget(risk.status)))
    /\ OnlyRequests

Approve(r) ==
    /\ Asked(r, "Approve")
    /\ risk.status = "PENDING_COMPLIANCE_REVIEW"
    /\ Decide(r, "Approve", "patch", Transition("PENDING_COMPLIANCE_REVIEW", "IN_REMEDIATION"))
    /\ OnlyRequests

RejectTransition(from) ==
    [ Transition(from, "PENDING_REVISION") EXCEPT !.stage = RejectionStage(from) ]

Reject(r) ==
    /\ Asked(r, "Reject")
    /\ risk.status \in RejectableStatuses
    /\ Decide(r, "Reject", "patch", RejectTransition(risk.status))
    /\ OnlyRequests

\* Mutant: the rejection is left on the row.
ResubmitKeepingRejection(to) == Transition("PENDING_REVISION", to)

\* riskRepository.ResubmitTransition: clearRejection and the move, one PATCH.
ResubmitTransition(to) == [ Transition("PENDING_REVISION", to) EXCEPT !.stage = "NONE" ]

Resubmit(r) ==
    /\ Asked(r, "Resubmit")
    /\ risk.status = "PENDING_REVISION"
    /\ Decide(r, "Resubmit", "patch", ResubmitTransition(ResubmitTarget(risk.rejectionStage)))
    /\ OnlyRequests

\* riskService.Complete reads the status, then the plans.
CompleteStatus(r) ==
    /\ Asked(r, "Complete")
    /\ risk.status = "IN_REMEDIATION"
    /\ Start(r, "Complete", "plans")
    /\ OnlyRequests

\* Mutant: the plans are listed and not looked at.
CompleteRegardlessOfPlans(r) ==
    /\ At(r, "Complete", "plans")
    /\ Decide(r, "Complete", "patch", Transition("IN_REMEDIATION", "PENDING_OWNER_COMPLETION_APPROVAL"))
    /\ OnlyRequests

CompletePlans(r) ==
    /\ At(r, "Complete", "plans")
    /\ planCompleted
    /\ Decide(r, "Complete", "patch", Transition("IN_REMEDIATION", "PENDING_OWNER_COMPLETION_APPROVAL"))
    /\ OnlyRequests

Cancel(r) ==
    /\ Asked(r, "Cancel")
    /\ Cancellable(risk)
    /\ Decide(r, "Cancel", "patch", Transition(risk.status, "CANCELLED"))
    /\ OnlyRequests

Close(r) ==
    /\ Asked(r, "Close")
    /\ risk.status = "PENDING_COMPLIANCE_CLOSURE"
    /\ Decide(r, "Close", "patch", Transition("PENDING_COMPLIANCE_CLOSURE", "CLOSED"))
    /\ OnlyRequests

RestrictedChanged(treatment, otherRestricted) ==
    otherRestricted \/ treatment \notin { "KEEP", risk.treatment }

\* Mutant: a restricted change sends a risk of any status back for amendment.
AmendedWheneverRestricted(treatment, otherRestricted) ==
    IF RestrictedChanged(treatment, otherRestricted) THEN "PENDING_AMENDMENT" ELSE risk.status

\* A restricted change to a risk under remediation sends it back for amendment.
EditTarget(treatment, otherRestricted) ==
    IF RestrictedChanged(treatment, otherRestricted) /\ risk.status = "IN_REMEDIATION"
    THEN "PENDING_AMENDMENT" ELSE risk.status

\* Mutant: the gross score stays editable.
GrossAsSent(gross) == gross

\* Full-edit-only: discarded once an owner has approved.
EditableGross(gross) == IF risk.ownerFirstApprovedAt THEN "KEEP" ELSE gross

\* riskRepository.Update: the edit form's treatment and gross score ("KEEP" when
\* absent), and whether it changes another restricted field.
EditPatch(treatment, gross, otherRestricted) ==
    [ expected  |-> risk.status, to |-> EditTarget(treatment, otherRestricted),
      stage     |-> "KEEP",
      treatment |-> treatment,   gross |-> EditableGross(gross) ]

Update(r) ==
    /\ Asked(r, "Update")
    /\ risk.status # "CLOSED"
    /\ \E t \in Treatments \cup { "KEEP" }, g \in Levels \cup { "KEEP" }, o \in BOOLEAN :
          Decide(r, "Update", "patch", EditPatch(t, g, o))
    /\ OnlyRequests

\* entity UpdateRisk: only the fields present in the body join the SET list.
Put(old, new) == IF new = "KEEP" THEN old ELSE new

Patched(p) ==
    [ status         |-> p.to,
      rejectionStage |-> Put(risk.rejectionStage, p.stage),
      treatment      |-> Put(risk.treatment, p.treatment),
      gross          |-> Put(risk.gross, p.gross),
      ownerFirstApprovedAt |-> risk.ownerFirstApprovedAt ]

\* UPDATE ... WHERE id = ? AND workflow_status = expected.
StatusIs(expected) == risk.status = expected

Milestone(op, from) ==
    CASE op \in { "OwnerApprove", "ManagementApprove", "Approve" } -> { RejectionStage(from) }
      [] op = "Complete" -> { "SUBMITTED" }
      [] OTHER -> {}

\* What handleCompleteRisk still does once its PATCH has succeeded: resolve the
\* open escalations of the risk.
AfterPatch(op) == IF op = "Complete" THEN "list" ELSE "idle"

ApplyPatch(r) ==
    LET p == reqs[r].patch
    IN  /\ reqs[r].pc = "patch"
        /\ IsValidRiskTransition(p.expected, p.to)
        /\ StatusIs(p.expected)
        /\ risk' = Patched(p)
        /\ milestones' = milestones \cup Milestone(reqs[r].op, p.expected)
        /\ crossed' = (crossed \/ ( /\ reqs[r].op = "Resubmit"
                                    /\ p.to # ResubmitTarget(risk.rejectionStage) ))
        /\ IF AfterPatch(reqs[r].op) = "idle" THEN Finish(r)
                                              ELSE Goto(r, AfterPatch(reqs[r].op))
        /\ UNCHANGED <<planCompleted, escalations>>

-----------------------------------------------------------------------------
\* escalationRepository.Resolve, called once Complete has succeeded: list the
\* escalations, then PATCH every OPEN one RESOLVED, guarded by nothing.
ListOpenEscalations(r) ==
    /\ At(r, "Complete", "list")
    /\ reqs' = [ reqs EXCEPT ![r] = [ op |-> "Complete", pc |-> "resolve", patch |-> NoPatch,
                                       rows |-> OpenRows ] ]
    /\ OnlyRequests

ResolveEscalation(r) ==
    /\ At(r, "Complete", "resolve")
    /\ \E e \in reqs[r].rows :
          /\ escalations' = [ escalations EXCEPT ![e] = "RESOLVED" ]
          /\ reqs' = [ reqs EXCEPT ![r].rows = @ \ { e } ]
    /\ UNCHANGED <<risk, planCompleted, milestones, crossed>>

\* entity EscalateRisk: a check of the status outside the transaction, then the
\* transaction's count of OPEN rows (a snapshot read), then its guarded flip and
\* insert, which the row lock makes one step.  Whether the implementation date
\* has passed is the caller's choice here.
Escalate(r) ==
    /\ Asked(r, "Escalate")
    /\ risk.status = "IN_REMEDIATION"
    /\ Start(r, "Escalate", "count")
    /\ OnlyRequests

CountOpenEscalations(r) ==
    /\ At(r, "Escalate", "count")
    /\ OpenRows = {}
    /\ Goto(r, "escalate")
    /\ OnlyRequests

\* Mutant: the flip commits without the insert.
RowLost(e) == UNCHANGED escalations

InsertRow(e) ==
    /\ escalations[e] = "NONE"
    /\ escalations' = [ escalations EXCEPT ![e] = "OPEN" ]

InsertEscalation(r) ==
    /\ At(r, "Escalate", "escalate")
    /\ risk.status = "IN_REMEDIATION"
    /\ risk' = [ risk EXCEPT !.status = "ESCALATED" ]
    /\ \E e \in EscalationIds : InsertRow(e)
    /\ Finish(r)
    /\ UNCHANGED <<planCompleted, milestones, crossed>>

\* escalationService.Comment reads the risk; it and the entity's transaction then
\* look the escalation up and require it OPEN (RESOLVED is final, so the later
\* look subsumes the earlier); the transaction flips the risk back.
Comment(r) ==
    /\ Asked(r, "Comment")
    /\ risk.status = "ESCALATED"
    /\ Start(r, "Comment", "lookup")
    /\ OnlyRequests

LookupEscalation(r) ==
    /\ At(r, "Comment", "lookup")
    /\ OpenRows # {}
    /\ Goto(r, "comment")
    /\ OnlyRequests

CommentEscalation(r) ==
    /\ At(r, "Comment", "comment")
    /\ risk.status = "ESCALATED"
    /\ risk' = [ risk EXCEPT !.status = "IN_REMEDIATION" ]
    /\ Finish(r)
    /\ UNCHANGED <<planCompleted, escalations, milestones, crossed>>

\* entity CompleteRiskActionPlan checks the risk's status, then writes the plan
\* without looking at the risk again.  ActionPlan models the rest of its checks.
CompletePlanCheck(r) ==
    /\ Asked(r, "CompletePlan")
    /\ risk.status \in { "IN_REMEDIATION", "ESCALATED" }
    /\ Start(r, "CompletePlan", "completePlan")
    /\ OnlyRequests

CompletePlanWrite(r) ==
    /\ At(r, "CompletePlan", "completePlan")
    /\ planCompleted' = TRUE
    /\ Finish(r)
    /\ UNCHANGED <<risk, escalations, milestones, crossed>>

\* The request ends: its work is done, a check failed, its compare-and-set lost,
\* it timed out, or its backend died.  What it wrote stays written.
GiveUp(r) == reqs[r].pc # "idle" /\ Finish(r) /\ OnlyRequests

-----------------------------------------------------------------------------
RequestStep(r) ==
    \/ OwnerApprove(r) \/ StampOwnerApproval(r)
    \/ ManagementApprove(r) \/ Approve(r) \/ Reject(r) \/ Resubmit(r)
    \/ CompleteStatus(r) \/ CompletePlans(r) \/ Cancel(r) \/ Close(r) \/ Update(r)
    \/ ApplyPatch(r)
    \/ ListOpenEscalations(r) \/ ResolveEscalation(r)
    \/ Escalate(r) \/ CountOpenEscalations(r) \/ InsertEscalation(r)
    \/ Comment(r) \/ LookupEscalation(r) \/ CommentEscalation(r)
    \/ CompletePlanCheck(r) \/ CompletePlanWrite(r)
    \/ GiveUp(r)

Next == \E r \in Requests : RequestStep(r)

Spec == Init /\ [][Next]_vars

=============================================================================
