------------------------- MODULE RiskWorkflowProofs -------------------------
(***************************************************************************)
(* Proofs, for any set of requests, escalation rows and operations, of the *)
(* properties MCRiskWorkflow checks on a small instance.                   *)
(***************************************************************************)
EXTENDS RiskWorkflowProperties, TLAPS

-----------------------------------------------------------------------------
(* The helpers every action is written with. *)

LEMMA TransitionType ==
    ASSUME NEW from \in RiskStatuses, NEW to \in RiskStatuses
    PROVE  Transition(from, to) \in Patches
BY DEF Transition, Patches

LEMMA RoutingType ==
    /\ \A s : RejectionStage(s) \in Stages
    /\ \A s : ResubmitTarget(s) \in RiskStatuses
    /\ \A d : OwnerApproveTarget(d) \in RiskStatuses
    /\ \A s : ManagementApproveTarget(s) \in RiskStatuses
BY DEF RejectionStage, ResubmitTarget, OwnerApproveTarget, ManagementApproveTarget,
       Stages, RiskStatuses

LEMMA IdleType == Idle \in RequestStates
BY DEF Idle, NoPatch, Transition, RequestStates, Patches, AllOperations, Pcs, RiskStatuses

-----------------------------------------------------------------------------
(* Type correctness. *)

LEMMA TypeInit == Init => TypeOK
<1> SUFFICES ASSUME Init PROVE TypeOK
    OBVIOUS
<1>1. risk \in RiskRows
    BY DEF Init, RiskRows, RiskStatuses
<1>2. reqs \in [ Requests -> RequestStates ]
    BY IdleType DEF Init
<1> QED
    BY <1>1, <1>2 DEF Init, TypeOK

LEMMA TypeNext == TypeOK /\ [Next]_vars => TypeOK'
<1> SUFFICES ASSUME TypeOK, [Next]_vars PROVE TypeOK'
    OBVIOUS
<1> USE DEF TypeOK
<1>1. CASE UNCHANGED vars
    BY <1>1 DEF vars
<1>2. ASSUME NEW r \in Requests, RequestStep(r) PROVE TypeOK'
  <2> USE DEF RequestStates, Pcs, AllOperations, OnlyRequests
  <2>1. CASE OwnerApprove(r)
    <3>1. Transition(risk.status, OwnerApproveTarget(risk)) \in Patches
        BY RoutingType, TransitionType DEF RiskRows
    <3>2. FirstOwnerWrite(risk) \in Pcs
        BY DEF FirstOwnerWrite
    <3> QED
        BY <3>1, <3>2, <2>1, IdleType DEF OwnerApprove, Decide
  <2>2. CASE StampOwnerApproval(r)
    <3>1. risk' \in RiskRows
        BY <2>2 DEF StampOwnerApproval, RiskRows
    <3>2. reqs' \in [ Requests -> RequestStates ]
        BY <2>2 DEF StampOwnerApproval, Goto
    <3> QED
        BY <3>1, <3>2, <2>2 DEF StampOwnerApproval
  <2>3. CASE ManagementApprove(r)
    BY <2>3, RoutingType, IdleType, TransitionType DEF ManagementApprove, Decide, RiskRows
  <2>4. CASE Approve(r)
    BY <2>4, IdleType, TransitionType DEF Approve, Decide, RiskStatuses
  <2>5. CASE Reject(r)
    <3>1. RejectTransition(risk.status) \in Patches
        BY RoutingType DEF RejectTransition, Transition, Patches, RiskRows, RiskStatuses
    <3> QED
        BY <3>1, <2>5, IdleType DEF Reject, Decide
  <2>6. CASE Resubmit(r)
    <3>1. ResubmitTransition(ResubmitTarget(risk.rejectionStage)) \in Patches
        BY RoutingType DEF ResubmitTransition, Transition, Patches, RiskStatuses
    <3> QED
        BY <3>1, <2>6, IdleType DEF Resubmit, Decide
  <2>7. CASE CompleteStatus(r)
    BY <2>7, IdleType DEF CompleteStatus, Start, Decide, Idle
  <2>8. CASE CompletePlans(r)
    BY <2>8, IdleType, TransitionType DEF CompletePlans, Decide, RiskStatuses
  <2>9. CASE Cancel(r)
    BY <2>9, IdleType, TransitionType DEF Cancel, Decide, RiskRows, RiskStatuses
  <2>10. CASE Close(r)
    BY <2>10, IdleType, TransitionType DEF Close, Decide, RiskStatuses
  <2>11. CASE Update(r)
    <3>1. \A t \in Treatments \cup { "KEEP" }, g \in Levels \cup { "KEEP" }, o \in BOOLEAN :
             EditPatch(t, g, o) \in Patches
        BY DEF EditPatch, Patches, EditTarget, EditableGross, RiskRows, RiskStatuses
    <3>2. PICK t \in Treatments \cup { "KEEP" }, g \in Levels \cup { "KEEP" }, o \in BOOLEAN :
             Decide(r, "Update", "patch", EditPatch(t, g, o))
        BY <2>11 DEF Update
    <3>3. UNCHANGED <<risk, planCompleted, escalations, milestones, crossed>>
        BY <2>11 DEF Update, OnlyRequests
    <3>4. reqs' \in [ Requests -> RequestStates ]
        BY <3>1, <3>2 DEF Decide, RequestStates, AllOperations, Pcs
    <3> QED
        BY <3>3, <3>4
  <2>12. CASE ApplyPatch(r)
    <3>1. risk' \in RiskRows
        BY <2>12 DEF ApplyPatch, Patched, Put, Patches, RiskRows
    <3>2. milestones' \subseteq Stages \cup { "SUBMITTED" }
        BY <2>12, RoutingType DEF ApplyPatch, Milestone
    <3>3. crossed' \in BOOLEAN
        BY <2>12 DEF ApplyPatch
    <3>4. reqs' \in [ Requests -> RequestStates ]
        BY <2>12, IdleType DEF ApplyPatch, Finish, Goto, AfterPatch
    <3> QED
        BY <3>1, <3>2, <3>3, <3>4, <2>12 DEF ApplyPatch
  <2>13. CASE ListOpenEscalations(r)
    <3>1. OpenRows \in SUBSET EscalationIds
        BY DEF OpenRows
    <3> QED
        BY <3>1, <2>13, IdleType DEF ListOpenEscalations, Idle
  <2>14. CASE ResolveEscalation(r)
    BY <2>14 DEF ResolveEscalation
  <2>15. CASE Escalate(r)
    BY <2>15, IdleType DEF Escalate, Start, Decide, Idle
  <2>16. CASE CountOpenEscalations(r)
    BY <2>16 DEF CountOpenEscalations, Goto
  <2>17. CASE InsertEscalation(r)
    BY <2>17, IdleType DEF InsertEscalation, InsertRow, Finish, RiskRows, RiskStatuses
  <2>18. CASE Comment(r)
    BY <2>18, IdleType DEF Comment, Start, Decide, Idle
  <2>19. CASE LookupEscalation(r)
    BY <2>19 DEF LookupEscalation, Goto
  <2>20. CASE CommentEscalation(r)
    BY <2>20, IdleType DEF CommentEscalation, Finish, RiskRows, RiskStatuses
  <2>21. CASE CompletePlanCheck(r)
    BY <2>21, IdleType DEF CompletePlanCheck, Start, Decide, Idle
  <2>22. CASE CompletePlanWrite(r)
    BY <2>22, IdleType DEF CompletePlanWrite, Finish
  <2>23. CASE GiveUp(r)
    BY <2>23, IdleType DEF GiveUp, Finish
  <2> QED
    BY <1>2, <2>1, <2>2, <2>3, <2>4, <2>5, <2>6, <2>7, <2>8, <2>9, <2>10,
       <2>11, <2>12, <2>13, <2>14, <2>15, <2>16, <2>17, <2>18, <2>19, <2>20, <2>21, <2>22,
       <2>23 DEF RequestStep
<1> QED
    BY <1>1, <1>2 DEF Next

\* The rows, the requests and every PATCH in flight keep their types.
THEOREM TypeCorrect == Spec => []TypeOK
BY TypeInit, TypeNext, PTL DEF Spec

-----------------------------------------------------------------------------
(* The inductive invariant.  A PATCH in flight is described by what its      *)
(* operation can have decided (Decision), which never changes; what it       *)
(* relies on in the rows (the last three conjuncts of Reliances) only grows. *)

\* What each operation's request holds between its decision and its write.
Decision(op, p) ==
    \/ /\ op = "OwnerApprove"
       /\ \/ /\ p.expected \in { "PENDING_RISK_OWNER_APPROVAL", "PENDING_AMENDMENT" }
             /\ p.to \in { "PENDING_MANAGEMENT_APPROVAL", "PENDING_COMPLIANCE_REVIEW" }
          \/ /\ p.expected = "PENDING_OWNER_COMPLETION_APPROVAL"
             /\ p.to \in { "PENDING_MANAGEMENT_CLOSURE_APPROVAL", "PENDING_COMPLIANCE_CLOSURE" }
       /\ p.stage = "KEEP" /\ p.gross = "KEEP"
    \/ /\ op = "ManagementApprove"
       /\ \/ /\ p.expected = "PENDING_MANAGEMENT_APPROVAL"
             /\ p.to = "PENDING_COMPLIANCE_REVIEW"
          \/ /\ p.expected = "PENDING_MANAGEMENT_CLOSURE_APPROVAL"
             /\ p.to = "PENDING_COMPLIANCE_CLOSURE"
       /\ p.stage = "KEEP" /\ p.gross = "KEEP"
    \/ /\ op = "Approve"
       /\ p.expected = "PENDING_COMPLIANCE_REVIEW" /\ p.to = "IN_REMEDIATION"
       /\ p.stage = "KEEP" /\ p.gross = "KEEP"
    \/ /\ op = "Reject"
       /\ p.expected \in RejectableStatuses /\ p.to = "PENDING_REVISION"
       /\ p.stage = RejectionStage(p.expected) /\ p.gross = "KEEP"
    \/ /\ op = "Complete"
       /\ p.expected = "IN_REMEDIATION" /\ p.to = "PENDING_OWNER_COMPLETION_APPROVAL"
       /\ p.stage = "KEEP" /\ p.gross = "KEEP"
    \/ /\ op = "Resubmit"
       /\ p.expected = "PENDING_REVISION"
       /\ p.to \in { "PENDING_RISK_OWNER_APPROVAL", "PENDING_OWNER_COMPLETION_APPROVAL",
                     "PENDING_MANAGEMENT_CLOSURE_APPROVAL" }
       /\ p.stage = "NONE" /\ p.gross = "KEEP"
    \/ /\ op = "Cancel"
       /\ p.expected \in { "PENDING_RISK_OWNER_APPROVAL", "PENDING_REVISION" }
       /\ p.to = "CANCELLED"
       /\ p.stage = "KEEP" /\ p.gross = "KEEP"
    \/ /\ op = "Close"
       /\ p.expected = "PENDING_COMPLIANCE_CLOSURE" /\ p.to = "CLOSED"
       /\ p.stage = "KEEP" /\ p.gross = "KEEP"
    \/ /\ op = "Update"
       /\ \/ p.to = p.expected
          \/ p.expected = "IN_REMEDIATION" /\ p.to = "PENDING_AMENDMENT"
       /\ p.stage = "KEEP"
       /\ p.gross # "KEEP" => p.expected \in { "PENDING_RISK_OWNER_APPROVAL",
                                               "PENDING_REVISION", "CANCELLED" }

Decisions ==
    \A r \in Requests :
        reqs[r].pc \in { "stamp", "patch" } => Decision(reqs[r].op, reqs[r].patch)

\* What has happened to a risk whose remediation has been submitted.
WasSubmitted ==
    /\ risk.ownerFirstApprovedAt
    /\ planCompleted
    /\ { "OWNER", "COMPLIANCE", "SUBMITTED" } \subseteq milestones

\* What a request relies on between its decision and its write: an owner's first
\* approval has been stamped, a completion found a completed plan, a resubmission
\* returns to a completion stage the risk has been at, and rows are resolved for a
\* risk that has been submitted.
Reliances ==
    \A r \in Requests :
        /\ At(r, "OwnerApprove", "patch")
           /\ reqs[r].patch.expected # "PENDING_OWNER_COMPLETION_APPROVAL"
              => risk.ownerFirstApprovedAt
        /\ At(r, "Complete", "patch") => planCompleted
        /\ At(r, "Resubmit", "patch")
           /\ reqs[r].patch.to # "PENDING_RISK_OWNER_APPROVAL" => WasSubmitted
        /\ At(r, "Resubmit", "patch")
           /\ reqs[r].patch.to = "PENDING_MANAGEMENT_CLOSURE_APPROVAL"
              => "COMPLETION_OWNER" \in milestones
        /\ At(r, "Complete", "list") \/ At(r, "Complete", "resolve")
              => "SUBMITTED" \in milestones

\* A rejection stamped on the row was made at the stage it names.
StageWasReached ==
    /\ risk.rejectionStage \in CompletionStages => WasSubmitted
    /\ risk.rejectionStage = "COMPLETION_MANAGEMENT" => "COMPLETION_OWNER" \in milestones

\* Until remediation is submitted no row is resolved; after that the risk stays on
\* the closure path, unless a resubmission crosses another.
EscalationPhase ==
    /\ "SUBMITTED" \notin milestones =>
          /\ \A e \in EscalationIds : escalations[e] # "RESOLVED"
          /\ risk.status = "ESCALATED" => OpenRows # {}
    /\ ("SUBMITTED" \in milestones /\ ~crossed) =>
          /\ risk.status \in CompletionStatuses \cup { "PENDING_REVISION", "CANCELLED" }
          /\ risk.status = "PENDING_REVISION" => risk.rejectionStage \in CompletionStages

IInv ==
    /\ TypeOK
    /\ Decisions
    /\ Reliances
    /\ StageWasReached
    /\ RevisionCarriesItsStage
    /\ OwnerStampPrecedesProgress
    /\ SignOffsInOrder
    /\ EscalationPhase

-----------------------------------------------------------------------------
(* Facts about any step of a request. *)

LEMMA OthersKeep ==
    ASSUME TypeOK, NEW r \in Requests, RequestStep(r), NEW s \in Requests, s # r
    PROVE  reqs'[s] = reqs[s]
BY DEF TypeOK, RequestStep, Start, Decide, Goto, Finish, OnlyRequests,
       OwnerApprove, StampOwnerApproval, ManagementApprove,
       Approve, Reject, Resubmit, CompleteStatus, CompletePlans,
       Cancel, Close, Update, ApplyPatch, ListOpenEscalations, ResolveEscalation, Escalate,
       CountOpenEscalations, InsertEscalation, Comment, LookupEscalation,
       CommentEscalation, CompletePlanCheck, CompletePlanWrite, GiveUp

\* The stamp, the completed plan, the milestones and a crossing are never undone.
LEMMA Growth ==
    ASSUME TypeOK, NEW r \in Requests, RequestStep(r)
    PROVE  /\ risk.ownerFirstApprovedAt => risk'.ownerFirstApprovedAt
           /\ planCompleted => planCompleted'
           /\ milestones \subseteq milestones'
           /\ crossed => crossed'
BY DEF TypeOK, RiskRows, RequestStep, OnlyRequests,
       OwnerApprove, StampOwnerApproval, ManagementApprove,
       Approve, Reject, Resubmit, CompleteStatus, CompletePlans,
       Cancel, Close, Update, ApplyPatch, Patched, ListOpenEscalations, ResolveEscalation,
       Escalate, CountOpenEscalations, InsertEscalation, Comment, LookupEscalation,
       CommentEscalation, CompletePlanCheck, CompletePlanWrite, GiveUp

LEMMA WasSubmittedIsStable ==
    ASSUME TypeOK, NEW r \in Requests, RequestStep(r), WasSubmitted
    PROVE  WasSubmitted'
BY Growth DEF WasSubmitted

-----------------------------------------------------------------------------
(* IInv, one conjunct at a time. *)

\* What a request decides depends on one read of a row that satisfies IInv.
LEMMA DecisionsNext ==
    ASSUME IInv, NEW r \in Requests, RequestStep(r)
    PROVE  Decisions'
<1> SUFFICES reqs'[r].pc \in { "stamp", "patch" } => Decision(reqs'[r].op, reqs'[r].patch)
    BY OthersKeep DEF IInv, Decisions
<1> USE DEF IInv, TypeOK, RequestStates
<1>1. CASE OwnerApprove(r)
    BY <1>1 DEF OwnerApprove, Decide, Decision, Transition, OwnerStatuses, OwnerApproveTarget
<1>2. CASE StampOwnerApproval(r)
    BY <1>2 DEF StampOwnerApproval, At, Goto, Decisions
<1>3. CASE ManagementApprove(r)
    BY <1>3 DEF ManagementApprove, Decide, Decision, Transition, ManagementStatuses,
                ManagementApproveTarget
<1>4. CASE Approve(r)
    BY <1>4 DEF Approve, Decide, Decision, Transition
<1>5. CASE Reject(r)
    BY <1>5 DEF Reject, Decide, Decision, RejectTransition, Transition
<1>6. CASE Resubmit(r)
    BY <1>6 DEF Resubmit, Decide, Decision, ResubmitTransition, Transition, ResubmitTarget
<1>7. CASE CompletePlans(r)
    BY <1>7 DEF CompletePlans, Decide, Decision, Transition
<1>8. CASE Cancel(r)
    BY <1>8 DEF Cancel, Cancellable, Decide, Decision, Transition
<1>9. CASE Close(r)
    BY <1>9 DEF Close, Decide, Decision, Transition
<1>10. CASE Update(r)
  <2>1. PICK t \in Treatments \cup { "KEEP" }, g \in Levels \cup { "KEEP" }, o \in BOOLEAN :
           Decide(r, "Update", "patch", EditPatch(t, g, o))
    BY <1>10 DEF Update
  <2>2. EditPatch(t, g, o).gross # "KEEP"
           => risk.status \in { "PENDING_RISK_OWNER_APPROVAL", "PENDING_REVISION", "CANCELLED" }
    BY DEF EditPatch, EditableGross, OwnerStampPrecedesProgress, OwnerApprovedStatuses,
           CompletionStatuses, RiskRows, RiskStatuses
  <2>3. Decision("Update", EditPatch(t, g, o))
    BY <2>2 DEF Decision, EditPatch, EditTarget
  <2> QED
    BY <2>1, <2>3 DEF Decide
<1>11. CASE ApplyPatch(r)
    BY <1>11 DEF ApplyPatch, AfterPatch, Finish, Goto, Idle
<1>12. CASE CompleteStatus(r) \/ Escalate(r) \/ Comment(r) \/ CompletePlanCheck(r)
    BY <1>12 DEF CompleteStatus, Escalate, Comment, CompletePlanCheck, Start, Decide
<1>13. CASE \/ ListOpenEscalations(r) \/ ResolveEscalation(r) \/ CountOpenEscalations(r)
            \/ LookupEscalation(r)
    BY <1>13 DEF ListOpenEscalations, ResolveEscalation, CountOpenEscalations,
                 LookupEscalation, At, Goto
<1>14. CASE InsertEscalation(r) \/ CommentEscalation(r) \/ CompletePlanWrite(r) \/ GiveUp(r)
    BY <1>14 DEF InsertEscalation, CommentEscalation, CompletePlanWrite, GiveUp, Finish, Idle
<1> QED
    BY <1>1, <1>2, <1>3, <1>4, <1>5, <1>6, <1>7, <1>8, <1>9, <1>10, <1>11, <1>12, <1>13,
       <1>14 DEF RequestStep

\* What an in-flight request relies on is established when it decides, and grows.
LEMMA ReliancesNext ==
    ASSUME IInv, NEW r \in Requests, RequestStep(r)
    PROVE  Reliances'
<1> DEFINE Rely(s) ==
        /\ At(s, "OwnerApprove", "patch")
           /\ reqs[s].patch.expected # "PENDING_OWNER_COMPLETION_APPROVAL"
              => risk.ownerFirstApprovedAt
        /\ At(s, "Complete", "patch") => planCompleted
        /\ At(s, "Resubmit", "patch")
           /\ reqs[s].patch.to # "PENDING_RISK_OWNER_APPROVAL" => WasSubmitted
        /\ At(s, "Resubmit", "patch")
           /\ reqs[s].patch.to = "PENDING_MANAGEMENT_CLOSURE_APPROVAL"
              => "COMPLETION_OWNER" \in milestones
        /\ At(s, "Complete", "list") \/ At(s, "Complete", "resolve")
              => "SUBMITTED" \in milestones
<1>1. \A s \in Requests : s # r => Rely(s)'
    BY OthersKeep, Growth, WasSubmittedIsStable DEF IInv, Reliances, At
<1>2. Rely(r)'
  <2> USE DEF IInv, TypeOK, RequestStates, At
  <2>1. CASE OwnerApprove(r)
    BY <2>1 DEF OwnerApprove, FirstOwnerWrite, Decide, Transition, OnlyRequests
  <2>2. CASE StampOwnerApproval(r)
    BY <2>2 DEF StampOwnerApproval, Goto, RiskRows
  <2>3. CASE Resubmit(r)
    BY <2>3 DEF Resubmit, Decide, ResubmitTransition, Transition, ResubmitTarget,
                StageWasReached, CompletionStages, OnlyRequests, WasSubmitted
  <2>4. CASE CompletePlans(r)
    BY <2>4 DEF CompletePlans, Decide, OnlyRequests
  <2>5. CASE ManagementApprove(r) \/ Approve(r) \/ Reject(r) \/ Cancel(r) \/ Close(r) \/ Update(r)
    BY <2>5 DEF ManagementApprove, Approve, Reject, Cancel, Close, Update, Decide
  <2>6. CASE ApplyPatch(r)
    BY <2>6 DEF ApplyPatch, AfterPatch, Milestone, Finish, Goto, Idle
  <2>7. CASE ListOpenEscalations(r) \/ ResolveEscalation(r)
    BY <2>7 DEF ListOpenEscalations, ResolveEscalation, Reliances, OnlyRequests
  <2>8. CASE CompleteStatus(r) \/ Escalate(r) \/ Comment(r) \/ CompletePlanCheck(r)
    BY <2>8 DEF CompleteStatus, Escalate, Comment, CompletePlanCheck, Start, Decide
  <2>9. CASE CountOpenEscalations(r) \/ LookupEscalation(r)
    BY <2>9 DEF CountOpenEscalations, LookupEscalation, Goto
  <2>10. CASE InsertEscalation(r) \/ CommentEscalation(r) \/ CompletePlanWrite(r) \/ GiveUp(r)
    BY <2>10 DEF InsertEscalation, CommentEscalation, CompletePlanWrite, GiveUp, Finish, Idle
  <2> QED
    BY <2>1, <2>2, <2>3, <2>4, <2>5, <2>6, <2>7, <2>8, <2>9, <2>10 DEF RequestStep
<1> QED
    BY <1>1, <1>2 DEF Reliances

\* The row before and after the write of a decided PATCH.
LEMMA ApplyFacts ==
    ASSUME IInv, NEW r \in Requests, ApplyPatch(r)
    PROVE  /\ Decision(reqs[r].op, reqs[r].patch)
           /\ risk.status = reqs[r].patch.expected
           /\ risk'.status = reqs[r].patch.to
           /\ risk'.rejectionStage = Put(risk.rejectionStage, reqs[r].patch.stage)
           /\ risk'.ownerFirstApprovedAt = risk.ownerFirstApprovedAt
           /\ risk'.gross = Put(risk.gross, reqs[r].patch.gross)
           /\ milestones' = milestones \cup Milestone(reqs[r].op, reqs[r].patch.expected)
           /\ UNCHANGED <<planCompleted, escalations>>
BY DEF IInv, Decisions, ApplyPatch, StatusIs, Patched

\* Every other step leaves the row alone, but for a stamp and the two escalation
\* moves, neither of which touches the milestones.
OtherStep(r) ==
    /\ UNCHANGED <<milestones, crossed>>
    /\ risk'.rejectionStage = risk.rejectionStage
    /\ risk'.gross = risk.gross
    /\ UNCHANGED escalations \/ InsertEscalation(r) \/ ResolveEscalation(r)
    /\ \/ risk'.status = risk.status
       \/ risk.status = "IN_REMEDIATION" /\ risk'.status = "ESCALATED" /\ InsertEscalation(r)
       \/ risk.status = "ESCALATED" /\ risk'.status = "IN_REMEDIATION" /\ CommentEscalation(r)

LEMMA StepKinds ==
    ASSUME TypeOK, NEW r \in Requests, RequestStep(r)
    PROVE  ApplyPatch(r) \/ OtherStep(r)
<1> USE DEF TypeOK, RiskRows, OtherStep
<1>1. CASE StampOwnerApproval(r)
    BY <1>1 DEF StampOwnerApproval
<1>2. CASE InsertEscalation(r)
    BY <1>2 DEF InsertEscalation
<1>3. CASE CommentEscalation(r)
    BY <1>3 DEF CommentEscalation
<1>4. CASE ~ ( \/ StampOwnerApproval(r) \/ InsertEscalation(r) \/ CommentEscalation(r)
               \/ ResolveEscalation(r) \/ ApplyPatch(r) )
    BY <1>4 DEF RequestStep, OnlyRequests, OwnerApprove,
        ManagementApprove, Approve, Reject, Resubmit,
        CompleteStatus, CompletePlans, Cancel, Close, Update, ListOpenEscalations,
        Escalate, CountOpenEscalations, Comment, LookupEscalation, CompletePlanCheck,
        CompletePlanWrite, GiveUp
<1>5. CASE ResolveEscalation(r)
    BY <1>5 DEF ResolveEscalation
<1> QED
    BY <1>1, <1>2, <1>3, <1>4, <1>5

LEMMA StageNext ==
    ASSUME IInv, NEW r \in Requests, RequestStep(r)
    PROVE  RevisionCarriesItsStage'
<1> USE DEF RevisionCarriesItsStage
<1>1. CASE ApplyPatch(r)
    BY <1>1, ApplyFacts, RoutingType
       DEF Decision, Put, IInv, RejectableStatuses, OwnerStatuses, ManagementStatuses, Stages
<1>2. CASE OtherStep(r)
    BY <1>2 DEF OtherStep, IInv
<1> QED
    BY <1>1, <1>2, StepKinds DEF IInv

LEMMA StampNext ==
    ASSUME IInv, NEW r \in Requests, RequestStep(r)
    PROVE  OwnerStampPrecedesProgress'
<1> USE DEF OwnerStampPrecedesProgress, OwnerApprovedStatuses, CompletionStatuses
<1>1. CASE ApplyPatch(r)
  <2>1. At(r, "OwnerApprove", "patch") /\ risk.status # "PENDING_OWNER_COMPLETION_APPROVAL"
           => risk.ownerFirstApprovedAt
    BY <1>1, ApplyFacts DEF IInv, Reliances
  <2>2. At(r, "Resubmit", "patch") /\ risk'.status # "PENDING_RISK_OWNER_APPROVAL"
           => risk.ownerFirstApprovedAt
    BY <1>1, ApplyFacts DEF IInv, Reliances, WasSubmitted
  <2> QED
    BY <1>1, <2>1, <2>2, ApplyFacts DEF Decision, IInv, At, ApplyPatch
<1>2. CASE OtherStep(r)
    BY <1>2, Growth DEF OtherStep, IInv
<1> QED
    BY <1>1, <1>2, StepKinds DEF IInv

LEMMA SignOffsNext ==
    ASSUME IInv, NEW r \in Requests, RequestStep(r)
    PROVE  SignOffsInOrder'
<1> USE DEF SignOffsInOrder, OwnerApprovedStatuses, ComplianceApprovedStatuses, CompletionStatuses
<1>1. CASE ApplyPatch(r)
  <2>1. At(r, "Resubmit", "patch") /\ risk'.status # "PENDING_RISK_OWNER_APPROVAL"
           => WasSubmitted
    BY <1>1, ApplyFacts DEF IInv, Reliances
  <2>2. At(r, "Resubmit", "patch") /\ risk'.status = "PENDING_MANAGEMENT_CLOSURE_APPROVAL"
           => "COMPLETION_OWNER" \in milestones
    BY <1>1, ApplyFacts DEF IInv, Reliances
  <2>3. At(r, "Complete", "patch") => planCompleted
    BY DEF IInv, Reliances
  <2>4. At(r, reqs[r].op, "patch") /\ Decision(reqs[r].op, reqs[r].patch)
    BY <1>1, ApplyFacts DEF At, ApplyPatch
  <2>5. milestones \subseteq milestones' /\ Milestone(reqs[r].op, risk.status) \subseteq milestones'
    BY <1>1, ApplyFacts
  <2>6. risk.status = reqs[r].patch.expected /\ risk'.status = reqs[r].patch.to
        /\ UNCHANGED planCompleted
    BY <1>1, ApplyFacts
  <2>7. risk'.status \in OwnerApprovedStatuses => "OWNER" \in milestones'
    BY <2>1, <2>4, <2>5, <2>6 DEF Decision, IInv, At, Milestone, RejectionStage, WasSubmitted
  <2>8. risk'.status \in ComplianceApprovedStatuses => "COMPLIANCE" \in milestones'
    BY <2>1, <2>4, <2>5, <2>6 DEF Decision, IInv, At, Milestone, RejectionStage, WasSubmitted
  <2>9. risk'.status \in CompletionStatuses => planCompleted' /\ "SUBMITTED" \in milestones'
    BY <2>1, <2>3, <2>4, <2>5, <2>6 DEF Decision, IInv, At, Milestone, RejectionStage, WasSubmitted
  <2>10. risk'.status \in { "PENDING_MANAGEMENT_CLOSURE_APPROVAL", "PENDING_COMPLIANCE_CLOSURE", "CLOSED" }
            => "COMPLETION_OWNER" \in milestones'
    BY <2>2, <2>4, <2>5, <2>6 DEF Decision, IInv, At, Milestone, RejectionStage, WasSubmitted
  <2> QED
    BY <2>7, <2>8, <2>9, <2>10
<1>2. CASE OtherStep(r)
    BY <1>2, Growth DEF OtherStep, IInv
<1> QED
    BY <1>1, <1>2, StepKinds DEF IInv

LEMMA StageReachedNext ==
    ASSUME IInv, NEW r \in Requests, RequestStep(r)
    PROVE  StageWasReached'
<1>1. risk'.rejectionStage = risk.rejectionStage => StageWasReached'
    BY Growth, WasSubmittedIsStable DEF IInv, StageWasReached
<1>2. CASE ApplyPatch(r)
  <2>1. CASE reqs[r].op = "Reject"
    <3>1. risk'.rejectionStage = RejectionStage(risk.status)
        BY <1>2, <2>1, ApplyFacts, RoutingType DEF Decision, Put, Stages
    <3>2. risk.status \in CompletionStatuses => WasSubmitted
        BY DEF IInv, SignOffsInOrder, OwnerStampPrecedesProgress, OwnerApprovedStatuses,
               ComplianceApprovedStatuses, CompletionStatuses, WasSubmitted
    <3> QED
        BY <3>1, <3>2, Growth, WasSubmittedIsStable
           DEF StageWasReached, RejectionStage, CompletionStages, CompletionStatuses, IInv,
               SignOffsInOrder
  <2>2. CASE reqs[r].op # "Reject"
    BY <1>1, <1>2, <2>2, ApplyFacts DEF Decision, Put, StageWasReached, CompletionStages
  <2> QED
    BY <2>1, <2>2
<1> QED
    BY <1>1, <1>2, StepKinds DEF IInv, OtherStep

LEMMA EscalationNext ==
    ASSUME IInv, NEW r \in Requests, RequestStep(r)
    PROVE  EscalationPhase'
<1> USE DEF EscalationPhase
<1>1. CASE ApplyPatch(r)
  <2>1. OpenRows' = OpenRows
    BY <1>1, ApplyFacts DEF OpenRows
  <2>2. CASE reqs[r].op = "Complete"
    BY <1>1, <2>2, ApplyFacts DEF Decision, Milestone, CompletionStatuses
  <2>3. CASE reqs[r].op # "Complete"
    <3>1. "SUBMITTED" \in milestones' <=> "SUBMITTED" \in milestones
        BY <1>1, <2>3, ApplyFacts, RoutingType DEF Milestone, Stages
    <3>2. CASE reqs[r].op = "Resubmit"
      <4>1. ~crossed' => ~crossed /\ risk'.status = ResubmitTarget(risk.rejectionStage)
        BY <1>1, <3>2, ApplyFacts DEF ApplyPatch, IInv, TypeOK
      <4> QED
        BY <1>1, <2>1, <3>1, <3>2, <4>1, ApplyFacts
           DEF IInv, Decision, ResubmitTarget, CompletionStages, CompletionStatuses
    <3>3. CASE reqs[r].op = "Reject"
      <4>1. risk'.rejectionStage = RejectionStage(risk.status) /\ risk'.status = "PENDING_REVISION"
        BY <1>1, <3>3, ApplyFacts, RoutingType DEF Decision, Put, Stages
      <4>2. risk.status \in RejectableStatuses
        BY <1>1, <3>3, ApplyFacts DEF Decision
      <4> QED
        BY <1>1, <2>1, <3>1, <4>1, <4>2, ApplyFacts, Growth
           DEF IInv, RejectionStage, RejectableStatuses, OwnerStatuses, ManagementStatuses,
               CompletionStages, CompletionStatuses
    <3>4. CASE reqs[r].op \notin { "Resubmit", "Reject" }
        BY <1>1, <2>1, <2>3, <3>1, <3>4, ApplyFacts, Growth
           DEF IInv, Decision, Put, CompletionStatuses
    <3> QED
        BY <3>2, <3>3, <3>4
  <2> QED
    BY <2>2, <2>3
<1>2. CASE InsertEscalation(r)
  <2>1. OpenRows' # {}
    BY <1>2 DEF InsertEscalation, InsertRow, OpenRows, IInv, TypeOK
  <2> QED
    BY <1>2, <2>1 DEF InsertEscalation, InsertRow, IInv, TypeOK, CompletionStatuses, RiskRows
<1>3. CASE ResolveEscalation(r)
    BY <1>3 DEF ResolveEscalation, IInv, Reliances
<1>4. CASE CommentEscalation(r)
    BY <1>4 DEF CommentEscalation, IInv, TypeOK, CompletionStatuses, RiskRows
<1>5. CASE OtherStep(r) /\ ~InsertEscalation(r) /\ ~ResolveEscalation(r) /\ ~CommentEscalation(r)
    BY <1>5 DEF OtherStep, IInv, OpenRows
<1> QED
    BY <1>1, <1>2, <1>3, <1>4, <1>5, StepKinds DEF IInv

LEMMA IInvInit == Init => IInv
<1> SUFFICES ASSUME Init PROVE IInv
    OBVIOUS
<1> USE DEF Init
<1>1. TypeOK
    BY TypeInit
<1>2. Decisions /\ Reliances
    BY DEF Decisions, Reliances, At, Idle
<1>3. StageWasReached /\ RevisionCarriesItsStage /\ OwnerStampPrecedesProgress /\ SignOffsInOrder
    BY DEF StageWasReached, RevisionCarriesItsStage, OwnerStampPrecedesProgress,
           SignOffsInOrder, OwnerApprovedStatuses, ComplianceApprovedStatuses,
           CompletionStatuses, CompletionStages
<1>4. EscalationPhase
    BY DEF EscalationPhase
<1> QED
    BY <1>1, <1>2, <1>3, <1>4 DEF IInv

LEMMA IInvNext == IInv /\ [Next]_vars => IInv'
<1> SUFFICES ASSUME IInv, [Next]_vars PROVE IInv'
    OBVIOUS
<1>1. TypeOK'
    BY TypeNext DEF IInv
<1>2. CASE UNCHANGED vars
    BY <1>1, <1>2
       DEF vars, IInv, Decisions, Reliances, WasSubmitted, At, StageWasReached,
           RevisionCarriesItsStage, OwnerStampPrecedesProgress, SignOffsInOrder,
           EscalationPhase, OpenRows
<1>3. ASSUME NEW r \in Requests, RequestStep(r) PROVE IInv'
    BY <1>1, <1>3, DecisionsNext, ReliancesNext, StageNext, StampNext, SignOffsNext,
       StageReachedNext, EscalationNext DEF IInv
<1> QED
    BY <1>2, <1>3 DEF Next

THEOREM Invariance == Spec => []IInv
BY IInvInit, IInvNext, PTL DEF Spec

-----------------------------------------------------------------------------
(* The properties MCRiskWorkflow checks. *)

\* A risk in revision carries the stage it was rejected at, and no other risk but a
\* cancelled one does.
THEOREM RevisionStage == Spec => []RevisionCarriesItsStage
<1>1. IInv => RevisionCarriesItsStage
    BY DEF IInv
<1> QED
    BY <1>1, Invariance, PTL

\* Stamp and transition being two calls, no interleaving or lost request leaves a
\* risk past its owner without the stamp.
THEOREM OwnerStamp == Spec => []OwnerStampPrecedesProgress
<1>1. IInv => OwnerStampPrecedesProgress
    BY DEF IInv
<1> QED
    BY <1>1, Invariance, PTL

\* No compare-and-set on a stale read lets a risk skip the approvals before its status.
THEOREM SignOffs == Spec => []SignOffsInOrder
<1>1. IInv => SignOffsInOrder
    BY DEF IInv
<1> QED
    BY <1>1, Invariance, PTL

\* The entity's transition map accepts every move the backend decides on.
THEOREM NoRefusal == Spec => []NoMoveIsRefused
<1>1. IInv => NoMoveIsRefused
  <2> SUFFICES ASSUME IInv, NEW r \in Requests, reqs[r].pc = "patch"
               PROVE  IsValidRiskTransition(reqs[r].patch.expected, reqs[r].patch.to)
    BY DEF NoMoveIsRefused
  <2>1. Decision(reqs[r].op, reqs[r].patch)
    BY DEF IInv, Decisions
  <2> QED
    BY <2>1
       DEF Decision, IsValidRiskTransition, AllowedRiskTransitions, RiskStatuses,
           RejectableStatuses, OwnerStatuses, ManagementStatuses, RemediationEdges
<1> QED
    BY <1>1, Invariance, PTL

\* Only a crossed resubmission can leave an ESCALATED risk without an OPEN row.
THEOREM EscalatedOpen == Spec => []EscalatedHasOpenRow
<1>1. IInv => EscalatedHasOpenRow
    BY DEF IInv, EscalationPhase, EscalatedHasOpenRow, CompletionStatuses
<1> QED
    BY <1>1, Invariance, PTL

\* CLOSED and CANCELLED are final, whatever requests were in flight.
THEOREM Terminal == Spec => TerminalIsFinal
<1>1. IInv /\ [Next]_vars
        => [risk.status \in { "CLOSED", "CANCELLED" } => risk'.status = risk.status]_vars
  <2> SUFFICES ASSUME IInv, NEW r \in Requests, RequestStep(r),
                      risk.status \in { "CLOSED", "CANCELLED" }
               PROVE  risk'.status = risk.status
    BY DEF Next
  <2>1. CASE ApplyPatch(r)
    BY <2>1, ApplyFacts DEF Decision, RejectableStatuses, OwnerStatuses, ManagementStatuses
  <2>2. CASE OtherStep(r)
    BY <2>2 DEF OtherStep
  <2> QED
    BY <2>1, <2>2, StepKinds DEF IInv
<1> QED
    BY <1>1, Invariance, PTL DEF Spec, TerminalIsFinal

\* The gross score never changes under an approver after the owner.
THEOREM GrossChanges == Spec => GrossChangesOnlyBeforeReview
<1>1. IInv /\ [Next]_vars
        => [risk'.gross # risk.gross =>
              risk.status \in { "PENDING_RISK_OWNER_APPROVAL", "PENDING_REVISION", "CANCELLED" }]_vars
  <2> SUFFICES ASSUME IInv, NEW r \in Requests, RequestStep(r), risk'.gross # risk.gross
               PROVE  risk.status \in { "PENDING_RISK_OWNER_APPROVAL", "PENDING_REVISION", "CANCELLED" }
    BY DEF Next
  <2>1. CASE ApplyPatch(r)
    BY <2>1, ApplyFacts DEF Decision, Put
  <2>2. CASE OtherStep(r)
    BY <2>2 DEF OtherStep
  <2> QED
    BY <2>1, <2>2, StepKinds DEF IInv
<1> QED
    BY <1>1, Invariance, PTL DEF Spec, GrossChangesOnlyBeforeReview

-----------------------------------------------------------------------------
(* RiskWorkflow implements RiskLifecycle. *)

LEMMA ApplyRefines ==
    ASSUME IInv, NEW r \in Requests, ApplyPatch(r)
    PROVE  Lifecycle!LifecycleNext \/ UNCHANGED Lifecycle!lifecycle
<1> DEFINE p == reqs[r].patch
<1> USE DEF Lifecycle!LifecycleNext, Lifecycle!Move
<1>1. OpenRows' = OpenRows
    BY ApplyFacts DEF OpenRows
<1>2. reqs[r].op # "Complete" => ("SUBMITTED" \in milestones)' = ("SUBMITTED" \in milestones)
    BY ApplyFacts, RoutingType DEF Milestone, Stages
<1>3. p.stage = "KEEP" => risk'.rejectionStage = risk.rejectionStage
    BY ApplyFacts DEF Put
<1>4. CASE reqs[r].op = "OwnerApprove"
    BY <1>1, <1>2, <1>3, <1>4, ApplyFacts DEF Decision, Lifecycle!ApproveByOwner
<1>5. CASE reqs[r].op = "ManagementApprove"
    BY <1>1, <1>2, <1>3, <1>5, ApplyFacts DEF Decision, Lifecycle!ApproveByManagement
<1>6. CASE reqs[r].op \in { "Approve", "Close" }
    BY <1>1, <1>2, <1>3, <1>6, ApplyFacts DEF Decision, Lifecycle!ApproveByCompliance
<1>7. CASE reqs[r].op = "Reject"
  <2>1. risk'.rejectionStage = RejectionStage(risk.status)
    BY <1>7, ApplyFacts, RoutingType DEF Decision, Put, Stages
  <2> QED
    BY <1>1, <1>2, <1>7, <2>1, ApplyFacts
       DEF Decision, Lifecycle!SendBack, Lifecycle!RejectionStage, RejectionStage,
           Lifecycle!RejectableStatuses, Lifecycle!OwnerStatuses, Lifecycle!ManagementStatuses,
           RejectableStatuses, OwnerStatuses, ManagementStatuses
<1>8. CASE reqs[r].op = "Complete"
    BY <1>1, <1>3, <1>8, ApplyFacts DEF Decision, Milestone, Lifecycle!Submit
<1>9. CASE reqs[r].op = "Resubmit"
  <2>1. risk.status = "PENDING_REVISION" /\ risk'.rejectionStage = "NONE"
    BY <1>9, ApplyFacts DEF Decision, Put
  <2>2. risk'.status # "PENDING_RISK_OWNER_APPROVAL" => "SUBMITTED" \in milestones
    BY <1>9, ApplyFacts DEF IInv, Reliances, At, ApplyPatch, WasSubmitted
  <2>3. risk'.status \in { Lifecycle!ResubmitTarget(s) :
                             s \in (IF "SUBMITTED" \in milestones THEN Lifecycle!Stages
                                                                  ELSE { "OWNER" }) }
    BY <1>9, <2>2, ApplyFacts DEF Decision, Lifecycle!ResubmitTarget, Lifecycle!Stages
  <2> QED
    BY <1>1, <1>2, <1>9, <2>1, <2>3 DEF Lifecycle!SubmitAgain
<1>10. CASE reqs[r].op = "Cancel"
    BY <1>1, <1>2, <1>3, <1>10, ApplyFacts DEF Decision, Lifecycle!Withdraw
<1>11. CASE reqs[r].op = "Update"
    BY <1>1, <1>2, <1>3, <1>11, ApplyFacts
       DEF Decision, Lifecycle!Amend, Lifecycle!lifecycle
<1> QED
    BY <1>4, <1>5, <1>6, <1>7, <1>8, <1>9, <1>10, <1>11, ApplyFacts DEF Decision

LEMMA OtherRefines ==
    ASSUME IInv, NEW r \in Requests, OtherStep(r)
    PROVE  Lifecycle!LifecycleNext \/ UNCHANGED Lifecycle!lifecycle
<1> USE DEF Lifecycle!LifecycleNext, Lifecycle!Move, OtherStep
<1>1. CASE InsertEscalation(r)
  <2>1. PICK e \in EscalationIds : InsertRow(e)
    BY <1>1 DEF InsertEscalation
  <2>2. OpenRows' = OpenRows \cup { e } /\ e \in EscalationIds \ OpenRows
    BY <2>1 DEF InsertRow, OpenRows, IInv, TypeOK
  <2> QED
    BY <1>1, <2>2 DEF InsertEscalation, Lifecycle!RaiseEscalation, IInv, TypeOK, RiskRows
<1>2. CASE CommentEscalation(r)
    BY <1>2 DEF CommentEscalation, Lifecycle!AnswerEscalation, OpenRows, IInv, TypeOK, RiskRows
<1>3. CASE ResolveEscalation(r)
  <2>1. PICK e \in reqs[r].rows : escalations' = [ escalations EXCEPT ![e] = "RESOLVED" ]
    BY <1>3 DEF ResolveEscalation
  <2>2. e \in EscalationIds
    BY <2>1 DEF IInv, TypeOK, RequestStates, ResolveEscalation
  <2>3. OpenRows' = OpenRows \ { e }
    BY <2>1, <2>2 DEF OpenRows, IInv, TypeOK
  <2>4. "SUBMITTED" \in milestones
    BY <1>3 DEF ResolveEscalation, IInv, Reliances
  <2>5. risk' = risk
    BY <1>3 DEF ResolveEscalation
  <2>6. CASE e \in OpenRows
    BY <2>3, <2>4, <2>5, <2>6 DEF Lifecycle!CloseEscalation
  <2>7. CASE e \notin OpenRows
    BY <2>3, <2>5, <2>7 DEF Lifecycle!lifecycle
  <2> QED
    BY <2>6, <2>7
<1>4. CASE ~InsertEscalation(r) /\ ~CommentEscalation(r) /\ ~ResolveEscalation(r)
    BY <1>4 DEF Lifecycle!lifecycle, OpenRows
<1> QED
    BY <1>1, <1>2, <1>3, <1>4

\* Handlers that read, decide and write in separate calls are, seen from the risk's
\* status, its rejection stage and its open escalations, atomic operations.
THEOREM Refinement == Spec => ImplementsLifecycle
<1>1. Init => Lifecycle!LifecycleInit
    BY DEF Init, Lifecycle!LifecycleInit, OpenRows
<1>2. IInv /\ [Next]_vars => [Lifecycle!LifecycleNext]_(Lifecycle!lifecycle)
  <2> SUFFICES ASSUME IInv, [Next]_vars
               PROVE  Lifecycle!LifecycleNext \/ UNCHANGED Lifecycle!lifecycle
    OBVIOUS
  <2>1. CASE UNCHANGED vars
    BY <2>1 DEF vars, Lifecycle!lifecycle, OpenRows
  <2>2. ASSUME NEW r \in Requests, RequestStep(r)
        PROVE  Lifecycle!LifecycleNext \/ UNCHANGED Lifecycle!lifecycle
    BY <2>2, ApplyRefines, OtherRefines, StepKinds DEF IInv
  <2> QED
    BY <2>1, <2>2 DEF Next
<1> QED
    BY <1>1, <1>2, Invariance, PTL DEF Spec, ImplementsLifecycle, Lifecycle!LifecycleSpec

=============================================================================
