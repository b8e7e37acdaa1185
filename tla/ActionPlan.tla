----------------------------- MODULE ActionPlan -----------------------------
(***************************************************************************)
(* A risk's own action plan: its steps, the completion evidence its        *)
(* completion requires, and the risk evidence its owner approves against.  *)
(*                                                                         *)
(* The risk around the plan moves as RiskLifecycle lets it, one atomic step *)
(* at a time; the operations on the plan are requests that read, decide and *)
(* write in separate HTTP calls or SQL statements, as in RiskWorkflow.     *)
(* Steps are PENDING or COMPLETED: IN_PROGRESS is treated as PENDING.      *)
(* The plan is the risk's first STANDARD one, which edits reconcile.       *)
(***************************************************************************)
EXTENDS RiskLifecycle, Naturals, FiniteSets

CONSTANTS
    Requests,   \* the requests in flight at once
    StepIds,    \* the risk_action_step rows that can be inserted
    Files       \* the risk_evidence rows that can be inserted

ASSUME StepsAssumption == IsFiniteSet(StepIds)

VARIABLES
    stamped,    \* risk.owner_first_approved_at is set
    plan,       \* risk_action_plan.status
    steps,      \* risk_action_step.status, "NONE" before the insert, "GONE" after the delete
    evidence,   \* risk_evidence.evidence_type, "NONE" and "GONE" likewise
    calls,      \* the requests
    finished    \* history: the steps were all COMPLETED at some moment

planVars == <<plan, steps, finished>>
vars     == <<lifecycle, stamped, planVars, evidence, calls>>

Rows(column)      == { x \in DOMAIN column : column[x] \notin { "NONE", "GONE" } }
CompletionFiles   == { f \in Files : evidence[f] = "COMPLETION" }
AllStepsCompleted == Rows(steps) # {} /\ \A s \in Rows(steps) : steps[s] = "COMPLETED"

Remediating == status \in { "IN_REMEDIATION", "ESCALATED" }

\* A request: what it is about to do, the file it is about, and for an edit the
\* status it read, the step ids its form sends, whether it sends a step without
\* an id, and the status it moves the risk to.
Call == [ pc : { "idle", "checkSteps", "checkEvidence", "complete", "insert", "checkLock",
                 "delete", "edit" },
          file : Files \cup { "none" }, expected : RiskStatuses,
          sent : SUBSET StepIds, fresh : BOOLEAN, to : RiskStatuses ]

Idle == [ pc |-> "idle", file |-> "none", expected |-> "CLOSED", sent |-> {},
          fresh |-> FALSE, to |-> "CLOSED" ]

ActionPlanTypeOK ==
    /\ status \in RiskStatuses
    /\ stage \in Stages \cup { "NONE" }
    /\ open \subseteq EscalationIds
    /\ submitted \in BOOLEAN
    /\ stamped \in BOOLEAN
    /\ plan \in { "PENDING", "COMPLETED" }
    /\ steps \in [ StepIds -> { "NONE", "PENDING", "COMPLETED", "GONE" } ]
    /\ evidence \in [ Files -> { "NONE", "COMPLETION", "RISK", "GONE" } ]
    /\ calls \in [ Requests -> Call ]
    /\ finished \in BOOLEAN

\* riskRepo.CreateRisk inserts the plan PENDING and its steps, at least one.
Init ==
    /\ LifecycleInit
    /\ stamped = FALSE
    /\ plan = "PENDING"
    /\ \E first \in (SUBSET StepIds) \ { {} } :
          steps = [ s \in StepIds |-> IF s \in first THEN "PENDING" ELSE "NONE" ]
    /\ evidence = [ f \in Files |-> "NONE" ]
    /\ calls = [ r \in Requests |-> Idle ]
    /\ finished = FALSE

-----------------------------------------------------------------------------
(* The risk. *)

\* The risk moves; it is submitted only with a COMPLETED plan and passes its
\* owner only with the stamp, which is a write of its own.
RiskMoves ==
    /\ LifecycleNext
    /\ status = "IN_REMEDIATION" /\ status' = "PENDING_OWNER_COMPLETION_APPROVAL"
          => plan = "COMPLETED"
    /\ status \in { "PENDING_RISK_OWNER_APPROVAL", "PENDING_AMENDMENT" }
       /\ status' \in { "PENDING_MANAGEMENT_APPROVAL", "PENDING_COMPLIANCE_REVIEW" }
          => stamped
    /\ UNCHANGED <<stamped, planVars, evidence, calls>>

\* Asked for in PENDING_RISK_OWNER_APPROVAL, where every risk starts, the stamp may
\* land late, after a rejection or a cancellation.
StampOwnerApproval ==
    /\ stamped' = TRUE
    /\ UNCHANGED <<lifecycle, planVars, evidence, calls>>

-----------------------------------------------------------------------------
Asked(r) == calls[r].pc = "idle"

At(r, pc) == calls[r].pc = pc

Goto(r, pc) == calls' = [ calls EXCEPT ![r].pc = pc ]

About(r, pc, f) == calls' = [ calls EXCEPT ![r] = [ Idle EXCEPT !.pc = pc, !.file = f ] ]

Done(r) == calls' = [ calls EXCEPT ![r] = Idle ]

OnlyCalls == UNCHANGED <<lifecycle, stamped, planVars, evidence>>

\* The history follows every write of the steps.
WriteSteps(new) ==
    /\ steps' = new
    /\ finished' = (finished \/ AllStepsCompleted')

-----------------------------------------------------------------------------
(* Steps. *)

StepStatuses == { "PENDING", "COMPLETED" }

\* Mutant: the lock and the check are gone.
AnyStatus == TRUE

\* UpdateRiskActionStep reads the risk FOR UPDATE in the transaction that writes.
StepsModifiable == Remediating

\* The action owner completes a step, or reopens it.
UpdateStep(r) ==
    /\ Asked(r)
    /\ StepsModifiable
    /\ \E s \in Rows(steps), to \in StepStatuses :
          WriteSteps([ steps EXCEPT ![s] = to ])
    /\ UNCHANGED <<lifecycle, stamped, plan, evidence, calls>>

\* The rows that can still be inserted: the bound on inserts.
Unused == { s \in StepIds : steps[s] = "NONE" }

\* handleUpdateRisk: the form was loaded at any earlier time, so the ids it sends
\* are of any rows there have been.  Only an edit that changes the steps, be it
\* their wording, is of interest here; Amend covers the other restricted fields.
\* Bound: an edit that no unused row is left for is not asked for.
ReadForEdit(r) ==
    /\ Asked(r)
    /\ status # "CLOSED"
    /\ \E sent \in SUBSET (StepIds \ Unused), fresh \in BOOLEAN :
          /\ sent # {} \/ fresh
          /\ Cardinality(sent \ Rows(steps)) + (IF fresh THEN 1 ELSE 0) <= Cardinality(Unused)
          /\ calls' = [ calls EXCEPT ![r] =
                [ Idle EXCEPT !.pc = "edit", !.expected = status, !.sent = sent, !.fresh = fresh,
                              !.to = IF status = "IN_REMEDIATION" THEN "PENDING_AMENDMENT"
                                                                  ELSE status ] ]
    /\ OnlyCalls

\* Mutant: an id that is not on the plan is trusted to be, and updates no row.
OnlyFresh(call) == IF call.fresh THEN 1 ELSE 0

\* applyActionSteps inserts a row for a step without an id and for every id that
\* is not on the plan any more.
InsertedSteps(call) ==
    Cardinality(call.sent \ Rows(steps)) + (IF call.fresh THEN 1 ELSE 0)

\* The steps sent keep their row and status, the others are deleted.
Reconciled(call, new) ==
    [ s \in StepIds |-> IF s \in new THEN "PENDING"
                        ELSE IF s \in Rows(steps) \ call.sent THEN "GONE" ELSE steps[s] ]

ApplyEdit(r) ==
    /\ At(r, "edit")
    /\ status = calls[r].expected
    /\ status' = calls[r].to
    /\ \E new \in SUBSET Unused :
          /\ Cardinality(new) = InsertedSteps(calls[r])
          /\ WriteSteps(Reconciled(calls[r], new))
    /\ Done(r)
    /\ UNCHANGED <<stage, open, submitted, stamped, plan, evidence>>

-----------------------------------------------------------------------------
(* Completion of the plan. *)

\* entity CompleteRiskActionPlan: the plan and the risk, ...
CompletePlan(r) ==
    /\ Asked(r)
    /\ plan # "COMPLETED"
    /\ Remediating
    /\ About(r, "checkSteps", "none")
    /\ OnlyCalls

\* Mutant: the steps are listed and not looked at.
CheckNoSteps(r) == At(r, "checkSteps") /\ Goto(r, "checkEvidence") /\ OnlyCalls

\* ... its steps, ...
CheckSteps(r) ==
    /\ At(r, "checkSteps")
    /\ AllStepsCompleted
    /\ Goto(r, "checkEvidence")
    /\ OnlyCalls

\* ... HasCompletionEvidence, ...
CheckEvidence(r) ==
    /\ At(r, "checkEvidence")
    /\ CompletionFiles # {}
    /\ Goto(r, "complete")
    /\ OnlyCalls

\* Mutant: the UPDATE relies on the pre-check.
EvidenceWasChecked == TRUE

\* ... and the UPDATE, with the evidence again in its WHERE clause.
EvidenceExists == CompletionFiles # {}

WriteCompletion(r) ==
    /\ At(r, "complete")
    /\ plan # "COMPLETED"
    /\ EvidenceExists
    /\ plan' = "COMPLETED"
    /\ Done(r)
    /\ UNCHANGED <<lifecycle, stamped, steps, finished, evidence>>

-----------------------------------------------------------------------------
(* Evidence. *)

\* evidenceService.Upload: completion evidence of any plan of the risk, ...
UploadCompletionEvidence(r) ==
    /\ Asked(r)
    /\ \E f \in Files : evidence[f] = "NONE" /\ evidence' = [ evidence EXCEPT ![f] = "COMPLETION" ]
    /\ UNCHANGED <<lifecycle, stamped, planVars, calls>>

\* ... risk evidence only before the owner's approval, read before the upload.
UploadRiskEvidence(r) ==
    /\ Asked(r)
    /\ ~stamped
    /\ About(r, "insert", "none")
    /\ OnlyCalls

InsertRiskEvidence(r) ==
    /\ At(r, "insert")
    /\ \E f \in Files : evidence[f] = "NONE" /\ evidence' = [ evidence EXCEPT ![f] = "RISK" ]
    /\ Done(r)
    /\ UNCHANGED <<lifecycle, stamped, planVars>>

\* evidenceService.Delete: the row, ...
DeleteEvidence(r) ==
    /\ Asked(r)
    /\ \E f \in Rows(evidence) : About(r, "checkLock", f)
    /\ OnlyCalls

\* ... then the plan or the stamp that locks it, ...
CheckLock(r) ==
    /\ At(r, "checkLock")
    /\ evidence[calls[r].file] = "COMPLETION" => plan # "COMPLETED"
    /\ evidence[calls[r].file] = "RISK" => ~stamped
    /\ Goto(r, "delete")
    /\ OnlyCalls

\* ... and the DELETE, guarded by neither.
DeleteRow(r) ==
    /\ At(r, "delete")
    /\ evidence' = [ evidence EXCEPT ![calls[r].file] = "GONE" ]
    /\ Done(r)
    /\ UNCHANGED <<lifecycle, stamped, planVars>>

\* The request ends early, as in RiskWorkflow.
GiveUp(r) == calls[r].pc # "idle" /\ Done(r) /\ OnlyCalls

RequestStep(r) ==
    \/ UpdateStep(r) \/ ReadForEdit(r) \/ ApplyEdit(r)
    \/ CompletePlan(r) \/ CheckSteps(r) \/ CheckEvidence(r) \/ WriteCompletion(r)
    \/ UploadCompletionEvidence(r) \/ UploadRiskEvidence(r) \/ InsertRiskEvidence(r)
    \/ DeleteEvidence(r) \/ CheckLock(r) \/ DeleteRow(r) \/ GiveUp(r)

Next == RiskMoves \/ StampOwnerApproval \/ \E r \in Requests : RequestStep(r)

Spec == Init /\ [][Next]_vars

=============================================================================
