-------------------------- MODULE ActionPlanProofs --------------------------
(***************************************************************************)
(* Proofs, for any requests, steps and files, of the properties that hold  *)
(* of ActionPlan.                                                          *)
(***************************************************************************)
EXTENDS ActionPlanProperties, FiniteSetTheorems, TLAPS

-----------------------------------------------------------------------------
(* Type correctness. *)

LEMMA IdleType == Idle \in Call
BY DEF Idle, Call, RiskStatuses

LEMMA AboutType ==
    ASSUME NEW r \in Requests, NEW f \in Files \cup { "none" },
           NEW pc \in { "checkSteps", "insert", "checkLock" },
           About(r, pc, f), calls \in [ Requests -> Call ]
    PROVE  calls' \in [ Requests -> Call ]
<1>1. [ Idle EXCEPT !.pc = pc, !.file = f ] \in Call
    BY DEF Idle, Call, RiskStatuses
<1> QED
    BY <1>1 DEF About

LEMMA LifecycleType ==
    ASSUME ActionPlanTypeOK, LifecycleNext
    PROVE  /\ status' \in RiskStatuses
           /\ stage' \in Stages \cup { "NONE" }
           /\ open' \subseteq EscalationIds
           /\ submitted' \in BOOLEAN
<1>1. /\ \A s : RejectionStage(s) \in Stages
      /\ \A s : ResubmitTarget(s) \in RiskStatuses
    BY DEF RejectionStage, ResubmitTarget, Stages, RiskStatuses
<1> USE DEF ActionPlanTypeOK, Move
<1>2. CASE ApproveByOwner
    BY <1>2 DEF ApproveByOwner, RiskStatuses
<1>3. CASE ApproveByManagement
    BY <1>3 DEF ApproveByManagement, RiskStatuses
<1>4. CASE ApproveByCompliance
    BY <1>4 DEF ApproveByCompliance, RiskStatuses
<1>5. CASE SendBack
    BY <1>1, <1>5 DEF SendBack, RiskStatuses
<1>6. CASE SubmitAgain
    BY <1>1, <1>6 DEF SubmitAgain
<1>7. CASE Amend \/ Submit \/ Withdraw
    BY <1>7 DEF Amend, Submit, Withdraw, RiskStatuses
<1>8. CASE RaiseEscalation
    BY <1>8 DEF RaiseEscalation, RiskStatuses
<1>9. CASE AnswerEscalation
    BY <1>9 DEF AnswerEscalation, RiskStatuses
<1>10. CASE CloseEscalation
    BY <1>10 DEF CloseEscalation
<1> QED
    BY <1>2, <1>3, <1>4, <1>5, <1>6, <1>7, <1>8, <1>9, <1>10 DEF LifecycleNext

LEMMA TypeInit == Init => ActionPlanTypeOK
<1> SUFFICES ASSUME Init PROVE ActionPlanTypeOK
    OBVIOUS
<1>1. steps \in [ StepIds -> { "NONE", "PENDING", "COMPLETED", "GONE" } ]
    BY DEF Init
<1> QED
    BY <1>1, IdleType DEF Init, LifecycleInit, ActionPlanTypeOK, RiskStatuses

\* The columns a request writes keep their types.
LEMMA ReconciledType ==
    ASSUME ActionPlanTypeOK, NEW call, NEW new
    PROVE  Reconciled(call, new) \in [ StepIds -> { "NONE", "PENDING", "COMPLETED", "GONE" } ]
BY DEF Reconciled, ActionPlanTypeOK

LEMMA TypeNext == ActionPlanTypeOK /\ [Next]_vars => ActionPlanTypeOK'
<1> SUFFICES ASSUME ActionPlanTypeOK, [Next]_vars PROVE ActionPlanTypeOK'
    OBVIOUS
<1> USE DEF ActionPlanTypeOK
<1>1. CASE UNCHANGED vars
    BY <1>1 DEF vars, lifecycle, planVars
<1>2. CASE RiskMoves
    BY <1>2, LifecycleType DEF RiskMoves, planVars
<1>3. CASE StampOwnerApproval
    BY <1>3 DEF StampOwnerApproval, lifecycle, planVars
<1>4. ASSUME NEW r \in Requests, RequestStep(r) PROVE ActionPlanTypeOK'
  <2> USE DEF OnlyCalls, lifecycle, planVars
  <2>1. CASE UpdateStep(r)
    BY <2>1 DEF UpdateStep, StepStatuses, WriteSteps, AllStepsCompleted
  <2>2. CASE ReadForEdit(r)
    <3>1. PICK sent \in SUBSET (StepIds \ Unused), fresh \in BOOLEAN :
             calls' = [ calls EXCEPT ![r] =
                [ Idle EXCEPT !.pc = "edit", !.expected = status, !.sent = sent, !.fresh = fresh,
                              !.to = IF status = "IN_REMEDIATION" THEN "PENDING_AMENDMENT"
                                                                  ELSE status ] ]
        BY <2>2 DEF ReadForEdit
    <3>2. [ Idle EXCEPT !.pc = "edit", !.expected = status, !.sent = sent, !.fresh = fresh,
                        !.to = IF status = "IN_REMEDIATION" THEN "PENDING_AMENDMENT"
                                                            ELSE status ] \in Call
      <4>1. sent \in SUBSET StepIds
          OBVIOUS
      <4>2. (IF status = "IN_REMEDIATION" THEN "PENDING_AMENDMENT" ELSE status)
                \in RiskStatuses
          BY DEF RiskStatuses
      <4> QED
          BY <4>1, <4>2 DEF Idle, Call
    <3>3. calls' \in [ Requests -> Call ]
        BY <3>1, <3>2, ZenonT(20)
    <3> QED
        BY <3>3, <2>2 DEF ReadForEdit
  <2>3. CASE ApplyEdit(r)
    <3>1. status' \in RiskStatuses
        BY <2>3 DEF ApplyEdit, At, Call
    <3>2. /\ steps' \in [ StepIds -> { "NONE", "PENDING", "COMPLETED", "GONE" } ]
          /\ finished' \in BOOLEAN
        BY <2>3, ReconciledType DEF ApplyEdit, WriteSteps, AllStepsCompleted
    <3> QED
        BY <3>1, <3>2, <2>3, IdleType DEF ApplyEdit, Done
  <2>4. CASE CompletePlan(r)
    BY <2>4, AboutType DEF CompletePlan
  <2>5. CASE CheckSteps(r) \/ CheckEvidence(r)
    BY <2>5 DEF CheckSteps, CheckEvidence, Goto, Call
  <2>6. CASE WriteCompletion(r)
    BY <2>6, IdleType DEF WriteCompletion, Done
  <2>7. CASE UploadCompletionEvidence(r)
    BY <2>7 DEF UploadCompletionEvidence
  <2>8. CASE UploadRiskEvidence(r)
    BY <2>8, AboutType DEF UploadRiskEvidence
  <2>9. CASE InsertRiskEvidence(r)
    BY <2>9, IdleType DEF InsertRiskEvidence, Done
  <2>10. CASE DeleteEvidence(r)
    BY <2>10, AboutType DEF DeleteEvidence, Rows
  <2>11. CASE CheckLock(r)
    BY <2>11 DEF CheckLock, Goto, Call
  <2>12. CASE DeleteRow(r)
    BY <2>12, IdleType DEF DeleteRow, Done
  <2>13. CASE GiveUp(r)
    BY <2>13, IdleType DEF GiveUp, Done
  <2> QED
    BY <1>4, <2>1, <2>2, <2>3, <2>4, <2>5, <2>6, <2>7, <2>8, <2>9, <2>10, <2>11, <2>12,
       <2>13 DEF RequestStep
<1> QED
    BY <1>1, <1>2, <1>3, <1>4 DEF Next

\* The risk, the plan, its steps, the evidence and the requests keep their types.
THEOREM TypeCorrect == Spec => []ActionPlanTypeOK
BY TypeInit, TypeNext, PTL DEF Spec

-----------------------------------------------------------------------------
(* The inductive invariant: what a completion has checked stays true of the *)
(* history, and an edit in flight names a step or brings a new one.         *)

FinishedIsRecorded == AllStepsCompleted => finished

ChecksWerePassed ==
    \A r \in Requests : calls[r].pc \in { "checkEvidence", "complete" } => finished

EditsHaveSteps ==
    \A r \in Requests : calls[r].pc = "edit" => calls[r].sent # {} \/ calls[r].fresh

IInv ==
    /\ ActionPlanTypeOK
    /\ CompletedPlanWasFinished
    /\ PlanKeepsSteps
    /\ FinishedIsRecorded
    /\ ChecksWerePassed
    /\ EditsHaveSteps

LEMMA InvInit == Init => IInv
<1> SUFFICES ASSUME Init PROVE IInv
    OBVIOUS
<1>1. PICK first \in (SUBSET StepIds) \ { {} } :
         steps = [ s \in StepIds |-> IF s \in first THEN "PENDING" ELSE "NONE" ]
    BY DEF Init
<1>2. PICK s : s \in first
    OBVIOUS
<1>3. s \in StepIds /\ steps[s] = "PENDING"
    BY <1>1, <1>2
<1>4. s \in Rows(steps)
    BY <1>1, <1>3 DEF Rows
<1>5. ~AllStepsCompleted
    BY <1>3, <1>4 DEF AllStepsCompleted
<1> QED
    BY <1>4, <1>5, TypeInit DEF Init, IInv, CompletedPlanWasFinished, PlanKeepsSteps,
       FinishedIsRecorded, ChecksWerePassed, EditsHaveSteps, Idle

\* A sound edit leaves steps: of the ids it sends, those still on the plan stay,
\* and for each of the others, as for a step without an id, it inserts a row.
LEMMA EditLeavesSteps ==
    ASSUME ActionPlanTypeOK, NEW call \in Call, call.sent # {} \/ call.fresh,
           NEW new \in SUBSET Unused,
           Cardinality(new) = InsertedSteps(call)
    PROVE  Rows(Reconciled(call, new)) # {}
<1>1. DOMAIN Reconciled(call, new) = StepIds /\ DOMAIN steps = StepIds
    BY DEF Reconciled, ActionPlanTypeOK
<1>2. ASSUME NEW s \in new PROVE s \in Rows(Reconciled(call, new))
    BY <1>1, <1>2 DEF Reconciled, Rows, Unused
<1>3. ASSUME NEW s \in call.sent \cap Rows(steps) PROVE s \in Rows(Reconciled(call, new))
    BY <1>1, <1>3 DEF Reconciled, Rows
<1>4. IsFiniteSet(call.sent \ Rows(steps))
    BY StepsAssumption, FS_Subset DEF Call
<1>5. Cardinality(call.sent \ Rows(steps)) \in Nat
    BY <1>4, FS_CardinalityType
<1>6. CASE call.fresh
  <2>1. Cardinality(new) # 0
      BY <1>5, <1>6 DEF InsertedSteps
  <2>2. new # {}
      BY <2>1, FS_EmptySet
  <2> QED
      BY <1>2, <2>2
<1>7. CASE call.sent \cap Rows(steps) # {}
    BY <1>3, <1>7
<1>8. CASE ~call.fresh /\ call.sent \cap Rows(steps) = {}
  <2>1. call.sent \ Rows(steps) # {}
      BY <1>8
  <2>2. Cardinality(call.sent \ Rows(steps)) # 0
      BY <1>4, <2>1, FS_EmptySet
  <2>3. Cardinality(new) # 0
      BY <1>5, <1>8, <2>2 DEF InsertedSteps
  <2>4. new # {}
      BY <2>3, FS_EmptySet
  <2> QED
      BY <1>2, <2>4
<1> QED
    BY <1>6, <1>7, <1>8

\* Every write of the steps keeps the history.
LEMMA HistoryKept ==
    ASSUME IInv, NEW new, WriteSteps(new)
    PROVE  (finished => finished') /\ FinishedIsRecorded'
BY DEF WriteSteps, FinishedIsRecorded

\* A request that moves on, or ends, leaves what the others have checked.
LEMMA CallsKeep ==
    ASSUME IInv, finished => finished', NEW r \in Requests,
           \A q \in Requests \ { r } : calls'[q] = calls[q],
           calls'[r].pc \in { "checkEvidence", "complete" } => finished',
           calls'[r].pc = "edit" => calls'[r].sent # {} \/ calls'[r].fresh
    PROVE  ChecksWerePassed' /\ EditsHaveSteps'
BY DEF IInv, ChecksWerePassed, EditsHaveSteps

LEMMA InvNext == IInv /\ [Next]_vars => IInv'
<1> SUFFICES ASSUME IInv, [Next]_vars PROVE IInv'
    OBVIOUS
<1>1. ActionPlanTypeOK'
    BY TypeNext DEF IInv
<1>2. calls \in [ Requests -> Call ]
    BY DEF IInv, ActionPlanTypeOK
<1>3. ASSUME UNCHANGED <<plan, steps, finished>>
      PROVE  (CompletedPlanWasFinished /\ PlanKeepsSteps /\ FinishedIsRecorded)'
    BY <1>3 DEF IInv, CompletedPlanWasFinished, PlanKeepsSteps, FinishedIsRecorded,
       AllStepsCompleted, Rows
<1>4. ASSUME UNCHANGED <<finished, calls>> PROVE (ChecksWerePassed /\ EditsHaveSteps)'
    BY <1>4 DEF IInv, ChecksWerePassed, EditsHaveSteps
<1>5. CASE UNCHANGED vars
    BY <1>1, <1>3, <1>4, <1>5 DEF vars, planVars, IInv
<1>6. CASE RiskMoves \/ StampOwnerApproval
    BY <1>1, <1>3, <1>4, <1>6 DEF RiskMoves, StampOwnerApproval, planVars, IInv
<1>7. ASSUME NEW r \in Requests, RequestStep(r) PROVE IInv'
  <2>1. CASE UpdateStep(r)
    <3>1. PICK s \in Rows(steps), to \in StepStatuses : WriteSteps([ steps EXCEPT ![s] = to ])
        BY <2>1 DEF UpdateStep
    <3>2. (finished => finished') /\ FinishedIsRecorded'
        BY <3>1, HistoryKept
    <3>3. DOMAIN steps = StepIds
        BY DEF IInv, ActionPlanTypeOK
    <3>4. s \in Rows(steps')
        BY <3>1, <3>3 DEF WriteSteps, Rows, StepStatuses
    <3>5. (ChecksWerePassed /\ EditsHaveSteps)'
        BY <2>1, <3>2 DEF UpdateStep, IInv, ChecksWerePassed, EditsHaveSteps
    <3> QED
        BY <1>1, <2>1, <3>2, <3>4, <3>5 DEF UpdateStep, IInv, CompletedPlanWasFinished, PlanKeepsSteps
  <2>2. CASE ReadForEdit(r)
    <3>1. (ChecksWerePassed /\ EditsHaveSteps)'
        BY <1>2, <2>2, CallsKeep DEF ReadForEdit, OnlyCalls, planVars, Idle
    <3> QED
        BY <1>1, <1>3, <2>2, <3>1 DEF ReadForEdit, OnlyCalls, planVars, IInv
  <2>3. CASE ApplyEdit(r)
    <3>1. PICK new \in SUBSET Unused :
             /\ Cardinality(new) = InsertedSteps(calls[r])
             /\ WriteSteps(Reconciled(calls[r], new))
        BY <2>3 DEF ApplyEdit
    <3>2. (finished => finished') /\ FinishedIsRecorded'
        BY <3>1, HistoryKept
    <3>3. calls[r] \in Call /\ (calls[r].sent # {} \/ calls[r].fresh)
        BY <1>2, <2>3 DEF ApplyEdit, At, IInv, EditsHaveSteps
    <3>4. PlanKeepsSteps'
        BY <3>1, <3>3, EditLeavesSteps DEF WriteSteps, PlanKeepsSteps, IInv
    <3>5. (ChecksWerePassed /\ EditsHaveSteps)'
        BY <1>2, <2>3, <3>2, CallsKeep DEF ApplyEdit, Done, Idle
    <3> QED
        BY <1>1, <2>3, <3>2, <3>4, <3>5 DEF ApplyEdit, IInv, CompletedPlanWasFinished
  <2>4. CASE CompletePlan(r)
    <3>1. (ChecksWerePassed /\ EditsHaveSteps)'
        BY <1>2, <2>4, CallsKeep DEF CompletePlan, About, OnlyCalls, planVars, Idle
    <3> QED
        BY <1>1, <1>3, <2>4, <3>1 DEF CompletePlan, OnlyCalls, planVars, IInv
  <2>5. CASE CheckSteps(r)
    <3>1. finished
        BY <2>5 DEF CheckSteps, IInv, FinishedIsRecorded
    <3>2. (ChecksWerePassed /\ EditsHaveSteps)'
        BY <1>2, <2>5, <3>1, CallsKeep DEF CheckSteps, Goto, OnlyCalls, planVars, Call
    <3> QED
        BY <1>1, <1>3, <2>5, <3>2 DEF CheckSteps, OnlyCalls, planVars, IInv
  <2>6. CASE CheckEvidence(r)
    <3>1. finished
        BY <2>6 DEF CheckEvidence, At, IInv, ChecksWerePassed
    <3>2. (ChecksWerePassed /\ EditsHaveSteps)'
        BY <1>2, <2>6, <3>1, CallsKeep DEF CheckEvidence, Goto, OnlyCalls, planVars, Call
    <3> QED
        BY <1>1, <1>3, <2>6, <3>2 DEF CheckEvidence, OnlyCalls, planVars, IInv
  <2>7. CASE WriteCompletion(r)
    <3>1. finished
        BY <2>7 DEF WriteCompletion, At, IInv, ChecksWerePassed
    <3>2. (ChecksWerePassed /\ EditsHaveSteps)'
        BY <1>2, <2>7, <3>1, CallsKeep DEF WriteCompletion, Done, Idle
    <3>3. (PlanKeepsSteps /\ FinishedIsRecorded)'
        BY <2>7 DEF WriteCompletion, IInv, PlanKeepsSteps, FinishedIsRecorded, AllStepsCompleted, Rows
    <3> QED
        BY <1>1, <2>7, <3>1, <3>2, <3>3 DEF WriteCompletion, IInv, CompletedPlanWasFinished
  <2>8. CASE UploadCompletionEvidence(r)
    BY <1>1, <1>3, <1>4, <2>8 DEF UploadCompletionEvidence, planVars, IInv
  <2>9. CASE UploadRiskEvidence(r)
    <3>1. (ChecksWerePassed /\ EditsHaveSteps)'
        BY <1>2, <2>9, CallsKeep DEF UploadRiskEvidence, About, OnlyCalls, planVars, Idle
    <3> QED
        BY <1>1, <1>3, <2>9, <3>1 DEF UploadRiskEvidence, OnlyCalls, planVars, IInv
  <2>10. CASE DeleteEvidence(r)
    <3>1. PICK f \in Rows(evidence) : About(r, "checkLock", f)
        BY <2>10 DEF DeleteEvidence
    <3>2. (ChecksWerePassed /\ EditsHaveSteps)'
        BY <1>2, <2>10, <3>1, CallsKeep DEF DeleteEvidence, About, OnlyCalls, planVars, Idle
    <3> QED
        BY <1>1, <1>3, <2>10, <3>2 DEF DeleteEvidence, OnlyCalls, planVars, IInv
  <2>11. CASE InsertRiskEvidence(r) \/ DeleteRow(r) \/ GiveUp(r)
    <3>1. (ChecksWerePassed /\ EditsHaveSteps)'
        BY <1>2, <2>11, CallsKeep DEF InsertRiskEvidence, DeleteRow, GiveUp, Done, OnlyCalls,
           planVars, Idle
    <3> QED
        BY <1>1, <1>3, <2>11, <3>1 DEF InsertRiskEvidence, DeleteRow, GiveUp, OnlyCalls, planVars, IInv
  <2>12. CASE CheckLock(r)
    <3>1. (ChecksWerePassed /\ EditsHaveSteps)'
        BY <1>2, <2>12, CallsKeep DEF CheckLock, Goto, OnlyCalls, planVars, Call
    <3> QED
        BY <1>1, <1>3, <2>12, <3>1 DEF CheckLock, OnlyCalls, planVars, IInv
  <2> QED
    BY <1>7, <2>1, <2>2, <2>3, <2>4, <2>5, <2>6, <2>7, <2>8, <2>9, <2>10, <2>11, <2>12
       DEF RequestStep
<1> QED
    BY <1>5, <1>6, <1>7 DEF Next

LEMMA Invariance == Spec => []IInv
BY InvInit, InvNext, PTL DEF Spec

-----------------------------------------------------------------------------
\* A COMPLETED plan had all its steps COMPLETED at some moment.
THEOREM CompletedPlan == Spec => []CompletedPlanWasFinished
<1>1. IInv => CompletedPlanWasFinished
    BY DEF IInv
<1> QED
    BY <1>1, Invariance, PTL

\* No edit, however old its form, takes the last step off the plan.
THEOREM StepsRemain == Spec => []PlanKeepsSteps
<1>1. IInv => PlanKeepsSteps
    BY DEF IInv
<1> QED
    BY <1>1, Invariance, PTL

\* Only the guarded UPDATE completes a plan, and it looks at the evidence again.
THEOREM CompletionEvidence == Spec => CompletedWithEvidence
<1>1. [Next]_vars => [plan' = "COMPLETED" /\ plan # "COMPLETED" => CompletionFiles # {}]_vars
  <2> SUFFICES ASSUME Next, plan' # plan PROVE CompletionFiles # {}
      BY DEF vars, planVars
  <2>1. PICK r \in Requests : RequestStep(r)
      BY DEF Next, RiskMoves, StampOwnerApproval, planVars
  <2> QED
      BY <2>1 DEF RequestStep, UpdateStep, ReadForEdit, ApplyEdit, CompletePlan, CheckSteps,
         CheckEvidence, WriteCompletion, EvidenceExists, UploadCompletionEvidence,
         UploadRiskEvidence, InsertRiskEvidence, DeleteEvidence, CheckLock, DeleteRow, GiveUp,
         OnlyCalls, planVars
<1> QED
    BY <1>1, PTL DEF Spec, CompletedWithEvidence

\* Edits keep the status of the steps they leave, and UpdateStep holds the risk.
THEOREM StepProgress == Spec => ProgressOnlyUnderRemediation
<1>1. ActionPlanTypeOK /\ [Next]_vars =>
        [\A s \in Rows(steps) : steps'[s] \notin { steps[s], "GONE" } => Remediating]_vars
  <2> SUFFICES ASSUME ActionPlanTypeOK, Next, NEW s \in Rows(steps),
                      steps'[s] \notin { steps[s], "GONE" }
               PROVE  Remediating
      BY DEF vars, planVars
  <2>1. PICK r \in Requests : RequestStep(r)
      BY DEF Next, RiskMoves, StampOwnerApproval, planVars
  <2>2. CASE UpdateStep(r)
      BY <2>2 DEF UpdateStep, StepsModifiable
  <2>3. CASE ApplyEdit(r)
    <3>1. PICK new \in SUBSET Unused :
             steps' = Reconciled(calls[r], new)
        BY <2>3 DEF ApplyEdit, WriteSteps
    <3>2. s \in StepIds /\ s \notin new
        BY <3>1 DEF Rows, Unused, ActionPlanTypeOK
    <3> QED
        BY <3>1, <3>2 DEF Reconciled
  <2> QED
      BY <2>1, <2>2, <2>3 DEF RequestStep, ReadForEdit, CompletePlan, CheckSteps,
         CheckEvidence, WriteCompletion, UploadCompletionEvidence, UploadRiskEvidence,
         InsertRiskEvidence, DeleteEvidence, CheckLock, DeleteRow, GiveUp, OnlyCalls, planVars
<1> QED
    BY <1>1, TypeCorrect, PTL DEF Spec, ProgressOnlyUnderRemediation

=============================================================================
